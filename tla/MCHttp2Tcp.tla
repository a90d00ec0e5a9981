----------------------------- MODULE MCHttp2Tcp -----------------------------
(* A small instance of Http2Tcp; the configuration gives every constant.   *)
EXTENDS Http2Tcp
=============================================================================
