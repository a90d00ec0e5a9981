---------------------------- MODULE MCTcpRelay ----------------------------
(* Small instances of TcpRelay: the configurations give every constant.    *)
EXTENDS TcpRelay
=============================================================================
