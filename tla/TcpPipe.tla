------------------------------ MODULE TcpPipe ------------------------------
(***************************************************************************)
(* What a CONNECT tunnel promises for one direction of its byte stream: a  *)
(* bounded, loss-free, in-order pipe whose end of stream is passed on only *)
(* after every byte.  Bytes are named by their offset, so the bytes that   *)
(* were delivered are always the first `got` of the `sent` ones.           *)
(***************************************************************************)
EXTENDS Naturals

CONSTANT Capacity   \* bytes the pipe may hold

VARIABLES
    sent,       \* offset of the last byte the sender put in
    ended,      \* the sender finished its stream
    got,        \* offset of the last byte the receiver was given
    closed      \* the receiver was told of the end of stream

vars == <<sent, ended, got, closed>>

Init == sent = 0 /\ ended = FALSE /\ got = 0 /\ closed = FALSE

Send ==
    /\ ~ended
    /\ \E to \in (sent + 1) .. (got + Capacity) : sent' = to
    /\ UNCHANGED <<ended, got, closed>>

End ==
    /\ ended' = TRUE
    /\ UNCHANGED <<sent, got, closed>>

Deliver ==
    /\ ~closed
    /\ \E to \in (got + 1) .. sent : got' = to
    /\ UNCHANGED <<sent, ended, closed>>

Close ==
    /\ ended
    /\ got = sent
    /\ closed' = TRUE
    /\ UNCHANGED <<sent, ended, got>>

Next == Send \/ End \/ Deliver \/ Close

Spec == Init /\ [][Next]_vars
=============================================================================
