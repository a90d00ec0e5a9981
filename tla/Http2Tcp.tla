------------------------------ MODULE Http2Tcp ------------------------------
(***************************************************************************)
(* One CONNECT tunnel over HTTP/2 (server/http2/tcp.rs): two loops of one  *)
(* request task, joined by try_join!, raced with an idle timer.  Bytes are *)
(* named by their offset in the stream, as in TcpRelay.                    *)
(***************************************************************************)
EXTENDS Naturals

CONSTANTS
    MaxUp,      \* bound: bytes the client sends
    MaxDown,    \* bound: bytes the target sends
    Window,     \* receive window of the HTTP/2 stream
    ReadChunk   \* READ_CHUNK_SIZE

ASSUME BoundAssumption ==
    /\ MaxUp \in Nat /\ MaxDown \in Nat
    /\ Window \in Nat \ {0} /\ ReadChunk \in Nat \ {0}

VARIABLES
    task,       \* "connecting", "running", "over", "failed"
    arrived,    \* client bytes the h2 connection has received
    fin,        \* how the client ended its side: "open", "fin", "reset"
    up,         \* client_to_target: "data", "write", "release", "done"
    taken,      \* client bytes body.data() has returned
    released,   \* client bytes whose flow-control capacity was released
    received,   \* client bytes written to the target
    shut,       \* the target socket was shut down for writing
    down,       \* target_to_client: "read", "send", "finish", "done"
    fetched,    \* target bytes read
    eof,        \* the end of the target's stream was read
    limit,      \* response offset the client's flow control allows
    got,        \* response bytes handed to h2
    finished    \* END_STREAM was handed to h2

upVars == <<up, taken, released, received, shut>>
downVars == <<down, fetched, eof, got, finished>>
vars == <<task, arrived, fin, upVars, downVars, limit>>

\* Offsets never overtake the ones they follow.
TypeOK ==
    /\ task \in {"connecting", "running", "over", "failed"}
    /\ arrived \in 0 .. MaxUp
    /\ taken \in 0 .. arrived /\ received \in 0 .. taken /\ released \in 0 .. taken
    /\ fetched \in 0 .. MaxDown /\ got \in 0 .. fetched /\ limit \in 0 .. MaxDown
    /\ fin \in {"open", "fin", "reset"}
    /\ up \in {"data", "write", "release", "done"}
    /\ down \in {"read", "send", "finish", "done"}
    /\ shut \in BOOLEAN /\ eof \in BOOLEAN /\ finished \in BOOLEAN

Init ==
    /\ task = "connecting"
    /\ arrived = 0 /\ fin = "open" /\ limit = 0
    /\ up = "data" /\ taken = 0 /\ released = 0 /\ received = 0 /\ shut = FALSE
    /\ down = "read" /\ fetched = 0 /\ eof = FALSE /\ got = 0 /\ finished = FALSE

-----------------------------------------------------------------------------
(* The client, behind the h2 connection.                                   *)

Live == task \in {"connecting", "running"}

\* h2 accepts no more than the window that was not yet released.
ClientData(n) ==
    /\ Live /\ fin = "open"
    /\ arrived + n <= MaxUp
    /\ arrived + n <= released + Window
    /\ arrived' = arrived + n
    /\ UNCHANGED <<task, fin, upVars, downVars, limit>>

ClientEnds ==
    /\ Live /\ fin = "open"
    /\ fin' \in {"fin", "reset"}
    /\ UNCHANGED <<task, arrived, upVars, downVars, limit>>

ClientGrants ==
    /\ Live
    /\ limit < MaxDown
    /\ limit' = limit + 1
    /\ UNCHANGED <<task, arrived, fin, upVars, downVars>>

\* resolve_and_connect ends; the 200 response needs no flow control.
Connected ==
    /\ task = "connecting"
    /\ task' \in {"running", "over"}
    /\ UNCHANGED <<arrived, fin, upVars, downVars, limit>>

-----------------------------------------------------------------------------
(* client_to_target                                                        *)

\* FAULT: the capacity of a chunk is released before it has been written.
DataReleased ==
    /\ task = "running" /\ up = "data" /\ fin # "reset"
    /\ \E to \in (taken + 1) .. arrived : taken' = to
    /\ released' = taken'
    /\ up' = "write"
    /\ UNCHANGED <<task, arrived, fin, received, shut, downVars, limit>>

\* body.data() returns a chunk ...
Data ==
    /\ task = "running" /\ up = "data" /\ fin # "reset"
    /\ \E to \in (taken + 1) .. arrived : taken' = to
    /\ up' = "write"
    /\ UNCHANGED <<task, arrived, fin, released, received, shut, downVars, limit>>

\* ... write_all writes it to the target ...
Write ==
    /\ task = "running" /\ up = "write"
    /\ received' = taken
    /\ up' = "release"
    /\ UNCHANGED <<task, arrived, fin, taken, released, shut, downVars, limit>>

\* ... and its flow-control capacity goes back to the client.
Release ==
    /\ task = "running" /\ up = "release"
    /\ released' = taken
    /\ up' = "data"
    /\ UNCHANGED <<task, arrived, fin, taken, received, shut, downVars, limit>>

\* data() returns None behind the last chunk.
Shutdown ==
    /\ task = "running" /\ up = "data"
    /\ fin = "fin" /\ taken = arrived
    /\ shut' = TRUE
    /\ up' = "done"
    /\ UNCHANGED <<task, arrived, fin, taken, released, received, downVars, limit>>

-----------------------------------------------------------------------------
(* target_to_client                                                        *)

\* A read returns n bytes, or none at the end of the stream.
Read(n) ==
    /\ task = "running" /\ down = "read"
    /\ fetched + n <= MaxDown
    /\ fetched' = fetched + n
    /\ eof' = (n = 0)
    /\ down' = IF n = 0 THEN "finish" ELSE "send"
    /\ UNCHANGED <<task, arrived, fin, upVars, got, finished, limit>>

\* FAULT: send_data sends the first part and returns.
SendOnce ==
    /\ task = "running" /\ down = "send"
    /\ got < limit
    /\ got' = IF fetched < limit THEN fetched ELSE limit
    /\ down' = "read"
    /\ UNCHANGED <<task, arrived, fin, upVars, fetched, eof, finished, limit>>

\* FAULT: the capacity is taken, not what is left of the chunk.
SendCapacity ==
    /\ task = "running" /\ down = "send"
    /\ got < limit
    /\ got' = limit
    /\ down' = IF got' >= fetched THEN "read" ELSE "send"
    /\ UNCHANGED <<task, arrived, fin, upVars, fetched, eof, finished, limit>>

\* send_data sends what the capacity allows, until all has been sent.
Send ==
    /\ task = "running" /\ down = "send"
    /\ got < limit
    /\ got' = IF fetched < limit THEN fetched ELSE limit
    /\ down' = IF got' = fetched THEN "read" ELSE "send"
    /\ UNCHANGED <<task, arrived, fin, upVars, fetched, eof, finished, limit>>

\* An empty chunk with END_STREAM needs no capacity.
SendEnd ==
    /\ task = "running" /\ down = "finish"
    /\ finished' = TRUE
    /\ down' = "done"
    /\ UNCHANGED <<task, arrived, fin, upVars, fetched, eof, got, limit>>

-----------------------------------------------------------------------------
\* try_join! ends with both loops.
Joined ==
    /\ task = "running" /\ up = "done" /\ down = "done"
    /\ task' = "over"
    /\ UNCHANGED <<arrived, fin, upVars, downVars, limit>>

\* A read, write, h2 error or reset ends the relay, or the idle timer does: the
\* other loop is dropped where it is.  A failed write may have written a part.
Fails ==
    /\ task = "running"
    /\ task' = "failed"
    /\ received' \in received .. taken
    /\ UNCHANGED <<arrived, fin, up, taken, released, shut, downVars, limit>>

Task ==
    \/ Connected \/ Data \/ Write \/ Release \/ Shutdown
    \/ Send \/ SendEnd \/ Joined

Next ==
    \/ \E n \in 1 .. Window : ClientData(n)
    \/ ClientEnds \/ ClientGrants
    \/ Task
    \/ \E n \in 0 .. ReadChunk : Read(n)
    \/ Fails
    \/ ~Live /\ UNCHANGED vars

Spec == Init /\ [][Next]_vars

-----------------------------------------------------------------------------
Up == INSTANCE TcpPipe WITH
    Capacity <- Window, sent <- arrived, ended <- fin = "fin", got <- received,
    closed <- shut

Down == INSTANCE TcpPipe WITH
    Capacity <- ReadChunk, sent <- fetched, ended <- eof, closed <- finished

\* The HTTP/2 relay is the same pipe as the HTTP/3 one: what reaches the target
\* is a prefix of the request body with at most one receive window behind it,
\* because capacity is released after the write, and the target is shut down
\* only behind the last byte.
UploadIsPipe == Up!Spec

\* The response body is a prefix of what the target sent, with at most one
\* read buffer behind it, and END_STREAM follows the last byte.
DownloadIsPipe == Down!Spec
=============================================================================
