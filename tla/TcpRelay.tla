------------------------------ MODULE TcpRelay ------------------------------
(***************************************************************************)
(* One CONNECT tunnel over HTTP/3: the shard's handling of its stream      *)
(* (server/shard_tunnels.rs, poll_http3_events), and the connect, writer   *)
(* and reader tasks of tunnel/tcp.rs.                                      *)
(*                                                                         *)
(* Actors: the client, the shard thread, the connect task, the writer task *)
(* and the reader task.  The shard shares with the tasks two atomics, the  *)
(* byte and buffer credits and two channels; a step of an actor makes one  *)
(* access to them.  Bytes are named by their offset in the stream, and a   *)
(* chunk is the interval of offsets it carries.                            *)
(***************************************************************************)
EXTENDS Naturals, Sequences, FiniteSets

CONSTANTS
    MaxUp,          \* bound: bytes the client sends
    MaxDown,        \* bound: bytes the target sends
    MaxEmpty,       \* bound: empty DATA frames in a row
    QuicWindow,     \* bytes QUIC buffers for the stream
    MaxClient,      \* MAX_BUFFERED_CLIENT_BYTES
    BodyLimit,      \* length of the body buffer of relay_tcp_request_body
    ReadChunk,      \* TCP_READ_CHUNK_SIZE
    MaxResponse,    \* MAX_BUFFERED_RESPONSE_BYTES
    EventSlots,     \* TCP_RELAY_QUEUE_CAPACITY
    FramingRetries, \* MAX_FRAMING_RETRIES
    Faults          \* failures that happen: "write", "read", "reset", "stop", "idle"

ASSUME BoundAssumption ==
    /\ {MaxUp, MaxDown, MaxEmpty} \subseteq Nat
    /\ {QuicWindow, MaxClient, BodyLimit, ReadChunk, MaxResponse, EventSlots,
        FramingRetries} \subseteq Nat \ {0}
    /\ ReadChunk <= MaxResponse

VARIABLES
    arrived,    \* client bytes QUIC has received
    empty,      \* empty DATA frames that stand before the next offset
    fin,        \* how the client ended its side: "open", "fin" or "reset"
    stopped,    \* the client no longer takes the response
    limit,      \* response offset the client's flow control allows
    got,        \* response bytes handed to QUIC
    taken,      \* client bytes taken from QUIC
    armed,      \* quiche raises the next Data event of the stream
    fin_seen,   \* the Finished event has been raised
    pc,         \* where the shard is
    ret,        \* where its subroutines return to
    cap,        \* capacity the body loop has found
    needs,      \* needs_poll of resume_tcp_request_body
    attempt,    \* iteration of resume_tcp_request_body
    resumes,    \* the stream is in tcp_read_resumes
    phase,      \* "pending", "blocked" (200 not sent), "open", "clean", "closed",
                \* or "idle": closed by the sweep, the response with a FIN
    early,      \* early_data of the pending tunnel
    client_finished, upstream_finished, response_finished, writer_finished,
    pending_responses,
    connect,    \* the connect task: "running", then its result, then "done"
    queued,     \* queued_client_bytes
    waiter,     \* client_capacity_waiter
    commands,   \* the writer's command channel
    events,     \* the shard's channel of TcpRelayEvent
    writer,     \* where the writer task is
    chunk,      \* the command the writer is executing
    notice,     \* the event the writer is sending
    reader,     \* where the reader task is
    piece,      \* the event the reader is sending
    slots,      \* read buffers in the recycle pool
    credit,     \* permits of response_credit
    aborted,    \* the tunnel was dropped: its tasks have been aborted
    received,   \* client bytes written to the target socket
    shut,       \* the target socket was shut down for writing
    fetched,    \* target bytes the reader has read
    eof         \* the reader has read the end of the target's stream

clientVars == <<arrived, empty, fin, stopped, limit>>
h3Vars == <<taken, armed, fin_seen>>
loopVars == <<ret, cap, needs, attempt>>
tunnelVars == <<phase, early, client_finished, upstream_finished,
                response_finished, writer_finished, pending_responses, got>>
writerVars == <<writer, chunk, notice, received, shut>>
readerVars == <<reader, piece, fetched, eof>>

vars == <<clientVars, h3Vars, pc, loopVars, resumes, tunnelVars, connect, queued,
          waiter, commands, events, writerVars, readerVars, slots, credit, aborted>>

ReadBuffers == MaxResponse \div ReadChunk

Chunks(n) == [from : 0 .. n, to : 0 .. n]

Finish == [from |-> 0, to |-> 0]    \* TcpCommand::Finish

Event(kind) == [kind |-> kind, from |-> 0, to |-> 0]

Kinds == {"Connected", "ConnectFailed", "Data", "Writable", "WriteFinished",
          "Eof", "Error"}

Events == [kind : Kinds, from : 0 .. MaxDown, to : 0 .. MaxDown]

TypeOK ==
    /\ {arrived, taken, received} \subseteq 0 .. MaxUp
    /\ {got, fetched} \subseteq 0 .. MaxDown
    /\ limit \in 0 .. MaxDown + 1
    /\ empty \in [0 .. MaxUp -> 0 .. MaxEmpty]
    /\ fin \in {"open", "fin", "reset"}
    /\ {stopped, armed, fin_seen, needs, resumes, client_finished,
        upstream_finished, response_finished, writer_finished, waiter, aborted,
        shut, eof} \subseteq BOOLEAN
    /\ pc \in {"select", "batch", "poll", "polled", "relay", "capacity", "arm",
               "recheck", "recv", "service", "bodies", "flush"}
    /\ ret \in [poll : {"service", "polled"}, relay : {"poll", "resume"},
                cap : {"relay", "data", "resume"},
                resume : {"batch", "bodies", "flush"}]
    /\ cap \in 0 .. MaxClient
    /\ queued \in 0 .. MaxClient
    /\ attempt \in 0 .. FramingRetries
    /\ phase \in {"pending", "blocked", "open", "clean", "closed", "idle"}
    /\ {early, commands} \subseteq Seq(Chunks(MaxUp))
    /\ pending_responses \in Seq(Chunks(MaxDown))
    /\ connect \in {"running", "Connected", "ConnectFailed", "done"}
    /\ events \in Seq(Events) /\ Len(events) <= EventSlots
    /\ writer \in {"none", "recv", "write", "free", "test", "wake", "shutdown",
                   "report", "done"}
    /\ reader \in {"none", "slot", "credit", "read", "send", "report", "done"}
    /\ chunk \in Chunks(MaxUp)
    /\ {notice, piece} \subseteq Events
    /\ slots \in 0 .. ReadBuffers
    /\ credit \in 0 .. MaxResponse

Init ==
    /\ arrived = 0 /\ taken = 0 /\ received = 0 /\ got = 0 /\ fetched = 0
    /\ limit \in 0 .. 1
    /\ empty = [o \in 0 .. MaxUp |-> 0]
    /\ fin = "open" /\ stopped = FALSE
    /\ armed = TRUE /\ fin_seen = FALSE
    /\ pc = "select" /\ cap = 0 /\ needs = FALSE /\ attempt = 0 /\ resumes = FALSE
    /\ ret = [poll |-> "service", relay |-> "poll", cap |-> "relay", resume |-> "batch"]
    /\ phase = "pending" /\ early = << >> /\ connect = "running"
    /\ client_finished = FALSE /\ upstream_finished = FALSE /\ response_finished = FALSE /\ writer_finished = FALSE
    /\ pending_responses = << >>
    /\ queued = 0 /\ waiter = FALSE /\ commands = << >> /\ events = << >>
    /\ writer = "none" /\ chunk = Finish /\ notice = Event("Writable")
    /\ reader = "none" /\ piece = Event("Data")
    /\ slots = ReadBuffers /\ credit = MaxResponse
    /\ aborted = FALSE /\ shut = FALSE /\ eof = FALSE

Gone == phase \in {"clean", "closed", "idle"}

Room == Len(events) < EventSlots

-----------------------------------------------------------------------------
(* The QUIC stream and quiche's HTTP/3 framing, as the shard sees them.    *)

Readable == taken < arrived \/ empty[taken] > 0

\* FAULT: the FIN counts as the end of a stream with unread bytes.
FinishedAtFin == fin = "fin"

\* quic.stream_finished: every byte has been read and the FIN has arrived.
Finished == fin = "fin" /\ ~Readable

\* The last offset recv_body reaches before an empty frame.
RunEnd ==
    CHOOSE o \in (taken + 1) .. arrived :
        /\ o = arrived \/ empty[o] > 0
        /\ \A p \in (taken + 1) .. (o - 1) : empty[p] = 0

Least(m, n) == IF m < n THEN m ELSE n

\* What flow control lets the shard send.
Window == limit - got

-----------------------------------------------------------------------------
(* Dropping the tunnel.                                                    *)

\* The tunnel leaves the table; Drop aborts its tasks.
Drop(how) ==
    /\ phase' = how
    /\ aborted' = TRUE
    /\ early' = << >>
    /\ pending_responses' = << >>

\* reset_tcp_stream
ResetTcpStream ==
    /\ Drop("closed")
    /\ resumes' = FALSE
    /\ UNCHANGED <<client_finished, upstream_finished, response_finished,
                   writer_finished, got>>

-----------------------------------------------------------------------------
(* The shard's body loop.  pc names the next step; ret, cap, needs and     *)
(* attempt are the locals of the functions on its stack.                   *)

\* finish_client of the tunnel, or the flag of a pending one.
FinishClient ==
    /\ client_finished' = (client_finished \/ ~Gone)
    /\ commands' = IF phase = "open" /\ ~client_finished
                   THEN Append(commands, Finish) ELSE commands

\* relay_tcp_request_body ends with Ok(n).
RelayReturns(n) ==
    \/ /\ ret.relay = "poll"
       /\ IF Readable /\ ~Gone
          THEN pc' = "capacity" /\ ret' = [ret EXCEPT !.cap = "data"]
          ELSE pc' = "poll" /\ UNCHANGED ret
       /\ UNCHANGED needs
    \/ /\ ret.relay = "resume"
       /\ pc' = "poll"
       /\ ret' = [ret EXCEPT !.poll = "polled"]
       /\ needs' = n

\* It ends with Err: the caller resets the stream.
RelayFails ==
    /\ ResetTcpStream
    /\ pc' = IF ret.relay = "poll" THEN "poll" ELSE ret.resume

\* The caller of client_capacity goes on with the answer c. Every poll of the
\* framing retries went past an empty frame, so the test that fewer bytes are
\* buffered than before the first of them holds when the last one is used up.
GotCapacity(c) ==
    \/ /\ ret.cap = "relay"
       /\ IF c = 0
          THEN RelayReturns(FALSE) /\ UNCHANGED cap
          ELSE pc' = "recv" /\ cap' = c /\ UNCHANGED <<ret, needs>>
       /\ UNCHANGED <<attempt, resumes>>
    \/ /\ ret.cap = "data"
       /\ resumes' = (resumes \/ c > 0)
       /\ pc' = "poll"
       /\ UNCHANGED <<ret, cap, needs, attempt>>
    \/ /\ ret.cap = "resume"
       /\ IF c > 0 /\ Readable /\ attempt + 1 < FramingRetries
          THEN pc' = "relay" /\ attempt' = attempt + 1
               /\ ret' = [ret EXCEPT !.relay = "resume"]
          ELSE pc' = ret.resume /\ UNCHANGED <<attempt, ret>>
       /\ resumes' = (c > 0 /\ Readable /\ attempt + 1 = FramingRetries)
       /\ UNCHANGED <<cap, needs>>

\* The head of the loop.
Relay ==
    /\ pc = "relay"
    /\ \/ Gone /\ RelayReturns(FALSE) /\ UNCHANGED <<client_finished, commands>>
       \/ ~Gone /\ Finished /\ FinishClient /\ RelayReturns(FALSE)
       \/ /\ ~Gone /\ ~Finished
          /\ pc' = "capacity"
          /\ ret' = [ret EXCEPT !.cap = "relay"]
          /\ UNCHANGED <<needs, client_finished, commands>>
    /\ UNCHANGED <<clientVars, h3Vars, cap, attempt, resumes, phase, early,
                   upstream_finished, response_finished, writer_finished,
                   pending_responses, got, connect, queued, waiter, events,
                   writerVars, readerVars, slots, credit, aborted>>

\* early_bytes: everything taken so far is in early_data.
EarlyBytes == IF early = << >> THEN 0 ELSE early[Len(early)].to

\* client_capacity: the first load.
ClientCapacity ==
    /\ pc = "capacity"
    /\ \/ phase \in {"pending", "blocked"} /\ GotCapacity(MaxClient - EarlyBytes)
       \/ phase = "open" /\ queued < MaxClient /\ GotCapacity(MaxClient - queued)
       \/ phase = "open" /\ queued >= MaxClient
          /\ pc' = "arm" /\ UNCHANGED <<loopVars, resumes>>
       \/ Gone /\ GotCapacity(0)
    /\ UNCHANGED <<clientVars, h3Vars, tunnelVars, connect, queued, waiter, commands,
                   events, writerVars, readerVars, slots, credit, aborted>>

\* It arms the waiter ...
Arm ==
    /\ pc = "arm"
    /\ pc' = "recheck"
    /\ waiter' = TRUE
    /\ UNCHANGED <<clientVars, h3Vars, loopVars, resumes, tunnelVars, connect, queued,
                   commands, events, writerVars, readerVars, slots, credit, aborted>>

\* FAULT: no second load after the waiter was armed.
RecheckNothing ==
    /\ pc = "recheck"
    /\ GotCapacity(0)
    /\ UNCHANGED <<clientVars, h3Vars, tunnelVars, connect, queued, waiter, commands,
                   events, writerVars, readerVars, slots, credit, aborted>>

\* ... and loads again.
Recheck ==
    /\ pc = "recheck"
    /\ GotCapacity(MaxClient - queued)
    /\ UNCHANGED <<clientVars, h3Vars, tunnelVars, connect, queued, waiter, commands,
                   events, writerVars, readerVars, slots, credit, aborted>>

\* recv_body takes n bytes; the Data event is re-armed when QUIC is drained.
Take(n) ==
    /\ taken' = taken + n
    /\ armed' = (armed \/ (taken + n = arrived /\ empty[arrived] = 0))
    /\ UNCHANGED fin_seen

\* recv_body and the queueing of what it returned.
Recv ==
    LET body == [from |-> taken, to |-> Least(RunEnd, taken + Least(BodyLimit, cap))]
        len == body.to - body.from
        more == fin # "reset" /\ taken < arrived /\ empty[taken] = 0
        fits == ~client_finished /\ writer # "done" /\ queued + len <= MaxClient
    IN
    /\ pc = "recv"
    /\ \/ /\ fin = "reset"
          /\ RelayFails
          /\ UNCHANGED <<h3Vars, ret, needs, commands, queued>>
       \/ /\ fin # "reset" /\ ~more
          /\ RelayReturns(Readable)
          /\ UNCHANGED <<h3Vars, resumes, aborted, tunnelVars, commands, queued>>
       \/ /\ more /\ phase # "open"
          /\ Take(len)
          /\ early' = Append(early, body)
          /\ pc' = "relay"
          /\ UNCHANGED <<ret, needs, resumes, aborted, phase, client_finished,
                         upstream_finished, response_finished, writer_finished,
                         pending_responses, got, commands, queued>>
       \/ /\ more /\ phase = "open" /\ fits
          /\ Take(len)
          /\ queued' = queued + len
          /\ commands' = Append(commands, body)
          /\ pc' = "relay"
          /\ UNCHANGED <<ret, needs, resumes, aborted, tunnelVars>>
       \/ /\ more /\ phase = "open" /\ ~fits
          /\ Take(len)
          /\ RelayFails
          /\ UNCHANGED <<ret, needs, commands, queued>>
    /\ UNCHANGED <<clientVars, cap, attempt, connect, waiter, events, writerVars,
                   readerVars, slots, credit>>

-----------------------------------------------------------------------------
(* poll_http3_events                                                       *)

\* Event::Data of a stream whose last one has been drained.
PollData ==
    /\ pc = "poll" /\ ~Gone
    /\ armed
    /\ Readable \/ fin = "reset"
    /\ armed' = FALSE
    /\ pc' = "relay"
    /\ ret' = [ret EXCEPT !.relay = "poll"]
    /\ UNCHANGED <<clientVars, taken, fin_seen, cap, needs, attempt, resumes,
                   tunnelVars, connect, queued, waiter, commands, events, writerVars,
                   readerVars, slots, credit, aborted>>

\* Event::Finished
PollFinished ==
    /\ pc = "poll" /\ ~Gone
    /\ Finished /\ ~fin_seen
    /\ fin_seen' = TRUE
    /\ resumes' = FALSE
    /\ FinishClient
    /\ UNCHANGED <<clientVars, taken, armed, pc, loopVars, phase, early,
                   upstream_finished, response_finished, writer_finished,
                   pending_responses, got, connect, queued, waiter, events,
                   writerVars, readerVars, slots, credit, aborted>>

\* Event::Reset
PollReset ==
    /\ pc = "poll" /\ ~Gone
    /\ fin = "reset"
    /\ ResetTcpStream
    /\ UNCHANGED <<clientVars, h3Vars, pc, loopVars, connect, queued, waiter, commands,
                   events, writerVars, readerVars, slots, credit>>

\* No event is left: the framing moves past one empty frame at most, and the
\* Finished event of a stream it was the last of comes first.
PollDone ==
    /\ pc = "poll"
    /\ Gone \/ /\ ~(armed /\ Readable)
               /\ Finished => fin_seen
               /\ fin # "reset"
    /\ IF empty[taken] > 0 /\ ~armed
       THEN /\ empty' = [empty EXCEPT ![taken] = @ - 1]
            /\ armed' = (taken = arrived /\ empty[taken] = 1)
       ELSE UNCHANGED <<empty, armed>>
    /\ UNCHANGED <<arrived, fin, stopped, limit, taken, fin_seen, loopVars, resumes,
                   tunnelVars, connect, queued, waiter, commands, events, writerVars,
                   readerVars, slots, credit, aborted>>
    /\ pc' = IF Finished' /\ ~fin_seen /\ ~Gone THEN "poll" ELSE ret.poll

-----------------------------------------------------------------------------
(* resume_tcp_request_body: returns to r.                                  *)

StartResume(r) ==
    /\ pc' = "relay"
    /\ ret' = [ret EXCEPT !.relay = "resume", !.resume = r]
    /\ attempt' = 0
    /\ needs' = FALSE
    /\ resumes' = FALSE
    /\ UNCHANGED cap

\* After its poll_http3_events.
Polled ==
    /\ pc = "polled"
    /\ IF needs
       THEN /\ pc' = "capacity"
            /\ ret' = [ret EXCEPT !.cap = "resume"]
            /\ resumes' = FALSE
       ELSE pc' = ret.resume /\ UNCHANGED <<ret, resumes>>
    /\ UNCHANGED <<clientVars, h3Vars, cap, needs, attempt, tunnelVars, connect, queued,
                   waiter, commands, events, writerVars, readerVars, slots, credit,
                   aborted>>

-----------------------------------------------------------------------------
(* Packets.  Each action is the arrival of a packet at handle_packet.      *)

Packet ==
    /\ pc = "select"
    /\ ~Gone
    /\ pc' = "poll"
    /\ ret' = [ret EXCEPT !.poll = "service"]
    /\ UNCHANGED <<h3Vars, cap, needs, attempt, resumes, tunnelVars, connect, queued,
                   waiter, commands, events, writerVars, readerVars, slots, credit,
                   aborted>>

\* QUIC takes no more than its receive window.
ClientData(n) ==
    /\ Packet
    /\ fin = "open"
    /\ arrived + n <= MaxUp
    /\ arrived + n - taken <= QuicWindow
    /\ arrived' = arrived + n
    /\ UNCHANGED <<empty, fin, stopped, limit>>

ClientEmptyFrame ==
    /\ Packet
    /\ fin = "open"
    /\ empty[arrived] < MaxEmpty
    /\ empty' = [empty EXCEPT ![arrived] = @ + 1]
    /\ UNCHANGED <<arrived, fin, stopped, limit>>

ClientFin ==
    /\ Packet
    /\ fin = "open"
    /\ fin' = "fin"
    /\ UNCHANGED <<arrived, empty, stopped, limit>>

ClientReset ==
    /\ Packet
    /\ fin = "open" /\ "reset" \in Faults
    /\ fin' = "reset"
    /\ UNCHANGED <<arrived, empty, stopped, limit>>

ClientStops ==
    /\ Packet
    /\ ~stopped /\ "stop" \in Faults
    /\ stopped' = TRUE
    /\ UNCHANGED <<arrived, empty, fin, limit>>

\* The client lets one more byte of the response pass.
ClientGrants ==
    /\ Packet
    /\ limit < MaxDown + 1
    /\ limit' = limit + 1
    /\ UNCHANGED <<arrived, empty, fin, stopped>>

\* A packet of the connection that changes nothing for this stream.
OtherPacket ==
    /\ Packet
    /\ UNCHANGED clientVars

-----------------------------------------------------------------------------
(* handle_tcp_event, and the batch it is called in.                        *)

\* FAULT: the early data is not counted as queued.
OpenUncounted ==
    /\ phase' = "open"
    /\ commands' = IF client_finished THEN Append(early, Finish) ELSE early
    /\ queued' = 0
    /\ early' = << >>
    /\ writer' = "recv"
    /\ reader' = "slot"

\* FAULT: the newest early data is handed to the tunnel first.
OpenReversed ==
    /\ phase' = "open"
    /\ commands' = LET newest == [i \in DOMAIN early |-> early[Len(early) + 1 - i]]
                   IN  IF client_finished THEN Append(newest, Finish) ELSE newest
    /\ queued' = EarlyBytes
    /\ early' = << >>
    /\ writer' = "recv"
    /\ reader' = "slot"

\* TcpTunnel::from_stream and the transfer of the early data, after the 200
\* response was queued.
Open ==
    /\ phase' = "open"
    /\ commands' = IF client_finished THEN Append(early, Finish) ELSE early
    /\ queued' = EarlyBytes
    /\ early' = << >>
    /\ writer' = "recv"
    /\ reader' = "slot"

\* The 200 response for a connected target: refused, blocked or sent.
Respond(r, blocked) ==
    \/ /\ stopped
       /\ ResetTcpStream
       /\ pc' = blocked
       /\ UNCHANGED <<loopVars, queued, commands, writer, reader>>
    \/ /\ ~stopped /\ Window = 0
       /\ phase' = "blocked"
       /\ pc' = blocked
       /\ UNCHANGED <<loopVars, resumes, aborted, early, client_finished,
                      upstream_finished, response_finished, writer_finished,
                      pending_responses, got, queued, commands, writer, reader>>
    \/ /\ ~stopped /\ Window > 0
       /\ Open
       /\ StartResume(r)
       /\ UNCHANGED <<aborted, client_finished, upstream_finished, response_finished,
                      writer_finished, pending_responses, got>>

\* One event from the channel.
TakeEvent(kind) ==
    /\ pc \in {"select", "batch"}
    /\ events # << >>
    /\ Head(events).kind = kind
    /\ events' = Tail(events)
    /\ UNCHANGED <<clientVars, h3Vars, connect, waiter, chunk, notice, received, shut,
                   piece, fetched, eof, slots, credit>>

\* Nothing but the tunnel's fields changes, and the batch goes on.
NextInBatch ==
    /\ pc' = "batch"
    /\ UNCHANGED <<loopVars, queued, commands, writer, reader>>

ConnectResult ==
    \/ /\ TakeEvent("Connected")
       /\ IF phase = "pending"
          THEN Respond("batch", "batch")
          ELSE NextInBatch /\ UNCHANGED <<tunnelVars, resumes, aborted>>
    \/ /\ TakeEvent("ConnectFailed")
       /\ IF phase = "pending"
          THEN /\ Drop("closed")
               /\ StartResume("batch")
               /\ UNCHANGED <<client_finished, upstream_finished, response_finished,
                              writer_finished, got, queued, commands, writer, reader>>
          ELSE NextInBatch /\ UNCHANGED <<tunnelVars, resumes, aborted>>

TargetData ==
    /\ TakeEvent("Data")
    /\ NextInBatch
    /\ \/ /\ phase = "open" /\ ~response_finished
          /\ pending_responses' =
                 Append(pending_responses, [from |-> Head(events).from, to |-> Head(events).to])
          /\ UNCHANGED <<resumes, aborted, phase, early, client_finished,
                         upstream_finished, response_finished, writer_finished, got>>
       \/ phase = "open" /\ response_finished /\ ResetTcpStream
       \/ phase # "open" /\ UNCHANGED <<tunnelVars, resumes, aborted>>

Writable ==
    /\ TakeEvent("Writable")
    /\ StartResume("batch")
    /\ UNCHANGED <<tunnelVars, aborted, queued, commands, writer, reader>>

\* FAULT: the end of the writer is not recorded while responses are pending.
WriteFinishedMissed ==
    /\ TakeEvent("WriteFinished")
    /\ NextInBatch
    /\ writer_finished' = (writer_finished \/ (phase = "open" /\ pending_responses = << >>))
    /\ UNCHANGED <<resumes, aborted, phase, early, client_finished, upstream_finished,
                   response_finished, pending_responses, got>>

WriteFinished ==
    /\ TakeEvent("WriteFinished")
    /\ NextInBatch
    /\ writer_finished' = (writer_finished \/ phase = "open")
    /\ UNCHANGED <<resumes, aborted, phase, early, client_finished, upstream_finished,
                   response_finished, pending_responses, got>>

\* FAULT: the end of the target's stream is not recorded while responses are
\* pending.
TargetEofMissed ==
    /\ TakeEvent("Eof")
    /\ NextInBatch
    /\ upstream_finished' =
           (upstream_finished \/ (phase = "open" /\ pending_responses = << >>))
    /\ UNCHANGED <<resumes, aborted, phase, early, client_finished, response_finished,
                   writer_finished, pending_responses, got>>

TargetEof ==
    /\ TakeEvent("Eof")
    /\ NextInBatch
    /\ upstream_finished' = (upstream_finished \/ phase = "open")
    /\ UNCHANGED <<resumes, aborted, phase, early, client_finished, response_finished,
                   writer_finished, pending_responses, got>>

RelayError ==
    /\ TakeEvent("Error")
    /\ NextInBatch
    /\ IF phase = "open" THEN ResetTcpStream ELSE UNCHANGED <<tunnelVars, resumes, aborted>>

\* FAULT: an event does not mark its connection dirty.
EndBatchClean ==
    /\ pc = "batch"
    /\ pc' = "select"
    /\ UNCHANGED <<clientVars, h3Vars, loopVars, resumes, tunnelVars, connect, queued,
                   waiter, commands, events, writerVars, readerVars, slots, credit,
                   aborted>>

\* The batch ends: its budget is used up or the channel is empty.
EndBatch ==
    /\ pc = "batch"
    /\ pc' = "service"
    /\ UNCHANGED <<clientVars, h3Vars, loopVars, resumes, tunnelVars, connect, queued,
                   waiter, commands, events, writerVars, readerVars, slots, credit,
                   aborted>>

-----------------------------------------------------------------------------
(* The rest of a round of Shard::run for the connection.                   *)

\* The connection's timer is due at once while tcp_read_resumes is not empty.
Timeout ==
    /\ pc = "select"
    /\ resumes
    /\ pc' = "service"
    /\ UNCHANGED <<clientVars, h3Vars, loopVars, resumes, tunnelVars, connect, queued,
                   waiter, commands, events, writerVars, readerVars, slots, credit,
                   aborted>>

\* retry_tcp_connect_responses
RetryConnectResponse ==
    /\ pc = "service"
    /\ \/ phase = "blocked" /\ Respond("bodies", "bodies")
       \/ /\ phase # "blocked"
          /\ pc' = "bodies"
          /\ UNCHANGED <<loopVars, resumes, tunnelVars, queued, commands, writer,
                         reader, aborted>>
    /\ UNCHANGED <<clientVars, h3Vars, connect, waiter, events, chunk, notice, received,
                   shut, piece, fetched, eof, slots, credit>>

\* retry_tcp_request_bodies
RetryRequestBody ==
    /\ pc = "bodies"
    /\ IF resumes THEN StartResume("flush") ELSE pc' = "flush" /\ UNCHANGED <<loopVars, resumes>>
    /\ UNCHANGED <<clientVars, h3Vars, tunnelVars, connect, queued, waiter, commands,
                   events, writerVars, readerVars, slots, credit, aborted>>

\* The end of a round: the locals are gone.
EndRound ==
    /\ pc' = "select"
    /\ ret' = [poll |-> "service", relay |-> "poll", cap |-> "relay", resume |-> "batch"]
    /\ cap' = 0 /\ needs' = FALSE /\ attempt' = 0

\* FAULT: a partly written chunk is retired as if it were written whole.
FlushChunkWhole ==
    /\ pc = "flush" /\ phase = "open" /\ ~stopped
    /\ pending_responses # << >> /\ Window > 0
    /\ LET to == Least(Head(pending_responses).to, limit)
       IN  /\ got' = to
           /\ credit' = credit + (to - got)
           /\ pending_responses' = Tail(pending_responses)
           /\ slots' = slots + 1
    /\ UNCHANGED <<clientVars, h3Vars, pc, loopVars, resumes, phase, early,
                   client_finished, upstream_finished, response_finished,
                   writer_finished, connect, queued, waiter, commands, events,
                   writerVars, readerVars, aborted>>

\* FAULT: the bytes of a partly sent chunk are not given back.
FlushChunkForgets ==
    /\ pc = "flush" /\ phase = "open" /\ ~stopped
    /\ pending_responses # << >> /\ Window > 0
    /\ LET to == Least(Head(pending_responses).to, limit)
           whole == to = Head(pending_responses).to
       IN  /\ got' = to
           /\ credit' = IF whole THEN credit + (to - got) ELSE credit
           /\ pending_responses' = IF whole THEN Tail(pending_responses) ELSE pending_responses
           /\ slots' = IF whole THEN slots + 1 ELSE slots
    /\ UNCHANGED <<clientVars, h3Vars, pc, loopVars, resumes, phase, early,
                   client_finished, upstream_finished, response_finished,
                   writer_finished, connect, queued, waiter, commands, events,
                   writerVars, readerVars, aborted>>

\* flush_tcp_responses: send_body takes what flow control allows of the oldest
\* chunk, and advance_response gives the bytes back to the reader.
FlushChunk ==
    /\ pc = "flush" /\ phase = "open" /\ ~stopped
    /\ pending_responses # << >> /\ Window > 0
    /\ LET to == Least(Head(pending_responses).to, limit)
           whole == to = Head(pending_responses).to
       IN  /\ got' = to
           /\ credit' = credit + (to - got)
           /\ pending_responses' = IF whole THEN Tail(pending_responses) ELSE pending_responses
           /\ slots' = IF whole THEN slots + 1 ELSE slots
    /\ UNCHANGED <<clientVars, h3Vars, pc, loopVars, resumes, phase, early,
                   client_finished, upstream_finished, response_finished,
                   writer_finished, connect, queued, waiter, commands, events,
                   writerVars, readerVars, aborted>>

\* There is body or a FIN to send.
Unsent == pending_responses # << >> \/ (upstream_finished /\ ~response_finished)

\* FAULT: the FIN goes out with the target's end of stream, before the pending
\* chunks.
FlushEndEarly ==
    /\ pc = "flush"
    /\ EndRound
    /\ \/ phase = "open" /\ stopped /\ Unsent /\ ResetTcpStream
       \/ /\ phase = "open" /\ ~(stopped /\ Unsent)
          /\ response_finished' = (response_finished \/ (upstream_finished /\ Window > 0))
          /\ IF writer_finished /\ response_finished'
             THEN Drop("clean")
             ELSE UNCHANGED <<phase, aborted, early, pending_responses>>
          /\ UNCHANGED <<resumes, client_finished, upstream_finished, writer_finished, got>>
       \/ phase # "open" /\ UNCHANGED <<tunnelVars, resumes, aborted>>
    /\ UNCHANGED <<clientVars, h3Vars, connect, queued, waiter, commands, events,
                   writerVars, readerVars, slots, credit>>

\* FAULT: the FIN goes out whenever no chunk is pending.
FlushEndAny ==
    /\ pc = "flush"
    /\ EndRound
    /\ \/ phase = "open" /\ stopped /\ Unsent /\ ResetTcpStream
       \/ /\ phase = "open" /\ ~(stopped /\ Unsent)
          /\ pending_responses = << >> \/ Window = 0
          /\ response_finished' = \/ response_finished
                                  \/ /\ pending_responses = << >>
                                     /\ Window > 0
          /\ IF writer_finished /\ response_finished'
             THEN Drop("clean")
             ELSE UNCHANGED <<phase, aborted, early, pending_responses>>
          /\ UNCHANGED <<resumes, client_finished, upstream_finished, writer_finished, got>>
       \/ phase # "open" /\ UNCHANGED <<tunnelVars, resumes, aborted>>
    /\ UNCHANGED <<clientVars, h3Vars, connect, queued, waiter, commands, events,
                   writerVars, readerVars, slots, credit>>

\* FAULT: a tunnel is complete when the response is, whatever the writer does.
FlushEndOneWay ==
    /\ pc = "flush"
    /\ EndRound
    /\ \/ phase = "open" /\ stopped /\ Unsent /\ ResetTcpStream
       \/ /\ phase = "open" /\ ~(stopped /\ Unsent)
          /\ pending_responses = << >> \/ Window = 0
          /\ response_finished' = \/ response_finished
                                  \/ /\ pending_responses = << >>
                                     /\ upstream_finished
                                     /\ Window > 0
          /\ IF response_finished'
             THEN Drop("clean")
             ELSE UNCHANGED <<phase, aborted, early, pending_responses>>
          /\ UNCHANGED <<resumes, client_finished, upstream_finished, writer_finished, got>>
       \/ phase # "open" /\ UNCHANGED <<tunnelVars, resumes, aborted>>
    /\ UNCHANGED <<clientVars, h3Vars, connect, queued, waiter, commands, events,
                   writerVars, readerVars, slots, credit>>

\* The FIN of a response whose last chunk is out, and the end of a tunnel
\* finished both ways; a client that has stopped the stream resets it.
FlushEnd ==
    /\ pc = "flush"
    /\ EndRound
    /\ \/ phase = "open" /\ stopped /\ Unsent /\ ResetTcpStream
       \/ /\ phase = "open" /\ ~(stopped /\ Unsent)
          /\ pending_responses = << >> \/ Window = 0
          /\ response_finished' = \/ response_finished
                                  \/ /\ pending_responses = << >>
                                     /\ upstream_finished
                                     /\ Window > 0
          /\ IF writer_finished /\ response_finished'
             THEN Drop("clean")
             ELSE UNCHANGED <<phase, aborted, early, pending_responses>>
          /\ UNCHANGED <<resumes, client_finished, upstream_finished, writer_finished, got>>
       \/ phase # "open" /\ UNCHANGED <<tunnelVars, resumes, aborted>>
    /\ UNCHANGED <<clientVars, h3Vars, connect, queued, waiter, commands, events,
                   writerVars, readerVars, slots, credit>>

\* cleanup_idle_tunnels: no byte moved for the idle timeout.  close_idle_stream
\* ends an open response with a FIN, or with a reset if the FIN is refused.
IdleSweep ==
    /\ pc = "select"
    /\ "idle" \in Faults
    /\ ~Gone
    /\ Drop(IF phase = "open" /\ ~stopped /\ ~response_finished /\ Window > 0
            THEN "idle" ELSE "closed")
    /\ UNCHANGED <<clientVars, h3Vars, pc, loopVars, resumes, client_finished,
                   upstream_finished, response_finished, writer_finished, got, connect,
                   queued, waiter, commands, events, writerVars, readerVars, slots,
                   credit>>

-----------------------------------------------------------------------------
(* The connect task, spawn_tcp_connect.                                    *)

shardVars == <<clientVars, h3Vars, pc, loopVars, resumes, tunnelVars, aborted>>

\* Resolution and happy eyeballs end.
ConnectEnds ==
    /\ connect = "running"
    /\ connect' \in {"Connected", "ConnectFailed"}
    /\ UNCHANGED <<shardVars, queued, waiter, commands, events, writerVars, readerVars,
                   slots, credit>>

ConnectSends ==
    /\ connect \in {"Connected", "ConnectFailed"}
    /\ Room
    /\ events' = Append(events, Event(connect))
    /\ connect' = "done"
    /\ UNCHANGED <<shardVars, queued, waiter, commands, writerVars, readerVars, slots,
                   credit>>

-----------------------------------------------------------------------------
(* The writer task.                                                        *)

WriterTakes ==
    /\ writer = "recv" /\ ~aborted
    /\ commands # << >>
    /\ chunk' = Head(commands)
    /\ commands' = Tail(commands)
    /\ writer' = IF Head(commands) = Finish THEN "shutdown" ELSE "write"
    /\ UNCHANGED <<shardVars, connect, queued, waiter, events, notice, received, shut,
                   readerVars, slots, credit>>

\* write_all ends; a failed one may have written a part of the chunk.
WriterWrites ==
    /\ writer = "write"
    /\ writer' = "free"
    /\ \/ received' = chunk.to /\ notice' = Event("Writable")
       \/ /\ "write" \in Faults
          /\ received' \in received .. chunk.to
          /\ notice' = Event("Error")
    /\ UNCHANGED <<shardVars, connect, queued, waiter, commands, events, chunk, shut,
                   readerVars, slots, credit>>

\* fetch_sub
WriterFrees ==
    /\ writer = "free"
    /\ queued' = queued - (chunk.to - chunk.from)
    /\ writer' = IF notice.kind = "Error" THEN "report" ELSE "test"
    /\ UNCHANGED <<shardVars, connect, waiter, commands, events, chunk, notice, received,
                   shut, readerVars, slots, credit>>

\* FAULT: the waiter is cleared without a wakeup when no command is left.
WriterTestsLazily ==
    /\ writer = "test"
    /\ writer' = IF waiter /\ commands # << >> THEN "wake" ELSE "recv"
    /\ waiter' = FALSE
    /\ UNCHANGED <<shardVars, connect, queued, commands, events, chunk, notice, received,
                   shut, readerVars, slots, credit>>

\* load and swap of the waiter: only this task clears it.
WriterTests ==
    /\ writer = "test"
    /\ writer' = IF waiter THEN "wake" ELSE "recv"
    /\ waiter' = FALSE
    /\ UNCHANGED <<shardVars, connect, queued, commands, events, chunk, notice, received,
                   shut, readerVars, slots, credit>>

\* shutdown of the target socket.
WriterShutsDown ==
    /\ writer = "shutdown"
    /\ writer' = "report"
    /\ \/ shut' = TRUE /\ notice' = Event("WriteFinished")
       \/ "write" \in Faults /\ notice' = Event("Error") /\ UNCHANGED shut
    /\ UNCHANGED <<shardVars, connect, queued, waiter, commands, events, chunk, received,
                   readerVars, slots, credit>>

\* The event goes into the shard's channel, after the last one the task ends.
WriterSends ==
    /\ writer \in {"wake", "report"}
    /\ Room
    /\ events' = Append(events, notice)
    /\ writer' = IF writer = "wake" THEN "recv" ELSE "done"
    /\ UNCHANGED <<shardVars, connect, queued, waiter, commands, chunk, notice, received,
                   shut, readerVars, slots, credit>>

-----------------------------------------------------------------------------
(* The reader task.                                                        *)

\* FAULT: the pool is not waited for.
ReaderTakesAnyBuffer ==
    /\ reader = "slot" /\ ~aborted
    /\ slots' = slots - 1
    /\ reader' = "credit"
    /\ UNCHANGED <<shardVars, connect, queued, waiter, commands, events, writerVars,
                   piece, fetched, eof, credit>>

ReaderTakesBuffer ==
    /\ reader = "slot" /\ ~aborted
    /\ slots > 0
    /\ slots' = slots - 1
    /\ reader' = "credit"
    /\ UNCHANGED <<shardVars, connect, queued, waiter, commands, events, writerVars,
                   piece, fetched, eof, credit>>

ReaderReserves ==
    /\ reader = "credit"
    /\ credit >= ReadChunk
    /\ credit' = credit - ReadChunk
    /\ reader' = "read"
    /\ UNCHANGED <<shardVars, connect, queued, waiter, commands, events, writerVars,
                   piece, fetched, eof, slots>>

\* A read returns n bytes, the end of the stream or an error; what it did
\* not use of the reservation goes back.
ReaderReads(n) ==
    /\ reader = "read"
    /\ fetched + n <= MaxDown
    /\ credit' = credit + (ReadChunk - n)
    /\ fetched' = fetched + n
    /\ \/ n > 0 /\ piece' = [kind |-> "Data", from |-> fetched, to |-> fetched + n]
          /\ reader' = "send" /\ UNCHANGED eof
       \/ n = 0 /\ piece' = Event("Eof") /\ reader' = "report" /\ eof' = TRUE
       \/ n = 0 /\ "read" \in Faults /\ piece' = Event("Error") /\ reader' = "report"
          /\ UNCHANGED eof
    /\ UNCHANGED <<shardVars, connect, queued, waiter, commands, events, writerVars,
                   slots>>

ReaderSends ==
    /\ reader \in {"send", "report"}
    /\ Room
    /\ events' = Append(events, piece)
    /\ reader' = IF reader = "send" THEN "slot" ELSE "done"
    /\ UNCHANGED <<shardVars, connect, queued, waiter, commands, writerVars, piece,
                   fetched, eof, slots, credit>>

-----------------------------------------------------------------------------
\* An abort ends a task at an await; until then it goes on.
TasksAborted ==
    /\ aborted
    /\ \/ connect # "done" /\ connect' = "done" /\ UNCHANGED <<writer, reader>>
       \/ writer \notin {"none", "done"} /\ writer' = "done" /\ UNCHANGED <<connect, reader>>
       \/ reader \notin {"none", "done"} /\ reader' = "done" /\ UNCHANGED <<connect, writer>>
    /\ UNCHANGED <<shardVars, queued, waiter, commands, events, chunk, notice, received,
                   shut, piece, fetched, eof, slots, credit>>

\* The tunnel and everything that served it are gone.
Over ==
    /\ Gone /\ pc = "select" /\ ~resumes /\ events = << >>
    /\ connect = "done" /\ writer \in {"none", "done"} /\ reader \in {"none", "done"}

Client ==
    \/ \E n \in 1 .. QuicWindow : ClientData(n)
    \/ ClientEmptyFrame \/ ClientFin \/ ClientReset \/ ClientStops \/ ClientGrants
    \/ OtherPacket

HandleTcpEvent ==
    \/ ConnectResult \/ TargetData \/ Writable \/ WriteFinished \/ TargetEof
    \/ RelayError

Shard ==
    \/ PollData \/ PollFinished \/ PollReset \/ PollDone
    \/ Relay \/ ClientCapacity \/ Arm \/ Recheck \/ Recv \/ Polled
    \/ HandleTcpEvent \/ EndBatch
    \/ Timeout \/ RetryConnectResponse \/ RetryRequestBody \/ FlushChunk \/ FlushEnd

Writer ==
    WriterTakes \/ WriterWrites \/ WriterFrees \/ WriterTests \/ WriterShutsDown

Reader == ReaderTakesBuffer \/ ReaderReserves

Sends == ConnectSends \/ WriterSends \/ ReaderSends

Next ==
    \/ Client \/ Shard \/ IdleSweep \/ ConnectEnds \/ Writer \/ Reader \/ Sends
    \/ \E n \in 0 .. ReadChunk : ReaderReads(n)
    \/ TasksAborted
    \/ Over /\ UNCHANGED vars

Spec == Init /\ [][Next]_vars

\* The shard's loop and the tasks are scheduled; tokio::select! picks among its
\* ready branches at random, so an event is not passed over for ever; tokio's
\* channel is fair to its senders; the target takes what is written, and the
\* client keeps granting flow control.  Neither peer need ever send anything.
Fairness ==
    /\ WF_vars(Shard) /\ SF_vars(HandleTcpEvent) /\ WF_vars(ConnectEnds)
    /\ WF_vars(Writer) /\ WF_vars(Reader)
    /\ SF_vars(ConnectSends) /\ SF_vars(WriterSends) /\ SF_vars(ReaderSends)
    /\ SF_vars(ClientGrants)
    /\ WF_vars(TasksAborted)

FairSpec == Spec /\ Fairness

-----------------------------------------------------------------------------
(* Properties                                                              *)

\* The client-to-target and the target-to-client stream as pipes.
Up == INSTANCE TcpPipe WITH
    Capacity <- QuicWindow + MaxClient,
    sent <- arrived, ended <- fin = "fin", got <- received, closed <- shut

Down == INSTANCE TcpPipe WITH
    Capacity <- MaxResponse,
    sent <- fetched, ended <- eof, got <- got, closed <- response_finished

\* What the writer task writes to the target is a prefix of what the client
\* sent, never more than QUIC's window and the command queue behind it, and
\* the socket is shut down only when the client's FIN has arrived and every
\* byte was written, whether it came as early data, by a Data event or by a
\* resumed read.
UploadIsPipe == Up!Spec

\* What the shard hands to QUIC is a prefix of what the target sent, with at
\* most MAX_BUFFERED_RESPONSE_BYTES in between, and the response is finished
\* only after the target's end of stream and its last byte.  The FIN of an idle
\* close is not this end: the sweep sends it whatever the target still has.
DownloadIsPipe == Down!Spec

\* A chunk follows the one before it: the writer's chunk starts where the
\* target's stream stands, and the oldest pending response holds the next
\* byte of the response.  early_data, the command channel, the event channel
\* and pending_responses lose, repeat and reorder nothing.
InOrder ==
    /\ writer = "write" => chunk.from = received
    /\ pending_responses # << >> =>
           Head(pending_responses).from <= got /\ got < Head(pending_responses).to

\* queued_client_bytes counts what the shard has queued and the writer has not
\* released, so it never wraps below zero, and the capacity a body read was
\* sized by is still there: the buffer is never exhausted.
Released ==
    CASE writer \in {"write", "free"} -> chunk.from
      [] writer \in {"recv", "test", "wake"} -> received
      [] OTHER -> taken - queued

QueueCounted ==
    phase = "open" =>
        /\ queued = taken - Released
        /\ pc = "recv" => queued + cap <= MaxClient

\* The shard waits for something while client bytes lie unread in QUIC: since
\* no further Data event will come for them, a full queue's writer is going to
\* see the waiter, or its wakeup or its failure is on the way, or the
\* connection timer is due.
NoLostWakeup ==
    (phase = "open" /\ pc = "select" /\ Readable) =>
        \/ resumes
        \/ waiter /\ \/ writer \in {"write", "free", "test"}
                     \/ writer = "recv" /\ commands # << >>
        \/ writer \in {"wake", "report", "done"}
        \/ \E i \in 1 .. Len(events) : events[i].kind = "Writable"

\* The bytes and the buffers of the read budget are with the reader, in the
\* event channel, with the shard or free: none is lost while the tunnel lives.
BudgetConserved ==
    LET inChannel == {i \in 1 .. Len(events) : events[i].kind = "Data"}
        withReader == IF reader \in {"credit", "read", "send"} THEN 1 ELSE 0
    IN
    phase = "open" =>
        /\ credit + (fetched - got) + (IF reader = "read" THEN ReadChunk ELSE 0) = MaxResponse
        /\ reader \notin {"report", "done"} =>
             slots + withReader + Cardinality(inChannel) + Len(pending_responses) = ReadBuffers

\* Between two rounds the shard holds no response byte and owes no FIN that flow
\* control would let it send: flush_tcp_responses visits only the connections
\* an event or a packet made dirty, and that strands nothing.  So the FIN of an
\* idle close never overtakes a byte the shard holds.
NothingStranded ==
    (phase = "open" /\ pc = "select" /\ Unsent) => (~stopped /\ Window = 0)

\* A tunnel that is removed as complete has relayed both streams to their ends.
CleanMeansComplete ==
    phase = "clean" => /\ fin = "fin" /\ received = arrived /\ shut
                       /\ eof /\ got = fetched /\ response_finished

\* Every byte the client sends reaches the target, and its FIN too, unless the
\* tunnel is torn down: no capacity wakeup is lost, although the command queue
\* and the event channel have room for one entry each.
UploadArrives ==
    /\ \A n \in 1 .. MaxUp : (arrived >= n) ~> (received >= n \/ phase = "closed")
    /\ (fin = "fin") ~> (shut \/ phase = "closed")

\* Every byte the reader reads reaches the client as it grants flow control,
\* and the end of the stream too.
DownloadArrives ==
    /\ \A n \in 1 .. MaxDown : (fetched >= n) ~> (got >= n \/ phase = "closed")
    /\ eof ~> (response_finished \/ phase = "closed")

\* A tunnel whose two streams have ended is removed, and its tasks end.
TunnelEnds == (fin = "fin" /\ eof) ~> Over

=============================================================================
