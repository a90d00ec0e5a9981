----------------------------- MODULE ShardRound -----------------------------
(***************************************************************************)
(* One round of an HTTP/3 shard's event loop (Shard::run): which           *)
(* connections it services, when it wakes up, and how it drains.           *)
(*                                                                         *)
(* What the handlers and quiche do to a connection is abstracted to three  *)
(* facts: it was touched and needs a drive, the deadline it has once       *)
(* driven, and whether it is then closed.                                  *)
(***************************************************************************)
EXTENDS Naturals, Sequences, FiniteSets, SequencesExt

CONSTANTS
    Connections,    \* bound on the connections accepted
    MaxTime,        \* bound on the clock
    Batch,          \* bound on the marks of one event
    SweepInterval,  \* IDLE_SWEEP_INTERVAL
    DrainTimeout,   \* DRAIN_TIMEOUT
    None            \* no deadline

ASSUME RoundAssumption ==
    /\ {Connections, Batch} \subseteq Nat
    /\ {MaxTime, SweepInterval, DrainTimeout} \subseteq Nat \ {0}
    /\ None \notin Nat

VARIABLES
    now,                \* Instant::now()
    pc,                 \* where the loop is
    dirty,              \* DirtySet: [pending, seen]
    serviced,           \* the connections of this round
    driven,             \* how many of them drive_connections has visited
    timers,             \* TimerQueue
    next_conn_index,    \* connections accepted so far
    connections,        \* the live ones
    closed,             \* the live ones with quic.is_closed()
    touched,            \* the live ones changed since their last drive
    wanted,             \* next_deadline() of a connection
    scheduled_deadline, \* the deadline a connection believes is queued
    next_idle_sweep,
    swept,              \* when the loop last compared the clock with it
    shutting_down,
    drain_deadline

clientVars == <<next_conn_index, connections, closed, touched, wanted>>
drainVars == <<shutting_down, drain_deadline>>
sweepVars == <<next_idle_sweep, swept>>
vars == <<now, pc, dirty, serviced, driven, timers, clientVars,
          scheduled_deadline, sweepVars, drainVars>>

Indices == 0 .. Connections - 1
Times == 0 .. MaxTime + SweepInterval

Queue == INSTANCE TimerQueue WITH queue <- timers, fired <- << >>

-----------------------------------------------------------------------------
(* DirtySet *)

Clean == [pending |-> << >>, seen |-> {}]

\* FAULT: a mark is queued and not remembered.
MarkUnseen(d, i) == [d EXCEPT !.pending = Append(@, i)]

Mark(d, i) ==
    IF i \in d.seen
    THEN d
    ELSE [pending |-> Append(d.pending, i), seen |-> d.seen \cup {i}]

MarkAll(d, s) == FoldLeft(Mark, d, s)

\* take_into: what serviced becomes, and the set that is left.
Taken(d, out) == out \o d.pending

Drained(d) == [d EXCEPT !.pending = << >>]

-----------------------------------------------------------------------------
(* Waiting for an event *)

Earliest(S) == CHOOSE t \in S : \A u \in S : t <= u

Wakeup ==
    Earliest({next_idle_sweep, Queue!NextWakeup(timers), drain_deadline} \ {None})

\* A handler marks connections, some of them already gone: a late result of a
\* task names a connection by its index.
Marked(s) ==
    /\ dirty' = MarkAll(dirty, s)
    /\ touched' = touched \cup (ToSet(s) \cap connections)
    /\ pc' = "timers"

\* A packet batch, a relay event, a setup or authentication result, a TUN
\* packet: any known connections, or none, are marked.  A draining loop only
\* feeds packets to the live ones.
Event(s) ==
    /\ pc = "select"
    /\ shutting_down => ToSet(s) \subseteq connections
    /\ Marked(s)
    /\ UNCHANGED <<now, serviced, driven, timers, next_conn_index, connections, closed,
                   wanted, scheduled_deadline, sweepVars, drainVars>>

\* The first packet of a connection: handle_packet inserts and marks it.
Accept ==
    /\ pc = "select"
    /\ ~shutting_down
    /\ next_conn_index < Connections
    /\ next_conn_index' = next_conn_index + 1
    /\ connections' = connections \cup {next_conn_index}
    /\ dirty' = Mark(dirty, next_conn_index)
    /\ touched' = touched \cup {next_conn_index}
    /\ pc' = "timers"
    /\ UNCHANGED <<now, serviced, driven, timers, closed, wanted, scheduled_deadline,
                   sweepVars, drainVars>>

\* deadline_timer.timeout_at returns no packet.
Timeout ==
    /\ pc = "select"
    /\ now >= Wakeup
    /\ pc' = "timers"
    /\ UNCHANGED <<now, dirty, serviced, driven, timers, clientVars, scheduled_deadline,
                   sweepVars, drainVars>>

\* The shutdown signal closes and marks every connection.  The bound on the
\* clock leaves room for the drain.
Shutdown ==
    /\ pc = "select"
    /\ ~shutting_down
    /\ now + DrainTimeout <= MaxTime
    /\ shutting_down' = TRUE
    /\ drain_deadline' = now + DrainTimeout
    /\ Marked(SetToSeq(connections))
    /\ UNCHANGED <<now, serviced, driven, timers, next_conn_index, connections, closed,
                   wanted, scheduled_deadline, sweepVars>>

-----------------------------------------------------------------------------
(* Servicing the round *)

\* expire_connection_timers, and the first take_into.
ExpireConnectionTimers ==
    /\ pc = "timers"
    /\ LET e == Queue!Expired(timers, now, << >>)
           live == SelectSeq(e[2], LAMBDA t : /\ t.index \in connections
                                              /\ scheduled_deadline[t.index] = t.at)
           due == [k \in DOMAIN live |-> live[k].index]
           d == MarkAll(dirty, due)
       IN  /\ timers' = e[1]
           /\ scheduled_deadline' = [i \in Indices |->
                  IF i \in ToSet(due) THEN None ELSE scheduled_deadline[i]]
           /\ dirty' = Drained(d)
           /\ serviced' = Taken(d, serviced)
    /\ pc' = "sweep"
    /\ UNCHANGED <<now, driven, clientVars, sweepVars, drainVars>>

\* FAULT: what the sweep marks is not taken into the round.
SweepUntaken(S) ==
    /\ pc = "sweep"
    /\ now >= next_idle_sweep
    /\ ~shutting_down
    /\ next_idle_sweep' = now + SweepInterval
    /\ swept' = now
    /\ dirty' = MarkAll(dirty, SetToSeq(S))
    /\ touched' = touched \cup S
    /\ pc' = "drive"
    /\ UNCHANGED <<now, serviced, driven, timers, next_conn_index, connections, closed,
                   wanted, scheduled_deadline, drainVars>>

\* The once-a-second sweep writes to the connections S whose roster entry went
\* or whose tunnels are idle; the second take_into picks them up.
Sweep(S) ==
    /\ pc = "sweep"
    /\ now >= next_idle_sweep
    /\ ~shutting_down
    /\ next_idle_sweep' = now + SweepInterval
    /\ swept' = now
    /\ LET d == MarkAll(dirty, SetToSeq(S))
       IN  dirty' = Drained(d) /\ serviced' = Taken(d, serviced)
    /\ touched' = touched \cup S
    /\ pc' = "drive"
    /\ UNCHANGED <<now, driven, timers, next_conn_index, connections, closed, wanted,
                   scheduled_deadline, drainVars>>

\* FAULT: a draining loop leaves the sweep deadline in the past.
NoSweepStuck ==
    /\ pc = "sweep"
    /\ now < next_idle_sweep \/ shutting_down
    /\ swept' = now
    /\ pc' = "drive"
    /\ UNCHANGED <<now, dirty, serviced, driven, timers, clientVars, scheduled_deadline,
                   next_idle_sweep, drainVars>>

\* The sweep is not due, or is skipped while draining: its deadline rolls
\* forward all the same.
NoSweep ==
    /\ pc = "sweep"
    /\ now < next_idle_sweep \/ shutting_down
    /\ next_idle_sweep' = IF now < next_idle_sweep THEN next_idle_sweep
                                                   ELSE now + SweepInterval
    /\ swept' = now
    /\ pc' = "drive"
    /\ UNCHANGED <<now, dirty, serviced, driven, timers, clientVars, scheduled_deadline,
                   drainVars>>

\* FAULT: an unchanged deadline is recognised by the wanted one of the last
\* drive, although its entry has fired since.
RescheduleStale(i, d) ==
    /\ scheduled_deadline' = [scheduled_deadline EXCEPT ![i] = d]
    /\ timers' = IF wanted[i] = d THEN timers
                 ELSE IF d # None THEN Queue!Scheduled(timers, i, d)
                 ELSE Queue!Cancelled(timers, i)

Reschedule(i, d) ==
    /\ scheduled_deadline' = [scheduled_deadline EXCEPT ![i] = d]
    /\ timers' = IF scheduled_deadline[i] = d THEN timers
                 ELSE IF d # None THEN Queue!Scheduled(timers, i, d)
                 ELSE Queue!Cancelled(timers, i)

\* One iteration of drive_connections: quiche's timers and output leave the
\* connection with deadline d, and perhaps closed.
Drive(d, closes) ==
    /\ pc = "drive"
    /\ driven < Len(serviced)
    /\ LET i == serviced[driven + 1]
       IN  /\ i \in connections
           /\ Reschedule(i, d)
           /\ wanted' = [wanted EXCEPT ![i] = d]
           /\ touched' = touched \ {i}
           /\ closed' = IF closes THEN closed \cup {i} ELSE closed
    /\ driven' = driven + 1
    /\ UNCHANGED <<now, pc, dirty, serviced, next_conn_index, connections, sweepVars,
                   drainVars>>

DriveGone ==
    /\ pc = "drive"
    /\ driven < Len(serviced)
    /\ serviced[driven + 1] \notin connections
    /\ driven' = driven + 1
    /\ UNCHANGED <<now, pc, dirty, serviced, timers, clientVars, scheduled_deadline,
                   sweepVars, drainVars>>

ReapTimers(reaped) == FoldLeft(Queue!Cancelled, timers, SetToSeq(reaped))

\* FAULT: only an empty table ends the drain.
DrainedOnlyEmpty(live) == shutting_down /\ live = {}

MayExit(live) == shutting_down /\ (live = {} \/ now >= drain_deadline)

\* Closed connections of the round are reaped; a drained loop returns, any
\* other starts its next round (end_round, serviced.clear()).
Reap ==
    /\ pc = "drive"
    /\ driven = Len(serviced)
    /\ LET reaped == ToSet(serviced) \cap connections \cap closed
       IN  /\ connections' = connections \ reaped
           /\ closed' = closed \ reaped
           /\ touched' = touched \ reaped
           /\ timers' = ReapTimers(reaped)
           /\ wanted' = [i \in Indices |-> IF i \in reaped THEN None ELSE wanted[i]]
           /\ scheduled_deadline' = [i \in Indices |->
                  IF i \in reaped THEN None ELSE scheduled_deadline[i]]
    /\ pc' = IF MayExit(connections') THEN "exited" ELSE "select"
    /\ dirty' = Clean
    /\ serviced' = << >>
    /\ driven' = 0
    /\ UNCHANGED <<now, next_conn_index, sweepVars, drainVars>>

Tick ==
    /\ pc # "exited"
    /\ now < MaxTime
    /\ now' = now + 1
    /\ UNCHANGED <<pc, dirty, serviced, driven, timers, clientVars, scheduled_deadline,
                   sweepVars, drainVars>>

Exited == pc = "exited" /\ UNCHANGED vars

-----------------------------------------------------------------------------
Init ==
    /\ now = 0
    /\ pc = "select"
    /\ dirty = Clean
    /\ serviced = << >>
    /\ driven = 0
    /\ timers = Queue!Empty
    /\ next_conn_index = 0
    /\ connections = {}
    /\ closed = {}
    /\ touched = {}
    /\ wanted = [i \in Indices |-> None]
    /\ scheduled_deadline = [i \in Indices |-> None]
    /\ next_idle_sweep = SweepInterval
    /\ swept = 0
    /\ shutting_down = FALSE
    /\ drain_deadline = None

\* The steps the loop takes by itself once it has an event.
Service ==
    \/ ExpireConnectionTimers
    \/ \E S \in SUBSET connections : Sweep(S)
    \/ NoSweep
    \/ \E d \in (now .. MaxTime) \cup {None}, closes \in BOOLEAN : Drive(d, closes)
    \/ DriveGone
    \/ Reap

Next ==
    \/ \E n \in 0 .. Batch : \E s \in [1 .. n -> 0 .. next_conn_index - 1] : Event(s)
    \/ Accept
    \/ Timeout
    \/ Shutdown
    \/ Service
    \/ Tick
    \/ Exited

Spec == Init /\ [][Next]_vars

\* The loop never stops between events, a due timer wakes it, and time passes.
FairSpec == Spec /\ WF_vars(Service) /\ WF_vars(Timeout) /\ WF_vars(Tick)

-----------------------------------------------------------------------------
TypeOK ==
    /\ now \in 0 .. MaxTime
    /\ pc \in {"select", "timers", "sweep", "drive", "exited"}
    /\ ToSet(dirty.pending) \subseteq dirty.seen /\ dirty.seen \subseteq Indices
    /\ ToSet(serviced) \subseteq Indices
    /\ driven \in 0 .. Len(serviced)
    /\ next_conn_index \in 0 .. Connections
    /\ connections \subseteq 0 .. next_conn_index - 1
    /\ closed \subseteq connections
    /\ touched \subseteq connections
    /\ {wanted, scheduled_deadline} \subseteq [Indices -> Times \cup {None}]
    /\ {next_idle_sweep, swept} \subseteq Times
    /\ shutting_down \in BOOLEAN
    /\ drain_deadline \in Times \cup {None}

\* scheduled_deadline is exactly what the queue holds for a live connection,
\* between any two steps of a round, and the queue holds nothing for a reaped
\* one: reschedule may skip an unchanged deadline, and the filter of
\* expire_connection_timers rejects no entry.
CacheMatchesQueue ==
    \A i \in Indices :
        Queue!DeadlineIn(timers, i) = IF i \in connections THEN scheduled_deadline[i] ELSE None

\* While the loop waits, it wakes no later than any live connection's deadline
\* and the drain deadline; and a round leaves the sweep deadline ahead of the
\* clock it was compared with, draining or not, since "otherwise it stays in the
\* past and pins the wakeup above to zero".
NoDeadlineSleptThrough ==
    pc = "select" =>
        /\ \A i \in connections : wanted[i] # None => Wakeup <= wanted[i]
        /\ shutting_down => Wakeup <= drain_deadline
        /\ next_idle_sweep > swept

\* No round ends with work undone, and none does it twice: when the loop waits,
\* every connection that a handler, a timer or the sweep changed has been driven
\* and every closed one reaped; a connection marked by all three is serviced
\* once.
RoundComplete ==
    /\ pc = "select" => touched = {} /\ closed = {}
    /\ IsInjective(serviced)

\* A shutdown ends the loop, whatever the clients do.
DrainEnds == shutting_down ~> pc = "exited"
=============================================================================
