----------------------------- MODULE TimerQueue -----------------------------
(***************************************************************************)
(* The indexed min-heap of connection deadlines (TimerQueue of             *)
(* scheduler.rs).  A queue is a record of the heap, whose position p is    *)
(* heap[p + 1], and of the positions of the scheduled connections.         *)
(***************************************************************************)
EXTENDS Naturals, Sequences, FiniteSets

CONSTANTS
    Indices,    \* connection indices
    Times,      \* instants
    None        \* no deadline

ASSUME TimerAssumption ==
    /\ Indices \subseteq Nat
    /\ Times \subseteq Nat
    /\ None \notin Times

VARIABLES
    queue,      \* [heap, positions]
    fired       \* the last expire: its argument, and what it passed to its callback

vars == <<queue, fired>>

Empty == [heap |-> << >>, positions |-> << >>]

At(q, p) == q.heap[p + 1]

\* The derived order of Timer: the deadline, then the index.
Less(s, t) == s.at < t.at \/ (s.at = t.at /\ s.index < t.index)

Parent(p) == (p - 1) \div 2

Swap(q, a, b) ==
    [heap |-> [q.heap EXCEPT ![a + 1] = At(q, b), ![b + 1] = At(q, a)],
     positions |-> [q.positions EXCEPT ![At(q, a).index] = b, ![At(q, b).index] = a]]

RECURSIVE SiftUp(_, _)
SiftUp(q, p) ==
    IF p = 0 \/ ~Less(At(q, p), At(q, Parent(p)))
    THEN q
    ELSE SiftUp(Swap(q, Parent(p), p), Parent(p))

\* The lesser child of p.
Child(q, p) ==
    LET left == 2 * p + 1
        right == left + 1
    IN  IF right < Len(q.heap) /\ Less(At(q, right), At(q, left)) THEN right ELSE left

RECURSIVE SiftDown(_, _)
SiftDown(q, p) ==
    IF 2 * p + 1 >= Len(q.heap) \/ ~Less(At(q, Child(q, p)), At(q, p))
    THEN q
    ELSE SiftDown(Swap(q, p, Child(q, p)), Child(q, p))

\* FAULT: an entry moved by swap_remove only ever sinks.
RepairDown(q, p) == SiftDown(q, p)

Repair(q, p) ==
    IF p > 0 /\ Less(At(q, p), At(q, Parent(p))) THEN SiftUp(q, p) ELSE SiftDown(q, p)

Scheduled(q, i, at) ==
    IF i \in DOMAIN q.positions
    THEN Repair([q EXCEPT !.heap[q.positions[i] + 1].at = at], q.positions[i])
    ELSE LET p == Len(q.heap)
         IN  SiftUp([heap |-> Append(q.heap, [at |-> at, index |-> i]),
                     positions |-> [j \in DOMAIN q.positions \cup {i} |->
                                        IF j = i THEN p ELSE q.positions[j]]], p)

\* swap_remove, and the repair of the position it filled.
Without(q, i) ==
    LET p == q.positions[i]
        last == Len(q.heap)
        moved == q.heap[last]
        rest == [heap |-> SubSeq([q.heap EXCEPT ![p + 1] = moved], 1, last - 1),
                 positions |-> [j \in DOMAIN q.positions \ {i} |->
                                    IF j = moved.index THEN p ELSE q.positions[j]]]
    IN  IF p < last - 1 THEN Repair(rest, p) ELSE rest

Cancelled(q, i) == IF i \in DOMAIN q.positions THEN Without(q, i) ELSE q

\* FAULT: a deadline that is due just now is left for later.
RECURSIVE ExpiredStrictly(_, _, _)
ExpiredStrictly(q, now, out) ==
    IF q.heap = << >> \/ Head(q.heap).at >= now
    THEN <<q, out>>
    ELSE ExpiredStrictly(Cancelled(q, Head(q.heap).index), now, Append(out, Head(q.heap)))

\* expire: the queue that is left and what was fired.
RECURSIVE Expired(_, _, _)
Expired(q, now, out) ==
    IF q.heap = << >> \/ Head(q.heap).at > now
    THEN <<q, out>>
    ELSE Expired(Cancelled(q, Head(q.heap).index), now, Append(out, Head(q.heap)))

NextWakeup(q) == IF q.heap = << >> THEN None ELSE Head(q.heap).at

-----------------------------------------------------------------------------
Nothing == [now |-> None, timers |-> << >>]

Init == queue = Empty /\ fired = Nothing

Schedule(i, at) ==
    /\ queue' = Scheduled(queue, i, at)
    /\ fired' = Nothing

Cancel(i) ==
    /\ queue' = Cancelled(queue, i)
    /\ fired' = Nothing

Expire(now) ==
    LET e == Expired(queue, now, << >>)
    IN  queue' = e[1] /\ fired' = [now |-> now, timers |-> e[2]]

Next ==
    \/ \E i \in Indices, at \in Times : Schedule(i, at)
    \/ \E i \in Indices : Cancel(i)
    \/ \E now \in Times : Expire(now)

Spec == Init /\ [][Next]_vars

-----------------------------------------------------------------------------
\* The deadline the queue holds for a connection.
DeadlineIn(q, i) == IF i \in DOMAIN q.positions THEN At(q, q.positions[i]).at ELSE None

\* "positions is a bijection between connection indices and heap positions",
\* and no entry is less than its parent, after every replacement, removal from
\* the middle and batch of expiries.
WellFormed(q) ==
    /\ DOMAIN q.positions \subseteq Indices
    /\ Cardinality(DOMAIN q.positions) = Len(q.heap)
    /\ \A i \in DOMAIN q.positions :
           q.positions[i] < Len(q.heap) /\ At(q, q.positions[i]).index = i
    /\ \A p \in 1 .. Len(q.heap) - 1 : ~Less(At(q, p), At(q, Parent(p)))

Indexed == WellFormed(queue)

\* The heap is a table of deadlines: schedule and cancel change one entry and no
\* other, and expire removes and fires exactly the due ones, earliest first.
Table == INSTANCE Deadlines WITH
    deadline <- [i \in Indices |-> DeadlineIn(queue, i)]

IsDeadlineTable == Table!Spec
=============================================================================
