----------------------------- MODULE Deadlines -----------------------------
(***************************************************************************)
(* What the timer queue of an event loop is for: one deadline per          *)
(* connection, and the due ones, earliest first.                           *)
(***************************************************************************)
EXTENDS Naturals, Sequences, FiniteSets

CONSTANTS Indices, Times, None

VARIABLES
    deadline,   \* the deadline of a connection, or None
    fired       \* the last expiry: the instant it was asked for and what it fired

vars == <<deadline, fired>>

Nothing == [now |-> None, timers |-> << >>]

Init == deadline = [i \in Indices |-> None] /\ fired = Nothing

Schedule(i, at) ==
    /\ deadline' = [deadline EXCEPT ![i] = at]
    /\ fired' = Nothing

Cancel(i) ==
    /\ deadline' = [deadline EXCEPT ![i] = None]
    /\ fired' = Nothing

\* The due deadlines, as the entries an expiry fires.
Due(now) ==
    {[at |-> deadline[i], index |-> i] :
        i \in {j \in Indices : deadline[j] # None /\ deadline[j] <= now}}

Earlier(s, t) == s.at < t.at \/ (s.at = t.at /\ s.index < t.index)

\* Every due deadline fires once, in order, and is gone.
Expire(now) ==
    /\ fired'.now = now
    /\ {fired'.timers[k] : k \in DOMAIN fired'.timers} = Due(now)
    /\ \A k \in 2 .. Len(fired'.timers) : Earlier(fired'.timers[k - 1], fired'.timers[k])
    /\ deadline' = [i \in Indices |->
           IF \E t \in Due(now) : t.index = i THEN None ELSE deadline[i]]

Next ==
    \/ \E i \in Indices, at \in Times : Schedule(i, at)
    \/ \E i \in Indices : Cancel(i)
    \/ \E now \in Times : Expire(now)

Spec == Init /\ [][Next]_vars
=============================================================================
