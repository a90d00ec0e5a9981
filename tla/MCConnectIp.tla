---------------------------- MODULE MCConnectIp ----------------------------
(***************************************************************************)
(* Instances of ConnectIp for TLC. The IPv4 pool has one usable address    *)
(* and the IPv6 pool two, so exhaustion, wrapping and reuse all happen.    *)
(***************************************************************************)
EXTENDS ConnectIp, TLC

CONSTANTS c1, c2, c3, t1, t2, t3, s1, s2, k1, k2

Pools == [f \in {"v4", "v6"} |-> 3]

V4(n) == [fam |-> "v4", off |-> n]

V6(n) == [fam |-> "v6", off |-> n]

\* A pinned client reconnects on another shard while a client of an HTTP/2
\* listener without certificates takes from the pool.
ReconnectRosters == {k1 :> {V4(2), V6(2)}}

ReconnectKey == c1 :> k1 @@ c2 :> k1 @@ c3 :> NoKey

\* A reload moves one of a client's two addresses to another client, which is
\* then pinned instead of dynamic, and back: a claim under an old roster is
\* refused at its second address. Reloads that ask for the gateway or for an
\* address out of range are refused.
MoveRosters ==
    {k1 :> {V4(2), V6(2)} @@ k2 :> {},
     k1 :> {V4(2)} @@ k2 :> {V6(2)},
     k2 :> {V4(1)},
     k1 :> {V6(4)}}

MoveKey == c1 :> k1 @@ c2 :> k2

\* Dynamic clients of both transports compete for one address.
NoRosters == {<<>>}

OpenKey == [c \in {c1, c3} |-> NoKey]

TwoShards == c1 :> s1 @@ c2 :> s2

FirstShard == c1 :> s1

OneEach == t1 :> c1 @@ t2 :> c2 @@ t3 :> c3

ReconnectKey2 == c1 :> k1 @@ c2 :> k1

OneEach2 == t1 :> c1 @@ t2 :> c2

TwoOfFirst == t1 :> c1 @@ t2 :> c2 @@ t3 :> c1

TwoOnFirst == t1 :> c1 @@ t2 :> c1 @@ t3 :> c3

============================================================================
