------------------------ MODULE ConnectIpLeaseProofs ------------------------
(***************************************************************************)
(* Types and leases of ConnectIp, for any number of connections, tunnels,  *)
(* shards and rosters and for pools of any size.                           *)
(***************************************************************************)
EXTENDS ConnectIp, AddressPoolProofs, FiniteSetTheorems

\* The pool operations the tunnels use keep the pool's type, and a tunnel is
\* assigned addresses of the pool only.
LEMMA TakeType ==
    ASSUME TypeOK, NEW t \in Tunnels, TakeAddresses(t)
    PROVE  /\ PoolTypeOK'
           /\ addrs' \in [Tunnels -> SUBSET Addrs]
           /\ phase' \in [Tunnels -> Phases]
<1> DEFINE c == ConnOf[t]
<1>1. c \in Conns
    BY TunnelAssumption
<1>2. CASE Pinned(c)
    <2>1. identity[c] \in Identities
        BY <1>1, <1>2 DEF Pinned, TypeOK
    <2>2. identity[c].key \in Keys
        BY <2>1 DEF Identities
    <2>3. ClaimStaticAddresses(identity[c].pins, identity[c].key)
        BY <1>2 DEF TakeAddresses
    <2>4. PoolTypeOK'
        BY <2>2, <2>3, ClaimType DEF TypeOK
    <2>5. AllClaimable(identity[c].pins, identity[c].key)
            => identity[c].pins \subseteq Addrs
        BY DEF AllClaimable, Claimable, InRange
    <2> QED
        BY <1>2, <2>4, <2>5 DEF TakeAddresses, TypeOK, SetPhase, Phases
<1>3. CASE ~Pinned(c)
    <2>1. AllocatePoolAddresses
        BY <1>3 DEF TakeAddresses
    <2>2. PoolTypeOK'
        BY <2>1, AllocateType DEF TypeOK
    <2>3. PoolAddresses \subseteq Addrs
        BY PoolAddressesFree, SMTT(30)
    <2> QED
        BY <1>3, <2>2, <2>3 DEF TakeAddresses, TypeOK, SetPhase, Phases
<1> QED
    BY <1>2, <1>3

\* Every action of a tunnel keeps the types.
LEMMA TunnelTypes ==
    ASSUME TypeOK, NEW t \in Tunnels, TunnelNext(t)
    PROVE  TypeOK'
<1> USE DEF TypeOK, SetPhase, Phases, tunnelVars, connVars, rosterVars,
            routeVars, pktVars, poolVars
<1> HIDE DEF PoolTypeOK
<1>0. /\ UNCHANGED poolVars => PoolTypeOK'
      /\ ReleaseAll(addrs[t]) => PoolTypeOK'
    <2>1. UNCHANGED poolVars => PoolTypeOK'
        BY DEF PoolTypeOK
    <2>2. ReleaseAll(addrs[t]) => PoolTypeOK'
        BY ReleaseType
    <2> QED
        BY <2>1, <2>2
<1>1. CASE Request(t)
    BY <1>0, <1>1, TakeType DEF Request
<1>2. CASE Retry(t)
    BY <1>2, TakeType DEF Retry
<1>3. CASE Respond(t)
    BY <1>0, <1>3 DEF Respond
<1>4. CASE RespondFails(t)
    BY <1>0, <1>4 DEF RespondFails
<1>5. CASE CancelBlocked(t)
    BY <1>0, <1>5 DEF CancelBlocked
<1>6. CASE InsertRoute(t)
    BY <1>0, <1>6 DEF InsertRoute
<1>7. CASE TeardownRelease(t)
    BY <1>0, <1>7 DEF TeardownRelease
<1>8. CASE TeardownRoutes(t)
    BY <1>0, <1>8 DEF TeardownRoutes, RemoveOwned
<1>9. CASE ForcedRelease(t)
    BY <1>0, <1>9 DEF ForcedRelease
<1>10. CASE Http2Request(t)
    BY <1>0, <1>10, TakeType DEF Http2Request
<1>11. CASE Http2Announce(t)
    BY <1>0, <1>11 DEF Http2Announce
<1>12. CASE Http2InsertRoutes(t)
    BY <1>0, <1>12 DEF Http2InsertRoutes
<1>13. CASE Http2Drop(t)
    BY <1>0, <1>13 DEF Http2Drop
<1>14. CASE Http2DropRoutes(t)
    BY <1>0, <1>14 DEF Http2DropRoutes, RemoveOwned
<1>15. CASE Http2DropLease(t)
    BY <1>0, <1>15, ZenonT(30) DEF Http2DropLease
<1> QED
    BY <1>1, <1>2, <1>3, <1>4, <1>5, <1>6, <1>7, <1>8, <1>9, <1>10, <1>11,
       <1>12, <1>13, <1>14, <1>15, ZenonT(30) DEF TunnelNext

\* So does every step of a connection, a shard, a reload or a packet.
LEMMA OtherTypes ==
    ASSUME TypeOK,
           \/ \E c \in Conns : ConnNext(c)
           \/ \E s \in Shards : ShardNext(s)
           \/ ReloadNext
           \/ PacketNext
    PROVE  TypeOK'
<1> USE DEF TypeOK, tunnelVars, connVars, rosterVars, routeVars, pktVars, poolVars
<1> HIDE DEF PoolTypeOK
<1>0. UNCHANGED poolVars => PoolTypeOK'
    BY SMTT(30) DEF PoolTypeOK
<1>1. ASSUME NEW c \in Conns, Handshake(c) PROVE TypeOK'
    <2>1. indexShard' \in SUBSET Http3 /\ conn' \in [Conns -> {"new", "open", "closing", "reaping", "gone"}]
        BY <1>1, SMTT(30) DEF Handshake
    <2>2. ASSUME CertKey[c] \in DOMAIN roster
          PROVE  [key |-> CertKey[c], pins |-> roster[CertKey[c]]] \in Identities
        BY <2>2, RosterAssumption, ZenonT(30) DEF Identities
    <2>3. identity' \in [Conns -> Identities \cup {NoIdentity}]
        BY <1>1, <2>2, ZenonT(30) DEF Handshake
    <2> QED
        BY <1>0, <1>1, <2>1, <2>3, ZenonT(30) DEF Handshake
<1>2. ASSUME NEW c \in Conns, CloseConn(c) PROVE TypeOK'
    BY <1>0, <1>2, ZenonT(30) DEF CloseConn
<1>3. ASSUME NEW c \in Conns, Reap(c) PROVE TypeOK'
    BY <1>0, <1>3, ZenonT(30) DEF Reap, Phases
<1>4. ASSUME NEW c \in Conns, ReapDone(c) PROVE TypeOK'
    BY <1>0, <1>4, ZenonT(30) DEF ReapDone
<1>5. ASSUME NEW c \in Conns, JoinRequests(c) PROVE TypeOK'
    BY <1>0, <1>5, ZenonT(30) DEF JoinRequests
<1>6. ASSUME NEW s \in Shards, ShardNext(s) PROVE TypeOK'
    BY <1>0, <1>6, ZenonT(30) DEF ShardNext, Shutdown, DrainTimeout, Exit
<1>7. CASE ReloadNext
    <2>1. ASSUME NEW r \in Rosters, ReloadReservations(r) PROVE TypeOK'
        <3>1. PoolTypeOK'
            BY <2>1, ReservationsType DEF ReloadReservations, SetStaticReservations, PoolTypeOK
        <3> QED
            BY <2>1, <3>1 DEF ReloadReservations
    <2>2. ASSUME ReloadRoster PROVE TypeOK'
        BY <1>0, <2>2, ZenonT(30) DEF ReloadRoster
    <2> QED
        BY <1>7, <2>1, <2>2 DEF ReloadNext
<1>8. CASE PacketNext
    <2>1. ASSUME NEW a \in Addrs, TunRead(a) PROVE TypeOK'
        BY <1>0, <2>1 DEF TunRead, Packets
    <2>2. ASSUME TunInbound PROVE TypeOK'
        BY <1>0, <2>2, Zenon DEF TunInbound, Packets
    <2>3. ASSUME Dispatch PROVE TypeOK'
        <3>1. pkt \in Packets /\ pkt.owner \in Tunnels /\ pkt.dst \in Addrs
            BY <2>3 DEF Dispatch, Packets
        <3>2. ConnOf[pkt.owner] \in indexShard => ShardOf[ConnOf[pkt.owner]] \in Shards
            BY TunnelAssumption, indexShard \subseteq Http3
        <3>3. \A s \in Shards : [pkt EXCEPT !.at = s, !.stage = "queued"] \in Packets
            BY <3>1, Zenon DEF Packets
        <3>4. [pkt EXCEPT !.stage = "http2"] \in Packets
            BY <3>1 DEF Packets
        <3>5. <<pkt.owner, pkt.dst>> \in Tunnels \X Addrs
            BY <3>1
        <3>6. /\ pkt' \in Packets \cup {NoPacket}
              /\ delivered' \in (Tunnels \X Addrs) \cup {NoPacket}
            <4> HIDE DEF Packets
            <4> QED
                BY <2>3, <3>2, <3>3, <3>4, <3>5, ZenonT(30) DEF Dispatch
        <3> QED
            BY <1>0, <2>3, <3>6 DEF Dispatch
    <2>4. ASSUME Http2Receive PROVE TypeOK'
        BY <1>0, <2>4, ZenonT(30) DEF Http2Receive, Packets
    <2>5. ASSUME QueueDropped PROVE TypeOK'
        BY <1>0, <2>5 DEF QueueDropped
    <2> QED
        BY <1>8, <2>1, <2>2, <2>3, <2>4, <2>5, ZenonT(30) DEF PacketNext
<1> QED
    BY <1>1, <1>2, <1>3, <1>4, <1>5, <1>6, <1>7, <1>8, ZenonT(30) DEF ConnNext

\* No step of the system, and no stuttering, breaks a type.
LEMMA TypeStep == TypeOK /\ [Next]_vars => TypeOK'
<1> SUFFICES ASSUME TypeOK, [Next]_vars PROVE TypeOK'
    OBVIOUS
<1>1. CASE Next
    BY <1>1, TunnelTypes, OtherTypes, SMTT(30) DEF Next
<1>2. CASE UNCHANGED vars
    BY <1>2, SMTT(30) DEF vars, TypeOK, PoolTypeOK, tunnelVars, connVars, rosterVars,
                routeVars, pktVars, poolVars
<1> QED
    BY <1>1, <1>2

\* The state Server::bind starts with is well typed.
LEMMA TypeInit == Init => TypeOK
<1> SUFFICES ASSUME Init PROVE TypeOK
    OBVIOUS
<1>1. PoolTypeOK
    BY ReservationsType DEF Init, PoolInit, PoolTypeOK, Unallocated
<1> QED
    BY <1>1 DEF Init, TypeOK, Phases

\* Every variable keeps the type of its Rust counterpart.
THEOREM TypeCorrect == Spec => []TypeOK
BY TypeInit, TypeStep, PTL DEF Spec

----------------------------------------------------------------------------
(* What taking and giving back addresses does to the leases. *)

Leases == LeasesCounted /\ LeasesExclusive /\ LeasesLabelled

\* The holders of an address can be counted.
LEMMA HoldersFinite ==
    ASSUME NEW a
    PROVE  IsFiniteSet(Holders(a)) /\ Cardinality(Holders(a)) \in Nat
BY TunnelAssumption, FS_Subset, FS_CardinalityType DEF Holders

\* A held address has a live lease in the pool.
LEMMA HeldLive ==
    ASSUME TypeOK, LeasesCounted, NEW t \in Tunnels, NEW a \in Addrs, Holds(t, a)
    PROVE  allocated[a].claims > 0
<1>1. t \in Holders(a)
    BY DEF Holders
<1>2. Cardinality(Holders(a)) # 0
    BY <1>1, HoldersFinite, FS_EmptySet
<1> QED
    BY <1>2, HoldersFinite DEF LeasesCounted

\* Steps that move no address between a tunnel and the pool.
LEMMA LeasesSame ==
    ASSUME TypeOK, Leases,
           \A a \in Addrs :
                /\ allocated'[a].claims = allocated[a].claims
                /\ allocated[a].claims > 0 => allocated'[a].owner = allocated[a].owner,
           \A t \in Tunnels : \A a \in Addrs :
                /\ Holds(t, a)' <=> Holds(t, a)
                /\ Holds(t, a) => LeaseKey(t)' = LeaseKey(t)
    PROVE  Leases'
<1>1. \A a \in Addrs : Holders(a)' = Holders(a)
    BY DEF Holders
<1>2. LeasesCounted'
    BY <1>1, ZenonT(30) DEF Leases, LeasesCounted
<1>3. LeasesExclusive'
    BY DEF Leases, LeasesExclusive
<1>4. LeasesLabelled'
    BY HeldLive DEF Leases, LeasesLabelled
<1> QED
    BY <1>2, <1>3, <1>4 DEF Leases

\* The two fields of a lease.
LEMMA LeaseFields ==
    ASSUME NEW n, NEW k
    PROVE  /\ [claims |-> n, owner |-> k].claims = n
           /\ [claims |-> n, owner |-> k].owner = k
OBVIOUS

\* Each address of A has one more count, for key, and was free or held under
\* that key; the other addresses are as they were.
Taken(A, key) ==
    /\ \A a \in A : /\ allocated'[a].claims = allocated[a].claims + 1
                    /\ allocated'[a].owner = key
    /\ \A a \in Addrs \ A :
            /\ allocated'[a].claims = allocated[a].claims
            /\ allocated[a].claims > 0 => allocated'[a].owner = allocated[a].owner
    /\ \A a \in A : allocated[a].claims > 0 => allocated[a].owner = key /\ key # NoKey

\* A tunnel takes the addresses A under the key of its lease.
LEMMA LeasesTaken ==
    ASSUME TypeOK, Leases, NEW t \in Tunnels, NEW A \in SUBSET Addrs, NEW key,
           key = LeaseKey(t), Taken(A, key),
           \A a \in Addrs : ~Holds(t, a),
           \A u \in Tunnels : \A a \in Addrs :
                Holds(u, a)' <=> Holds(u, a) \/ (u = t /\ a \in A),
           \A u \in Tunnels : LeaseKey(u)' = LeaseKey(u)
    PROVE  Leases'
<1> USE DEF Taken
<1>0. /\ \A a \in A : /\ allocated'[a].claims = allocated[a].claims + 1
                      /\ allocated'[a].owner = key
      /\ \A a \in Addrs : allocated[a].claims > 0
                            => allocated'[a].owner = allocated[a].owner
    OBVIOUS
<1>1. \A a \in A : Holders(a)' = Holders(a) \cup {t} /\ t \notin Holders(a)
    BY DEF Holders
<1>2. \A a \in Addrs \ A : Holders(a)' = Holders(a)
    BY SMTT(30) DEF Holders
<1>3. LeasesCounted'
    <2> SUFFICES ASSUME NEW a \in Addrs
                 PROVE  allocated'[a].claims = Cardinality(Holders(a)')
        BY ZenonT(30) DEF LeasesCounted
    <2>1. CASE a \in A
        <3> HIDE DEF Taken
        <3>1. Cardinality(Holders(a)') = Cardinality(Holders(a)) + 1
            BY <1>1, <2>1, HoldersFinite, FS_AddElement, SMTT(30)
        <3> QED
            BY <1>0, <2>1, <3>1, ZenonT(30) DEF Leases, LeasesCounted
    <2>2. CASE a \notin A
        <3>1. Holders(a)' = Holders(a)
            BY <1>2, <2>2, ZenonT(30)
        <3>2. allocated'[a].claims = allocated[a].claims
            BY <2>2, ZenonT(30)
        <3> QED
            BY <3>1, <3>2, ZenonT(30) DEF Leases, LeasesCounted
    <2> QED
        BY <2>1, <2>2, ZenonT(30)
<1>4. LeasesLabelled'
    <2> SUFFICES ASSUME NEW u \in Tunnels, NEW a \in Addrs, Holds(u, a)'
                 PROVE  allocated'[a].owner = LeaseKey(u)
        BY ZenonT(30) DEF LeasesLabelled
    <2>1. CASE Holds(u, a)
        <3>1. allocated[a].claims > 0 /\ allocated[a].owner = LeaseKey(u)
            BY <2>1, HeldLive, ZenonT(30) DEF Leases, LeasesLabelled
        <3> QED
            BY <1>0, <3>1, ZenonT(30)
    <2>2. CASE u = t /\ a \in A
        BY <1>0, <2>2, ZenonT(30)
    <2> QED
        BY <2>1, <2>2, SMTT(30)
<1>5. LeasesExclusive'
    <2> SUFFICES ASSUME NEW u \in Tunnels, NEW v \in Tunnels, NEW a \in Addrs,
                        u # v, Holds(u, a)', Holds(v, a)'
                 PROVE  LeaseKey(u) # NoKey /\ LeaseKey(u) = LeaseKey(v)
        BY ZenonT(30) DEF LeasesExclusive
    <2>1. CASE Holds(u, a) /\ Holds(v, a)
        BY <2>1, ZenonT(30) DEF Leases, LeasesExclusive
    <2>2. ASSUME NEW w \in Tunnels, Holds(w, a), a \in A
          PROVE  LeaseKey(w) = key /\ key # NoKey
        <3>1. allocated[a].claims > 0 /\ allocated[a].owner = LeaseKey(w)
            BY <2>2, HeldLive, ZenonT(30) DEF Leases, LeasesLabelled
        <3> QED
            BY <2>2, <3>1, ZenonT(30)
    <2> QED
        BY <2>1, <2>2, ZenonT(30)
<1> QED
    BY <1>3, <1>4, <1>5, ZenonT(30) DEF Leases

\* A tunnel gives back every address it holds.
LEMMA LeasesGiven ==
    ASSUME TypeOK, Leases, NEW t \in Tunnels, ReleaseAll(addrs[t]),
           \A a \in addrs[t] : Holds(t, a),
           \A u \in Tunnels : \A a \in Addrs :
                Holds(u, a)' <=> Holds(u, a) /\ u # t,
           \A u \in Tunnels : LeaseKey(u)' = LeaseKey(u)
    PROVE  Leases'
<1>1. \A a \in Addrs : allocated'[a] = Released(allocated, addrs[t])[a]
    BY DEF ReleaseAll
<1>2. \A a \in Addrs : Holders(a)' = Holders(a) \ {t}
    BY ZenonT(30) DEF Holders
<1>3. LeasesCounted'
    <2> SUFFICES ASSUME NEW a \in Addrs
                 PROVE  allocated'[a].claims = Cardinality(Holders(a)')
        BY ZenonT(30) DEF LeasesCounted
    <2>1. CASE a \in addrs[t]
        <3>0. Holds(t, a)
            BY <2>1, ZenonT(30)
        <3>1. t \in Holders(a) /\ allocated[a].claims > 0
            BY <3>0, HeldLive, ZenonT(30) DEF Holders, Leases
        <3>2. Cardinality(Holders(a)') = Cardinality(Holders(a)) - 1
            BY <1>2, <3>1, HoldersFinite, FS_RemoveElement, ZenonT(30)
        <3>3. PoolTypeOK
            BY ZenonT(30) DEF TypeOK
        <3>4. Released(allocated, addrs[t])[a].claims = allocated[a].claims - 1
            BY <2>1, <3>1, <3>3, ReleasedLease, ZenonT(30)
        <3>5. allocated[a].claims = Cardinality(Holders(a))
            BY ZenonT(30) DEF Leases, LeasesCounted
        <3> QED
            BY <1>1, <3>2, <3>4, <3>5, ZenonT(30)
    <2>2. CASE a \notin addrs[t]
        <3>1. Holders(a)' = Holders(a)
            BY <1>2, <2>2, ZenonT(30) DEF Holders, Holds
        <3>2. allocated'[a] = allocated[a]
            BY <1>1, <2>2, ReleasedLease, ZenonT(30) DEF TypeOK
        <3> QED
            BY <3>1, <3>2, ZenonT(30) DEF Leases, LeasesCounted
    <2> QED
        BY <2>1, <2>2, ZenonT(30)
<1>4. LeasesLabelled'
    <2> SUFFICES ASSUME NEW u \in Tunnels, NEW a \in Addrs, Holds(u, a)'
                 PROVE  allocated'[a].owner = LeaseKey(u)
        BY ZenonT(30) DEF LeasesLabelled
    <2>1. Holds(u, a) /\ u # t /\ allocated[a].owner = LeaseKey(u)
        BY ZenonT(30) DEF Leases, LeasesLabelled
    <2>2. Cardinality(Holders(a)') # 0
        <3>1. u \in Holders(a)'
            BY ZenonT(30) DEF Holders
        <3>2. IsFiniteSet(Holders(a)')
            BY <1>2, HoldersFinite, FS_Subset, ZenonT(30)
        <3> QED
            BY <3>1, <3>2, FS_EmptySet, ZenonT(30)
    <2>3. allocated'[a].claims \in Nat
        <3>1. PoolTypeOK'
            BY ReleaseType, ZenonT(30) DEF TypeOK
        <3> QED
            BY <3>1, ZenonT(30) DEF PoolTypeOK
    <2>4. allocated'[a].claims > 0
        <3>1. \A b \in Addrs : allocated'[b].claims = Cardinality(Holders(b)')
            BY <1>3, ZenonT(30) DEF LeasesCounted
        <3>2. allocated'[a].claims # 0
            BY <2>2, <3>1, SMTT(30)
        <3> QED
            BY <2>3, <3>2, SMTT(30)
    <2>5. PoolTypeOK /\ Released(allocated, addrs[t])[a].claims > 0
        BY <1>1, <2>4, ZenonT(30) DEF TypeOK
    <2>6. Released(allocated, addrs[t])[a].owner = allocated[a].owner
        BY <2>5, ReleasedLease, ZenonT(30)
    <2> QED
        BY <1>1, <2>1, <2>6, ZenonT(30)
<1>5. LeasesExclusive'
    <2> SUFFICES ASSUME NEW u \in Tunnels, NEW v \in Tunnels, NEW a \in Addrs,
                        u # v, Holds(u, a)', Holds(v, a)'
                 PROVE  LeaseKey(u) # NoKey /\ LeaseKey(u) = LeaseKey(v)
        BY ZenonT(30) DEF LeasesExclusive
    <2>1. Holds(u, a) /\ Holds(v, a)
        OBVIOUS
    <2> QED
        BY <2>1, ZenonT(30) DEF Leases, LeasesExclusive
<1> QED
    BY <1>3, <1>4, <1>5, ZenonT(30) DEF Leases

\* setup_ip_tunnel and serve() take addresses, or are refused, without breaking
\* the accounting of the leases.
LEMMA TakeLeases ==
    ASSUME Inv, NEW t \in Tunnels, TakeAddresses(t), identity' = identity,
           phase[t] \in {"idle", "blocked"}
    PROVE  Leases'
<1> DEFINE c == ConnOf[t]
           pins == identity[c].pins
           key == identity[c].key
<1>1. TypeOK /\ Leases /\ c \in Conns
    BY TunnelAssumption DEF Inv, Leases
<1>2. \A u \in Tunnels : LeaseKey(u)' = LeaseKey(u)
    BY DEF LeaseKey, Pinned
<1>3. \A a \in Addrs : ~Holds(t, a)
    BY ZenonT(30) DEF Holds, Leasing
<1>4. ASSUME NEW A \in SUBSET Addrs, addrs' = [addrs EXCEPT ![t] = A],
             SetPhase(t, IF A = {} THEN "closed" ELSE "claimed")
      PROVE  \A u \in Tunnels : \A a \in Addrs :
                Holds(u, a)' <=> Holds(u, a) \/ (u = t /\ a \in A)
    BY <1>1, <1>3, <1>4, ZenonT(30) DEF Holds, Leasing, SetPhase, TypeOK
<1>5. CASE Pinned(c)
    <2>1. key \in Keys /\ key = LeaseKey(t) /\ key # NoKey
        BY <1>1, <1>5, NoKeyAssumption, ZenonT(30) DEF Pinned, TypeOK, LeaseKey, Identities
    <2>2. ClaimStaticAddresses(pins, key)
        BY <1>5, SMTT(30) DEF TakeAddresses
    <2>3. CASE AllClaimable(pins, key)
        <3>1. pins \in SUBSET Addrs
            BY <2>3, SMTT(30) DEF AllClaimable, Claimable, InRange
        <3>2. \A a \in pins : allocated[a].claims > 0 => allocated[a].owner = key
            BY <2>3, SMTT(30) DEF AllClaimable, Claimable
        <3>3. \A u \in Tunnels : \A a \in Addrs :
                Holds(u, a)' <=> Holds(u, a) \/ (u = t /\ a \in pins)
            BY <1>4, <1>5, <2>3, <3>1, Zenon DEF TakeAddresses
        <3>4. PoolTypeOK
            BY <1>1, ZenonT(30) DEF TypeOK
        <3>5. PICK A \in SUBSET Addrs, k \in Keys : A = pins /\ k = key
            BY <2>1, <3>1, ZenonT(30)
        <3>6. ClaimStaticAddresses(A, k) /\ AllClaimable(A, k)
            BY <2>2, <2>3, <3>5, ZenonT(30)
        <3>7. \A a \in A : allocated[a].claims > 0
                                => allocated[a].owner = k /\ k # NoKey
            BY <2>1, <3>2, <3>5, ZenonT(30)
        <3>8. k = LeaseKey(t) /\ TypeOK /\ Leases
            BY <1>1, <2>1, <3>5, ZenonT(30)
        <3>9. \A u \in Tunnels : \A a \in Addrs :
                Holds(u, a)' <=> Holds(u, a) \/ (u = t /\ a \in A)
            BY <3>3, <3>5
        <3>10. ASSUME NEW a \in A
              PROVE  /\ allocated'[a].claims = allocated[a].claims + 1
                     /\ allocated'[a].owner = k
            <4>1. allocated'[a] = [claims |-> allocated[a].claims + 1, owner |-> k]
                BY <3>4, <3>6, ClaimAllOrNothing, SMTT(30)
            <4> QED
                BY <4>1, LeaseFields, SMTT(30)
        <3>11. ASSUME NEW a \in Addrs \ A
              PROVE  /\ allocated'[a].claims = allocated[a].claims
                     /\ allocated[a].claims > 0 => allocated'[a].owner = allocated[a].owner
            BY <3>4, <3>6, ClaimAllOrNothing, ZenonT(30)
        <3>12. \A a \in A : /\ allocated'[a].claims = allocated[a].claims + 1
                             /\ allocated'[a].owner = k
            BY <3>10
        <3>13. \A a \in Addrs \ A :
                /\ allocated'[a].claims = allocated[a].claims
                /\ allocated[a].claims > 0 => allocated'[a].owner = allocated[a].owner
            BY <3>11
        <3>14. Taken(A, k)
            BY <3>7, <3>12, <3>13, Zenon DEF Taken
        <3> HIDE DEF c, pins, key
        <3> QED
            BY <1>2, <1>3, <3>8, <3>9, <3>14, LeasesTaken, ZenonT(30)
    <2>4. CASE ~AllClaimable(pins, key)
        <3>1. \A u \in Tunnels : \A a \in Addrs : Holds(u, a)' <=> Holds(u, a)
            BY <1>4, <1>5, <2>4, ZenonT(30) DEF TakeAddresses
        <3>2. \A a \in Addrs :
                /\ allocated'[a].claims = allocated[a].claims
                /\ allocated[a].claims > 0 => allocated'[a].owner = allocated[a].owner
            <4> SUFFICES ASSUME NEW a \in Addrs
                         PROVE  /\ allocated'[a].claims = allocated[a].claims
                                /\ allocated[a].claims > 0
                                    => allocated'[a].owner = allocated[a].owner
                OBVIOUS
            <4>1. PoolTypeOK
                BY <1>1 DEF TypeOK
            <4> HIDE DEF c, pins, key
            <4> QED
                BY <2>1, <2>2, <2>4, <4>1, ClaimAllOrNothing, ZenonT(30)
        <3> QED
            BY <1>1, <1>2, <3>1, <3>2, LeasesSame
    <2> QED
        BY <2>3, <2>4, ZenonT(30)
<1>6. CASE ~Pinned(c)
    <2>1. AllocatePoolAddresses /\ NoKey = LeaseKey(t)
        BY <1>6, ZenonT(30) DEF TakeAddresses, LeaseKey
    <2>2. PoolAddresses \in SUBSET Addrs /\ \A a \in PoolAddresses : allocated[a].claims = 0
        BY PoolAddressesFree, ZenonT(30) DEF Free
    <2>3. \A u \in Tunnels : \A a \in Addrs :
            Holds(u, a)' <=> Holds(u, a) \/ (u = t /\ a \in PoolAddresses)
        BY <1>4, <1>6, <2>2, Zenon DEF TakeAddresses
    <2>4. ASSUME NEW a \in PoolAddresses
          PROVE  /\ allocated'[a].claims = allocated[a].claims + 1
                 /\ allocated'[a].owner = NoKey
        <3>1. a \in Addrs /\ allocated[a].claims = 0
            BY <2>2, ZenonT(30)
        <3>2. allocated'[a] = Dynamic
            BY <2>1, <3>1, ZenonT(30) DEF AllocatePoolAddresses
        <3>3. Dynamic.claims = 1 /\ Dynamic.owner = NoKey
            BY ZenonT(30) DEF Dynamic
        <3> QED
            BY <3>1, <3>2, <3>3, SMTT(30)
    <2>5. ASSUME NEW a \in Addrs \ PoolAddresses
          PROVE  /\ allocated'[a].claims = allocated[a].claims
                 /\ allocated[a].claims > 0 => allocated'[a].owner = allocated[a].owner
        BY <2>1, <2>5, SMTT(30) DEF AllocatePoolAddresses
    <2>6. \A a \in PoolAddresses : allocated[a].claims > 0
                                    => allocated[a].owner = NoKey /\ NoKey # NoKey
        BY <2>2, SMTT(30)
    <2>7. Taken(PoolAddresses, NoKey)
        BY <2>4, <2>5, <2>6, Zenon DEF Taken
    <2> HIDE DEF c, pins, key
    <2> QED
        BY <1>1, <1>2, <1>3, <2>1, <2>2, <2>3, <2>7, LeasesTaken, ZenonT(30)
<1> QED
    BY <1>5, <1>6

\* Every action of a tunnel preserves the accounting of the leases.
LEMMA TunnelLeases ==
    ASSUME Inv, NEW t \in Tunnels, TunnelNext(t)
    PROVE  Leases'
<1>1. TypeOK /\ Leases /\ TunnelShape
    BY ZenonT(30) DEF Inv, Leases
<1>2. identity' = identity /\ \A u \in Tunnels : LeaseKey(u)' = LeaseKey(u)
    <2>1. identity' = identity
        BY ZenonT(30) DEF TunnelNext, Request, Retry, Respond, RespondFails, CancelBlocked,
               InsertRoute, TeardownRelease, TeardownRoutes, ForcedRelease,
               Http2Request, Http2Announce, Http2InsertRoutes, Http2Drop,
               Http2DropRoutes, Http2DropLease, connVars
    <2> QED
        BY <2>1, SMTT(30) DEF LeaseKey, Pinned
<1>3. ASSUME UNCHANGED allocated,
             \A u \in Tunnels : \A a \in Addrs : Holds(u, a)' <=> Holds(u, a)
      PROVE  Leases'
    BY <1>1, <1>2, <1>3, LeasesSame, ZenonT(30)
<1>4. ASSUME ReleaseAll(addrs[t]), phase[t] \in Leasing,
             \A u \in Tunnels : \A a \in Addrs : Holds(u, a)' <=> Holds(u, a) /\ u # t
      PROVE  Leases'
    <2>1. \A a \in addrs[t] : Holds(t, a)
        BY <1>4 DEF Holds
    <2> QED
        BY <1>1, <1>2, <1>4, <2>1, LeasesGiven, ZenonT(30)
<1> USE DEF SetPhase, tunnelVars, poolVars
<1>5. ASSUME phase[t] = "idle",
             IF TunnelCount(ConnOf[t]) >= MaxTunnels
             THEN SetPhase(t, "closed") /\ UNCHANGED <<poolVars, addrs>>
             ELSE TakeAddresses(t)
      PROVE  Leases'
    <2>1. CASE TakeAddresses(t)
        BY <1>2, <1>5, <2>1, TakeLeases, ZenonT(30)
    <2>2. CASE SetPhase(t, "closed") /\ UNCHANGED <<poolVars, addrs>>
        BY <1>1, <1>3, <1>5, <2>2, SMTT(30) DEF Holds, Leasing, TypeOK
    <2> QED
        BY <1>5, <2>1, <2>2, SMTT(30)
<1>6. CASE Request(t)
    BY <1>5, <1>6, ZenonT(30) DEF Request
<1>7. CASE Retry(t)
    BY <1>2, <1>7, TakeLeases, ZenonT(30) DEF Retry
<1>8. CASE Http2Request(t)
    BY <1>5, <1>8, ZenonT(30) DEF Http2Request
<1>9. CASE Respond(t)
    <2>1. \A u \in Tunnels : \A a \in Addrs : Holds(u, a)' <=> Holds(u, a)
        BY <1>1, <1>9, ZenonT(30) DEF Respond, Holds, Leasing, TypeOK
    <2> QED
        BY <1>3, <1>9, <2>1, ZenonT(30) DEF Respond
<1>10. CASE RespondFails(t)
    <2>1. \A u \in Tunnels : \A a \in Addrs : Holds(u, a)' <=> Holds(u, a) /\ u # t
        BY <1>1, <1>10, SMTT(30) DEF RespondFails, Holds, Leasing, TypeOK
    <2> QED
        BY <1>4, <1>10, <2>1, ZenonT(30) DEF RespondFails, Leasing
<1>11. CASE CancelBlocked(t)
    <2>1. \A u \in Tunnels : \A a \in Addrs : Holds(u, a)' <=> Holds(u, a)
        BY <1>1, <1>11, ZenonT(30) DEF CancelBlocked, Holds, Leasing, TypeOK
    <2> QED
        BY <1>3, <1>11, <2>1, ZenonT(30) DEF CancelBlocked
<1>12. CASE InsertRoute(t)
    <2>1. \A u \in Tunnels : \A a \in Addrs : Holds(u, a)' <=> Holds(u, a)
        BY <1>1, <1>12, SMTT(30) DEF InsertRoute, Holds, Leasing, TypeOK
    <2> QED
        BY <1>3, <1>12, <2>1, ZenonT(30) DEF InsertRoute
<1>13. CASE TeardownRelease(t)
    <2>1. \A u \in Tunnels : \A a \in Addrs : Holds(u, a)' <=> Holds(u, a) /\ u # t
        BY <1>1, <1>13, ZenonT(30) DEF TeardownRelease, Holds, Leasing, TypeOK
    <2> QED
        BY <1>4, <1>13, <2>1, ZenonT(30) DEF TeardownRelease, Leasing
<1>14. CASE TeardownRoutes(t)
    <2>1. \A u \in Tunnels : \A a \in Addrs : Holds(u, a)' <=> Holds(u, a)
        BY <1>1, <1>14, ZenonT(30) DEF TeardownRoutes, Holds, Leasing, TypeOK
    <2> QED
        BY <1>3, <1>14, <2>1, ZenonT(30) DEF TeardownRoutes
<1>15. CASE ForcedRelease(t)
    <2>1. \A u \in Tunnels : \A a \in Addrs : Holds(u, a)' <=> Holds(u, a) /\ u # t
        BY <1>1, <1>15, ZenonT(30) DEF ForcedRelease, Holds, Leasing, TypeOK
    <2> QED
        BY <1>4, <1>15, <2>1, ZenonT(30) DEF ForcedRelease, Leasing
<1>16. CASE Http2Announce(t)
    <2>1. \A u \in Tunnels : \A a \in Addrs : Holds(u, a)' <=> Holds(u, a)
        BY <1>1, <1>16, SMTT(30) DEF Http2Announce, Holds, Leasing, TypeOK
    <2> QED
        BY <1>3, <1>16, <2>1, ZenonT(30) DEF Http2Announce
<1>17. CASE Http2InsertRoutes(t)
    <2>1. \A u \in Tunnels : \A a \in Addrs : Holds(u, a)' <=> Holds(u, a)
        BY <1>1, <1>17, ZenonT(30) DEF Http2InsertRoutes, Holds, Leasing, TypeOK
    <2> QED
        BY <1>3, <1>17, <2>1, ZenonT(30) DEF Http2InsertRoutes
<1>18. CASE Http2Drop(t)
    <2>1. \A u \in Tunnels : \A a \in Addrs : Holds(u, a)' <=> Holds(u, a)
        BY <1>1, <1>18, ZenonT(30) DEF Http2Drop, Holds, Leasing, TypeOK
    <2> QED
        BY <1>3, <1>18, <2>1, ZenonT(30) DEF Http2Drop
<1>19. CASE Http2DropRoutes(t)
    <2>1. \A u \in Tunnels : \A a \in Addrs : Holds(u, a)' <=> Holds(u, a)
        BY <1>1, <1>19, ZenonT(30) DEF Http2DropRoutes, Holds, Leasing, TypeOK
    <2> QED
        BY <1>3, <1>19, <2>1, ZenonT(30) DEF Http2DropRoutes
<1>20. CASE Http2DropLease(t)
    <2>1. \A u \in Tunnels : \A a \in Addrs : Holds(u, a)' <=> Holds(u, a) /\ u # t
        BY <1>1, <1>20, ZenonT(30) DEF Http2DropLease, Holds, Leasing, TypeOK
    <2> QED
        BY <1>4, <1>20, <2>1, ZenonT(30) DEF Http2DropLease, Leasing
<1> QED
    BY <1>6, <1>7, <1>8, <1>9, <1>10, <1>11, <1>12, <1>13, <1>14,
       <1>15, <1>16, <1>17, <1>18, <1>19, <1>20, ZenonT(30) DEF TunnelNext

\* A handshake names a client before it has tunnels, and the reaper closes
\* only requests that hold nothing.
LEMMA OtherLeases ==
    ASSUME Inv,
           \/ \E c \in Conns : ConnNext(c)
           \/ \E s \in Shards : ShardNext(s)
           \/ ReloadNext
           \/ PacketNext
           \/ UNCHANGED vars
    PROVE  Leases'
<1>1. TypeOK /\ Leases /\ TunnelShape
    BY SMTT(30) DEF Inv, Leases
<1>2. ASSUME UNCHANGED <<allocated, phase, addrs, identity>> PROVE Leases'
    <2>1. \A t \in Tunnels : \A a \in Addrs :
            (Holds(t, a)' <=> Holds(t, a)) /\ LeaseKey(t)' = LeaseKey(t)
        BY <1>2, ZenonT(30) DEF Holds, LeaseKey, Pinned
    <2> QED
        BY <1>1, <1>2, <2>1, LeasesSame, ZenonT(30)
<1> USE DEF tunnelVars, poolVars, connVars
<1>3. ASSUME NEW c \in Conns, Handshake(c) PROVE Leases'
    <2>1. \A t \in Tunnels : \A a \in Addrs : Holds(t, a)' <=> Holds(t, a)
        BY <1>3, ZenonT(30) DEF Handshake, Holds
    <2>2. \A t \in Tunnels : \A a \in Addrs : Holds(t, a) => ConnOf[t] # c
        BY <1>1, <1>3, ZenonT(30) DEF Handshake, Holds, Leasing, TunnelShape
    <2>3. \A d \in Conns : d # c => identity'[d] = identity[d]
        BY <1>1, <1>3, ZenonT(30) DEF Handshake, TypeOK
    <2>4. \A t \in Tunnels : \A a \in Addrs : Holds(t, a) => LeaseKey(t)' = LeaseKey(t)
        BY <2>2, <2>3, TunnelAssumption, ZenonT(30) DEF LeaseKey, Pinned
    <2>5. UNCHANGED allocated
        BY <1>3, ZenonT(30) DEF Handshake
    <2> QED
        BY <1>1, <2>1, <2>4, <2>5, LeasesSame, ZenonT(30)
<1>4. ASSUME NEW c \in Conns, Reap(c) PROVE Leases'
    <2>1. \A t \in Tunnels : ConnOf[t] = c => phase[t] \in {"idle", "blocked", "up", "closed"}
        <3> SUFFICES ASSUME NEW t \in Tunnels, ConnOf[t] = c
                     PROVE  phase[t] \in {"idle", "blocked", "up", "closed"}
            BY SMTT(30)
        <3>1. phase[t] \in Http3Phases /\ ~OverHttp2(t)
            BY <1>1, <1>4, ZenonT(30) DEF Reap, TunnelShape, OverHttp2, Http3
        <3>2. phase[t] \notin {"claimed", "routing", "released"}
            BY <1>4, <3>1, SMTT(30) DEF Reap, ShardFree, ThreadOf
        <3>3. phase[t] # "abandoned"
            BY <1>1, <1>4, ZenonT(30) DEF Reap, TunnelShape, ThreadOf
        <3> QED
            BY <3>1, <3>2, <3>3, ZenonT(30) DEF Http3Phases
    <2>2. \A t \in Tunnels : \A a \in Addrs : Holds(t, a)' <=> Holds(t, a)
        BY <1>1, <1>4, <2>1, ZenonT(30) DEF Reap, Holds, Leasing, TypeOK
    <2>3. \A t \in Tunnels : LeaseKey(t)' = LeaseKey(t)
        BY <1>4, ZenonT(30) DEF Reap, LeaseKey, Pinned
    <2>4. UNCHANGED allocated
        BY <1>4, ZenonT(30) DEF Reap
    <2> QED
        BY <1>1, <2>2, <2>3, <2>4, LeasesSame, ZenonT(30)
<1>5. ASSUME NEW c \in Conns, CloseConn(c) \/ ReapDone(c) \/ JoinRequests(c) PROVE Leases'
    BY <1>2, <1>5, SMTT(30) DEF CloseConn, ReapDone, JoinRequests
<1>6. ASSUME NEW s \in Shards, ShardNext(s) PROVE Leases'
    BY <1>2, <1>6, ZenonT(30) DEF ShardNext, Shutdown, DrainTimeout, Exit
<1>7. CASE ReloadNext
    BY <1>2, <1>7, ZenonT(30) DEF ReloadNext, ReloadRoster, ReloadReservations, SetStaticReservations
<1>8. CASE PacketNext
    BY <1>2, <1>8, ZenonT(30) DEF PacketNext, TunRead, TunInbound, Dispatch, Http2Receive, QueueDropped
<1>9. CASE UNCHANGED vars
    BY <1>2, <1>9, SMTT(30) DEF vars
<1> QED
    BY <1>3, <1>4, <1>5, <1>6, <1>7, <1>8, <1>9, ZenonT(30) DEF ConnNext

=============================================================================
