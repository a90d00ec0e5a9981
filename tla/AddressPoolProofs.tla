------------------------- MODULE AddressPoolProofs -------------------------
(***************************************************************************)
(* What the operations of the address pool do to its types and to its      *)
(* leases, for pools of every size.                                        *)
(***************************************************************************)
EXTENDS AddressPool, TLAPS

\* An address is its family and its offset.
LEMMA AddrFields ==
    \A a \in Addrs : /\ a.fam \in Families
                     /\ a.off \in 0 .. HostMask[a.fam]
                     /\ a.off \in Nat
BY HostMaskAssumption DEF Addrs, Families

\* The bounds of a scan are numbers.
LEMMA ScanBounds ==
    ASSUME PoolTypeOK, NEW f \in Families
    PROVE  LastOffset(f) \in Nat /\ ScanStart(f) \in Nat
BY HostMaskAssumption DEF PoolTypeOK, LastOffset, ScanStart, Families

\* Whatever a scan ends with (allocate_v4, allocate_v6), the counter it leaves
\* is a natural number.
LEMMA NextAfterType ==
    ASSUME PoolTypeOK, NEW f \in Families
    PROVE  NextAfter(f) \in Nat
<1>1. LastOffset(f) \in Nat /\ ScanStart(f) \in Nat
    BY ScanBounds
<1>2. CASE Allocate(f) # {}
    <2> DEFINE a == CHOOSE x \in Allocate(f) : TRUE
    <2>1. a \in Allocate(f)
        BY <1>2
    <2>2. a.off \in Nat
        BY <2>1, AddrFields DEF Allocate, Usable
    <2>3. NextAfter(f) = CursorAfter(f, a.off)
        BY <1>2 DEF NextAfter
    <2> QED
        BY <1>1, <2>2, <2>3 DEF CursorAfter
<1>3. CASE Allocate(f) = {} /\ Usable(f) # {}
    <2>1. NextAfter(f) = CursorAfter(f, LastProbed(f))
        BY <1>3 DEF NextAfter
    <2>2. LastProbed(f) \in Int /\ LastProbed(f) >= -1
        BY <1>1 DEF LastProbed
    <2> QED
        BY <1>1, <2>1, <2>2 DEF CursorAfter
<1>4. CASE Allocate(f) = {} /\ Usable(f) = {}
    BY <1>4 DEF NextAfter, PoolTypeOK
<1> QED
    BY <1>2, <1>3, <1>4

\* allocate_pool_addresses hands out addresses that nobody holds and that are
\* pinned to no one.
LEMMA PoolAddressesFree ==
    \A a \in PoolAddresses : a \in Addrs /\ Free(a)
BY DEF PoolAddresses, Allocate, Usable

\* allocate_pool_addresses keeps the pool well typed.
LEMMA AllocateType ==
    ASSUME PoolTypeOK, AllocatePoolAddresses
    PROVE  PoolTypeOK'
<1>1. \A f \in Families : NextAfter(f) \in Nat
    BY NextAfterType
<1>2. next' \in [Families -> Nat]
    BY <1>1 DEF AllocatePoolAddresses
<1>3. allocated' \in [Addrs -> [claims : Nat, owner : Keys \cup {NoKey}]]
    BY DEF AllocatePoolAddresses, PoolTypeOK, Dynamic
<1> QED
    BY <1>2, <1>3 DEF AllocatePoolAddresses, PoolTypeOK

\* A release maps leases to leases.
LEMMA ReleasedType ==
    ASSUME NEW alloc \in [Addrs -> [claims : Nat, owner : Keys \cup {NoKey}]],
           NEW A
    PROVE  Released(alloc, A) \in [Addrs -> [claims : Nat, owner : Keys \cup {NoKey}]]
<1> SUFFICES ASSUME NEW a \in Addrs
             PROVE  Released(alloc, A)[a] \in [claims : Nat, owner : Keys \cup {NoKey}]
    BY DEF Released
<1>1. CASE a \notin A \/ alloc[a].claims = 0
    BY <1>1 DEF Released
<1>2. CASE a \in A /\ alloc[a].claims > 1
    BY <1>2 DEF Released
<1>3. CASE a \in A /\ alloc[a].claims = 1
    BY <1>3 DEF Released, Unallocated
<1> QED
    BY <1>1, <1>2, <1>3

\* A claim maps leases to leases.
LEMMA ClaimedType ==
    ASSUME NEW alloc \in [Addrs -> [claims : Nat, owner : Keys \cup {NoKey}]],
           NEW A, NEW key \in Keys
    PROVE  Claimed(alloc, A, key) \in [Addrs -> [claims : Nat, owner : Keys \cup {NoKey}]]
BY DEF Claimed

\* claim_static_addresses, its rollback included, keeps the pool well typed.
LEMMA ClaimType ==
    ASSUME PoolTypeOK, NEW A, NEW key \in Keys, ClaimStaticAddresses(A, key)
    PROVE  PoolTypeOK'
BY ReleasedType, ClaimedType DEF ClaimStaticAddresses, PoolTypeOK

\* release_all keeps the pool well typed.
LEMMA ReleaseType ==
    ASSUME PoolTypeOK, NEW A, ReleaseAll(A)
    PROVE  PoolTypeOK'
BY ReleasedType DEF ReleaseAll, PoolTypeOK

\* A roster withholds each address for one enrolled key or for nobody.
LEMMA ReservationsType ==
    ASSUME NEW r \in Rosters
    PROVE  StaticReservations(r) \in [Addrs -> Keys \cup {NoKey}]
BY RosterAssumption DEF StaticReservations

----------------------------------------------------------------------------

\* release: the count of a held address goes down by one, and the owner of
\* the leases that remain is the same.
LEMMA ReleasedLease ==
    ASSUME PoolTypeOK, NEW A, NEW a \in Addrs
    PROVE  LET r == Released(allocated, A)[a] IN
           /\ a \notin A => r = allocated[a]
           /\ a \in A /\ allocated[a].claims > 0 => r.claims = allocated[a].claims - 1
           /\ r.claims > 0 => r.owner = allocated[a].owner
<1>1. CASE a \notin A \/ allocated[a].claims = 0
    BY <1>1 DEF Released, PoolTypeOK
<1>2. CASE a \in A /\ allocated[a].claims > 1
    BY <1>2 DEF Released, PoolTypeOK
<1>3. CASE a \in A /\ allocated[a].claims = 1
    BY <1>3 DEF Released, PoolTypeOK, Unallocated
<1> QED
    BY <1>1, <1>2, <1>3 DEF PoolTypeOK

\* claim_static_addresses takes all or nothing: when one address is refused,
\* every count, and the owner of every live lease, is what it was.
THEOREM ClaimAllOrNothing ==
    ASSUME PoolTypeOK, NEW A, NEW key \in Keys, ClaimStaticAddresses(A, key),
           NEW a \in Addrs
    PROVE  /\ AllClaimable(A, key) /\ a \in A =>
                allocated'[a] = [claims |-> allocated[a].claims + 1, owner |-> key]
           /\ ~AllClaimable(A, key) \/ a \notin A =>
                /\ allocated'[a].claims = allocated[a].claims
                /\ allocated[a].claims > 0 => allocated'[a].owner = allocated[a].owner
<1> DEFINE refused == {b \in A : ~Claimable(b, key)}
           taken == {x \in A : \A b \in refused : TakenBefore(x, b)}
           mid == Claimed(allocated, taken, key)
<1>1. CASE AllClaimable(A, key)
    <2>1. refused = {}
        BY <1>1 DEF AllClaimable
    <2>2. allocated' = Claimed(allocated, A, key)
        BY <2>1 DEF ClaimStaticAddresses
    <2> QED
        BY <1>1, <2>2 DEF Claimed, PoolTypeOK
<1>2. CASE ~AllClaimable(A, key)
    <2>1. refused # {}
        BY <1>2 DEF AllClaimable
    <2>2. allocated' = Released(mid, taken)
        BY <2>1 DEF ClaimStaticAddresses
    <2>3. CASE a \notin taken
        BY <1>2, <2>2, <2>3 DEF Released, Claimed
    <2>4. CASE a \in taken
        <3>1. Claimable(a, key)
            BY <2>4 DEF TakenBefore
        <3>2. mid[a] = [claims |-> allocated[a].claims + 1, owner |-> key]
            BY <2>4 DEF Claimed
        <3>3. allocated[a].claims \in Nat
            BY DEF PoolTypeOK
        <3>4. CASE allocated[a].claims = 0
            <4>1. mid[a].claims = 1
                BY <3>2, <3>4
            <4>2. Released(mid, taken)[a] = Unallocated
                BY <2>4, <4>1 DEF Released
            <4> QED
                BY <1>2, <2>2, <3>4, <4>2 DEF Unallocated
        <3>5. CASE allocated[a].claims > 0
            <4>1. mid[a].claims > 1 /\ mid[a].claims - 1 = allocated[a].claims
                BY <3>2, <3>3, <3>5
            <4>2. Released(mid, taken)[a] =
                    [claims |-> mid[a].claims - 1, owner |-> mid[a].owner]
                BY <2>4, <4>1 DEF Released
            <4>3. allocated[a].owner = key
                BY <3>1, <3>5 DEF Claimable
            <4>4. allocated'[a].claims = mid[a].claims - 1 /\ allocated'[a].owner = key
                <5> HIDE DEF mid, taken
                <5> QED
                    BY <2>2, <3>2, <4>2
            <4> HIDE DEF mid
            <4> QED
                BY <1>2, <4>1, <4>3, <4>4
        <3> QED
            BY <3>3, <3>4, <3>5
    <2> QED
        BY <2>3, <2>4
<1> QED
    BY <1>1, <1>2

============================================================================
