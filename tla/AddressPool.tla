---------------------------- MODULE AddressPool ----------------------------
(***************************************************************************)
(* The CONNECT-IP address pool (src/address_pool.rs) and the two helpers   *)
(* that use it under one acquisition of its mutex, claim_static_addresses  *)
(* and allocate_pool_addresses (src/server/mod.rs).                        *)
(*                                                                         *)
(* An address is a family and a host offset inside that family's network.  *)
(* The pool map `allocated' is a total function here: an address with no   *)
(* entry in the code's HashMap is Unallocated, whose claim count is zero.  *)
(***************************************************************************)
EXTENDS Integers

CONSTANTS
    Keys,       \* public keys of the enrolled clients
    NoKey,      \* owner of a dynamic lease, and of an unreserved address
    HostMask,   \* host bits of the configured networks: family -> mask
    Rosters     \* the client rosters a configuration file may hold

Families == DOMAIN HostMask

ASSUME HostMaskAssumption ==
    /\ Families \subseteq {"v4", "v6"}
    /\ \A f \in Families : HostMask[f] \in Nat \ {0}

ASSUME NoKeyAssumption == NoKey \notin Keys

Addrs == UNION {[fam : {f}, off : 0 .. HostMask[f]] : f \in Families}

\* Addresses a roster may name, inside a pool or not.
AnyAddrs == [fam : {"v4", "v6"}, off : Nat]

\* A roster maps an enrolled key to its pinned addresses, at most one of each
\* family, and pins no address twice (ClientRegistry::from_config).
ASSUME RosterAssumption ==
    \A roster \in Rosters :
        /\ DOMAIN roster \subseteq Keys
        /\ \A k \in DOMAIN roster :
            /\ roster[k] \subseteq AnyAddrs
            /\ \A a, b \in roster[k] : a.fam = b.fam => a = b
        /\ \A j, k \in DOMAIN roster : j # k => roster[j] \cap roster[k] = {}

VARIABLES
    allocated,  \* live leases per address
    reserved,   \* key every pinned address is withheld for
    next        \* next candidate offset per family

poolVars == <<allocated, reserved, next>>

Unallocated == [claims |-> 0, owner |-> NoKey]

Dynamic == [claims |-> 1, owner |-> NoKey]

PoolTypeOK ==
    /\ allocated \in [Addrs -> [claims : Nat, owner : Keys \cup {NoKey}]]
    /\ reserved \in [Addrs -> Keys \cup {NoKey}]
    /\ next \in [Families -> Nat]

InRange(a) == a \in Addrs

IsGateway(a) == a.off = 1

\* The reservations a roster asks for.
StaticReservations(roster) ==
    [a \in Addrs |->
        IF \E k \in DOMAIN roster : a \in roster[k]
        THEN CHOOSE k \in DOMAIN roster : a \in roster[k]
        ELSE NoKey]

\* Whether set_static_reservations accepts every pinned address of a roster.
CanReserve(roster) ==
    \A k \in DOMAIN roster : \A a \in roster[k] : InRange(a) /\ ~IsGateway(a)

PoolInit(roster) ==
    /\ CanReserve(roster)
    /\ allocated = [a \in Addrs |-> Unallocated]
    /\ reserved = StaticReservations(roster)
    /\ next = [f \in Families |-> 2]

SetStaticReservations(roster) ==
    /\ CanReserve(roster)
    /\ reserved' = StaticReservations(roster)
    /\ UNCHANGED <<allocated, next>>

----------------------------------------------------------------------------
(* Pinned leases. *)

\* FAULT: a live lease of another client does not refuse the claim.
ClaimableWhileLeased(a, key) ==
    InRange(a) /\ ~IsGateway(a) /\ reserved[a] = key

\* The checks of claim() on one address, in the state of the pool.
Claimable(a, key) ==
    /\ InRange(a)
    /\ ~IsGateway(a)
    /\ reserved[a] = key
    /\ allocated[a].claims > 0 => allocated[a].owner = key

\* FAULT: an overlapping lease is not counted.
ClaimedOnce(alloc, A, key) ==
    [a \in Addrs |-> IF a \in A THEN [claims |-> 1, owner |-> key] ELSE alloc[a]]

Claimed(alloc, A, key) ==
    [a \in Addrs |->
        IF a \in A THEN [claims |-> alloc[a].claims + 1, owner |-> key]
                   ELSE alloc[a]]

Released(alloc, A) ==
    [a \in Addrs |->
        CASE a \notin A \/ alloc[a].claims = 0 -> alloc[a]
          [] a \in A /\ alloc[a].claims > 1 ->
                [claims |-> alloc[a].claims - 1, owner |-> alloc[a].owner]
          [] OTHER -> Unallocated]

\* claim_static_addresses takes the IPv4 address before the IPv6 one.
TakenBefore(a, b) == a.fam = "v4" /\ b.fam = "v6"

AllClaimable(A, key) == \A a \in A : Claimable(a, key)

\* FAULT: the addresses taken before the refused one are kept.
ClaimStaticAddressesInPart(A, key) ==
    LET refused == {b \in A : ~Claimable(b, key)}
        taken == {a \in A : \A b \in refused : TakenBefore(a, b)}
    IN  /\ allocated' = Claimed(allocated, taken, key)
        /\ UNCHANGED <<reserved, next>>

\* claim_static_addresses: every address of A, or the ones taken so far are
\* given back and none is kept.
ClaimStaticAddresses(A, key) ==
    LET refused == {b \in A : ~Claimable(b, key)}
        taken == {a \in A : \A b \in refused : TakenBefore(a, b)}
    IN  /\ allocated' = IF refused = {}
                        THEN Claimed(allocated, A, key)
                        ELSE Released(Claimed(allocated, taken, key), taken)
        /\ UNCHANGED <<reserved, next>>

ReleaseAll(A) ==
    /\ allocated' = Released(allocated, A)
    /\ UNCHANGED <<reserved, next>>

----------------------------------------------------------------------------
(* Dynamic leases. *)

\* The last offset handed out: IPv4 keeps the broadcast address back.
LastOffset(f) == IF f = "v4" THEN HostMask[f] - 1 ELSE HostMask[f]

Usable(f) == {a \in Addrs : a.fam = f /\ a.off \in 2 .. LastOffset(f)}

Free(a) == allocated[a].claims = 0 /\ reserved[a] = NoKey

\* The offset a scan of family f starts at, after the wrap check.
ScanStart(f) == IF next[f] > LastOffset(f) THEN 2 ELSE next[f]

\* How many offsets the scan of family f probes before it reaches a.
ScanRank(f, a) ==
    IF a.off >= ScanStart(f)
    THEN a.off - ScanStart(f)
    ELSE LastOffset(f) - 1 + a.off - ScanStart(f)

\* allocate_v4, allocate_v6: the first free address of the scan, or no address
\* when the family has no pool or no free address.
Allocate(f) ==
    {a \in Usable(f) :
        /\ Free(a)
        /\ \A b \in Usable(f) : Free(b) => ScanRank(f, a) <= ScanRank(f, b)}

\* The counter once the offset last has been probed: the IPv6 counter wraps at
\* once, the IPv4 one when the next scan begins.
CursorAfter(f, last) ==
    IF f = "v6" /\ last = LastOffset(f) THEN 2 ELSE last + 1

\* The last offset of a scan that probes every usable one.
LastProbed(f) ==
    IF ScanStart(f) = 2 THEN LastOffset(f) ELSE ScanStart(f) - 1

NextAfter(f) ==
    CASE Allocate(f) # {} ->
            CursorAfter(f, (CHOOSE a \in Allocate(f) : TRUE).off)
      [] Allocate(f) = {} /\ Usable(f) # {} -> CursorAfter(f, LastProbed(f))
      [] OTHER -> next[f]

PoolAddresses == UNION {Allocate(f) : f \in Families}

\* allocate_pool_addresses: one address of every family that still has one.
AllocatePoolAddresses ==
    /\ allocated' = [a \in Addrs |-> IF a \in PoolAddresses THEN Dynamic
                                                            ELSE allocated[a]]
    /\ next' = [f \in Families |-> NextAfter(f)]
    /\ UNCHANGED reserved

============================================================================
