----------------------------- MODULE ConnectIp -----------------------------
(***************************************************************************)
(* CONNECT-IP tunnels over both transports: address leases, the routing    *)
(* table (src/routing.rs), the HTTP/3 set-up and teardown run by a shard's *)
(* event loop (src/server/shard_tunnels.rs, the reaper and the drain of    *)
(* Shard::run in src/server/mod.rs), the HTTP/2 ones run by one task per   *)
(* stream (src/server/http2/ip.rs), the pinned addresses of a roster       *)
(* reload, and the way of a packet from the TUN device to a tunnel.        *)
(*                                                                         *)
(* One action is what one thread does under one acquisition of a shared    *)
(* lock, so everything the locks leave open is interleaved. A shard runs   *)
(* one handler at a time: a handler of several actions keeps its shard     *)
(* busy until the last of them.                                            *)
(***************************************************************************)
EXTENDS AddressPool, FiniteSets

CONSTANTS
    Conns,        \* connections, each by its process-unique index
    Http2,        \* the connections of HTTP/2 listeners
    Shards,       \* HTTP/3 event loops
    ShardOf,      \* the shard that accepts a connection of Conns \ Http2
    CertKey,      \* key of the certificate a connection presents, or NoKey
                  \* on a listener that asks for none
    Tunnels,      \* CONNECT-IP requests: a TunnelOwner each
    ConnOf,       \* the connection of a request
    Reader,       \* who reads the TUN device: a shard, or the dispatcher
    MaxTunnels,   \* server.max_tunnels_per_connection
    NoTunnel, NoIdentity, NoRoster, NoPacket

Http3 == Conns \ Http2

ASSUME TunnelAssumption ==
    /\ Http2 \subseteq Conns
    /\ ShardOf \in [Http3 -> Shards]
    /\ CertKey \in [Conns -> Keys \cup {NoKey}]
    /\ ConnOf \in [Tunnels -> Conns]
    /\ IsFiniteSet(Tunnels)
    /\ MaxTunnels \in Nat
    /\ NoTunnel \notin Tunnels

ASSUME NoneAssumption ==
    /\ NoIdentity \notin [key : Keys, pins : SUBSET AnyAddrs]
    /\ NoRoster \notin Rosters

VARIABLES
    roster,       \* SharedRoster::current
    reloading,    \* the roster a reload has reserved but not installed
    conn,         \* life of a connection
    identity,     \* the roster entry a connection was admitted under
    indexShard,   \* Shared::index_shard: connections with a published owner
    phase,        \* how far the set-up or the teardown of a tunnel is
    addrs,        \* assigned_addrs of a tunnel
    todo,         \* addresses whose route is still to be inserted
    routes,       \* RoutingTable::entries
    http2Routes,  \* Shared::http2_tun_routes: owners with a return queue
    shard,        \* life of a shard
    pkt,          \* one packet on its way from the TUN device
    delivered     \* the tunnel and address of the last packet handed over

tunnelVars == <<phase, addrs, todo>>
connVars == <<conn, identity, indexShard>>
rosterVars == <<roster, reloading>>
routeVars == <<routes, http2Routes>>
pktVars == <<pkt, delivered>>
vars == <<poolVars, tunnelVars, connVars, rosterVars, routeVars, shard, pktVars>>

Identities == [key : Keys, pins : SUBSET AnyAddrs]

Phases == {"idle", "claimed", "routing", "blocked", "up", "released",
           "abandoned", "announced", "unannounced", "unrouted", "closed"}

Packets == [dst : Addrs, owner : Tunnels, at : Shards \cup {Reader},
            stage : {"looked", "queued", "http2"}]

\* Every variable holds a value of the type its Rust counterpart has.
TypeOK ==
    /\ PoolTypeOK
    /\ roster \in Rosters
    /\ reloading \in Rosters \cup {NoRoster}
    /\ conn \in [Conns -> {"new", "open", "closing", "reaping", "gone"}]
    /\ identity \in [Conns -> Identities \cup {NoIdentity}]
    /\ indexShard \in SUBSET Http3
    /\ phase \in [Tunnels -> Phases]
    /\ addrs \in [Tunnels -> SUBSET Addrs]
    /\ todo \in [Tunnels -> SUBSET Addrs]
    /\ routes \in [Addrs -> Tunnels \cup {NoTunnel}]
    /\ http2Routes \in SUBSET Tunnels
    /\ shard \in [Shards -> {"running", "draining", "forced", "exited"}]
    /\ pkt \in Packets \cup {NoPacket}
    /\ delivered \in (Tunnels \X Addrs) \cup {NoPacket}

Init ==
    /\ roster \in Rosters
    /\ PoolInit(roster)
    /\ reloading = NoRoster
    /\ conn = [c \in Conns |-> "new"]
    /\ identity = [c \in Conns |-> NoIdentity]
    /\ indexShard = {}
    /\ phase = [t \in Tunnels |-> "idle"]
    /\ addrs = [t \in Tunnels |-> {}]
    /\ todo = [t \in Tunnels |-> {}]
    /\ routes = [a \in Addrs |-> NoTunnel]
    /\ http2Routes = {}
    /\ shard = [s \in Shards |-> "running"]
    /\ pkt = NoPacket
    /\ delivered = NoPacket

----------------------------------------------------------------------------
(* Helpers *)

OverHttp2(t) == ConnOf[t] \in Http2

ThreadOf(t) == ShardOf[ConnOf[t]]

TunnelsOf(c) == {t \in Tunnels : ConnOf[t] = c}

\* No handler of shard s is between two of its actions.
ShardFree(s) ==
    /\ \A t \in Tunnels :
        ~OverHttp2(t) /\ ThreadOf(t) = s
            => phase[t] \notin {"claimed", "routing", "released"}
    /\ \A c \in Http3 : ShardOf[c] = s => conn[c] # "reaping"
    /\ pkt # NoPacket => ~(pkt.stage = "looked" /\ pkt.at = s)

Ready(s) == shard[s] = "running" /\ ShardFree(s)

\* A client pinned to fixed addresses gets exactly those.
Pinned(c) == identity[c] # NoIdentity /\ identity[c].pins # {}

LeaseKey(t) == IF Pinned(ConnOf[t]) THEN identity[ConnOf[t]].key ELSE NoKey

\* tunnel_count() of an HTTP/3 connection and the tunnel slots of an HTTP/2
\* one: the requests that are neither waiting to be made nor over.
TunnelCount(c) ==
    Cardinality({t \in TunnelsOf(c) : phase[t] \notin {"idle", "closed"}})

SetPhase(t, p) == phase' = [phase EXCEPT ![t] = p]

\* FAULT: the routes go whoever owns them.
RemoveOwnedByAnyone(A, t) ==
    routes' = [a \in Addrs |-> IF a \in A THEN NoTunnel ELSE routes[a]]

RemoveOwned(A, t) ==
    routes' = [a \in Addrs |-> IF a \in A /\ routes[a] = t THEN NoTunnel
                                                          ELSE routes[a]]

\* The addresses of a new tunnel: claimed for a pinned client, allocated for
\* any other. Without one the request is answered 503 and is over.
TakeAddresses(t) ==
    LET c == ConnOf[t]
        pins == identity[c].pins
        key == identity[c].key
        got == IF Pinned(c)
               THEN IF AllClaimable(pins, key) THEN pins ELSE {}
               ELSE PoolAddresses
    IN  /\ IF Pinned(c) THEN ClaimStaticAddresses(pins, key)
                        ELSE AllocatePoolAddresses
        /\ addrs' = [addrs EXCEPT ![t] = got]
        /\ SetPhase(t, IF got = {} THEN "closed" ELSE "claimed")

----------------------------------------------------------------------------
(* Connections *)

\* accept, certificate identification and, for HTTP/3, publication of the
\* connection's owner. A key that is no longer enrolled is refused.
Handshake(c) ==
    LET key == CertKey[c] IN
    /\ conn[c] = "new"
    /\ c \in Http3 => Ready(ShardOf[c])
    /\ indexShard' = IF c \in Http3 THEN indexShard \cup {c} ELSE indexShard
    /\ \/ /\ key = NoKey
          /\ conn' = [conn EXCEPT ![c] = "open"]
          /\ UNCHANGED identity
       \/ /\ key \in DOMAIN roster
          /\ conn' = [conn EXCEPT ![c] = "open"]
          /\ identity' = [identity EXCEPT ![c] =
                            [key |-> key, pins |-> roster[key]]]
       \/ /\ key # NoKey
          /\ key \notin DOMAIN roster
          /\ conn' = [conn EXCEPT ![c] = "closing"]
          /\ UNCHANGED identity
    /\ UNCHANGED <<poolVars, tunnelVars, rosterVars, routeVars, shard, pktVars>>

\* The peer closes, a timer fires, or the roster sweep revokes the client.
CloseConn(c) ==
    /\ conn[c] = "open"
    /\ c \in Http3 => Ready(ShardOf[c])
    /\ conn' = [conn EXCEPT ![c] = "closing"]
    /\ UNCHANGED <<poolVars, tunnelVars, identity, indexShard, rosterVars,
                   routeVars, shard, pktVars>>

\* The shard finds the connection closed: it leaves the table, and with it go
\* the requests that hold nothing.
Reap(c) ==
    /\ c \in Http3
    /\ conn[c] = "closing"
    /\ shard[ShardOf[c]] \in {"running", "draining"}
    /\ ShardFree(ShardOf[c])
    /\ conn' = [conn EXCEPT ![c] = "reaping"]
    /\ phase' = [t \in Tunnels |->
                    IF ConnOf[t] = c /\ phase[t] # "up" THEN "closed"
                                                        ELSE phase[t]]
    /\ UNCHANGED <<poolVars, addrs, todo, identity, indexShard, rosterVars,
                   routeVars, shard, pktVars>>

\* The end of the reaper, once its tunnels are torn down.
ReapDone(c) ==
    /\ c \in Http3
    /\ conn[c] = "reaping"
    /\ \A t \in TunnelsOf(c) : phase[t] = "closed"
    /\ conn' = [conn EXCEPT ![c] = "gone"]
    /\ indexShard' = indexShard \ {c}
    /\ UNCHANGED <<poolVars, tunnelVars, identity, rosterVars, routeVars,
                   shard, pktVars>>

\* serve() joins every aborted request task before an HTTP/2 connection ends.
JoinRequests(c) ==
    /\ c \in Http2
    /\ conn[c] = "closing"
    /\ \A t \in TunnelsOf(c) : phase[t] \in {"idle", "closed"}
    /\ conn' = [conn EXCEPT ![c] = "gone"]
    /\ UNCHANGED <<poolVars, tunnelVars, identity, indexShard, rosterVars,
                   routeVars, shard, pktVars>>

----------------------------------------------------------------------------
(* HTTP/3 tunnels *)

\* apply_connect_setups and the first half of setup_ip_tunnel.
Request(t) ==
    /\ ~OverHttp2(t)
    /\ phase[t] = "idle"
    /\ conn[ConnOf[t]] = "open"
    /\ Ready(ThreadOf(t))
    /\ IF TunnelCount(ConnOf[t]) >= MaxTunnels
       THEN SetPhase(t, "closed") /\ UNCHANGED <<poolVars, addrs>>
       ELSE TakeAddresses(t)
    /\ UNCHANGED <<todo, connVars, rosterVars, routeVars, shard, pktVars>>

\* retry_ip_connect_responses: a set-up whose 200 was blocked starts over.
Retry(t) ==
    /\ ~OverHttp2(t)
    /\ phase[t] = "blocked"
    /\ conn[ConnOf[t]] \in {"open", "closing"}
    /\ Ready(ThreadOf(t))
    /\ TakeAddresses(t)
    /\ UNCHANGED <<todo, connVars, rosterVars, routeVars, shard, pktVars>>

\* The 200 goes out.
Respond(t) ==
    /\ ~OverHttp2(t)
    /\ phase[t] = "claimed"
    /\ SetPhase(t, "routing")
    /\ todo' = [todo EXCEPT ![t] = addrs[t]]
    /\ UNCHANGED <<poolVars, addrs, connVars, rosterVars, routeVars, shard,
                   pktVars>>

\* The 200 cannot go out: the lease is given back, and the request waits for
\* credit or is over.
RespondFails(t) ==
    /\ ~OverHttp2(t)
    /\ phase[t] = "claimed"
    /\ ReleaseAll(addrs[t])
    /\ addrs' = [addrs EXCEPT ![t] = {}]
    /\ \E p \in {"blocked", "closed"} : SetPhase(t, p)
    /\ UNCHANGED <<todo, connVars, rosterVars, routeVars, shard, pktVars>>

\* The stream is reset, or the idle sweep gives up on the blocked response.
CancelBlocked(t) ==
    /\ phase[t] = "blocked"
    /\ conn[ConnOf[t]] \in {"open", "closing"}
    /\ Ready(ThreadOf(t))
    /\ SetPhase(t, "closed")
    /\ UNCHANGED <<poolVars, addrs, todo, connVars, rosterVars, routeVars,
                   shard, pktVars>>

\* One route per acquisition of the routing table's lock, IPv4 first.
InsertRoute(t) ==
    /\ ~OverHttp2(t)
    /\ phase[t] = "routing"
    /\ \E a \in todo[t] :
        /\ \A b \in todo[t] : ~TakenBefore(b, a)
        /\ routes' = [routes EXCEPT ![a] = t]
        /\ todo' = [todo EXCEPT ![t] = @ \ {a}]
        /\ SetPhase(t, IF todo[t] = {a} THEN "up" ELSE "routing")
    /\ UNCHANGED <<poolVars, addrs, connVars, rosterVars, http2Routes, shard,
                   pktVars>>

\* First half of teardown_ip_tunnel, and of the reaper's loop over tunnels.
TeardownRelease(t) ==
    LET c == ConnOf[t]
        s == ThreadOf(t)
    IN  /\ ~OverHttp2(t)
        /\ phase[t] = "up"
        /\ \/ conn[c] \in {"open", "closing"} /\ Ready(s)
           \/ /\ conn[c] = "reaping"
              /\ \A u \in TunnelsOf(c) : phase[u] # "released"
        /\ ReleaseAll(addrs[t])
        /\ SetPhase(t, "released")
        /\ UNCHANGED <<addrs, todo, connVars, rosterVars, routeVars, shard,
                       pktVars>>

\* FAULT: the routes stay.
TeardownRoutesForgotten(t) ==
    /\ phase[t] = "released"
    /\ SetPhase(t, "closed")
    /\ addrs' = [addrs EXCEPT ![t] = {}]
    /\ UNCHANGED <<poolVars, todo, connVars, rosterVars, routeVars, shard,
                   pktVars>>

\* Second half: the routes that still name this tunnel go.
TeardownRoutes(t) ==
    /\ phase[t] = "released"
    /\ RemoveOwned(addrs[t], t)
    /\ SetPhase(t, "closed")
    /\ addrs' = [addrs EXCEPT ![t] = {}]
    /\ UNCHANGED <<poolVars, todo, connVars, rosterVars, http2Routes, shard,
                   pktVars>>

----------------------------------------------------------------------------
(* HTTP/2 tunnels *)

\* A request task takes a tunnel slot and its addresses.
Http2Request(t) ==
    /\ OverHttp2(t)
    /\ phase[t] = "idle"
    /\ conn[ConnOf[t]] = "open"
    /\ IF TunnelCount(ConnOf[t]) >= MaxTunnels
       THEN SetPhase(t, "closed") /\ UNCHANGED <<poolVars, addrs>>
       ELSE TakeAddresses(t)
    /\ UNCHANGED <<todo, connVars, rosterVars, routeVars, shard, pktVars>>

Http2Announce(t) ==
    /\ OverHttp2(t)
    /\ phase[t] = "claimed"
    /\ SetPhase(t, "announced")
    /\ http2Routes' = http2Routes \cup {t}
    /\ UNCHANGED <<poolVars, addrs, todo, connVars, rosterVars, routes, shard,
                   pktVars>>

\* Every route under one acquisition of the lock.
Http2InsertRoutes(t) ==
    /\ phase[t] = "announced"
    /\ SetPhase(t, "up")
    /\ routes' = [a \in Addrs |-> IF a \in addrs[t] THEN t ELSE routes[a]]
    /\ UNCHANGED <<poolVars, addrs, todo, connVars, rosterVars, http2Routes,
                   shard, pktVars>>

\* The lease is dropped: the tunnel ends, is idle, fails, or is aborted.
Http2Drop(t) ==
    /\ OverHttp2(t)
    /\ phase[t] = "up"
    /\ SetPhase(t, "unannounced")
    /\ http2Routes' = http2Routes \ {t}
    /\ UNCHANGED <<poolVars, addrs, todo, connVars, rosterVars, routes, shard,
                   pktVars>>

Http2DropRoutes(t) ==
    /\ phase[t] = "unannounced"
    /\ SetPhase(t, "unrouted")
    /\ RemoveOwned(addrs[t], t)
    /\ UNCHANGED <<poolVars, addrs, todo, connVars, rosterVars, http2Routes,
                   shard, pktVars>>

Http2DropLease(t) ==
    /\ phase[t] = "unrouted"
    /\ SetPhase(t, "closed")
    /\ ReleaseAll(addrs[t])
    /\ addrs' = [addrs EXCEPT ![t] = {}]
    /\ UNCHANGED <<todo, connVars, rosterVars, routeVars, shard, pktVars>>

----------------------------------------------------------------------------
(* Roster reload *)

\* The last fallible step of a reload; a roster the pool refuses ends it.
ReloadReservations(r) ==
    /\ reloading = NoRoster
    /\ r # roster
    /\ SetStaticReservations(r)
    /\ reloading' = r
    /\ UNCHANGED <<tunnelVars, connVars, roster, routeVars, shard, pktVars>>

ReloadRoster ==
    /\ reloading # NoRoster
    /\ roster' = reloading
    /\ reloading' = NoRoster
    /\ UNCHANGED <<poolVars, tunnelVars, connVars, routeVars, shard, pktVars>>

----------------------------------------------------------------------------
(* Shutdown of a shard *)

Shutdown(s) ==
    /\ Ready(s)
    /\ shard' = [shard EXCEPT ![s] = "draining"]
    /\ conn' = [c \in Conns |->
                    IF c \in Http3 /\ ShardOf[c] = s /\ conn[c] = "open"
                    THEN "closing" ELSE conn[c]]
    /\ UNCHANGED <<poolVars, tunnelVars, identity, indexShard, rosterVars,
                   routeVars, pktVars>>

\* The drain deadline passes while connections remain.
DrainTimeout(s) ==
    /\ shard[s] = "draining"
    /\ ShardFree(s)
    /\ \E c \in Http3 : ShardOf[c] = s /\ conn[c] = "closing"
    /\ shard' = [shard EXCEPT ![s] = "forced"]
    /\ UNCHANGED <<poolVars, tunnelVars, connVars, rosterVars, routeVars,
                   pktVars>>

\* A forced exit gives the leases back and leaves the routes.
ForcedRelease(t) ==
    /\ ~OverHttp2(t)
    /\ phase[t] = "up"
    /\ shard[ThreadOf(t)] = "forced"
    /\ SetPhase(t, "abandoned")
    /\ ReleaseAll(addrs[t])
    /\ UNCHANGED <<addrs, todo, connVars, rosterVars, routeVars, shard,
                   pktVars>>

\* FAULT: the drain deadline ends the shard with leases still held.
ExitUnreleased(s) ==
    /\ shard[s] \in {"draining", "forced"}
    /\ shard' = [shard EXCEPT ![s] = "exited"]
    /\ UNCHANGED <<poolVars, tunnelVars, connVars, rosterVars, routeVars,
                   pktVars>>

Exit(s) ==
    /\ \/ /\ shard[s] = "draining"
          /\ \A c \in Http3 : ShardOf[c] = s => conn[c] \in {"new", "gone"}
       \/ /\ shard[s] = "forced"
          /\ \A t \in Tunnels :
                ~OverHttp2(t) /\ ThreadOf(t) = s => phase[t] # "up"
    /\ shard' = [shard EXCEPT ![s] = "exited"]
    /\ UNCHANGED <<poolVars, tunnelVars, connVars, rosterVars, routeVars,
                   pktVars>>

----------------------------------------------------------------------------
(* TUN packets *)

\* The reader takes a packet for a from the device and looks up its owner.
TunRead(a) ==
    /\ pkt = NoPacket
    /\ Reader \in Shards => Ready(Reader)
    /\ routes[a] # NoTunnel
    /\ pkt' = [dst |-> a, owner |-> routes[a], at |-> Reader, stage |-> "looked"]
    /\ delivered' = NoPacket
    /\ UNCHANGED <<poolVars, tunnelVars, connVars, rosterVars, routeVars, shard>>

\* FAULT: the second lookup is taken to succeed.
TunInboundUnchecked ==
    /\ pkt # NoPacket
    /\ pkt.stage = "queued"
    /\ Ready(pkt.at)
    /\ pkt' = [pkt EXCEPT !.owner = routes[pkt.dst], !.stage = "looked"]
    /\ UNCHANGED <<delivered, poolVars, tunnelVars, connVars, rosterVars,
                   routeVars, shard>>

\* A shard takes a packet another one handed over: the owner is looked up anew.
TunInbound ==
    /\ pkt # NoPacket
    /\ pkt.stage = "queued"
    /\ Ready(pkt.at)
    /\ pkt' = IF routes[pkt.dst] = NoTunnel THEN NoPacket
              ELSE [pkt EXCEPT !.owner = routes[pkt.dst], !.stage = "looked"]
    /\ UNCHANGED <<delivered, poolVars, tunnelVars, connVars, rosterVars,
                   routeVars, shard>>

\* relay_tun_packet after the lookup, and relay_http2_tun_packet.
Dispatch ==
    /\ pkt # NoPacket
    /\ pkt.stage = "looked"
    /\ LET t == pkt.owner
           c == ConnOf[t]
       IN  \/ /\ c \in indexShard
              /\ ShardOf[c] # pkt.at
              /\ pkt' = [pkt EXCEPT !.at = ShardOf[c], !.stage = "queued"]
              /\ UNCHANGED delivered
           \/ /\ c \notin indexShard
              /\ t \in http2Routes
              /\ pkt' = [pkt EXCEPT !.stage = "http2"]
              /\ UNCHANGED delivered
           \/ /\ c \in indexShard
              /\ ShardOf[c] = pkt.at
              /\ phase[t] = "up"
              /\ delivered' = <<t, pkt.dst>>
              /\ pkt' = NoPacket
           \/ \* a queue is full, or the tunnel has gone
              /\ pkt' = NoPacket
              /\ UNCHANGED delivered
    /\ UNCHANGED <<poolVars, tunnelVars, connVars, rosterVars, routeVars, shard>>

\* FAULT: the queue is read by a task that outlives the request.
Http2ReceiveDetached ==
    /\ pkt # NoPacket
    /\ pkt.stage = "http2"
    /\ delivered' = <<pkt.owner, pkt.dst>>
    /\ pkt' = NoPacket
    /\ UNCHANGED <<poolVars, tunnelVars, connVars, rosterVars, routeVars, shard>>

\* tun_to_client of the HTTP/2 task, while it runs.
Http2Receive ==
    /\ pkt # NoPacket
    /\ pkt.stage = "http2"
    /\ phase[pkt.owner] = "up"
    /\ delivered' = <<pkt.owner, pkt.dst>>
    /\ pkt' = NoPacket
    /\ UNCHANGED <<poolVars, tunnelVars, connVars, rosterVars, routeVars, shard>>

\* The queue goes with the task or the shard that owns it.
QueueDropped ==
    /\ pkt # NoPacket
    /\ \/ /\ pkt.stage = "http2"
          /\ phase[pkt.owner] \notin {"announced", "up"}
       \/ pkt.stage = "queued" /\ shard[pkt.at] # "running"
    /\ pkt' = NoPacket
    /\ UNCHANGED <<delivered, poolVars, tunnelVars, connVars, rosterVars,
                   routeVars, shard>>

----------------------------------------------------------------------------

TunnelNext(t) ==
    \/ Request(t) \/ Retry(t) \/ Respond(t) \/ RespondFails(t)
    \/ CancelBlocked(t) \/ InsertRoute(t)
    \/ TeardownRelease(t) \/ TeardownRoutes(t) \/ ForcedRelease(t)
    \/ Http2Request(t) \/ Http2Announce(t) \/ Http2InsertRoutes(t)
    \/ Http2Drop(t) \/ Http2DropRoutes(t) \/ Http2DropLease(t)

ConnNext(c) ==
    \/ Handshake(c) \/ CloseConn(c) \/ Reap(c) \/ ReapDone(c) \/ JoinRequests(c)

ShardNext(s) == Shutdown(s) \/ DrainTimeout(s) \/ Exit(s)

ReloadNext == ReloadRoster \/ \E r \in Rosters : ReloadReservations(r)

PacketNext ==
    \/ TunInbound \/ Dispatch \/ Http2Receive \/ QueueDropped
    \/ \E a \in Addrs : TunRead(a)

Next ==
    \/ \E t \in Tunnels : TunnelNext(t)
    \/ \E c \in Conns : ConnNext(c)
    \/ \E s \in Shards : ShardNext(s)
    \/ ReloadNext
    \/ PacketNext

Spec == Init /\ [][Next]_vars

\* A handler that has begun runs to its end, a request task that is aborted
\* drops its lease, and a shard never stops servicing a connection that is
\* closing: the loop reaps at the end of every turn, whatever else it does in
\* between, so the reaper is strongly fair.
Fairness ==
    /\ WF_vars(Dispatch)
    /\ \A c \in Conns : SF_vars(Reap(c)) /\ WF_vars(ReapDone(c))
    /\ \A t \in Tunnels :
        /\ WF_vars(Respond(t) \/ RespondFails(t))
        /\ WF_vars(InsertRoute(t))
        /\ WF_vars(conn[ConnOf[t]] = "reaping" /\ TeardownRelease(t))
        /\ WF_vars(TeardownRoutes(t))
        /\ WF_vars(ForcedRelease(t))
        /\ WF_vars(Http2Announce(t) \/ Http2InsertRoutes(t))
        /\ WF_vars(conn[ConnOf[t]] = "closing" /\ Http2Drop(t))
        /\ WF_vars(Http2DropRoutes(t) \/ Http2DropLease(t))

FairSpec == Spec /\ Fairness

----------------------------------------------------------------------------
(* Properties *)

\* The tunnels between the taking of their addresses and the giving back.
Leasing == {"claimed", "routing", "up", "announced", "unannounced", "unrouted"}

Holds(t, a) == a \in addrs[t] /\ phase[t] \in Leasing

Holders(a) == {t \in Tunnels : Holds(t, a)}

\* The pool's reference counts are the tunnels that hold the address, over
\* every failed response, teardown, abort, reap and forced exit: a lease is
\* neither leaked nor given back twice.
LeasesCounted == \A a \in Addrs : allocated[a].claims = Cardinality(Holders(a))

\* Two tunnels hold one address only when both belong to the one client it is
\* pinned to. A reload that moves the address to another key, or a dynamic
\* allocation, never lets two identities overlap (claim and allocate_v4/v6).
LeasesExclusive ==
    \A t, u \in Tunnels : \A a \in Addrs :
        t # u /\ Holds(t, a) /\ Holds(u, a)
            => LeaseKey(t) # NoKey /\ LeaseKey(t) = LeaseKey(u)

\* The pool labels a lease with the client it is pinned to.
LeasesLabelled ==
    \A t \in Tunnels : \A a \in Addrs :
        Holds(t, a) => allocated[a].owner = LeaseKey(t)

\* A route names a tunnel that was assigned the address and whose owner will
\* still remove it; only the forced exit of a shard leaves one behind.
RoutesOwned ==
    \A a \in Addrs : routes[a] # NoTunnel =>
        /\ a \in addrs[routes[a]]
        /\ phase[routes[a]] \in {"routing", "up", "released", "unannounced",
                                 "abandoned"}

RouteKeptStep ==
    \A t \in Tunnels : \A a \in Addrs :
        /\ routes[a] = t /\ routes'[a] # t
        /\ phase[t] = "up" /\ phase'[t] = "up"
        => \E u \in Holders(a) \ {t} :
            routes'[a] = u /\ LeaseKey(t) # NoKey /\ LeaseKey(u) = LeaseKey(t)

\* While a tunnel is up its return route is taken from it only by its own
\* teardown, or by another tunnel of the client that both are pinned to: the
\* late cleanup of a stale tunnel never removes it (remove_owned).
RouteKept == [][RouteKeptStep]_vars

DeliveryStep ==
    delivered' # delivered /\ delivered' # NoPacket =>
        LET t == delivered'[1]
            a == delivered'[2]
        IN  /\ a \in addrs[t]
            /\ allocated[a].claims > 0
            /\ allocated[a].owner = LeaseKey(t)

\* A packet from the TUN device reaches a tunnel only while that tunnel has
\* its destination on lease, however many queues and lookups lie between.
DeliveredToHolder == [][DeliveryStep]_vars

\* "the newest tunnel atomically takes over the return route" (protocols.md):
\* with no set-up or teardown under way, the addresses of one pinned client
\* are all routed to one of its tunnels.
OneReturnPath ==
    (\A t \in Tunnels : phase[t] \in {"idle", "up", "closed"}) =>
        \A t \in Tunnels : phase[t] = "up" =>
            \A a, b \in addrs[t] : routes[a] = routes[b]

\* Nothing that ends a connection can keep its addresses: once it is closing,
\* the reaper, the aborted task or the forced exit gives every lease back.
LeasesReturned ==
    \A t \in Tunnels :
        conn[ConnOf[t]] = "closing" ~> \A a \in Addrs : ~Holds(t, a)

----------------------------------------------------------------------------
(* The inductive invariant *)

Http3Phases == {"idle", "claimed", "routing", "blocked", "up", "released",
                "abandoned", "closed"}

Http2Phases == {"idle", "claimed", "announced", "up", "unannounced",
                "unrouted", "closed"}

\* How far a tunnel is determines what its other state can be.
TunnelShape ==
    \A t \in Tunnels :
        /\ phase[t] \in IF OverHttp2(t) THEN Http2Phases ELSE Http3Phases
        /\ phase[t] \in {"idle", "blocked", "closed"} => addrs[t] = {}
        /\ phase[t] # "routing" => todo[t] = {}
        /\ todo[t] \subseteq addrs[t]
        /\ conn[ConnOf[t]] = "new" => phase[t] = "idle"
        /\ phase[t] = "abandoned" => shard[ThreadOf(t)] \in {"forced", "exited"}

\* The owner a lookup found had a route to the destination, and either still
\* has the address or is over for good.
PacketShape ==
    pkt # NoPacket =>
        \/ phase[pkt.owner] = "closed"
        \/ /\ pkt.dst \in addrs[pkt.owner]
           /\ phase[pkt.owner] \in {"routing", "up", "released", "unannounced",
                                    "unrouted", "abandoned"}

\* Leases, labels, routes and tunnel state together are preserved by every
\* step of the shards, the request tasks, the reload and the packet path.
Inv ==
    /\ TypeOK
    /\ LeasesCounted
    /\ LeasesExclusive
    /\ LeasesLabelled
    /\ RoutesOwned
    /\ TunnelShape
    /\ PacketShape

============================================================================
