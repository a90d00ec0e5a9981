-------------------------- MODULE ConnectIpProofs --------------------------
(***************************************************************************)
(* Routes, packets and the inductive invariant of ConnectIp, for any       *)
(* number of connections, tunnels, shards and rosters and for pools of any *)
(* size.                                                                   *)
(***************************************************************************)
EXTENDS ConnectIpLeaseProofs

(* Routes and the shape of a tunnel. *)

\* Every action of a tunnel leaves routes to live tunnels only.
LEMMA TunnelRoutes ==
    ASSUME Inv, NEW t \in Tunnels, TunnelNext(t)
    PROVE  RoutesOwned'
<1>1. TypeOK /\ RoutesOwned /\ TunnelShape /\ t # NoTunnel
    BY TunnelAssumption, SMTT(30) DEF Inv
<1> USE DEF RoutesOwned, TypeOK, SetPhase, routeVars, tunnelVars
<1> HIDE DEF PoolTypeOK
<1>2. CASE Request(t)
    BY <1>1, <1>2, ZenonT(30) DEF Request, TakeAddresses
<1>3. CASE Retry(t)
    BY <1>1, <1>3, ZenonT(30) DEF Retry, TakeAddresses
<1>4. CASE Respond(t)
    BY <1>1, <1>4, SMTT(30) DEF Respond
<1>5. CASE RespondFails(t)
    BY <1>1, <1>5, SMTT(30) DEF RespondFails
<1>6. CASE CancelBlocked(t)
    BY <1>1, <1>6, SMTT(30) DEF CancelBlocked
<1>7. CASE InsertRoute(t)
    <2>1. PICK a \in todo[t] : /\ routes' = [routes EXCEPT ![a] = t]
                               /\ phase' = [phase EXCEPT ![t] =
                                     IF todo[t] = {a} THEN "up" ELSE "routing"]
        BY <1>7, ZenonT(30) DEF InsertRoute
    <2>2. UNCHANGED addrs /\ phase[t] = "routing"
        BY <1>7 DEF InsertRoute
    <2>3. a \in addrs[t] /\ a \in Addrs
        BY <1>1 DEF TunnelShape
    <2>4. phase'[t] \in {"up", "routing"}
        BY <1>1, <2>1, SMTT(30)
    <2>5. \A u \in Tunnels \ {t} : phase'[u] = phase[u]
        BY <1>1, <2>1, SMTT(30)
    <2>6. routes'[a] = t /\ \A b \in Addrs \ {a} : routes'[b] = routes[b]
        BY <1>1, <2>1, <2>3, SMTT(30)
    <2>7. \A b \in Addrs : routes[b] \in Tunnels \cup {NoTunnel}
        BY <1>1, SMTT(30)
    <2> HIDE DEF TypeOK
    <2> SUFFICES ASSUME NEW b \in Addrs, routes'[b] # NoTunnel
                 PROVE  /\ b \in addrs'[routes'[b]]
                        /\ phase'[routes'[b]] \in {"routing", "up", "released",
                                                 "unannounced", "abandoned"}
        BY ZenonT(30)
    <2>8. CASE b = a
        BY <2>2, <2>3, <2>4, <2>6, <2>8, SMTT(30)
    <2>9. CASE b # a
        <3>1. routes'[b] = routes[b] /\ routes[b] \in Tunnels
            BY <2>6, <2>7, <2>9, SMTT(30)
        <3>2. b \in addrs'[routes'[b]]
            BY <1>1, <2>2, <3>1, SMTT(30)
        <3>3. CASE routes[b] = t
            BY <2>4, <3>1, <3>2, <3>3, SMTT(30)
        <3>4. CASE routes[b] # t
            BY <1>1, <2>5, <3>1, <3>2, <3>4, SMTT(30)
        <3> QED
            BY <3>3, <3>4, SMTT(30)
    <2> QED
        BY <2>8, <2>9, ZenonT(30)
<1>8. CASE TeardownRelease(t)
    BY <1>1, <1>8, SMTT(30) DEF TeardownRelease
<1>9. CASE TeardownRoutes(t)
    BY <1>1, <1>9, ZenonT(30) DEF TeardownRoutes, RemoveOwned
<1>10. CASE ForcedRelease(t)
    BY <1>1, <1>10, SMTT(30) DEF ForcedRelease
<1>11. CASE Http2Request(t)
    BY <1>1, <1>11, ZenonT(30) DEF Http2Request, TakeAddresses
<1>12. CASE Http2Announce(t)
    BY <1>1, <1>12, SMTT(30) DEF Http2Announce
<1>13. CASE Http2InsertRoutes(t)
    BY <1>1, <1>13, SMTT(30) DEF Http2InsertRoutes
<1>14. CASE Http2Drop(t)
    BY <1>1, <1>14, SMTT(30) DEF Http2Drop
<1>15. CASE Http2DropRoutes(t)
    BY <1>1, <1>15, SMTT(30) DEF Http2DropRoutes, RemoveOwned
<1>16. CASE Http2DropLease(t)
    BY <1>1, <1>16, SMTT(30) DEF Http2DropLease
<1> QED
    BY <1>2, <1>3, <1>4, <1>5, <1>6, <1>7, <1>8, <1>9, <1>10,
       <1>11, <1>12, <1>13, <1>14, <1>15, <1>16, ZenonT(30) DEF TunnelNext

\* Every action of a tunnel keeps the state of a tunnel in the shape its phase
\* determines.
LEMMA TunnelShapes ==
    ASSUME Inv, NEW t \in Tunnels, TunnelNext(t)
    PROVE  TunnelShape'
<1>1. TypeOK /\ TunnelShape
    BY SMTT(30) DEF Inv
<1> DEFINE Fits(u, p, A, T) ==
            /\ p \in IF OverHttp2(u) THEN Http2Phases ELSE Http3Phases
            /\ p \in {"idle", "blocked", "closed"} => A = {}
            /\ p # "routing" => T = {}
            /\ T \subseteq A
            /\ conn[ConnOf[u]] = "new" => p = "idle"
            /\ p = "abandoned" => shard[ThreadOf(u)] \in {"forced", "exited"}
<1>2. \A u \in Tunnels : Fits(u, phase[u], addrs[u], todo[u])
    BY <1>1, ZenonT(30) DEF TunnelShape
<1>3. ASSUME NEW p, NEW A, NEW T,
             phase' = [phase EXCEPT ![t] = p],
             addrs' = [addrs EXCEPT ![t] = A],
             todo' = [todo EXCEPT ![t] = T],
             UNCHANGED <<conn, shard>>,
             Fits(t, p, A, T)
      PROVE  TunnelShape'
    <2>1. \A u \in Tunnels : Fits(u, phase'[u], addrs'[u], todo'[u])
        <3> HIDE DEF Fits
        <3> QED
            BY <1>1, <1>2, <1>3, SMTT(30) DEF TypeOK
    <2> QED
        BY <1>3, <2>1, ZenonT(30) DEF TunnelShape, OverHttp2, ThreadOf
<1>4. /\ addrs = [addrs EXCEPT ![t] = addrs[t]]
      /\ todo = [todo EXCEPT ![t] = todo[t]]
    BY <1>1, SMTT(30) DEF TypeOK
<1>5. conn[ConnOf[t]] = "new" => phase[t] = "idle"
    BY <1>2, SMTT(30)
<1> USE DEF Http3Phases, Http2Phases, SetPhase, tunnelVars, connVars
<1>6. ASSUME TakeAddresses(t), phase[t] \in {"idle", "blocked"},
             conn[ConnOf[t]] # "new", UNCHANGED <<todo, conn, shard>>
      PROVE  TunnelShape'
    <2>1. PICK A : /\ addrs' = [addrs EXCEPT ![t] = A]
                   /\ phase' = [phase EXCEPT ![t] = IF A = {} THEN "closed" ELSE "claimed"]
        BY <1>6, Zenon DEF TakeAddresses
    <2>2. Fits(t, IF A = {} THEN "closed" ELSE "claimed", A, todo[t])
        BY <1>2, <1>6, ZenonT(30)
    <2> HIDE DEF Fits
    <2> QED
        BY <1>3, <1>4, <1>6, <2>1, <2>2, ZenonT(30)
<1>7. ASSUME NEW p, NEW A, SetPhase(t, p), addrs' = [addrs EXCEPT ![t] = A],
             UNCHANGED <<todo, conn, shard>>, Fits(t, p, A, todo[t])
      PROVE  TunnelShape'
    <2> HIDE DEF Fits
    <2> QED
        BY <1>3, <1>4, <1>7, ZenonT(30)
<1>8. CASE Request(t)
    <2>1. CASE TunnelCount(ConnOf[t]) >= MaxTunnels
        <3>1. Fits(t, "closed", addrs[t], todo[t])
            BY <1>2, <1>8, ZenonT(30) DEF Request
        <3> HIDE DEF Fits
        <3> QED
            BY <1>4, <1>7, <1>8, <2>1, <3>1, SMTT(30) DEF Request
    <2> QED
        BY <1>6, <1>8, <2>1, Zenon DEF Request
<1>9. CASE Retry(t)
    BY <1>6, <1>9, ZenonT(30) DEF Retry
<1>10. CASE Respond(t)
    <2>1. Fits(t, "routing", addrs[t], addrs[t])
        BY <1>2, <1>10, Zenon DEF Respond
    <2> HIDE DEF Fits
    <2> QED
        BY <1>3, <1>4, <1>10, <2>1, ZenonT(30) DEF Respond
<1>11. CASE RespondFails(t)
    <2>1. PICK p \in {"blocked", "closed"} : SetPhase(t, p)
        BY <1>11, ZenonT(30) DEF RespondFails
    <2>2. Fits(t, p, {}, todo[t])
        BY <1>2, <1>5, <1>11, Zenon DEF RespondFails
    <2> HIDE DEF Fits
    <2> QED
        BY <1>7, <1>11, <2>1, <2>2, ZenonT(30) DEF RespondFails
<1>12. CASE CancelBlocked(t)
    <2>1. Fits(t, "closed", addrs[t], todo[t])
        BY <1>2, <1>12, Zenon DEF CancelBlocked
    <2> HIDE DEF Fits
    <2> QED
        BY <1>4, <1>7, <1>12, <2>1, ZenonT(30) DEF CancelBlocked
<1>13. CASE InsertRoute(t)
    <2>1. PICK a \in todo[t] :
            /\ todo' = [todo EXCEPT ![t] = todo[t] \ {a}]
            /\ SetPhase(t, IF todo[t] = {a} THEN "up" ELSE "routing")
        BY <1>1, <1>13, ZenonT(30) DEF InsertRoute, TypeOK
    <2>2. Fits(t, IF todo[t] = {a} THEN "up" ELSE "routing", addrs[t], todo[t] \ {a})
        BY <1>2, <1>5, <1>13, ZenonT(30) DEF InsertRoute
    <2> HIDE DEF Fits
    <2> QED
        BY <1>3, <1>4, <1>13, <2>1, <2>2, ZenonT(30) DEF InsertRoute
<1>14. CASE TeardownRelease(t)
    <2>1. Fits(t, "released", addrs[t], todo[t])
        BY <1>2, <1>5, <1>14, ZenonT(30) DEF TeardownRelease
    <2> HIDE DEF Fits
    <2> QED
        BY <1>4, <1>7, <1>14, <2>1, ZenonT(30) DEF TeardownRelease
<1>15. CASE TeardownRoutes(t)
    <2>1. Fits(t, "closed", {}, todo[t])
        BY <1>2, <1>5, <1>15, ZenonT(30) DEF TeardownRoutes
    <2> HIDE DEF Fits
    <2> QED
        BY <1>7, <1>15, <2>1, ZenonT(30) DEF TeardownRoutes
<1>16. CASE ForcedRelease(t)
    <2>1. Fits(t, "abandoned", addrs[t], todo[t])
        BY <1>2, <1>5, <1>16, Zenon DEF ForcedRelease
    <2> HIDE DEF Fits
    <2> QED
        BY <1>4, <1>7, <1>16, <2>1, ZenonT(30) DEF ForcedRelease
<1>17. CASE Http2Request(t)
    <2>1. CASE TunnelCount(ConnOf[t]) >= MaxTunnels
        <3>1. Fits(t, "closed", addrs[t], todo[t])
            BY <1>2, <1>17, ZenonT(30) DEF Http2Request
        <3> HIDE DEF Fits
        <3> QED
            BY <1>4, <1>7, <1>17, <2>1, <3>1, SMTT(30) DEF Http2Request
    <2> QED
        BY <1>6, <1>17, <2>1, ZenonT(30) DEF Http2Request
<1>18. CASE Http2Announce(t)
    <2>1. Fits(t, "announced", addrs[t], todo[t])
        BY <1>2, <1>5, <1>18, Zenon DEF Http2Announce
    <2> HIDE DEF Fits
    <2> QED
        BY <1>4, <1>7, <1>18, <2>1, ZenonT(30) DEF Http2Announce
<1>19. CASE Http2InsertRoutes(t)
    <2>1. Fits(t, "up", addrs[t], todo[t])
        BY <1>2, <1>5, <1>19, ZenonT(30) DEF Http2InsertRoutes
    <2> HIDE DEF Fits
    <2> QED
        BY <1>4, <1>7, <1>19, <2>1, ZenonT(30) DEF Http2InsertRoutes
<1>20. CASE Http2Drop(t)
    <2>1. Fits(t, "unannounced", addrs[t], todo[t])
        BY <1>2, <1>5, <1>20, ZenonT(30) DEF Http2Drop
    <2> HIDE DEF Fits
    <2> QED
        BY <1>4, <1>7, <1>20, <2>1, ZenonT(30) DEF Http2Drop
<1>21. CASE Http2DropRoutes(t)
    <2>1. Fits(t, "unrouted", addrs[t], todo[t])
        BY <1>2, <1>5, <1>21, ZenonT(30) DEF Http2DropRoutes
    <2> HIDE DEF Fits
    <2> QED
        BY <1>4, <1>7, <1>21, <2>1, ZenonT(30) DEF Http2DropRoutes
<1>22. CASE Http2DropLease(t)
    <2>1. Fits(t, "closed", {}, todo[t])
        BY <1>2, <1>5, <1>22, ZenonT(30) DEF Http2DropLease
    <2> HIDE DEF Fits
    <2> QED
        BY <1>7, <1>22, <2>1, ZenonT(30) DEF Http2DropLease
<1> QED
    BY <1>8, <1>9, <1>10, <1>11, <1>12, <1>13, <1>14, <1>15, <1>16, <1>17,
       <1>18, <1>19, <1>20, <1>21, <1>22, SMTT(30) DEF TunnelNext

\* Nothing but the actions of tunnels touches a route, and only the reaper and
\* the shards' shutdown touch what a tunnel's shape depends on.
LEMMA OtherShapes ==
    ASSUME Inv,
           \/ \E c \in Conns : ConnNext(c)
           \/ \E s \in Shards : ShardNext(s)
           \/ ReloadNext
           \/ PacketNext
           \/ UNCHANGED vars
    PROVE  RoutesOwned' /\ TunnelShape'
<1>1. TypeOK /\ RoutesOwned /\ TunnelShape
    BY SMTT(30) DEF Inv
<1>2. ASSUME UNCHANGED <<phase, addrs, todo, routes, shard>>,
             \A c \in Conns : conn'[c] = "new" => conn[c] = "new"
      PROVE  RoutesOwned' /\ TunnelShape'
    BY <1>1, <1>2, TunnelAssumption, ZenonT(30) DEF RoutesOwned, TunnelShape, OverHttp2, ThreadOf
<1> USE DEF tunnelVars, connVars, routeVars
<1>3. ASSUME NEW c \in Conns,
             Handshake(c) \/ CloseConn(c) \/ ReapDone(c) \/ JoinRequests(c)
      PROVE  RoutesOwned' /\ TunnelShape'
    <2>1. \A d \in Conns : conn'[d] = "new" => conn[d] = "new"
        BY <1>1, <1>3, ZenonT(30) DEF Handshake, CloseConn, ReapDone, JoinRequests, TypeOK
    <2> QED
        BY <1>2, <1>3, <2>1, ZenonT(30) DEF Handshake, CloseConn, ReapDone, JoinRequests
<1>4. ASSUME NEW c \in Conns, Reap(c) PROVE RoutesOwned' /\ TunnelShape'
    <2>1. \A t \in Tunnels : ConnOf[t] = c /\ phase[t] # "up" =>
            /\ addrs[t] = {} /\ todo[t] = {}
            /\ phase[t] \in {"idle", "blocked", "closed"}
        <3> SUFFICES ASSUME NEW t \in Tunnels, ConnOf[t] = c, phase[t] # "up"
                     PROVE  phase[t] \in {"idle", "blocked", "closed"}
            BY <1>1, ZenonT(30) DEF TunnelShape
        <3>1. phase[t] \in Http3Phases /\ ~OverHttp2(t)
            BY <1>1, <1>4, ZenonT(30) DEF Reap, TunnelShape, OverHttp2, Http3
        <3>2. phase[t] \notin {"claimed", "routing", "released"}
            BY <1>4, <3>1, ZenonT(30) DEF Reap, ShardFree, ThreadOf
        <3>3. phase[t] # "abandoned"
            BY <1>1, <1>4, ZenonT(30) DEF Reap, TunnelShape, ThreadOf
        <3> QED
            BY <3>1, <3>2, <3>3, ZenonT(30) DEF Http3Phases
    <2>2. \A t \in Tunnels : \/ phase'[t] = phase[t]
                             \/ phase'[t] = "closed" /\ addrs[t] = {}
        BY <1>1, <1>4, <2>1, ZenonT(30) DEF Reap, TypeOK
    <2>3. RoutesOwned'
        <3>1. UNCHANGED <<routes, addrs>>
            BY <1>4, ZenonT(30) DEF Reap
        <3>2. \A a \in Addrs : routes[a] \in Tunnels \cup {NoTunnel}
            BY <1>1, ZenonT(30) DEF TypeOK
        <3> SUFFICES ASSUME NEW a \in Addrs, routes[a] # NoTunnel
                     PROVE  phase'[routes[a]] = phase[routes[a]] /\ RoutesOwned!(a)
            BY <3>1, ZenonT(30) DEF RoutesOwned
        <3>3. routes[a] \in Tunnels /\ a \in addrs[routes[a]]
            BY <1>1, <3>2, ZenonT(30) DEF RoutesOwned
        <3> QED
            BY <1>1, <2>2, <3>3, ZenonT(30) DEF RoutesOwned
    <2>4. \A d \in Conns : conn'[d] = "new" => conn[d] = "new" /\ d # c
        BY <1>1, <1>4, ZenonT(30) DEF Reap, TypeOK
    <2>5. TunnelShape'
        <3> SUFFICES ASSUME NEW t \in Tunnels PROVE TunnelShape!(t)'
            BY ZenonT(30) DEF TunnelShape
        <3>1. CASE ConnOf[t] = c /\ phase[t] # "up"
            <4>1. phase'[t] = "closed" /\ UNCHANGED <<addrs, todo>>
                BY <1>4, <3>1, ZenonT(30) DEF Reap
            <4>2. addrs[t] = {} /\ todo[t] = {}
                BY <2>1, <3>1, ZenonT(30)
            <4>3. conn'[ConnOf[t]] # "new"
                BY <2>4, <3>1, TunnelAssumption, ZenonT(30)
            <4> QED
                BY <4>1, <4>2, <4>3, ZenonT(30) DEF Http3Phases, Http2Phases
        <3>2. CASE ~(ConnOf[t] = c /\ phase[t] # "up")
            <4>1. phase'[t] = phase[t] /\ UNCHANGED <<addrs, todo, shard>>
                BY <1>4, <3>2, ZenonT(30) DEF Reap
            <4>2. conn'[ConnOf[t]] = "new" => conn[ConnOf[t]] = "new"
                BY <2>4, TunnelAssumption, ZenonT(30)
            <4> QED
                BY <1>1, <4>1, <4>2, ZenonT(30) DEF TunnelShape, OverHttp2, ThreadOf
        <3> QED
            BY <3>1, <3>2, ZenonT(30)
    <2> QED
        BY <2>3, <2>5, SMTT(30)
<1>5. ASSUME NEW s \in Shards, ShardNext(s) PROVE RoutesOwned' /\ TunnelShape'
    <2>1. \A d \in Conns : conn'[d] = "new" => conn[d] = "new"
        BY <1>1, <1>5, ZenonT(30) DEF ShardNext, Shutdown, DrainTimeout, Exit, TypeOK
    <2>2. \A r \in Shards : shard[r] \in {"forced", "exited"}
                            => shard'[r] \in {"forced", "exited"}
        BY <1>1, <1>5, ZenonT(30) DEF ShardNext, Shutdown, DrainTimeout, Exit, TypeOK, Ready
    <2>3. \A t \in Tunnels : phase[t] = "abandoned" => ThreadOf(t) \in Shards
        BY <1>1, TunnelAssumption, ZenonT(30) DEF TunnelShape, OverHttp2, Http2Phases, ThreadOf, Http3
    <2>4. UNCHANGED <<phase, addrs, todo, routes>>
        BY <1>5, ZenonT(30) DEF ShardNext, Shutdown, DrainTimeout, Exit
    <2>5. RoutesOwned'
        BY <1>1, <2>4, ZenonT(30) DEF RoutesOwned
    <2>6. TunnelShape'
        BY <1>1, <2>1, <2>2, <2>3, <2>4, TunnelAssumption, ZenonT(30) DEF TunnelShape, OverHttp2, ThreadOf
    <2> QED
        BY <2>5, <2>6, SMTT(30)
<1>6. CASE ReloadNext
    BY <1>2, <1>6, ZenonT(30) DEF ReloadNext, ReloadRoster, ReloadReservations
<1>7. CASE PacketNext
    BY <1>2, <1>7, ZenonT(30) DEF PacketNext, TunRead, TunInbound, Dispatch, Http2Receive, QueueDropped
<1>8. CASE UNCHANGED vars
    BY <1>2, <1>8, SMTT(30) DEF vars
<1> QED
    BY <1>3, <1>4, <1>5, <1>6, <1>7, <1>8, SMTT(30) DEF ConnNext

\* The packet under way keeps an owner that has the address or is over.
LEMMA PacketShapes ==
    ASSUME Inv, [Next]_vars
    PROVE  PacketShape'
<1>1. TypeOK /\ RoutesOwned /\ PacketShape
    BY SMTT(30) DEF Inv
<1>2. pkt # NoPacket => pkt.owner \in Tunnels /\ pkt.dst \in Addrs
    BY <1>1, ZenonT(30) DEF TypeOK, Packets
<1>3. ASSUME NEW t \in Tunnels, TunnelNext(t) PROVE PacketShape'
    <2>1. UNCHANGED pkt
        BY <1>3, ZenonT(30) DEF TunnelNext, Request, Retry, Respond, RespondFails,
               CancelBlocked, InsertRoute, TeardownRelease, TeardownRoutes,
               ForcedRelease, Http2Request, Http2Announce, Http2InsertRoutes,
               Http2Drop, Http2DropRoutes, Http2DropLease, pktVars
    <2>2. \A u \in Tunnels \ {t} : phase'[u] = phase[u] /\ addrs'[u] = addrs[u]
        BY <1>1, <1>3, ZenonT(30) DEF TunnelNext, Request, Retry, Respond, RespondFails,
               CancelBlocked, InsertRoute, TeardownRelease, TeardownRoutes,
               ForcedRelease, Http2Request, Http2Announce, Http2InsertRoutes,
               Http2Drop, Http2DropRoutes, Http2DropLease, TakeAddresses,
               SetPhase, TypeOK
    <2>3. phase[t] = "closed" => phase'[t] = "closed"
        BY <1>1, <1>3, ZenonT(30) DEF TunnelNext, Request, Retry, Respond, RespondFails,
               CancelBlocked, InsertRoute, TeardownRelease, TeardownRoutes,
               ForcedRelease, Http2Request, Http2Announce, Http2InsertRoutes,
               Http2Drop, Http2DropRoutes, Http2DropLease
    <2>4. phase[t] \in {"routing", "up", "released", "unannounced", "unrouted",
                        "abandoned"} =>
            \/ phase'[t] = "closed"
            \/ /\ addrs'[t] = addrs[t]
               /\ phase'[t] \in {"routing", "up", "released", "unannounced",
                                 "unrouted", "abandoned"}
        BY <1>1, <1>3, ZenonT(30) DEF TunnelNext, Request, Retry, Respond, RespondFails,
               CancelBlocked, InsertRoute, TeardownRelease, TeardownRoutes,
               ForcedRelease, Http2Request, Http2Announce, Http2InsertRoutes,
               Http2Drop, Http2DropRoutes, Http2DropLease, SetPhase, TypeOK
    <2> QED
        BY <1>1, <1>2, <2>1, <2>2, <2>3, <2>4, ZenonT(30) DEF PacketShape
<1>4. ASSUME UNCHANGED <<pkt, phase, addrs>> PROVE PacketShape'
    BY <1>1, <1>4, ZenonT(30) DEF PacketShape
<1> USE DEF tunnelVars, connVars, pktVars
<1>5. ASSUME NEW c \in Conns, Reap(c) PROVE PacketShape'
    <2>1. ASSUME NEW t \in Tunnels
          PROVE  phase'[t] = "closed" \/ phase'[t] = phase[t]
        BY <1>1, <1>5, ZenonT(30) DEF Reap, TypeOK
    <2> QED
        BY <1>1, <1>2, <1>5, <2>1, ZenonT(30) DEF Reap, PacketShape
<1>6. ASSUME NEW c \in Conns,
             Handshake(c) \/ CloseConn(c) \/ ReapDone(c) \/ JoinRequests(c)
      PROVE  PacketShape'
    BY <1>4, <1>6, ZenonT(30) DEF Handshake, CloseConn, ReapDone, JoinRequests
<1>7. ASSUME NEW s \in Shards, ShardNext(s) PROVE PacketShape'
    BY <1>4, <1>7, ZenonT(30) DEF ShardNext, Shutdown, DrainTimeout, Exit
<1>8. CASE ReloadNext
    BY <1>4, <1>8, SMTT(30) DEF ReloadNext, ReloadRoster, ReloadReservations
<1>9. CASE PacketNext
    <2>1. ASSUME NEW a \in Addrs, TunRead(a) PROVE PacketShape'
        BY <1>1, <2>1, ZenonT(30) DEF TunRead, PacketShape, RoutesOwned
    <2>2. ASSUME TunInbound PROVE PacketShape'
        BY <1>1, <1>2, <2>2, SMTT(30) DEF TunInbound, PacketShape, RoutesOwned, TypeOK, Packets
    <2>3. ASSUME Dispatch PROVE PacketShape'
        <3>1. pkt' # NoPacket => pkt'.owner = pkt.owner /\ pkt'.dst = pkt.dst
            BY <1>1, <2>3, ZenonT(30) DEF Dispatch, TypeOK, Packets
        <3> QED
            BY <1>1, <2>3, <3>1, SMTT(30) DEF Dispatch, PacketShape
    <2>4. ASSUME Http2Receive \/ QueueDropped PROVE PacketShape'
        BY <2>4, Zenon DEF Http2Receive, QueueDropped, PacketShape
    <2> QED
        BY <1>9, <2>1, <2>2, <2>3, <2>4, SMTT(30) DEF PacketNext
<1>10. CASE UNCHANGED vars
    BY <1>4, <1>10, SMTT(30) DEF vars
<1> QED
    BY <1>3, <1>5, <1>6, <1>7, <1>8, <1>9, <1>10, ZenonT(30) DEF Next, ConnNext

----------------------------------------------------------------------------
(* The theorems. *)

\* The start of the server satisfies the inductive invariant.
LEMMA InvInit == Init => Inv
<1> SUFFICES ASSUME Init PROVE Inv
    OBVIOUS
<1>1. TypeOK
    BY TypeInit, SMTT(30)
<1>2. \A a \in Addrs : Holders(a) = {}
    BY SMTT(30) DEF Init, Holders, Holds
<1>3. LeasesCounted
    BY <1>2, FS_EmptySet, ZenonT(30) DEF Init, PoolInit, LeasesCounted, Unallocated
<1>4. LeasesExclusive /\ LeasesLabelled /\ RoutesOwned
    BY ZenonT(30) DEF Init, LeasesExclusive, LeasesLabelled, RoutesOwned, Holds
<1>5. TunnelShape
    BY ZenonT(30) DEF Init, TunnelShape, Http2Phases, Http3Phases
<1>6. PacketShape
    BY SMTT(30) DEF Init, PacketShape
<1> QED
    BY <1>1, <1>3, <1>4, <1>5, <1>6, SMTT(30) DEF Inv

\* The inductive invariant is inductive.
LEMMA InvStep == Inv /\ [Next]_vars => Inv'
<1> SUFFICES ASSUME Inv, [Next]_vars PROVE Inv'
    BY SMTT(30)
<1>1. TypeOK'
    BY TypeStep, SMTT(30) DEF Inv
<1>2. Leases'
    BY TunnelLeases, OtherLeases, SMTT(30) DEF Next
<1>3. RoutesOwned' /\ TunnelShape'
    BY TunnelRoutes, TunnelShapes, OtherShapes, SMTT(30) DEF Next
<1>4. PacketShape'
    BY PacketShapes, SMTT(30)
<1> QED
    BY <1>1, <1>2, <1>3, <1>4, SMTT(30) DEF Inv, Leases

\* Leases, labels, routes, tunnels and packets stay consistent in every reachable
\* state of shards, request tasks, reloads and shutdown.
THEOREM Invariance == Spec => []Inv
BY InvInit, InvStep, PTL DEF Spec

\* In every reachable state the pool's reference counts are the tunnels that
\* hold the address: no set-up, failed response, teardown, abort, reap or
\* forced exit leaks a lease or gives one back twice.
THEOREM LeaseAccounting == Spec => []LeasesCounted
<1>1. Inv => LeasesCounted
    BY SMTT(30) DEF Inv
<1> QED
    BY <1>1, Invariance, PTL

\* No interleaving of reloads, reconnects and allocations on any number of
\* shards and request tasks lets two identities hold one address.
THEOREM LeaseExclusion == Spec => []LeasesExclusive
<1>1. Inv => LeasesExclusive
    BY SMTT(30) DEF Inv
<1> QED
    BY <1>1, Invariance, PTL

\* A route always names a tunnel that was assigned the address and that has
\* not finished its teardown.
THEOREM RouteOwnership == Spec => []RoutesOwned
<1>1. Inv => RoutesOwned
    BY SMTT(30) DEF Inv
<1> QED
    BY <1>1, Invariance, PTL

\* Only the insertion of a route by a tunnel with the address on lease, and
\* remove_owned on its own routes, change the routing table.
LEMMA RouteKeptByStep == Inv /\ [Next]_vars => RouteKeptStep
<1> SUFFICES ASSUME Inv, [Next]_vars, NEW t \in Tunnels, NEW a \in Addrs,
                    routes[a] = t, routes'[a] # t,
                    phase[t] = "up", phase'[t] = "up"
             PROVE  \E u \in Holders(a) \ {t} :
                        /\ routes'[a] = u
                        /\ LeaseKey(t) # NoKey
                        /\ LeaseKey(u) = LeaseKey(t)
    BY ZenonT(30) DEF RouteKeptStep
<1>1. TypeOK /\ Leases /\ RoutesOwned /\ TunnelShape
    BY Zenon DEF Inv, Leases
<1>2. Holds(t, a)
    BY <1>1, TunnelAssumption, ZenonT(30) DEF RoutesOwned, Holds, Leasing
<1>3. ASSUME NEW u \in Tunnels, u # t, routes'[a] = u, Holds(u, a)
      PROVE  \E v \in Holders(a) \ {t} :
                routes'[a] = v /\ LeaseKey(t) # NoKey /\ LeaseKey(v) = LeaseKey(t)
    BY <1>1, <1>2, <1>3, ZenonT(30) DEF Leases, LeasesExclusive, Holders
<1>4. PICK u \in Tunnels :
        \/ InsertRoute(u) \/ Http2InsertRoutes(u)
        \/ TeardownRoutes(u) \/ Http2DropRoutes(u)
    BY ZenonT(30) DEF Next, TunnelNext, ConnNext, ShardNext, ReloadNext, PacketNext, vars,
           routeVars, Request, Retry, Respond, RespondFails, CancelBlocked,
           TeardownRelease, ForcedRelease, Http2Request, Http2Announce,
           Http2Drop, Http2DropLease, Handshake, CloseConn, Reap, ReapDone,
           JoinRequests, Shutdown, DrainTimeout, Exit, ReloadRoster,
           ReloadReservations, TunRead, TunInbound, Dispatch, Http2Receive,
           QueueDropped
<1>5. CASE InsertRoute(u)
    <2>1. routes'[a] = u /\ a \in todo[u] /\ phase[u] = "routing"
        BY <1>1, <1>5, ZenonT(30) DEF InsertRoute, TypeOK
    <2>2. Holds(u, a) /\ u # t
        BY <1>1, <2>1, ZenonT(30) DEF TunnelShape, Holds, Leasing
    <2> QED
        BY <1>3, <2>1, <2>2, ZenonT(30)
<1>6. CASE Http2InsertRoutes(u)
    <2>1. routes'[a] = u /\ a \in addrs[u] /\ phase[u] = "announced"
        BY <1>1, <1>6, ZenonT(30) DEF Http2InsertRoutes, TypeOK
    <2>2. Holds(u, a) /\ u # t
        BY <2>1, ZenonT(30) DEF Holds, Leasing
    <2> QED
        BY <1>3, <2>1, <2>2, ZenonT(30)
<1>7. CASE TeardownRoutes(u) \/ Http2DropRoutes(u)
    <2>1. u = t
        BY <1>1, <1>7, ZenonT(30) DEF TeardownRoutes, Http2DropRoutes, RemoveOwned, TypeOK
    <2> QED
        BY <1>7, <2>1, ZenonT(30) DEF TeardownRoutes, Http2DropRoutes
<1> QED
    BY <1>4, <1>5, <1>6, <1>7, ZenonT(30)

\* The cleanup of a stale tunnel never takes the return route of a live one:
\* only its own teardown, or another tunnel of the client both are pinned to,
\* can.
THEOREM RouteKeeping == Spec => RouteKept
BY Invariance, RouteKeptByStep, PTL DEF Spec, RouteKept

\* A packet is handed over by the local branch of relay_tun_packet or by the
\* HTTP/2 task, both of which find the tunnel up.
LEMMA DeliveryByStep == Inv /\ [Next]_vars => DeliveryStep
<1> SUFFICES ASSUME Inv, [Next]_vars, delivered' # delivered, delivered' # NoPacket
             PROVE  LET t == delivered'[1]
                        a == delivered'[2]
                    IN  /\ a \in addrs[t]
                        /\ allocated[a].claims > 0
                        /\ allocated[a].owner = LeaseKey(t)
    BY Zenon DEF DeliveryStep
<1>1. TypeOK /\ LeasesCounted /\ LeasesLabelled /\ PacketShape
    BY SMTT(30) DEF Inv
<1>2. Dispatch \/ Http2Receive
    BY ZenonT(30) DEF Next, TunnelNext, ConnNext, ShardNext, ReloadNext, PacketNext, vars,
           pktVars, Request, Retry, Respond, RespondFails, CancelBlocked,
           InsertRoute, TeardownRelease, TeardownRoutes, ForcedRelease,
           Http2Request, Http2Announce, Http2InsertRoutes, Http2Drop,
           Http2DropRoutes, Http2DropLease, Handshake, CloseConn, Reap,
           ReapDone, JoinRequests, Shutdown, DrainTimeout, Exit, ReloadRoster,
           ReloadReservations, TunRead, TunInbound, QueueDropped
<1>3. /\ pkt # NoPacket
      /\ phase[pkt.owner] = "up"
      /\ delivered' = <<pkt.owner, pkt.dst>>
    BY <1>2 DEF Dispatch, Http2Receive
<1>4. pkt.owner \in Tunnels /\ pkt.dst \in Addrs
    BY <1>1, <1>3, ZenonT(30) DEF TypeOK, Packets
<1>5. Holds(pkt.owner, pkt.dst)
    BY <1>1, <1>3, ZenonT(30) DEF PacketShape, Holds, Leasing
<1>6. /\ allocated[pkt.dst].claims > 0
      /\ allocated[pkt.dst].owner = LeaseKey(pkt.owner)
    BY <1>1, <1>4, <1>5, HeldLive, ZenonT(30) DEF LeasesLabelled
<1> QED
    BY <1>3, <1>5, <1>6, ZenonT(30) DEF Holds

\* However many lookups and queues lie between the TUN device and a tunnel, a
\* packet is handed over only to a tunnel with its destination on lease.
THEOREM Delivery == Spec => DeliveredToHolder
BY Invariance, DeliveryByStep, PTL DEF Spec, DeliveredToHolder

============================================================================
