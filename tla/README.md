# A TLA+ development for masque-server

masque-server is one process that proxies TCP (CONNECT), UDP (CONNECT-UDP) and
IP (CONNECT-IP) over HTTP/3 and HTTP/2. This directory models the parts of it
whose correctness depends on the order in which threads, tasks, messages,
timers and reloads act, checks the models with TLC and proves the central
properties with TLAPS. Paths below are relative to the repository's `src/`.

## 1. The system and its parts

HTTP/3 is served by shards: one event loop per listener socket, each a tokio
task on a multi-thread runtime that owns its connections. HTTP/2 is served by
one task per connection and one per request. Shards and tasks share the address
pool and the routing table (locks), the credential sets and the roster
(replaced as a whole by a reload), semaphores, and bounded channels.

| Part | State | Operations | Correctness | Modelled in |
|---|---|---|---|---|
| HTTP/3 shards (`server/mod.rs`, `shard_*.rs`) | connections, tunnels, queues, timers | packets, channel events, timers, drain | one handler at a time; nothing owned by a connection outlives it | each module has the handlers of its part |
| HTTP/2 listener (`server/http2*`) | tasks per connection and request | accept, authorize, serve, abort | an aborted task gives everything back | `ConnectIp`, `BasicAuth`, `Http2Tcp` |
| Address pool (`address_pool.rs`) | lease counts, reservations, cursor | claim, allocate, release, reserve | counts are the holders; no address for two identities | `AddressPool` |
| CONNECT-IP tunnels, routing (`routing.rs`, `shard_tunnels.rs`, `http2/ip.rs`) | assigned addresses, routes, return queues | set up, retry, tear down, look up | a route belongs to a live tunnel; packets reach holders only | `ConnectIp` |
| Roster (`client_identity.rs`) | enrolled keys, pinned addresses, generation | identify, replace, sweep | a removed client loses access | pins in `ConnectIp`; generation planned |
| Basic authentication (`auth.rs`, `server/authentication.rs`) | credential sets, success cache, flights, slots | precheck, begin, verify, resume | the verdict of the snapshot, once, with bounded Argon2 work | `BasicAuth` |
| TCP relay (`tunnel/tcp.rs`, `http2/tcp.rs`) | queues each way, credit, half-close flags | queue, write, read, flush, finish, reset | a bounded in-order pipe each way; no lost wakeup | `TcpPipe`, `TcpRelay`, `Http2Tcp` |
| CONNECT-UDP (`tunnel/udp.rs`) and capsules (`server/capsules.rs`, `capsule/*`) | pending set-ups, early datagrams, capsule queues | set up, buffer, relay, close | budgets returned on every exit; FIN only behind complete capsules | planned |
| Packet steering (`shard_packets.rs`) | CID registry, forward batches | route, forward, migrate | a CID names at most one connection | planned |
| Admission (`admission.rs`) | connections per source | acquire, rebind, drop | counts are the live connections; limits hold | planned |
| Scheduling (`scheduler.rs`) | dirty set, indexed timer heap | mark, schedule, cancel, expire | heap and index are inverse; nothing due is missed | `TimerQueue`, `ShardRound` |
| Resolution (`tunnel/resolver.rs`, `target.rs`, `policy.rs`) | two semaphores, one DNS snapshot | look up, check, connect | a waiter holds no global permit; the address checked is the one used | planned |
| Lifecycle (`server/mod.rs`, `systemd.rs`) | shutdown latch, watchdog | notify, drain, exit | everybody stops; a stuck worker is noticed | in part, in `ConnectIp` and `ShardRound` |
| Error responses (`connection/error_responses.rs`) | blocked responses | send, retry, expire, cancel | one response or reset per stream | planned |
| Retry tokens, codecs (`server/retry.rs`, `varint.rs`, `capsule/*`) | - | encode, decode, rotate | decode inverts encode | planned, as operators |
| Configuration, tools, metrics, TLS, sockets | - | - | - | no, see section 8 |

The behaviours that are hard to test are listed, each at its line, under
`hazards` in `PROJECT.json`.

## 2. Modules

- `AddressPool`: the pool and the two functions of `server/mod.rs` that use it
  under one lock (`claim_static_addresses`, `allocate_pool_addresses`), as
  relations on its variables. The linear scan of an allocation is given by its
  result: the free address of least rank from the cursor. An address is a
  family and an offset in the pool.
- `ConnectIp` extends it: connections, rosters, tunnels, routes, shards and one
  packet on its way from the TUN device. An action is what one thread does
  under one acquisition of a shared lock. `ShardFree` and `Ready` keep a shard
  to one handler at a time; HTTP/2 tasks interleave freely. `phase` records how
  far a set-up or teardown is, so every gap between two locks is a state.
- `BasicAuth`: a request's life from the precheck to its answer. A flight is
  named by the request that leads it. Actors are the shard, the verification
  task and the blocking closure of each request, and the reload. An abort may
  race the segment of a task that runs.
- `TcpPipe`: what a tunnel promises for one direction: bytes named by offsets,
  `Send`, `End`, `Deliver`, `Close`, at most `Capacity` bytes inside, and
  `Close` only when everything was delivered.
- `TcpRelay`: one HTTP/3 tunnel. `pc` is the shard's position in its loop and
  in the functions on its stack (`ret`, `cap`, `needs`, `attempt` are their
  locals), so that the loads and stores of `client_capacity` interleave with
  the writer task. `writer`, `reader` and `connect` are the positions of the
  three tasks. A chunk is the interval of offsets it carries. quiche is modelled
  as the shard uses it: the Data event fires again only after the stream was
  drained, `recv_body` stops at an empty frame, and a poll moves past at most
  one empty frame.
- `Http2Tcp`: one HTTP/2 tunnel: the two loops that `serve` joins.
- `TimerQueue`: the indexed heap, operation by operation, with its recursion.
  `Deadlines`: the table of deadlines it implements.
- `ShardRound`: one round of `Shard::run` around that queue. A handler or quiche
  does three things to a connection here: it touches it (and marks it dirty),
  gives it a deadline when it is driven, and closes it. The clock moves between
  any two steps. `touched`, `wanted` and `swept` record what the program does
  not: work not yet driven, the true deadline, the last look at the sweep
  deadline.
- `MC*`: the instances. `*Proofs`: the theorems.

Definitions marked `FAULT` are variants of the definition that follows them
with one plausible mistake. No specification uses them; they show that a
property notices the mistake.

## 3. Runs

| Run | Question |
|---|---|
| `connect_ip_reconnect` | A pinned dual-stack client reconnects on a second shard, an HTTP/2 client draws from the same pool, shards drain or are forced out, packets cross the shards: are leases counted, routes owned and kept, packets delivered to holders? |
| `connect_ip_reload` | Reloads move one of a client's two pins to another client and back, or are refused, between and during set-ups: do two identities ever hold one address, and is a claim refused at its second address undone exactly? Also checks the inductive invariant `Inv` of the proofs. |
| `connect_ip_return` | More demand than addresses: does every lease of a closing connection return? |
| `connect_ip_split` | Does a client's newest tunnel take over its whole return route? It does not: see section 6. |
| `basic_auth_flight` | Three requests, two with one password, a registry for one flight, one permit: is a follower ever left without a leader, a registration erased by another leader, Argon2 run without slots? |
| `basic_auth_reload` | One reload changes the password and another removes the user under two requests on both transports: verdict of the snapshot, one flight, one answer, answered in the end, slots back? |
| `tcp_upload` | Data, empty DATA frames, FIN, resets and failed writes in every order against a slow writer: one in-order pipe, the counter exact, no unread byte without a wakeup? |
| `tcp_download` | Reads of every length, flow control byte by byte, failures, resets, refused responses and idle closes at every point: in-order pipe, budget conserved, a clean close complete, nothing sendable left behind? |
| `tcp_live` | Do all bytes and both ends arrive, and does the tunnel end? |
| `http2_tcp` | Is the HTTP/2 relay the same pipe? |
| `timer_queue` | Do heap and position index agree after every sequence of operations, and is the heap a table of deadlines that fires exactly the due ones, earliest first? |
| `shard_round` | Does a round lose a mark, leave a closed connection, service one twice, trust a stale deadline, or sleep past one? Does a shutdown end the loop? |

The CONNECT-IP and authentication runs turn deadlock checking off: there every
connection ends, and then nothing is left to do. The other runs keep it on; the
only step of a finished tunnel or loop is the one that says it is over.

## 4. Bounds

- CONNECT-IP: a pool of host mask 3 has the gateway and two more offsets, so one
  IPv4 and two IPv6 addresses are usable; three tunnels exhaust it, wrap the
  cursor and reuse addresses. Two shards and one HTTP/2 connection are the
  least that have all pairs of concurrent teardown and set-up. `MaxTunnels = 1`
  with two requests on a connection reaches the limit. `connect_ip_reload` has
  two clients: the pinned one may have two tunnels, so an address is held twice
  when a further claim fails half-way, and the other, on HTTP/2, is dynamic
  until a reload pins it. One packet at a time is
  enough: packets do not influence each other.
- Authentication: three requests allow a leader, a follower and a leader whose
  flight was not registered (`MaxInFlight = 1`); `Permits = 1` makes closures
  wait; `SourceSlots = 2` refuses the third request. Two reloads give three
  accounts: the first password, another one, and one that rejects every
  password, which the precheck answers without a flight.
- TCP: every bound (`MaxUp`, `MaxDown`, `MaxEmpty`, `QuicWindow`, `MaxClient`,
  `BodyLimit`, `ReadChunk`, `MaxResponse`, `EventSlots`, `FramingRetries`) is
  small enough that each limit is reached with bytes waiting behind it: the
  command queue, the event channel, QUIC's window, the read buffers and the
  framing retries. `MaxEmpty` exceeds `FramingRetries` in `tcp_upload`, so
  that a resumed read is handed on to the connection's timer. `Faults` selects
  the failures of a run.
- Scheduling: six entries are the fewest for which the entry that fills a
  removed one's place may have to rise; three instants give ties and replaced
  deadlines both ways. Two connections, two marks per event (`Batch`) and a
  clock up to `MaxTime = 3` let one connection be marked by an event, its timer
  and the sweep in one round while another is reaped. A shutdown happens only
  when the bounded clock has room for the drain.

## 5. Fairness

Safety runs assume none. The liveness runs assume what the scheduling gives:

- `ConnectIp`: a handler that began runs to its end, an aborted task is dropped,
  and the reaper is strongly fair, because the shard reaps at the end of every
  turn of its loop.
- `BasicAuth`: tasks are polled and closures run (tokio), the outcome queue and
  the timers are serviced. Clients need not do anything.
- `TcpRelay`: the shard's loop and the tasks are weakly fair. Handling an event
  is strongly fair since `tokio::select!` chooses among ready branches at
  random; the sends into the event channel are strongly fair since tokio's
  channel serves waiting senders in order. The target accepts writes and the
  client keeps granting flow control: without these two nothing can be
  promised. Neither side need send anything.
- `ShardRound`: the loop goes on between two waits, a timer that is due wakes it,
  and time passes.

## 6. What the checks show

All properties of the passing runs hold. Two things a reader should know:

- `docs/protocols.md:127` says that the newest tunnel of a pinned client
  "atomically takes over the return route". `setup_ip_tunnel` inserts one
  address per lock acquisition, so two set-ups on two shards can interleave and
  leave IPv4 with one tunnel and IPv6 with the other. `connect_ip_split` finds
  this (`OneReturnPath`). Both routes still name live tunnels of that client.
- The idle sweep ends the response of an open TCP tunnel with a FIN, whatever
  the target still has; `DownloadIsPipe` is about the FIN of
  `flush_tcp_responses`. `NothingStranded` shows that even then the shard holds
  no byte back that flow control would have let through.

Only a forced exit after the drain deadline leaves a route behind (phase
`abandoned` in `RoutesOwned`); the process is ending then, and the lease itself
is returned.

## 7. Proofs

Proved for every value of the constants that satisfies the named assumptions of
the modules (finite set of tunnels, distinct null values, positive sizes):

- `AddressPoolProofs`, `ClaimAllOrNothing`: `claim_static_addresses` adds one
  count to every requested address or changes no count and no live owner,
  although its loop takes them one by one and rolls back.
- `ConnectIpLeaseProofs` (types and leases) and `ConnectIpProofs` (routes,
  packets and the whole): `TypeCorrect`, `LeaseAccounting`, `LeaseExclusion`,
  `RouteOwnership` and the action properties `RouteKeeping` and `Delivery`, all
  from one inductive invariant `Inv` (theorem `Invariance`). `LeasesExclusive`
  is not inductive alone. It needs `LeasesCounted`, so that a claim that finds
  count zero knows that nobody holds the address, and `LeasesLabelled`, so that
  a claim under the same key knows who does. `LeasesCounted` relates a number to
  a set of tunnels, so each step that takes or gives back addresses is proved
  with a lemma on how `Holders` grows or shrinks by one tunnel. `RouteKept`
  needs `RoutesOwned` and `TunnelShape`: a teardown removes only routes that
  name its own tunnel. `Delivery` needs `PacketShape`: the owner found by a
  lookup still has the address or is closed.
- `Http2TcpProofs`: `UploadRefines` and `DownloadRefines`: `Http2Tcp` implements
  `TcpPipe` in each direction. The invariant says that each loop holds at most
  one chunk, and that capacity is released behind the write.

Only model-checked: the liveness properties (fairness and `ENABLED` are out of
the prover's reach), everything about `BasicAuth`, `TcpRelay` and
the scheduling modules so far.

## 8. What is not modelled

Components with status `not_modelled` in `PROJECT.json`, with the reason. For
good: configuration parsing and editing, operator tools, metrics and logs, TLS
set-up, socket and device I/O (sequential string processing or system calls),
and the test tools. Inside modelled parts:

- `AddressPool`: the 64-bit iteration cap of the IPv6 scan, and a pool of one
  address.
- `ConnectIp`: packets from the client, ADDRESS_REQUEST replies, other streams
  of a connection.
- `BasicAuth`: parsing of the header; the precheck and the acquisition of the
  slots are one step, since both are done by one thread without waiting.
- `TcpRelay`: the connect is one nondeterministic result; a body frame header
  that is only partly received (no progress until the rest arrives, which is
  another packet), and with it the test of `resume_tcp_request_body` that the
  framing retries consumed bytes: they always do when each retry goes past a
  complete empty frame; the budgets of an event batch, whose end may come at any
  event.
- `ShardRound`: what the handlers do beyond marking (other modules have that),
  deferred packets, and the precision of the operating-system timer.

## 9. Plan

1. CONNECT-UDP set-up, early datagrams and capsule streams, with the budget
   invariants and the FIN handling; the uplink of CONNECT-IP.
2. Packet steering: CID registry and forwarding between shards; admission and
   migration (`try_rebind`), composed; idle sweep, drain and shutdown with
   worker failure and watchdog; the roster's generation and sweep.
3. Resolver budget; error responses; deferred (paced) packets of a connection
   inside `ShardRound`.
4. Pure algorithms as operators against reference definitions: varint, capsule
   decoding in fragments, IP packet forwarding checks, policy matching, address
   interleaving, retry token rotation.
5. Proofs: that `TcpRelay` implements `TcpPipe` (contiguity of the chunks in
   early data, command channel, event channel and pending responses is the
   invariant); verdicts and single flight of `BasicAuth`; heap and index of the
   scheduler; admission counts.
