----------------------------- MODULE BasicAuth -----------------------------
(***************************************************************************)
(* Basic authentication of CONNECT requests: the cheap check on the event  *)
(* loop, the single-flight verification with its success cache (auth.rs),  *)
(* the bounded tasks and blocking closures that run Argon2                 *)
(* (server/authentication.rs), and the resumption of the request by an     *)
(* HTTP/3 shard or an HTTP/2 request task.                                 *)
(*                                                                         *)
(* Actors: the shard thread (requests, resets, deadlines and results of    *)
(* HTTP/3 connections), one task per request, one blocking closure per     *)
(* elected leader, and the reload task.  A request leads at most one       *)
(* flight, so a PasswordFlight is named by the request that leads it.      *)
(***************************************************************************)
EXTENDS Naturals, FiniteSets, Sequences

CONSTANTS
    Requests,       \* CONNECT requests, one stream each
    Conns,          \* client connections
    Http2,          \* the connections served by the HTTP/2 tasks
    ConnOf,         \* connection of a request
    SourceOf,       \* source address of a connection
    Passwords,      \* passwords a request may carry
    PasswordOf,     \* password of a request
    MaxReloads,     \* bound: how often a SIGHUP replaces the credentials
    Accepts,        \* password of the configured user in each credential set
    MaxInFlight,    \* MAX_IN_FLIGHT_PASSWORDS
    QueueSlots,     \* MAX_PENDING_AUTH_GLOBAL
    SourceSlots,    \* max_pending_auth_per_ip
    PerConnection,  \* MAX_PENDING_AUTH_PER_CONNECTION
    Permits,        \* auth_concurrency
    ResultQueue,    \* AUTH_RESULT_QUEUE_CAPACITY
    NoPassword,     \* the user is not configured, or nothing is cached
    NoRequest

Gens == 0 .. MaxReloads

ASSUME RequestAssumption ==
    /\ IsFiniteSet(Requests)
    /\ Http2 \subseteq Conns
    /\ ConnOf \in [Requests -> Conns]
    /\ PasswordOf \in [Requests -> Passwords]
    /\ NoPassword \notin Passwords
    /\ NoRequest \notin Requests

ASSUME BoundAssumption ==
    /\ MaxReloads \in Nat
    /\ Accepts \in [Gens -> Passwords \cup {NoPassword}]
    /\ {MaxInFlight, QueueSlots, SourceSlots, PerConnection, Permits,
        ResultQueue} \subseteq Nat

VARIABLES
    current,    \* the credential set SharedBasicAuthenticator holds
    success,    \* the password each credential has in its success cache
    in_flight,  \* per credential and password: the registered flight
    flight,     \* the watch channel of the flight a request leads
    cred,       \* the credential snapshot a request is verified against
    task,       \* where the verification task of a request is
    follows,    \* the flight a follower waits for
    closure,    \* where the blocking closure of a leader is
    result,     \* what verify_basic_password yields for the request
    cancelled,  \* requests whose cancellation flag is set
    aborted,    \* requests whose task has been told to abort
    held,       \* requests that hold their admission slots
    permit,     \* requests that hold a CPU permit
    awaiting,   \* HTTP/3 requests with an entry in awaiting_auth
    outcomes,   \* the shard's queue of AuthOutcome
    deadline,   \* first_auth_deadline of a connection
    conn,       \* life of a connection
    answer,     \* how the request was answered
    panicked    \* requests whose closure panicked

credVars == <<current, success, in_flight, flight>>

taskVars == <<cred, task, follows, closure, result>>

slotVars == <<held, permit>>

edgeVars == <<awaiting, outcomes, deadline, conn, answer>>

vars == <<credVars, taskVars, slotVars, edgeVars, cancelled, aborted, panicked>>

TypeOK ==
    /\ current \in Gens
    /\ success \in [Gens -> Passwords \cup {NoPassword}]
    /\ in_flight \in [Gens -> [Passwords -> Requests \cup {NoRequest}]]
    /\ flight \in [Requests -> {"none", "pending", "true", "false", "abandoned"}]
    /\ cred \in [Requests -> Gens]
    /\ task \in [Requests -> {"new", "loop", "follow", "permit", "unwind",
                              "join", "send", "done"}]
    /\ follows \in [Requests -> Requests \cup {NoRequest}]
    /\ closure \in [Requests -> {"none", "spawned", "hashing", "hashed",
                                 "published", "dropped", "refused", "ended"}]
    /\ result \in [Requests -> {"none", "true", "false"}]
    /\ {cancelled, aborted, held, permit, awaiting, panicked} \subseteq SUBSET Requests
    /\ outcomes \in Seq(Requests)
    /\ deadline \in [Conns -> {"armed", "due", "none"}]
    /\ conn \in [Conns -> {"open", "closed", "gone"}]
    /\ answer \in [Requests -> {"none", "granted", "rejected", "refused", "dropped"}]

Init ==
    /\ current = 0
    /\ success = [g \in Gens |-> NoPassword]
    /\ in_flight = [g \in Gens |-> [p \in Passwords |-> NoRequest]]
    /\ flight = [r \in Requests |-> "none"]
    /\ cred = [r \in Requests |-> 0]
    /\ task = [r \in Requests |-> "new"]
    /\ follows = [r \in Requests |-> NoRequest]
    /\ closure = [r \in Requests |-> "none"]
    /\ result = [r \in Requests |-> "none"]
    /\ cancelled = {} /\ aborted = {} /\ panicked = {}
    /\ held = {} /\ permit = {} /\ awaiting = {}
    /\ outcomes = << >>
    /\ deadline = [c \in Conns |-> "armed"]
    /\ conn = [c \in Conns |-> "open"]
    /\ answer = [r \in Requests |-> "none"]

IsHttp2(r) == ConnOf[r] \in Http2

\* Whether Argon2 accepts the password of a request.
Correct(r) == PasswordOf[r] = Accepts[cred[r]]

Verdict(r) == IF Correct(r) THEN "true" ELSE "false"

-----------------------------------------------------------------------------
(* The single-flight registry of a credential.  Each operator is one       *)
(* critical section of the verification mutex.                             *)

\* A request that owns a PasswordLeader.
Leading(r) ==
    \/ task[r] = "permit"
    \/ closure[r] \in {"spawned", "hashing", "hashed", "published", "refused"}

\* A flight with an Arc left: its leader's or a follower's.
Alive(f) == Leading(f) \/ \E r \in Requests : follows[r] = f

Registered(g) == {p \in Passwords : in_flight[g][p] # NoRequest}

\* The registry after begin_verification has dropped the dead entries.
Retained(g) ==
    [p \in Passwords |->
        IF p \in Registered(g) /\ Alive(in_flight[g][p])
        THEN in_flight[g][p] ELSE NoRequest]

\* FAULT: the registration under the leader's password is removed, whoever
\* it belongs to.
UnregisteredByDigest(r) ==
    [in_flight EXCEPT ![cred[r]][PasswordOf[r]] = NoRequest]

\* PasswordLeader::drop removes its own registration only.
Unregistered(r) ==
    [in_flight EXCEPT ![cred[r]][PasswordOf[r]] = IF @ = r THEN NoRequest ELSE @]

\* FAULT: a leader that goes away tells its followers nothing.
AbandonedSilently(r) ==
    /\ in_flight' = Unregistered(r)
    /\ UNCHANGED flight

\* PasswordLeader::drop of a leader that has not completed.
Abandoned(r) ==
    /\ in_flight' = Unregistered(r)
    /\ flight' = [flight EXCEPT ![r] = "abandoned"]

\* FAULT: a second request with the password starts a flight of its own.
JoinsNothing(r) == r \notin Requests

\* The registered flight of the request's password, if it is alive.
Joins(r) == Retained(cred[r])[PasswordOf[r]] # NoRequest

BeginCached(r) ==
    /\ success[cred[r]] = PasswordOf[r]
    /\ result' = [result EXCEPT ![r] = "true"]
    /\ task' = [task EXCEPT ![r] = "send"]
    /\ held' = held \ {r}
    /\ UNCHANGED <<in_flight, flight, follows>>

BeginFollower(r) ==
    /\ success[cred[r]] # PasswordOf[r]
    /\ Joins(r)
    /\ in_flight' = [in_flight EXCEPT ![cred[r]] = Retained(cred[r])]
    /\ follows' = [follows EXCEPT ![r] = in_flight[cred[r]][PasswordOf[r]]]
    /\ task' = [task EXCEPT ![r] = "follow"]
    /\ UNCHANGED <<flight, result, held>>

BeginLeader(r) ==
    /\ success[cred[r]] # PasswordOf[r]
    /\ ~Joins(r)
    /\ LET kept == Retained(cred[r])
           room == Cardinality({p \in Passwords : kept[p] # NoRequest}) < MaxInFlight
       IN  in_flight' = [in_flight EXCEPT ![cred[r]] =
                IF room THEN [kept EXCEPT ![PasswordOf[r]] = r] ELSE kept]
    /\ flight' = [flight EXCEPT ![r] = "pending"]
    /\ task' = [task EXCEPT ![r] = "permit"]
    /\ UNCHANGED <<follows, result, held>>

-----------------------------------------------------------------------------
(* The verification task, verify_basic_password.                           *)

\* The head of the loop: give up when cancelled, else join, lead or use the
\* cache.
Begin(r) ==
    /\ task[r] = "loop"
    /\ \/ /\ r \notin cancelled
          /\ BeginCached(r) \/ BeginFollower(r) \/ BeginLeader(r)
       \/ /\ r \in cancelled
          /\ task' = [task EXCEPT ![r] = "done"]
          /\ held' = held \ {r}
          /\ UNCHANGED <<in_flight, flight, follows, result>>
    /\ UNCHANGED <<current, success, cred, closure, permit, edgeVars,
                   cancelled, aborted, panicked>>

\* FAULT: a follower takes the end of its leader for a rejection.
FollowerGivesUp(r) ==
    /\ task[r] = "follow"
    /\ flight[follows[r]] # "pending"
    /\ follows' = [follows EXCEPT ![r] = NoRequest]
    /\ task' = [task EXCEPT ![r] = "send"]
    /\ result' = [result EXCEPT ![r] =
            IF flight[follows[r]] = "true" THEN "true" ELSE "false"]
    /\ held' = held \ {r}
    /\ UNCHANGED <<credVars, cred, closure, permit, edgeVars, cancelled,
                   aborted, panicked>>

\* FAULT: whatever the flight ended with is passed on.
FollowerPasses(r) ==
    /\ task[r] = "follow"
    /\ flight[follows[r]] # "pending"
    /\ follows' = [follows EXCEPT ![r] = NoRequest]
    /\ task' = [task EXCEPT ![r] = "send"]
    /\ result' = [result EXCEPT ![r] = flight[follows[r]]]
    /\ held' = held \ {r}
    /\ UNCHANGED <<credVars, cred, closure, permit, edgeVars, cancelled,
                   aborted, panicked>>

\* PasswordWaiter::wait returns a verdict, or asks for another election.
FollowerWakes(r) ==
    /\ task[r] = "follow"
    /\ flight[follows[r]] # "pending"
    /\ follows' = [follows EXCEPT ![r] = NoRequest]
    /\ IF flight[follows[r]] = "abandoned"
       THEN /\ task' = [task EXCEPT ![r] = "loop"]
            /\ UNCHANGED <<result, held>>
       ELSE /\ task' = [task EXCEPT ![r] = "send"]
            /\ result' = [result EXCEPT ![r] = flight[follows[r]]]
            /\ held' = held \ {r}
    /\ UNCHANGED <<credVars, cred, closure, permit, edgeVars, cancelled,
                   aborted, panicked>>

\* A leader gets its CPU permit and spawns the blocking closure.
AcquirePermit(r) ==
    /\ task[r] = "permit"
    /\ Cardinality(permit) < Permits
    /\ permit' = permit \cup {r}
    /\ closure' = [closure EXCEPT ![r] = "spawned"]
    /\ task' = [task EXCEPT ![r] = "join"]
    /\ UNCHANGED <<credVars, cred, follows, result, held, edgeVars,
                   cancelled, aborted, panicked>>

\* The closure ended: an HTTP/3 task returns without an outcome if the closure
\* was refused, an HTTP/2 request takes that for a rejection.
Join(r) ==
    /\ task[r] = "join"
    /\ closure[r] = "ended"
    /\ IF result[r] = "none" /\ ~IsHttp2(r)
       THEN /\ task' = [task EXCEPT ![r] = "done"]
            /\ UNCHANGED result
       ELSE /\ task' = [task EXCEPT ![r] = "send"]
            /\ result' = [result EXCEPT ![r] = IF @ = "true" THEN @ ELSE "false"]
    /\ UNCHANGED <<credVars, cred, follows, closure, slotVars, edgeVars,
                   cancelled, aborted, panicked>>

\* FAULT: the admission slots go with the task, not with the closure.
DropTaskWithSlots(r) ==
    /\ \/ /\ task[r] = "permit"
          /\ Abandoned(r)
          /\ task' = [task EXCEPT ![r] = "unwind"]
          /\ UNCHANGED <<follows, held>>
       \/ /\ task[r] \in {"loop", "follow", "join", "send"}
          /\ task' = [task EXCEPT ![r] = "done"]
          /\ follows' = [follows EXCEPT ![r] = NoRequest]
          /\ held' = held \ {r}
          /\ UNCHANGED <<in_flight, flight>>
    /\ cancelled' = cancelled \cup {r}
    /\ UNCHANGED <<current, success, cred, closure, result, permit>>

\* The future is dropped at an await: a leader abandons its flight, the
\* cancellation flag is set, and the slots are returned unless the closure has
\* them.
DropTask(r) ==
    /\ \/ /\ task[r] = "permit"
          /\ Abandoned(r)
          /\ task' = [task EXCEPT ![r] = "unwind"]
          /\ UNCHANGED <<follows, held>>
       \/ /\ task[r] \in {"loop", "follow"}
          /\ task' = [task EXCEPT ![r] = "done"]
          /\ follows' = [follows EXCEPT ![r] = NoRequest]
          /\ held' = held \ {r}
          /\ UNCHANGED <<in_flight, flight>>
       \/ /\ task[r] \in {"join", "send"}
          /\ task' = [task EXCEPT ![r] = "done"]
          /\ UNCHANGED <<in_flight, flight, follows, held>>
    /\ cancelled' = cancelled \cup {r}
    /\ UNCHANGED <<current, success, cred, closure, result, permit>>

\* FAULT: the slots of an aborted leader are lost.
UnwindLeaking(r) ==
    /\ task[r] = "unwind"
    /\ task' = [task EXCEPT ![r] = "done"]
    /\ UNCHANGED <<credVars, cred, follows, closure, result, slotVars, edgeVars,
                   cancelled, aborted, panicked>>

\* The last thing a dropped leader task gives back.
Unwind(r) ==
    /\ task[r] = "unwind"
    /\ task' = [task EXCEPT ![r] = "done"]
    /\ held' = held \ {r}
    /\ UNCHANGED <<credVars, cred, follows, closure, result, permit, edgeVars,
                   cancelled, aborted, panicked>>

\* The runtime drops an aborted task.
AbortTask(r) ==
    /\ r \in aborted
    /\ DropTask(r)
    /\ answer' = [answer EXCEPT ![r] = IF @ = "none" THEN "dropped" ELSE @]
    /\ UNCHANGED <<awaiting, outcomes, deadline, conn, aborted, panicked>>

-----------------------------------------------------------------------------
(* The blocking closure of a leader.                                       *)

\* Work cancelled before it started is refused: the slots and the permit go
\* first, the captured leader after them.
ClosureStart(r) ==
    /\ closure[r] = "spawned"
    /\ IF r \in cancelled
       THEN /\ closure' = [closure EXCEPT ![r] = "refused"]
            /\ held' = held \ {r}
            /\ permit' = permit \ {r}
       ELSE /\ closure' = [closure EXCEPT ![r] = "hashing"]
            /\ UNCHANGED slotVars
    /\ UNCHANGED <<credVars, cred, task, follows, result, edgeVars, cancelled,
                   aborted, panicked>>

\* BasicCredential::verify: Argon2, then the success cache.
Verify(r) ==
    /\ closure[r] = "hashing"
    /\ closure' = [closure EXCEPT ![r] = "hashed"]
    /\ result' = [result EXCEPT ![r] = Verdict(r)]
    /\ success' = IF Correct(r)
                  THEN [success EXCEPT ![cred[r]] = PasswordOf[r]] ELSE success
    /\ UNCHANGED <<current, in_flight, flight, cred, task, follows, slotVars,
                   edgeVars, cancelled, aborted, panicked>>

\* PasswordLeader::verify publishes the verdict to the followers.
Publish(r) ==
    /\ closure[r] = "hashed"
    /\ closure' = [closure EXCEPT ![r] = "published"]
    /\ flight' = [flight EXCEPT ![r] = result[r]]
    /\ UNCHANGED <<current, success, in_flight, cred, task, follows, result,
                   slotVars, edgeVars, cancelled, aborted, panicked>>

\* Argon2 panics: the leader is dropped unfinished, the join error is a
\* rejection of this request alone.
Panic(r) ==
    /\ closure[r] = "hashing"
    /\ closure' = [closure EXCEPT ![r] = "dropped"]
    /\ Abandoned(r)
    /\ result' = [result EXCEPT ![r] = "false"]
    /\ panicked' = panicked \cup {r}
    /\ UNCHANGED <<current, success, cred, task, follows, slotVars, edgeVars,
                   cancelled, aborted>>

\* PasswordLeader::drop in the closure.
LeaderDrop(r) ==
    /\ \/ /\ closure[r] = "published"
          /\ closure' = [closure EXCEPT ![r] = "dropped"]
          /\ in_flight' = Unregistered(r)
          /\ UNCHANGED flight
       \/ /\ closure[r] = "refused"
          /\ closure' = [closure EXCEPT ![r] = "ended"]
          /\ Abandoned(r)
    /\ UNCHANGED <<current, success, cred, task, follows, result, slotVars,
                   edgeVars, cancelled, aborted, panicked>>

ClosureEnd(r) ==
    /\ closure[r] = "dropped"
    /\ closure' = [closure EXCEPT ![r] = "ended"]
    /\ held' = held \ {r}
    /\ permit' = permit \ {r}
    /\ UNCHANGED <<credVars, cred, task, follows, result, edgeVars, cancelled,
                   aborted, panicked>>

-----------------------------------------------------------------------------
(* Arrival of a request: precheck, then admission.                         *)

\* What the cheap half says of a request, with the credentials installed now.
Rejected(r) == Accepts[current] = NoPassword

Cached(r) == ~Rejected(r) /\ success[current] = PasswordOf[r]

\* auth_source_admissions and auth_queue_slots both have room.
Admitted(r) ==
    /\ Cardinality({q \in held : SourceOf[ConnOf[q]] = SourceOf[ConnOf[r]]}) < SourceSlots
    /\ Cardinality(held) < QueueSlots

Answer(r, how) == answer' = [answer EXCEPT ![r] = how]

\* The verification task of an admitted request starts.
Spawn(r) ==
    /\ task' = [task EXCEPT ![r] = "loop"]
    /\ cred' = [cred EXCEPT ![r] = current]
    /\ held' = held \cup {r}

\* A request that never gets a task of its own.
NoTask(r) ==
    /\ task' = [task EXCEPT ![r] = "done"]
    /\ UNCHANGED <<cred, held>>

\* The precheck answers by itself: the installed set accepts no password for
\* this user.
RejectedAtOnce(r) ==
    /\ Rejected(r)
    /\ task' = [task EXCEPT ![r] = "done"]
    /\ cred' = [cred EXCEPT ![r] = current]
    /\ Answer(r, "rejected")
    /\ UNCHANGED held

\* A CONNECT request on an HTTP/3 connection: handle_request and, for a
\* password that has to be verified, spawn_auth_verifications.
Http3Request(r) ==
    LET c == ConnOf[r]
    IN  /\ task[r] = "new" /\ ~IsHttp2(r)
        /\ conn[c] = "open" /\ deadline[c] # "due"
        /\ \/ /\ RejectedAtOnce(r)
              /\ UNCHANGED <<awaiting, deadline>>
           \/ /\ Cached(r)
              /\ task' = [task EXCEPT ![r] = "done"]
              /\ cred' = [cred EXCEPT ![r] = current]
              /\ \/ deadline' = [deadline EXCEPT ![c] = "none"] /\ Answer(r, "granted")
                 \/ /\ deadline[c] = "armed"   \* the deadline passed since the poll began
                    /\ deadline' = [deadline EXCEPT ![c] = "due"]
                    /\ Answer(r, "dropped")
              /\ UNCHANGED <<held, awaiting>>
           \/ /\ ~Rejected(r) /\ ~Cached(r)
              /\ \/ Cardinality({q \in awaiting : ConnOf[q] = c}) >= PerConnection
                 \/ ~Admitted(r)
              /\ NoTask(r) /\ Answer(r, "refused")
              /\ UNCHANGED <<awaiting, deadline>>
           \/ /\ ~Rejected(r) /\ ~Cached(r)
              /\ Cardinality({q \in awaiting : ConnOf[q] = c}) < PerConnection
              /\ Admitted(r)
              /\ Spawn(r)
              /\ awaiting' = awaiting \cup {r}
              /\ UNCHANGED <<deadline, answer>>
        /\ UNCHANGED <<credVars, follows, closure, result, permit, outcomes,
                       conn, cancelled, aborted, panicked>>

\* A CONNECT request on an HTTP/2 connection: authorize_request up to the
\* verification.
Http2Request(r) ==
    LET c == ConnOf[r]
        slots == Cardinality({q \in held : ConnOf[q] = c})
    IN  /\ task[r] = "new" /\ IsHttp2(r)
        /\ conn[c] = "open"
        /\ \/ /\ RejectedAtOnce(r)
              /\ UNCHANGED result
           \/ /\ Cached(r)
              /\ task' = [task EXCEPT ![r] = "send"]
              /\ cred' = [cred EXCEPT ![r] = current]
              /\ result' = [result EXCEPT ![r] = "true"]
              /\ UNCHANGED <<held, answer>>
           \/ /\ ~Rejected(r) /\ ~Cached(r)
              /\ slots >= PerConnection \/ ~Admitted(r)
              /\ NoTask(r) /\ Answer(r, "refused")
              /\ UNCHANGED result
           \/ /\ ~Rejected(r) /\ ~Cached(r)
              /\ slots < PerConnection /\ Admitted(r)
              /\ Spawn(r)
              /\ UNCHANGED <<result, answer>>
        /\ UNCHANGED <<credVars, follows, closure, permit, awaiting, outcomes,
                       deadline, conn, cancelled, aborted, panicked>>

-----------------------------------------------------------------------------
(* Resumption of the request, and the events that race with it.            *)

\* Dropping entries of awaiting_auth cancels and aborts their tasks, and the
\* streams go unanswered.
DropAwaiting(R) ==
    /\ awaiting' = awaiting \ R
    /\ cancelled' = cancelled \cup R
    /\ aborted' = aborted \cup R
    /\ answer' = [r \in Requests |->
            IF r \in R /\ answer[r] = "none" THEN "dropped" ELSE answer[r]]

AwaitingOn(c) == {r \in awaiting : ConnOf[r] = c}

\* The task hands its outcome to the shard.
SendOutcome(r) ==
    /\ task[r] = "send" /\ ~IsHttp2(r)
    /\ Len(outcomes) < ResultQueue
    /\ outcomes' = Append(outcomes, r)
    /\ task' = [task EXCEPT ![r] = "done"]
    /\ UNCHANGED <<credVars, cred, follows, closure, result, slotVars, awaiting,
                   deadline, conn, answer, cancelled, aborted, panicked>>

\* ClientConnection::expire_first_auth, when the deadline is due.
ExpireFirstAuth(c) ==
    /\ deadline' = [deadline EXCEPT ![c] = "none"]
    /\ conn' = [conn EXCEPT ![c] = "closed"]
    /\ DropAwaiting(AwaitingOn(c))

\* FAULT: an outcome is applied whether or not the stream still waits for it.
ResumeAnyway(r) ==
    /\ awaiting' = awaiting \ {r}
    /\ cancelled' = cancelled \cup {r}
    /\ aborted' = aborted \cup {r}
    /\ IF result[r] = "true"
       THEN /\ deadline' = [deadline EXCEPT ![ConnOf[r]] = "none"]
            /\ Answer(r, "granted")
       ELSE /\ Answer(r, "rejected")
            /\ UNCHANGED deadline
    /\ UNCHANGED conn

\* The stream of the outcome still waits: its entry goes, the request is
\* dispatched or rejected.
Resume(r) ==
    /\ awaiting' = awaiting \ {r}
    /\ cancelled' = IF r \in awaiting THEN cancelled \cup {r} ELSE cancelled
    /\ aborted' = IF r \in awaiting THEN aborted \cup {r} ELSE aborted
    /\ IF r \in awaiting /\ result[r] = "true"
       THEN /\ deadline' = [deadline EXCEPT ![ConnOf[r]] = "none"]
            /\ Answer(r, "granted")
       ELSE /\ IF r \in awaiting THEN Answer(r, "rejected") ELSE UNCHANGED answer
            /\ UNCHANGED deadline
    /\ UNCHANGED conn

HandleAuthResult ==
    /\ outcomes # << >>
    /\ outcomes' = Tail(outcomes)
    /\ LET r == Head(outcomes)
           c == ConnOf[r]
       IN  \/ /\ conn[c] # "open"
              /\ UNCHANGED <<awaiting, deadline, conn, answer, cancelled, aborted>>
           \/ /\ conn[c] = "open" /\ deadline[c] = "due"
              /\ ExpireFirstAuth(c)
           \/ /\ conn[c] = "open" /\ deadline[c] # "due"
              /\ Resume(r)
    /\ UNCHANGED <<credVars, taskVars, slotVars, panicked>>

\* The HTTP/2 request task goes on: the first success has to beat the deadline.
Http2Answer(r) ==
    LET c == ConnOf[r]
    IN  /\ task[r] = "send" /\ IsHttp2(r)
        /\ task' = [task EXCEPT ![r] = "done"]
        /\ \/ /\ result[r] = "false"
              /\ Answer(r, "rejected")
              /\ UNCHANGED deadline
           \/ /\ result[r] = "true" /\ deadline[c] = "due"
              /\ Answer(r, "dropped")
              /\ UNCHANGED deadline
           \/ /\ result[r] = "true" /\ deadline[c] # "due"
              /\ Answer(r, "granted")
              /\ deadline' = [deadline EXCEPT ![c] = "none"]
        /\ UNCHANGED <<credVars, cred, follows, closure, result, slotVars,
                       awaiting, outcomes, conn, cancelled, aborted, panicked>>

\* The client resets the stream of a request that waits for its verdict.
Http3Reset(r) ==
    /\ r \in awaiting /\ conn[ConnOf[r]] = "open"
    /\ DropAwaiting({r})
    /\ UNCHANGED <<credVars, taskVars, slotVars, outcomes, deadline, conn, panicked>>

Http2Reset(r) ==
    /\ IsHttp2(r)
    /\ task[r] \in {"loop", "follow", "permit", "join"}
    /\ DropTask(r)
    /\ Answer(r, "dropped")
    /\ UNCHANGED <<awaiting, outcomes, deadline, conn, aborted, panicked>>

\* Time passes the deadline for the first authentication of a connection.
DeadlinePasses(c) ==
    /\ deadline[c] = "armed" /\ conn[c] = "open"
    /\ deadline' = [deadline EXCEPT ![c] = "due"]
    /\ UNCHANGED <<credVars, taskVars, slotVars, awaiting, outcomes, conn,
                   answer, cancelled, aborted, panicked>>

\* The shard's timer, or its next poll of the connection.
Http3Deadline(c) ==
    /\ c \notin Http2 /\ conn[c] = "open" /\ deadline[c] = "due"
    /\ ExpireFirstAuth(c)
    /\ UNCHANGED <<credVars, taskVars, slotVars, outcomes, panicked>>

\* serve() ends an HTTP/2 connection: the deadline found nothing verified, or
\* the peer or a drain closed it.  All its request tasks are aborted.
Http2Close(c) ==
    /\ c \in Http2 /\ conn[c] = "open"
    /\ conn' = [conn EXCEPT ![c] = "gone"]
    /\ aborted' = aborted \cup {r \in Requests : ConnOf[r] = c}
    /\ UNCHANGED <<credVars, taskVars, slotVars, awaiting, outcomes, deadline,
                   answer, cancelled, panicked>>

\* An HTTP/3 connection fails locally, and later the shard reaps it.
Http3Close(c) ==
    /\ c \notin Http2 /\ conn[c] = "open"
    /\ conn' = [conn EXCEPT ![c] = "closed"]
    /\ UNCHANGED <<credVars, taskVars, slotVars, awaiting, outcomes, deadline,
                   answer, cancelled, aborted, panicked>>

Http3Reap(c) ==
    /\ c \notin Http2 /\ conn[c] # "gone"
    /\ conn' = [conn EXCEPT ![c] = "gone"]
    /\ DropAwaiting(AwaitingOn(c))
    /\ UNCHANGED <<credVars, taskVars, slotVars, outcomes, deadline, panicked>>

\* SharedBasicAuthenticator::replace.
Replace ==
    /\ current < MaxReloads
    /\ current' = current + 1
    /\ UNCHANGED <<success, in_flight, flight, taskVars, slotVars, edgeVars,
                   cancelled, aborted, panicked>>

\* SUCCESS_CACHE_TTL runs out.
CacheExpires(g) ==
    /\ success[g] # NoPassword
    /\ success' = [success EXCEPT ![g] = NoPassword]
    /\ UNCHANGED <<current, in_flight, flight, taskVars, slotVars, edgeVars,
                   cancelled, aborted, panicked>>

-----------------------------------------------------------------------------
TaskNext(r) ==
    \/ Begin(r) \/ FollowerWakes(r) \/ AcquirePermit(r) \/ Join(r)
    \/ SendOutcome(r) \/ Http2Answer(r) \/ AbortTask(r) \/ Unwind(r)

ClosureNext(r) ==
    \/ ClosureStart(r) \/ Verify(r) \/ Publish(r) \/ Panic(r)
    \/ LeaderDrop(r) \/ ClosureEnd(r)

ClientNext(r) ==
    Http3Request(r) \/ Http2Request(r) \/ Http3Reset(r) \/ Http2Reset(r)

ConnNext(c) ==
    \/ DeadlinePasses(c) \/ Http3Deadline(c)
    \/ Http2Close(c) \/ Http3Close(c) \/ Http3Reap(c)

Next ==
    \/ \E r \in Requests : TaskNext(r) \/ ClosureNext(r) \/ ClientNext(r)
    \/ \E c \in Conns : ConnNext(c)
    \/ HandleAuthResult
    \/ Replace
    \/ \E g \in Gens : CacheExpires(g)

Spec == Init /\ [][Next]_vars

\* The runtime polls every task and runs every blocking closure, the semaphore
\* is first come first served, and the shard drains its queue and its timers.
Fairness ==
    /\ \A r \in Requests : WF_vars(TaskNext(r)) /\ WF_vars(ClosureNext(r))
    /\ WF_vars(HandleAuthResult)
    /\ \A c \in Conns : WF_vars(Http3Deadline(c))

FairSpec == Spec /\ Fairness

-----------------------------------------------------------------------------
(* Properties.                                                             *)

\* A request is granted only if its password is the one of the credential set
\* it was prechecked against, through the cache, a flight it joined, a new
\* election, or a reload while Argon2 ran.  A rejection means a wrong password,
\* an unknown user, or a panic in the request's own closure: the cancellation or
\* the panic of the leader a request followed never rejects it.
VerdictOfSnapshot ==
    \A r \in Requests :
        /\ answer[r] = "granted" => Correct(r)
        /\ answer[r] = "rejected" => ~Correct(r) \/ r \in panicked

\* Whoever waits for an undecided flight waits for a leader that exists and
\* that was elected for the same password and credential.
NoOrphan ==
    \A r \in Requests :
        task[r] = "follow" =>
            LET f == follows[r]
            IN  /\ f \in Requests
                /\ cred[f] = cred[r] /\ PasswordOf[f] = PasswordOf[r]
                /\ flight[f] = "pending" => Leading(f)

\* One Argon2 run per password and credential at a time, as long as the
\* registry cannot fill up.
SingleFlight ==
    Cardinality(Requests) <= MaxInFlight =>
        \A r, s \in Requests :
            Leading(r) /\ Leading(s) /\ cred[r] = cred[s]
                /\ PasswordOf[r] = PasswordOf[s] => r = s

\* Argon2 runs only under a permit and with the admission slots of its request,
\* whatever has become of the request meanwhile.
HashingAdmitted ==
    /\ \A r \in Requests :
        closure[r] \in {"spawned", "hashing", "hashed", "published", "dropped"}
            => r \in held /\ r \in permit
    /\ Cardinality(permit) <= Permits
    /\ \A c \in Conns :
        Cardinality({r \in held : SourceOf[ConnOf[r]] = SourceOf[c]}) <= SourceSlots

RegistrationStep ==
    \A r \in Requests :
        in_flight[cred[r]][PasswordOf[r]] = r /\ Leading(r) /\ Leading(r)'
            => in_flight'[cred[r]][PasswordOf[r]] = r

\* A leader that registered its flight stays registered until it is dropped:
\* the end of an unregistered leader of the same password does not erase it.
RegistrationKept == [][RegistrationStep]_vars

AnswerStep ==
    /\ \A r \in Requests : answer[r] # "none" => answer'[r] = answer[r]
    /\ \A r \in Requests :
        answer'[r] = "granted" /\ answer[r] # "granted"
            => deadline[ConnOf[r]] # "due"

\* A request is answered once, so nothing is dispatched for a stream that was
\* reset or whose connection gave up on it, and never after the deadline for
\* the first authentication.
AnsweredOnce == [][AnswerStep]_vars

\* Every request that arrived is answered in the end, or its connection closes.
EventuallyAnswered ==
    \A r \in Requests :
        task[r] # "new" ~> answer[r] # "none" \/ conn[ConnOf[r]] # "open"

\* All slots and permits are given back.
SlotsReturned == <>[](held = {} /\ permit = {})
=============================================================================
