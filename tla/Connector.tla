----------------------------- MODULE Connector -----------------------------
(***************************************************************************)
(* Connector.Connect (internal/protocol/connector.go): one call that looks  *)
(* for the leader, while leadership moves, servers stop and the context     *)
(* may expire between any two of its network operations.                    *)
(***************************************************************************)
EXTENDS Integers, Sequences, FiniteSets, Functions

CONSTANTS Server, NoServer,
          Store,          \* the node store: server -> rank of its role
          Legacy,         \* servers that speak the pre-1.0 protocol only
          RetryLimits,    \* values of Config.RetryLimit
          BackoffFactor, BackoffCap,
          Width,          \* bits of a time.Duration
          MaxAttempts,    \* bound: where the attempt counter saturates
          MaxElections,   \* bound: elections
          MaxFails        \* bound: servers that stop

ASSUME ConnectorAssumption ==
  /\ IsFiniteSet(Server) /\ NoServer \notin Server /\ "failed" \notin Server
  /\ DOMAIN Store \subseteq Server /\ \A s \in DOMAIN Store : Store[s] \in 0..2
  /\ Legacy \subseteq Server
  /\ RetryLimits \subseteq Nat
  /\ {MaxElections, MaxFails} \subseteq Nat
  /\ {BackoffFactor, BackoffCap, Width, MaxAttempts} \subseteq Nat \ {0}

\* The defaults of NewConnector meet it: 100ms, 1s and 64 bits.
ASSUME BackoffAssumption == BackoffFactor * BackoffCap < 2^(Width - 1)

VARIABLES leader, belief, up,         \* the cluster
          led,                        \* who has believed to lead during the call
          elections, fails,           \* what the bounds count
          calm,                       \* leadership and the network are stable
          ctxDone,                    \* ctx.Done() is closed
          limit,                      \* Config.RetryLimit
          pc, attempt, delay,         \* Connect and the retry loop
          todo, target, version,      \* connectAttemptAll
          first,                      \* the target comes from the store
          open,                       \* our connections that are open
          protocol                    \* the variable protocol of Connect

cluster == <<leader, belief, up, led, elections, fails, calm>>
retry   == <<attempt, delay, limit>>
vars    == <<cluster, ctxDone, pc, retry, todo, target, version, first, open, protocol>>

PC == {"retry", "servers", "next", "dial", "leader", "client", "backoff",
       "check", "connected", "failed", "panic"}
-----------------------------------------------------------------------------
(* The cluster.                                                            *)

\* A server that is elected knows; the others learn of it one by one.
Elect(s) ==
  /\ s \in up /\ s # leader /\ elections < MaxElections /\ ~calm
  /\ leader' = s /\ led' = led \cup {s}
  /\ belief' = [belief EXCEPT ![s] = s]
  /\ elections' = elections + 1
  /\ UNCHANGED <<up, fails, calm, ctxDone, pc, retry, todo, target, version, first, open, protocol>>

Learn(s) ==
  /\ s \in up /\ belief[s] # leader
  /\ \E b \in {leader, NoServer} : belief' = [belief EXCEPT ![s] = b]
  /\ UNCHANGED <<leader, up, led, elections, fails, calm, ctxDone, pc, retry, todo, target,
                 version, first, open, protocol>>

Fail(s) ==
  /\ s \in up /\ s # leader /\ fails < MaxFails /\ ~calm
  /\ up' = up \ {s} /\ fails' = fails + 1
  /\ belief' = [belief EXCEPT ![s] = NoServer]
  /\ UNCHANGED <<leader, led, elections, calm, ctxDone, pc, retry, todo, target, version,
                 first, open, protocol>>

\* From now on the leader stays, and the network loses nothing.
Calm ==
  /\ ~calm /\ calm' = TRUE
  /\ UNCHANGED <<leader, belief, up, led, elections, fails, ctxDone, pc, retry, todo, target,
                 version, first, open, protocol>>

\* The caller's context is cancelled or expires.
Expire ==
  /\ ~ctxDone /\ ctxDone' = TRUE
  /\ UNCHANGED <<cluster, pc, retry, todo, target, version, first, open, protocol>>
-----------------------------------------------------------------------------
(* The retry loop.                                                         *)

\* backoff.BinaryExponential(factor)(n), in a signed integer of Width bits.  Where
\* the power itself does not fit, the result depends on the platform and is
\* never positive.
BinaryExponential(factor, n) ==
  LET wrapped == (factor * 2^n) % 2^Width
  IN  IF wrapped >= 2^(Width - 1) THEN wrapped - 2^Width ELSE wrapped

\* Mutant of the next definition: no cap.
backoffDurationUncapped(n) ==
  LET duration == BinaryExponential(BackoffFactor, n)
  IN  IF duration <= 0 THEN BackoffCap ELSE duration

\* The time to sleep before attempt n.
backoffDuration(n) ==
  LET duration == BinaryExponential(BackoffFactor, n)
  IN  IF duration > BackoffCap \/ duration <= 0 THEN BackoffCap ELSE duration

\* Mutant of Attempt: the context is not looked at.
AttemptAlways ==
  /\ pc = "retry" /\ pc' = "servers"
  /\ UNCHANGED <<cluster, ctxDone, retry, todo, target, version, first, open, protocol>>

\* The function handed to retry.Retry: no attempt once the context is done.
Attempt ==
  /\ pc = "retry"
  /\ pc' = IF ctxDone THEN "check" ELSE "servers"
  /\ UNCHANGED <<cluster, ctxDone, retry, todo, target, version, first, open, protocol>>

\* An attempt has failed: the strategies decide whether there is another one.
Backoff ==
  /\ pc = "backoff"
  /\ \/ /\ limit > 0 /\ attempt >= limit
        /\ pc' = "failed"
        /\ UNCHANGED retry
     \/ /\ limit = 0 \/ attempt < limit
        /\ attempt' = IF attempt < MaxAttempts THEN attempt + 1 ELSE attempt
        /\ delay' = backoffDuration(attempt')
        /\ pc' = "retry" /\ UNCHANGED limit
  /\ UNCHANGED <<cluster, ctxDone, todo, target, version, first, open, protocol>>

\* After the loop.  A connection that was made is not closed when the context
\* is done by now.
Check ==
  /\ pc = "check"
  /\ pc' = IF ctxDone THEN "failed"
           ELSE IF protocol = NoServer THEN "panic" ELSE "connected"
  /\ UNCHANGED <<cluster, ctxDone, retry, todo, target, version, first, open, protocol>>
-----------------------------------------------------------------------------
(* connectAttemptAll.                                                      *)

\* The servers of the store, sorted by role.
sortedServers ==
  {s \in Injection(1..Cardinality(DOMAIN Store), DOMAIN Store) :
     \A i, j \in DOMAIN s : i < j => Store[s[i]] <= Store[s[j]]}

StoreGet ==
  /\ pc = "servers"
  /\ \/ todo' \in sortedServers /\ pc' = "next"
     \/ ~calm /\ pc' = "backoff" /\ UNCHANGED todo
  /\ protocol' = NoServer
  /\ UNCHANGED <<cluster, ctxDone, retry, target, version, first, open>>

\* The next server of the list, or none of them led to the leader.
NextServer ==
  /\ pc = "next"
  /\ IF todo = <<>>
     THEN pc' = "backoff" /\ UNCHANGED <<todo, target, version, first>>
     ELSE /\ pc' = "dial" /\ target' = Head(todo) /\ todo' = Tail(todo)
          /\ version' = "one" /\ first' = TRUE
  /\ UNCHANGED <<cluster, ctxDone, retry, open, protocol>>

\* Mutant of Redirect: the reported leader is not tried.
RedirectNever(s) == pc' = "next" /\ UNCHANGED <<target, first>>

\* Follow the hint of a server once, and only once.
Redirect(s) ==
  IF first THEN pc' = "dial" /\ target' = s /\ first' = FALSE
           ELSE pc' = "next" /\ UNCHANGED <<target, first>>

\* errBadProtocol: try the same server with the legacy protocol, once.
Downgrade ==
  IF first /\ version = "one" THEN pc' = "dial" /\ version' = "legacy"
                              ELSE pc' = "next" /\ UNCHANGED version
-----------------------------------------------------------------------------
(* connectAttemptOne.                                                      *)

Close == open' = open \ {target}

\* An operation on the connection to the target times out or fails.
Broken == ~calm \/ ctxDone \/ target \notin up

Dial ==
  /\ pc = "dial"
  /\ \/ /\ target \in up /\ ~ctxDone
        /\ open' = open \cup {target} /\ pc' = "leader"
     \/ Broken /\ pc' = "next" /\ UNCHANGED open
  /\ UNCHANGED <<cluster, ctxDone, retry, todo, target, version, first, protocol>>

\* Mutant of LeaderAnswer: a server reported to be the leader is not asked again.
LeaderAnswerTrust ==
  /\ pc = "leader" /\ target \in up
  /\ target \in Legacy => version = "legacy"
  /\ \/ /\ belief[target] = NoServer
        /\ Close /\ pc' = "next" /\ UNCHANGED <<target, first>>
     \/ /\ belief[target] = target \/ (belief[target] # NoServer /\ ~first)
        /\ pc' = "client" /\ UNCHANGED <<open, target, first>>
     \/ /\ belief[target] \notin {NoServer, target} /\ first
        /\ Close /\ Redirect(belief[target])
  /\ UNCHANGED <<cluster, ctxDone, retry, todo, version, protocol>>

\* The target answers the Leader request.
LeaderAnswer ==
  /\ pc = "leader" /\ target \in up
  /\ target \in Legacy => version = "legacy"
  /\ \/ /\ belief[target] = NoServer
        /\ Close /\ pc' = "next" /\ UNCHANGED <<target, first>>
     \/ /\ belief[target] = target
        /\ pc' = "client" /\ UNCHANGED <<open, target, first>>
     \/ /\ belief[target] \notin {NoServer, target}
        /\ Close /\ Redirect(belief[target])
  /\ UNCHANGED <<cluster, ctxDone, retry, todo, version, protocol>>

\* The handshake or the Leader request fails; when the connection was closed on
\* us this is taken for a legacy server.
LeaderError ==
  /\ pc = "leader"
  /\ \/ Broken /\ pc' = "next" /\ UNCHANGED version
     \/ /\ ~calm \/ target \notin up \/ (target \in Legacy /\ version = "one")
        /\ Downgrade
  /\ Close
  /\ UNCHANGED <<cluster, ctxDone, retry, todo, target, first, protocol>>

\* Register with the leader.
ClientAnswer ==
  /\ pc = "client" /\ target \in up
  /\ protocol' = target /\ pc' = "check"
  /\ UNCHANGED <<cluster, ctxDone, retry, todo, target, version, first, open>>

\* Mutant of ClientError: the connection is left open.
ClientErrorOpen ==
  /\ pc = "client" /\ Broken /\ pc' = "next"
  /\ UNCHANGED <<cluster, ctxDone, retry, todo, target, version, first, open, protocol>>

ClientError ==
  /\ pc = "client" /\ Broken
  /\ Close /\ pc' = "next"
  /\ UNCHANGED <<cluster, ctxDone, retry, todo, target, version, first, protocol>>
-----------------------------------------------------------------------------
Init ==
  /\ leader \in Server /\ up = Server
  /\ belief \in [Server -> Server \cup {NoServer}] /\ belief[leader] = leader
  /\ led = {s \in Server : belief[s] = s}
  /\ elections = 0 /\ fails = 0 /\ calm = FALSE /\ ctxDone = FALSE
  /\ limit \in RetryLimits /\ pc = "retry" /\ attempt = 0 /\ delay = 0
  /\ todo = <<>> /\ target = NoServer /\ version = "one" /\ first = TRUE
  /\ open = {} /\ protocol = NoServer

Connect ==
  \/ Attempt \/ Backoff \/ Check \/ StoreGet \/ NextServer \/ Dial
  \/ LeaderAnswer \/ LeaderError \/ ClientAnswer \/ ClientError

Next ==
  \/ Connect \/ Expire \/ Calm
  \/ \E s \in Server : Elect(s) \/ Learn(s) \/ Fail(s)

Spec == Init /\ [][Next]_vars

\* Connect runs on, and every server hears of the leader sooner or later.
FairSpec ==
  /\ Spec /\ WF_vars(Connect)
  /\ \A s \in Server : WF_vars(Learn(s) /\ belief'[s] = leader)
-----------------------------------------------------------------------------
(* Properties.                                                             *)

\* The values the variables may take; of delay, BackoffExact says more.
TypeOK ==
  /\ leader \in Server /\ led \subseteq Server /\ up \subseteq Server
  /\ belief \in [Server -> Server \cup {NoServer}]
  /\ elections \in Nat /\ fails \in Nat /\ calm \in BOOLEAN /\ ctxDone \in BOOLEAN
  /\ limit \in RetryLimits /\ pc \in PC /\ attempt \in Nat
  /\ todo \in Seq(Server) /\ target \in Server \cup {NoServer}
  /\ version \in {"one", "legacy"} /\ first \in BOOLEAN
  /\ open \subseteq Server /\ protocol \in Server \cup {NoServer}

\* Whatever fails on the way, Connect has one connection open at a time, returns
\* with exactly the one it hands out, and with none when it returns an error,
\* unless it is the context that made it return (connector.go:102-104).
NoStrayConnection ==
  /\ Cardinality(open) <= 1
  /\ pc \in {"backoff", "servers"} => open = {}
  /\ pc = "connected" => open = {protocol}
  /\ pc = "failed" /\ ~ctxDone => open = {}

\* The pause doubles with every attempt until it reaches its cap, and stays
\* there when the exponential overflows (connector.go:313-321).
BackoffExact ==
  delay = IF attempt = 0 THEN 0
          ELSE IF BackoffFactor * 2^attempt > BackoffCap THEN BackoffCap
          ELSE BackoffFactor * 2^attempt

\* Once the leader stays, and unless the context or the limit on retries ends the
\* search, it is found, although the store knows only some servers and
\* their answers may be out of date (connector.go:129-186).
Connects ==
  calm ~> pc = "connected" \/ ctxDone \/ (limit > 0 /\ pc = "failed")

\* Once the context is done Connect returns (connector.go:80-85).
ReturnsWhenDone == ctxDone ~> pc \in {"connected", "failed"}

\* Connect is a search for the leader as its callers understand it.
Search == INSTANCE LeaderSearch WITH
            limited <- limit > 0,
            done    <- ctxDone,
            answer  <- IF pc = "connected" THEN {protocol}
                       ELSE IF pc \in {"failed", "panic"} THEN {pc} ELSE {}

\* Connect implements LeaderSearch: what it returns has believed to be the leader
\* since the call began, it returns once, it gives up only when it may, and it never
\* reaches its panic (connector.go:64-114).
ImplementsSearch == Search!Spec
=============================================================================
