# A TLA+ model of go-dqlite

go-dqlite embeds a dqlite node (SQLite replicated with raft) in a Go program and
gives it a client, a `database/sql` driver and, in package `app`, an object that
looks after a node from its first start to its shutdown. This directory holds
TLA+ modules of the parts that run concurrently, that can fail half-way or that
work with old information, the TLC configurations that check them, and proofs
for TLAPS. `PROJECT.json` relates every definition to the lines it models, and
lists the runs, the findings, the hazards and the theorems.

## 1. The system

| Part | Source | State | Operations | Talks to |
|---|---|---|---|---|
| Role assignment | `app/roles.go` | none (pure) | `Assume`, `Handover`, `Adjust` | `App` |
| App, background loop | `app/app.go` | context, `readyCh`, join file, node store | `run`, `maybePromoteOurselves`, `maybeAdjustRoles`, `Ready` | leader, all nodes (probes) |
| App, shutdown | `app/app.go` | the call of `Handover` | `Handover`, `Close` | leader |
| App, start | `app/app.go`, `app/files.go` | `info.yaml`, `cluster.yaml`, the join file | `New` and its cleanups | node |
| Proxies | `app/proxy.go`, `app/dial.go` | connections, two goroutines each | `App.proxy`, `proxy`, accept loops | node, remote peers |
| Connector | `internal/protocol/connector.go` | retry counter, candidate servers | `Connect` and what it calls | servers, node store |
| Protocol | `internal/protocol/protocol.go` | mutex, `netErr`, connection | `Call`, `More`, `Interrupt`, `Close` | server |
| Messages | `internal/protocol/{message,request,response}.go` | one buffer per message, used again | encode, receive, decode, `Rows`, `Files` | Protocol |
| Driver | `driver/driver.go` | `Conn`, `Stmt`, `Rows`, `Tx` | the `database/sql/driver` interfaces | Protocol |
| Client | `client/client.go` | a Protocol | one request per method | leader |
| Node stores | `client/store.go`, `internal/protocol/store.go` | list of servers | `Get`, `Set` | Connector, App |
| Node, bindings | `node.go`, `internal/bindings` | C nodes, the registry of dial functions, one lock | `New`, `Start`, `Close`, `connectWithDial` | libdqlite |
| Shell, demo, benchmark, logging | `internal/shell`, `cmd`, `benchmark`, `logging` | | | |

What makes it hard:

* every node runs its own loop, and each decides on a cluster reply and on probes
  that are out of date when it acts; nothing but the leader serialises them;
* a request that fails may have been carried out;
* a process can crash between any two file operations, and a starting node may
  have been half added to the cluster;
* the leader moves while `Connect` looks for it, and its deadline passes at any
  moment;
* one connection carries requests one at a time, yet goroutines share it,
  deadlines pass while a response is on its way, rows arrive in parts and are
  closed early, and `database/sql` retries what may have been executed;
* the buffers of a connection are used again and still hold earlier messages, and
  responses arrive in pieces;
* proxies end in four different ways, in any order;
* all nodes of a process share one lock and one registry, and the C library calls back
  into Go while nodes are created and closed.

The hazards in `PROJECT.json` list these at the lines where they bite.

## 2. The modules

| Module | Models | Uses |
|---|---|---|
| `RolesChanges` | `app/roles.go` | |
| `App` | `run`, `Handover`, `Close`, `Ready` of `app/app.go` on all nodes and one raft cluster | extends `RolesChanges` |
| `Startup` | `app.New`, `app/files.go`, `YamlNodeStore` | |
| `Proxy` | `app/proxy.go`, `app/dial.go`, the accept loops and `Close` of `app/app.go` | |
| `LeaderSearch` | abstract: what `Connect` promises | |
| `Connector` | `internal/protocol/connector.go` | implements `LeaderSearch` |
| `Session` | `Protocol`, the driver and the client over one connection | |
| `WireFormat` | the types, fields and bytes of requests and responses | |
| `Message` | `message.go`, `request.go`, `response.go`, `send` and `recv`, the `Rows` of the driver | extends `WireFormat` |
| `Bindings` | `node.go`, `internal/bindings/server.go` | |
| `RolesProofs`, `AppProofs`, `MembershipProofs` | theorems about the App objects | extend `RolesChanges`, `App` |
| `ConnectorProofs` | theorems about `Connector` | extends `Connector` |
| `NodeProofs` | theorems about one process: `New`, the binding and the proxies | extends `Startup`, `Bindings`, `Proxy` |
| `SessionInvariant`, `SessionProofs` | the inductive invariant of `Session` with the lemmas about the server and the callers that come and go; the other steps and the theorems about the wire | extends `Session`; extends `SessionInvariant` |
| `SessionTruth` | theorems about what is reported of writes and transactions | extends `SessionProofs` |
| `MC*` | instances for TLC | |

### RolesChanges

The functions of `RolesChanges` as operators on a record: the role of each node in
the cluster reply, the online ones, their metadata. A candidate list is a sequence;
where the code iterates over a Go map or sorts with a sort that is not stable, the
operator is the set of all lists that may come out. `Balanced` says, independently of
`Adjust`, when there is nothing left to adjust.

### App

| Variable | In the code |
|---|---|
| `conf`, `leader`, `up` | the raft cluster (external): configuration, leader, running nodes |
| `joinFile`, `store` | the join file and `cluster.yaml` of each node |
| `app[n]` | the `App` of node `n`: where `run` is, its client, the `join` and `ready` flags, the last cluster reply and probes, the change it is making, `readyCh`, the cancelled context |
| `ho[n]` | the call of `Handover` on node `n` |
| `elections`, `stops` | counted for the bounds |

Each network request is one action, so that anything may happen between two of
them. `RunX` actions are `run` and the two functions it calls, `HoX` actions are
`Handover`; `XError` is the error return of a request. When `Flaky` is set requests fail,
and one that fails may have taken effect; the join file may resist its removal, and
`cluster.yaml` its update, an error that `run` drops. A probe may miss a running node when
`SlowProbes` is set. Adding the node (`RunAdd`) and removing its join file (`RunRemove`) are two
steps, with a crash between them. `CloseStop` and `CloseNode` are `Close`, `Start` is the part of
`New` that sets up `run`; what `New` does to the files is in `Startup`.

The cluster is modelled as the client sees it: `Assign`, `Add` and `Transfer`
succeed only on the leader and with a quorum, an assignment of the role a node
already has is refused, a leader that loses its vote steps down, and an election
picks any running voter when there is a quorum.

### Startup

The reads and writes of `New` in their order, each of which may fail, followed by the
cleanups in reverse order, which may fail too; crashes between any two; and, once the
node runs, the addition to the cluster and the removal of the join file by `run`.
`info` holds whether the ID is the bootstrap ID or a generated one, since that
decides whether the node has to join. `store` is the number of the list of nodes in
`cluster.yaml`, 0 if there is none; `YamlNodeStore.Set` writes the file (`SetWrite`) and then
publishes the list to readers (`SetPublish`), which the ghost `known` notes. The ghost `past`
notes what has happened to the directory: calls with and without `WithCluster`, failed
removals, crashes. A node that could not be stopped is `"failed"`: `Node.Close` returns before it
destroys it, `Close` passes the error on, and the cleanup of `New` drops it. Only the process
crashes, and a rename is atomic.

### Proxy

`accept` is the goroutine `App.proxy`, `close` the progress of `App.Close`; for each
connection `call` is the call of `proxy`, `copy` its two goroutines, `sock` our ends of
the two sockets and `peer` the other ends. A remote peer may stop reading, half-close or
close at any moment. `mode` is chosen at the start and never changes: `Listening` is
`WithTLS` rather than `WithExternalConn`, `Dialled` are the connections the node makes, and
`Tcp` says whether `setKeepalive` and the half-close apply. `Accept` may fail at any time, which ends
the loop and cancels the connections it has accepted (`ctxDone`); a dial of the node that fails at
its second step leaves open what the first has opened (`NodeDialError`). A panic ends the process, and with
it every action.

### LeaderSearch and Connector

`Connector` is one call of `Connect` among servers whose belief about the leader lags
behind (`belief`), that stop, or that speak the legacy protocol only. Its actions are the
attempt loop of the retry library (external), the walk over the sorted servers, dialling,
the leader request and the redirect, and the registration. `open` holds the connections
that are open, `limit` the retry limit of the call. The backoff is computed in `Width`-bit
two's complement. Failures, stops and elections happen until the cluster becomes `calm`, which
it need not.

`LeaderSearch` says what the caller relies on: at most one answer, a connection only to
a server that has believed itself leader since the call began, an error only when the
context is done or retries are limited. `Search` is the instance with the mapping
`answer` = what `pc` and the connection say has been returned; a panic of `Connect` is an answer
that `LeaderSearch` does not have.

### Session

`pooled` says whether the connection is one of `database/sql` or that of a `Client` which
goroutines share. `conn` is `Protocol` together with `Conn`: mutex, `netErr`, whether the
transport is down, prepared statement and transaction; `out`, `in` and `srv` are the wire and the
server, `db` is what is open and durable in the database (external); `th` is what each goroutine
does. A client method is a `Call`; a statement, a query, a transaction and a prepared statement
are operations of `database/sql` (external), which drops bad connections and retries on
`driver.ErrBadConn`. A query is answered in parts, fetched with `More`, and `RowsClose`
interrupts one that is not finished, which it tells by the last byte of the buffer, whatever
response that byte is from (`LastByte`). Ghost variables note an
answer that is decoded by another operation, and collect what callers were told to be durable
(`sure`) and rolled back (`never`).

What is assumed of the environment: users of `database/sql` roll back a transaction in which
something has failed; a request in flight on a connection that breaks has been executed before or
never is. A `COMMIT` or `ROLLBACK` that the server refuses may leave the transaction open
(`db.tx = "left"`), although `database/sql` takes it for ended and uses the connection again; what
later users write into such a transaction is `db.doubt`. `database/sql` ignores the error of
`Stmt.Close`.

### WireFormat and Message

`WireFormat` says, without buffers or offsets, which bytes a request or a response is:
words in little-endian order, strings and blobs padded to words, tuples and rows with their
type codes, the header. `Message` is the code: one buffer (`msg.bytes`, `msg.off`), filled
by the `putX` functions, which make it grow, or by `RecvHeader` and `RecvBody` in pieces of
any size in `Chunks`, and read by the `getX` functions, the decoders of `response.go`, `Rows` and
`Files`. A panic of the code is a value of `msg.fault`. `todo` is what the server meant and has yet to be
read; `last` pairs what an operation gave with what it should have given. `Message` uses
the buffer again for every message, without clearing it, as the code does.

Widths are constants: `MaxUint8` is the 255 of the tuple format, `SizeBits` the 32 bits of a
message size. Strings hold no NUL, a file is a whole number of words, messages are smaller
than `2^SizeBits`, rows are closed before the next statement of the same connection, and the
server sends no part without rows except the last.

### Bindings

Any number of nodes in one process, each created, started, closed and created again. `registry`
stands for `connectRegistry` and `contextRegistry`: which life of which node a handle is for.
`connectLock` is held by `SetDialFunc`, and by `connectWithDial` for the whole of a dial;
`pc` is the owner of a node in `New`, `Start` or `Close`, `conn` the thread of the C library that
wants a connection for it. The C library is external: it dials when it likes
while its node runs, and `dqlite_node_stop` returns once it does not dial any more (`StopReturns`), which is a
promise of that library and not checked here. A dial function
returns when its context is done.

### Composition

`App` composes the role algorithm with all nodes' goroutines and the cluster, `Session`
composes `Protocol`, the driver and the client, and `Message` the codec, `recv` and the
driver's `Rows`. `Connector` and `LeaderSearch` justify the one-step `FindsLeader` of `App`,
`Session` the one-step requests, `Message` the one-step responses of `Session`, `Bindings` the one-step node of
`Startup`, and `Startup` the initial states of a starting node. They are not composed into one
state machine: the product is out of TLC's reach and adds no interaction that the parts do
not have.

## 3. The runs

`tlc -workers 2 -config <Run>.cfg <MC module>`; none takes more than three minutes.

| Run | Instance | Shows |
|---|---|---|
| Adjust | 5 nodes, two of them voters and the others of any role, at most one down; one adjusts roles and may be closed meanwhile | `Converges`: the loop of `maybeAdjustRoles` comes to rest in a balanced state; `CloseCompletes`: `Close` waits for `run` wherever it is, and completes |
| Races | 4 nodes: one calls `Handover` and closes, one crashes and starts again, one adjusts roles | `VotersFloor`: stale decisions cost no more voters than there were disturbances; `AdjustDemotesSafely`, `AdjustKeepsVoters` |
| TwoHandovers | 5 nodes, two `Handover` calls, an extra election | `HandoversKeepCount`: the number of voters holds at every moment |
| HandoverFlaky | 4 nodes, a `Handover` and `Close`, failures and lost replies | `HandoverKeepsVoters`, `HandoverReturns` |
| Form | 3 nodes, one or two of them voters and the others joining; the leader or a joining node crashes at any moment and starts again | `TypeOK`, `JoinFileKept`, `ReadyMeansJoined`, `ClusterForms`: three ready voters, if no node goes away |
| Connect | 3 servers, one unknown to the store and one legacy, one retry or retries without limit, a failure, an election, expiry | `NoStrayConnection`, `BackoffExact`, `ImplementsSearch` (no panic included), `Connects`, `ReturnsWhenDone` |
| Sessions | one goroutine of `database/sql` or two of a `Client`, 4 operations of all kinds, queries of up to 2 responses, one lost connection, one retry | `TypeOK`, `CleanWhenIdle`, `AnswersMatch`, `OneRequestAtATime`, `TellsTruth`, `CtxHonoured` |
| Restart | any calls of `New`, 3 lists of nodes, 3 errors, 2 crashes, failing removals | `StoreNotOlder`, `JoinPending`, `NoOrphanNode`, `RunningConsistent`, `Retryable` |
| Proxies | one connection, with every combination of options, failing dials and a failing `Accept` | `ReturnReleases`, `NodeClosedLast`, `ReturnsOnPeerClose`, `ReturnsOnCancel` |
| Messages | pairs of requests, and pairs of responses received in pieces of 5 bytes or at once | `NoPanic`, `RequestOnWire`, `DecodesMeaning`, `WholeReplies` |
| Bindings | 2 nodes, 3 calls of `New`, failures of every step | `OwnDial`, `ContextsEnd`, `CallsReturn` |

One run ends in a counterexample to a statement of the code's own comments (quoted
in `PROJECT.json`, findings):

| Run | Property | What the code does |
|---|---|---|
| TwoNodes | `HandoverHasSuccessor` | in a cluster of two, the leader demotes the node `Handover` has just promoted, and `Handover` then asks to demote the only voter, which raft may refuse |

### Known counterexamples

These formulas fail in the same modules, each with the configuration of the run
named and the changes given. They are kept here rather than as runs.

| Formula | Configuration | What the code does |
|---|---|---|
| `ho[n].pc = "done" => leader # n` | HandoverFlaky, no stops | a failed `Transfer` is forgotten unless it was for the last voter of the list, so `Handover` may return nil on a leader (`app.go:374`) |
| `app[n].readyCh => app[n].ready` | Form, `Closing` all nodes | `Ready` returns nil on an App that is closed before it has joined (`app.go:538`) |
| `[][RunPromote(n) => conf[n] # Voter]_vars` | Races | a starting node makes itself a stand-by when it has been made a voter meanwhile (`app.go:613`) |
| `VotersFloor` | Races, `n4` not yet a member and ticking | the same step of a node that joins: the leader has counted on its vote |
| `HandoversKeepCount` | TwoHandovers, `Flaky = TRUE` | the reply to a self-demotion is lost, another `Handover` promotes the leaving node again and counts on it, and the retry demotes it a second time (`app.go:395`) |
| `HandoverKeepsVoters` | HandoverFlaky, `Ticking = {n1}` | the leader counts the node that `Handover` has just promoted as a voter too many and demotes another one, before `Handover` demotes its own (`app.go:395`, `roles.go:172`) |
| `app[n].ready => n \in store[n]` | Form, `Flaky = TRUE` | the error of `store.Set` is dropped: `Ready` returns although `cluster.yaml` does not list the node (`app.go:575`) |
| stand-bys come first among the candidates of `Handover` | TwoHandovers, the stand-by with a larger weight | the sort by weight puts a spare before a stand-by (`roles.go:120`) |
| `OneRequestAtATime`, `CleanWhenIdle`, `AnswersMatch` | Sessions, `TxDeadlines = {TRUE, FALSE}` | an interrupt that is not sent because the deadline has passed leaves rows on the wire of a transaction, and the next request is sent nevertheless (`protocol.go:99`; `protocol.go:36-37` says why it should not be) |
| `th[t].pc = "open" => th[t].op \notin db.durable` | Sessions | a lost response is `driver.ErrBadConn`, and `database/sql` executes the statement again (`driver.go:796`) |
| `CleanWhenIdle` with `db.tx = "none"` in place of `db.tx # "open"`; `sure \subseteq db.durable` | Sessions | a `COMMIT` that the server refuses leaves its transaction open on a connection that goes back to the pool, and the writes of the next user end up in it (`driver.go:517-536`) |
| `th[t].pc # "panic"` | Sessions | rows of a prepared statement have no log function, which is called when their connection is lost (`driver.go:644`) |
| `CtxHonoured` | Sessions, `ClientDeadlines = {TRUE, FALSE}` | a cancelled context without a deadline does not end a call (`protocol.go:57`) |
| `NoPanic` | Messages, `Prepared = {TRUE}` | the same missing log function, called for the type of a column of no rows (`driver.go:763`) |
| `pc = "failed" => open = {}` | Connect | a connection that is made as the context ends is not closed (`connector.go:102-104`); `NoStrayConnection` leaves this case out |
| `new.pc = "idle" => node = "none"` | Restart | a node that cannot be stopped is not destroyed (`node.go:199`), and the cleanup of `New` drops the error |
| `new.pc = "info" => (info # "none") = (store # 0)` | Restart | after a crash between `info.yaml` and `cluster.yaml`, every later `New` refuses the directory (`app.go:108`) |
| `pc[n] \in {"failed", "unstarted"} => cnode[n] = "none"` | Bindings | a node whose `New`, `Start` or `Close` fails is not destroyed, and one that does not start keeps its context, for `New` does not close it (`app.go:203`, `node.go:113`); `ContextsEnd` leaves this case out |
| `\A h \in DOMAIN registry : \E n \in Node : pc[n] # "none" /\ life[n] = registry[h]` | Bindings | the entries of a node stay in the registry after `Close` (`server.go:127`) |
| `~leaks` | Bindings | when the socket of a connection cannot be duplicated, the connection is not closed (`server.go:303`) |
| `close # "no" ~> call[k] \notin Side` | Proxies | over a connection that is not TCP, the second wait of `proxy` ignores the context (`proxy.go:74`) |
| `Listening /\ accept # "accept" => close # "no"` | Proxies | any error of `Accept` ends `App.proxy`: the App goes on, accepts nothing and has cut what it had accepted (`app.go:501`) |
| `call[k] = "refused" /\ ~panicked => \A d \in Side : sock[k][d] = "closed"` | Proxies | a dial of the node that fails at its second step leaks the connection or the socket pair (`dial.go:30`, `dial.go:52`) |
| `[][close = "done" => panicked' = panicked]_proxyVars` | Proxies | the accept loop of `WithExternalConn` survives `Close` and panics (`app.go:279`) |

### Bounds

* *Nodes.* Three voters are the least `RolesConfig` allows; a fourth and a fifth node give
  a candidate, a competing candidate and an offline node. `roles.go` treats clusters
  below three nodes apart: `TwoNodes` starts with such a cluster, and `Form` grows through them.
* *Ticking, Leaving, Closing, Crashing* say which nodes' timers fire, whose owners call `Handover`
  and `Close`, and which may crash. They select the behaviours of a run; nothing in
  the actions depends on them otherwise.
* *MaxElections, MaxStops, MaxFails, MaxBreaks, MaxFaults, MaxCrashes* bound what the
  environment does. One event suffices for each race, since each takes one stale reply;
  the three errors and two crashes of `Restart` include failures during recovery. Elections
  that a missing leader makes necessary are not bounded. `Races` with an extra election
  (`MaxElections = 1`) also passes, in 4.3 million states and seven minutes, and is not kept at
  that size. Missed probes (`SlowProbes`) make it too large to finish: under them
  `AdjustDemotesSafely` and `AdjustKeepsVoters` rest on their theorems, and `VotersFloor` is
  not established. The invariants of `Form` also hold with lost replies and failing files (`Flaky = TRUE`,
  2.6 million states, three minutes), where `ClusterForms` need not; the run is kept without them.
* *MaxAttempts* is where the counter saturates; with factor 1, cap 7 and 5 bits the
  backoff passes its cap and then overflows within the four attempts.
* *MaxSets = 3*: a list that is written and not published, between two that are.
* *One connection* in `Proxies`: connections share nothing but the context and the accept loop,
  which only counts them; the theorems hold for any number.
* *MaxOps = 4* allows begin, query, statement and commit, or prepare, query and two more.
  *TxDeadlines* and *ClientDeadlines* leave out what the two counterexamples above start with.
* *BufferSize = 16* makes every longer message grow the buffer, with *MaxMessages = 2* the second message
  finds the bytes of the first; *MaxUint8 = 3* puts tuples on both sides of the format's limit.
  The values are strings, blobs and tuples that leave room in their last word, fill it, or need another one.
* *MaxNews = 3*: one of two nodes is closed and created again while the other lives.

Every configuration turns the deadlock check off: a stopped node, a `Connect` that has
returned, an exhausted bound are proper ends. Where something must not get stuck, a
liveness property says so.

### Fairness

* The Go scheduler runs every goroutine: weak fairness on the steps of `run`, `Handover`,
  `Connect`, callers, proxies, `Close`, and the owners of nodes.
* `sync.Mutex` serves every waiter (it has a starvation mode): strong fairness on `Call`
  and `Interrupt` of `Session`, and on `SetDialFunc` and `ConnectLock` of `Bindings`.
* `connectWithDial` gives a dial five seconds (`server.go:294`), so every dial returns; and
  `dqlite_node_stop` returns once the node does not dial any more.
* `Handover` has a hard limit of one minute (`app.go:323`): the self-demotion loop either
  succeeds or times out.
* Raft elects a leader when there is none and a quorum is up (`FairSpec` of `App`), and
  its servers learn who leads (`FairSpec` of `Connector`). That the cluster becomes calm is not
  assumed: `Connects` speaks of the time after.
* A context with a deadline expires. Nothing is assumed of contexts without one.
* `setKeepalive` sets `TCP_USER_TIMEOUT` to 30 seconds, so that a write to a remote TCP
  peer ends; the local node reads what it is sent. A goroutine that can end again and
  again ends (strong fairness on `CopyEnd`). Nothing else is assumed of remote peers.

## 4. The proofs

`tlapm <Module>.tla`; `MembershipProofs`, `AppProofs` and `SessionTruth` take about eight minutes, `NodeProofs` and the
other modules about `Session` four to six each, `RolesProofs` and `ConnectorProofs` between one and two. The
theorems hold for every value of the constants that the named assumptions allow, which the runs evaluate.

*RolesProofs.* `AdjustSafe`: a node that `Adjust` wants to demote is never a leader that is
online, and is an online voter only if more voters than wanted are online (or the cluster has
fewer than three nodes). `AdjustDone`: `Adjust` answers "nothing to do" exactly in the
balanced states. `AdjustNearer`: whichever of the nodes that `Adjust` names takes the role, the cluster comes nearer to
balance. `Distance` counts what is wrong: missing or surplus online voters (twice, because a stand-by may have to
become one), missing or surplus online stand-bys, and offline nodes that hold either role; in a cluster of two, the voters
besides the leader. It is a natural number and goes down with every change, so that no rule of `Adjust` undoes another.
All three follow the IF chain of `Adjust` case by case, with lemmas on what
`list`, `sortCandidates`, `promote` and `demote` return and on how one change moves a node between the lists
(`MoveLists`, `MoveCounts`).

*AppProofs.* For every finite set of nodes, all metadata, any number of elections, crashes, lost
replies and missed probes, and any `Voters >= 3`, the least value `app.New` accepts.
`Invariant` proves `IInv`, from which `TypeCorrect`, `AdjustSafety`,
`AdjustKeeps` and `AdjustApproaches` follow. `IInv` adds to the type invariant

* that a change that is being made has a candidate left, without which the next request
  would be for no node;
* that a pending demotion is safe *in the snapshot it was computed from*. The property
  itself speaks of the moment of the request, so the fact has to be carried from
  `RunAdjustProbe`, where `AdjustSafe` gives it, through the failing candidates of
  the list to `RunAdjustAssign`;
* that each candidate of a pending change would bring that snapshot nearer to balance, which `AdjustNearer` gives.

`AdjustApproaches` (`AdjustsTowardsBalance`) is the safety half of `Converges`: a change that `maybeAdjustRoles` makes
on a reply that is still current reduces `Distance` for the configuration it leaves and the nodes that answered
its probes. A change on an outdated reply need not.

There is one lemma per action for each part of the invariant the action can disturb.

*MembershipProofs.* `JoinFileSafe`: a node whose join file is gone is a member of the cluster. `ReadyJoined`: so is an App that
says it is ready and has not been closed. Both are for any number of nodes, crashes, lost replies and failing files, and are proved
together (`JInv`), since each needs the other: the file is removed by an App that is past `Add`, and an App is past `Add`
without a request when the file was gone as it was created. No request removes a member, so whatever other nodes
do keeps both (`Keeps`). Nothing is said of the node store, for its update may fail unnoticed (section 3).

`HandoversKeepTheCount` and `HandoverKeeps` prove `HandoversKeepCount` and `HandoverKeepsVoters` in a window in which nodes
only leave (`HandoverWindow`): any number of nodes, of `Handover` calls, of elections and of missed probes; no node joins, adjusts roles,
or is closed or crashes; the nodes that leave are voters, and so are those that are down at first; there are enough
voters to begin with; and requests fail or lose their replies only when a single node leaves. `HandoverKeeps` is for a
single node that leaves. The restriction on failures is needed (section 3, known counterexamples). The one on
joining, adjusting and restarting nodes keeps out stale promotions, each of which may cost a vote; `Close` after `Handover`
is left to the run `HandoverFlaky`.
Neither property is inductive. Between its promotion of another node and the demotion of its own, a `Handover` call owes the
cluster a vote: its node is a voter that will not stay one. `Covered` says that there are `Voters` voters *besides the nodes
that owe*. A promotion adds a voter and a debtor, a demotion removes both, and a promotion that finds
its candidate a voter already is refused and creates no debt; that two calls may promote each other's nodes is why
the debts are counted as a set of nodes (`Owing`). With a single call that may fail, what its lost replies
can have done is in `HeldInv` instead. `VInv` was checked by TLC on the instances of the two runs (without `Close`), with missed probes and nodes
that are down, before it was proved.

*NodeProofs*, of `Startup`: `JoinPending`, `StoreNotOlder`, `NoOrphanNode` and `RunningConsistent`, for any number of
errors, crashes and updates of the store. The invariant says for each point of `New` which files exist and what it
has read, that a node left running has a cleanup still to run, and that the list in memory is the one in the
file unless `Set` is between its two steps.
`Retryable` needs more (`RetryInv`): as long as the options stay the same, nothing crashes and removals succeed,
`info.yaml` and `cluster.yaml` exist together or not at all *once the pending cleanups have run* (`PairInv`), which is
what makes the order of writes and cleanups in `New` right, and the ID and the join file are of the kind the options ask
for (`KindInv`).

*NodeProofs*, of `Bindings`: `OwnDial` and `ContextsEnd`, for any set of nodes and any number of
calls of `New`. The invariant says who holds `connectLock` (`LockInv`), that the handle of a node is registered for its
present life (`HandleInv`), that the handle being registered is new (`FreshInv`), whose contexts are cancelled and
that nodes have different lives (`LifeInv`), and what the C library does for each state of the owner (`CInv`).

*NodeProofs*, of `Proxy`: `ReturnReleases` and `NodeClosedLast` for any set of connections and options: the
state of the sockets and goroutines at each point of `proxy` (`RelayInv`), and the progress of `Close`
against the accept loop and the calls (`ShutdownInv`).

*ConnectorProofs.* `Refinement`: `Connector` implements `LeaderSearch`, and so does not panic; and
`NoStrayConnection`; for any servers, store, retry limits and widths, and any number of elections and
failures. The invariant says for each point of `Connect` which connections are open, that `protocol` is set
only with the connection it is for, and that the server of it has believed to lead. `BackoffExactHolds` proves
`BackoffExact`: the pause computed in `Width`-bit arithmetic doubles up to the cap and stays there, also when the
exponential has overflowed. `BackoffAssumption`, that the product of factor and cap fits into the width, holds by far for the 100 ms,
one second and 64 bits of the code; it is what makes an overflowed exponential either not positive or a multiple of a power of
two above the cap.
What it needs of powers of two, that they are positive and that exponents add, comes from counting the subsets of finite
sets, since the prover has no induction. The assumption that `MaxAttempts`, the bound at which the counter
saturates, is positive is needed: with 0 the counter would never leave its first value.

*SessionProofs.* `ResponsesMatchRequests`, `RequestsAreSerial` and `PooledIsClean` prove `AnswersMatch`,
`OneRequestAtATime` and `CleanWhenIdle` for any number of callers, operations, responses per query, retries and lost
connections. Their hypothesis `TxDeadlines \subseteq {FALSE}` says that no statement of a transaction has a deadline;
without it TLC refutes all three (section 3). None of the three is inductive: that a caller receives its own
responses follows from what the wire holds when it sends. `IInv` therefore says

* who may be where (`CallerInv`): the mutex is held exactly by the caller that sends or receives, and only the one user
  of a pooled connection has rows;
* that an operation in a transaction has no deadline (`TxInv`), so that its interrupt is always sent;
* what the wire carries for the caller at each point (`WireInv`): nothing before it sends, its request or the
  responses to it afterwards (`Awaited`, `Answered`), and up to the empty response after an interrupt
  (`Interrupted`); or the connection is broken and will not be used again;
* when the server has a transaction that the driver does not know of (`DbInv`): while the answer to `BEGIN` is on its way,
  or once it has refused to end one, which `CleanWhenIdle` leaves out.

There is one lemma per action (`...Keeps`); those of the actions that end an operation share `FinishKeeps`, those of
the actions that go on with it share `GoesOn`.

*SessionTruth.* `ReportsAreTrue` proves `TellsTruth` and `TypeCorrect` the type invariant of `Session`, both under the
hypothesis of *SessionProofs*. `TellsTruth` speaks of what was reported and of what is durable; in between are the
state of the server's transaction, a response on the wire and what the driver noted. `TInv` therefore says

* that operations are numbered, and that only one that has begun has written anything (`NumberInv`);
* that what a transaction has written, from the number of its `BEGIN` on (`Span`), is neither durable nor reported until
  its `COMMIT` is on its way (`SpanInv`);
* that the server still has the transaction the driver believes to be in, with all that was reported written in it, unless
  a statement has failed, the connection is lost, or a response that says otherwise is on its way (`OpenInv`). A
  `COMMIT` of a transaction that the server has dropped can then only fail;
* that a transaction the server has refused to end is no longer one of the driver, or is about to be none (`LeftInv`); what is
  written into it is the exception in `TellsTruth`;
* what a result on the wire stands for when it is read (`ResultInv`).

`TInv` was checked by TLC on the instance of `Sessions` before it was proved. The steps that neither write nor report
share `SameTrue`, `StaysTrue` and `GoesOnTrue`; `ServeTrue` and `FinishTrue` are the two that matter.

Only model-checked:

* liveness, which is out of the prover's reach;
* `NoPanic`, `RequestOnWire`, `DecodesMeaning` and `WholeReplies`: they compare what the loops of `Message` do with the
  recursive definitions of `WireFormat`, which takes induction over messages;
* `VotersFloor`: it holds on the instance of `Races` and not for all values of the constants (a node that joins, or is
  down at first, can cost a vote that the formula does not count), and under which condition each stale
  decision can be charged to an election, a stop or a departure is open;
* `HandoversKeepCount` and `HandoverKeepsVoters` outside the window above.

The type invariants of all other modules than `Message` are proved.

## 5. Not modelled

* `Recover`, `ReconfigureMembership` and `GenerateID`: single calls of the C library.
* The SQLite and in-memory node stores, whose operations are single transactions or
  critical sections.
* Rows and statements that overlap in one transaction and share the buffers of their connection.
* The heartbeat goroutine of `Protocol`, which nothing starts.
* Options, TLS configuration, the shell, the demo, the benchmark, logging: settings and
  output without state of interest.
* Raft, libdqlite and `database/sql` themselves: external, as the code here uses them.
* Losses of the whole machine: only processes crash.

## 6. Plan

Done: the modules above, their runs, and the theorems of section 4.

1. Rows and statements that overlap in a transaction and share buffers (`Session` with `Message`).
2. `VotersFloor` under missed probes, which needs a smaller abstraction of the probes.
3. The SQLite node store, once it has operations of more than one transaction.
