------------------------------ MODULE Bindings ------------------------------
(***************************************************************************)
(* The nodes of one process (node.go, internal/bindings/server.go): how a    *)
(* node is created, started and closed, and how the C library calls back     *)
(* into Go to dial other nodes.  The calls of all nodes share one lock and   *)
(* one registry, in which an integer handle stands for the dial function and *)
(* the context of a node.  The C library is external: it dials when it       *)
(* likes while a node runs, and dqlite_node_stop returns once it dials no    *)
(* more.                                                                    *)
(***************************************************************************)
EXTENDS Integers

CONSTANTS Node,      \* the nodes of the process
          NoThread,
          MaxNews    \* bound: calls of New

\* Goroutines of Go callers, and threads of the C library.
Go(n) == <<"go", n>>
CThread(n) == <<"c", n>>
Thread == {Go(n) : n \in Node} \cup {CThread(n) : n \in Node}

ASSUME BindingsAssumption == NoThread \notin Thread /\ MaxNews \in Nat

VARIABLES connectLock, connectIndex,
          registry,    \* connectRegistry and contextRegistry: the life that a handle stands for
          news,        \* calls of New; a node lives once for each of them
          pc,          \* what each node's owner is doing
          life,        \* the number of the node's current life
          handle,      \* the handle that the C library has, 0 if none
          cnode,       \* the node in the C library
          cancelled,   \* the lives whose context is cancelled
          conn,        \* where the call of connectWithDial for each node is
          using,       \* the life whose dial function and context it uses
          leaks        \* connections that nobody will close

owner == <<news, pc, life, handle, cnode, cancelled>>
calls == <<conn, using, leaks>>
bindingsVars == <<connectLock, connectIndex, registry, owner, calls>>

Life   == 1..MaxNews
Proceed(n, where) == pc' = [pc EXCEPT ![n] = where]
Unlock == connectLock' = NoThread
-----------------------------------------------------------------------------
(* dqlite.New.                                                             *)

\* bindings.NewNode, which leaves nothing behind when it fails.
NewNode(n) ==
  /\ pc[n] = "none" /\ news < MaxNews /\ news' = news + 1
  /\ \/ /\ life' = [life EXCEPT ![n] = news'] /\ cnode' = [cnode EXCEPT ![n] = "created"]
        /\ Proceed(n, "setDial") /\ UNCHANGED cancelled
     \/ cancelled' = cancelled \cup {news'} /\ UNCHANGED <<pc, life, cnode>>
  /\ UNCHANGED <<connectLock, connectIndex, registry, handle, calls>>

\* New returns an error after cancelling the context; the C node stays.
NewError(n) == cancelled' = cancelled \cup {life[n]} /\ Proceed(n, "failed")

\* Mutant of SetDialFunc: the lock is not taken.
SetDialFuncUnlocked(n) ==
  /\ pc[n] = "setDial"
  /\ connectIndex' = connectIndex + 1 /\ Proceed(n, "register")
  /\ UNCHANGED <<connectLock, registry, news, life, handle, cnode, cancelled, calls>>

\* SetDialFunc takes the lock and a new handle ...
SetDialFunc(n) ==
  /\ pc[n] = "setDial" /\ connectLock = NoThread
  /\ connectLock' = Go(n) /\ connectIndex' = connectIndex + 1 /\ Proceed(n, "register")
  /\ UNCHANGED <<registry, news, life, handle, cnode, cancelled, calls>>

\* registry[connectIndex] is now the life of n.
Registered(n, i) ==
  registry' = [h \in DOMAIN registry \cup {i} |-> IF h = i THEN life[n] ELSE registry[h]]

\* Mutant of Register: a failure leaves the context alone.
RegisterNoCancel(n) ==
  /\ pc[n] = "register" /\ Unlock /\ Registered(n, connectIndex)
  /\ \/ /\ handle' = [handle EXCEPT ![n] = connectIndex] /\ Proceed(n, "configure")
        /\ UNCHANGED cancelled
     \/ Proceed(n, "failed") /\ UNCHANGED <<handle, cancelled>>
  /\ UNCHANGED <<connectIndex, news, life, cnode, calls>>

\* ... registers the dial function and the context under it, and configures the C
\* node with it.
Register(n) ==
  /\ pc[n] = "register" /\ Unlock /\ Registered(n, connectIndex)
  /\ \/ /\ handle' = [handle EXCEPT ![n] = connectIndex] /\ Proceed(n, "configure")
        /\ UNCHANGED cancelled
     \/ NewError(n) /\ UNCHANGED handle
  /\ UNCHANGED <<connectIndex, news, life, cnode, calls>>

\* The other settings.
Configure(n) ==
  /\ pc[n] = "configure"
  /\ \/ Proceed(n, "ready") /\ UNCHANGED cancelled
     \/ NewError(n)
  /\ UNCHANGED <<connectLock, connectIndex, registry, news, life, handle, cnode, calls>>

\* A node that does not start is not closed by app.New.
Start(n) ==
  /\ pc[n] = "ready"
  /\ \/ Proceed(n, "running") /\ cnode' = [cnode EXCEPT ![n] = "running"]
     \/ Proceed(n, "unstarted") /\ UNCHANGED cnode
  /\ UNCHANGED <<connectLock, connectIndex, registry, news, life, handle, cancelled, calls>>
-----------------------------------------------------------------------------
(* dqlite.Node.Close.                                                      *)

BeginClose(n) ==
  /\ pc[n] = "running" /\ Proceed(n, "stop")
  /\ cancelled' = cancelled \cup {life[n]}
  /\ UNCHANGED <<connectLock, connectIndex, registry, news, life, handle, cnode, calls>>

\* dqlite_node_stop tells the event loop to stop ...
Stop(n) ==
  /\ pc[n] = "stop" /\ Proceed(n, "stopping") /\ cnode' = [cnode EXCEPT ![n] = "stopping"]
  /\ UNCHANGED <<connectLock, connectIndex, registry, news, life, handle, cancelled, calls>>

\* What the C library promises: dqlite_node_stop returns when the event loop is over,
\* which it is not as long as a call of connectWithDial has not returned.
StopReturns(n) == conn[n] = "idle"

\* ... and returns; a node that stops with an error is not destroyed.
Stopped(n) ==
  /\ pc[n] = "stopping" /\ StopReturns(n)
  /\ Proceed(n, "destroy") \/ Proceed(n, "failed")
  /\ cnode' = [cnode EXCEPT ![n] = "stopped"]
  /\ UNCHANGED <<connectLock, connectIndex, registry, news, life, handle, cancelled, calls>>

\* bindings.Node.Close.  The entries of the registry stay.
Destroy(n) ==
  /\ pc[n] = "destroy" /\ Proceed(n, "none")
  /\ cnode' = [cnode EXCEPT ![n] = "none"] /\ handle' = [handle EXCEPT ![n] = 0]
  /\ UNCHANGED <<connectLock, connectIndex, registry, news, life, cancelled, calls>>
-----------------------------------------------------------------------------
(* connectWithDial, called by the C library.                               *)

At(n, where) == conn' = [conn EXCEPT ![n] = where]

\* The C library wants a connection to another node.
Connect(n) ==
  /\ cnode[n] = "running" /\ conn[n] = "idle" /\ At(n, "lock")
  /\ UNCHANGED <<connectLock, connectIndex, registry, owner, using, leaks>>

\* Take the lock, look the handle up, and dial with the lock held.
ConnectLock(n) ==
  /\ conn[n] = "lock" /\ connectLock = NoThread
  /\ connectLock' = CThread(n) /\ At(n, "dial")
  /\ using' = [using EXCEPT ![n] = registry[handle[n]]]
  /\ UNCHANGED <<connectIndex, registry, owner, leaks>>

\* The dial function returns a connection, if its context is not done.
Dialled(n) ==
  /\ conn[n] = "dial" /\ using[n] \notin cancelled /\ At(n, "socket")
  /\ UNCHANGED <<connectLock, connectIndex, registry, owner, using, leaks>>

\* Mutant of DialError: the lock is not released.
DialErrorLocked(n) ==
  /\ conn[n] = "dial" /\ At(n, "idle") /\ using' = [using EXCEPT ![n] = 0]
  /\ UNCHANGED <<connectLock, connectIndex, registry, owner, leaks>>

\* ... or an error: its own, or because the context is cancelled or the five
\* seconds of the call are over.
DialError(n) ==
  /\ conn[n] = "dial" /\ At(n, "idle") /\ Unlock /\ using' = [using EXCEPT ![n] = 0]
  /\ UNCHANGED <<connectIndex, registry, owner, leaks>>

\* connToSocket: the C library gets a duplicate of the socket and the connection is
\* closed, or there is an error and it is not.
Socket(n) ==
  /\ conn[n] = "socket" /\ At(n, "idle") /\ Unlock /\ using' = [using EXCEPT ![n] = 0]
  /\ leaks' \in {leaks, TRUE}
  /\ UNCHANGED <<connectIndex, registry, owner>>
-----------------------------------------------------------------------------
BindingsInit ==
  /\ connectLock = NoThread /\ connectIndex = 0 /\ registry = [h \in {} |-> 0]
  /\ news = 0 /\ pc = [n \in Node |-> "none"] /\ life = [n \in Node |-> 0]
  /\ handle = [n \in Node |-> 0] /\ cnode = [n \in Node |-> "none"] /\ cancelled = {}
  /\ conn = [n \in Node |-> "idle"] /\ using = [n \in Node |-> 0] /\ leaks = FALSE

\* The steps of a call that has begun.
OwnerStep(n) ==
  \/ Register(n) \/ Configure(n) \/ Start(n) \/ Stop(n) \/ Stopped(n) \/ Destroy(n)
ThreadStep(n) == Dialled(n) \/ DialError(n) \/ Socket(n)

BindingsNext ==
  \E n \in Node : \/ NewNode(n) \/ SetDialFunc(n) \/ OwnerStep(n) \/ BeginClose(n)
                  \/ Connect(n) \/ ConnectLock(n) \/ ThreadStep(n)

BindingsSpec == BindingsInit /\ [][BindingsNext]_bindingsVars

\* Goroutines and threads run, a mutex goes to every one that waits for it, and a
\* dial function returns when its context is done, which it is after five seconds.
BindingsFairSpec ==
  /\ BindingsSpec
  /\ \A n \in Node : /\ WF_bindingsVars(OwnerStep(n)) /\ WF_bindingsVars(ThreadStep(n))
                     /\ SF_bindingsVars(SetDialFunc(n)) /\ SF_bindingsVars(ConnectLock(n))
-----------------------------------------------------------------------------
(* Properties.                                                             *)

\* The values the variables may take.
BindingsTypeOK ==
  /\ connectLock \in Thread \cup {NoThread} /\ connectIndex \in Nat
  /\ DOMAIN registry \subseteq 1..connectIndex /\ registry \in [DOMAIN registry -> Life]
  /\ news \in 0..MaxNews
  /\ pc \in [Node -> {"none", "setDial", "register", "configure", "ready", "running", "stop",
                      "stopping", "destroy", "failed", "unstarted"}]
  /\ life \in [Node -> 0..MaxNews] /\ handle \in [Node -> Nat]
  /\ cnode \in [Node -> {"none", "created", "running", "stopping", "stopped"}]
  /\ cancelled \subseteq Life
  /\ conn \in [Node -> {"idle", "lock", "dial", "socket"}] /\ using \in [Node -> 0..MaxNews]
  /\ leaks \in BOOLEAN

\* A call for a node uses the dial function and the context of that node in its
\* present life, however many nodes are created, closed and created again at the same
\* time; so closing the node itself, and nothing else, cuts its dials short
\* (server.go:127-138, 286-297, node.go:197).
OwnDial ==
  \A n \in Node : conn[n] \in {"dial", "socket"} =>
    /\ using[n] = life[n]
    /\ using[n] \in cancelled <=> pc[n] # "running"

\* When New has failed or Close has returned, the context of the node is done, so
\* nothing goes on under it (node.go:105-151, 196-206).  A node that does not start is
\* not closed (app.go:203-206) and keeps its context.
ContextsEnd ==
  \A n \in Node : pc[n] \in {"none", "failed"} /\ life[n] # 0 => life[n] \in cancelled

\* New and Close return, although the lock that New needs is held while other nodes
\* dial, and although Close waits for the dials of its own (server.go:286-297, node.go:196-206).
CallsReturn ==
  \A n \in Node : /\ pc[n] = "setDial" ~> pc[n] \notin {"setDial", "register", "configure"}
                  /\ pc[n] = "stop" ~> pc[n] \in {"none", "failed"}
=============================================================================
