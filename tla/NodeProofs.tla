----------------------------- MODULE NodeProofs -----------------------------
(***************************************************************************)
(* Proofs about a node in its process: Proxy, the goroutines that carry its  *)
(* connections; Bindings, how it is created and closed and how the C library *)
(* dials; and Startup, the files that app.New finds and leaves.  They hold   *)
(* for any number of connections, nodes, calls, errors and crashes.         *)
(***************************************************************************)
EXTENDS Startup, Bindings, Proxy, TLAPS
-----------------------------------------------------------------------------
(* Proxy: the type invariant, ReturnReleases and NodeClosedLast.             *)
(*                                                                         *)
(* ReturnReleases needs what proxy has achieved at each point where it      *)
(* waits (RelayInv); NodeClosedLast needs the order of Close, the accept    *)
(* loop and its wait group (ShutdownInv).                                   *)

\* What is true of a call of proxy, by where it is.
RelayInv ==
  \A k \in Conn :
    /\ call[k] \in {"none", "refused", "keepalive", "failed"} => \A d \in Side : copy[k][d] = "none"
    /\ call[k] \in {"drain", "returned"} => \A d \in Side : sock[k][d] = "closed"
    /\ call[k] = "returned" => \A d \in Side : copy[k][d] = "ended"
    /\ \A d \in Side : call[k] = d => copy[k][Other(d)] = "ended"

\* The connections of the listener whose call of proxy is not running.
Over(k) == call[k] \in {"none", "refused", "returned", "failed"}

\* The accept loop ends, and Close goes on, only when nobody is left.
ShutdownInv ==
  Listening =>
    /\ accept = "closed" => \A k \in Conn \ ByNode : Over(k)
    /\ close = "done" => accept = "closed"

ProxyInv == ProxyTypeOK /\ RelayInv /\ ShutdownInv
-----------------------------------------------------------------------------
\* Init establishes the invariant.
LEMMA ProxyInitInv == ProxyInit => ProxyInv
<1> SUFFICES ASSUME ProxyInit PROVE ProxyInv
  OBVIOUS
<1>1. ProxyTypeOK
  BY Zenon DEF ProxyInit, ProxyTypeOK, Listening
<1>2. RelayInv
  BY DEF ProxyInit, RelayInv, Side, Other
<1>3. ShutdownInv
  BY DEF ProxyInit, ShutdownInv, Over, Listening, ByNode
<1> QED BY <1>1, <1>2, <1>3 DEF ProxyInv

\* The steps of App.proxy, of App.Close and of those who make connections keep it ...
LEMMA AppInv ==
  ASSUME ProxyInv, AcceptError \/ Wait \/ CloseStop \/ CloseListener \/ CloseNode
  PROVE  ProxyInv'
<1> USE DEF ProxyInv, ProxyTypeOK, RelayInv, ShutdownInv, Over, Side, Other, Listening, ByNode
<1>1. CASE AcceptError
  BY <1>1 DEF AcceptError
<1>2. CASE Wait
  BY <1>2 DEF Wait
<1>3. CASE CloseStop
  BY <1>3 DEF CloseStop
<1>4. CASE CloseListener
  BY <1>4 DEF CloseListener
<1>5. CASE CloseNode
  BY <1>5 DEF CloseNode
<1> QED BY <1>1, <1>2, <1>3, <1>4, <1>5

LEMMA ComeInv ==
  ASSUME ProxyInv, NEW k \in Conn,
         Accept(k) \/ AcceptDialError(k) \/ ExtAccept(k) \/ ExtAcceptError(k) \/ NodeDial(k)
         \/ NodeDialError(k)
  PROVE  ProxyInv'
<1> USE DEF ProxyInv, ProxyTypeOK, RelayInv, ShutdownInv, Over, Side, Other, Listening, ByNode
<1>1. CASE Accept(k)
  BY <1>1 DEF Accept
<1>2. CASE AcceptDialError(k)
  BY <1>2 DEF AcceptDialError
<1>3. CASE ExtAccept(k)
  BY <1>3 DEF ExtAccept
<1>4. CASE ExtAcceptError(k)
  BY <1>4 DEF ExtAcceptError
<1>5. CASE NodeDial(k)
  BY <1>5 DEF NodeDial
<1>6. CASE NodeDialError(k)
  <2>1. /\ call[k] = "none" /\ call' = [call EXCEPT ![k] = "refused"]
        /\ UNCHANGED <<mode, accept, close, copy, peer, panicked>>
    BY <1>6 DEF NodeDialError
  <2>2. PICK s \in [Side -> {"open", "noRead", "closed"}] : sock' = [sock EXCEPT ![k] = s]
    BY <1>6 DEF NodeDialError
  <2> QED BY <2>1, <2>2
<1> QED BY <1>1, <1>2, <1>3, <1>4, <1>5, <1>6

\* ... and so do those of proxy itself, of its goroutines and of the peers.
LEMMA MainInv == ASSUME ProxyInv, NEW k \in Conn, Main(k) PROVE ProxyInv'
<1> USE DEF ProxyInv, ProxyTypeOK, RelayInv, ShutdownInv, Over, Side, Other, Listening, ByNode
<1>1. CASE Keepalive(k)
  <2>1. /\ call[k] = "keepalive"
        /\ UNCHANGED <<mode, accept, close, sock, peer, panicked>>
    BY <1>1 DEF Keepalive
  <2>2. CASE call' = [call EXCEPT ![k] = "failed"] /\ copy' = copy
    BY <2>1, <2>2
  <2>3. CASE /\ call' = [call EXCEPT ![k] = "select"]
             /\ copy' = [copy EXCEPT ![k] = [d \in Side |-> "read"]]
    BY <2>1, <2>3
  <2> QED BY <1>1, <2>2, <2>3 DEF Keepalive
<1>2. CASE Cancelled(k)
  BY <1>2 DEF Cancelled, Closed
<1>3. CASE Drained(k)
  BY <1>3 DEF Drained
<1>4. ASSUME NEW d \in Side, FirstEnd(k, d) PROVE ProxyInv'
  BY <1>4 DEF FirstEnd
<1>5. ASSUME NEW d \in Side, SecondEnd(k, d) PROVE ProxyInv'
  BY <1>5 DEF SecondEnd, Closed
<1> QED BY <1>1, <1>2, <1>3, <1>4, <1>5 DEF Main

LEMMA CopyInv ==
  ASSUME ProxyInv, NEW k \in Conn, NEW d \in Side,
         Read(k, d) \/ Write(k, d) \/ CopyEnd(k, d) \/ PeerClose(k, d)
  PROVE  ProxyInv'
<1> USE DEF ProxyInv, ProxyTypeOK, RelayInv, ShutdownInv, Over, Side, Other, Listening, ByNode
<1>1. CASE Read(k, d)
  BY <1>1 DEF Read
<1>2. CASE Write(k, d)
  BY <1>2 DEF Write
<1>3. CASE CopyEnd(k, d)
  <2>1. /\ copy[k][d] # "none"
        /\ copy' = [copy EXCEPT ![k][d] = "ended"]
        /\ UNCHANGED <<mode, accept, close, call, sock, peer, panicked>>
    BY <1>3 DEF CopyEnd
  <2> QED BY <2>1
<1>4. CASE PeerClose(k, d)
  <2>1. UNCHANGED <<mode, accept, close, call, copy, sock, panicked>>
    BY <1>4 DEF PeerClose
  <2>2. PICK to \in {"eof", "closed"} : peer' = [peer EXCEPT ![k][d] = to]
    BY <1>4 DEF PeerClose
  <2> QED BY <2>1, <2>2
<1> QED BY <1>1, <1>2, <1>3, <1>4

\* The invariant is inductive ...
LEMMA ProxyNextInv == ProxyInv /\ [ProxyNext]_proxyVars => ProxyInv'
<1>1. ASSUME ProxyInv, UNCHANGED proxyVars PROVE ProxyInv'
  BY <1>1 DEF proxyVars, ProxyInv, ProxyTypeOK, RelayInv, ShutdownInv, Over, Listening, ByNode
<1> QED BY <1>1, AppInv, ComeInv, MainInv, CopyInv DEF ProxyNext

\* ... and so holds in every reachable state.
THEOREM ProxyInvariant == ProxySpec => []ProxyInv
  BY ProxyInitInv, ProxyNextInv, PTL DEF ProxySpec

\* Type correctness.
THEOREM ProxyTypeCorrect == ProxySpec => []ProxyTypeOK
<1>1. ProxyInv => ProxyTypeOK
  BY DEF ProxyInv
<1> QED BY <1>1, ProxyInvariant, PTL

\* A call of proxy that has returned, other than with an error of the keepalive, has
\* closed both sockets and waited for both of its goroutines.
THEOREM ReturnReleasesHolds == ProxySpec => []ReturnReleases
<1>1. ProxyInv => ReturnReleases
  BY DEF ProxyInv, RelayInv, ReturnReleases
<1> QED BY <1>1, ProxyInvariant, PTL

\* App.Close closes the node only when no goroutine copies for a connection of the
\* listener any more, however many connections there are.
THEOREM NodeClosedLastHolds == ProxySpec => []NodeClosedLast
<1>1. ProxyInv => NodeClosedLast
  BY DEF ProxyInv, RelayInv, ShutdownInv, Over, NodeClosedLast
<1> QED BY <1>1, ProxyInvariant, PTL
-----------------------------------------------------------------------------
(* Bindings: the type invariant, OwnDial and ContextsEnd.                    *)
(*                                                                         *)
(* None of them is inductive.  What keeps them is the lock (who holds it is  *)
(* the one who registers or dials, and the handle being registered is larger *)
(* than those given out), the registry (a handle once given out stands for   *)
(* the present life of its node), and that no two nodes share a life.        *)

\* The lock is held by the node that registers, or by the one that dials.
LockInv ==
  \A n \in Node : /\ pc[n] = "register" <=> connectLock = Go(n)
                  /\ conn[n] \in {"dial", "socket"} <=> connectLock = CThread(n)

\* Handles and the registry.
HandleInv ==
  \A n \in Node :
    /\ handle[n] # 0 => handle[n] \in DOMAIN registry /\ registry[handle[n]] = life[n]
    /\ pc[n] \in {"none", "setDial", "register"} => handle[n] = 0
    /\ pc[n] \in {"configure", "ready", "running", "stop", "stopping"} => handle[n] # 0

\* The handle being registered is new.
FreshInv ==
  (\E m \in Node : pc[m] = "register") =>
    connectIndex \in Nat \ {0} /\ connectIndex \notin DOMAIN registry

\* Lives are not shared, and those that may dial are not cancelled.
LifeInv ==
  /\ cancelled \subseteq 1..news
  /\ \A n \in Node :
       /\ life[n] \in 0..news
       /\ pc[n] # "none" => life[n] # 0
       /\ pc[n] \in {"setDial", "register", "configure", "ready", "running", "unstarted"} =>
            life[n] \notin cancelled
       /\ pc[n] \in {"stop", "stopping", "destroy", "failed"} => life[n] \in cancelled
       /\ pc[n] = "none" /\ life[n] # 0 => life[n] \in cancelled
  /\ \A m, n \in Node : m # n /\ life[m] # 0 => life[m] # life[n]

\* The C node and the calls it makes.
CInv ==
  \A n \in Node :
    /\ cnode[n] = "running" <=> pc[n] \in {"running", "stop"}
    /\ cnode[n] = "stopping" <=> pc[n] = "stopping"
    /\ conn[n] # "idle" => cnode[n] \in {"running", "stopping"}
    /\ conn[n] \in {"dial", "socket"} => using[n] = life[n]

BindingsInv == BindingsTypeOK /\ LockInv /\ HandleInv /\ FreshInv /\ LifeInv /\ CInv
-----------------------------------------------------------------------------
\* Threads of different nodes, or of different sorts, are different.
LEMMA Threads ==
  /\ \A m, n \in Node : (Go(m) = Go(n) <=> m = n) /\ (CThread(m) = CThread(n) <=> m = n)
  /\ \A m, n \in Node : Go(m) # CThread(n)
  /\ \A n \in Node : Go(n) # NoThread /\ CThread(n) # NoThread
  /\ \A n \in Node : Go(n) \in Thread /\ CThread(n) \in Thread
<1>1. \A m, n \in Node : (Go(m) = Go(n) <=> m = n) /\ (CThread(m) = CThread(n) <=> m = n)
  BY DEF Go, CThread
<1>2. \A m, n \in Node : Go(m) # CThread(n)
  BY DEF Go, CThread
<1>3. \A n \in Node : Go(n) \in Thread /\ CThread(n) \in Thread
  BY DEF Thread
<1> QED
  BY <1>1, <1>2, <1>3, BindingsAssumption

\* Nothing is true of the first state but that there is nothing.
LEMMA BindingsInitInv == BindingsInit => BindingsInv
<1> SUFFICES ASSUME BindingsInit PROVE BindingsInv
  OBVIOUS
<1>1. BindingsTypeOK
  <2>1. DOMAIN registry = {} /\ registry \in [DOMAIN registry -> Life]
    BY DEF BindingsInit
  <2>2. leaks \in BOOLEAN
    BY Zenon DEF BindingsInit
  <2>3. cancelled \subseteq Life /\ DOMAIN registry \subseteq 1..connectIndex
    BY <2>1 DEF BindingsInit
  <2>4. news \in 0..MaxNews /\ life \in [Node -> 0..MaxNews] /\ using \in [Node -> 0..MaxNews]
    BY BindingsAssumption DEF BindingsInit
  <2> QED
    BY <2>1, <2>2, <2>3, <2>4 DEF BindingsInit, BindingsTypeOK
<1>2. LockInv
  BY Threads DEF BindingsInit, LockInv
<1>3. HandleInv /\ FreshInv /\ LifeInv /\ CInv
  BY DEF BindingsInit, HandleInv, FreshInv, LifeInv, CInv
<1> QED
  BY <1>1, <1>2, <1>3 DEF BindingsInv

\* NewNode gives the node a life of its own.
LEMMA NewNodeInv ==
  ASSUME BindingsInv, NEW n \in Node, NewNode(n)
  PROVE  BindingsInv'
<1> USE BindingsAssumption DEF NewNode, BindingsInv, Proceed, calls
<1>1. BindingsTypeOK'
  BY DEF BindingsTypeOK, Life
<1>2. LockInv'
  BY DEF BindingsTypeOK, LockInv
<1>3. HandleInv' /\ FreshInv'
  BY DEF BindingsTypeOK, HandleInv, FreshInv
<1>4. LifeInv'
  BY DEF BindingsTypeOK, LifeInv, Life
<1>5. CInv'
  BY DEF BindingsTypeOK, CInv
<1> QED
  BY <1>1, <1>2, <1>3, <1>4, <1>5

\* SetDialFunc takes the lock, and a handle that nobody has.
LEMMA SetDialFuncInv ==
  ASSUME BindingsInv, NEW n \in Node, SetDialFunc(n)
  PROVE  BindingsInv'
<1> USE BindingsAssumption DEF SetDialFunc, BindingsInv, Proceed, calls
<1>1. BindingsTypeOK'
  BY Threads DEF BindingsTypeOK
<1>2. LockInv'
  BY Threads DEF BindingsTypeOK, LockInv
<1>3. HandleInv'
  BY DEF BindingsTypeOK, HandleInv
<1>4. FreshInv'
  BY DEF BindingsTypeOK, FreshInv
<1>5. LifeInv' /\ CInv'
  BY DEF BindingsTypeOK, LifeInv, CInv
<1> QED
  BY <1>1, <1>2, <1>3, <1>4, <1>5

\* Register adds an entry and changes none.
LEMMA RegisterInv ==
  ASSUME BindingsInv, NEW n \in Node, Register(n)
  PROVE  BindingsInv'
<1> USE BindingsAssumption DEF Register, BindingsInv, Proceed, NewError, Unlock, calls
<1>1. connectLock = Go(n) /\ connectIndex \in Nat \ {0} /\ connectIndex \notin DOMAIN registry
  BY DEF LockInv, FreshInv
<1>2. life[n] \in Life
  BY DEF BindingsTypeOK, LifeInv, Life
<1>3. /\ DOMAIN registry' = DOMAIN registry \cup {connectIndex}
      /\ registry'[connectIndex] = life[n]
      /\ \A h \in DOMAIN registry : registry'[h] = registry[h]
  BY <1>1 DEF Registered
<1>4. registry' \in [DOMAIN registry' -> Life]
  BY <1>1, <1>2 DEF Registered, BindingsTypeOK
<1>5. BindingsTypeOK'
  BY <1>1, <1>2, <1>3, <1>4 DEF BindingsTypeOK
<1>6. LockInv' /\ \A m \in Node : pc'[m] # "register"
  BY <1>1, Threads DEF BindingsTypeOK, LockInv
<1>7. HandleInv'
  BY <1>1, <1>3 DEF BindingsTypeOK, HandleInv
<1>8. FreshInv'
  BY <1>6 DEF FreshInv
<1>9. LifeInv' /\ CInv'
  BY DEF BindingsTypeOK, LifeInv, CInv
<1> QED
  BY <1>5, <1>6, <1>7, <1>8, <1>9

\* The steps that leave the lock, the registry and the calls alone.
LEMMA OwnInv ==
  ASSUME BindingsInv, NEW n \in Node,
         Configure(n) \/ Start(n) \/ BeginClose(n) \/ Stop(n) \/ Stopped(n) \/ Destroy(n)
  PROVE  BindingsInv'
<1> USE BindingsAssumption DEF Configure, Start, BeginClose, Stop, Stopped, StopReturns, Destroy, BindingsInv,
      Proceed, NewError, calls
<1>1. BindingsTypeOK'
  BY DEF BindingsTypeOK, LifeInv, Life
<1>2. LockInv'
  BY DEF BindingsTypeOK, LockInv
<1>3. HandleInv' /\ FreshInv'
  BY DEF BindingsTypeOK, HandleInv, FreshInv
<1>4. LifeInv'
  BY DEF BindingsTypeOK, LifeInv
<1>5. CInv'
  BY DEF BindingsTypeOK, CInv
<1> QED
  BY <1>1, <1>2, <1>3, <1>4, <1>5

\* The steps of connectWithDial.
LEMMA CallInv ==
  ASSUME BindingsInv, NEW n \in Node,
         Connect(n) \/ ConnectLock(n) \/ Dialled(n) \/ DialError(n) \/ Socket(n)
  PROVE  BindingsInv'
<1> USE BindingsAssumption DEF Connect, ConnectLock, Dialled, DialError, Socket, BindingsInv, At, Unlock, owner
<1>1. conn[n] = "lock" => handle[n] # 0 /\ registry[handle[n]] = life[n]
  BY DEF BindingsTypeOK, CInv, HandleInv
<1>2. ConnectLock(n) => using' = [using EXCEPT ![n] = life[n]]
  BY <1>1, Zenon
<1>3. BindingsTypeOK'
  <2>1. CASE ConnectLock(n)
    BY <1>2, <2>1, Threads DEF BindingsTypeOK
  <2>2. CASE Connect(n) \/ Dialled(n) \/ DialError(n)
    BY <2>2, Threads DEF BindingsTypeOK
  <2>3. CASE Socket(n)
    <3>1. leaks' \in BOOLEAN
      BY <2>3, Zenon DEF BindingsTypeOK
    <3> QED
      BY <2>3, <3>1 DEF BindingsTypeOK
  <2> QED
    BY <2>1, <2>2, <2>3, Zenon
<1>4. LockInv'
  <2>1. CASE ConnectLock(n)
    BY <2>1, Threads DEF BindingsTypeOK, LockInv
  <2>2. CASE Connect(n) \/ Dialled(n)
    BY <2>2, Threads DEF BindingsTypeOK, LockInv
  <2>3. CASE DialError(n) \/ Socket(n)
    <3>1. connectLock = CThread(n)
      BY <2>3, Zenon DEF LockInv
    <3>2. /\ \A m \in Node : pc[m] # "register"
          /\ \A m \in Node \ {n} : conn[m] \notin {"dial", "socket"}
      BY <3>1, Threads DEF LockInv
    <3>3. connectLock' = NoThread /\ pc' = pc /\ conn' = [conn EXCEPT ![n] = "idle"]
      BY <2>3, Zenon
    <3>4. \A m \in Node : conn'[m] \notin {"dial", "socket"}
      BY <3>2, <3>3 DEF BindingsTypeOK
    <3> QED
      BY <3>2, <3>3, <3>4, Threads DEF LockInv
  <2> QED
    BY <2>1, <2>2, <2>3, Zenon
<1>5. HandleInv' /\ FreshInv' /\ LifeInv'
  <2>1. UNCHANGED <<connectIndex, registry, owner>>
    BY Zenon
  <2>2. HandleInv' /\ FreshInv'
    BY <2>1 DEF HandleInv, FreshInv
  <2>3. LifeInv'
    BY <2>1 DEF LifeInv
  <2> QED
    BY <2>2, <2>3
<1>6. CInv'
  <2>1. CASE ConnectLock(n)
    BY <1>2, <2>1 DEF BindingsTypeOK, CInv
  <2>2. CASE Connect(n) \/ Dialled(n)
    <3>1. PICK to \in {"lock", "socket"} :
            /\ conn' = [conn EXCEPT ![n] = to] /\ UNCHANGED <<cnode, pc, using, life>>
            /\ cnode[n] \in {"running", "stopping"} /\ (to = "socket" => using[n] = life[n])
      BY <2>2 DEF CInv
    <3> QED
      BY <3>1 DEF BindingsTypeOK, CInv
  <2>3. CASE DialError(n) \/ Socket(n)
    <3>1. /\ conn' = [conn EXCEPT ![n] = "idle"] /\ using' = [using EXCEPT ![n] = 0]
          /\ UNCHANGED <<cnode, pc, life>>
      BY <2>3, Zenon
    <3> QED
      BY <3>1 DEF BindingsTypeOK, CInv
  <2> QED
    BY <2>1, <2>2, <2>3, Zenon
<1> QED
  BY <1>3, <1>4, <1>5, <1>6, Zenon

\* Every step keeps the invariant.
LEMMA BindingsNextInv == BindingsInv /\ [BindingsNext]_bindingsVars => BindingsInv'
<1> SUFFICES ASSUME BindingsInv, [BindingsNext]_bindingsVars PROVE BindingsInv'
  OBVIOUS
<1>1. CASE UNCHANGED bindingsVars
  <2> USE <1>1 DEF bindingsVars, owner, calls
  <2>1. BindingsTypeOK'
    BY DEF BindingsInv, BindingsTypeOK
  <2>2. LockInv' /\ HandleInv' /\ FreshInv'
    BY Zenon DEF BindingsInv, LockInv, HandleInv, FreshInv
  <2>3. LifeInv' /\ CInv'
    BY DEF BindingsInv, LifeInv, CInv
  <2> QED
    BY <2>1, <2>2, <2>3 DEF BindingsInv
<1>2. CASE BindingsNext
  BY <1>2, NewNodeInv, SetDialFuncInv, RegisterInv, OwnInv, CallInv
     DEF BindingsNext, OwnerStep, ThreadStep
<1> QED
  BY <1>1, <1>2

\* The inductive invariant holds.
THEOREM BindingsInvariant == BindingsSpec => []BindingsInv
  BY BindingsInitInv, BindingsNextInv, PTL DEF BindingsSpec

\* The variables keep their types, whatever the number of nodes.
THEOREM BindingsTypeCorrect == BindingsSpec => []BindingsTypeOK
  BY BindingsInvariant, PTL DEF BindingsInv

\* Every dial uses the dial function and the context of its own node: the lock makes
\* handles unique and keeps the registry's entries, and lives are not shared.
THEOREM OwnDialHolds == BindingsSpec => []OwnDial
<1>1. BindingsInv => OwnDial
  BY DEF BindingsInv, OwnDial, CInv, LifeInv
<1> QED
  BY <1>1, BindingsInvariant, PTL

\* The context of a node is done once New has failed or Close has returned.
THEOREM ContextsEndHolds == BindingsSpec => []ContextsEnd
<1>1. BindingsInv => ContextsEnd
  BY DEF BindingsInv, ContextsEnd, LifeInv
<1> QED
  BY <1>1, BindingsInvariant, PTL
-----------------------------------------------------------------------------
(* Startup: JoinPending, StoreNotOlder, NoOrphanNode and RunningConsistent.  *)
(*                                                                         *)
(* The inductive invariant says how far a call of New has come: which files  *)
(* the steps before have checked or written, what is in the list of cleanups *)
(* when something would have to be undone, and what the node store has in    *)
(* memory.                                                                  *)

ID    == {"none", "bootstrap", "joiner"}
Undo  == {"info", "store", "node"}
Steps == {"idle", "info", "writeJoin", "writeInfo", "checkJoin", "checkStore", "writeStore",
          "startNode", "serve", "running", "cleanup"}
Why   == {"none", "fault", "inconsistent", "bootstrap cannot join", "no cluster addresses"}
Call  == [pc : Steps, cluster : BOOLEAN, id : ID, infoExists : BOOLEAN,
          join : {"no", "add", "remove"}, servers : 0..MaxSets, set : 0..MaxSets,
          cleanups : Seq(Undo), why : Why]

Types ==
  /\ info \in ID /\ join \in BOOLEAN /\ store \in 0..MaxSets /\ known \in 0..MaxSets
  /\ node \in {"none", "running", "failed"} /\ joined \in BOOLEAN /\ new \in Call
  /\ past \subseteq {"cluster", "alone", "removal", "crash"}
  /\ faults \in Nat /\ crashes \in Nat

\* What is going to be undone when New fails.
Has(s, what) == \E i \in 1..Len(s) : s[i] = what
Undone(what) == Has(new.cleanups, what)

\* The steps after LoadInfo, CheckJoin and WriteStore, and before running.
Loaded  == {"checkJoin", "checkStore", "writeStore", "startNode", "serve", "running"}
Checked == Loaded \ {"checkJoin"}
Stored  == {"startNode", "serve", "running"}

JoinInv ==
  /\ JoinPending
  /\ new.pc \in {"writeJoin", "writeInfo"} => new.id # "none"
  /\ new.pc = "writeInfo" /\ new.id = "joiner" => join
  /\ new.join = "remove" => joined /\ new.pc = "running"

FilesInv ==
  /\ new.pc \in Loaded => info = new.id /\ info # "none"
  /\ new.pc \in Checked => (info = "bootstrap" => ~join)
  /\ new.pc \in Stored => store # 0

StoreInv ==
  /\ StoreNotOlder
  /\ new.pc = "writeStore" => store = 0
  /\ new.pc # "running" => (Undone("store") => known = 0) /\ new.set = 0
  /\ new.pc \in Stored => IF new.set = 0 THEN new.servers = store ELSE store = new.set

NodeInv == node = "running" /\ new.pc # "running" => Undone("node") /\ new.pc # "idle"

IInv == Types /\ JoinInv /\ FilesInv /\ StoreInv /\ NodeInv
-----------------------------------------------------------------------------
\* What is in an empty list of cleanups.
LEMMA HasEmpty == \A what : ~Has(<<>>, what)
  BY DEF Has

\* What is in a list that has got one more element.
LEMMA HasAppend ==
  ASSUME NEW s \in Seq(Undo), NEW x \in Undo
  PROVE  /\ Append(s, x) \in Seq(Undo)
         /\ \A what : Has(Append(s, x), what) <=> Has(s, what) \/ what = x
<1>1. Append(s, x) \in Seq(Undo)
  OBVIOUS
<1>2. /\ Len(Append(s, x)) = Len(s) + 1 /\ Append(s, x)[Len(s) + 1] = x
      /\ \A i \in 1..Len(s) : Append(s, x)[i] = s[i]
  OBVIOUS
<1> QED
  BY <1>1, <1>2 DEF Has

\* What is in a list that has lost its last element.
LEMMA HasFront ==
  ASSUME NEW s \in Seq(Undo), s # <<>>
  PROVE  /\ SubSeq(s, 1, Len(s) - 1) \in Seq(Undo) /\ s[Len(s)] \in Undo
         /\ \A what : Has(s, what) <=> Has(SubSeq(s, 1, Len(s) - 1), what) \/ what = s[Len(s)]
<1> DEFINE f == SubSeq(s, 1, Len(s) - 1)
<1>1. Len(s) \in Nat \ {0} /\ s[Len(s)] \in Undo
  OBVIOUS
<1>2. f \in Seq(Undo) /\ Len(f) = Len(s) - 1 /\ \A i \in 1..Len(f) : f[i] = s[i]
  <2>1. PICK n \in Nat : n = Len(s) - 1
    BY <1>1
  <2>2. SubSeq(s, 1, n) \in Seq(Undo) /\ Len(SubSeq(s, 1, n)) = n
    BY <2>1
  <2>3. \A i \in 1..n : SubSeq(s, 1, n)[i] = s[i]
    BY <2>1
  <2> QED BY <2>1, <2>2, <2>3
<1> HIDE DEF f
<1>3. \A what : Has(s, what) <=> Has(f, what) \/ what = s[Len(s)]
  BY <1>1, <1>2 DEF Has
<1> QED
  BY <1>1, <1>2, <1>3 DEF f

\* A call that has not begun.
LEMMA IdleType == ASSUME NEW why \in Why PROVE Idle(why) \in Call
<1>1. <<>> \in Seq(Undo)
  OBVIOUS
<1>2. 0 \in 0..MaxSets
  BY StartupAssumption
<1> QED
  BY <1>1, <1>2 DEF Idle, Call, Steps, ID

\* The beginning of everything.
LEMMA InitIInv == Init => IInv
<1> SUFFICES ASSUME Init PROVE IInv
  OBVIOUS
<1>1. new = Idle("none") /\ new \in Call
  <2>1. new = Idle("none")
    BY DEF Init
  <2>2. "none" \in Why
    BY DEF Why
  <2>3. Idle("none") \in Call
    BY <2>2, IdleType
  <2> QED
    BY <2>1, <2>3
<1>2. Types
  <2>1. join \in BOOLEAN /\ node \in {"none", "running", "failed"} /\ joined \in BOOLEAN
    BY Zenon DEF Init
  <2>2. store \in 0..MaxSets /\ known \in 0..MaxSets /\ faults \in Nat /\ crashes \in Nat
    BY StartupAssumption DEF Init
  <2>3. info \in ID /\ past \subseteq {"cluster", "alone", "removal", "crash"}
    BY DEF Init, ID
  <2> QED
    BY <1>1, <2>1, <2>2, <2>3 DEF Types
<1>3. JoinInv /\ FilesInv /\ StoreInv /\ NodeInv
  BY StartupAssumption DEF Init, Idle, JoinInv, JoinPending, FilesInv, Loaded, Checked, Stored,
     StoreInv, StoreNotOlder, Undone, Has, NodeInv
<1> QED
  BY <1>2, <1>3 DEF IInv

\* A call begins.
LEMMA NewInv ==
  ASSUME IInv, New
  PROVE  IInv'
<1> USE StartupAssumption DEF IInv, Goto, Fail, disk, counts, New, Idle
<1>1. new' \in Call
  <2>1. PICK cluster \in Clusters : new' = [Idle("none") EXCEPT !.pc = "info", !.cluster = cluster]
    BY Zenon
  <2>2. Idle("none") \in Call
    BY IdleType, Zenon DEF Why
  <2>3. cluster \in BOOLEAN
    OBVIOUS
  <2> HIDE DEF Idle
  <2> QED
    BY <2>1, <2>2, <2>3, Zenon DEF Call, Steps
<1>2. Types'
  BY <1>1 DEF Types, ID
<1>3. JoinInv'
  BY HasEmpty, <1>1 DEF Types, Call, JoinInv, JoinPending
<1>4. FilesInv'
  BY HasEmpty, <1>1 DEF Types, Call, FilesInv, Loaded, Checked, Stored
<1>5. StoreInv'
  BY HasEmpty, <1>1 DEF Types, Call, StoreInv, StoreNotOlder, Stored, Undone
<1>6. NodeInv'
  BY HasEmpty, <1>1 DEF Types, Call, NodeInv, Undone
<1> QED
  BY <1>2, <1>3, <1>4, <1>5, <1>6

\* New fails, and nothing else happens.
LEMMA FailInv ==
  ASSUME IInv, NEW why \in Why, Fail(why), new.pc \notin {"idle", "running"},
         UNCHANGED <<disk, node, joined, known, past, crashes>>, faults' \in Nat
  PROVE  IInv'
<1> USE DEF IInv, Fail, disk
<1>1. new' \in Call
  BY Zenon DEF Call, Steps, Types
<1>2. Types'
  BY <1>1 DEF Types
<1>3. JoinInv' /\ FilesInv'
  BY <1>1 DEF Types, Call, JoinInv, JoinPending, FilesInv, Loaded, Checked, Stored
<1>4. StoreInv' /\ NodeInv'
  BY <1>1 DEF Types, Call, StoreInv, StoreNotOlder, Stored, NodeInv, Undone
<1> QED
  BY <1>2, <1>3, <1>4

\* A step fails without an effect.
LEMMA FaultInv ==
  ASSUME IInv, NEW from \in Steps \ {"idle", "running", "cleanup"}, Fault(from)
  PROVE  IInv'
<1>1. faults' \in Nat
  BY DEF Fault, IInv, Types
<1> QED
  BY <1>1, FailInv, Zenon DEF Fault, Why

\* The ID is read or made up.
LEMMA LoadInfoInv ==
  ASSUME IInv, LoadInfo
  PROVE  IInv'
<1> USE StartupAssumption DEF IInv, Goto, Fail, disk, counts, LoadInfo
<1>1. new' \in Call
  BY ZenonT(60) DEF Call, Steps, ID, Why, Types
<1>2. Types'
  BY <1>1 DEF Types, ID
<1>3. JoinInv'
  BY <1>1 DEF Types, Call, JoinInv, JoinPending
<1>4. FilesInv'
  BY <1>1 DEF Types, Call, FilesInv, Loaded, Checked, Stored
<1>5. StoreInv'
  BY <1>1 DEF Types, Call, StoreInv, StoreNotOlder, Stored, Undone
<1>6. NodeInv'
  BY <1>1 DEF Types, Call, NodeInv, Undone
<1> QED
  BY <1>2, <1>3, <1>4, <1>5, <1>6

\* The join file comes first ...
LEMMA WriteJoinInv ==
  ASSUME IInv, WriteJoin
  PROVE  IInv'
<1> USE StartupAssumption DEF IInv, Goto, Fail, disk, counts, WriteJoin
<1>1. new' \in Call
  BY Zenon DEF Call, Steps, ID, Why, Types
<1>2. Types'
  BY <1>1 DEF Types, ID
<1>3. JoinInv'
  BY <1>1 DEF Types, Call, JoinInv, JoinPending
<1>4. FilesInv'
  BY <1>1 DEF Types, Call, FilesInv, Loaded, Checked, Stored
<1>5. StoreInv'
  BY <1>1 DEF Types, Call, StoreInv, StoreNotOlder, Stored, Undone
<1>6. NodeInv'
  BY <1>1 DEF Types, Call, NodeInv, Undone
<1> QED
  BY <1>2, <1>3, <1>4, <1>5, <1>6

\* ... so an ID that has to join finds it.
LEMMA WriteInfoInv ==
  ASSUME IInv, WriteInfo
  PROVE  IInv'
<1> USE StartupAssumption DEF IInv, Goto, Fail, disk, counts, WriteInfo, Undo
<1>1. new' \in Call
  BY HasAppend, Zenon DEF Call, Steps, ID, Why, Types
<1>2. Types'
  BY <1>1, Zenon DEF Types, Call, ID
<1>3. JoinInv'
  BY HasAppend, <1>1 DEF Types, Call, JoinInv, JoinPending
<1>4. FilesInv'
  BY HasAppend, <1>1 DEF Types, Call, JoinInv, FilesInv, Loaded, Checked, Stored
<1>5. StoreInv'
  BY HasAppend, <1>1 DEF Types, Call, StoreInv, StoreNotOlder, Stored, Undone
<1>6. NodeInv'
  BY HasAppend, <1>1 DEF Types, Call, NodeInv, Undone
<1> QED
  BY <1>2, <1>3, <1>4, <1>5, <1>6

\* A bootstrap node goes on only if there is no join file.
LEMMA CheckJoinInv ==
  ASSUME IInv, CheckJoin
  PROVE  IInv'
<1> USE DEF IInv, CheckJoin, disk, counts
<1>1. CASE new.id = "bootstrap" /\ join
  <2>1. Fail("bootstrap cannot join") /\ "bootstrap cannot join" \in Why /\ faults' \in Nat
    BY <1>1, Zenon DEF Why, Types
  <2> QED
    BY <2>1, FailInv, Zenon
<1>2. CASE ~(new.id = "bootstrap" /\ join)
  <2>1. PICK do \in {"no", "add"} : new' = [new EXCEPT !.pc = "checkStore", !.join = do]
    BY <1>2, Zenon
  <2>2. new' \in Call
    BY <2>1, Zenon DEF Call, Steps, Types
  <2>3. Types'
    BY <2>2, Zenon DEF Types
  <2>4. JoinInv' /\ FilesInv'
    BY <1>2, <2>1, <2>2, Zenon DEF Types, Call, JoinInv, JoinPending, FilesInv, Loaded, Checked, Stored
  <2>5. StoreInv' /\ NodeInv'
    BY <2>1, <2>2, Zenon DEF Types, Call, StoreInv, StoreNotOlder, Stored, NodeInv, Undone
  <2> QED
    BY <2>3, <2>4, <2>5, Zenon
<1> QED
  BY <1>1, <1>2, Zenon

\* The store is opened if info.yaml was there, and only then.
LEMMA CheckStoreInv ==
  ASSUME IInv, CheckStore
  PROVE  IInv'
<1> USE DEF IInv, CheckStore, disk, counts
<1>1. CASE new.infoExists # (store # 0)
  <2>1. Fail("inconsistent") /\ "inconsistent" \in Why /\ faults' \in Nat
    BY <1>1 DEF Why, Types
  <2> QED
    BY <2>1, FailInv
<1>2. CASE ~(new.infoExists # (store # 0))
  <2>1. PICK to \in {"startNode", "writeStore"} :
          /\ new' = [new EXCEPT !.pc = to, !.servers = store]
          /\ to = "startNode" <=> store # 0
    BY <1>2, Zenon
  <2>2. new' \in Call
    BY <2>1, Zenon DEF Call, Steps, Types
  <2>3. Types'
    BY <2>2 DEF Types
  <2>4. JoinInv' /\ FilesInv'
    BY <2>1, <2>2 DEF Types, Call, JoinInv, JoinPending, FilesInv, Loaded, Checked, Stored
  <2>5. StoreInv' /\ NodeInv'
    BY <2>1, <2>2 DEF Types, Call, StoreInv, StoreNotOlder, Stored, NodeInv, Undone
  <2> QED
    BY <2>3, <2>4, <2>5
<1> QED
  BY <1>1, <1>2

\* The first list is written only where there was none.
LEMMA WriteStoreInv ==
  ASSUME IInv, WriteStore
  PROVE  IInv'
<1> USE DEF IInv, WriteStore, disk, counts
<1>1. CASE new.id # "bootstrap" /\ ~new.cluster
  <2>1. Fail("no cluster addresses") /\ "no cluster addresses" \in Why /\ faults' \in Nat
    BY <1>1, Zenon DEF Why, Types
  <2>2. UNCHANGED store
    BY <1>1, Zenon
  <2> QED
    BY <2>1, <2>2, FailInv, Zenon
<1>2. CASE ~(new.id # "bootstrap" /\ ~new.cluster)
  <2>1. /\ new.pc = "writeStore" /\ store' = 1
        /\ new' = [new EXCEPT !.pc = "startNode", !.servers = 1, !.cleanups = Append(@, "store")]
        /\ UNCHANGED <<info, join, node, joined, faults, crashes, past, known>>
    BY <1>2, Zenon
  <2> HIDE DEF WriteStore
  <2>2. PICK more \in Seq(Undo) :
          more = Append(new.cleanups, "store") /\ (Has(more, "node") <=> Has(new.cleanups, "node"))
    BY HasAppend, ZenonT(60) DEF Types, Call, Undo
  <2>3. new' = [new EXCEPT !.pc = "startNode", !.servers = 1, !.cleanups = more]
    BY <2>1, <2>2
  <2>4. 1 \in 0..MaxSets
    BY StartupAssumption
  <2>5. new' \in Call
    BY <2>3, <2>4, Zenon DEF Call, Steps, Types
  <2>6. Types'
    BY <2>1, <2>4, <2>5 DEF Types
  <2>7. JoinInv' /\ FilesInv'
    BY <2>1, <2>3, <2>5 DEF Types, Call, JoinInv, JoinPending, FilesInv, Loaded, Checked, Stored
  <2>8. known = 0
    BY <2>1 DEF StoreInv, StoreNotOlder, Types
  <2>9. StoreInv' /\ NodeInv'
    BY <2>1, <2>2, <2>3, <2>5, <2>8
       DEF Types, Call, StoreInv, StoreNotOlder, Stored, NodeInv, Undone
  <2> QED
    BY <2>6, <2>7, <2>9
<1> QED
  BY <1>1, <1>2, Zenon

\* The node runs and its cleanup is registered.
LEMMA StartNodeInv ==
  ASSUME IInv, StartNode
  PROVE  IInv'
<1> USE StartupAssumption DEF IInv, Goto, Fail, disk, counts, StartNode, NodeStart, Undo
<1>1. new' \in Call
  BY HasAppend, Zenon DEF Call, Steps, ID, Why, Types
<1>2. Types'
  BY <1>1 DEF Types, ID
<1>3. JoinInv'
  BY HasAppend, <1>1 DEF Types, Call, JoinInv, JoinPending
<1>4. FilesInv'
  BY HasAppend, <1>1 DEF Types, Call, FilesInv, Loaded, Checked, Stored
<1>5. StoreInv'
  BY HasAppend, <1>1 DEF Types, Call, StoreInv, StoreNotOlder, Stored, Undone
<1>6. NodeInv'
  BY HasAppend, <1>1 DEF Types, Call, NodeInv, Undone
<1> QED
  BY <1>2, <1>3, <1>4, <1>5, <1>6

\* New returns.
LEMMA ServeInv ==
  ASSUME IInv, Serve
  PROVE  IInv'
<1> USE StartupAssumption DEF IInv, Goto, Fail, disk, counts, Serve
<1>1. new' \in Call
  BY Zenon DEF Call, Steps, ID, Why, Types
<1>2. Types'
  BY <1>1 DEF Types, Call, ID
<1>3. JoinInv'
  BY <1>1 DEF Types, Call, JoinInv, JoinPending
<1>4. FilesInv'
  BY <1>1 DEF Types, Call, FilesInv, Loaded, Checked, Stored
<1>5. StoreInv'
  BY <1>1 DEF Types, Call, StoreInv, StoreNotOlder, Stored, Undone
<1>6. NodeInv'
  BY <1>1 DEF Types, Call, NodeInv, Undone
<1> QED
  BY <1>2, <1>3, <1>4, <1>5, <1>6

\* Cleanups are undone from the last to the first.
LEMMA CleanupInv ==
  ASSUME IInv, Cleanup
  PROVE  IInv'
<1> USE DEF IInv, disk
<1>1. CASE new.cleanups = <<>>
  <2>1. /\ new' = Idle(new.why) /\ UNCHANGED <<info, join, store, node, joined, faults, past, crashes, known>>
    BY <1>1 DEF Cleanup
  <2>2. new' \in Call
    BY <2>1, IdleType DEF Types, Call
  <2>3. Types'
    BY <2>1, <2>2 DEF Types
  <2>4. ~Undone("node")
    BY <1>1, HasEmpty DEF Undone
  <2>5. node # "running" /\ ~Undone("store")'
    BY <2>1, <2>4, HasEmpty DEF NodeInv, Cleanup, Idle, Undone
  <2>6. JoinInv' /\ FilesInv'
    BY <2>1 DEF JoinInv, JoinPending, FilesInv, Loaded, Checked, Stored, Idle
  <2>7. StoreInv' /\ NodeInv'
    BY <2>1, <2>5 DEF StoreInv, StoreNotOlder, Stored, NodeInv, Idle
  <2> QED
    BY <2>3, <2>6, <2>7
<1>2. CASE new.cleanups # <<>>
  <2> DEFINE last  == new.cleanups[Len(new.cleanups)]
             front == SubSeq(new.cleanups, 1, Len(new.cleanups) - 1)
  <2>1. /\ front \in Seq(Undo) /\ last \in Undo
        /\ \A what : Has(new.cleanups, what) <=> Has(front, what) \/ what = last
    BY <1>2, HasFront DEF Types, Call
  <2>2. /\ new.pc = "cleanup" /\ new' = [new EXCEPT !.cleanups = front]
        /\ UNCHANGED <<join, joined, crashes, known>>
    BY <1>2 DEF Cleanup
  <2>3. /\ info' = info \/ info' = "none"
        /\ store' = store \/ (last = "store" /\ store' = 0)
        /\ faults' = faults \/ faults' = faults + 1
        /\ past' = past \/ past' = past \cup {"removal"}
        /\ IF last = "node" THEN node' \in {"none", "failed"} ELSE node' = node
    BY <1>2 DEF Cleanup, NodeClose
  <2> HIDE DEF last, front
  <2>4. new' \in Call
    BY <2>1, <2>2, Zenon DEF Call, Types
  <2>5. node' \in {"none", "running", "failed"}
    BY <2>3 DEF Types
  <2>6. Types'
    BY <2>2, <2>3, <2>4, <2>5, StartupAssumption DEF Types, ID
  <2>7. JoinInv' /\ FilesInv'
    BY <2>2, <2>3, <2>4 DEF Types, Call, JoinInv, JoinPending, FilesInv, Loaded, Checked, Stored
  <2>8. last = "store" => known = 0
    BY <2>1, <2>2 DEF StoreInv, Undone
  <2>9. StoreInv'
    BY <2>1, <2>2, <2>3, <2>4, <2>8 DEF Types, Call, StoreInv, StoreNotOlder, Stored, Undone
  <2>10. NodeInv'
    BY <2>1, <2>2, <2>3, <2>4 DEF Types, Call, NodeInv, Undone
  <2> QED
    BY <2>6, <2>7, <2>9, <2>10
<1> QED
  BY <1>1, <1>2

\* The node is added.
LEMMA AddInv ==
  ASSUME IInv, Add
  PROVE  IInv'
<1> USE StartupAssumption DEF IInv, Goto, Fail, disk, counts, Add
<1>1. new' \in Call
  BY Zenon DEF Call, Steps, ID, Why, Types
<1>2. Types'
  BY <1>1 DEF Types, ID
<1>3. JoinInv'
  BY <1>1 DEF Types, Call, JoinInv, JoinPending
<1>4. FilesInv'
  BY <1>1 DEF Types, Call, FilesInv, Loaded, Checked, Stored
<1>5. StoreInv'
  BY <1>1 DEF Types, Call, StoreInv, StoreNotOlder, Stored, Undone
<1>6. NodeInv'
  BY <1>1 DEF Types, Call, NodeInv, Undone
<1> QED
  BY <1>2, <1>3, <1>4, <1>5, <1>6

\* The join file goes once the node has joined.
LEMMA RemoveJoinInv ==
  ASSUME IInv, RemoveJoin
  PROVE  IInv'
<1> USE DEF IInv, RemoveJoin
<1>1. new' \in Call
  BY DEF Call, Types
<1>2. join' = FALSE \/ join' = join
  OBVIOUS
<1>3. faults' \in Nat
  BY DEF Types
<1>4. join' \in BOOLEAN
  BY <1>2, Zenon DEF Types
<1>5. Types'
  BY <1>1, <1>3, <1>4 DEF Types
<1>6. JoinInv' /\ FilesInv'
  BY <1>1, <1>2 DEF Types, Call, JoinInv, JoinPending, FilesInv, Loaded, Checked, Stored
<1>7. StoreInv' /\ NodeInv'
  BY <1>1 DEF Types, Call, StoreInv, StoreNotOlder, Stored, NodeInv, Undone
<1> QED
  BY <1>5, <1>6, <1>7

\* The file is written, or nothing happens ...
LEMMA SetWriteInv ==
  ASSUME IInv, SetWrite
  PROVE  IInv'
<1> USE DEF IInv
<1>1. /\ new.pc = "running" /\ new.join = "no" /\ new.set = 0 /\ store < MaxSets
      /\ UNCHANGED <<info, join, node, joined, crashes, past, known>>
      /\ \/ store' = store + 1 /\ new' = [new EXCEPT !.set = store'] /\ faults' = faults
         \/ faults' = faults + 1 /\ UNCHANGED <<store, new>>
  BY DEF SetWrite
<1>2. store' \in 0..MaxSets /\ faults' \in Nat
  BY <1>1, StartupAssumption DEF Types
<1>3. new' \in Call
  BY <1>1, <1>2 DEF Call, Types
<1>4. Types'
  BY <1>1, <1>2, <1>3 DEF Types
<1>5. new'.pc = "running" /\ new'.join = "no" /\ new'.id = new.id
  BY <1>1 DEF Types, Call
<1>6. store' # 0 /\ store' >= store
  BY <1>1 DEF Types, FilesInv, Stored
<1>7. JoinInv' /\ FilesInv'
  BY <1>1, <1>5, <1>6 DEF JoinInv, JoinPending, FilesInv, Loaded, Checked, Stored
<1>8. IF new'.set = 0 THEN new'.servers = store' ELSE store' = new'.set
  BY <1>1, <1>6 DEF Types, Call, StoreInv, Stored
<1>9. StoreInv' /\ NodeInv'
  BY <1>1, <1>2, <1>5, <1>6, <1>8 DEF Types, StoreInv, StoreNotOlder, Stored, NodeInv
<1> QED
  BY <1>4, <1>7, <1>9

\* ... and the list in memory follows.
LEMMA SetPublishInv ==
  ASSUME IInv, SetPublish
  PROVE  IInv'
<1> USE DEF IInv, SetPublish, disk
<1>1. new' \in Call
  <2>1. 0 \in 0..MaxSets
    BY StartupAssumption
  <2> QED
    BY <2>1, Zenon DEF Call, Types
<1>2. Types'
  BY <1>1 DEF Types, Call
<1>3. JoinInv' /\ FilesInv'
  BY <1>1 DEF Types, Call, JoinInv, JoinPending, FilesInv, Loaded, Checked, Stored
<1>4. StoreInv' /\ NodeInv'
  BY <1>1 DEF Types, Call, StoreInv, StoreNotOlder, Stored, NodeInv, Undone
<1> QED
  BY <1>2, <1>3, <1>4

\* The App is closed, or the process crashes: nothing runs, the files stay.
LEMMA CloseInv ==
  ASSUME IInv, Close \/ Crash
  PROVE  IInv'
<1> USE DEF IInv, disk, counts
<1>1. /\ new' = Idle("none") /\ node' \in {"none", "failed"}
      /\ UNCHANGED <<info, join, store, joined, known>>
  BY DEF Close, Crash, NodeClose
<1>2. /\ crashes' \in Nat /\ faults' \in Nat
      /\ past' \subseteq {"cluster", "alone", "removal", "crash"}
  <2>1. CASE Close
    BY <2>1 DEF Close, NodeClose, Types
  <2>2. CASE Crash
    BY <2>2 DEF Crash, Types
  <2> QED
    BY <2>1, <2>2
<1>3. new' \in Call
  BY <1>1, IdleType, Zenon DEF Why
<1>4. Types'
  BY <1>1, <1>2, <1>3 DEF Types
<1>5. JoinInv' /\ FilesInv'
  BY <1>1 DEF JoinInv, JoinPending, FilesInv, Loaded, Checked, Stored, Idle
<1>6. StoreInv' /\ NodeInv'
  BY <1>1, HasEmpty DEF StoreInv, StoreNotOlder, Stored, NodeInv, Idle, Undone
<1> QED
  BY <1>4, <1>5, <1>6

\* Every step keeps the invariant.
LEMMA NextIInv == IInv /\ [Next]_vars => IInv'
<1> SUFFICES ASSUME IInv, [Next]_vars PROVE IInv'
  OBVIOUS
<1>1. CASE UNCHANGED vars
  <2> USE <1>1 DEF vars, disk, counts
  <2>1. Types'
    BY DEF IInv, Types
  <2>2. JoinInv' /\ FilesInv'
    BY DEF IInv, JoinInv, JoinPending, FilesInv
  <2>3. StoreInv' /\ NodeInv'
    BY DEF IInv, StoreInv, StoreNotOlder, NodeInv, Undone
  <2> QED
    BY <2>1, <2>2, <2>3 DEF IInv
<1>2. CASE \E from \in {"info", "writeJoin", "writeInfo", "checkJoin", "checkStore", "writeStore",
                        "startNode", "serve"} : Fault(from)
  <2>1. PICK from \in Steps \ {"idle", "running", "cleanup"} : Fault(from)
    BY <1>2 DEF Steps
  <2> QED
    BY <2>1, FaultInv
<1>3. CASE New \/ LoadInfo \/ WriteJoin \/ WriteInfo \/ CheckJoin \/ CheckStore \/ WriteStore
  BY <1>3, NewInv, LoadInfoInv, WriteJoinInv, WriteInfoInv, CheckJoinInv, CheckStoreInv,
     WriteStoreInv
<1>4. CASE StartNode \/ Serve \/ Cleanup \/ Add \/ RemoveJoin \/ SetWrite \/ SetPublish
           \/ Close \/ Crash
  BY <1>4, StartNodeInv, ServeInv, CleanupInv, AddInv, RemoveJoinInv, SetWriteInv, SetPublishInv,
     CloseInv
<1> QED
  BY <1>1, <1>2, <1>3, <1>4 DEF Next

\* The inductive invariant holds.
THEOREM Inductive == Spec => []IInv
  BY InitIInv, NextIInv, PTL DEF Spec

\* A node that has to join, and has not joined, has its join file: it is written
\* before the ID and removed only after Add.
THEOREM JoinPendingHolds == Spec => []JoinPending
<1>1. IInv => JoinPending
  BY DEF IInv, JoinInv
<1> QED
  BY <1>1, Inductive, PTL

\* cluster.yaml is never older than a list that a running App has used: it is
\* written before the list in memory, and removed only by the call that has made it.
THEOREM StoreNotOlderHolds == Spec => []StoreNotOlder
<1>1. IInv => StoreNotOlder
  BY DEF IInv, StoreInv
<1> QED
  BY <1>1, Inductive, PTL

\* No dqlite node is left behind that could be stopped: its cleanup is in the list as
\* long as New may fail.
THEOREM NoOrphanNodeHolds == Spec => []NoOrphanNode
<1>1. IInv => NoOrphanNode
  BY DEF IInv, NodeInv, NoOrphanNode
<1> QED
  BY <1>1, Inductive, PTL

\* A running App has both of its files, and no join file if it is the bootstrap node.
THEOREM RunningConsistentHolds == Spec => []RunningConsistent
<1>1. IInv => RunningConsistent
  BY DEF IInv, FilesInv, Loaded, Checked, Stored, RunningConsistent
<1> QED
  BY <1>1, Inductive, PTL
-----------------------------------------------------------------------------
(* Startup: Retryable.                                                      *)
(*                                                                         *)
(* As long as nothing has crashed, every removal has succeeded and the      *)
(* options are the same, the two files exist together or not at all, once   *)
(* the cleanups that are pending have run; and the ID is of the kind that   *)
(* the options ask for.                                                     *)

Calm == past \subseteq {"cluster"} \/ past \subseteq {"alone"}

\* What is left of the files if New fails now.
InfoLeft  == info # "none" /\ ~Undone("info")
StoreLeft == store # 0 /\ ~Undone("store")

\* The files agree, and a call has seen what there is.
PairInv ==
  /\ InfoLeft <=> StoreLeft
  /\ new.pc \in {"idle", "info", "writeJoin", "writeInfo"} => ~Undone("info") /\ ~Undone("store")
  /\ new.pc \in {"writeJoin", "writeInfo"} => info = "none"
  /\ new.pc = "info" => ~new.infoExists
  /\ new.pc \in {"writeJoin", "writeInfo", "checkJoin", "checkStore"} => (new.infoExists <=> store # 0)

\* The files and the call are of the one kind that was ever asked for.
KindInv ==
  /\ "cluster" \notin past => ~join /\ info # "joiner" /\ new.id # "joiner" /\ new.pc # "writeJoin"
  /\ "alone" \notin past => info # "bootstrap" /\ new.id # "bootstrap"
  /\ new.pc \in Steps \ {"idle", "running", "cleanup"} =>
       IF new.cluster THEN "cluster" \in past ELSE "alone" \in past

RetryInv == Calm => PairInv /\ KindInv /\ new.why \in {"none", "fault"}

\* A step fails without an effect.
LEMMA FaultRetry ==
  ASSUME IInv, RetryInv, NEW from \in Steps \ {"idle", "running", "cleanup"}, Fault(from)
  PROVE  RetryInv'
<1>1. new.pc = from /\ new' = [new EXCEPT !.pc = "cleanup", !.why = "fault"] /\ new \in Call
  BY DEF Fault, Fail, IInv, Types
<1>2. /\ new'.pc = "cleanup" /\ new'.why = "fault" /\ new'.id = new.id /\ new'.cleanups = new.cleanups
      /\ UNCHANGED <<info, join, store, past>>
  BY <1>1 DEF Call, Fault, disk
<1> QED BY <1>2 DEF RetryInv, Calm, PairInv, KindInv, InfoLeft, StoreLeft, Undone

LEMMA NewRetry ==
  ASSUME IInv, RetryInv, New
  PROVE  RetryInv'
<1> SUFFICES ASSUME Calm' PROVE (PairInv /\ KindInv)' /\ new'.why = "none"
  BY DEF RetryInv
<1>1. PICK cluster \in BOOLEAN : /\ new' = [Idle("none") EXCEPT !.pc = "info", !.cluster = cluster]
                                 /\ past' = past \cup {IF cluster THEN "cluster" ELSE "alone"}
  BY StartupAssumption, Zenon DEF New
<1>2. /\ new'.pc = "info" /\ new'.cluster = cluster /\ new'.id = "none" /\ new'.cleanups = <<>>
      /\ new'.why = "none" /\ new'.infoExists = FALSE
  BY <1>1 DEF Idle
<1>3. new.pc = "idle" /\ UNCHANGED <<info, join, store>> /\ Calm
  BY <1>1 DEF New, disk, Calm
<1>4. PairInv /\ KindInv
  BY <1>3 DEF RetryInv
<1>5. PairInv'
  BY <1>2, <1>3, <1>4, HasEmpty DEF PairInv, InfoLeft, StoreLeft, Undone
<1>6. KindInv'
  BY <1>1, <1>2, <1>3, <1>4 DEF KindInv
<1> QED BY <1>2, <1>5, <1>6

LEMMA LoadInfoRetry ==
  ASSUME IInv, RetryInv, LoadInfo
  PROVE  RetryInv'
<1> SUFFICES ASSUME Calm PROVE (PairInv /\ KindInv)' /\ new'.why \in {"none", "fault"}
  BY DEF RetryInv, LoadInfo, Calm, counts
<1>1. /\ new.pc = "info" /\ UNCHANGED <<info, join, store, past>> /\ new \in Call
      /\ PairInv /\ KindInv /\ new.why \in {"none", "fault"}
  BY DEF LoadInfo, disk, counts, RetryInv, IInv, Types
<1>2. info # "none" <=> store # 0
  BY <1>1 DEF PairInv, InfoLeft, StoreLeft
<1>3. CASE info # "none"
  <2>1. new' = [new EXCEPT !.pc = "checkJoin", !.id = info, !.infoExists = TRUE]
    BY <1>3 DEF LoadInfo
  <2>2. /\ new'.pc = "checkJoin" /\ new'.id = info /\ new'.infoExists /\ new'.cleanups = new.cleanups
        /\ new'.why = new.why /\ new'.cluster = new.cluster
    BY <1>1, <2>1 DEF Call
  <2> QED BY <1>1, <1>2, <1>3, <2>2 DEF PairInv, InfoLeft, StoreLeft, Undone, KindInv, Steps
<1>4. CASE info = "none"
  <2>1. PICK to \in {"writeJoin", "writeInfo"}, id \in {"joiner", "bootstrap"} :
          /\ new' = [new EXCEPT !.pc = to, !.id = id]
          /\ new.cluster => to = "writeJoin" /\ id = "joiner"
          /\ ~new.cluster => to = "writeInfo" /\ id = "bootstrap"
    BY <1>4 DEF LoadInfo
  <2>2. /\ new'.pc = to /\ new'.id = id /\ (new'.infoExists <=> new.infoExists)
        /\ new'.cleanups = new.cleanups /\ new'.why = new.why /\ (new'.cluster <=> new.cluster)
    BY <1>1, <2>1 DEF Call
  <2>3. PairInv'
    BY <1>1, <1>2, <1>4, <2>1, <2>2 DEF PairInv, InfoLeft, StoreLeft, Undone
  <2>4. KindInv'
    BY <1>1, <1>4, <2>1, <2>2 DEF KindInv, Steps
  <2> QED BY <1>1, <2>2, <2>3, <2>4
<1> QED BY <1>3, <1>4

LEMMA WriteRetry ==
  ASSUME IInv, RetryInv, WriteJoin \/ WriteInfo
  PROVE  RetryInv'
<1> SUFFICES ASSUME Calm PROVE (PairInv /\ KindInv)' /\ new'.why \in {"none", "fault"}
  BY DEF RetryInv, WriteJoin, WriteInfo, Calm, counts
<1>1. /\ UNCHANGED <<store, past>> /\ new \in Call /\ JoinInv
      /\ PairInv /\ KindInv /\ new.why \in {"none", "fault"}
  BY DEF WriteJoin, WriteInfo, counts, RetryInv, IInv, Types
<1>2. CASE WriteJoin
  <2>1. /\ new.pc = "writeJoin" /\ UNCHANGED info /\ new'.pc = "writeInfo" /\ new'.id = new.id
        /\ (new'.infoExists <=> new.infoExists) /\ new'.cleanups = new.cleanups
        /\ new'.why = new.why /\ (new'.cluster <=> new.cluster)
    BY <1>1, <1>2 DEF WriteJoin, Goto, Call
  <2> QED BY <1>1, <2>1 DEF PairInv, InfoLeft, StoreLeft, Undone, KindInv, Steps
<1>3. CASE WriteInfo
  <2>1. /\ new.pc = "writeInfo" /\ info' = new.id /\ join' = join
        /\ new' = [new EXCEPT !.pc = "checkJoin", !.cleanups = Append(@, "info")]
    BY <1>3 DEF WriteInfo
  <2>2. /\ new'.pc = "checkJoin" /\ new'.id = new.id /\ (new'.infoExists <=> new.infoExists)
        /\ new'.cleanups = Append(new.cleanups, "info")
        /\ new'.why = new.why /\ (new'.cluster <=> new.cluster)
    BY <1>1, <2>1 DEF Call
  <2>3. \A what : Has(new'.cleanups, what) <=> Has(new.cleanups, what) \/ what = "info"
    BY <1>1, <2>2, HasAppend DEF Call, Undo
  <2>4. store = 0
    BY <1>1, <2>1 DEF PairInv, InfoLeft, StoreLeft
  <2>5. PairInv'
    BY <1>1, <2>1, <2>2, <2>3, <2>4 DEF PairInv, InfoLeft, StoreLeft, Undone
  <2>6. KindInv'
    BY <1>1, <2>1, <2>2 DEF KindInv, Steps
  <2> QED BY <1>1, <2>2, <2>5, <2>6
<1> QED BY <1>2, <1>3

LEMMA CheckRetry ==
  ASSUME IInv, RetryInv, CheckJoin \/ CheckStore
  PROVE  RetryInv'
<1> SUFFICES ASSUME Calm PROVE (PairInv /\ KindInv)' /\ new'.why \in {"none", "fault"}
  BY Zenon DEF RetryInv, CheckJoin, CheckStore, Calm, counts
<1>1. /\ UNCHANGED <<info, join, store, past>> /\ new \in Call /\ FilesInv
      /\ PairInv /\ KindInv /\ new.why \in {"none", "fault"}
  BY Zenon DEF CheckJoin, CheckStore, disk, counts, RetryInv, IInv, Types
<1>2. new.pc \in {"checkJoin", "checkStore"}
  BY Zenon DEF CheckJoin, CheckStore
<1>3. ~(new.id = "bootstrap" /\ join)
  BY <1>1 DEF Calm, KindInv
<1>4. new.infoExists <=> store # 0
  BY <1>1, <1>2 DEF PairInv
<1>5. \/ \E j \in {"add", "no"} : new' = [new EXCEPT !.pc = "checkStore", !.join = j]
      \/ \E to \in {"startNode", "writeStore"} : new' = [new EXCEPT !.pc = to, !.servers = store]
  <2>1. CASE CheckJoin
    BY <1>3, <2>1, Zenon DEF CheckJoin
  <2>2. CASE CheckStore
    BY <1>1, <1>4, <2>2, Zenon DEF CheckStore, Call
  <2> QED BY <2>1, <2>2
<1>6. PICK to \in {"checkStore", "startNode", "writeStore"} :
        /\ new'.pc = to /\ new'.id = new.id /\ (new'.infoExists <=> new.infoExists)
        /\ new'.cleanups = new.cleanups /\ new'.why = new.why /\ (new'.cluster <=> new.cluster)
  BY <1>1, <1>5, Zenon DEF Call
<1> QED BY <1>1, <1>2, <1>4, <1>6 DEF PairInv, InfoLeft, StoreLeft, Undone, KindInv, Steps

LEMMA WriteStoreRetry ==
  ASSUME IInv, RetryInv, WriteStore
  PROVE  RetryInv'
<1> SUFFICES ASSUME Calm PROVE (PairInv /\ KindInv)' /\ new'.why \in {"none", "fault"}
  BY Zenon DEF RetryInv, WriteStore, Calm, counts
<1>1. /\ new.pc = "writeStore" /\ UNCHANGED <<info, join, past>> /\ new \in Call /\ FilesInv /\ store = 0
      /\ PairInv /\ KindInv /\ new.why \in {"none", "fault"}
  BY Zenon DEF WriteStore, counts, RetryInv, IInv, Types, StoreInv
<1>2. new.id \in {"bootstrap", "joiner"}
  BY <1>1 DEF FilesInv, Loaded, Call, ID
<1>3. ~(new.id # "bootstrap" /\ ~new.cluster)
  BY <1>1, <1>2 DEF Calm, KindInv, Steps
<1>4. /\ store' = 1
      /\ new' = [new EXCEPT !.pc = "startNode", !.servers = 1, !.cleanups = Append(@, "store")]
  BY <1>3, Zenon DEF WriteStore
<1>5. /\ new'.pc = "startNode" /\ new'.id = new.id /\ new'.cleanups = Append(new.cleanups, "store")
      /\ new'.why = new.why /\ (new'.cluster <=> new.cluster)
  BY <1>1, <1>4 DEF Call
<1>6. \A what : Has(new'.cleanups, what) <=> Has(new.cleanups, what) \/ what = "store"
  BY <1>1, <1>5, HasAppend DEF Call, Undo
<1>7. PairInv'
  BY <1>1, <1>5, <1>6 DEF PairInv, InfoLeft, StoreLeft, Undone
<1>8. KindInv'
  BY <1>1, <1>5 DEF KindInv, Steps
<1> QED BY <1>1, <1>5, <1>7, <1>8

\* The node starts, and New returns.
LEMMA StartRetry ==
  ASSUME IInv, RetryInv, StartNode \/ Serve
  PROVE  RetryInv'
<1>1. UNCHANGED <<info, join, store, past>> /\ new \in Call
  BY DEF StartNode, Serve, disk, counts, IInv, Types
<1>2. PICK to \in {"serve", "running"}, more \in Seq(Undo) :
        /\ new' = [new EXCEPT !.pc = to, !.cleanups = more] /\ new.pc \in {"startNode", "serve"}
        /\ \A what : what # "node" => (Has(more, what) <=> Has(new.cleanups, what))
  <2>1. CASE StartNode
    BY <1>1, <2>1, HasAppend, ZenonT(60) DEF StartNode, Call, Undo
  <2>2. CASE Serve
    <3>1. new' = [new EXCEPT !.pc = "running", !.cleanups = new.cleanups] /\ new.cleanups \in Seq(Undo)
      BY <1>1, <2>2, Zenon DEF Serve, Goto, Call
    <3> QED BY <2>2, <3>1, Zenon DEF Serve
  <2> QED BY <2>1, <2>2, Zenon
<1>3. /\ new'.pc = to /\ new'.id = new.id /\ new'.cleanups = more
      /\ new'.why = new.why /\ (new'.cluster <=> new.cluster)
  BY <1>1, <1>2 DEF Call
<1> QED BY <1>1, <1>2, <1>3 DEF RetryInv, Calm, PairInv, KindInv, InfoLeft, StoreLeft, Undone, Steps

\* What is undone was going to be.
LEMMA CleanupRetry ==
  ASSUME IInv, RetryInv, Cleanup
  PROVE  RetryInv'
<1> SUFFICES ASSUME Calm' PROVE (PairInv /\ KindInv)' /\ new'.why \in {"none", "fault"}
  BY DEF RetryInv
<1>1. "removal" \notin past'
  BY DEF Calm
<1>2. new.pc = "cleanup" /\ UNCHANGED <<join, past>> /\ new \in Call
  BY <1>1 DEF Cleanup, IInv, Types
<1>3. PairInv /\ KindInv /\ new.why \in {"none", "fault"}
  BY <1>2 DEF RetryInv, Calm
<1>4. CASE new.cleanups = <<>>
  <2>1. new' = Idle(new.why) /\ UNCHANGED <<info, store>>
    BY <1>4 DEF Cleanup
  <2>2. new'.pc = "idle" /\ new'.id = "none" /\ new'.cleanups = <<>> /\ new'.why = new.why
    BY <2>1 DEF Idle
  <2> QED BY <1>2, <1>3, <1>4, <2>1, <2>2, HasEmpty, Zenon
          DEF PairInv, KindInv, InfoLeft, StoreLeft, Undone, Steps
<1>5. CASE new.cleanups # <<>>
  <2> DEFINE last  == new.cleanups[Len(new.cleanups)]
             front == SubSeq(new.cleanups, 1, Len(new.cleanups) - 1)
  <2>1. \A what : Has(new.cleanups, what) <=> Has(front, what) \/ what = last
    BY <1>2, <1>5, HasFront DEF Call
  <2>2. /\ new' = [new EXCEPT !.cleanups = front]
        /\ info' = (IF last = "info" THEN "none" ELSE info)
        /\ store' = (IF last = "store" THEN 0 ELSE store)
    BY <1>1, <1>5 DEF Cleanup
  <2> HIDE DEF last, front
  <2>3. /\ new'.pc = "cleanup" /\ new'.id = new.id /\ new'.cleanups = front /\ new'.why = new.why
    BY <1>2, <2>2 DEF Call
  <2>4. PairInv'
    BY <1>2, <1>3, <2>1, <2>2, <2>3 DEF PairInv, InfoLeft, StoreLeft, Undone
  <2>5. KindInv'
    BY <1>2, <1>3, <2>2, <2>3 DEF KindInv, Steps
  <2> QED BY <1>3, <2>3, <2>4, <2>5
<1> QED BY <1>4, <1>5

\* An App that runs keeps both files until it is closed.
LEMMA RunRetry ==
  ASSUME IInv, RetryInv, Add \/ RemoveJoin \/ SetWrite \/ SetPublish
  PROVE  RetryInv'
<1>1. /\ UNCHANGED <<info, past>> /\ new \in Call /\ new.pc = "running" /\ (join' => join)
      /\ store \in Nat /\ store # 0
  BY DEF Add, RemoveJoin, SetWrite, SetPublish, disk, counts, IInv, Types, FilesInv, Stored
<1>2. /\ new'.pc = "running" /\ new'.id = new.id /\ new'.cleanups = new.cleanups /\ new'.why = new.why
  BY <1>1, Zenon DEF Add, RemoveJoin, SetWrite, SetPublish, Call
<1>3. store' # 0
  BY <1>1 DEF Add, RemoveJoin, SetWrite, SetPublish, disk
<1> QED BY <1>1, <1>2, <1>3 DEF RetryInv, Calm, PairInv, KindInv, InfoLeft, StoreLeft, Undone, Steps

LEMMA CloseRetry ==
  ASSUME IInv, RetryInv, Close
  PROVE  RetryInv'
<1>1. /\ UNCHANGED <<info, join, store, past>> /\ new' = Idle("none") /\ info # "none" /\ store # 0
  BY DEF Close, disk, counts, IInv, FilesInv, Loaded, Stored
<1>2. new'.pc = "idle" /\ new'.id = "none" /\ new'.cleanups = <<>> /\ new'.why = "none"
  BY <1>1 DEF Idle
<1> QED BY <1>1, <1>2, HasEmpty DEF RetryInv, Calm, PairInv, KindInv, InfoLeft, StoreLeft, Undone, Steps

LEMMA NextRetry == IInv /\ RetryInv /\ [Next]_vars => RetryInv'
<1> SUFFICES ASSUME IInv, RetryInv, [Next]_vars PROVE RetryInv'
  OBVIOUS
<1>1. CASE UNCHANGED vars
  BY <1>1 DEF vars, disk, counts, RetryInv, Calm, PairInv, KindInv, InfoLeft, StoreLeft, Undone
<1>2. CASE \E from \in {"info", "writeJoin", "writeInfo", "checkJoin", "checkStore", "writeStore",
                        "startNode", "serve"} : Fault(from)
  BY <1>2, FaultRetry DEF Steps
<1>3. CASE Crash
  BY <1>3 DEF Crash, RetryInv, Calm
<1> QED
  BY <1>1, <1>2, <1>3, NewRetry, LoadInfoRetry, WriteRetry, CheckRetry, WriteStoreRetry, StartRetry,
     CleanupRetry, RunRetry, CloseRetry DEF Next

\* New never trips over the files that earlier calls with the same options have left,
\* however many of them have failed, if nothing crashed and files could be removed.
THEOREM RetryableHolds == Spec => []Retryable
<1>1. Init => RetryInv
  BY HasEmpty DEF Init, Idle, RetryInv, Calm, PairInv, KindInv, InfoLeft, StoreLeft, Undone, Steps
<1>2. RetryInv => Retryable
  BY DEF RetryInv, Calm, Retryable
<1> QED
  BY <1>1, <1>2, NextRetry, Inductive, PTL DEF Spec
=============================================================================
