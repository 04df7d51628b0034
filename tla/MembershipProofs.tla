-------------------------- MODULE MembershipProofs --------------------------
(***************************************************************************)
(* Results about App that take several goroutines to disturb.               *)
(*                                                                         *)
(* JoinFileKept and ReadyMeansJoined, for any number of nodes, crashes,      *)
(* elections, lost replies and files that cannot be written.  Neither is     *)
(* inductive without the other: an App that is past Add is a member, because  *)
(* Add has succeeded or because its join file was gone when it was created,   *)
(* and the file is removed only past Add.  Nothing takes membership away      *)
(* (Keeps).                                                                 *)
(*                                                                         *)
(* HandoversKeepCount and HandoverKeepsVoters, for any number of nodes and    *)
(* elections, in a window in which nodes only leave.  Neither is inductive:  *)
(* what is, is that there are enough voters besides those whose Handover      *)
(* call has promoted someone else already and not demoted them yet (Covered). *)
(***************************************************************************)
EXTENDS AppProofs

\* What the join file and the state a of the App of node n tell of the cluster.
JoinOK(n, a, cf, jf) ==
  /\ jf[n] \/ cf[n] # None
  /\ a.pc # "off" /\ ~a.join => cf[n] # None
  /\ a.pc \in {"remove", "cluster", "assume", "promote", "promoteOther"} \/ a.ready => cf[n] # None
  /\ a.readyCh => a.ready \/ a.stopped

JInv == \A n \in Node : JoinOK(n, app[n], conf, joinFile)

\* Members stay members, and only they lose their join file.
Keeps ==
  \A n \in Node : /\ conf[n] # None => conf'[n] # None
                  /\ joinFile[n] => joinFile'[n] \/ conf'[n] # None
-----------------------------------------------------------------------------
(* What a step leaves alone.                                               *)

\* A step that touches the cluster as a request does, and not the join file.
LEMMA KeepsFile == RaftStep /\ UNCHANGED joinFile => Keeps
  BY DEF RaftStep, Keeps

\* A step that changes one App.
LEMMA OneApp ==
  ASSUME IInv, JInv, Keeps, NEW n \in Node, NEW a, Become(n, a),
         JoinOK(n, a, conf', joinFile')
  PROVE  JInv'
<1> SUFFICES ASSUME NEW m \in Node PROVE JoinOK(m, app'[m], conf', joinFile')
  BY DEF JInv
<1>1. CASE m = n
  BY <1>1 DEF Become, IInv
<1>2. CASE m # n
  <2>1. app'[m] = app[m]
    BY <1>2 DEF Become, IInv
  <2>2. JoinOK(m, app[m], conf, joinFile)
    BY DEF JInv
  <2> QED
    BY <2>1, <2>2 DEF JoinOK, Keeps
<1> QED
  BY <1>1, <1>2

\* A step that changes none.
LEMMA NoApp == ASSUME JInv, Keeps, UNCHANGED app PROVE JInv'
  BY DEF JInv, Keeps, JoinOK

\* The state of an App stays as good when nothing is lost.
LEMMA StaysOK ==
  ASSUME NEW n \in Node, Keeps, JInv
  PROVE  JoinOK(n, app[n], conf', joinFile')
<1>1. JoinOK(n, app[n], conf, joinFile)
  BY DEF JInv
<1> QED
  BY <1>1 DEF JoinOK, Keeps

\* The ends of an iteration, and those of maybePromoteOurselves.
LEMMA EndOK ==
  ASSUME NEW n \in Node, NEW a \in AppState, NEW cf, NEW jf, JoinOK(n, a, cf, jf), a.pc # "off"
  PROVE  /\ JoinOK(n, Idle(a), cf, jf) /\ JoinOK(n, Again(a), cf, jf)
         /\ a.pc \in {"assume", "promote", "promoteOther"} => JoinOK(n, Ready(a), cf, jf)
<1>1. /\ Idle(a).pc = "select" /\ Idle(a).join = a.join /\ Idle(a).ready = a.ready
      /\ Idle(a).readyCh = a.readyCh /\ Idle(a).stopped = a.stopped
  BY DEF Idle, AppState
<1>2. /\ Again(a).pc = "adjustLeader" /\ Again(a).join = a.join /\ Again(a).ready = a.ready
      /\ Again(a).readyCh = a.readyCh /\ Again(a).stopped = a.stopped
  BY DEF Again, AppState
<1>3. /\ Ready(a).pc = "select" /\ Ready(a).join = a.join /\ Ready(a).ready
      /\ Ready(a).readyCh /\ Ready(a).stopped = a.stopped
  BY DEF Ready, Idle, AppState
<1> QED
  BY <1>1, <1>2, <1>3 DEF JoinOK
-----------------------------------------------------------------------------
(* The invariant is inductive.                                             *)

\* It holds at the start.
LEMMA InitJoin == Init => JInv
<1> SUFFICES ASSUME Init, NEW n \in Node PROVE JoinOK(n, app[n], conf, joinFile)
  BY DEF JInv
<1>1. CASE n \in up
  <2>1. app[n] = NewApp("select", conf[n] = None, conf[n] # None)
    BY <1>1 DEF Init
  <2>2. joinFile[n] <=> conf[n] = None
    BY DEF Init
  <2>3. CASE conf[n] = None
    <3>1. app[n] = NewApp("select", TRUE, FALSE)
      BY <2>1, <2>3, Zenon
    <3> QED
      BY <2>2, <2>3, <3>1 DEF NewApp, JoinOK
  <2>4. CASE conf[n] # None
    <3>1. app[n] = NewApp("select", FALSE, TRUE)
      BY <2>1, <2>4, Zenon
    <3> QED
      BY <2>2, <2>4, <3>1 DEF NewApp, JoinOK
  <2> QED
    BY <2>3, <2>4
<1>2. CASE n \notin up
  BY <1>2 DEF Init, NewApp, JoinOK
<1> QED
  BY <1>1, <1>2

\* The requests of run keep what must be kept.
LEMMA RunKeeps == ASSUME IInv, JInv, NEW n \in Node, Run(n) PROVE Keeps
<1>1. /\ RaftOK /\ AppOK(n, app[n]) /\ app[n].todo \in Changes
      /\ joinFile \in [Node -> BOOLEAN]
  BY DEF IInv, AppState, DiskOK
<1>2. CASE UNCHANGED <<conf, joinFile>>
  BY <1>2 DEF Keeps
<1>3. CASE RunRemove(n)
  <2>1. PICK kept : conf' = conf /\ joinFile' = [joinFile EXCEPT ![n] = kept]
    BY <1>3, Zenon DEF RunRemove, raftVars
  <2>2. conf[n] # None
    BY <1>3 DEF RunRemove, JInv, JoinOK
  <2> QED
    BY <1>1, <2>1, <2>2 DEF Keeps
<1>4. CASE RunAdd(n) \/ RunAddError(n)
  <2>1. UNCHANGED joinFile /\ (DoAdd(n) \/ UNCHANGED raftVars)
    BY <1>4 DEF RunAdd, RunAddError, diskVars
  <2> QED
    BY <1>1, <2>1, AddStep, RaftUnchanged, KeepsFile
<1>5. CASE RunPromote(n) \/ RunPromoteError(n)
  <2>1. app[n].todo.role \in Role
    BY <1>1, <1>5, Zenon DEF AppOK, Pending, RunPromote, RunPromoteError
  <2>2. RaftStep
    BY <1>1, <1>5, <2>1, AssignStep, Zenon DEF RunPromote, RunPromoteError
  <2> QED
    BY <1>5, <2>2, KeepsFile, Zenon DEF RunPromote, RunPromoteError, diskVars
<1>6. CASE RunPromoteOther(n) \/ RunPromoteOtherError(n)
  <2>1. Head(app[n].todo.nodes) \in Node
    BY <1>1, <1>6, WalkOn DEF AppOK, RunPromoteOther, RunPromoteOtherError
  <2>2. RaftStep
    BY <1>1, <1>6, <2>1, AssignStep DEF RunPromoteOther, RunPromoteOtherError, Role
  <2> QED
    BY <1>6, <2>2, KeepsFile DEF RunPromoteOther, RunPromoteOtherError, diskVars
<1>7. CASE RunAdjustAssign(n) \/ RunAdjustAssignError(n)
  <2>1. Pending(app[n].todo)
    BY <1>1, <1>7 DEF AppOK, RunAdjustAssign, RunAdjustAssignError
  <2>2. RaftStep
    BY <1>1, <1>7, <2>1, WalkOn, AssignStep DEF RunAdjustAssign, RunAdjustAssignError, Pending
  <2> QED
    BY <1>7, <2>2, KeepsFile DEF RunAdjustAssign, RunAdjustAssignError, diskVars
<1>8. CASE RunStop(n) \/ RunLeader(n) \/ RunCluster(n) \/ RunReadError(n) \/ RunAssume(n)
  BY <1>2, <1>8, Zenon DEF RunStop, RunLeader, RunCluster, RunReadError, RunAssume, raftVars, diskVars
<1>9. CASE RunAdjustLeader(n) \/ RunAdjustCluster(n) \/ RunAdjustProbe(n)
  BY <1>2, <1>9, Zenon DEF RunAdjustLeader, RunAdjustCluster, RunAdjustProbe, raftVars, diskVars
<1> QED
  BY <1>3, <1>4, <1>5, <1>6, <1>7, <1>8, <1>9 DEF Run

\* Handover keeps it too, and does not touch the App.
LEMMA HoKeeps ==
  ASSUME IInv, NEW n \in Node, Ho(n) \/ HoCall(n)
  PROVE  Keeps /\ UNCHANGED app
<1>1. /\ RaftOK /\ HoOK(ho[n]) /\ ho[n].todo \in Changes
  BY DEF IInv, HoState
<1>2. CASE HoPromote(n) \/ HoPromoteError(n)
  <2>1. Pending(ho[n].todo)
    BY <1>1, <1>2 DEF HoOK, HoPromote, HoPromoteError
  <2>2. RaftStep
    BY <1>1, <1>2, <2>1, WalkOn, AssignStep DEF HoPromote, HoPromoteError, Pending
  <2> QED
    BY <1>2, <2>2, KeepsFile DEF HoPromote, HoPromoteError, diskVars
<1>3. CASE HoDemote(n) \/ HoDemoteError(n) \/ HoDemoteTimeout(n)
  <2>1. RaftStep
    BY <1>1, <1>3, AssignStep DEF HoDemote, HoDemoteError, HoDemoteTimeout, Role
  <2> QED
    BY <1>3, <2>1, KeepsFile DEF HoDemote, HoDemoteError, HoDemoteTimeout, diskVars
<1>4. CASE HoTransfer(n)
  <2>1. conf' = conf /\ UNCHANGED <<diskVars, app>>
    BY <1>4, Zenon DEF HoTransfer, Transfer, TransferError, raftVars
  <2> QED
    BY <2>1 DEF Keeps, diskVars
<1>5. CASE HoCall(n) \/ HoFind(n) \/ HoFindError(n) \/ HoCluster(n) \/ HoReadError(n)
  BY <1>5 DEF HoCall, HoFind, HoFindError, HoCluster, HoReadError, raftVars, diskVars, Keeps
<1>6. CASE HoProbe(n) \/ HoCheckLeader(n) \/ HoVoters(n) \/ HoNewLeader(n)
  BY <1>6, Zenon DEF HoProbe, HoCheckLeader, HoVoters, HoNewLeader, raftVars, diskVars, Keeps
<1> QED
  BY <1>2, <1>3, <1>4, <1>5, <1>6 DEF Ho

\* The run goroutine keeps the invariant.
LEMMA RunJoin == ASSUME IInv, JInv, NEW n \in Node, Run(n) PROVE JInv'
<1>1. Keeps /\ app[n] \in AppState
  BY RunKeeps DEF IInv
<1>2. JoinOK(n, app[n], conf', joinFile')
  BY <1>1, StaysOK
<1>3. CASE RunStop(n)
  <2> DEFINE a == [app[n] EXCEPT !.pc = "done", !.readyCh = TRUE]
  <2>1. Become(n, a) /\ app[n].stopped /\ app[n].pc = "select"
    BY <1>3 DEF RunStop
  <2>2. JoinOK(n, a, conf', joinFile')
    BY <1>1, <1>2, <2>1 DEF JoinOK, AppState
  <2> QED
    BY <1>1, <2>1, <2>2, OneApp
<1>4. CASE RunLeader(n)
  <2> DEFINE a == [app[n] EXCEPT !.pc = IF app[n].join THEN "add" ELSE "cluster",
                                 !.cli = leader]
  <2>1. Become(n, a) /\ app[n].pc = "select"
    BY <1>4 DEF RunLeader
  <2>2. JoinOK(n, a, conf', joinFile')
    BY <1>1, <1>2, <2>1 DEF JoinOK, AppState
  <2> QED
    BY <1>1, <2>1, <2>2, OneApp
<1>5. CASE RunAdd(n)
  <2> DEFINE a == [app[n] EXCEPT !.pc = "remove", !.join = FALSE]
  <2>1. Become(n, a) /\ app[n].pc = "add" /\ conf'[n] # None
    BY <1>5, AddStep DEF RunAdd, IInv
  <2>2. JoinOK(n, a, conf', joinFile')
    BY <1>1, <1>2, <2>1 DEF JoinOK, AppState
  <2> QED
    BY <1>1, <2>1, <2>2, OneApp
<1>6. CASE RunAddError(n) \/ RunReadError(n) \/ RunPromoteError(n)
  <2>1. Become(n, Idle(app[n])) /\ app[n].pc # "off"
    BY <1>6 DEF RunAddError, RunReadError, RunPromoteError
  <2> QED
    BY <1>1, <1>2, <2>1, EndOK, OneApp
<1>7. CASE RunCluster(n)
  <2> DEFINE a == [app[n] EXCEPT !.pc = "adjustLeader"]
             b == [app[n] EXCEPT !.pc = "assume", !.nodes = Servers]
  <2>1. app[n].pc = "cluster" /\ (Become(n, a) \/ Become(n, b))
    BY <1>7 DEF RunCluster
  <2>2. JoinOK(n, a, conf', joinFile') /\ JoinOK(n, b, conf', joinFile')
    BY <1>1, <1>2, <2>1 DEF JoinOK, AppState
  <2> QED
    BY <1>1, <2>1, <2>2, OneApp
<1>8. CASE RunAssume(n) \/ RunPromote(n) \/ RunPromoteOther(n)
  <2>1. app[n].pc \in {"assume", "promote", "promoteOther"}
    BY <1>8, Zenon DEF RunAssume, RunPromote, RunPromoteOther
  <2>2. \/ Become(n, Ready(app[n]))
        \/ \E view, todo : Become(n, [app[n] EXCEPT !.pc = "promote", !.view = view, !.todo = todo])
        \/ \E todo : Become(n, [app[n] EXCEPT !.pc = "promoteOther", !.todo = todo])
    BY <1>8, Zenon DEF RunAssume, RunPromote, RunPromoteOther
  <2>3. CASE Become(n, Ready(app[n]))
    BY <1>1, <1>2, <2>1, <2>3, EndOK, OneApp
  <2>4. ASSUME NEW view, NEW todo,
               Become(n, [app[n] EXCEPT !.pc = "promote", !.view = view, !.todo = todo])
        PROVE  JInv'
    <3> DEFINE a == [app[n] EXCEPT !.pc = "promote", !.view = view, !.todo = todo]
    <3>1. JoinOK(n, a, conf', joinFile')
      BY <1>1, <1>2, <2>1 DEF JoinOK, AppState
    <3> QED
      BY <1>1, <2>4, <3>1, OneApp
  <2>5. ASSUME NEW todo, Become(n, [app[n] EXCEPT !.pc = "promoteOther", !.todo = todo])
        PROVE  JInv'
    <3> DEFINE a == [app[n] EXCEPT !.pc = "promoteOther", !.todo = todo]
    <3>1. JoinOK(n, a, conf', joinFile')
      BY <1>1, <1>2, <2>1 DEF JoinOK, AppState
    <3> QED
      BY <1>1, <2>5, <3>1, OneApp
  <2> QED
    BY <2>2, <2>3, <2>4, <2>5, Zenon
<1>9. CASE RunPromoteOtherError(n) \/ RunAdjustAssignError(n)
  <2> DEFINE a == [app[n] EXCEPT !.todo.nodes = Tail(@)]
  <2>1. /\ app[n].pc \in {"promoteOther", "adjustAssign"}
        /\ \/ app[n].pc = "promoteOther" /\ Become(n, Ready(app[n]))
           \/ Become(n, Idle(app[n])) \/ Become(n, a)
    BY <1>9 DEF RunPromoteOtherError, RunAdjustAssignError
  <2>2. JoinOK(n, a, conf', joinFile')
    BY <1>1, <1>2 DEF JoinOK, AppState
  <2> HIDE DEF a
  <2> QED
    BY <1>1, <1>2, <2>1, <2>2, EndOK, OneApp
<1>10. CASE RunAdjustLeader(n) \/ RunAdjustCluster(n)
  <2> DEFINE a == [app[n] EXCEPT !.pc = "adjustCluster"]
             b == [app[n] EXCEPT !.pc = "adjustProbe", !.nodes = Servers]
  <2>1. /\ app[n].pc \in {"adjustLeader", "adjustCluster"}
        /\ Become(n, Idle(app[n])) \/ Become(n, a) \/ Become(n, b)
    BY <1>10 DEF RunAdjustLeader, RunAdjustCluster
  <2>2. JoinOK(n, a, conf', joinFile') /\ JoinOK(n, b, conf', joinFile')
    BY <1>1, <1>2, <2>1 DEF JoinOK, AppState
  <2> HIDE DEF a, b
  <2> QED
    BY <1>1, <1>2, <2>1, <2>2, EndOK, OneApp
<1>11. CASE RunAdjustProbe(n) \/ RunAdjustAssign(n)
  <2>1. app[n].pc \in {"adjustProbe", "adjustAssign"}
    BY <1>11, Zenon DEF RunAdjustProbe, RunAdjustAssign
  <2>2. \/ Become(n, Idle(app[n])) \/ Become(n, Again(app[n]))
        \/ \E view, todo :
             Become(n, [app[n] EXCEPT !.pc = "adjustAssign", !.view = view, !.todo = todo])
    BY <1>11, Zenon DEF RunAdjustProbe, RunAdjustAssign
  <2>3. ASSUME NEW view, NEW todo,
               Become(n, [app[n] EXCEPT !.pc = "adjustAssign", !.view = view, !.todo = todo])
        PROVE  JInv'
    <3> DEFINE a == [app[n] EXCEPT !.pc = "adjustAssign", !.view = view, !.todo = todo]
    <3>1. JoinOK(n, a, conf', joinFile')
      BY <1>1, <1>2, <2>1 DEF JoinOK, AppState
    <3> QED
      BY <1>1, <2>3, <3>1, OneApp
  <2> QED
    BY <1>1, <1>2, <2>1, <2>2, <2>3, EndOK, OneApp, Zenon
<1>12. CASE RunRemove(n)
  <2> DEFINE a == [app[n] EXCEPT !.pc = "cluster"]
  <2>1. Become(n, a) /\ app[n].pc = "remove"
    BY <1>12 DEF RunRemove
  <2>2. JoinOK(n, a, conf', joinFile')
    BY <1>1, <1>2, <2>1 DEF JoinOK, AppState
  <2> QED
    BY <1>1, <2>1, <2>2, OneApp
<1> QED
  BY <1>3, <1>4, <1>5, <1>6, <1>7, <1>8, <1>9, <1>10, <1>11, <1>12 DEF Run

\* Elections and the life of an App keep it: a new App joins unless its join file
\* is gone.
LEMMA LifeJoin ==
  ASSUME IInv, JInv, NEW n \in Node,
         Elect(n) \/ CloseStop(n) \/ CloseNode(n) \/ Start(n) \/ Crash(n)
  PROVE  JInv'
<1>1. app[n] \in AppState /\ JoinOK(n, app[n], conf, joinFile)
  BY DEF IInv, JInv
<1>2. conf' = conf /\ joinFile' = joinFile
  BY Zenon DEF Elect, CloseStop, CloseNode, Start, Crash, Forget, Down, raftVars, diskVars
<1>3. Keeps
  BY <1>2 DEF Keeps
<1>4. CASE Elect(n)
  BY <1>3, <1>4, NoApp DEF Elect
<1>5. CASE CloseStop(n)
  <2> DEFINE a == [app[n] EXCEPT !.stopped = TRUE]
  <2>1. Become(n, a)
    BY <1>5 DEF CloseStop
  <2>2. JoinOK(n, a, conf', joinFile')
    BY <1>1, <1>2 DEF JoinOK, AppState
  <2> QED
    BY <1>3, <2>1, <2>2, OneApp
<1>6. CASE Start(n)
  <2> DEFINE a == NewApp("select", joinFile[n], FALSE)
  <2>1. Become(n, a)
    BY <1>6, Zenon DEF Start
  <2>2. JoinOK(n, a, conf', joinFile')
    BY <1>1, <1>2 DEF JoinOK, NewApp
  <2> QED
    BY <1>3, <2>1, <2>2, OneApp, Zenon
<1>7. CASE Forget(n)
  <2> DEFINE a == NewApp("off", FALSE, FALSE)
  <2>1. Become(n, a)
    BY <1>7, Zenon DEF Forget
  <2>2. JoinOK(n, a, conf', joinFile')
    BY <1>1, <1>2 DEF JoinOK, NewApp
  <2> QED
    BY <1>3, <2>1, <2>2, OneApp, Zenon
<1> QED
  BY <1>4, <1>5, <1>6, <1>7 DEF CloseNode, Crash

\* Every step keeps it.
LEMMA NextJoin == IInv /\ JInv /\ [Next]_vars => JInv'
<1> SUFFICES ASSUME IInv, JInv, [Next]_vars PROVE JInv'
  OBVIOUS
<1>1. CASE UNCHANGED vars
  BY <1>1, NoApp DEF Keeps, vars, raftVars, diskVars
<1>2. CASE Next
  BY <1>2, RunJoin, HoKeeps, NoApp, LifeJoin DEF Next
<1> QED
  BY <1>1, <1>2

\* What the join files and the Apps tell of the cluster, in every reachable state.
THEOREM Membership == Spec => []JInv
  BY InitJoin, NextJoin, Invariant, PTL DEF Spec

\* A node whose join file is gone is a member (app.go:549-562), for any number
\* of nodes, crashes and lost replies.
THEOREM JoinFileSafe == Spec => []JoinFileKept
<1>1. JInv => JoinFileKept
  BY DEF JInv, JoinOK, JoinFileKept
<1> QED
  BY <1>1, Membership, PTL

\* When Ready returns and the App was not closed, its node is a member of the cluster,
\* whatever crashed, was restarted or got lost before (app.go:538-540, 549-562, 580-590).
THEOREM ReadyJoined == Spec => []ReadyMeansJoined
<1>1. JInv => ReadyMeansJoined
  BY DEF JInv, JoinOK, ReadyMeansJoined
<1> QED
  BY <1>1, Membership, PTL
-----------------------------------------------------------------------------
(* The voters of a cluster that nodes leave.                               *)

\* One owner at most calls Handover.
OneLeaver == \A m, n \in Leaving : m = n

\* A window in which nodes only leave: no node joins, adjusts roles or stops, the nodes
\* that leave and those that come back are voters, and there are enough voters to begin
\* with.  Requests may fail when a single node leaves.
HandoverWindow ==
  /\ Ticking = {} /\ MaxStops = 0
  /\ Flaky => OneLeaver
  /\ \A cf \in InitConfs :
       /\ \A n \in Node : cf[n] # None
       /\ Cardinality(VotersIn(cf)) >= Voters
       /\ Leaving \subseteq VotersIn(cf)
       /\ \A on \in InitUp : Node \ on \subseteq VotersIn(cf) \ Leaving

\* The run goroutine of node n makes no request that changes a role.
RunQuiet(n, a, cf) ==
  /\ a.pc \in {"off", "select", "cluster", "assume"}
  /\ ~a.join /\ ~a.stopped
  /\ a.ready => a.pc = "select"
  /\ ~a.ready => n \notin Leaving /\ cf[n] = Voter
  /\ a.pc = "assume" => n \in DOMAIN a.nodes /\ a.nodes[n] = Voter

\* The Handover call of node n is about its voting rights, and it has them until it
\* has given them up itself, or may have without knowing it.
Held(n, h, cf) ==
  /\ h.pc # "idle" => n \in Leaving
  /\ h.pc \in {"promote", "demote"} => h.todo.role = Voter
  /\ h.todo.role \in {Voter, Keep}
  /\ h.pc = "probe" => n \in DOMAIN h.nodes /\ h.nodes[n] = Voter
  /\ n \in Leaving => \/ cf[n] = Voter
                      \/ h.pc = "done"
                      \/ Flaky /\ h.pc \in {"demote", "failed"}

\* The call has promoted someone in exchange for the voting rights of its node.
Owes(h) ==
  /\ h.pc \in {"checkLeader", "voters", "transfer", "newLeader", "demote"}
  /\ h.todo.role = Voter

\* The voters that are to give up their voting rights for others.
Owing(cf, hs) == {n \in VotersIn(cf) : Owes(hs[n])}

\* There are enough voters besides those.
Covered(cf, hs) == Cardinality(VotersIn(cf)) >= Voters + Cardinality(Owing(cf, hs))

\* A node that is done is no voter.
Given(n, h, cf) == OneLeaver /\ h.pc = "done" /\ h.todo.role = Voter => cf[n] # Voter

QuietInv == \A n \in Node : ~joinFile[n] /\ RunQuiet(n, app[n], conf)
HeldInv  == \A n \in Node : Held(n, ho[n], conf) /\ Given(n, ho[n], conf)
VInv     == QuietInv /\ HeldInv /\ Covered(conf, ho)
-----------------------------------------------------------------------------
(* Counting.                                                               *)

\* Nobody gains or loses voting rights.
LEMMA CountSame ==
  ASSUME NEW V, IsFiniteSet(V), NEW C \in SUBSET V, NEW D \in SUBSET C, NEW k \in Nat,
         Cardinality(V) >= k + Cardinality(C)
  PROVE  Cardinality(V) >= k + Cardinality(D)
<1>1. IsFiniteSet(C)
  BY FS_Subset
<1>2. Cardinality(D) <= Cardinality(C) /\ IsFiniteSet(D)
  BY <1>1, FS_Subset
<1>3. Cardinality(V) \in Nat /\ Cardinality(C) \in Nat /\ Cardinality(D) \in Nat
  BY <1>1, <1>2, FS_CardinalityType
<1> QED BY <1>2, <1>3

\* c gains them, in exchange for those of n.
LEMMA CountMore ==
  ASSUME NEW V, IsFiniteSet(V), NEW C \in SUBSET V, NEW c, c \notin V, NEW n,
         NEW D \in SUBSET (C \cup {n}), NEW k \in Nat, Cardinality(V) >= k + Cardinality(C)
  PROVE  Cardinality(V \cup {c}) >= k + Cardinality(D)
<1>1. IsFiniteSet(C)
  BY FS_Subset
<1>2. /\ IsFiniteSet(C \cup {n})
      /\ \/ Cardinality(C \cup {n}) = Cardinality(C)
         \/ Cardinality(C \cup {n}) = Cardinality(C) + 1
  BY <1>1, FS_AddElement
<1>3. Cardinality(D) <= Cardinality(C \cup {n}) /\ IsFiniteSet(D)
  BY <1>2, FS_Subset
<1>4. Cardinality(V \cup {c}) = Cardinality(V) + 1
  BY FS_AddElement
<1>5. Cardinality(V) \in Nat /\ Cardinality(C) \in Nat /\ Cardinality(D) \in Nat
  BY <1>1, <1>3, FS_CardinalityType
<1> QED BY <1>2, <1>3, <1>4, <1>5

\* n gives them up as it owes.
LEMMA CountLess ==
  ASSUME NEW V, IsFiniteSet(V), NEW C \in SUBSET V, NEW n \in C, NEW D \in SUBSET (C \ {n}),
         NEW k \in Nat, Cardinality(V) >= k + Cardinality(C)
  PROVE  Cardinality(V \ {n}) >= k + Cardinality(D)
<1>1. IsFiniteSet(C)
  BY FS_Subset
<1>2. IsFiniteSet(C \ {n}) /\ Cardinality(C \ {n}) = Cardinality(C) - 1
  BY <1>1, FS_RemoveElement
<1>3. Cardinality(D) <= Cardinality(C \ {n}) /\ IsFiniteSet(D)
  BY <1>2, FS_Subset
<1>4. Cardinality(V \ {n}) = Cardinality(V) - 1
  BY FS_RemoveElement, Zenon
<1>5. Cardinality(V) \in Nat /\ Cardinality(C) \in Nat /\ Cardinality(D) \in Nat
  BY <1>1, <1>3, FS_CardinalityType
<1> QED BY <1>2, <1>3, <1>4, <1>5

\* The voters are finitely many.
LEMMA VotersFinite == ASSUME NEW cf PROVE IsFiniteSet(VotersIn(cf)) /\ Voters \in Nat
<1>1. VotersIn(cf) \in SUBSET Node /\ IsFiniteSet(Node)
  BY NodeAssumption DEF VotersIn
<1> QED BY <1>1, FS_Subset, RolesConfig
-----------------------------------------------------------------------------
(* The three kinds of steps a Handover call takes.                         *)

\* One that leaves the roles alone.
LEMMA CallSame ==
  ASSUME IInv, VInv, NEW n \in Node, NEW h, HoBecome(n, h), UNCHANGED <<conf, joinFile, app>>,
         Held(n, h, conf), Given(n, h, conf), Owes(h) => Owes(ho[n])
  PROVE  VInv'
<1>1. ho' = [ho EXCEPT ![n] = h] /\ ho \in [Node -> HoState]
  BY DEF HoBecome, IInv
<1>2. ASSUME NEW m \in Node PROVE ho'[m] = IF m = n THEN h ELSE ho[m]
  BY <1>1
<1>3. HeldInv'
  BY <1>2 DEF HeldInv, VInv
<1>4. QuietInv'
  BY DEF QuietInv, VInv
<1>5. Owing(conf, ho') \in SUBSET Owing(conf, ho) /\ Owing(conf, ho) \in SUBSET VotersIn(conf)
  BY <1>2 DEF Owing, VotersIn
<1>6. Covered(conf, ho')
  BY <1>5, VotersFinite, CountSame DEF Covered, VInv
<1> QED BY <1>3, <1>4, <1>6 DEF VInv

\* The promotion of c to voter.
LEMMA CallPromotes ==
  ASSUME IInv, VInv, HandoverWindow, NEW n \in Node, NEW h, HoBecome(n, h),
         UNCHANGED <<joinFile, app>>,
         NEW c \in Node, conf[c] # Voter, conf' = [conf EXCEPT ![c] = Voter],
         ho[n].pc = "promote", h.pc # "done", Held(n, h, conf)
  PROVE  VInv'
<1>1. ho' = [ho EXCEPT ![n] = h] /\ ho \in [Node -> HoState] /\ conf \in [Node -> Role \cup {None}]
  BY DEF HoBecome, IInv, RaftOK
<1>2. ASSUME NEW m \in Node
      PROVE  /\ ho'[m] = IF m = n THEN h ELSE ho[m]
             /\ conf'[m] = IF m = c THEN Voter ELSE conf[m]
  BY <1>1
<1>3. n \in Leaving /\ conf[n] = Voter /\ n # c
  BY DEF VInv, HeldInv, Held
<1>4. ASSUME NEW m \in Node PROVE Held(m, ho'[m], conf')
  <2>1. Held(m, ho'[m], conf)
    BY <1>2 DEF VInv, HeldInv
  <2> QED BY <1>2, <2>1 DEF Held
<1>5. ASSUME NEW m \in Node PROVE Given(m, ho'[m], conf')
  <2>1. CASE m = n
    BY <1>2, <2>1 DEF Given
  <2>2. CASE m # n
    <3>1. OneLeaver => ho[m].pc = "idle"
      BY <1>3, <2>2 DEF VInv, HeldInv, Held, OneLeaver
    <3> QED BY <1>2, <2>2, <3>1 DEF Given
  <2> QED BY <2>1, <2>2
<1>6. QuietInv'
  <2>1. ASSUME NEW m \in Node PROVE ~joinFile[m] /\ RunQuiet(m, app[m], conf')
    BY <1>2 DEF VInv, QuietInv, RunQuiet
  <2> QED BY <2>1, Zenon DEF QuietInv
<1>7. VotersIn(conf') = VotersIn(conf) \cup {c} /\ c \notin VotersIn(conf)
  BY <1>2 DEF VotersIn
<1>8. Owing(conf', ho') \in SUBSET (Owing(conf, ho) \cup {n})
  <2> SUFFICES ASSUME NEW m \in Node, conf'[m] = Voter, Owes(ho'[m]), m # n
               PROVE  conf[m] = Voter /\ Owes(ho[m])
    BY DEF Owing, VotersIn
  <2>1. Owes(ho[m])
    BY <1>2
  <2>2. m \in Leaving
    BY <2>1 DEF Owes, VInv, HeldInv, Held
  <2>3. ~Flaky
    BY <1>3, <2>2 DEF HandoverWindow, OneLeaver
  <2> QED BY <2>1, <2>2, <2>3 DEF Owes, VInv, HeldInv, Held
<1>9. Owing(conf, ho) \in SUBSET VotersIn(conf)
  BY DEF Owing
<1>10. Covered(conf', ho')
  BY <1>7, <1>8, <1>9, VotersFinite, CountMore, Zenon DEF Covered, VInv
<1> QED BY <1>4, <1>5, <1>6, <1>10, Zenon DEF VInv, HeldInv

\* The demotion of its own node.
LEMMA CallDemotes ==
  ASSUME IInv, VInv, NEW n \in Node, NEW h, HoBecome(n, h), UNCHANGED <<joinFile, app>>,
         conf' = [conf EXCEPT ![n] = Spare], ho[n].pc = "demote",
         h.todo = ho[n].todo, h.pc = "done" \/ (Flaky /\ h.pc \in {"demote", "failed"})
  PROVE  VInv'
<1>1. ho' = [ho EXCEPT ![n] = h] /\ ho \in [Node -> HoState] /\ conf \in [Node -> Role \cup {None}]
  BY DEF HoBecome, IInv, RaftOK
<1>2. ASSUME NEW m \in Node
      PROVE  /\ ho'[m] = IF m = n THEN h ELSE ho[m]
             /\ conf'[m] = IF m = n THEN Spare ELSE conf[m]
  BY <1>1
<1>3. Held(n, ho[n], conf) /\ n \in Leaving /\ h.todo.role = Voter /\ Owes(ho[n])
  BY DEF VInv, HeldInv, Held, Owes
<1>4. ASSUME NEW m \in Node PROVE Held(m, ho'[m], conf')
  <2>1. CASE m = n
    BY <1>2, <1>3, <2>1 DEF Held
  <2>2. CASE m # n
    <3>1. Held(m, ho[m], conf)
      BY DEF VInv, HeldInv
    <3> QED BY <1>2, <2>2, <3>1 DEF Held
  <2> QED BY <2>1, <2>2
<1>5. ASSUME NEW m \in Node PROVE Given(m, ho'[m], conf')
  <2>1. CASE m = n
    BY <1>2, <2>1 DEF Given, Spare, Voter
  <2>2. CASE m # n
    <3>1. Given(m, ho[m], conf)
      BY DEF VInv, HeldInv
    <3> QED BY <1>2, <2>2, <3>1 DEF Given
  <2> QED BY <2>1, <2>2
<1>6. QuietInv'
  <2>1. ASSUME NEW m \in Node PROVE ~joinFile[m] /\ RunQuiet(m, app[m], conf')
    BY <1>2, <1>3 DEF VInv, QuietInv, RunQuiet
  <2> QED BY <2>1, Zenon DEF QuietInv
<1>7. VotersIn(conf') = VotersIn(conf) \ {n}
  BY <1>2 DEF VotersIn, Spare, Voter
<1>8. Owing(conf', ho') \in SUBSET (Owing(conf, ho) \ {n})
  BY <1>2, <1>7 DEF Owing, VotersIn
<1>9. Owing(conf, ho) \in SUBSET VotersIn(conf)
  BY DEF Owing
<1>10. CASE conf[n] = Voter
  <2>1. n \in Owing(conf, ho)
    BY <1>3, <1>10 DEF Owing, VotersIn
  <2>2. Covered(conf', ho')
    BY <1>7, <1>8, <1>9, <2>1, VotersFinite, CountLess, Zenon DEF Covered, VInv
  <2> QED BY <1>4, <1>5, <1>6, <2>2, Zenon DEF VInv, HeldInv
<1>11. CASE conf[n] # Voter
  <2>1. VotersIn(conf') = VotersIn(conf) /\ Owing(conf', ho') \in SUBSET Owing(conf, ho)
    BY <1>7, <1>8, <1>11, Zenon DEF VotersIn
  <2>2. Covered(conf', ho')
    BY <1>9, <2>1, VotersFinite, CountSame, Zenon DEF Covered, VInv
  <2> QED BY <1>4, <1>5, <1>6, <2>2, Zenon DEF VInv, HeldInv
<1> QED BY <1>10, <1>11
-----------------------------------------------------------------------------
(* Handover.                                                               *)

\* The end of a call, or its last request.
LEMMA LastHeld ==
  ASSUME NEW n, NEW h \in HoState, NEW cf, Held(n, h, cf),
         h.pc \in {"checkLeader", "voters", "transfer", "newLeader"}
  PROVE  /\ Held(n, HoLast(h), cf) /\ Given(n, HoLast(h), cf)
         /\ Owes(HoLast(h)) => Owes(h)
<1>1. CASE h.todo.role = Keep
  <2>1. HoLast(h).pc = "done" /\ HoLast(h).todo = h.todo
    BY <1>1 DEF HoLast, HoReturn, HoState
  <2> QED BY <1>1, <2>1 DEF Held, Given, Owes, Keep, Voter
<1>2. CASE h.todo.role # Keep
  <2>1. HoLast(h).pc = "demote" /\ HoLast(h).todo = h.todo
    BY <1>2 DEF HoLast, HoState
  <2> QED BY <1>2, <2>1 DEF Held, Given, Owes
<1> QED BY <1>1, <1>2

\* A call that returns an error.
LEMMA FailHeld ==
  ASSUME NEW n, NEW h \in HoState, NEW cf, Held(n, h, cf), h.pc \notin {"idle", "done"}
  PROVE  LET r == HoReturn(h, "failed") IN Held(n, r, cf) /\ Given(n, r, cf) /\ ~Owes(r)
<1>1. HoReturn(h, "failed").pc = "failed" /\ HoReturn(h, "failed").todo = h.todo
  BY DEF HoReturn, HoState
<1> QED BY <1>1 DEF Held, Given, Owes

\* A call that goes on.
LEMMA GoesOn ==
  ASSUME NEW n, NEW h, NEW g, NEW cf, Held(n, h, cf), g.todo = h.todo, 
         h.pc \notin {"done", "failed", "demote"}, h.pc = "idle" => n \in Leaving,
         g.pc \notin {"done", "failed", "demote", "promote", "probe"}
  PROVE  Held(n, g, cf) /\ Given(n, g, cf)
  BY DEF Held, Given

\* The steps before the first request that changes a role.
LEMMA HoStarts ==
  ASSUME IInv, VInv, NEW n \in Node,
         HoCall(n) \/ HoFind(n) \/ HoFindError(n) \/ HoCluster(n) \/ HoReadError(n)
  PROVE  VInv'
<1>1. ho[n] \in HoState /\ Held(n, ho[n], conf) /\ UNCHANGED <<conf, joinFile, app>>
  BY DEF IInv, VInv, HeldInv, HoCall, HoFind, HoFindError, HoCluster, HoReadError, raftVars, diskVars
<1>2. CASE HoCall(n) \/ HoFind(n)
  <2>1. PICK h : /\ HoBecome(n, h) /\ h.todo = ho[n].todo /\ h.pc \in {"find", "cluster"}
                 /\ ho[n].pc \in {"idle", "find"} /\ (ho[n].pc = "idle" => n \in Leaving)
    BY <1>1, <1>2, Zenon DEF HoCall, HoFind, HoState
  <2>2. Held(n, h, conf) /\ Given(n, h, conf)
    BY <1>1, <2>1, GoesOn
  <2>3. ~Owes(h)
    BY <2>1 DEF Owes
  <2> QED BY <1>1, <2>1, <2>2, <2>3, CallSame
<1>3. CASE HoFindError(n) \/ HoReadError(n)
  <2>1. HoBecome(n, HoReturn(ho[n], "failed")) /\ ho[n].pc \notin {"idle", "done"}
    BY <1>3 DEF HoFindError, HoReadError
  <2> QED BY <1>1, <2>1, FailHeld, CallSame
<1>4. CASE HoCluster(n)
  <2> DEFINE h == [ho[n] EXCEPT !.pc = "probe", !.nodes = Servers]
  <2>1. HoBecome(n, h) /\ h.pc = "probe" /\ h.todo = ho[n].todo /\ h.nodes = Servers
    BY <1>1, <1>4 DEF HoCluster, HoState
  <2>2. ho[n].pc = "cluster" /\ n \in Leaving /\ conf[n] = Voter
    BY <1>1, <1>4 DEF HoCluster, Held
  <2>3. n \in DOMAIN Servers /\ Servers[n] = Voter
    BY <2>2, NoneRole DEF Servers, Members, Role
  <2> HIDE DEF h
  <2>4. Held(n, h, conf) /\ Given(n, h, conf) /\ ~Owes(h)
    BY <1>1, <2>1, <2>2, <2>3 DEF Held, Given, Owes
  <2> QED BY <1>1, <2>1, <2>4, CallSame
<1> QED BY <1>2, <1>3, <1>4

\* A voter hands over its voting rights, or nothing.
LEMMA HandoverOfVoter ==
  ASSUME NEW n, NEW nodes, NEW view, n \in DOMAIN nodes, nodes[n] = Voter,
         NEW change \in Handover(makeRolesChanges(nodes, view), n)
  PROVE  change.role \in {Voter, Keep}
<1>1. makeRolesChanges(nodes, view).role = nodes
  BY SnapshotType
<1>2. \/ change = NoChange
      \/ \E s : change = Change(nodes[n], s)
  BY <1>1, Zenon DEF Handover
<1> QED BY <1>2 DEF NoChange, Change

\* Probing decides what to hand over.
LEMMA HoProbes == ASSUME IInv, VInv, NEW n \in Node, HoProbe(n) PROVE VInv'
<1>1. /\ ho[n] \in HoState /\ Held(n, ho[n], conf) /\ UNCHANGED <<conf, joinFile, app>>
      /\ ho[n].pc = "probe"
  BY DEF IInv, VInv, HeldInv, HoProbe, raftVars, diskVars
<1>2. PICK view, change :
        /\ change \in Handover(makeRolesChanges(ho[n].nodes, view), n)
        /\ HoBecome(n, [ho[n] EXCEPT
           !.pc = IF change.role = Keep THEN "checkLeader" ELSE "promote",
           !.nodes = NoServers, !.todo = change])
  BY Zenon DEF HoProbe
<1>3. change.role \in {Voter, Keep}
  BY <1>1, <1>2, HandoverOfVoter DEF Held
<1> DEFINE h == [ho[n] EXCEPT !.pc = IF change.role = Keep THEN "checkLeader" ELSE "promote",
                              !.nodes = NoServers, !.todo = change]
<1>4. h.pc = (IF change.role = Keep THEN "checkLeader" ELSE "promote") /\ h.todo = change
  BY <1>1 DEF HoState
<1>5. HoBecome(n, h)
  BY <1>2
<1> HIDE DEF h
<1>6. Held(n, h, conf) /\ Given(n, h, conf) /\ ~Owes(h)
  BY <1>1, <1>3, <1>4 DEF Held, Given, Owes, Keep, Voter
<1> QED BY <1>1, <1>5, <1>6, CallSame

\* The candidates are asked one after the other.
LEMMA HoPromotes ==
  ASSUME IInv, VInv, HandoverWindow, NEW n \in Node, HoPromote(n) \/ HoPromoteError(n)
  PROVE  VInv'
<1>1. /\ ho[n] \in HoState /\ Held(n, ho[n], conf) /\ UNCHANGED <<joinFile, app>>
      /\ ho[n].pc = "promote" /\ ho[n].todo.role = Voter /\ Head(ho[n].todo.nodes) \in Node
  <2>1. HoOK(ho[n]) /\ ho[n].todo \in Changes
    BY DEF IInv, HoState
  <2>2. ho[n].pc = "promote" /\ UNCHANGED <<joinFile, app>>
    BY DEF HoPromote, HoPromoteError, diskVars
  <2> QED BY <2>1, <2>2, WalkOn DEF HoOK, VInv, HeldInv, Held
<1> DEFINE c == Head(ho[n].todo.nodes)
<1>2. PICK h : /\ HoBecome(n, h) /\ h.pc \in {"checkLeader", "promote", "failed"}
               /\ h.todo.role = Voter
               /\ h.pc = "checkLeader" => Assign(ho[n].cli, c, Voter)
  <2>1. CASE HoPromote(n)
    <3> DEFINE g == [ho[n] EXCEPT !.pc = "checkLeader", !.todo.nodes = <<>>]
    <3>1. g.pc = "checkLeader" /\ g.todo.role = Voter
      BY <1>1 DEF HoState, Changes
    <3>2. HoBecome(n, g) /\ Assign(ho[n].cli, c, Voter)
      BY <1>1, <2>1 DEF HoPromote
    <3> QED BY <3>1, <3>2, Zenon
  <2>2. CASE HoPromoteError(n)
    <3> DEFINE g == [ho[n] EXCEPT !.todo.nodes = Tail(@)]
    <3>1. /\ g.pc = "promote" /\ g.todo.role = Voter
          /\ HoReturn(g, "failed").pc = "failed" /\ HoReturn(g, "failed").todo.role = Voter
      BY <1>1 DEF HoState, Changes, HoReturn
    <3>2. HoBecome(n, g) \/ HoBecome(n, HoReturn(g, "failed"))
      BY <2>2 DEF HoPromoteError
    <3> HIDE DEF g
    <3> QED BY <3>1, <3>2
  <2> QED BY <2>1, <2>2
<1>3. Held(n, h, conf) /\ Given(n, h, conf)
  BY <1>1, <1>2 DEF Held, Given
<1>4. UNCHANGED raftVars \/ Assign(ho[n].cli, c, Voter)
  BY <1>1 DEF HoPromote, HoPromoteError, AssignError
<1>5. CASE Assign(ho[n].cli, c, Voter)
  <2>1. conf[c] # Voter /\ conf' = [conf EXCEPT ![c] = Voter]
    BY <1>5 DEF Assign, CanAssign, DoAssign
  <2> HIDE DEF c
  <2>2. c \in Node
    BY <1>1 DEF c
  <2> QED BY <1>1, <1>2, <1>3, <2>1, <2>2, CallPromotes, Zenon
<1>6. CASE UNCHANGED raftVars /\ ~Assign(ho[n].cli, c, Voter)
  <2>1. ~Owes(h) /\ conf' = conf
    BY <1>2, <1>6 DEF Owes, raftVars
  <2> QED BY <1>1, <1>2, <1>3, <2>1, CallSame
<1> QED BY <1>4, <1>5, <1>6

\* Leadership is dealt with.
LEMMA HoMoves ==
  ASSUME IInv, VInv, NEW n \in Node,
         HoCheckLeader(n) \/ HoVoters(n) \/ HoTransfer(n) \/ HoNewLeader(n)
  PROVE  VInv'
<1>1. /\ ho[n] \in HoState /\ Held(n, ho[n], conf) /\ UNCHANGED <<joinFile, app>>
      /\ ho[n].pc \in {"checkLeader", "voters", "transfer", "newLeader"}
  BY Zenon DEF IInv, VInv, HeldInv, HoCheckLeader, HoVoters, HoTransfer, HoNewLeader, diskVars
<1>2. conf' = conf
  BY Zenon DEF HoCheckLeader, HoVoters, HoTransfer, Transfer, TransferError, HoNewLeader, raftVars
<1>3. \/ HoBecome(n, HoLast(ho[n])) \/ HoBecome(n, HoLast([ho[n] EXCEPT !.cli = leader]))
      \/ HoBecome(n, HoReturn(ho[n], "failed"))
      \/ HoBecome(n, [ho[n] EXCEPT !.pc = "voters"])
      \/ HoBecome(n, [ho[n] EXCEPT !.pc = "transfer", !.nodes = Servers])
      \/ HoBecome(n, [ho[n] EXCEPT !.pc = "newLeader", !.nodes = NoServers])
  <2>1. CASE HoCheckLeader(n) \/ HoVoters(n) \/ HoNewLeader(n)
    BY <2>1, Zenon DEF HoCheckLeader, HoVoters, HoNewLeader
  <2>2. CASE HoTransfer(n)
    BY <2>2, Zenon DEF HoTransfer
  <2> QED BY <2>1, <2>2
<1>4. CASE HoBecome(n, HoLast(ho[n]))
  BY <1>1, <1>2, <1>4, LastHeld, CallSame
<1>5. CASE HoBecome(n, HoLast([ho[n] EXCEPT !.cli = leader]))
  <2> DEFINE g == [ho[n] EXCEPT !.cli = leader]
  <2>1. g \in HoState /\ g.pc = ho[n].pc /\ g.todo = ho[n].todo /\ g.nodes = ho[n].nodes
    BY <1>1 DEF HoState, IInv, RaftOK
  <2>2. HoBecome(n, HoLast(g))
    BY <1>5
  <2> HIDE DEF g
  <2>3. Held(n, g, conf) /\ (Owes(g) => Owes(ho[n]))
    BY <1>1, <2>1 DEF Held, Owes
  <2>4. /\ Held(n, HoLast(g), conf) /\ Given(n, HoLast(g), conf)
        /\ Owes(HoLast(g)) => Owes(ho[n])
    BY <1>1, <2>1, <2>3, LastHeld
  <2> QED BY <1>1, <1>2, <2>2, <2>4, CallSame
<1>6. CASE HoBecome(n, HoReturn(ho[n], "failed"))
  BY <1>1, <1>2, <1>6, FailHeld, CallSame
<1>7. CASE \/ HoBecome(n, [ho[n] EXCEPT !.pc = "voters"])
           \/ HoBecome(n, [ho[n] EXCEPT !.pc = "transfer", !.nodes = Servers])
           \/ HoBecome(n, [ho[n] EXCEPT !.pc = "newLeader", !.nodes = NoServers])
  <2>1. PICK h \in {[ho[n] EXCEPT !.pc = "voters"],
                    [ho[n] EXCEPT !.pc = "transfer", !.nodes = Servers],
                    [ho[n] EXCEPT !.pc = "newLeader", !.nodes = NoServers]} : HoBecome(n, h)
    BY <1>7, Zenon
  <2>2. h.todo = ho[n].todo /\ h.pc \in {"voters", "transfer", "newLeader"}
    BY <1>1, Zenon DEF HoState
  <2>3. Held(n, h, conf) /\ Given(n, h, conf) /\ (Owes(h) => Owes(ho[n]))
    BY <1>1, <2>2, GoesOn, Zenon DEF Owes
  <2> QED BY <1>1, <1>2, <2>1, <2>3, CallSame
<1> QED BY <1>3, <1>4, <1>5, <1>6, <1>7

\* The node gives up its own voting rights, at most once.
LEMMA HoDemotes ==
  ASSUME IInv, VInv, NEW n \in Node, HoDemote(n) \/ HoDemoteError(n) \/ HoDemoteTimeout(n)
  PROVE  VInv'
<1>1. /\ ho[n] \in HoState /\ Held(n, ho[n], conf) /\ Given(n, ho[n], conf)
      /\ UNCHANGED <<joinFile, app>> /\ ho[n].pc = "demote"
  BY DEF IInv, VInv, HeldInv, HoDemote, HoDemoteError, HoDemoteTimeout, diskVars
<1>2. ASSUME NEW res
      PROVE  HoReturn(ho[n], res).pc = res /\ HoReturn(ho[n], res).todo = ho[n].todo
  BY <1>1 DEF HoReturn, HoState
<1>3. UNCHANGED ho => HoBecome(n, ho[n])
  BY DEF HoBecome, IInv
<1>4. CASE UNCHANGED raftVars /\ ~HoDemote(n)
  <2>1. HoBecome(n, ho[n]) \/ HoBecome(n, HoReturn(ho[n], "failed"))
    BY <1>3, <1>4 DEF HoDemoteError, HoDemoteTimeout
  <2>2. conf' = conf
    BY <1>4 DEF raftVars
  <2> QED BY <1>1, <2>1, <2>2, FailHeld, CallSame, Zenon
<1>5. CASE Assign(ho[n].cli, n, Spare)
  <2>1. conf' = [conf EXCEPT ![n] = Spare]
    BY <1>5 DEF Assign, DoAssign
  <2>2. CASE HoDemote(n)
    <3>1. HoBecome(n, HoReturn(ho[n], "done"))
      BY <2>2 DEF HoDemote
    <3> QED BY <1>1, <1>2, <2>1, <3>1, CallDemotes, Zenon
  <2>3. CASE Flaky /\ (HoDemoteError(n) \/ HoDemoteTimeout(n))
    <3>1. HoBecome(n, ho[n]) \/ HoBecome(n, HoReturn(ho[n], "failed"))
      BY <1>3, <2>3 DEF HoDemoteError, HoDemoteTimeout
    <3> QED BY <1>1, <1>2, <2>1, <2>3, <3>1, CallDemotes, Zenon
  <2>4. CASE ~Flaky /\ (HoDemoteError(n) \/ HoDemoteTimeout(n))
    <3>1. FALSE
      BY <1>5, <2>4 DEF HoDemoteError, HoDemoteTimeout, AssignError, Assign
    <3> QED BY <3>1
  <2> QED BY <2>2, <2>3, <2>4
<1> QED BY <1>4, <1>5 DEF HoDemote, HoDemoteError, HoDemoteTimeout, AssignError
-----------------------------------------------------------------------------
(* Everything else.                                                        *)

\* A step that leaves the roles and the calls alone, and changes one App.
LEMMA OtherStep ==
  ASSUME IInv, VInv, NEW n \in Node, NEW a, Become(n, a), RunQuiet(n, a, conf),
         UNCHANGED <<conf, joinFile, ho>>
  PROVE  VInv'
<1>1. ASSUME NEW m \in Node PROVE app'[m] = IF m = n THEN a ELSE app[m]
  BY DEF Become, IInv
<1>2. QuietInv'
  BY <1>1 DEF QuietInv, VInv
<1>3. HeldInv' /\ Covered(conf', ho')
  BY DEF HeldInv, VInv
<1> QED BY <1>2, <1>3 DEF VInv

\* A step that changes none.
LEMMA NoStep == ASSUME VInv, UNCHANGED <<conf, joinFile, app, ho>> PROVE VInv'
  BY DEF VInv, QuietInv, HeldInv

\* A voter has no role to assume.
LEMMA AssumeOfVoter ==
  ASSUME NEW n, NEW nodes, NEW view, n \in DOMAIN nodes, nodes[n] = Voter
  PROVE  Assume(makeRolesChanges(nodes, view), n) = Keep
<1>1. makeRolesChanges(nodes, view).role = nodes
  BY SnapshotType
<1> QED BY <1>1, Zenon DEF Assume

\* The run goroutines of voters that come back only get ready.
LEMMA RunVote == ASSUME IInv, VInv, HandoverWindow, NEW n \in Node, Run(n) PROVE VInv'
<1>1. app[n] \in AppState /\ RunQuiet(n, app[n], conf) /\ ~joinFile[n]
  BY DEF IInv, VInv, QuietInv
<1>2. RunLeader(n) \/ RunCluster(n) \/ RunReadError(n) \/ RunAssume(n)
  BY <1>1, Zenon DEF RunQuiet, Run, RunStop, RunAdd, RunAddError, RunRemove, RunPromote, RunPromoteError,
              RunPromoteOther, RunPromoteOtherError, RunAdjustLeader, RunAdjustCluster,
              RunAdjustProbe, RunAdjustAssign, RunAdjustAssignError
<1>3. UNCHANGED <<conf, joinFile, ho>>
  BY <1>2, Zenon DEF RunLeader, RunCluster, RunReadError, RunAssume, raftVars, diskVars
<1>4. CASE RunLeader(n)
  <2> DEFINE a == [app[n] EXCEPT !.pc = "cluster", !.cli = leader]
  <2>1. Become(n, a) /\ ~app[n].ready
    BY <1>1, <1>4 DEF RunLeader, RunQuiet, HandoverWindow
  <2>2. RunQuiet(n, a, conf)
    BY <1>1, <2>1 DEF RunQuiet, AppState
  <2> QED BY <1>3, <2>1, <2>2, OtherStep
<1>5. CASE RunCluster(n)
  <2> DEFINE a == [app[n] EXCEPT !.pc = "assume", !.nodes = Servers]
  <2>1. Become(n, a) /\ ~app[n].ready /\ conf[n] = Voter
    BY <1>1, <1>5 DEF RunCluster, RunQuiet
  <2>2. n \in DOMAIN Servers /\ Servers[n] = Voter
    BY <2>1, NoneRole DEF Servers, Members, Role
  <2>3. RunQuiet(n, a, conf)
    BY <1>1, <2>1, <2>2 DEF RunQuiet, AppState
  <2> QED BY <1>3, <2>1, <2>3, OtherStep
<1>6. CASE RunReadError(n)
  <2>1. Become(n, Idle(app[n])) /\ app[n].pc = "cluster"
    BY <1>1, <1>6 DEF RunReadError, RunQuiet
  <2>2. RunQuiet(n, Idle(app[n]), conf)
    BY <1>1, <2>1 DEF RunQuiet, AppState, Idle
  <2> QED BY <1>3, <2>1, <2>2, OtherStep
<1>7. CASE RunAssume(n)
  <2>1. \A view : Assume(makeRolesChanges(app[n].nodes, view), n) = Keep
    BY <1>1, <1>7, AssumeOfVoter DEF RunAssume, RunQuiet
  <2>2. Become(n, Ready(app[n]))
    BY <1>7, <2>1, Zenon DEF RunAssume
  <2>3. RunQuiet(n, Ready(app[n]), conf)
    BY <1>1 DEF RunQuiet, AppState, Ready, Idle
  <2> QED BY <1>3, <2>2, <2>3, OtherStep
<1> QED BY <1>2, <1>4, <1>5, <1>6, <1>7

\* Elections come and go, and nodes come back; nothing stops.
LEMMA LifeVote ==
  ASSUME IInv, VInv, HandoverWindow, NEW n \in Node,
         Elect(n) \/ CloseStop(n) \/ CloseNode(n) \/ Start(n) \/ Crash(n)
  PROVE  VInv'
<1>1. app[n] \in AppState /\ RunQuiet(n, app[n], conf) /\ joinFile[n] = FALSE /\ stops \in Nat
  BY DEF IInv, VInv, QuietInv, RaftOK, DiskOK
<1>2. Elect(n) \/ Start(n)
  BY <1>1 DEF HandoverWindow, CloseStop, CloseNode, Crash, RunQuiet
<1>3. CASE Elect(n)
  BY <1>3, NoStep DEF Elect, diskVars
<1>4. CASE Start(n)
  <2> DEFINE a == NewApp("select", FALSE, FALSE)
  <2>1. Become(n, a) /\ ~app[n].ready /\ UNCHANGED <<conf, joinFile, ho>>
    BY <1>1, <1>4, Zenon DEF Start, RunQuiet, diskVars
  <2>2. RunQuiet(n, a, conf)
    BY <1>1, <2>1, Zenon DEF RunQuiet, NewApp
  <2> QED BY <2>1, <2>2, OtherStep, Zenon
<1> QED BY <1>2, <1>3, <1>4

\* The window opens with enough voters.
LEMMA InitVote == ASSUME HandoverWindow, Init PROVE VInv
<1>1. /\ conf \in InitConfs /\ up \in InitUp /\ \A n \in Node : conf[n] # None
      /\ Leaving \subseteq VotersIn(conf) /\ Node \ up \subseteq VotersIn(conf) \ Leaving
      /\ Cardinality(VotersIn(conf)) >= Voters
  BY DEF Init, HandoverWindow
<1>2. ASSUME NEW n \in Node PROVE ~joinFile[n] /\ RunQuiet(n, app[n], conf)
  <2>1. ~joinFile[n]
    BY <1>1, Zenon DEF Init
  <2>2. CASE n \in up
    <3>1. app[n] = NewApp("select", FALSE, TRUE)
      BY <1>1, <2>2, Zenon DEF Init
    <3> QED BY <2>1, <3>1 DEF NewApp, RunQuiet
  <2>3. CASE n \notin up
    <3>1. app[n] = NewApp("off", FALSE, FALSE) /\ conf[n] = Voter /\ n \notin Leaving
      BY <1>1, <2>3 DEF Init, VotersIn
    <3> QED BY <2>1, <3>1 DEF NewApp, RunQuiet
  <2> QED BY <2>2, <2>3
<1>3. ASSUME NEW n \in Node PROVE ho[n].pc = "idle" /\ ho[n].todo.role = Keep
  BY DEF Init, NoHo, NoChange, Change
<1>4. ASSUME NEW n \in Node PROVE Held(n, ho[n], conf) /\ Given(n, ho[n], conf)
  BY <1>1, <1>3 DEF Held, Given, VotersIn
<1>5. Owing(conf, ho) = {}
  BY <1>3 DEF Owing, Owes, VotersIn
<1>6. Covered(conf, ho)
  <2>1. Cardinality(Owing(conf, ho)) = 0
    BY <1>5, FS_EmptySet
  <2>2. Cardinality(VotersIn(conf)) \in Nat /\ Voters \in Nat
    BY VotersFinite, FS_CardinalityType
  <2> QED BY <1>1, <2>1, <2>2 DEF Covered
<1> QED BY <1>2, <1>4, <1>6 DEF VInv, QuietInv, HeldInv

\* Every step keeps the invariant.
LEMMA NextVote == ASSUME HandoverWindow PROVE IInv /\ VInv /\ [Next]_vars => VInv'
<1> SUFFICES ASSUME IInv, VInv, [Next]_vars PROVE VInv'
  OBVIOUS
<1>1. CASE UNCHANGED vars
  BY <1>1, NoStep DEF vars, diskVars, raftVars
<1>2. ASSUME NEW n \in Node, Ho(n) \/ HoCall(n) PROVE VInv'
  BY <1>2, HoStarts, HoProbes, HoPromotes, HoMoves, HoDemotes, Zenon DEF Ho
<1>3. CASE Next
  BY <1>2, <1>3, RunVote, LifeVote, Zenon DEF Next
<1> QED BY <1>1, <1>3

\* ... and so it holds as long as the window lasts.
LEMMA VoteInvariant == ASSUME HandoverWindow PROVE Spec => []VInv
<1>1. Init => VInv
  BY InitVote
<1>2. IInv /\ VInv /\ [Next]_vars => VInv'
  BY NextVote
<1> QED BY <1>1, <1>2, Invariant, PTL DEF Spec

\* Handover calls on any number of voters at once, competing for the same candidates
\* and possibly promoting each other's nodes, never leave fewer voters than there
\* should be, at any time: voting rights are taken over before they are given up
\* (app.go:342-355, 390-395).
THEOREM HandoversKeepTheCount == HandoverWindow => (Spec => []HandoversKeepCount)
<1> SUFFICES ASSUME HandoverWindow PROVE Spec => []HandoversKeepCount
  OBVIOUS
<1>1. VInv => HandoversKeepCount
  <2> SUFFICES ASSUME VInv PROVE HandoversKeepCount
    OBVIOUS
  <2>1. Owing(conf, ho) \in SUBSET VotersIn(conf)
    BY DEF Owing
  <2>2. IsFiniteSet(VotersIn(conf)) /\ IsFiniteSet(Owing(conf, ho)) /\ Voters \in Nat
    BY <2>1, VotersFinite, FS_Subset
  <2>3. Cardinality(VotersIn(conf)) \in Nat /\ Cardinality(Owing(conf, ho)) \in Nat
    BY <2>2, FS_CardinalityType
  <2> QED BY <2>2, <2>3 DEF VInv, Covered, HandoversKeepCount
<1> QED BY <1>1, VoteInvariant, PTL

\* When the Handover call of the only node that leaves has given the voting rights of
\* its node away, the cluster has as many voters as it should, and the node is none of
\* them, whichever requests fail or lose their replies on the way (app.go:342-400).
THEOREM HandoverKeeps == HandoverWindow /\ OneLeaver => (Spec => []HandoverKeepsVoters)
<1> SUFFICES ASSUME HandoverWindow, OneLeaver PROVE Spec => []HandoverKeepsVoters
  OBVIOUS
<1>1. VInv /\ HandoversKeepCount => HandoverKeepsVoters
  BY DEF VInv, HeldInv, Given, HandoversKeepCount, HandoverKeepsVoters
<1> QED BY <1>1, VoteInvariant, HandoversKeepTheCount, PTL
=============================================================================
