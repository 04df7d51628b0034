------------------------------ MODULE AppProofs ------------------------------
(***************************************************************************)
(* Proofs about App, for any number of nodes, any metadata and any bounds:  *)
(* type correctness, what maybeAdjustRoles demotes, and that its changes    *)
(* lead towards balance.                                                   *)
(*                                                                         *)
(* The inductive invariant adds to these that a goroutine which is about to *)
(* assign a role has a node and a proper role at hand.                      *)
(***************************************************************************)
EXTENDS App, RolesProofs

RaftOK ==
  /\ conf \in [Node -> Role \cup {None}]
  /\ leader \in Node \cup {NoNode}
  /\ up \in SUBSET Node
  /\ elections \in Nat /\ stops \in Nat

DiskOK ==
  /\ joinFile \in [Node -> BOOLEAN]
  /\ store \in [Node -> SUBSET Node]

\* A pending change of roles names a node and a role.
Pending(todo) == todo.role \in Role /\ todo.nodes # <<>>

AppOK(n, a) ==
  /\ a \in AppState
  /\ a.pc \in {"promote", "promoteOther", "adjustAssign"} => Pending(a.todo)
  /\ a.pc = "adjustAssign" /\ a.todo.role = Spare =>
       \A i \in 1..Len(a.todo.nodes) :
         SafeToDemote(Snapshot(a), n, a.todo.nodes[i])
  /\ a.pc = "adjustAssign" =>
       \A i \in 1..Len(a.todo.nodes) :
         Nearer(Snapshot(a), n, a.todo.nodes[i], a.todo.role)

HoOK(h) == h \in HoState /\ (h.pc = "promote" => Pending(h.todo))

IInv ==
  /\ RaftOK /\ DiskOK
  /\ app \in [Node -> AppState] /\ \A n \in Node : AppOK(n, app[n])
  /\ ho \in [Node -> HoState] /\ \A n \in Node : HoOK(ho[n])

\* What no request to the cluster does: remove a member.
RaftStep == RaftOK' /\ \A n \in Node : conf[n] # None => conf'[n] # None
-----------------------------------------------------------------------------
(* Requests to the cluster.                                                *)

\* Neither a role nor a node stands for nothing.
LEMMA NoneRole == None \notin Role /\ NoNode \notin Node
  BY NodeAssumption

\* A request that changes nothing.
LEMMA RaftUnchanged ==
  ASSUME RaftOK, UNCHANGED raftVars
  PROVE  RaftStep
  BY DEF RaftOK, RaftStep, raftVars

\* An Assign request, whether it succeeds or not.
LEMMA AssignStep ==
  ASSUME RaftOK, NEW cli, NEW n \in Node, NEW role \in Role,
         Assign(cli, n, role) \/ AssignError(cli, n, role)
  PROVE  RaftStep
<1>1. CASE UNCHANGED raftVars
  BY <1>1, RaftUnchanged
<1>2. CASE Assign(cli, n, role)
  BY <1>2, NoneRole DEF Assign, DoAssign, RaftOK, RaftStep
<1> QED
  BY <1>1, <1>2 DEF AssignError

\* An Add request that is carried out.
LEMMA AddStep ==
  ASSUME RaftOK, NEW n \in Node, DoAdd(n)
  PROVE  RaftStep /\ conf'[n] # None
  BY NoneRole DEF DoAdd, RaftOK, RaftStep, Role

\* The reply to a Cluster request.
LEMMA ServersType ==
  ASSUME RaftOK
  PROVE  Servers \in NodesReply /\ Members \in SUBSET Node
<1>1. Members \in SUBSET Node
  BY DEF Members
<1>2. Servers \in [Members -> Role]
  BY DEF Servers, Members, RaftOK
<1> QED
  BY <1>1, <1>2 DEF NodesReply

\* The nodes a reply lists are a finite subset of Node.
LEMMA ReplyFinite ==
  ASSUME NEW nodes \in NodesReply
  PROVE  /\ DOMAIN nodes \in SUBSET Node
         /\ IsFiniteSet(DOMAIN nodes)
         /\ nodes \in [DOMAIN nodes -> Role]
<1>1. PICK S \in SUBSET Node : nodes \in [S -> Role]
  BY DEF NodesReply
<1>2. DOMAIN nodes = S
  BY <1>1
<1>3. IsFiniteSet(S)
  BY NodeAssumption, FS_Subset
<1> QED
  BY <1>1, <1>2, <1>3

\* The values for no reply, no change and the probes that succeeded.
LEMMA NoServersType == NoServers \in NodesReply
<1>1. NoServers \in [{} -> Role]
  BY DEF NoServers
<1>2. {} \in SUBSET Node
  OBVIOUS
<1> QED
  BY <1>1, <1>2 DEF NodesReply

\* No change is a change record.
LEMMA NoChangeChanges == NoChange \in Changes
  BY DEF NoChange, Change, Changes

\* Probing yields some of the nodes that were probed.
LEMMA ProbesType ==
  ASSUME NEW S \in SUBSET Node, NEW view \in Probes(S)
  PROVE  view \in SUBSET Node
  BY DEF Probes

\* The snapshot that makeRolesChanges builds.
LEMMA SnapshotType ==
  ASSUME NEW nodes, NEW view
  PROVE  /\ makeRolesChanges(nodes, view).role = nodes
         /\ DOMAIN makeRolesChanges(nodes, view).meta = view
  BY DEF makeRolesChanges
-----------------------------------------------------------------------------
(* The states of the two goroutines.                                       *)

\* A state that has no change pending.
LEMMA RestState ==
  ASSUME NEW n, NEW a \in AppState,
         a.pc \notin {"promote", "promoteOther", "adjustAssign"}
  PROVE  AppOK(n, a)
  BY DEF AppOK

\* The ends of an iteration.
LEMMA EndState ==
  ASSUME NEW n, NEW a \in AppState
  PROVE  AppOK(n, Idle(a)) /\ AppOK(n, Ready(a)) /\ AppOK(n, Again(a))
<1>1. Idle(a) \in AppState /\ Idle(a).pc = "select"
  BY NoServersType, NoChangeChanges, Zenon DEF Idle, AppState, RunPC
<1>2. Ready(a) \in AppState /\ Ready(a).pc = "select"
  BY <1>1, Zenon DEF Ready, AppState
<1>3. Again(a) \in AppState /\ Again(a).pc = "adjustLeader"
  BY NoServersType, NoChangeChanges, Zenon DEF Again, AppState, RunPC
<1> QED
  BY <1>1, <1>2, <1>3, RestState

\* A new App object.
LEMMA NewState ==
  ASSUME NEW n, NEW pc \in {"off", "select"}, NEW joining \in BOOLEAN,
         NEW isReady \in BOOLEAN
  PROVE  NewApp(pc, joining, isReady) \in AppState /\ AppOK(n, NewApp(pc, joining, isReady))
<1>1. NewApp(pc, joining, isReady) \in AppState
  BY NoServersType, NoChangeChanges DEF NewApp, AppState, RunPC
<1>2. NewApp(pc, joining, isReady).pc = pc
  BY DEF NewApp
<1> QED
  BY <1>1, <1>2, RestState

\* The end of a Handover call, and no call.
LEMMA HoEndState ==
  ASSUME NEW h \in HoState, NEW res \in {"done", "failed"}
  PROVE  HoOK(HoReturn(h, res)) /\ HoOK(HoLast(h)) /\ NoHo \in HoState /\ HoOK(NoHo)
  BY NoServersType, NoChangeChanges, Zenon DEF HoReturn, HoLast, HoState, HoPC, HoOK, NoHo

\* Head and tail of a sequence that has elements.
LEMMA HeadTail ==
  ASSUME NEW S, NEW s \in Seq(S), s # <<>>
  PROVE  /\ Head(s) \in S /\ Head(s) = s[1]
         /\ Len(s) \in Nat /\ Len(s) >= 1
         /\ Tail(s) \in Seq(S) /\ Len(Tail(s)) = Len(s) - 1
         /\ Len(s) # 1 => Tail(s) # <<>>
         /\ \A i \in 1..Len(Tail(s)) : i + 1 \in 1..Len(s) /\ Tail(s)[i] = s[i + 1]
<1>1. Len(s) \in Nat /\ Len(s) >= 1
  OBVIOUS
<1>2. Head(s) \in S /\ Head(s) = s[1]
  BY <1>1
<1>3. Tail(s) \in Seq(S) /\ Len(Tail(s)) = Len(s) - 1
  BY <1>1
<1>4. Len(s) # 1 => Tail(s) # <<>>
  <2>1. Len(s) # 1 => Len(Tail(s)) # 0
    BY <1>1, <1>3
  <2> QED
    BY <2>1, Zenon
<1>5. ASSUME NEW i \in 1..Len(Tail(s))
      PROVE  i + 1 \in 1..Len(s) /\ Tail(s)[i] = s[i + 1]
  BY <1>1, <1>3
<1> QED
  BY <1>1, <1>2, <1>3, <1>4, <1>5

\* Walking on after a failed request.
LEMMA WalkOn ==
  ASSUME NEW todo \in Changes, Pending(todo)
  PROVE  /\ Head(todo.nodes) \in Node /\ Head(todo.nodes) = todo.nodes[1]
         /\ Len(todo.nodes) \in Nat /\ Len(todo.nodes) >= 1
         /\ Tail(todo.nodes) \in Seq(Node)
         /\ Len(todo.nodes) # 1 => Tail(todo.nodes) # <<>>
         /\ Len(Tail(todo.nodes)) = Len(todo.nodes) - 1
         /\ \A i \in 1..Len(Tail(todo.nodes)) :
              i + 1 \in 1..Len(todo.nodes) /\ Tail(todo.nodes)[i] = todo.nodes[i + 1]
<1>1. todo.nodes \in Seq(Node) /\ todo.nodes # <<>>
  BY DEF Changes, Pending
<1> QED
  BY <1>1, HeadTail

\* A step of the run goroutine of node n.
LEMMA AppStep ==
  ASSUME IInv, RaftStep, NEW n \in Node, NEW a, AppOK(n, a), Become(n, a),
         joinFile' \in [Node -> BOOLEAN], store' \in [Node -> SUBSET Node], UNCHANGED ho
  PROVE  IInv'
<1>1. a \in AppState
  BY DEF AppOK
<1>2. app' \in [Node -> AppState] /\ \A m \in Node : AppOK(m, app'[m])
  BY <1>1 DEF IInv, Become
<1>3. RaftOK' /\ DiskOK'
  BY DEF IInv, RaftStep, DiskOK
<1>4. ho' \in [Node -> HoState] /\ \A m \in Node : HoOK(ho'[m])
  BY DEF IInv
<1> QED
  BY <1>2, <1>3, <1>4 DEF IInv

\* A step of the Handover call on node n.
LEMMA HoStep ==
  ASSUME IInv, RaftStep, NEW n \in Node, NEW h, HoOK(h), HoBecome(n, h),
         UNCHANGED <<joinFile, store, app>>
  PROVE  IInv'
<1>1. h \in HoState
  BY DEF HoOK
<1>2. ho' \in [Node -> HoState] /\ \A m \in Node : HoOK(ho'[m])
  BY <1>1 DEF IInv, HoBecome
<1>3. RaftOK' /\ DiskOK'
  BY DEF IInv, RaftStep, DiskOK
<1>4. app' \in [Node -> AppState] /\ \A m \in Node : AppOK(m, app'[m])
  BY DEF IInv
<1> QED
  BY <1>2, <1>3, <1>4 DEF IInv
-----------------------------------------------------------------------------
(* The invariant is inductive.                                             *)

\* It holds at the start.
LEMMA InitInv == Init => IInv
<1> SUFFICES ASSUME Init PROVE IInv
  OBVIOUS
<1>1. RaftOK
  BY NodeAssumption DEF Init, RaftOK
<1>2. DiskOK
  BY Zenon DEF Init, DiskOK, Members
<1>3. \A n \in Node : app[n] \in AppState /\ AppOK(n, app[n])
  BY NewState, Zenon DEF Init
<1>4. app \in [Node -> AppState]
  BY <1>3, Zenon DEF Init
<1>5. NoHo \in HoState /\ HoOK(NoHo)
  BY NoServersType, NoChangeChanges DEF NoHo, HoState, HoPC, HoOK
<1>6. ho \in [Node -> HoState] /\ \A n \in Node : HoOK(ho[n])
  BY <1>5 DEF Init
<1> QED
  BY <1>1, <1>2, <1>3, <1>4, <1>6 DEF IInv

\* The run goroutine keeps it.
LEMMA RunInv ==
  ASSUME IInv, NEW n \in Node, Run(n)
  PROVE  IInv'
<1>1. /\ RaftOK /\ DiskOK /\ app[n] \in AppState /\ AppOK(n, app[n])
      /\ app[n].todo \in Changes /\ app[n].nodes \in NodesReply
      /\ leader \in Node \cup {NoNode}
  BY DEF IInv, AppState, RaftOK
<1>2. /\ UNCHANGED raftVars => RaftStep
      /\ UNCHANGED diskVars => joinFile' \in [Node -> BOOLEAN] /\ store' \in [Node -> SUBSET Node]
  BY <1>1, RaftUnchanged DEF diskVars, DiskOK
<1>3. CASE RunStop(n)
  <2> DEFINE a == [app[n] EXCEPT !.pc = "done", !.readyCh = TRUE]
  <2>1. a \in AppState /\ a.pc = "done"
    BY <1>1, Zenon DEF AppState, RunPC
  <2>2. AppOK(n, a)
    BY <2>1, RestState, Zenon
  <2> QED
    BY <1>2, <1>3, <2>2, AppStep DEF RunStop
<1>4. CASE RunLeader(n)
  <2> DEFINE a == [app[n] EXCEPT !.pc = IF app[n].join THEN "add" ELSE "cluster",
                                 !.cli = leader]
  <2>1. a \in AppState /\ a.pc \in {"add", "cluster"}
    BY <1>1, Zenon DEF AppState, RunPC
  <2>2. AppOK(n, a)
    BY <2>1, RestState, Zenon
  <2> QED
    BY <1>2, <1>4, <2>2, AppStep DEF RunLeader
<1>5. CASE RunAdd(n)
  <2> DEFINE a == [app[n] EXCEPT !.pc = "remove", !.join = FALSE]
  <2>1. a \in AppState /\ a.pc = "remove"
    BY <1>1, Zenon DEF AppState, RunPC
  <2>2. AppOK(n, a)
    BY <2>1, RestState, Zenon
  <2>3. RaftStep
    BY <1>1, <1>5, AddStep DEF RunAdd
  <2> QED
    BY <1>2, <1>5, <2>2, <2>3, AppStep DEF RunAdd
<1>6. CASE RunAddError(n)
  <2>1. RaftStep
    BY <1>1, <1>2, <1>6, AddStep DEF RunAddError
  <2> QED
    BY <1>1, <1>2, <1>6, <2>1, EndState, AppStep DEF RunAddError
<1>7. CASE RunCluster(n)
  <2> DEFINE a == [app[n] EXCEPT !.pc = "adjustLeader"]
             b == [app[n] EXCEPT !.pc = "assume", !.nodes = Servers]
  <2>1. a \in AppState /\ a.pc = "adjustLeader"
    BY <1>1 DEF AppState, RunPC
  <2>2. b \in AppState /\ b.pc = "assume"
    BY <1>1, ServersType, Zenon DEF AppState, RunPC
  <2>3. AppOK(n, a) /\ AppOK(n, b)
    BY <2>1, <2>2, RestState, Zenon
  <2>4. /\ store' \in [Node -> SUBSET Node] /\ joinFile' \in [Node -> BOOLEAN]
        /\ UNCHANGED ho /\ RaftStep
    BY <1>1, <1>2, <1>7, ServersType DEF RunCluster, DiskOK
  <2>5. Become(n, a) \/ Become(n, b)
    BY <1>7 DEF RunCluster
  <2> QED
    BY <2>3, <2>4, <2>5, AppStep
<1>8. CASE RunReadError(n)
  BY <1>1, <1>2, <1>8, EndState, AppStep DEF RunReadError
<1>9. CASE RunAssume(n)
  <2>1. PICK view \in Probes(DOMAIN app[n].nodes) :
          LET role == Assume(makeRolesChanges(app[n].nodes, view), n)
          IN  Become(n, IF role = Keep
                        THEN Ready(app[n])
                        ELSE [app[n] EXCEPT !.pc = "promote", !.view = view,
                                            !.todo = Change(role, <<n>>)])
    BY <1>9, Zenon DEF RunAssume
  <2> DEFINE role == Assume(makeRolesChanges(app[n].nodes, view), n)
             a    == [app[n] EXCEPT !.pc = "promote", !.view = view,
                                    !.todo = Change(role, <<n>>)]
  <2>2. role \in {Voter, StandBy, Keep}
    BY AssumeType
  <2>3. view \in SUBSET Node
    BY <1>1, ReplyFinite, ProbesType
  <2>4. CASE role = Keep
    <3>1. Become(n, Ready(app[n]))
      BY <2>1, <2>4
    <3> QED
      BY <1>1, <1>2, <1>9, <3>1, EndState, AppStep DEF RunAssume
  <2>5. CASE role # Keep
    <3> HIDE DEF role
    <3>1. role \in Role
      BY <2>2, <2>5 DEF Role
    <3>2. <<n>> \in Seq(Node) /\ <<n>> # <<>>
      OBVIOUS
    <3>3. Change(role, <<n>>) \in Changes /\ Pending(Change(role, <<n>>))
      BY <3>1, <3>2 DEF Change, Changes, Pending
    <3>4. a \in AppState /\ a.pc = "promote" /\ a.todo = Change(role, <<n>>)
      BY <1>1, <2>3, <3>3, Zenon DEF AppState, RunPC
    <3>5. AppOK(n, a)
      BY <3>3, <3>4 DEF AppOK
    <3>6. Become(n, a)
      BY <2>1, <2>5 DEF role
    <3> QED
      BY <1>2, <1>9, <3>5, <3>6, AppStep DEF RunAssume
  <2> QED
    BY <2>4, <2>5
<1>10. CASE RunPromote(n)
  <2>1. app[n].todo.role \in Role
    BY <1>1, <1>10 DEF AppOK, Pending, RunPromote
  <2>2. RaftStep
    BY <1>1, <1>10, <2>1, AssignStep DEF RunPromote
  <2>3. PICK s \in Orders(OthersToPromote(n)) :
          Become(n, IF s = <<>>
                    THEN Ready(app[n])
                    ELSE [app[n] EXCEPT !.pc = "promoteOther", !.todo = Change(Voter, s)])
    BY <1>10, Zenon DEF RunPromote
  <2>4. OthersToPromote(n) \in SUBSET Node /\ IsFiniteSet(OthersToPromote(n))
    <3>1. OthersToPromote(n) \subseteq DOMAIN app[n].nodes
      BY Zenon DEF OthersToPromote
    <3> QED
      BY <1>1, <3>1, ReplyFinite, FS_Subset
  <2>5. Change(Voter, s) \in Changes
    <3>1. Change(Voter, s) \in ChangeOf(Node)
      BY <2>4, ChangeType DEF Role
    <3> QED
      BY <3>1 DEF ChangeOf, Changes
  <2>6. CASE s = <<>>
    <3>1. Become(n, Ready(app[n]))
      BY <2>3, <2>6
    <3> QED
      BY <1>1, <1>2, <1>10, <2>2, <3>1, EndState, AppStep DEF RunPromote
  <2>7. CASE s # <<>>
    <3> DEFINE a == [app[n] EXCEPT !.pc = "promoteOther", !.todo = Change(Voter, s)]
    <3>1. a \in AppState /\ a.pc = "promoteOther" /\ a.todo = Change(Voter, s)
      BY <1>1, <2>5, Zenon DEF AppState, RunPC
    <3>2. Pending(Change(Voter, s))
      BY <2>7 DEF Pending, Change, Role
    <3>3. AppOK(n, a)
      BY <3>1, <3>2 DEF AppOK
    <3>4. Become(n, a)
      BY <2>3, <2>7
    <3> QED
      BY <1>2, <1>10, <2>2, <3>3, <3>4, AppStep DEF RunPromote
  <2> QED
    BY <2>6, <2>7
<1>11. CASE RunPromoteError(n)
  <2>1. app[n].todo.role \in Role
    BY <1>1, <1>11 DEF AppOK, Pending, RunPromoteError
  <2>2. RaftStep
    BY <1>1, <1>11, <2>1, AssignStep DEF RunPromoteError
  <2> QED
    BY <1>1, <1>2, <1>11, <2>2, EndState, AppStep DEF RunPromoteError
<1>12. CASE RunPromoteOther(n)
  <2>1. Head(app[n].todo.nodes) \in Node
    BY <1>1, <1>12, WalkOn DEF AppOK, RunPromoteOther
  <2>2. RaftStep
    BY <1>1, <1>12, <2>1, AssignStep DEF RunPromoteOther, Role
  <2> QED
    BY <1>1, <1>2, <1>12, <2>2, EndState, AppStep DEF RunPromoteOther
<1>13. CASE RunPromoteOtherError(n)
  <2> DEFINE a == [app[n] EXCEPT !.todo.nodes = Tail(@)]
  <2>1. Pending(app[n].todo)
    BY <1>1, <1>13 DEF AppOK, RunPromoteOtherError
  <2>2. RaftStep
    BY <1>1, <1>13, <2>1, WalkOn, AssignStep DEF RunPromoteOtherError, Role
  <2>3. CASE Len(app[n].todo.nodes) = 1
    <3>1. Become(n, Ready(app[n]))
      BY <1>13, <2>3 DEF RunPromoteOtherError
    <3> QED
      BY <1>1, <1>2, <1>13, <2>2, <3>1, EndState, AppStep DEF RunPromoteOtherError
  <2>4. CASE Len(app[n].todo.nodes) # 1
    <3>1. Tail(app[n].todo.nodes) \in Seq(Node) /\ Tail(app[n].todo.nodes) # <<>>
      BY <1>1, <2>1, <2>4, WalkOn
    <3>2. a \in AppState /\ a.pc = "promoteOther"
      BY <1>1, <1>13, <3>1, Zenon DEF AppState, Changes, RunPromoteOtherError
    <3>3. Pending(a.todo)
      BY <1>1, <2>1, <3>1 DEF AppState, Changes, Pending
    <3>4. AppOK(n, a)
      BY <3>2, <3>3 DEF AppOK
    <3>5. Become(n, a)
      BY <1>13, <2>4 DEF RunPromoteOtherError
    <3> QED
      BY <1>2, <1>13, <2>2, <3>4, <3>5, AppStep DEF RunPromoteOtherError
  <2> QED
    BY <2>3, <2>4
<1>14. CASE RunAdjustLeader(n)
  <2> DEFINE a == [app[n] EXCEPT !.pc = "adjustCluster"]
  <2>1. a \in AppState /\ a.pc = "adjustCluster"
    BY <1>1 DEF AppState, RunPC
  <2>2. AppOK(n, a) /\ AppOK(n, Idle(app[n]))
    BY <1>1, <2>1, RestState, EndState, Zenon
  <2>3. Become(n, a) \/ Become(n, Idle(app[n]))
    BY <1>14 DEF RunAdjustLeader
  <2> QED
    BY <1>2, <1>14, <2>2, <2>3, AppStep DEF RunAdjustLeader
<1>15. CASE RunAdjustCluster(n)
  <2> DEFINE a == [app[n] EXCEPT !.pc = "adjustProbe", !.nodes = Servers]
  <2>1. a \in AppState /\ a.pc = "adjustProbe"
    BY <1>1, ServersType, Zenon DEF AppState, RunPC
  <2>2. AppOK(n, a)
    BY <2>1, RestState, Zenon
  <2> QED
    BY <1>2, <1>15, <2>2, AppStep DEF RunAdjustCluster
<1>16. CASE RunAdjustProbe(n)
  <2>1. PICK view \in Probes(DOMAIN app[n].nodes) :
          \E change \in Adjust(makeRolesChanges(app[n].nodes, view), n) :
            Become(n, IF change.role = Keep THEN Idle(app[n])
                      ELSE IF change.nodes = <<>> THEN Again(app[n])
                      ELSE [app[n] EXCEPT !.pc = "adjustAssign", !.view = view,
                                          !.todo = change])
    BY <1>16, Zenon DEF RunAdjustProbe
  <2> DEFINE c == makeRolesChanges(app[n].nodes, view)
  <2>2. PICK change \in Adjust(c, n) :
          Become(n, IF change.role = Keep THEN Idle(app[n])
                    ELSE IF change.nodes = <<>> THEN Again(app[n])
                    ELSE [app[n] EXCEPT !.pc = "adjustAssign", !.view = view,
                                        !.todo = change])
    BY <2>1, Zenon
  <2>3. view \in SUBSET Node
    BY <1>1, ReplyFinite, ProbesType
  <2>4. /\ c.role = app[n].nodes
        /\ IsFiniteSet(DOMAIN c.role) /\ DOMAIN c.role \in SUBSET Node
    BY <1>1, SnapshotType, ReplyFinite
  <2>5. /\ change \in ChangeOf(DOMAIN c.role)
        /\ change.role = Spare =>
             \A i \in 1..Len(change.nodes) : SafeToDemote(c, n, change.nodes[i])
    BY <2>4, AdjustSafe
  <2>6. change \in Changes
    BY <2>4, <2>5 DEF ChangeOf, Changes
  <2>7. \A i \in 1..Len(change.nodes) : Nearer(c, n, change.nodes[i], change.role)
    <3>1. c.role \in [DOMAIN c.role -> Role]
      BY <1>1, <2>4, ReplyFinite, Zenon
    <3> HIDE DEF c
    <3> QED BY <2>4, <3>1, AdjustNearer, Zenon
  <2>8. CASE change.role = Keep \/ change.nodes = <<>>
    <3>1. Become(n, Idle(app[n])) \/ Become(n, Again(app[n]))
      BY <2>2, <2>8
    <3> QED
      BY <1>1, <1>2, <1>16, <3>1, EndState, AppStep DEF RunAdjustProbe
  <2>9. CASE change.role # Keep /\ change.nodes # <<>>
    <3> DEFINE a == [app[n] EXCEPT !.pc = "adjustAssign", !.view = view, !.todo = change]
    <3>1. /\ a \in AppState /\ a.pc = "adjustAssign" /\ a.todo = change
          /\ a.nodes = app[n].nodes /\ a.view = view
      BY <1>1, <2>3, <2>6, Zenon DEF AppState, RunPC
    <3>2. Snapshot(a) = c
      BY <3>1 DEF Snapshot
    <3>3. Pending(change)
      BY <2>6, <2>9 DEF Pending, Changes
    <3> HIDE DEF a, c
    <3>4. AppOK(n, a)
      BY <2>5, <2>7, <3>1, <3>2, <3>3, Zenon DEF AppOK
    <3>5. Become(n, a)
      BY <2>2, <2>9 DEF a
    <3> QED
      BY <1>2, <1>16, <3>4, <3>5, AppStep DEF RunAdjustProbe
  <2> QED
    BY <2>8, <2>9
<1>17. CASE RunAdjustAssign(n)
  <2>1. Pending(app[n].todo)
    BY <1>1, <1>17 DEF AppOK, RunAdjustAssign
  <2>2. RaftStep
    BY <1>1, <1>17, <2>1, WalkOn, AssignStep DEF RunAdjustAssign, Pending
  <2> QED
    BY <1>1, <1>2, <1>17, <2>2, EndState, AppStep DEF RunAdjustAssign
<1>18. CASE RunAdjustAssignError(n)
  <2> DEFINE a == [app[n] EXCEPT !.todo.nodes = Tail(@)]
  <2>1. Pending(app[n].todo)
    BY <1>1, <1>18 DEF AppOK, RunAdjustAssignError
  <2>2. RaftStep
    BY <1>1, <1>18, <2>1, WalkOn, AssignStep DEF RunAdjustAssignError, Pending
  <2>3. CASE Len(app[n].todo.nodes) = 1
    <3>1. Become(n, Idle(app[n]))
      BY <1>18, <2>3 DEF RunAdjustAssignError
    <3> QED
      BY <1>1, <1>2, <1>18, <2>2, <3>1, EndState, AppStep DEF RunAdjustAssignError
  <2>4. CASE Len(app[n].todo.nodes) # 1
    <3>1. Tail(app[n].todo.nodes) \in Seq(Node) /\ Tail(app[n].todo.nodes) # <<>>
      BY <1>1, <2>1, <2>4, WalkOn
    <3>2. a \in AppState /\ a.pc = "adjustAssign"
      BY <1>1, <1>18, <3>1, Zenon DEF AppState, Changes, RunAdjustAssignError
    <3>3. /\ a.todo.role = app[n].todo.role /\ a.todo.nodes = Tail(app[n].todo.nodes)
          /\ a.nodes = app[n].nodes /\ a.view = app[n].view
      BY <1>1, Zenon DEF AppState, Changes
    <3>4. Pending(a.todo)
      BY <2>1, <3>1, <3>3, Zenon DEF Pending
    <3>5. Snapshot(a) = Snapshot(app[n])
      BY <3>3 DEF Snapshot
    <3> HIDE DEF a
    <3>6. ASSUME a.todo.role = Spare, NEW i \in 1..Len(a.todo.nodes)
          PROVE  SafeToDemote(Snapshot(a), n, a.todo.nodes[i])
      <4>1. /\ i + 1 \in 1..Len(app[n].todo.nodes)
            /\ a.todo.nodes[i] = app[n].todo.nodes[i + 1]
        BY <1>1, <2>1, <3>3, WalkOn
      <4>2. \A j \in 1..Len(app[n].todo.nodes) :
              SafeToDemote(Snapshot(app[n]), n, app[n].todo.nodes[j])
        BY <1>1, <1>18, <3>3, <3>6 DEF AppOK, RunAdjustAssignError
      <4> QED
        BY <3>5, <4>1, <4>2
    <3>7. ASSUME NEW i \in 1..Len(a.todo.nodes)
          PROVE  Nearer(Snapshot(a), n, a.todo.nodes[i], a.todo.role)
      <4>1. /\ i + 1 \in 1..Len(app[n].todo.nodes)
            /\ a.todo.nodes[i] = app[n].todo.nodes[i + 1]
        BY <1>1, <2>1, <3>3, WalkOn
      <4>2. \A j \in 1..Len(app[n].todo.nodes) :
              Nearer(Snapshot(app[n]), n, app[n].todo.nodes[j], app[n].todo.role)
        BY <1>1, <1>18, Zenon DEF AppOK, RunAdjustAssignError
      <4> QED
        BY <3>3, <3>5, <4>1, <4>2, Zenon
    <3>8. AppOK(n, a)
      BY <3>2, <3>4, <3>6, <3>7, Zenon DEF AppOK
    <3>9. Become(n, a)
      BY <1>18, <2>4 DEF RunAdjustAssignError, a
    <3> QED
      BY <1>2, <1>18, <2>2, <3>8, <3>9, AppStep DEF RunAdjustAssignError
  <2> QED
    BY <2>3, <2>4
<1>19. CASE RunRemove(n)
  <2> DEFINE a == [app[n] EXCEPT !.pc = "cluster"]
  <2>1. a \in AppState /\ a.pc = "cluster"
    BY <1>1, Zenon DEF AppState, RunPC
  <2>2. AppOK(n, a)
    BY <2>1, RestState, Zenon
  <2>3. PICK kept \in {FALSE, Flaky} : joinFile' = [joinFile EXCEPT ![n] = kept]
    BY <1>19, Zenon DEF RunRemove
  <2>4. kept \in BOOLEAN
    BY NodeAssumption, Zenon
  <2>5. joinFile' \in [Node -> BOOLEAN] /\ store' \in [Node -> SUBSET Node]
    BY <1>1, <1>19, <2>3, <2>4 DEF DiskOK, RunRemove
  <2> QED
    BY <1>2, <1>19, <2>2, <2>5, AppStep DEF RunRemove
<1> QED
  BY <1>3, <1>4, <1>5, <1>6, <1>7, <1>8, <1>9, <1>10, <1>11, <1>12, <1>13,
     <1>14, <1>15, <1>16, <1>17, <1>18, <1>19 DEF Run

\* Handover keeps it.
LEMMA HoInv ==
  ASSUME IInv, NEW n \in Node, Ho(n) \/ HoCall(n)
  PROVE  IInv'
<1>1. /\ RaftOK /\ ho[n] \in HoState /\ HoOK(ho[n]) /\ ho[n].todo \in Changes
      /\ ho[n].nodes \in NodesReply /\ leader \in Node \cup {NoNode}
  BY DEF IInv, HoState, RaftOK
<1>2. /\ UNCHANGED raftVars => RaftStep
      /\ UNCHANGED diskVars => UNCHANGED <<joinFile, store>>
  BY <1>1, RaftUnchanged DEF diskVars
<1>3. /\ HoOK(HoReturn(ho[n], "done")) /\ HoOK(HoReturn(ho[n], "failed"))
      /\ HoOK(HoLast(ho[n]))
  BY <1>1, HoEndState
<1>4. ASSUME NEW h, h \in HoState, h.pc # "promote" PROVE HoOK(h)
  BY <1>4 DEF HoOK
<1>5. CASE HoCall(n)
  <2> DEFINE h == [ho[n] EXCEPT !.pc = "find"]
  <2>1. h \in HoState /\ h.pc = "find"
    BY <1>1 DEF HoState, HoPC
  <2> QED
    BY <1>2, <1>4, <1>5, <2>1, HoStep, Zenon DEF HoCall
<1>6. CASE HoFind(n)
  <2> DEFINE h == [ho[n] EXCEPT !.pc = "cluster", !.cli = leader]
  <2>1. h \in HoState /\ h.pc = "cluster"
    BY <1>1, Zenon DEF HoState, HoPC
  <2> QED
    BY <1>2, <1>4, <1>6, <2>1, HoStep, Zenon DEF HoFind
<1>7. CASE HoFindError(n)
  BY <1>2, <1>3, <1>7, HoStep DEF HoFindError
<1>8. CASE HoCluster(n)
  <2> DEFINE h == [ho[n] EXCEPT !.pc = "probe", !.nodes = Servers]
  <2>1. h \in HoState /\ h.pc = "probe"
    BY <1>1, ServersType, Zenon DEF HoState, HoPC
  <2> QED
    BY <1>2, <1>4, <1>8, <2>1, HoStep, Zenon DEF HoCluster
<1>9. CASE HoReadError(n)
  BY <1>2, <1>3, <1>9, HoStep DEF HoReadError
<1>10. CASE HoProbe(n)
  <2>1. PICK view \in Probes(DOMAIN ho[n].nodes) :
          \E change \in Handover(makeRolesChanges(ho[n].nodes, view), n) :
            HoBecome(n, [ho[n] EXCEPT
              !.pc = IF change.role = Keep THEN "checkLeader" ELSE "promote",
              !.nodes = NoServers, !.todo = change])
    BY <1>10, Zenon DEF HoProbe
  <2> DEFINE c == makeRolesChanges(ho[n].nodes, view)
  <2>2. PICK change \in Handover(c, n) :
          HoBecome(n, [ho[n] EXCEPT
            !.pc = IF change.role = Keep THEN "checkLeader" ELSE "promote",
            !.nodes = NoServers, !.todo = change])
    BY <2>1, Zenon
  <2>3. IsFiniteSet(DOMAIN c.role) /\ DOMAIN c.role \in SUBSET Node
    BY <1>1, SnapshotType, ReplyFinite
  <2>4. /\ change \in ChangeOf(DOMAIN c.role)
        /\ change.role # Keep => change.nodes # <<>>
    BY <2>3, HandoverType
  <2>5. change \in Changes /\ (change.role # Keep => Pending(change))
    BY <2>3, <2>4 DEF ChangeOf, Changes, Pending
  <2> DEFINE h == [ho[n] EXCEPT
                     !.pc = IF change.role = Keep THEN "checkLeader" ELSE "promote",
                     !.nodes = NoServers, !.todo = change]
  <2>6. /\ h \in HoState /\ h.todo = change
        /\ h.pc = IF change.role = Keep THEN "checkLeader" ELSE "promote"
    BY <1>1, <2>5, NoServersType, Zenon DEF HoState, HoPC
  <2>7. HoOK(h)
    BY <2>5, <2>6 DEF HoOK
  <2> QED
    BY <1>2, <1>10, <2>2, <2>7, HoStep DEF HoProbe
<1>11. CASE HoPromote(n)
  <2>1. Pending(ho[n].todo)
    BY <1>1, <1>11 DEF HoOK, HoPromote
  <2>2. RaftStep
    BY <1>1, <1>11, <2>1, WalkOn, AssignStep DEF HoPromote, Pending
  <2> DEFINE h == [ho[n] EXCEPT !.pc = "checkLeader", !.todo.nodes = <<>>]
  <2>3. <<>> \in Seq(Node)
    OBVIOUS
  <2>4. h \in HoState /\ h.pc = "checkLeader"
    BY <1>1, <2>3, Zenon DEF HoState, HoPC, Changes
  <2> QED
    BY <1>2, <1>4, <1>11, <2>2, <2>4, HoStep, Zenon DEF HoPromote
<1>12. CASE HoPromoteError(n)
  <2>1. Pending(ho[n].todo) /\ ho[n].pc = "promote"
    BY <1>1, <1>12 DEF HoOK, HoPromoteError
  <2>2. RaftStep
    BY <1>1, <1>12, <2>1, WalkOn, AssignStep DEF HoPromoteError, Pending
  <2>3. Tail(ho[n].todo.nodes) \in Seq(Node)
    BY <1>1, <2>1, WalkOn
  <2> DEFINE h == [ho[n] EXCEPT !.todo.nodes = Tail(@)]
  <2>4. /\ h \in HoState /\ h.pc = "promote"
        /\ h.todo.role = ho[n].todo.role
    BY <1>1, <2>1, <2>3, Zenon DEF HoState, Changes
  <2>5. HoBecome(n, IF h.todo.nodes = <<>> THEN HoReturn(h, "failed") ELSE h)
    BY <1>12 DEF HoPromoteError
  <2> HIDE DEF h
  <2>6. CASE h.todo.nodes = <<>>
    <3>1. HoBecome(n, HoReturn(h, "failed"))
      BY <2>5, <2>6
    <3> QED
      BY <1>2, <1>12, <2>2, <2>4, <3>1, HoEndState, HoStep DEF HoPromoteError
  <2>7. CASE h.todo.nodes # <<>>
    <3>1. HoBecome(n, h)
      BY <2>5, <2>7
    <3>2. HoOK(h)
      BY <2>1, <2>4, <2>7 DEF HoOK, Pending
    <3> QED
      BY <1>2, <1>12, <2>2, <3>1, <3>2, HoStep DEF HoPromoteError
  <2> QED
    BY <2>6, <2>7
<1>13. CASE HoCheckLeader(n)
  <2> DEFINE h == [ho[n] EXCEPT !.pc = "voters"]
  <2>1. h \in HoState /\ h.pc = "voters"
    BY <1>1 DEF HoState, HoPC
  <2>2. HoBecome(n, h) \/ HoBecome(n, HoLast(ho[n]))
    BY <1>13 DEF HoCheckLeader
  <2> QED
    BY <1>2, <1>3, <1>4, <1>13, <2>1, <2>2, HoStep, Zenon DEF HoCheckLeader
<1>14. CASE HoVoters(n)
  <2> DEFINE h == [ho[n] EXCEPT !.pc = "transfer", !.nodes = Servers]
  <2>1. h \in HoState /\ h.pc = "transfer"
    BY <1>1, ServersType, Zenon DEF HoState, HoPC
  <2> QED
    BY <1>2, <1>4, <1>14, <2>1, HoStep, Zenon DEF HoVoters
<1>15. CASE HoTransfer(n)
  <2> DEFINE h == [ho[n] EXCEPT !.pc = "newLeader", !.nodes = NoServers]
  <2>1. h \in HoState /\ h.pc = "newLeader"
    BY <1>1, NoServersType, Zenon DEF HoState, HoPC
  <2>2. HoOK(h)
    BY <1>4, <2>1, Zenon
  <2>3. /\ \/ HoBecome(n, h)
           \/ HoBecome(n, HoLast(ho[n]))
           \/ HoBecome(n, HoReturn(ho[n], "failed"))
        /\ UNCHANGED <<diskVars, app>>
    BY <1>15, Zenon DEF HoTransfer
  <2>4. \/ UNCHANGED raftVars
        \/ \E t : Transfer(ho[n].cli, t)
    BY <1>15, Zenon DEF HoTransfer, TransferError
  <2>5. RaftStep
    BY <1>1, <1>2, <2>4 DEF Transfer, CanTransfer, RaftOK, RaftStep
  <2> QED
    BY <1>2, <1>3, <2>2, <2>3, <2>5, HoStep
<1>16. CASE HoNewLeader(n)
  <2> DEFINE h == [ho[n] EXCEPT !.cli = leader]
  <2>1. h \in HoState
    BY <1>1 DEF HoState
  <2>2. HoOK(HoLast(h))
    BY <2>1, HoEndState
  <2> QED
    BY <1>2, <1>16, <2>2, HoStep DEF HoNewLeader
<1>17. CASE HoDemote(n)
  <2>1. RaftStep
    BY <1>1, <1>17, AssignStep DEF HoDemote, Role
  <2> QED
    BY <1>2, <1>3, <1>17, <2>1, HoStep DEF HoDemote
<1>18. CASE HoDemoteError(n)
  <2>1. RaftStep
    BY <1>1, <1>18, AssignStep DEF HoDemoteError, Role
  <2>2. HoBecome(n, ho[n])
    BY <1>18 DEF IInv, HoBecome, HoDemoteError
  <2> QED
    BY <1>1, <1>2, <1>18, <2>1, <2>2, HoStep DEF HoDemoteError
<1>19. CASE HoDemoteTimeout(n)
  <2>1. RaftStep
    BY <1>1, <1>19, AssignStep DEF HoDemoteTimeout, Role
  <2> QED
    BY <1>2, <1>3, <1>19, <2>1, HoStep DEF HoDemoteTimeout
<1> QED
  BY <1>5, <1>6, <1>7, <1>8, <1>9, <1>10, <1>11, <1>12, <1>13, <1>14, <1>15,
     <1>16, <1>17, <1>18, <1>19 DEF Ho

\* Elections and the life of an App keep it.
LEMMA LifeInv ==
  ASSUME IInv, NEW n \in Node,
         Elect(n) \/ CloseStop(n) \/ CloseNode(n) \/ Start(n) \/ Crash(n)
  PROVE  IInv'
<1>1. /\ RaftOK /\ DiskOK /\ app[n] \in AppState /\ AppOK(n, app[n])
  BY DEF IInv
<1>2. UNCHANGED diskVars => joinFile' \in [Node -> BOOLEAN] /\ store' \in [Node -> SUBSET Node]
  BY <1>1 DEF diskVars, DiskOK
<1>3. CASE Elect(n)
  <2>1. RaftStep
    BY <1>1, <1>3 DEF Elect, RaftOK, RaftStep
  <2>2. Become(n, app[n])
    BY <1>3 DEF IInv, Become, Elect
  <2> QED
    BY <1>1, <1>2, <1>3, <2>1, <2>2, AppStep DEF Elect
<1>4. CASE CloseStop(n)
  <2> DEFINE a == [app[n] EXCEPT !.stopped = TRUE]
  <2>1. /\ a \in AppState /\ a.pc = app[n].pc /\ a.todo = app[n].todo
        /\ a.nodes = app[n].nodes /\ a.view = app[n].view
    BY <1>1, Zenon DEF AppState
  <2>2. Snapshot(a) = Snapshot(app[n])
    BY <2>1 DEF Snapshot
  <2> HIDE DEF a
  <2>3. AppOK(n, a)
    BY <1>1, <2>1, <2>2 DEF AppOK
  <2>4. Become(n, a) /\ RaftStep
    BY <1>1, <1>4, RaftUnchanged DEF CloseStop, a
  <2> QED
    BY <1>2, <1>4, <2>3, <2>4, AppStep DEF CloseStop
<1>5. CASE Start(n)
  <2>1. joinFile[n] \in BOOLEAN
    BY <1>1 DEF DiskOK
  <2>2. AppOK(n, NewApp("select", joinFile[n], FALSE))
    BY <2>1, NewState, Zenon
  <2>3. RaftStep
    BY <1>1, <1>5 DEF Start, RaftOK, RaftStep
  <2> QED
    BY <1>2, <1>5, <2>2, <2>3, AppStep, Zenon DEF Start
<1>6. CASE Forget(n)
  <2> DEFINE a == NewApp("off", FALSE, FALSE)
  <2>1. a \in AppState /\ AppOK(n, a)
    BY NewState, Zenon
  <2>2. NoHo \in HoState /\ HoOK(NoHo)
    BY NoServersType, NoChangeChanges DEF NoHo, HoState, HoPC, HoOK
  <2> HIDE DEF a
  <2>3. app' \in [Node -> AppState] /\ \A m \in Node : AppOK(m, app'[m])
    BY <1>6, <2>1, Zenon DEF IInv, Forget, Become, a
  <2>4. ho' \in [Node -> HoState] /\ \A m \in Node : HoOK(ho'[m])
    BY <1>6, <2>2 DEF IInv, Forget, HoBecome
  <2>5. RaftOK' /\ DiskOK'
    BY <1>1, <1>6 DEF IInv, Forget, Down, RaftOK, DiskOK, diskVars
  <2> QED
    BY <2>3, <2>4, <2>5 DEF IInv
<1> QED
  BY <1>3, <1>4, <1>5, <1>6 DEF CloseNode, Crash

\* Every step keeps it.
LEMMA NextInv == IInv /\ [Next]_vars => IInv'
<1> SUFFICES ASSUME IInv, [Next]_vars PROVE IInv'
  OBVIOUS
<1>1. CASE UNCHANGED vars
  BY <1>1 DEF IInv, RaftOK, DiskOK, vars, raftVars, diskVars
<1>2. CASE Next
  <2>1. PICK n \in Node :
          \/ Run(n) \/ Ho(n) \/ Elect(n)
          \/ HoCall(n) \/ CloseStop(n) \/ CloseNode(n) \/ Start(n) \/ Crash(n)
    BY <1>2 DEF Next
  <2> QED
    BY <2>1, RunInv, HoInv, LifeInv
<1> QED
  BY <1>1, <1>2

\* The inductive invariant, in every reachable state.
THEOREM Invariant == Spec => []IInv
  BY InitInv, NextInv, PTL DEF Spec

\* All variables keep their types whatever the goroutines, the crashes and the
\* elections do (app.go).
THEOREM TypeCorrect == Spec => []TypeOK
<1>1. IInv => TypeOK
  BY DEF IInv, RaftOK, DiskOK, TypeOK
<1> QED
  BY <1>1, Invariant, PTL

\* What maybeAdjustRoles is about to demote is safe to demote in the snapshot it
\* acts on (app.go:648-672, roles.go:129-228).
THEOREM AdjustSafety == Spec => []AdjustDemotesSafely
<1>1. IInv => AdjustDemotesSafely
  <2> SUFFICES ASSUME IInv, NEW n \in Node,
                      app[n].pc = "adjustAssign", app[n].todo.role = Spare,
                      NEW i \in 1..Len(app[n].todo.nodes)
               PROVE  LET c == Snapshot(app[n])
                          t == app[n].todo.nodes[i]
                      IN  /\ t = n => n \notin app[n].view
                          /\ size(c) >= minVoters =>
                               Cardinality(list(c, Voter, TRUE) \ {t}) >= Voters
    BY Zenon DEF AdjustDemotesSafely
  <2>1. SafeToDemote(Snapshot(app[n]), n, app[n].todo.nodes[i])
    BY DEF IInv, AppOK
  <2>2. DOMAIN Snapshot(app[n]).meta = app[n].view
    BY SnapshotType DEF Snapshot
  <2> QED
    BY <2>1, <2>2 DEF SafeToDemote
<1> QED
  BY <1>1, Invariant, PTL

\* A demotion that maybeAdjustRoles makes on a cluster reply that is still
\* current leaves at least the configured number of voters (app.go:660-670).
THEOREM AdjustKeeps == Spec => AdjustKeepsVoters
<1> DEFINE Kept == \A n \in Node :
                     /\ RunAdjustAssign(n)
                     /\ app[n].todo.role = Spare
                     /\ app[n].nodes = Servers
                     /\ size(Snapshot(app[n])) >= minVoters
                     => Cardinality(VotersIn(conf')) >= Voters
<1>1. IInv => Kept
  <2> SUFFICES ASSUME IInv, NEW n \in Node, RunAdjustAssign(n),
                      app[n].todo.role = Spare, app[n].nodes = Servers,
                      size(Snapshot(app[n])) >= minVoters
               PROVE  Cardinality(VotersIn(conf')) >= Voters
    OBVIOUS
  <2> DEFINE c == Snapshot(app[n])
             t == Head(app[n].todo.nodes)
             V == list(c, Voter, TRUE) \ {t}
  <2>1. /\ app[n].todo \in Changes /\ Pending(app[n].todo)
        /\ \A i \in 1..Len(app[n].todo.nodes) : SafeToDemote(c, n, app[n].todo.nodes[i])
    BY DEF IInv, AppOK, AppState, RunAdjustAssign
  <2>2. t \in Node /\ SafeToDemote(c, n, t)
    <3>1. /\ Head(app[n].todo.nodes) \in Node
          /\ Head(app[n].todo.nodes) = app[n].todo.nodes[1]
          /\ 1 \in 1..Len(app[n].todo.nodes)
      BY <2>1, WalkOn
    <3> QED
      BY <2>1, <3>1
  <2>3. Cardinality(V) >= Voters
    BY <2>2 DEF SafeToDemote
  <2>4. c.role = Servers
    BY SnapshotType DEF Snapshot
  <2>5. conf' = [conf EXCEPT ![t] = Spare]
    BY DEF RunAdjustAssign, Assign, DoAssign
  <2>6. V \subseteq VotersIn(conf')
    <3> SUFFICES ASSUME NEW m \in V PROVE m \in VotersIn(conf')
      BY Zenon
    <3>1. m \in Members /\ m # t /\ Servers[m] = Voter
      BY <2>4 DEF list, Servers
    <3> QED
      BY <2>5, <3>1 DEF IInv, RaftOK, Servers, Members, VotersIn
  <2>7. IsFiniteSet(VotersIn(conf')) /\ IsFiniteSet(V)
    <3>1. VotersIn(conf') \subseteq Node
      BY DEF VotersIn
    <3> HIDE DEF V
    <3>2. IsFiniteSet(VotersIn(conf'))
      BY <3>1, NodeAssumption, FS_Subset
    <3> QED
      BY <2>6, <3>2, FS_Subset
  <2>8. /\ Cardinality(V) <= Cardinality(VotersIn(conf'))
        /\ Cardinality(V) \in Nat /\ Cardinality(VotersIn(conf')) \in Nat
    BY <2>6, <2>7, FS_Subset, FS_CardinalityType, Zenon
  <2> HIDE DEF V
  <2>9. ASSUME NEW i \in Nat, NEW j \in Nat, NEW k \in Nat, i <= j, i >= k PROVE j >= k
    BY <2>9
  <2> QED
    BY <2>3, <2>8, <2>9, RolesConfig
<1>2. IInv /\ [Next]_vars => [Kept]_vars
  BY <1>1
<1> QED
  BY <1>2, Invariant, PTL DEF Spec, AdjustKeepsVoters

\* A change of roles that maybeAdjustRoles makes on a cluster reply that is still current
\* brings the cluster, with the nodes that answered its probes, nearer to the balance it
\* aims for (app.go:623-672): its loop does not undo in one round what it did in an
\* earlier one, and ends unless something else keeps changing the roles.
AdjustsTowardsBalance ==
  [][\A n \in Node :
       RunAdjustAssign(n) /\ app[n].nodes = Servers =>
         LET before == makeRolesChanges(Servers, app[n].view)
             after  == makeRolesChanges(Servers', app[n].view)
         IN  /\ Distance(before, n) \in Nat
             /\ Distance(after, n) < Distance(before, n)]_vars

\* Every change on a current reply is progress, for any cluster and any interleaving with
\* other Apps, Handover calls, crashes and elections.
THEOREM AdjustApproaches == Spec => AdjustsTowardsBalance
<1> DEFINE Progress == \A n \in Node :
             RunAdjustAssign(n) /\ app[n].nodes = Servers =>
               LET before == makeRolesChanges(Servers, app[n].view)
                   after  == makeRolesChanges(Servers', app[n].view)
               IN  /\ Distance(before, n) \in Nat
                   /\ Distance(after, n) < Distance(before, n)
<1>1. IInv => Progress
  <2> SUFFICES ASSUME IInv, NEW n \in Node, RunAdjustAssign(n), app[n].nodes = Servers
               PROVE  LET before == makeRolesChanges(Servers, app[n].view)
                          after  == makeRolesChanges(Servers', app[n].view)
                      IN  /\ Distance(before, n) \in Nat
                          /\ Distance(after, n) < Distance(before, n)
    OBVIOUS
  <2> DEFINE c == Snapshot(app[n])
             t == Head(app[n].todo.nodes)
             role == app[n].todo.role
  <2>1. /\ app[n].todo \in Changes /\ Pending(app[n].todo)
        /\ \A i \in 1..Len(app[n].todo.nodes) : Nearer(c, n, app[n].todo.nodes[i], role)
        /\ conf \in [Node -> Role \cup {None}]
    BY Zenon DEF IInv, RaftOK, AppOK, AppState, RunAdjustAssign
  <2>2. t \in Node /\ Nearer(c, n, t, role) /\ role \in Role
    <3>1. /\ Head(app[n].todo.nodes) \in Node
          /\ Head(app[n].todo.nodes) = app[n].todo.nodes[1]
          /\ 1 \in 1..Len(app[n].todo.nodes)
      BY <2>1, WalkOn
    <3> QED
      BY <2>1, <3>1, Zenon DEF Pending
  <2>3. c = makeRolesChanges(Servers, app[n].view)
    BY Zenon DEF Snapshot
  <2>4. conf' = [conf EXCEPT ![t] = role] /\ conf[t] # None
    BY DEF RunAdjustAssign, Assign, DoAssign, CanAssign
  <2> HIDE DEF c, t, role
  <2>5. Servers' = [Servers EXCEPT ![t] = role]
    <3>1. None \notin Role
      BY NodeAssumption
    <3>2. conf'[t] = role /\ \A m \in Node : m # t => conf'[m] = conf[m]
      BY <2>1, <2>2, <2>4
    <3>3. Members' = Members /\ t \in Members
      BY <2>2, <2>4, <3>1, <3>2, Zenon DEF Members
    <3>4. Members \subseteq Node
      BY DEF Members
    <3> QED BY <3>2, <3>3, <3>4 DEF Servers
  <2>6. Changed(c, t, role) = makeRolesChanges(Servers', app[n].view)
    BY <2>3, <2>5 DEF Changed, makeRolesChanges
  <2>7. Servers \in [Members -> Role] /\ c.role = Servers
    BY <2>1, <2>3, SnapshotType DEF Servers, Members
  <2>8. IsFiniteSet(Members)
    BY NodeAssumption, FS_Subset DEF Members
  <2>9. Distance(c, n) \in Nat
    BY <2>7, <2>8, DistanceType, Zenon
  <2> QED
    BY <2>2, <2>3, <2>6, <2>9, Zenon DEF Nearer
<1>2. IInv /\ [Next]_vars => [Progress]_vars
  BY <1>1
<1> QED
  BY <1>2, Invariant, PTL DEF Spec, AdjustsTowardsBalance
=============================================================================
