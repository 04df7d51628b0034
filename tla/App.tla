-------------------------------- MODULE App --------------------------------
(***************************************************************************)
(* The App objects of app/app.go, one per node: the background goroutine   *)
(* (run), Handover, Close and New, running concurrently on every node      *)
(* against one raft cluster.                                               *)
(*                                                                         *)
(* The raft cluster itself is dqlite's, outside this repository: its       *)
(* committed configuration (conf), its leader and the set of nodes that    *)
(* are up are changed only by the requests the client package sends and    *)
(* by elections and stops.  Every request is one step, so anything may     *)
(* happen between two requests of the same goroutine.                      *)
(***************************************************************************)
EXTENDS RolesChanges

CONSTANTS Node,          \* node IDs (an ID stands for its address, too)
          NoNode,        \* no leader, no client
          None,          \* the role of a node outside the configuration
          Metadata,      \* failure domain and weight of each node
          InitConfs,     \* initial configurations
          InitUp,        \* initial sets of running nodes
          Ticking,       \* nodes whose adjustment timer fires in this window
          Leaving,       \* nodes whose owner calls Handover
          Closing,       \* nodes whose owner calls Close
          Crashing,      \* nodes whose process may crash
          Flaky,         \* requests may fail or lose their reply, and so may files
          SlowProbes,    \* the probe of a running node may time out
          MaxElections,  \* bound: elections that replace a live leader
          MaxStops       \* bound: crashes and closes

ASSUME NodeAssumption ==
  /\ IsFiniteSet(Node)
  /\ NoNode \notin Node
  /\ None \notin Role
  /\ Metadata \in [Node -> [domain : Nat, weight : Nat]]
  /\ InitConfs \subseteq [Node -> Role \cup {None}]
  /\ InitUp \subseteq SUBSET Node
  /\ Ticking \subseteq Node
  /\ Leaving \subseteq Node
  /\ Closing \subseteq Node
  /\ Crashing \subseteq Node
  /\ {Flaky, SlowProbes} \subseteq BOOLEAN
  /\ {MaxElections, MaxStops} \subseteq Nat

VARIABLES conf, leader, up,   \* the raft cluster
          elections, stops,   \* what the bounds count
          joinFile, store,    \* the join file and cluster.yaml
          app,                \* the App of each node and its run goroutine
          ho                  \* the Handover call on each node

raftVars == <<conf, leader, up, elections, stops>>
diskVars == <<joinFile, store>>
vars     == <<raftVars, diskVars, app, ho>>

RunPC == {"off", "select", "add", "remove", "cluster", "assume", "promote",
          "promoteOther", "adjustLeader", "adjustCluster", "adjustProbe",
          "adjustAssign", "done"}
HoPC  == {"idle", "find", "cluster", "probe", "promote", "checkLeader",
          "voters", "transfer", "newLeader", "demote", "done", "failed"}

\* No cluster reply at hand.
NoServers == [n \in {} |-> Spare]

\* App: where run is, the node its client is connected to, its flags, its last
\* cluster reply and probes, the change it is making; whether readyCh is closed
\* and whether a.stop was called.
NewApp(pc, joining, isReady) ==
  [pc |-> pc, cli |-> NoNode, join |-> joining, ready |-> isReady,
   nodes |-> NoServers, view |-> {}, todo |-> NoChange,
   readyCh |-> isReady, stopped |-> FALSE]

NoHo == [pc |-> "idle", cli |-> NoNode, nodes |-> NoServers, todo |-> NoChange]
-----------------------------------------------------------------------------
(* The raft cluster, as the client package sees it.                        *)

Members == {n \in Node : conf[n] # None}

\* The reply to a Cluster request.
Servers == [n \in Members |-> conf[n]]

VotersIn(cf) == {n \in Node : cf[n] = Voter}

HasQuorum(cf, on) ==
  2 * Cardinality(VotersIn(cf) \cap on) > Cardinality(VotersIn(cf))

\* The node the client is connected to carries out an Assign request.
CanAssign(cli, n, role) ==
  /\ cli = leader /\ cli \in up
  /\ conf[n] \notin {None, role}
  /\ role = Voter => n \in up
  /\ HasQuorum([conf EXCEPT ![n] = role], up)

\* A leader that loses its voting rights steps down.
DoAssign(n, role) ==
  /\ conf' = [conf EXCEPT ![n] = role]
  /\ leader' = IF n = leader /\ role # Voter THEN NoNode ELSE leader
  /\ UNCHANGED <<up, elections, stops>>

Assign(cli, n, role) == CanAssign(cli, n, role) /\ DoAssign(n, role)

\* Assign returns an error; when the reply was lost it still took effect.
AssignError(cli, n, role) ==
  \/ (Flaky \/ ~CanAssign(cli, n, role)) /\ UNCHANGED raftVars
  \/ Flaky /\ Assign(cli, n, role)

CanAdd(cli, n) == cli = leader /\ cli \in up /\ conf[n] = None /\ HasQuorum(conf, up)

DoAdd(n) ==
  /\ conf' = [conf EXCEPT ![n] = Spare]
  /\ UNCHANGED <<leader, up, elections, stops>>

CanTransfer(cli, n) == cli = leader /\ cli \in up /\ n \in up /\ conf[n] = Voter

Transfer(cli, n) ==
  /\ CanTransfer(cli, n) /\ leader' = n
  /\ UNCHANGED <<conf, up, elections, stops>>

\* Transfer returns an error; when the reply was lost it still took effect.
TransferError(cli, n) ==
  \/ (Flaky \/ ~CanTransfer(cli, n)) /\ UNCHANGED raftVars
  \/ Flaky /\ Transfer(cli, n)

\* Cluster and Leader requests are answered by any running node.
Answers(cli) == cli \in up
Silent(cli)  == Flaky \/ cli \notin up

\* FindLeader: some node of the store is reachable and knows the leader.
FindsLeader(n) == leader # NoNode /\ store[n] \cap up # {}

\* Probing the given nodes: which of them answer Describe in time.
Probes(nodes) == IF SlowProbes THEN SUBSET (nodes \cap up) ELSE {nodes \cap up}

\* makeRolesChanges, from a cluster reply and the probes that succeeded.
makeRolesChanges(nodes, view) ==
  [role |-> nodes, meta |-> [n \in view |-> Metadata[n]]]

Elect(n) ==
  /\ n \in up /\ conf[n] = Voter /\ n # leader /\ HasQuorum(conf, up)
  /\ leader = NoNode \/ elections < MaxElections
  /\ leader' = n
  /\ elections' = IF leader = NoNode THEN elections ELSE elections + 1
  /\ UNCHANGED <<conf, up, stops, diskVars, app, ho>>

\* Node n goes away; without it the leader may be gone or lose its quorum.
Down(n) ==
  /\ up' = up \ {n}
  /\ leader' = IF leader = n \/ ~HasQuorum(conf, up \ {n}) THEN NoNode ELSE leader
  /\ stops' = stops + 1
  /\ UNCHANGED <<conf, elections>>
-----------------------------------------------------------------------------
(* The run goroutine.                                                      *)

\* Close the client and go back to the select statement.
Idle(a) == [a EXCEPT !.pc = "select", !.cli = NoNode, !.nodes = NoServers,
                     !.view = {}, !.todo = NoChange]

Ready(a) == [Idle(a) EXCEPT !.ready = TRUE, !.readyCh = TRUE]

Become(n, a) == app' = [app EXCEPT ![n] = a]

\* Mutant of RunStop: only a node that is not ready yet notices.
RunStopUnready(n) ==
  /\ app[n].pc = "select" /\ app[n].stopped /\ ~app[n].ready
  /\ Become(n, [app[n] EXCEPT !.pc = "done", !.readyCh = TRUE])
  /\ UNCHANGED <<raftVars, diskVars, ho>>

\* The context is done.
RunStop(n) ==
  /\ app[n].pc = "select" /\ app[n].stopped
  /\ Become(n, [app[n] EXCEPT !.pc = "done", !.readyCh = TRUE])
  /\ UNCHANGED <<raftVars, diskVars, ho>>

\* The timer fires and a leader is found (otherwise the loop just continues).
RunLeader(n) ==
  /\ app[n].pc = "select" /\ ~app[n].stopped
  /\ app[n].ready => n \in Ticking
  /\ FindsLeader(n)
  /\ Become(n, [app[n] EXCEPT !.pc = IF app[n].join THEN "add" ELSE "cluster",
                              !.cli = leader])
  /\ UNCHANGED <<raftVars, diskVars, ho>>

\* Join the cluster.
RunAdd(n) ==
  /\ app[n].pc = "add"
  /\ CanAdd(app[n].cli, n) /\ DoAdd(n)
  /\ Become(n, [app[n] EXCEPT !.pc = "remove", !.join = FALSE])
  /\ UNCHANGED <<diskVars, ho>>

\* Mutants of RunAddError: run goes on, and the join file is removed, whatever Add
\* returns.
RunAddErrorGoOn(n) ==
  /\ app[n].pc = "add"
  /\ (Flaky \/ ~CanAdd(app[n].cli, n)) /\ UNCHANGED raftVars
  /\ Become(n, [app[n] EXCEPT !.pc = "cluster"])
  /\ UNCHANGED <<diskVars, ho>>
RunAddErrorRemove(n) ==
  /\ app[n].pc = "add"
  /\ (Flaky \/ ~CanAdd(app[n].cli, n)) /\ UNCHANGED raftVars
  /\ Become(n, Idle(app[n]))
  /\ joinFile' = [joinFile EXCEPT ![n] = FALSE]
  /\ UNCHANGED <<store, ho>>

RunAddError(n) ==
  /\ app[n].pc = "add"
  /\ \/ (Flaky \/ ~CanAdd(app[n].cli, n)) /\ UNCHANGED raftVars
     \/ Flaky /\ CanAdd(app[n].cli, n) /\ DoAdd(n)
  /\ Become(n, Idle(app[n]))
  /\ UNCHANGED <<diskVars, ho>>

\* The join file is removed, now that Add has succeeded; an error is only logged.
RunRemove(n) ==
  /\ app[n].pc = "remove"
  /\ Become(n, [app[n] EXCEPT !.pc = "cluster"])
  /\ \E kept \in {FALSE, Flaky} : joinFile' = [joinFile EXCEPT ![n] = kept]
  /\ UNCHANGED <<raftVars, store, ho>>

\* Refresh the node store, or fail to, which nobody notices; a node that is not ready
\* keeps the list.
RunCluster(n) ==
  /\ app[n].pc = "cluster" /\ Answers(app[n].cli)
  /\ Become(n, IF app[n].ready
               THEN [app[n] EXCEPT !.pc = "adjustLeader"]
               ELSE [app[n] EXCEPT !.pc = "assume", !.nodes = Servers])
  /\ \/ store' = [store EXCEPT ![n] = Members]
     \/ Flaky /\ UNCHANGED store
  /\ UNCHANGED <<raftVars, joinFile, ho>>

\* A request that only reads fails: give up this iteration.
RunReadError(n) ==
  /\ app[n].pc \in {"cluster", "adjustLeader", "adjustCluster"}
  /\ Silent(app[n].cli)
  /\ Become(n, Idle(app[n]))
  /\ UNCHANGED <<raftVars, diskVars, ho>>

Snapshot(a) == makeRolesChanges(a.nodes, a.view)

\* Mutant of RunAssume: the answer -1 is taken for a role.
RunAssumeAnyRole(n) ==
  /\ app[n].pc = "assume"
  /\ \E view \in Probes(DOMAIN app[n].nodes) :
       LET role == Assume(makeRolesChanges(app[n].nodes, view), n)
       IN  Become(n, [app[n] EXCEPT !.pc = "promote", !.view = view,
                                    !.todo = Change(role, <<n>>)])
  /\ UNCHANGED <<raftVars, diskVars, ho>>

\* maybePromoteOurselves: probe and decide.
RunAssume(n) ==
  /\ app[n].pc = "assume"
  /\ \E view \in Probes(DOMAIN app[n].nodes) :
       LET role == Assume(makeRolesChanges(app[n].nodes, view), n)
       IN  Become(n, IF role = Keep
                     THEN Ready(app[n])
                     ELSE [app[n] EXCEPT !.pc = "promote", !.view = view,
                                         !.todo = Change(role, <<n>>)])
  /\ UNCHANGED <<raftVars, diskVars, ho>>

\* The nodes to promote along with us when there was a single voter online.
OthersToPromote(n) ==
  IF app[n].todo.role = Voter /\ count(Snapshot(app[n]), Voter, TRUE) = 1
  THEN {m \in DOMAIN app[n].nodes : m # n /\ app[n].nodes[m] # Voter}
  ELSE {}

RunPromote(n) ==
  /\ app[n].pc = "promote"
  /\ Assign(app[n].cli, n, app[n].todo.role)
  /\ \E s \in Orders(OthersToPromote(n)) :
       Become(n, IF s = <<>>
                 THEN Ready(app[n])
                 ELSE [app[n] EXCEPT !.pc = "promoteOther", !.todo = Change(Voter, s)])
  /\ UNCHANGED <<diskVars, ho>>

RunPromoteError(n) ==
  /\ app[n].pc = "promote"
  /\ AssignError(app[n].cli, n, app[n].todo.role)
  /\ Become(n, Idle(app[n]))
  /\ UNCHANGED <<diskVars, ho>>

RunPromoteOther(n) ==
  /\ app[n].pc = "promoteOther"
  /\ Assign(app[n].cli, Head(app[n].todo.nodes), Voter)
  /\ Become(n, Ready(app[n]))
  /\ UNCHANGED <<diskVars, ho>>

\* Errors are ignored; the next node is tried while there is one.
RunPromoteOtherError(n) ==
  /\ app[n].pc = "promoteOther"
  /\ AssignError(app[n].cli, Head(app[n].todo.nodes), Voter)
  /\ Become(n, IF Len(app[n].todo.nodes) = 1
               THEN Ready(app[n])
               ELSE [app[n] EXCEPT !.todo.nodes = Tail(@)])
  /\ UNCHANGED <<diskVars, ho>>

\* maybeAdjustRoles: are we the leader?
RunAdjustLeader(n) ==
  /\ app[n].pc = "adjustLeader" /\ Answers(app[n].cli)
  /\ Become(n, IF leader = n
               THEN [app[n] EXCEPT !.pc = "adjustCluster"]
               ELSE Idle(app[n]))
  /\ UNCHANGED <<raftVars, diskVars, ho>>

RunAdjustCluster(n) ==
  /\ app[n].pc = "adjustCluster" /\ Answers(app[n].cli)
  /\ Become(n, [app[n] EXCEPT !.pc = "adjustProbe", !.nodes = Servers])
  /\ UNCHANGED <<raftVars, diskVars, ho>>

\* A round is over and the next one begins.
Again(a) == [a EXCEPT !.pc = "adjustLeader", !.nodes = NoServers, !.view = {},
                      !.todo = NoChange]

\* Probe and decide.
RunAdjustProbe(n) ==
  /\ app[n].pc = "adjustProbe"
  /\ \E view \in Probes(DOMAIN app[n].nodes) :
       \E change \in Adjust(makeRolesChanges(app[n].nodes, view), n) :
         Become(n, IF change.role = Keep THEN Idle(app[n])
                   ELSE IF change.nodes = <<>> THEN Again(app[n])
                   ELSE [app[n] EXCEPT !.pc = "adjustAssign", !.view = view,
                                       !.todo = change])
  /\ UNCHANGED <<raftVars, diskVars, ho>>

\* Mutant of RunAdjustAssign: the loop goes on after a success.
RunAdjustAssignAll(n) ==
  /\ app[n].pc = "adjustAssign"
  /\ Assign(app[n].cli, Head(app[n].todo.nodes), app[n].todo.role)
  /\ Become(n, IF Len(app[n].todo.nodes) = 1
               THEN Again(app[n])
               ELSE [app[n] EXCEPT !.todo.nodes = Tail(@)])
  /\ UNCHANGED <<diskVars, ho>>

RunAdjustAssign(n) ==
  /\ app[n].pc = "adjustAssign"
  /\ Assign(app[n].cli, Head(app[n].todo.nodes), app[n].todo.role)
  /\ Become(n, Again(app[n]))
  /\ UNCHANGED <<diskVars, ho>>

RunAdjustAssignError(n) ==
  /\ app[n].pc = "adjustAssign"
  /\ AssignError(app[n].cli, Head(app[n].todo.nodes), app[n].todo.role)
  /\ Become(n, IF Len(app[n].todo.nodes) = 1
               THEN Idle(app[n])
               ELSE [app[n] EXCEPT !.todo.nodes = Tail(@)])
  /\ UNCHANGED <<diskVars, ho>>
-----------------------------------------------------------------------------
(* Handover, called by the owner of node n.                                *)

HoBecome(n, h) == ho' = [ho EXCEPT ![n] = h]

\* Handover returns, with an error when res is "failed".
HoReturn(h, res) == [h EXCEPT !.pc = res, !.cli = NoNode, !.nodes = NoServers]

HoCall(n) ==
  /\ n \in Leaving /\ app[n].pc # "off" /\ ~app[n].stopped
  /\ ho[n].pc = "idle"
  /\ HoBecome(n, [ho[n] EXCEPT !.pc = "find"])
  /\ UNCHANGED <<raftVars, diskVars, app>>

HoFind(n) ==
  /\ ho[n].pc = "find" /\ FindsLeader(n)
  /\ HoBecome(n, [ho[n] EXCEPT !.pc = "cluster", !.cli = leader])
  /\ UNCHANGED <<raftVars, diskVars, app>>

\* No leader is found before the context expires.
HoFindError(n) ==
  /\ ho[n].pc \in {"find", "newLeader"}
  /\ Flaky \/ ~FindsLeader(n)
  /\ HoBecome(n, HoReturn(ho[n], "failed"))
  /\ UNCHANGED <<raftVars, diskVars, app>>

HoCluster(n) ==
  /\ ho[n].pc = "cluster" /\ Answers(ho[n].cli)
  /\ HoBecome(n, [ho[n] EXCEPT !.pc = "probe", !.nodes = Servers])
  /\ UNCHANGED <<raftVars, diskVars, app>>

HoReadError(n) ==
  /\ ho[n].pc \in {"cluster", "checkLeader", "voters"}
  /\ Silent(ho[n].cli)
  /\ HoBecome(n, HoReturn(ho[n], "failed"))
  /\ UNCHANGED <<raftVars, diskVars, app>>

HoProbe(n) ==
  /\ ho[n].pc = "probe"
  /\ \E view \in Probes(DOMAIN ho[n].nodes) :
       \E change \in Handover(makeRolesChanges(ho[n].nodes, view), n) :
         HoBecome(n, [ho[n] EXCEPT
           !.pc = IF change.role = Keep THEN "checkLeader" ELSE "promote",
           !.nodes = NoServers, !.todo = change])
  /\ UNCHANGED <<raftVars, diskVars, app>>

\* Give our role to the first candidate that takes it.
HoPromote(n) ==
  /\ ho[n].pc = "promote"
  /\ Assign(ho[n].cli, Head(ho[n].todo.nodes), ho[n].todo.role)
  /\ HoBecome(n, [ho[n] EXCEPT !.pc = "checkLeader", !.todo.nodes = <<>>])
  /\ UNCHANGED <<diskVars, app>>

\* Mutant of HoPromoteError: it is not noticed that no candidate took the role.
HoPromoteErrorIgnored(n) ==
  /\ ho[n].pc = "promote"
  /\ AssignError(ho[n].cli, Head(ho[n].todo.nodes), ho[n].todo.role)
  /\ LET h == [ho[n] EXCEPT !.todo.nodes = Tail(@)]
     IN  HoBecome(n, IF h.todo.nodes = <<>> THEN [h EXCEPT !.pc = "checkLeader"] ELSE h)
  /\ UNCHANGED <<diskVars, app>>

HoPromoteError(n) ==
  /\ ho[n].pc = "promote"
  /\ AssignError(ho[n].cli, Head(ho[n].todo.nodes), ho[n].todo.role)
  /\ LET h == [ho[n] EXCEPT !.todo.nodes = Tail(@)]
     IN  HoBecome(n, IF h.todo.nodes = <<>> THEN HoReturn(h, "failed") ELSE h)
  /\ UNCHANGED <<diskVars, app>>

\* Mutant of HoLast: our own role is never given up.
HoLastKeep(h) == HoReturn(h, "done")

\* Leadership is dealt with: demote ourselves if we promoted someone else.
HoLast(h) == IF h.todo.role = Keep THEN HoReturn(h, "done")
             ELSE [h EXCEPT !.pc = "demote", !.nodes = NoServers]

\* Are we the current leader?
HoCheckLeader(n) ==
  /\ ho[n].pc = "checkLeader" /\ Answers(ho[n].cli)
  /\ HoBecome(n, IF leader = n THEN [ho[n] EXCEPT !.pc = "voters"] ELSE HoLast(ho[n]))
  /\ UNCHANGED <<raftVars, diskVars, app>>

HoVoters(n) ==
  /\ ho[n].pc = "voters" /\ Answers(ho[n].cli)
  /\ HoBecome(n, [ho[n] EXCEPT !.pc = "transfer", !.nodes = Servers])
  /\ UNCHANGED <<raftVars, diskVars, app>>

\* Probe, then walk the online voters: the first one that is not us is asked,
\* and the loop ends there whether it accepts or not.  An error is returned
\* only when that voter was the last of the list.
HoTransfer(n) ==
  /\ ho[n].pc = "transfer"
  /\ \E view \in Probes(DOMAIN ho[n].nodes) :
       LET voters    == list(makeRolesChanges(ho[n].nodes, view), Voter, TRUE)
           newLeader == [ho[n] EXCEPT !.pc = "newLeader", !.nodes = NoServers]
       IN  \/ /\ voters \subseteq {n}
              /\ HoBecome(n, HoLast(ho[n]))
              /\ UNCHANGED raftVars
           \/ /\ ~(voters \subseteq {n})
              /\ \E s \in Orders(voters) :
                   LET i == IF s[1] = n THEN 2 ELSE 1
                   IN  \/ /\ Transfer(ho[n].cli, s[i])
                          /\ HoBecome(n, newLeader)
                       \/ /\ TransferError(ho[n].cli, s[i])
                          /\ HoBecome(n, IF i = Len(s) THEN HoReturn(ho[n], "failed")
                                         ELSE newLeader)
  /\ UNCHANGED <<diskVars, app>>

HoNewLeader(n) ==
  /\ ho[n].pc = "newLeader" /\ FindsLeader(n)
  /\ HoBecome(n, HoLast([ho[n] EXCEPT !.cli = leader]))
  /\ UNCHANGED <<raftVars, diskVars, app>>

\* Demote ourselves.
HoDemote(n) ==
  /\ ho[n].pc = "demote"
  /\ Assign(ho[n].cli, n, Spare)
  /\ HoBecome(n, HoReturn(ho[n], "done"))
  /\ UNCHANGED <<diskVars, app>>

\* The request fails: wait a bit and try again.
HoDemoteError(n) ==
  /\ ho[n].pc = "demote"
  /\ AssignError(ho[n].cli, n, Spare)
  /\ UNCHANGED <<diskVars, app, ho>>

\* Mutant of HoDemoteTimeout: no hard limit on the retries.
HoDemoteForever(n) ==
  /\ ho[n].pc = "demote"
  /\ AssignError(ho[n].cli, n, Spare)
  /\ UNCHANGED <<diskVars, app, ho>>

\* The request fails and the minute is over.
HoDemoteTimeout(n) ==
  /\ ho[n].pc = "demote"
  /\ AssignError(ho[n].cli, n, Spare)
  /\ HoBecome(n, HoReturn(ho[n], "failed"))
  /\ UNCHANGED <<diskVars, app>>
-----------------------------------------------------------------------------
(* The life of an App: New, Close, and a crash of its process.             *)

\* New on an existing or a prepared directory.
Start(n) ==
  /\ app[n].pc = "off"
  /\ up' = up \cup {n}
  /\ Become(n, NewApp("select", joinFile[n], FALSE))
  /\ UNCHANGED <<conf, leader, elections, stops, diskVars, ho>>

\* Close cancels the context, and then waits for run to return.
CloseStop(n) ==
  /\ n \in Closing /\ stops < MaxStops
  /\ app[n].pc # "off" /\ ~app[n].stopped
  /\ ho[n].pc \in {"idle", "done", "failed"}
  /\ Become(n, [app[n] EXCEPT !.stopped = TRUE])
  /\ UNCHANGED <<raftVars, diskVars, ho>>

\* The App object is gone, and with it everything that is not on disk.
Forget(n) ==
  /\ Down(n)
  /\ Become(n, NewApp("off", FALSE, FALSE))
  /\ HoBecome(n, NoHo)
  /\ UNCHANGED diskVars

CloseNode(n) == app[n].pc = "done" /\ Forget(n)

Crash(n) == n \in Crashing /\ app[n].pc # "off" /\ stops < MaxStops /\ Forget(n)
-----------------------------------------------------------------------------
Init ==
  /\ conf \in InitConfs
  /\ up \in InitUp /\ HasQuorum(conf, up)
  /\ leader = NoNode
  /\ elections = 0 /\ stops = 0
  /\ joinFile = [n \in Node |-> conf[n] = None]
  /\ store = [n \in Node |-> Members]
  /\ app = [n \in Node |-> IF n \in up THEN NewApp("select", conf[n] = None, conf[n] # None)
                           ELSE NewApp("off", FALSE, FALSE)]
  /\ ho = [n \in Node |-> NoHo]

Run(n) ==
  \/ RunStop(n) \/ RunLeader(n) \/ RunAdd(n) \/ RunAddError(n)
  \/ RunRemove(n) \/ RunCluster(n) \/ RunReadError(n)
  \/ RunAssume(n) \/ RunPromote(n) \/ RunPromoteError(n)
  \/ RunPromoteOther(n) \/ RunPromoteOtherError(n)
  \/ RunAdjustLeader(n) \/ RunAdjustCluster(n) \/ RunAdjustProbe(n)
  \/ RunAdjustAssign(n) \/ RunAdjustAssignError(n)

Ho(n) ==
  \/ HoFind(n) \/ HoFindError(n) \/ HoCluster(n) \/ HoReadError(n)
  \/ HoProbe(n) \/ HoPromote(n) \/ HoPromoteError(n)
  \/ HoCheckLeader(n) \/ HoVoters(n) \/ HoTransfer(n) \/ HoNewLeader(n)
  \/ HoDemote(n) \/ HoDemoteError(n) \/ HoDemoteTimeout(n)

Next ==
  \E n \in Node :
    \/ Run(n) \/ Ho(n) \/ Elect(n)
    \/ HoCall(n) \/ CloseStop(n) \/ CloseNode(n) \/ Start(n) \/ Crash(n)

Spec == Init /\ [][Next]_vars

\* The goroutines are scheduled, Handover's minute ends, the owner of a stopped
\* App gets to node.Close, and raft elects a leader when it has none and can have one.
FairSpec ==
  /\ Spec
  /\ \A n \in Node : /\ WF_vars(Run(n))
                     /\ WF_vars(Ho(n))
                     /\ WF_vars(HoDemote(n) \/ HoDemoteTimeout(n))
                     /\ WF_vars(CloseNode(n))
                     /\ WF_vars(leader = NoNode /\ Elect(n))
-----------------------------------------------------------------------------
(* Properties.                                                             *)

\* The values the variables may take.
NodesReply == UNION {[S -> Role] : S \in SUBSET Node}
Changes    == [role : Role \cup {Keep}, nodes : Seq(Node)]
AppState   == [pc : RunPC, cli : Node \cup {NoNode}, join : BOOLEAN,
               ready : BOOLEAN, nodes : NodesReply, view : SUBSET Node,
               todo : Changes, readyCh : BOOLEAN, stopped : BOOLEAN]
HoState    == [pc : HoPC, cli : Node \cup {NoNode}, nodes : NodesReply,
               todo : Changes]

TypeOK ==
  /\ conf \in [Node -> Role \cup {None}]
  /\ leader \in Node \cup {NoNode}
  /\ up \in SUBSET Node
  /\ elections \in Nat /\ stops \in Nat
  /\ joinFile \in [Node -> BOOLEAN]
  /\ store \in [Node -> SUBSET Node]
  /\ app \in [Node -> AppState]
  /\ ho \in [Node -> HoState]

\* A node whose join file is gone is a member of the cluster, although Add and the
\* removal are two steps between which its process may crash: a restart never skips
\* the join that is still due (app.go:549-562, files.go:20-23).
JoinFileKept == \A n \in Node : joinFile[n] \/ conf[n] # None

\* When Ready returns, the node is a member of the cluster, whatever crashed and was
\* restarted before, unless the App was closed in the meantime: the other reason for
\* which run closes readyCh (app.go:538-540, 549-562, 580-590).
ReadyMeansJoined ==
  \A n \in Node : app[n].readyCh => app[n].stopped \/ conf[n] # None

\* What maybeAdjustRoles is about to demote, as decided on its last snapshot:
\* never a leader that answered its own probe, and never a node without which
\* fewer than Voters voters are online (except in a cluster of two).
AdjustDemotesSafely ==
  \A n \in Node :
    app[n].pc = "adjustAssign" /\ app[n].todo.role = Spare =>
      LET c == Snapshot(app[n])
      IN  \A i \in 1..Len(app[n].todo.nodes) :
            LET t == app[n].todo.nodes[i]
            IN  /\ t = n => n \notin app[n].view
                /\ size(c) >= minVoters =>
                     Cardinality(list(c, Voter, TRUE) \ {t}) >= Voters

\* A demotion that maybeAdjustRoles makes on a cluster reply that is still
\* current leaves at least the configured number of voters.
AdjustKeepsVoters ==
  [][\A n \in Node :
       /\ RunAdjustAssign(n)
       /\ app[n].todo.role = Spare
       /\ app[n].nodes = Servers
       /\ size(Snapshot(app[n])) >= minVoters
       => Cardinality(VotersIn(conf')) >= Voters]_vars

\* However Handover calls, role adjustments and start-up promotions interleave,
\* a graceful shutdown, a crash and a forced election cost at most one voter
\* each: among members, the races between stale cluster replies do not add up.
\* (A node that joins during a Handover can cost another one.)
VotersFloor ==
  Cardinality(VotersIn(conf)) + Cardinality(Leaving) + elections + stops >= Voters

\* When Handover has given the voting rights of its node away, the cluster has
\* as many voters as it should, and the node is none of them.
HandoverKeepsVoters ==
  \A n \in Node :
    ho[n].pc = "done" /\ ho[n].todo.role = Voter =>
      conf[n] # Voter /\ Cardinality(VotersIn(conf)) >= Voters

\* Handover calls on several nodes at once, competing for the same candidates and
\* possibly promoting each other's nodes, never leave fewer voters than there
\* should be, at any time: voting rights are taken over before they are given up
\* (app.go:342-355, 390-395).
HandoversKeepCount == Cardinality(VotersIn(conf)) >= Voters

\* Handover always comes back to its caller, with or without an error.
HandoverReturns ==
  \A n \in Node : ho[n].pc = "find" ~> ho[n].pc \in {"idle", "done", "failed"}

\* Close gets past the wait for the run goroutine, whatever request or adjustment of
\* roles it finds it in, and stops the node (app.go:415-423, 534-541).
CloseCompletes == \A n \in Node : app[n].stopped ~> n \notin up

\* While the timer of the leader keeps firing, the roles reach the balance that
\* Adjust aims for, and stay there.
Converges ==
  <>[](leader \in Ticking =>
         Balanced(makeRolesChanges(Servers, Members \cap up), leader))

\* Nodes that are started join, become ready, and with three of them all are
\* voters, although each of them only acts on what it saw when it looked; unless
\* one of them goes away.
ClusterForms == <>[](stops = 0 => \A n \in Node : app[n].ready /\ conf[n] = Voter)
-----------------------------------------------------------------------------
(* What documentation and comments say, and the code does not do.          *)

\* app.go:311-312: the responsibilities go "to another node, if one is
\* available"; so when Handover is to demote its own node there is another voter.
HandoverHasSuccessor ==
  \A n \in Node : ho[n].pc = "demote" => VotersIn(conf) \ {n} # {}
=============================================================================
