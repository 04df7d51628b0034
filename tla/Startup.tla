------------------------------ MODULE Startup ------------------------------
(***************************************************************************)
(* app.New on a data directory (app/app.go, app/files.go): the order in     *)
(* which it reads, writes and, when it fails, removes the files that make a *)
(* node the bootstrap node or one that has to join, over any number of      *)
(* calls, failures and crashes of the process.                              *)
(***************************************************************************)
EXTENDS Integers, Sequences

CONSTANTS Clusters,      \* may the caller pass cluster addresses: subset of BOOLEAN
          RemoveFails,   \* removing a file may fail
          MaxSets,       \* bound: updates of the node store
          MaxFaults,     \* bound: steps that return an error
          MaxCrashes     \* bound: crashes

ASSUME StartupAssumption ==
  /\ Clusters \subseteq BOOLEAN /\ RemoveFails \in BOOLEAN
  /\ MaxSets \in Nat \ {0} /\ {MaxFaults, MaxCrashes} \subseteq Nat

VARIABLES info,          \* info.yaml: whose ID it holds, or "none"
          join,          \* the join file exists
          store,         \* cluster.yaml: 0 if there is none, or which list of nodes it holds
          known,         \* the newest list that a running App has used
          node,          \* the dqlite node: "none", "running", or "failed" if it was not
                         \* destroyed because it could not be stopped
          joined,        \* the node of info.yaml has been added to the cluster
          new,           \* the call of New
          faults, crashes,
          past           \* what has happened to the directory so far

disk   == <<info, join, store>>
counts == <<faults, crashes, past, known>>
vars   == <<disk, node, joined, new, counts>>

\* Between two calls; join is what run has to do about the join file, servers what the
\* node store has in memory, set what its Set is about to put there, 0 if it does not
\* run, and why the reason for which the last call has failed.
Idle(why) == [pc |-> "idle", cluster |-> FALSE, id |-> "none", infoExists |-> FALSE,
              join |-> "no", servers |-> 0, set |-> 0, cleanups |-> <<>>, why |-> why]

Goto(pc) == new' = [new EXCEPT !.pc = pc]

\* Return an error; the deferred function runs the cleanups.
Fail(why) == new' = [new EXCEPT !.pc = "cleanup", !.why = why]

\* A step fails, and has no effect.
Fault(from) ==
  /\ new.pc = from /\ faults < MaxFaults
  /\ faults' = faults + 1 /\ Fail("fault")
  /\ UNCHANGED <<disk, node, joined, crashes, past, known>>
-----------------------------------------------------------------------------
New ==
  /\ new.pc = "idle"
  /\ \E cluster \in Clusters :
       /\ new' = [Idle("none") EXCEPT !.pc = "info", !.cluster = cluster]
       /\ past' = past \cup {IF cluster THEN "cluster" ELSE "alone"}
  /\ UNCHANGED <<disk, node, joined, faults, crashes, known>>

\* Load our ID, or generate one.
LoadInfo ==
  /\ new.pc = "info"
  /\ new' = IF info # "none"
            THEN [new EXCEPT !.pc = "checkJoin", !.id = info, !.infoExists = TRUE]
            ELSE IF new.cluster THEN [new EXCEPT !.pc = "writeJoin", !.id = "joiner"]
            ELSE [new EXCEPT !.pc = "writeInfo", !.id = "bootstrap"]
  /\ UNCHANGED <<disk, node, joined, counts>>

\* Mutants of the next two definitions: info.yaml is written first, and the file
\* that the last step has written stays when New fails.
WriteJoinLate ==
  /\ new.pc = "writeJoin"
  /\ info' = new.id /\ joined' = FALSE /\ Goto("writeInfo")
  /\ UNCHANGED <<join, store, node, counts>>
WriteInfoKeep ==
  /\ new.pc = "writeInfo"
  /\ info' = new.id /\ joined' = FALSE /\ Goto("checkJoin")
  /\ UNCHANGED <<join, store, node, counts>>

WriteJoin ==
  /\ new.pc = "writeJoin"
  /\ join' = TRUE /\ Goto("writeInfo")
  /\ UNCHANGED <<info, store, node, joined, counts>>

\* A new ID has not joined anything.
WriteInfo ==
  /\ new.pc = "writeInfo"
  /\ info' = new.id /\ joined' = FALSE
  /\ new' = [new EXCEPT !.pc = "checkJoin", !.cleanups = Append(@, "info")]
  /\ UNCHANGED <<join, store, node, counts>>

\* Mutant of CheckJoin: a bootstrap node may join.
CheckJoinSkip ==
  /\ new.pc = "checkJoin"
  /\ new' = [new EXCEPT !.pc = "checkStore", !.join = IF join THEN "add" ELSE "no"]
  /\ UNCHANGED <<disk, node, joined, counts>>

CheckJoin ==
  /\ new.pc = "checkJoin"
  /\ IF new.id = "bootstrap" /\ join THEN Fail("bootstrap cannot join")
     ELSE new' = [new EXCEPT !.pc = "checkStore", !.join = IF join THEN "add" ELSE "no"]
  /\ UNCHANGED <<disk, node, joined, counts>>

\* Open the node store, which loads the list.
CheckStore ==
  /\ new.pc = "checkStore"
  /\ IF new.infoExists # (store # 0) THEN Fail("inconsistent")
     ELSE new' = [new EXCEPT !.pc = IF store # 0 THEN "startNode" ELSE "writeStore",
                             !.servers = store]
  /\ UNCHANGED <<disk, node, joined, counts>>

\* Node.New with Node.Start, and Node.Close.
NodeStart == node' = "running"
NodeClose ==
  \/ node' = "none" /\ UNCHANGED faults
  \/ node' = "failed" /\ faults < MaxFaults /\ faults' = faults + 1

WriteStore ==
  /\ new.pc = "writeStore"
  /\ IF new.id # "bootstrap" /\ ~new.cluster
     THEN Fail("no cluster addresses") /\ UNCHANGED store
     ELSE /\ store' = 1
          /\ new' = [new EXCEPT !.pc = "startNode", !.servers = 1, !.cleanups = Append(@, "store")]
  /\ UNCHANGED <<info, join, node, joined, counts>>

\* Mutant of StartNode: no cleanup is registered for the node.
StartNodeKeep ==
  /\ new.pc = "startNode"
  /\ NodeStart /\ Goto("serve")
  /\ UNCHANGED <<disk, joined, counts>>

\* Create and start the dqlite node.
StartNode ==
  /\ new.pc = "startNode"
  /\ NodeStart
  /\ new' = [new EXCEPT !.pc = "serve", !.cleanups = Append(@, "node")]
  /\ UNCHANGED <<disk, joined, counts>>

\* The driver, the options and the listener are fine: start run and return.
Serve ==
  /\ new.pc = "serve" /\ Goto("running") /\ known' = new.servers
  /\ UNCHANGED <<disk, node, joined, faults, crashes, past>>

\* The deferred function: undo what was done, in reverse order.  Errors of fileRemove
\* and of Node.Close are ignored.
Cleanup ==
  /\ new.pc = "cleanup"
  /\ IF new.cleanups = <<>> THEN new' = Idle(new.why) /\ UNCHANGED <<info, store, node, faults, past>>
     ELSE LET last == new.cleanups[Len(new.cleanups)]
          IN  /\ new' = [new EXCEPT !.cleanups = SubSeq(@, 1, Len(@) - 1)]
              /\ \/ last = "node" /\ NodeClose /\ UNCHANGED <<info, store, past>>
                 \/ /\ last # "node" /\ info' = (IF last = "info" THEN "none" ELSE info)
                    /\ store' = (IF last = "store" THEN 0 ELSE store)
                    /\ UNCHANGED <<node, faults, past>>
                 \/ /\ last # "node" /\ RemoveFails /\ faults < MaxFaults
                    /\ faults' = faults + 1 /\ past' = past \cup {"removal"}
                    /\ UNCHANGED <<info, store, node>>
  /\ UNCHANGED <<join, joined, crashes, known>>
-----------------------------------------------------------------------------
\* run adds the node to the cluster, which refuses one that it has already ...
Add ==
  /\ new.pc = "running" /\ new.join = "add" /\ ~joined
  /\ joined' = TRUE /\ new' = [new EXCEPT !.join = "remove"]
  /\ UNCHANGED <<disk, node, counts>>

\* ... and then removes the join file; if it cannot, it says so and goes on.
RemoveJoin ==
  /\ new.pc = "running" /\ new.join = "remove"
  /\ new' = [new EXCEPT !.join = "no"]
  /\ \/ join' = FALSE /\ UNCHANGED faults
     \/ RemoveFails /\ faults < MaxFaults /\ faults' = faults + 1 /\ UNCHANGED join
  /\ UNCHANGED <<info, store, node, joined, crashes, past, known>>

\* Mutant of SetWrite: the list in memory changes before the file is written.
SetWriteLate ==
  /\ new.pc = "running" /\ new.join = "no" /\ new.set = 0 /\ store < MaxSets
  /\ \/ store' = store + 1 /\ UNCHANGED faults
     \/ faults < MaxFaults /\ faults' = faults + 1 /\ UNCHANGED store
  /\ new' = [new EXCEPT !.servers = store + 1] /\ known' = store + 1
  /\ UNCHANGED <<info, join, node, joined, crashes, past>>

\* run has got the list of nodes of the cluster, and calls YamlNodeStore.Set with
\* it: write the file, which replaces the old one at once or not at all ...
SetWrite ==
  /\ new.pc = "running" /\ new.join = "no" /\ new.set = 0 /\ store < MaxSets
  /\ \/ store' = store + 1 /\ new' = [new EXCEPT !.set = store'] /\ UNCHANGED faults
     \/ faults < MaxFaults /\ faults' = faults + 1 /\ UNCHANGED <<store, new>>
  /\ UNCHANGED <<info, join, node, joined, crashes, past, known>>

\* ... and then change the list in memory.
SetPublish ==
  /\ new.pc = "running" /\ new.set # 0
  /\ new' = [new EXCEPT !.servers = new.set, !.set = 0] /\ known' = new.set
  /\ UNCHANGED <<disk, node, joined, faults, crashes, past>>

\* Close waits for run to return, and passes an error of Node.Close on.
Close ==
  /\ new.pc = "running" /\ new.join # "remove" /\ new.set = 0 /\ NodeClose /\ new' = Idle("none")
  /\ UNCHANGED <<disk, joined, crashes, past, known>>

Crash ==
  /\ new.pc # "idle" /\ crashes < MaxCrashes
  /\ crashes' = crashes + 1 /\ past' = past \cup {"crash"}
  /\ node' = "none" /\ new' = Idle("none")
  /\ UNCHANGED <<disk, joined, faults, known>>
-----------------------------------------------------------------------------
Init ==
  /\ info = "none" /\ join = FALSE /\ store = 0 /\ known = 0 /\ node = "none" /\ joined = FALSE
  /\ new = Idle("none") /\ faults = 0 /\ crashes = 0 /\ past = {}

Next ==
  \/ New \/ LoadInfo \/ WriteJoin \/ WriteInfo \/ CheckJoin \/ CheckStore \/ WriteStore
  \/ StartNode \/ Serve \/ Cleanup \/ Add \/ RemoveJoin
  \/ SetWrite \/ SetPublish \/ Close \/ Crash
  \/ \E pc \in {"info", "writeJoin", "writeInfo", "checkJoin", "checkStore", "writeStore",
                "startNode", "serve"} : Fault(pc)

Spec == Init /\ [][Next]_vars
-----------------------------------------------------------------------------
(* Properties.                                                             *)

\* The values the variables may take.
TypeOK ==
  /\ info \in {"none", "bootstrap", "joiner"}
  /\ past \subseteq {"cluster", "alone", "removal", "crash"}
  /\ node \in {"none", "running", "failed"}
  /\ {join, joined} \subseteq BOOLEAN /\ {store, known, new.servers} \subseteq 0..MaxSets
  /\ new.id \in {"bootstrap", "joiner"} \cup
                (IF new.pc \in {"idle", "info", "cleanup"} THEN {"none"} ELSE {})
  /\ new.cleanups \in Seq({"info", "store", "node"})

\* A node that has to join and has not joined yet finds the join file at every
\* start, whichever step a crash or an error cuts short (files.go:20-23).
JoinPending == info = "joiner" /\ ~joined => join

\* When a call of New has failed, and when Close has returned, the dqlite node is
\* destroyed, or the error of its Stop is the reason that it is not (app.go:75-84, 207,
\* 423, node.go:199-203).
NoOrphanNode == new.pc = "idle" => node # "running"

\* As long as the caller passes the same options, files can be removed and the
\* process does not crash, no call of New trips over the files that earlier ones,
\* failed or not, have left (app.go:127-145).
Retryable == past \in {{"cluster"}, {"alone"}} => new.why \in {"none", "fault"}

\* A list of nodes that a running App has used is not lost: cluster.yaml is at least
\* as new, whatever fails or crashes between, or in the middle of, two updates; so a
\* restart never goes back to an older list (store.go:75-92, app.go:131-166).
StoreNotOlder == store >= known

\* A running App has both of its files, and a bootstrap node has no join file
\* (app.go:127-166).
RunningConsistent ==
  new.pc = "running" => info = new.id /\ store # 0 /\ (info = "bootstrap" => ~join)
=============================================================================
