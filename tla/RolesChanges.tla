---------------------------- MODULE RolesChanges ----------------------------
(***************************************************************************)
(* The role-assignment algorithm of app/roles.go.                          *)
(*                                                                         *)
(* A snapshot c stands for RolesChanges.State: c.role maps every member of *)
(* the cluster to its role, and c.meta maps the members that answered the  *)
(* probe to their metadata (a member outside DOMAIN c.meta has a nil value *)
(* in the Go map, that is, it is offline).                                 *)
(*                                                                         *)
(* Go iterates over a map in an arbitrary order and sort.Slice is not      *)
(* stable, so Handover and Adjust are set-valued: they yield every result  *)
(* one call may return.  A result is a role with the list of nodes that    *)
(* should get it; the role -1 of the code is Keep.                         *)
(***************************************************************************)
EXTENDS Integers, Sequences, FiniteSets, Functions

CONSTANTS Voters,     \* RolesConfig.Voters
          StandBys    \* RolesConfig.StandBys

\* app.New refuses a number of voters below 3.
ASSUME RolesConfig == Voters \in Nat /\ Voters >= 3 /\ StandBys \in Nat

Voter   == "voter"
StandBy == "stand-by"
Spare   == "spare"
Keep    == "keep"
Role    == {Voter, StandBy, Spare}

\* Mutant of minVoters: off by one.
minVotersFour == 4

minVoters == 3

Change(role, nodes) == [role |-> role, nodes |-> nodes]
NoChange == Change(Keep, <<>>)

size(c) == Cardinality(DOMAIN c.role)

\* Mutant of list: the role is not looked at.
listAnyRole(c, role, online) ==
  {n \in DOMAIN c.role : (n \in DOMAIN c.meta) = online}

list(c, role, online) ==
  {n \in DOMAIN c.role : c.role[n] = role /\ (n \in DOMAIN c.meta) = online}

count(c, role, online) == Cardinality(list(c, role, online))

failureDomains(c, nodes) ==
  {c.meta[n].domain : n \in nodes \cap DOMAIN c.meta}

\* The orders in which Go may walk over a set of nodes.
Orders(S) == Injection(1..Cardinality(S), S)

\* The comparison sortCandidates hands to sort.Slice.
less(c, domains, i, j) ==
  LET old(n) == c.meta[n].domain \in domains
  IN  \/ ~old(i) /\ old(j)
      \/ old(i) = old(j) /\ c.meta[i].weight < c.meta[j].weight

sortCandidates(c, candidates, domains) ==
  {s \in Orders(candidates) :
      \A i, j \in 1..Cardinality(candidates) :
         i < j => ~less(c, domains, s[j], s[i])}

Assume(c, id) ==
  LET onlineVoters   == count(c, Voter, TRUE)
      onlineStandbys == count(c, StandBy, TRUE)
  IN  IF \/ size(c) < minVoters
         \/ id \notin DOMAIN c.role
         \/ c.role[id] \in {Voter, StandBy}
         \/ onlineVoters >= Voters /\ onlineStandbys >= StandBys
      THEN Keep
      ELSE IF onlineVoters < Voters THEN Voter ELSE StandBy

\* The nodes that may receive the role a leaving node has.
handoverCandidates(c, role) ==
  list(c, Spare, TRUE) \cup (IF role = Voter THEN list(c, StandBy, TRUE) ELSE {})

Handover(c, id) ==
  IF \/ id \notin DOMAIN c.role
     \/ c.role[id] \notin {Voter, StandBy}
     \/ handoverCandidates(c, c.role[id]) = {}
  THEN {NoChange}
  ELSE LET role    == c.role[id]
           domains == failureDomains(c, list(c, role, TRUE) \ {id})
       IN  {Change(role, s) :
              s \in sortCandidates(c, handoverCandidates(c, role), domains)}

\* Promote one of the candidates, if there are any.
promote(c, role, candidates, peers) ==
  IF candidates = {}
  THEN {NoChange}
  ELSE {Change(role, s) :
          s \in sortCandidates(c, candidates, failureDomains(c, peers))}

demote(nodes) == {Change(Spare, s) : s \in Orders(nodes)}

\* A cluster of two: only the leader keeps its voting rights.
AdjustSmall(c, leader) ==
  LET others == {n \in DOMAIN c.role : n # leader /\ c.role[n] = Voter}
  IN  IF others = {} THEN {NoChange} ELSE {Change(Spare, <<n>>) : n \in others}

\* Mutant of AdjustStandBys: offline stand-bys are left alone.
AdjustStandBysKeepOffline(c, leader) ==
  LET onlineStandbys == list(c, StandBy, TRUE)
  IN  IF Cardinality(onlineStandbys) < StandBys
      THEN promote(c, StandBy, list(c, Spare, TRUE), onlineStandbys)
      ELSE IF Cardinality(onlineStandbys) > StandBys
      THEN demote(onlineStandbys \ {leader})
      ELSE {NoChange}

\* The stand-bys, once the voters are as they should be.
AdjustStandBys(c, leader) ==
  LET onlineStandbys == list(c, StandBy, TRUE)
  IN  IF Cardinality(onlineStandbys) < StandBys
      THEN promote(c, StandBy, list(c, Spare, TRUE), onlineStandbys)
      ELSE IF Cardinality(onlineStandbys) > StandBys
      THEN demote(onlineStandbys \ {leader})
      ELSE IF list(c, StandBy, FALSE) # {}
      THEN demote(list(c, StandBy, FALSE))
      ELSE {NoChange}

\* Mutant of Adjust: the leader is not spared when there are too many voters.
AdjustDemotesLeader(c, leader) ==
  IF size(c) >= minVoters /\ count(c, Voter, TRUE) > Voters
  THEN demote(list(c, Voter, TRUE))
  ELSE {NoChange}

Adjust(c, leader) ==
  LET onlineVoters == list(c, Voter, TRUE)
  IN  IF size(c) = 1 THEN {NoChange}
      ELSE IF size(c) < minVoters THEN AdjustSmall(c, leader)
      ELSE IF Cardinality(onlineVoters) < Voters
      THEN promote(c, Voter, list(c, StandBy, TRUE) \cup list(c, Spare, TRUE), onlineVoters)
      ELSE IF Cardinality(onlineVoters) > Voters
      THEN demote(onlineVoters \ {leader})
      ELSE IF list(c, Voter, FALSE) # {}
      THEN demote(list(c, Voter, FALSE))
      ELSE AdjustStandBys(c, leader)

\* What Adjust works towards, said without reference to how it gets there:
\* either the wanted number of voters, all online, and as many of the wanted
\* stand-bys as there are nodes for; or every online node is a voter already.
\* In a cluster of two the leader is the only voter.
Balanced(c, leader) ==
  \/ size(c) = 1
  \/ /\ size(c) < minVoters
     /\ \A n \in DOMAIN c.role : c.role[n] = Voter => n = leader
  \/ /\ size(c) >= minVoters
     /\ count(c, Voter, TRUE) < Voters
     /\ list(c, StandBy, TRUE) \cup list(c, Spare, TRUE) = {}
  \/ /\ size(c) >= minVoters
     /\ count(c, Voter, TRUE) = Voters /\ list(c, Voter, FALSE) = {}
     /\ \/ count(c, StandBy, TRUE) = StandBys /\ list(c, StandBy, FALSE) = {}
        \/ count(c, StandBy, TRUE) < StandBys /\ list(c, Spare, TRUE) = {}
=============================================================================
