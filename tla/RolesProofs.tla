---------------------------- MODULE RolesProofs ----------------------------
(***************************************************************************)
(* What Assume, Handover and Adjust may return, for every cluster and      *)
(* every configuration of the algorithm; when Adjust is content, and that   *)
(* every change it asks for leads there.                                   *)
(***************************************************************************)
EXTENDS RolesChanges, FiniteSetTheorems, TLAPS

\* The form every result has: a role and a list of members of the cluster,
\* which is empty only when there is nothing to do.
ChangeOf(M) == [role : Role \cup {Keep}, nodes : Seq(M)]

\* A walk over a finite set visits elements of the set, and as many as it has.
LEMMA WalkType ==
  ASSUME NEW S, IsFiniteSet(S), NEW s \in Orders(S)
  PROVE  /\ s \in Seq(S)
         /\ Len(s) = Cardinality(S)
         /\ \A i \in 1..Len(s) : s[i] \in S
         /\ S # {} => s # <<>>
<1>1. Cardinality(S) \in Nat
  BY FS_CardinalityType
<1>2. s \in [1..Cardinality(S) -> S]
  BY DEF Orders, Injection
<1>3. s \in Seq(S) /\ Len(s) = Cardinality(S)
  BY <1>1, <1>2
<1>4. S # {} => Cardinality(S) # 0
  BY FS_EmptySet
<1> QED
  BY <1>1, <1>2, <1>3, <1>4

\* The nodes of each role are finitely many.
LEMMA ListFinite ==
  ASSUME NEW c, IsFiniteSet(DOMAIN c.role), NEW role, NEW online
  PROVE  /\ list(c, role, online) \subseteq DOMAIN c.role
         /\ IsFiniteSet(list(c, role, online))
         /\ Cardinality(list(c, role, online)) \in Nat
<1>1. list(c, role, online) \subseteq DOMAIN c.role
  BY DEF list
<1>2. IsFiniteSet(list(c, role, online))
  BY <1>1, FS_Subset
<1> QED
  BY <1>1, <1>2, FS_CardinalityType

\* Changing a subset of the members is a well-formed result.
LEMMA ChangeType ==
  ASSUME NEW M, NEW S \in SUBSET M, IsFiniteSet(S),
         NEW s \in Orders(S), NEW role \in Role
  PROVE  /\ Change(role, s) \in ChangeOf(M)
         /\ Change(role, s).role = role
         /\ \A i \in 1..Len(Change(role, s).nodes) : Change(role, s).nodes[i] \in S
<1>1. s \in Seq(S) /\ \A i \in 1..Len(s) : s[i] \in S
  BY WalkType
<1>2. s \in Seq(M)
  BY <1>1
<1> QED
  BY <1>1, <1>2 DEF Change, ChangeOf

\* The answer "nothing to do" is a well-formed result (the role -1 of roles.go).
LEMMA NoChangeType ==
  ASSUME NEW M
  PROVE  NoChange \in ChangeOf(M) /\ NoChange.role = Keep
BY DEF NoChange, Change, ChangeOf

\* A sorted list of candidates is one of the walks over them (roles.go:279-300).
LEMMA SortedWalk ==
  ASSUME NEW c, NEW S, NEW domains
  PROVE  sortCandidates(c, S, domains) \subseteq Orders(S)
BY DEF sortCandidates

\* Assume names a role, or none (roles.go:41-75).
LEMMA AssumeType ==
  ASSUME NEW c, NEW id
  PROVE  Assume(c, id) \in {Voter, StandBy, Keep}
BY DEF Assume

\* Handover names the role of its node and members of the cluster to take it
\* (roles.go:82-123); the list is empty only when there is nothing to do.
LEMMA HandoverType ==
  ASSUME NEW c, IsFiniteSet(DOMAIN c.role), NEW id, NEW change \in Handover(c, id)
  PROVE  /\ change \in ChangeOf(DOMAIN c.role)
         /\ change.role # Keep => change.nodes # <<>>
<1>1. CASE change = NoChange
  BY <1>1, NoChangeType
<1>2. CASE change # NoChange
  <2> DEFINE role == c.role[id]
             S    == handoverCandidates(c, role)
  <2>1. /\ role \in Role /\ S # {}
        /\ \E domains : \E s \in sortCandidates(c, S, domains) : change = Change(role, s)
    BY <1>2 DEF Handover, Role
  <2>2. S \subseteq DOMAIN c.role
    BY DEF handoverCandidates, list
  <2>3. IsFiniteSet(S)
    BY <2>2, FS_Subset
  <2>4. PICK s \in Orders(S) : change = Change(role, s)
    BY <2>1, SortedWalk
  <2>5. change \in ChangeOf(DOMAIN c.role)
    BY <2>1, <2>2, <2>3, <2>4, ChangeType
  <2>6. s # <<>>
    BY <2>1, <2>3, WalkType
  <2> QED
    BY <2>4, <2>5, <2>6 DEF Change
<1> QED
  BY <1>1, <1>2

\* What is safe to demote: not a leader that answered its own probe and, unless
\* the cluster is that of two nodes, no node without which fewer than Voters
\* voters are online.
SafeToDemote(c, leader, t) ==
  /\ t = leader => leader \notin DOMAIN c.meta
  /\ size(c) >= minVoters => Cardinality(list(c, Voter, TRUE) \ {t}) >= Voters

\* The promotions Adjust asks for.
LEMMA PromoteType ==
  ASSUME NEW c, IsFiniteSet(DOMAIN c.role), NEW role \in {Voter, StandBy},
         NEW S \in SUBSET DOMAIN c.role, NEW peers,
         NEW change \in promote(c, role, S, peers)
  PROVE  change \in ChangeOf(DOMAIN c.role) /\ change.role \in {Keep, role}
<1>1. CASE S = {}
  BY <1>1, NoChangeType DEF promote
<1>2. CASE S # {}
  <2>1. PICK s \in Orders(S) : change = Change(role, s)
    BY <1>2, SortedWalk DEF promote
  <2>2. IsFiniteSet(S)
    BY FS_Subset
  <2> QED
    BY <2>1, <2>2, ChangeType DEF Role
<1> QED
  BY <1>1, <1>2

\* The demotions Adjust asks for.
LEMMA DemoteType ==
  ASSUME NEW c, IsFiniteSet(DOMAIN c.role), NEW S \in SUBSET DOMAIN c.role,
         NEW change \in demote(S)
  PROVE  /\ change \in ChangeOf(DOMAIN c.role)
         /\ change.role = Spare
         /\ \A i \in 1..Len(change.nodes) : change.nodes[i] \in S
<1>1. PICK s \in Orders(S) : change = Change(Spare, s)
  BY DEF demote
<1>2. IsFiniteSet(S)
  BY FS_Subset
<1> QED
  BY <1>1, <1>2, ChangeType, Zenon DEF Role

\* Comparing two counts.
LEMMA Compare ==
  ASSUME NEW i \in Nat, NEW j \in Nat
  PROVE  (~(i < j) => i >= j) /\ (i > j => i - 1 >= j)
  OBVIOUS

\* A sequence of one node.
LEMMA Single ==
  ASSUME NEW S, NEW n \in S
  PROVE  <<n>> \in Seq(S) /\ Len(<<n>>) = 1 /\ <<n>>[1] = n
  OBVIOUS

\* Adjust in a cluster of two.
LEMMA AdjustSmallSafe ==
  ASSUME NEW c, size(c) < minVoters, size(c) \in Nat, NEW leader,
         NEW change \in AdjustSmall(c, leader)
  PROVE  /\ change \in ChangeOf(DOMAIN c.role)
         /\ change.role = Spare =>
              \A i \in 1..Len(change.nodes) : SafeToDemote(c, leader, change.nodes[i])
<1>1. CASE change = NoChange
  BY <1>1, NoChangeType DEF Keep, Spare
<1>2. CASE change # NoChange
  <2>1. PICK n \in DOMAIN c.role : n # leader /\ change = Change(Spare, <<n>>)
    BY <1>2 DEF AdjustSmall
  <2>2. <<n>> \in Seq(DOMAIN c.role) /\ Len(<<n>>) = 1 /\ <<n>>[1] = n
    BY Single, Zenon
  <2>3. change \in ChangeOf(DOMAIN c.role)
    BY <2>1, <2>2 DEF Change, ChangeOf, Role
  <2>4. SafeToDemote(c, leader, n)
    BY <2>1 DEF SafeToDemote, minVoters
  <2>5. change.nodes = <<n>>
    BY <2>1 DEF Change
  <2> QED
    BY <2>2, <2>3, <2>4, <2>5
<1> QED
  BY <1>1, <1>2

\* Nothing but an online voter counts as one, and an offline leader is not
\* protected.
LEMMA DemoteOthersSafe ==
  ASSUME NEW c, IsFiniteSet(DOMAIN c.role), NEW leader,
         count(c, Voter, TRUE) >= Voters,
         NEW S \in {list(c, Voter, FALSE), list(c, StandBy, FALSE),
                    list(c, StandBy, TRUE) \ {leader}},
         NEW change \in demote(S)
  PROVE  /\ change \in ChangeOf(DOMAIN c.role)
         /\ \A i \in 1..Len(change.nodes) : SafeToDemote(c, leader, change.nodes[i])
<1>1. S \in SUBSET DOMAIN c.role
  BY DEF list
<1>2. /\ change \in ChangeOf(DOMAIN c.role)
      /\ \A i \in 1..Len(change.nodes) : change.nodes[i] \in S
  BY <1>1, DemoteType
<1>3. ASSUME NEW t \in S PROVE SafeToDemote(c, leader, t)
  <2>1. list(c, Voter, TRUE) \ {t} = list(c, Voter, TRUE)
    BY DEF list, Voter, StandBy
  <2>2. t = leader => leader \notin DOMAIN c.meta
    BY DEF list
  <2> QED
    BY <2>1, <2>2, Zenon DEF SafeToDemote, count
<1> QED
  BY <1>2, <1>3

\* One of too many voters goes.
LEMMA DemoteVoterSafe ==
  ASSUME NEW c, IsFiniteSet(DOMAIN c.role), NEW leader,
         count(c, Voter, TRUE) > Voters,
         NEW change \in demote(list(c, Voter, TRUE) \ {leader})
  PROVE  /\ change \in ChangeOf(DOMAIN c.role)
         /\ \A i \in 1..Len(change.nodes) : SafeToDemote(c, leader, change.nodes[i])
<1> DEFINE V == list(c, Voter, TRUE)
<1>1. V \ {leader} \in SUBSET DOMAIN c.role
  BY DEF list
<1>2. /\ change \in ChangeOf(DOMAIN c.role)
      /\ \A i \in 1..Len(change.nodes) : change.nodes[i] \in V \ {leader}
  BY <1>1, DemoteType, Zenon
<1>3. ASSUME NEW t \in V \ {leader} PROVE SafeToDemote(c, leader, t)
  <2>1. IsFiniteSet(V) /\ Cardinality(V) \in Nat
    BY ListFinite, Zenon
  <2>2. Cardinality(V \ {t}) = Cardinality(V) - 1
    BY <2>1, FS_RemoveElement, Zenon
  <2>3. Cardinality(V \ {t}) >= Voters
    BY <2>1, <2>2, RolesConfig, Compare, Zenon DEF count
  <2> QED
    BY <2>3 DEF SafeToDemote
<1> QED
  BY <1>2, <1>3, Zenon

\* Adjust (roles.go:129-228) returns members of the cluster, and what it wants
\* demoted is safe to demote in the snapshot it was given.
THEOREM AdjustSafe ==
  ASSUME NEW c, IsFiniteSet(DOMAIN c.role), NEW leader,
         NEW change \in Adjust(c, leader)
  PROVE  /\ change \in ChangeOf(DOMAIN c.role)
         /\ change.role = Spare =>
              \A i \in 1..Len(change.nodes) : SafeToDemote(c, leader, change.nodes[i])
<1> DEFINE Goal == /\ change \in ChangeOf(DOMAIN c.role)
                   /\ change.role = Spare =>
                        \A i \in 1..Len(change.nodes) :
                          SafeToDemote(c, leader, change.nodes[i])
<1>1. size(c) \in Nat /\ count(c, Voter, TRUE) \in Nat /\ count(c, StandBy, TRUE) \in Nat
  BY ListFinite, FS_CardinalityType, Zenon DEF size, count
<1>2. CASE change = NoChange
  BY <1>2, NoChangeType DEF Keep, Spare
<1>3. CASE size(c) < minVoters /\ change \in AdjustSmall(c, leader)
  BY <1>1, <1>3, AdjustSmallSafe
<1>4. ASSUME NEW role \in {Voter, StandBy}, NEW S \in SUBSET DOMAIN c.role, NEW peers,
             change \in promote(c, role, S, peers)
      PROVE  Goal
  BY <1>4, PromoteType DEF Voter, StandBy, Spare, Keep
<1>5. CASE /\ count(c, Voter, TRUE) > Voters
           /\ change \in demote(list(c, Voter, TRUE) \ {leader})
  BY <1>5, DemoteVoterSafe, Zenon
<1>6. ASSUME count(c, Voter, TRUE) >= Voters,
             NEW S \in {list(c, Voter, FALSE), list(c, StandBy, FALSE),
                        list(c, StandBy, TRUE) \ {leader}},
             change \in demote(S)
      PROVE  Goal
  BY <1>6, DemoteOthersSafe, Zenon
<1>7. CASE ~(count(c, Voter, TRUE) < Voters) /\ change \in AdjustStandBys(c, leader)
  <2>1. count(c, Voter, TRUE) >= Voters
    BY <1>1, <1>7, RolesConfig, Compare, Zenon
  <2>2. list(c, Spare, TRUE) \in SUBSET DOMAIN c.role
    BY DEF list
  <2>3. \/ change \in promote(c, StandBy, list(c, Spare, TRUE), list(c, StandBy, TRUE))
        \/ change \in demote(list(c, StandBy, TRUE) \ {leader})
        \/ change \in demote(list(c, StandBy, FALSE))
        \/ change = NoChange
    BY <1>7, Zenon DEF AdjustStandBys
  <2> QED
    BY <1>2, <1>4, <1>6, <2>1, <2>2, <2>3, Zenon
<1>8. CASE ~(size(c) < minVoters) /\ change # NoChange
  <2>1. list(c, StandBy, TRUE) \cup list(c, Spare, TRUE) \in SUBSET DOMAIN c.role
    BY DEF list
  <2>2. \/ change \in promote(c, Voter, list(c, StandBy, TRUE) \cup list(c, Spare, TRUE),
                              list(c, Voter, TRUE))
        \/ /\ count(c, Voter, TRUE) > Voters
           /\ change \in demote(list(c, Voter, TRUE) \ {leader})
        \/ /\ ~(count(c, Voter, TRUE) < Voters)
           /\ \/ change \in demote(list(c, Voter, FALSE))
              \/ change \in AdjustStandBys(c, leader)
    BY <1>8, Zenon DEF Adjust, count
  <2>3. ~(count(c, Voter, TRUE) < Voters) => count(c, Voter, TRUE) >= Voters
    BY <1>1, RolesConfig, Compare, Zenon
  <2> QED
    BY <1>4, <1>5, <1>6, <1>7, <2>1, <2>2, <2>3, Zenon
<1>9. \/ change = NoChange
      \/ size(c) < minVoters /\ change \in AdjustSmall(c, leader)
      \/ ~(size(c) < minVoters) /\ change # NoChange
  BY Zenon DEF Adjust
<1> QED
  BY <1>2, <1>3, <1>8, <1>9

\* A promotion or a demotion is not the answer "nothing to do".
LEMMA PromoteOrDemote ==
  ASSUME NEW c, NEW role \in {Voter, StandBy}, NEW S, NEW peers
  PROVE  /\ NoChange \in promote(c, role, S, peers) <=> S = {}
         /\ NoChange \notin demote(S)
  BY Zenon DEF promote, demote, NoChange, Change, Keep, Voter, StandBy, Spare

\* Adjust (roles.go:129-228) is content with a cluster exactly when it is
\* balanced: the fixed points of its case analysis are the states that
\* Balanced describes, which is what the loop in maybeAdjustRoles stops at.
THEOREM AdjustDone ==
  ASSUME NEW c, IsFiniteSet(DOMAIN c.role), NEW leader
  PROVE  NoChange \in Adjust(c, leader) <=> Balanced(c, leader)
<1> DEFINE v == count(c, Voter, TRUE)
           s == count(c, StandBy, TRUE)
<1>1. /\ size(c) \in Nat /\ v \in Nat /\ s \in Nat
      /\ Voters \in Nat /\ StandBys \in Nat
  BY ListFinite, FS_CardinalityType, RolesConfig, Zenon DEF size, count
<1>2. ASSUME NEW i \in Nat, NEW j \in Nat
      PROVE  /\ i < j => i # j /\ ~(i > j)
             /\ i > j => i # j /\ ~(i < j)
             /\ ~(i < j) <=> i >= j
             /\ ~(i < j) /\ ~(i > j) => i = j
  OBVIOUS
<1>3. minVoters \in Nat /\ 1 < minVoters
  BY DEF minVoters
<1>4. CASE size(c) = 1
  BY <1>4 DEF Adjust, Balanced
<1>5. CASE size(c) # 1 /\ size(c) < minVoters
  <2>1. NoChange \in AdjustSmall(c, leader) <=>
          \A n \in DOMAIN c.role : c.role[n] = Voter => n = leader
    BY DEF AdjustSmall, NoChange, Change, Keep, Spare
  <2>2. ~(size(c) >= minVoters)
    BY <1>1, <1>2, <1>3, <1>5
  <2> QED
    BY <1>5, <2>1, <2>2, Zenon DEF Adjust, Balanced
<1>6. CASE size(c) # 1 /\ ~(size(c) < minVoters)
  <2>0. size(c) >= minVoters
    BY <1>1, <1>2, <1>3, <1>6
  <2>1. CASE v < Voters
    <3>1. v # Voters
      BY <1>1, <1>2, <2>1, Zenon
    <3>2. NoChange \in Adjust(c, leader) <=>
            list(c, StandBy, TRUE) \cup list(c, Spare, TRUE) = {}
      BY <1>6, <2>1, PromoteOrDemote, Zenon DEF Adjust, count
    <3> QED
      BY <1>6, <2>0, <2>1, <3>1, <3>2, Zenon DEF Balanced
  <2>2. CASE v > Voters
    <3>1. v # Voters /\ ~(v < Voters)
      BY <1>1, <1>2, <2>2, Zenon
    <3>2. NoChange \notin Adjust(c, leader)
      BY <1>6, <2>2, <3>1, PromoteOrDemote DEF Adjust, count
    <3> QED
      BY <1>6, <3>1, <3>2, Zenon DEF Balanced
  <2>3. CASE ~(v < Voters) /\ ~(v > Voters) /\ list(c, Voter, FALSE) # {}
    <3>1. NoChange \notin Adjust(c, leader)
      BY <1>6, <2>3, PromoteOrDemote, Zenon DEF Adjust, count
    <3> QED
      BY <1>6, <2>3, <3>1, Zenon DEF Balanced
  <2>4. CASE ~(v < Voters) /\ ~(v > Voters) /\ list(c, Voter, FALSE) = {}
    <3>1. v = Voters
      BY <1>1, <1>2, <2>4, Zenon
    <3>2. Adjust(c, leader) = AdjustStandBys(c, leader)
      BY <1>6, <2>4, Zenon DEF Adjust, count
    <3>3. Balanced(c, leader) <=> \/ s = StandBys /\ list(c, StandBy, FALSE) = {}
                                  \/ s < StandBys /\ list(c, Spare, TRUE) = {}
      BY <1>6, <2>0, <2>4, <3>1, Zenon DEF Balanced
    <3>4. CASE s < StandBys
      <4>1. s # StandBys
        BY <1>1, <1>2, <3>4, Zenon
      <4>2. NoChange \in AdjustStandBys(c, leader) <=> list(c, Spare, TRUE) = {}
        BY <3>4, PromoteOrDemote, Zenon DEF AdjustStandBys, count
      <4> QED
        BY <3>2, <3>3, <3>4, <4>1, <4>2, Zenon
    <3>5. CASE ~(s < StandBys) /\ s > StandBys
      <4>1. s # StandBys
        BY <1>1, <1>2, <3>5, Zenon
      <4>2. NoChange \notin AdjustStandBys(c, leader)
        BY <3>5, PromoteOrDemote DEF AdjustStandBys, count
      <4> QED
        BY <3>2, <3>3, <3>5, <4>1, <4>2, Zenon
    <3>6. CASE ~(s < StandBys) /\ ~(s > StandBys)
      <4>1. s = StandBys
        BY <1>1, <1>2, <3>6, Zenon
      <4>2. NoChange \in AdjustStandBys(c, leader) <=> list(c, StandBy, FALSE) = {}
        BY <3>6, PromoteOrDemote, Zenon DEF AdjustStandBys, count
      <4> QED
        BY <3>2, <3>3, <3>6, <4>1, <4>2, Zenon
    <3> QED
      BY <3>4, <3>5, <3>6, Zenon
  <2> QED
    BY <2>1, <2>2, <2>3, <2>4, Zenon
<1> QED
  BY <1>4, <1>5, <1>6
-----------------------------------------------------------------------------
(* Every change that Adjust asks for leads towards balance.                *)

\* The cluster once node t has the given role.
Changed(c, t, role) == [role |-> [c.role EXCEPT ![t] = role], meta |-> c.meta]

Apart(i, j) == IF i < j THEN j - i ELSE i - j

\* How many changes of roles a cluster is away from balance, at most: a promotion to
\* voter may cost a stand-by.
Distance(c, leader) ==
  IF size(c) < minVoters
  THEN Cardinality({n \in DOMAIN c.role : n # leader /\ c.role[n] = Voter})
  ELSE 2 * Apart(count(c, Voter, TRUE), Voters) + count(c, Voter, FALSE)
       + Apart(count(c, StandBy, TRUE), StandBys) + count(c, StandBy, FALSE)

\* Node t changes to the given role and the cluster is nearer to balance.
Nearer(c, leader, t, role) == Distance(Changed(c, t, role), leader) < Distance(c, leader)

\* A change of roles moves one node from one list to another.
LEMMA MoveLists ==
  ASSUME NEW c, NEW D, c.role \in [D -> Role], NEW t \in D, NEW role \in Role,
         NEW R \in Role, NEW online \in BOOLEAN
  PROVE  list(Changed(c, t, role), R, online) =
           IF (t \in DOMAIN c.meta) # online THEN list(c, R, online)
           ELSE IF R = role THEN list(c, R, online) \cup {t}
           ELSE list(c, R, online) \ {t}
<1>1. /\ Changed(c, t, role).role = [c.role EXCEPT ![t] = role]
      /\ Changed(c, t, role).meta = c.meta
  BY DEF Changed
<1>2. /\ DOMAIN c.role = D /\ DOMAIN Changed(c, t, role).role = D
      /\ \A n \in D : Changed(c, t, role).role[n] = IF n = t THEN role ELSE c.role[n]
  BY <1>1
<1> QED BY <1>1, <1>2, Zenon DEF list

\* ... and so changes the counts by one.
LEMMA MoveCounts ==
  ASSUME NEW c, NEW D, IsFiniteSet(D), c.role \in [D -> Role], NEW t \in D, NEW role \in Role,
         NEW R \in Role, NEW online \in BOOLEAN, c.role[t] # role
  PROVE  LET old == count(c, R, online)
             new == count(Changed(c, t, role), R, online)
         IN  /\ old \in Nat /\ new \in Nat
             /\ (t \in DOMAIN c.meta) # online => new = old
             /\ R \notin {role, c.role[t]} => new = old
             /\ (t \in DOMAIN c.meta) = online /\ R = role => new = old + 1
             /\ (t \in DOMAIN c.meta) = online /\ R = c.role[t] => new = old - 1
<1> DEFINE L == list(c, R, online)
           M == list(Changed(c, t, role), R, online)
<1>1. DOMAIN c.role = D
  OBVIOUS
<1>2. IsFiniteSet(L) /\ Cardinality(L) \in Nat
  BY <1>1, ListFinite
<1>3. M = IF (t \in DOMAIN c.meta) # online THEN L
          ELSE IF R = role THEN L \cup {t} ELSE L \ {t}
  BY MoveLists
<1>4. t \in L <=> R = c.role[t] /\ (t \in DOMAIN c.meta) = online
  BY <1>1 DEF list
<1> HIDE DEF L, M
<1>5. t \notin L => Cardinality(L \cup {t}) = Cardinality(L) + 1 /\ L \ {t} = L
  <2>1. t \notin L => Cardinality(L \cup {t}) = Cardinality(L) + 1
    BY <1>2, FS_AddElement, Zenon
  <2>2. t \notin L => L \ {t} = L
    BY Zenon
  <2> QED BY <2>1, <2>2, Zenon
<1>6. t \in L => Cardinality(L \ {t}) = Cardinality(L) - 1 /\ Cardinality(L) > 0
  <2>1. t \in L => Cardinality(L \ {t}) = Cardinality(L) - 1
    BY <1>2, FS_RemoveElement, Zenon
  <2>2. t \in L => Cardinality(L) # 0
    BY <1>2, FS_EmptySet
  <2> QED BY <1>2, <2>1, <2>2
<1>7. CASE (t \in DOMAIN c.meta) # online
  BY <1>2, <1>3, <1>7 DEF count, L, M
<1>8. CASE (t \in DOMAIN c.meta) = online /\ R = role
  <2>1. t \notin L /\ M = L \cup {t}
    BY <1>3, <1>4, <1>8
  <2>2. Cardinality(M) = Cardinality(L) + 1
    BY <1>5, <2>1
  <2> QED BY <1>2, <1>8, <2>2 DEF count, L, M
<1>9. CASE (t \in DOMAIN c.meta) = online /\ R # role /\ R = c.role[t]
  <2>1. t \in L /\ M = L \ {t}
    BY <1>3, <1>4, <1>9
  <2>2. Cardinality(M) = Cardinality(L) - 1 /\ Cardinality(L) > 0
    BY <1>6, <2>1
  <2> QED BY <1>2, <1>9, <2>2 DEF count, L, M
<1>10. CASE (t \in DOMAIN c.meta) = online /\ R # role /\ R # c.role[t]
  <2>1. t \notin L /\ M = L \ {t}
    BY <1>3, <1>4, <1>10
  <2>2. M = L
    BY <1>5, <2>1
  <2> QED BY <1>2, <1>10, <2>2 DEF count, L, M
<1> QED BY <1>7, <1>8, <1>9, <1>10

\* Adjust in a cluster of two takes voting rights from someone who has them.
LEMMA SmallNearer ==
  ASSUME NEW c, NEW D, IsFiniteSet(D), c.role \in [D -> Role], size(c) < minVoters,
         NEW leader, NEW t \in D, t # leader, c.role[t] = Voter
  PROVE  Nearer(c, leader, t, Spare)
<1> DEFINE d == Changed(c, t, Spare)
           S == {n \in D : n # leader /\ c.role[n] = Voter}
           T == {n \in D : n # leader /\ d.role[n] = Voter}
<1>1. /\ d.role = [c.role EXCEPT ![t] = Spare] /\ DOMAIN c.role = D /\ DOMAIN d.role = D
  BY DEF Changed
<1>2. T = S \ {t} /\ t \in S
  BY <1>1 DEF Spare, Voter
<1>3. size(d) = size(c)
  BY <1>1 DEF size
<1>4. Distance(c, leader) = Cardinality(S) /\ Distance(d, leader) = Cardinality(T)
  BY <1>1, <1>3, Zenon DEF Distance
<1>5. IsFiniteSet(S)
  BY FS_Subset
<1> HIDE DEF S, T, d
<1>6. Cardinality(T) = Cardinality(S) - 1 /\ Cardinality(S) \in Nat
  BY <1>2, <1>5, FS_RemoveElement, FS_CardinalityType
<1>7. Cardinality(T) < Cardinality(S)
  BY <1>6
<1> QED BY <1>4, <1>7, Zenon DEF Nearer, d

\* Two numbers come nearer, and a third moves by one at most.
LEMMA Closer ==
  ASSUME NEW i \in Nat, NEW k \in Nat
  PROVE  /\ Apart(i, k) \in Nat
         /\ i < k => Apart(i + 1, k) = Apart(i, k) - 1
         /\ i > k => Apart(i - 1, k) = Apart(i, k) - 1
         /\ Apart(i - 1, k) <= Apart(i, k) + 1 /\ Apart(i - 1, k) \in Int
  BY DEF Apart

\* One change in a larger cluster, by the counts it changes: a node that gets voting
\* rights where there are too few, a voter or stand-by too many that loses its role, and
\* so on, in the order in which Adjust looks for them.
LEMMA LargeNearer ==
  ASSUME NEW c, NEW D, IsFiniteSet(D), c.role \in [D -> Role], ~(size(c) < minVoters),
         NEW leader, NEW t \in D, NEW role \in Role,
         \/ /\ count(c, Voter, TRUE) < Voters /\ role = Voter
            /\ t \in DOMAIN c.meta /\ c.role[t] # Voter
         \/ /\ count(c, Voter, TRUE) > Voters /\ role = Spare
            /\ t \in DOMAIN c.meta /\ c.role[t] = Voter
         \/ role = Spare /\ t \notin DOMAIN c.meta /\ c.role[t] \in {Voter, StandBy}
         \/ /\ count(c, StandBy, TRUE) < StandBys /\ role = StandBy
            /\ t \in DOMAIN c.meta /\ c.role[t] = Spare
         \/ /\ count(c, StandBy, TRUE) > StandBys /\ role = Spare
            /\ t \in DOMAIN c.meta /\ c.role[t] = StandBy
  PROVE  Nearer(c, leader, t, role)
<1> DEFINE d == Changed(c, t, role)
           v == count(c, Voter, TRUE)
           w == count(c, Voter, FALSE)
           s == count(c, StandBy, TRUE)
           o == count(c, StandBy, FALSE)
           vv == count(d, Voter, TRUE)
           ww == count(d, Voter, FALSE)
           ss == count(d, StandBy, TRUE)
           oo == count(d, StandBy, FALSE)
           old == 2 * Apart(v, Voters) + w + Apart(s, StandBys) + o
           new == 2 * Apart(vv, Voters) + ww + Apart(ss, StandBys) + oo
<1>1. size(d) = size(c)
  BY DEF Changed, size
<1>2. Distance(c, leader) = old /\ Distance(d, leader) = new
  BY <1>1, Zenon DEF Distance
<1>3. c.role[t] # role /\ Voter # StandBy /\ Voter # Spare /\ StandBy # Spare
      /\ Voter \in Role /\ StandBy \in Role /\ c.role[t] \in Role
  BY Zenon DEF Voter, StandBy, Spare, Role
<1>4. ASSUME NEW R \in {Voter, StandBy}, NEW online \in BOOLEAN
      PROVE  LET a == count(c, R, online)
                 b == count(d, R, online)
             IN  /\ a \in Nat /\ b \in Nat
                 /\ (t \in DOMAIN c.meta) # online => b = a
                 /\ R \notin {role, c.role[t]} => b = a
                 /\ (t \in DOMAIN c.meta) = online /\ R = role => b = a + 1
                 /\ (t \in DOMAIN c.meta) = online /\ R = c.role[t] => b = a - 1
  <2>1. R \in Role /\ c.role[t] # role
    BY <1>3
  <2> QED BY <2>1, MoveCounts, SMTT(30)
<1>5. /\ v \in Nat /\ w \in Nat /\ s \in Nat /\ o \in Nat
      /\ vv \in Nat /\ ww \in Nat /\ ss \in Nat /\ oo \in Nat
  BY <1>4, Zenon
<1>6. Voters \in Nat /\ StandBys \in Nat
  BY RolesConfig
<1>7. t \in DOMAIN c.meta => ww = w /\ oo = o
  BY <1>4, Zenon
<1>8. t \notin DOMAIN c.meta => vv = v /\ ss = s
  BY <1>4, Zenon
<1>9. ASSUME t \in DOMAIN c.meta
      PROVE  /\ role = Voter => vv = v + 1
             /\ c.role[t] = Voter => vv = v - 1
             /\ Voter \notin {role, c.role[t]} => vv = v
             /\ role = StandBy => ss = s + 1
             /\ c.role[t] = StandBy => ss = s - 1
             /\ StandBy \notin {role, c.role[t]} => ss = s
  <2>1. (t \in DOMAIN c.meta) = TRUE
    BY <1>9
  <2> QED BY <1>4, <2>1, Zenon
<1>10. ASSUME t \notin DOMAIN c.meta, role = Spare
       PROVE  /\ c.role[t] = Voter => ww = w - 1 /\ oo = o
              /\ c.role[t] = StandBy => oo = o - 1 /\ ww = w
  <2>1. (t \in DOMAIN c.meta) = FALSE
    BY <1>10
  <2> QED BY <1>3, <1>4, <1>10, <2>1, Zenon
<1>11. /\ Apart(v, Voters) \in Nat /\ Apart(s, StandBys) \in Nat
       /\ v < Voters => Apart(v + 1, Voters) = Apart(v, Voters) - 1
       /\ v > Voters => Apart(v - 1, Voters) = Apart(v, Voters) - 1
       /\ s < StandBys => Apart(s + 1, StandBys) = Apart(s, StandBys) - 1
       /\ s > StandBys => Apart(s - 1, StandBys) = Apart(s, StandBys) - 1
       /\ Apart(s - 1, StandBys) <= Apart(s, StandBys) + 1 /\ Apart(s - 1, StandBys) \in Int
  BY <1>5, <1>6, Closer, Zenon
<1>12. new < old
  <2>1. CASE v < Voters /\ role = Voter /\ t \in DOMAIN c.meta /\ c.role[t] # Voter
    <3>1. vv = v + 1 /\ ww = w /\ oo = o /\ (ss = s \/ ss = s - 1)
      BY <1>3, <1>7, <1>9, <2>1, Zenon
    <3> HIDE DEF v, w, s, o, vv, ww, ss, oo
    <3> QED BY <1>5, <1>11, <2>1, <3>1
  <2>2. CASE v > Voters /\ role = Spare /\ t \in DOMAIN c.meta /\ c.role[t] = Voter
    <3>1. vv = v - 1 /\ ww = w /\ oo = o /\ ss = s
      BY <1>3, <1>7, <1>9, <2>2, Zenon
    <3> HIDE DEF v, w, s, o, vv, ww, ss, oo
    <3> QED BY <1>5, <1>11, <2>2, <3>1
  <2>3. CASE role = Spare /\ t \notin DOMAIN c.meta /\ c.role[t] \in {Voter, StandBy}
    <3>1. vv = v /\ ss = s /\ ((ww = w - 1 /\ oo = o) \/ (ww = w /\ oo = o - 1))
      BY <1>8, <1>10, <2>3, Zenon
    <3> HIDE DEF v, w, s, o, vv, ww, ss, oo
    <3> QED BY <1>5, <1>11, <3>1
  <2>4. CASE s < StandBys /\ role = StandBy /\ t \in DOMAIN c.meta /\ c.role[t] = Spare
    <3>1. vv = v /\ ww = w /\ oo = o /\ ss = s + 1
      BY <1>3, <1>7, <1>9, <2>4, Zenon
    <3> HIDE DEF v, w, s, o, vv, ww, ss, oo
    <3> QED BY <1>5, <1>11, <2>4, <3>1
  <2>5. CASE s > StandBys /\ role = Spare /\ t \in DOMAIN c.meta /\ c.role[t] = StandBy
    <3>1. vv = v /\ ww = w /\ oo = o /\ ss = s - 1
      BY <1>3, <1>7, <1>9, <2>5, Zenon
    <3> HIDE DEF v, w, s, o, vv, ww, ss, oo
    <3> QED BY <1>5, <1>11, <2>5, <3>1
  <2> QED BY <2>1, <2>2, <2>3, <2>4, <2>5, Zenon
<1> QED BY <1>2, <1>12, Zenon DEF Nearer

LEMMA WeightedSum ==
  ASSUME NEW i \in Nat, NEW j \in Nat, NEW k \in Nat, NEW l \in Nat
  PROVE  2 * i + j + k + l \in Nat
  OBVIOUS

\* The distance is a natural number: it cannot go down for ever.
LEMMA DistanceType ==
  ASSUME NEW c, NEW D, IsFiniteSet(D), c.role \in [D -> Role], NEW leader
  PROVE  Distance(c, leader) \in Nat
<1> DEFINE S == {n \in DOMAIN c.role : n # leader /\ c.role[n] = Voter}
<1>1. Cardinality(S) \in Nat
  <2>1. S \in SUBSET D
    OBVIOUS
  <2> QED BY <2>1, FS_Subset, FS_CardinalityType
<1>2. /\ count(c, Voter, TRUE) \in Nat /\ count(c, Voter, FALSE) \in Nat
      /\ count(c, StandBy, TRUE) \in Nat /\ count(c, StandBy, FALSE) \in Nat
  <2>1. IsFiniteSet(DOMAIN c.role)
    OBVIOUS
  <2> QED BY <2>1, ListFinite, FS_CardinalityType, Zenon DEF count
<1>3. Apart(count(c, Voter, TRUE), Voters) \in Nat
      /\ Apart(count(c, StandBy, TRUE), StandBys) \in Nat
  BY <1>2, RolesConfig, Closer, Zenon
<1>4. 2 * Apart(count(c, Voter, TRUE), Voters) + count(c, Voter, FALSE)
      + Apart(count(c, StandBy, TRUE), StandBys) + count(c, StandBy, FALSE) \in Nat
  BY <1>2, <1>3, WeightedSum, Zenon
<1> QED BY <1>1, <1>4, Zenon DEF Distance

\* Every node that Adjust (roles.go:129-228) names may take the role it asks for, and each
\* of these changes brings the cluster nearer to balance: no rule undoes the work of
\* another, whatever the order in which the loop of maybeAdjustRoles (app.go:623-667)
\* applies them and whichever of the candidates accepts.
THEOREM AdjustNearer ==
  ASSUME NEW c, NEW D, IsFiniteSet(D), c.role \in [D -> Role], NEW leader,
         NEW change \in Adjust(c, leader), NEW i \in 1..Len(change.nodes)
  PROVE  /\ Distance(c, leader) \in Nat
         /\ Nearer(c, leader, change.nodes[i], change.role)
<1> DEFINE t == change.nodes[i]
           S == list(c, StandBy, TRUE) \cup list(c, Spare, TRUE)
<1>1. DOMAIN c.role = D
  OBVIOUS
<1>2. count(c, Voter, TRUE) \in Nat /\ count(c, StandBy, TRUE) \in Nat
  BY <1>1, ListFinite, FS_CardinalityType, Zenon DEF count
<1>3. change # NoChange
  BY DEF NoChange, Change
<1>4. ASSUME size(c) < minVoters, change \in AdjustSmall(c, leader)
      PROVE  Nearer(c, leader, t, change.role)
  <2>1. PICK n \in DOMAIN c.role : /\ n # leader /\ c.role[n] = Voter
                                   /\ change = Change(Spare, <<n>>)
    BY <1>3, <1>4, Zenon DEF AdjustSmall
  <2>2. change.nodes = <<n>> /\ change.role = Spare
    BY <2>1 DEF Change
  <2>3. t = n
    BY <2>2
  <2> HIDE DEF t
  <2>4. Nearer(c, leader, t, Spare)
    BY <1>1, <1>4, <2>1, <2>3, SmallNearer
  <2> QED BY <2>2, <2>4, Zenon
<1>5. ASSUME ~(size(c) < minVoters) PROVE Nearer(c, leader, t, change.role)
  <2>1. /\ Voter # StandBy /\ Voter # Spare /\ StandBy # Spare
        /\ Voter \in Role /\ StandBy \in Role /\ Spare \in Role
    BY DEF Voter, StandBy, Spare, Role
  <2>2. \/ count(c, Voter, TRUE) < Voters /\ change \in promote(c, Voter, S, list(c, Voter, TRUE))
        \/ count(c, Voter, TRUE) > Voters /\ change \in demote(list(c, Voter, TRUE) \ {leader})
        \/ change \in demote(list(c, Voter, FALSE))
        \/ change \in AdjustStandBys(c, leader)
    BY <1>3, <1>5, Zenon DEF Adjust, count
  <2>3. \/ count(c, Voter, TRUE) < Voters /\ change \in promote(c, Voter, S, list(c, Voter, TRUE))
        \/ count(c, Voter, TRUE) > Voters /\ change \in demote(list(c, Voter, TRUE) \ {leader})
        \/ change \in demote(list(c, Voter, FALSE))
        \/ /\ count(c, StandBy, TRUE) < StandBys
           /\ change \in promote(c, StandBy, list(c, Spare, TRUE), list(c, StandBy, TRUE))
        \/ count(c, StandBy, TRUE) > StandBys /\ change \in demote(list(c, StandBy, TRUE) \ {leader})
        \/ change \in demote(list(c, StandBy, FALSE))
    BY <1>3, <2>2, Zenon DEF AdjustStandBys, count
  <2>4. ASSUME NEW T \in SUBSET D, change \in demote(T)
        PROVE  change.role = Spare /\ t \in T
    BY <1>1, <2>4, DemoteType DEF demote, Change
  <2>5. ASSUME NEW role \in {Voter, StandBy}, NEW T \in SUBSET D, NEW peers,
               change \in promote(c, role, T, peers)
        PROVE  change.role = role /\ t \in T
    <3>1. PICK s \in Orders(T) : change = Change(role, s)
      BY <1>3, <2>5, SortedWalk DEF promote
    <3>2. change.nodes = s /\ change.role = role
      BY <3>1 DEF Change
    <3>3. IsFiniteSet(T)
      BY FS_Subset
    <3> QED BY <3>1, <3>2, <3>3, WalkType
  <2>6. ASSUME NEW r \in Role, NEW on \in BOOLEAN
        PROVE  /\ list(c, r, on) \in SUBSET D
               /\ \A n \in list(c, r, on) : c.role[n] = r /\ (n \in DOMAIN c.meta) = on
    BY <1>1 DEF list
  <2> HIDE DEF t
  <2>7. CASE count(c, Voter, TRUE) < Voters
             /\ change \in promote(c, Voter, S, list(c, Voter, TRUE))
    <3>1. S \in SUBSET D
      BY <2>1, <2>6, Zenon
    <3>2. change.role = Voter /\ t \in S
      BY <2>5, <2>7, <3>1, Zenon
    <3>3. t \in D /\ t \in DOMAIN c.meta /\ c.role[t] # Voter
      BY <2>1, <2>6, <3>2, Zenon
    <3> QED BY <1>5, <2>1, <2>7, <3>2, <3>3, LargeNearer, Zenon
  <2>8. CASE count(c, Voter, TRUE) > Voters
             /\ change \in demote(list(c, Voter, TRUE) \ {leader})
    <3>1. list(c, Voter, TRUE) \ {leader} \in SUBSET D
      BY <2>1, <2>6, Zenon
    <3>2. change.role = Spare /\ t \in list(c, Voter, TRUE)
      BY <2>4, <2>8, <3>1, Zenon
    <3>3. t \in D /\ t \in DOMAIN c.meta /\ c.role[t] = Voter
      BY <2>1, <2>6, <3>2, Zenon
    <3> QED BY <1>5, <2>1, <2>8, <3>2, <3>3, LargeNearer, Zenon
  <2>9. CASE \E r \in {Voter, StandBy} : change \in demote(list(c, r, FALSE))
    <3>1. PICK r \in {Voter, StandBy} : change \in demote(list(c, r, FALSE))
      BY <2>9, Zenon
    <3>2. r \in Role /\ list(c, r, FALSE) \in SUBSET D
      BY <2>1, <2>6, Zenon
    <3>3. change.role = Spare /\ t \in list(c, r, FALSE)
      BY <2>4, <3>1, <3>2, Zenon
    <3>4. t \in D /\ t \notin DOMAIN c.meta /\ c.role[t] \in {Voter, StandBy}
      BY <2>6, <3>2, <3>3, Zenon
    <3> QED BY <1>5, <2>1, <3>3, <3>4, LargeNearer, Zenon
  <2>10. CASE count(c, StandBy, TRUE) < StandBys
              /\ change \in promote(c, StandBy, list(c, Spare, TRUE), list(c, StandBy, TRUE))
    <3>1. list(c, Spare, TRUE) \in SUBSET D
      BY <2>1, <2>6, Zenon
    <3>2. change.role = StandBy /\ t \in list(c, Spare, TRUE)
      BY <2>5, <2>10, <3>1, Zenon
    <3>3. t \in D /\ t \in DOMAIN c.meta /\ c.role[t] = Spare
      BY <2>1, <2>6, <3>2, Zenon
    <3> QED BY <1>5, <2>1, <2>10, <3>2, <3>3, LargeNearer, Zenon
  <2>11. CASE count(c, StandBy, TRUE) > StandBys
              /\ change \in demote(list(c, StandBy, TRUE) \ {leader})
    <3>1. list(c, StandBy, TRUE) \ {leader} \in SUBSET D
      BY <2>1, <2>6, Zenon
    <3>2. change.role = Spare /\ t \in list(c, StandBy, TRUE)
      BY <2>4, <2>11, <3>1, Zenon
    <3>3. t \in D /\ t \in DOMAIN c.meta /\ c.role[t] = StandBy
      BY <2>1, <2>6, <3>2, Zenon
    <3> QED BY <1>5, <2>1, <2>11, <3>2, <3>3, LargeNearer, Zenon
  <2> QED BY <2>3, <2>7, <2>8, <2>9, <2>10, <2>11, Zenon
<1>6. size(c) < minVoters => change \in AdjustSmall(c, leader)
  BY <1>3 DEF Adjust
<1> HIDE DEF t
<1>7. Nearer(c, leader, t, change.role)
  BY <1>4, <1>5, <1>6
<1> QED BY <1>7, DistanceType DEF t
=============================================================================
