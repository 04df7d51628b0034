------------------------------- MODULE MCApp -------------------------------
(* Small instances of App for TLC.                                         *)
EXTENDS App
CONSTANTS n1, n2, n3, n4, n5

Same == [n \in Node |-> [domain |-> 0, weight |-> 0]]

Conf(voters, standbys, spares) ==
  [n \in Node |-> CASE n \in voters -> Voter [] n \in standbys -> StandBy
                    [] n \in spares -> Spare [] OTHER -> None]
AllUp == {Node}

\* Adjust: any roles, at most one node down.
AdjustMeta == [n \in Node |-> [domain |-> IF n \in {n1, n2} THEN 0 ELSE 1,
                               weight |-> IF n = n5 THEN 1 ELSE 0]]
AnyConf == {cf \in [Node -> Role] : cf[n1] = Voter /\ cf[n2] = Voter}
OneDown == {Node \ {n} : n \in Node \ {n1}} \cup {Node}

\* Handover: three voters, and perhaps someone to take over.
ThreeAndSpare == {Conf({n1, n2, n3}, {}, {n4})}
GracefulConfs == {Conf({n1, n2, n3}, {n4}, {}), Conf(Node, {}, {})} \cup ThreeAndSpare
OneOfEach     == {Conf({n1, n2, n3}, {n4}, {n5})}
TwoNodes      == {Conf({n1}, {}, {n2})}

\* Form: a bootstrapped node, perhaps with a second voter, and others that join.
OneOrTwo == {Conf({n1}, {}, {}), Conf({n1, n2}, {}, {})}
=============================================================================
