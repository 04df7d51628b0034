-------------------------- MODULE ConnectorProofs --------------------------
(***************************************************************************)
(* Proofs about Connector, for any set of servers, any store, and any       *)
(* number of attempts, elections and failures: NoStrayConnection, that      *)
(* Connect implements LeaderSearch, and that it pauses as long as it should  *)
(* (BackoffExact).                                                         *)
(*                                                                         *)
(* The first two do not follow from what a single step does.  What keeps     *)
(* them is which connection is open at each point of the call (OpenInv),     *)
(* what the variable protocol tells about it (ProtocolInv), and that a        *)
(* server that is taken for the leader has believed to be it since the call   *)
(* began (LedInv).  The third is arithmetic of powers of two.                *)
(***************************************************************************)
EXTENDS Connector, FiniteSetTheorems, TLAPS

\* Which connections are open.
OpenInv ==
  /\ pc \in {"retry", "servers", "next", "dial", "backoff"} => open = {}
  /\ pc \in {"leader", "client"} => open = {target}
  /\ pc \in {"dial", "leader", "client"} => target \in Server

\* What protocol tells: it is set only when there is a connection.
ProtocolInv ==
  /\ pc \notin {"check", "connected", "failed"} => protocol = NoServer
  /\ pc = "check" => IF protocol = NoServer THEN ctxDone /\ open = {} ELSE open = {protocol}
  /\ pc = "connected" => protocol \in Server /\ open = {protocol}
  /\ pc = "failed" => \/ ctxDone /\ (open = {} \/ open = {protocol})
                      \/ limit > 0 /\ open = {}

\* Who has believed to be the leader.
LedInv ==
  /\ leader \in led
  /\ \A s \in Server : belief[s] = s => s \in led
  /\ pc = "client" => target \in led
  /\ protocol # NoServer => protocol \in led

IInv == TypeOK /\ OpenInv /\ ProtocolInv /\ LedInv /\ pc # "panic"
-----------------------------------------------------------------------------
\* The servers of the store in some order are a sequence of servers.
LEMMA SortedType == ASSUME NEW s \in sortedServers PROVE s \in Seq(Server)
<1>1. DOMAIN Store \subseteq Server /\ IsFiniteSet(Server)
  BY ConnectorAssumption
<1>2. IsFiniteSet(DOMAIN Store)
  BY <1>1, FS_Subset
<1>3. Cardinality(DOMAIN Store) \in Nat
  BY <1>2, FS_CardinalityType
<1>4. s \in [1..Cardinality(DOMAIN Store) -> DOMAIN Store]
  BY DEF sortedServers, Injection, IsInjective
<1> QED BY <1>1, <1>3, <1>4

\* Init establishes the invariant.
LEMMA InitInv == Init => IInv
<1> SUFFICES ASSUME Init PROVE IInv
  OBVIOUS
<1>1. TypeOK
  <2>1. <<>> \in Seq(Server)
    OBVIOUS
  <2> QED BY <2>1, ConnectorAssumption, Zenon DEF Init, TypeOK, PC
<1>2. LedInv
  BY ConnectorAssumption DEF Init, LedInv
<1>3. OpenInv /\ ProtocolInv /\ pc # "panic"
  BY DEF Init, OpenInv, ProtocolInv
<1> QED BY <1>1, <1>2, <1>3 DEF IInv

\* The invariant is kept by the steps of the cluster and the caller ...
LEMMA ClusterInv ==
  ASSUME IInv, Expire \/ Calm \/ \E s \in Server : Elect(s) \/ Learn(s) \/ Fail(s)
  PROVE  IInv'
<1> USE ConnectorAssumption DEF IInv, TypeOK, OpenInv, ProtocolInv, LedInv, PC
<1>1. CASE Expire
  BY <1>1 DEF Expire, cluster, retry
<1>2. CASE Calm
  BY <1>2 DEF Calm, retry
<1>3. ASSUME NEW s \in Server, Elect(s) PROVE IInv'
  BY <1>3 DEF Elect, retry
<1>4. ASSUME NEW s \in Server, Learn(s) PROVE IInv'
  BY <1>4 DEF Learn, retry
<1>5. ASSUME NEW s \in Server, Fail(s) PROVE IInv'
  BY <1>5 DEF Fail, retry
<1> QED BY <1>1, <1>2, <1>3, <1>4, <1>5, Zenon

\* ... and by those of Connect.
LEMMA ConnectInv == ASSUME IInv, Connect PROVE IInv'
<1> USE ConnectorAssumption DEF IInv, TypeOK, OpenInv, ProtocolInv, LedInv, PC
<1>1. CASE Attempt
  BY <1>1 DEF Attempt, cluster, retry
<1>2. CASE Backoff
  <2>1. MaxAttempts \in Nat
    OBVIOUS
  <2> QED BY <1>2, <2>1 DEF Backoff, cluster, retry
<1>3. CASE Check
  BY <1>3 DEF Check, cluster, retry
<1>4. CASE StoreGet
  <2>1. todo' \in Seq(Server)
    BY <1>4, SortedType DEF StoreGet
  <2> QED BY <1>4, <2>1 DEF StoreGet, cluster, retry
<1>5. CASE NextServer
  <2>1. CASE todo = <<>>
    BY <1>5, <2>1 DEF NextServer, cluster, retry
  <2>2. CASE todo # <<>>
    <3>1. Head(todo) \in Server /\ Tail(todo) \in Seq(Server)
      BY <2>2
    <3> QED BY <1>5, <2>2, <3>1, Zenon DEF NextServer, cluster, retry
  <2> QED BY <2>1, <2>2
<1>6. CASE Dial
  BY <1>6 DEF Dial, cluster, retry
<1>7. CASE LeaderAnswer
  BY <1>7, Zenon DEF LeaderAnswer, Close, Redirect, cluster, retry
<1>8. CASE LeaderError
  BY <1>8 DEF LeaderError, Close, Downgrade, cluster, retry
<1>9. CASE ClientAnswer
  BY <1>9 DEF ClientAnswer, cluster, retry
<1>10. CASE ClientError
  BY <1>10 DEF ClientError, Close, cluster, retry
<1> QED BY <1>1, <1>2, <1>3, <1>4, <1>5, <1>6, <1>7, <1>8, <1>9, <1>10, Zenon DEF Connect

\* The invariant is inductive ...
LEMMA NextInv == IInv /\ [Next]_vars => IInv'
<1>1. ASSUME IInv, UNCHANGED vars PROVE IInv'
  BY <1>1 DEF vars, cluster, retry, IInv, TypeOK, OpenInv, ProtocolInv, LedInv
<1> QED BY <1>1, ClusterInv, ConnectInv DEF Next

\* ... and so holds in every reachable state.
THEOREM Invariant == Spec => []IInv
  BY InitInv, NextInv, PTL DEF Spec

\* Type correctness.
THEOREM TypeCorrect == Spec => []TypeOK
<1>1. IInv => TypeOK
  BY DEF IInv
<1> QED BY <1>1, Invariant, PTL

\* Connect never has more than one connection open, returns with the one it hands
\* out, and leaves none behind unless it is the context that ends it.
THEOREM NoStrayConnectionHolds == Spec => []NoStrayConnection
<1>1. IInv => NoStrayConnection
  <2> SUFFICES ASSUME IInv PROVE NoStrayConnection
    OBVIOUS
  <2>1. Cardinality({target}) = 1 /\ Cardinality({protocol}) = 1
    BY FS_Singleton, Zenon
  <2>2. Cardinality({}) = 0
    BY FS_EmptySet
  <2>3. open = {} \/ open = {target} \/ open = {protocol}
    BY DEF IInv, TypeOK, PC, OpenInv, ProtocolInv
  <2>4. Cardinality(open) = 0 \/ Cardinality(open) = 1
    BY <2>1, <2>2, <2>3, Zenon
  <2> QED BY <2>4 DEF IInv, OpenInv, ProtocolInv, NoStrayConnection
<1> QED BY <1>1, Invariant, PTL
-----------------------------------------------------------------------------
(* The pause between two attempts.                                         *)

\* The numbers up to k are k.
LEMMA UpTo == ASSUME NEW k \in Nat PROVE IsFiniteSet(1..k) /\ Cardinality(1..k) = k
  BY FS_Interval

\* A power of two is positive: it counts the subsets of a finite set ...
LEMMA PowerType == ASSUME NEW n \in Nat PROVE 2^n \in Nat /\ 2^n > 0
<1>1. IsFiniteSet(1..n) /\ Cardinality(1..n) = n
  BY FS_Interval
<1>2. IsFiniteSet(SUBSET (1..n)) /\ Cardinality(SUBSET (1..n)) = 2^n
  BY <1>1, FS_SUBSET, Zenon
<1>3. 2^n \in Nat
  BY <1>2, FS_CardinalityType
<1>4. SUBSET (1..n) # {}
  BY Zenon
<1>5. Cardinality(SUBSET (1..n)) # 0
  BY <1>2, <1>4, FS_EmptySet
<1> QED BY <1>2, <1>3, <1>5

\* ... and the subsets of a union of disjoint sets are pairs of subsets.
LEMMA PowerSum == ASSUME NEW m \in Nat, NEW n \in Nat PROVE 2^(m + n) = 2^m * 2^n
<1> DEFINE S == 1..m
           T == (m + 1)..(m + n)
           f == [p \in (SUBSET S) \X (SUBSET T) |-> p[1] \cup p[2]]
<1>1. IsFiniteSet(S) /\ Cardinality(S) = m
  BY FS_Interval
<1>2. IsFiniteSet(T) /\ Cardinality(T) = n
  <2>1. /\ IsFiniteSet((m + 1)..(m + n))
        /\ Cardinality((m + 1)..(m + n))
             = IF m + 1 > m + n THEN 0 ELSE (m + n) - (m + 1) + 1
    <3>1. m + 1 \in Int /\ m + n \in Int
      OBVIOUS
    <3> QED BY <3>1, FS_Interval, Zenon
  <2>2. (IF m + 1 > m + n THEN 0 ELSE (m + n) - (m + 1) + 1) = n
    OBVIOUS
  <2> QED BY <2>1, <2>2
<1>3. IsFiniteSet(1..(m + n)) /\ Cardinality(1..(m + n)) = m + n
  <2>1. m + n \in Nat
    OBVIOUS
  <2> QED BY <2>1, UpTo, Zenon
<1>4. S \cup T = 1..(m + n) /\ S \cap T = {}
  OBVIOUS
<1>5. IsFiniteSet(SUBSET S) /\ Cardinality(SUBSET S) = 2^m
  BY <1>1, FS_SUBSET, Zenon
<1>6. IsFiniteSet(SUBSET T) /\ Cardinality(SUBSET T) = 2^n
  BY <1>2, FS_SUBSET, Zenon
<1>7. IsFiniteSet(SUBSET (S \cup T)) /\ Cardinality(SUBSET (S \cup T)) = 2^(m + n)
  BY <1>3, <1>4, FS_SUBSET, Zenon
<1> HIDE DEF S, T
<1>8. /\ IsFiniteSet((SUBSET S) \X (SUBSET T))
      /\ Cardinality((SUBSET S) \X (SUBSET T)) = 2^m * 2^n
  BY <1>5, <1>6, FS_Product, Zenon
<1>9. f \in Bijection((SUBSET S) \X (SUBSET T), SUBSET (S \cup T))
  <2>1. f \in [(SUBSET S) \X (SUBSET T) -> SUBSET (S \cup T)]
    OBVIOUS
  <2>2. ASSUME NEW p \in (SUBSET S) \X (SUBSET T), NEW q \in (SUBSET S) \X (SUBSET T), f[p] = f[q]
        PROVE p = q
    <3>1. p[1] \cup p[2] = q[1] \cup q[2]
      BY <2>2
    <3>2. p[1] = q[1]
      BY <3>1, <1>4
    <3>3. p[2] = q[2]
      BY <3>1, <1>4
    <3> QED BY <3>2, <3>3
  <2>3. ASSUME NEW U \in SUBSET (S \cup T)
        PROVE \E p \in (SUBSET S) \X (SUBSET T) : f[p] = U
    <3>1. <<U \cap S, U \cap T>> \in (SUBSET S) \X (SUBSET T)
      OBVIOUS
    <3>2. f[<<U \cap S, U \cap T>>] = U
      BY <3>1
    <3> QED BY <3>1, <3>2, Zenon
  <2> QED BY <2>1, <2>2, <2>3, Zenon DEF Bijection, Injection, Surjection, IsInjective
<1>10. ExistsBijection((SUBSET S) \X (SUBSET T), SUBSET (S \cup T))
  BY <1>9, Zenon DEF ExistsBijection
<1> QED BY <1>7, <1>8, <1>10, FS_Bijection

\* The remainder is the number below m it is.
LEMMA ModExact ==
  ASSUME NEW q \in Nat, NEW m \in Nat, m > 0, NEW r \in Nat, r < m
  PROVE  (q * m + r) % m = r
  OBVIOUS

\* A multiple of p stays one modulo a multiple of p.
LEMMA ModMultiple ==
  ASSUME NEW f \in Nat, NEW p \in Nat, p > 0, NEW q \in Nat, q > 0
  PROVE  \E r \in Nat : (f * p) % (p * q) = p * r
<1> DEFINE d == f \div q
           r == f % q
<1>1. d \in Nat /\ r \in Nat /\ r < q /\ f = d * q + r
  OBVIOUS
<1> HIDE DEF d, r
<1>2. p * r \in Nat /\ p * q \in Nat /\ p * q > 0
  BY <1>1
<1>3. p * r < p * q
  BY <1>1
<1>4. f * p = d * (p * q) + p * r
  BY <1>1
<1>5. (f * p) % (p * q) = p * r
  <2>1. (d * (p * q) + p * r) % (p * q) = p * r
    BY <1>1, <1>2, <1>3, ModExact, Zenon
  <2> QED BY <1>4, <2>1, Zenon
<1> QED BY <1>1, <1>5, Zenon

\* The duration is exact below its cap, and is the cap where the exponential exceeds
\* it: an exponential that does not fit is reduced to a multiple of a power of two
\* larger than the cap, or is not positive.
LEMMA BackoffDuration ==
  ASSUME NEW n \in Nat
  PROVE  backoffDuration(n) = IF BackoffFactor * 2^n > BackoffCap THEN BackoffCap
                             ELSE BackoffFactor * 2^n
<1> DEFINE F == BackoffFactor
           C == BackoffCap
           P == 2^n
           H == 2^(Width - 1)
           M == 2^Width
           x == F * P
           w == x % M
           d == IF w >= H THEN w - M ELSE w
<1>1. backoffDuration(n) = IF d > C \/ d <= 0 THEN C ELSE d
  BY Zenon DEF backoffDuration, BinaryExponential
<1>2. F \in Nat /\ F > 0 /\ C \in Nat /\ C > 0 /\ Width \in Nat /\ Width > 0 /\ F * C < H
  BY ConnectorAssumption, BackoffAssumption
<1>3. P \in Nat /\ P > 0
  BY PowerType
<1>4. H \in Nat /\ H > 0
  <2>1. Width - 1 \in Nat
    BY <1>2
  <2> QED BY <2>1, PowerType, Zenon
<1>5. M = 2 * H
  <2>1. Width - 1 \in Nat /\ 1 \in Nat /\ (Width - 1) + 1 = Width
    BY <1>2
  <2>2. 2^1 = 2
    OBVIOUS
  <2>3. 2^((Width - 1) + 1) = 2^(Width - 1) * 2^1
    BY <2>1, PowerSum, Zenon
  <2>4. M = H * 2
    BY <2>1, <2>2, <2>3, Zenon
  <2> QED BY <1>4, <2>4
<1>6. n <= Width => \E r \in Nat : w = P * r
  <2> SUFFICES ASSUME n <= Width PROVE \E r \in Nat : w = P * r
    OBVIOUS
  <2>1. Width - n \in Nat /\ n + (Width - n) = Width
    BY <1>2
  <2>2. 2^(n + (Width - n)) = P * 2^(Width - n)
    BY <2>1, PowerSum, Zenon
  <2>3. M = P * 2^(Width - n)
    BY <2>1, <2>2, Zenon
  <2>4. 2^(Width - n) \in Nat /\ 2^(Width - n) > 0
    BY <2>1, PowerType, Zenon
  <2>5. \E r \in Nat : (F * P) % (P * 2^(Width - n)) = P * r
    BY <1>2, <1>3, <2>4, ModMultiple, Zenon
  <2> QED BY <2>3, <2>5, Zenon
<1>7. n > Width => w = 0
  <2> SUFFICES ASSUME n > Width PROVE w = 0
    OBVIOUS
  <2>1. n - Width \in Nat /\ Width + (n - Width) = n
    BY <1>2
  <2>2. 2^(Width + (n - Width)) = M * 2^(n - Width)
    BY <1>2, <2>1, PowerSum, Zenon
  <2>3. P = M * 2^(n - Width)
    BY <2>1, <2>2, Zenon
  <2> DEFINE k == 2^(n - Width)
  <2>4. k \in Nat /\ k > 0
    BY <2>1, PowerType, Zenon
  <2> HIDE DEF k, P, M, F, w, x
  <2>5. F * k \in Nat /\ F * P = (F * k) * M + 0
    BY <1>2, <1>4, <1>5, <2>3, <2>4 DEF k, M
  <2>6. M \in Nat /\ M > 0 /\ 0 \in Nat /\ 0 < M
    BY <1>4, <1>5
  <2>7. ((F * k) * M + 0) % M = 0
    BY <2>5, <2>6, ModExact, Zenon
  <2> QED BY <2>5, <2>7, Zenon DEF w, x
<1> HIDE DEF P, H, M, F, C
<1>8. x \in Nat /\ x > 0 /\ x >= P
  BY <1>2, <1>3
<1>9. w \in Nat /\ w < M
  BY <1>4, <1>5, <1>8
<1>10. CASE x < H
  <2>1. w = x
    BY <1>4, <1>5, <1>8, <1>10
  <2> HIDE DEF x, w
  <2>2. d = x
    BY <1>4, <1>8, <1>10, <2>1
  <2> HIDE DEF d
  <2>3. (IF d > C \/ d <= 0 THEN C ELSE d) = IF x > C THEN C ELSE x
    BY <1>2, <1>8, <2>2
  <2> QED BY <1>1, <2>3 DEF F, C, P, x
<1>11. CASE x >= H
  <2>1. P > C
    BY <1>2, <1>3, <1>4, <1>11
  <2>2. w = 0 \/ w >= P
    <3>1. CASE n <= Width
      <4>1. PICK r \in Nat : w = P * r
        BY <1>6, <3>1
      <4> HIDE DEF x, w
      <4> QED BY <1>3, <4>1
    <3>2. CASE n > Width
      BY <1>7, <3>2
    <3> QED BY <1>2, <3>1, <3>2
  <2> HIDE DEF x, w
  <2>3. d > C \/ d <= 0
    BY <1>2, <1>3, <1>4, <1>5, <1>9, <2>1, <2>2
  <2>4. x > C
    BY <1>2, <1>3, <1>8, <2>1
  <2> QED BY <1>1, <2>3, <2>4 DEF F, C, P, x
<1> QED BY <1>4, <1>8, <1>10, <1>11

\* The pause doubles with every attempt until it reaches its cap, and stays there when
\* the exponential overflows (connector.go:313-321), however often Connect tries, for every
\* factor and cap whose product fits into the width (BackoffAssumption).
THEOREM BackoffExactHolds == Spec => []BackoffExact
<1>1. Init => BackoffExact
  BY DEF Init, BackoffExact
<1>2. IInv /\ BackoffExact /\ [Next]_vars => BackoffExact'
  <2> SUFFICES ASSUME IInv, BackoffExact, [Next]_vars PROVE BackoffExact'
    OBVIOUS
  <2>1. CASE UNCHANGED <<attempt, delay>>
    BY <2>1, Zenon DEF BackoffExact
  <2>2. CASE Backoff /\ ~UNCHANGED <<attempt, delay>>
    <3>1. delay' = backoffDuration(attempt')
      BY <2>2, Zenon DEF Backoff, retry
    <3>2. attempt' = IF attempt < MaxAttempts THEN attempt + 1 ELSE attempt
      BY <2>2, Zenon DEF Backoff, retry
    <3>3. attempt \in Nat /\ MaxAttempts \in Nat /\ MaxAttempts > 0
      BY ConnectorAssumption DEF IInv, TypeOK
    <3>4. attempt' \in Nat /\ attempt' # 0
      BY <3>2, <3>3
    <3>5. delay' = IF BackoffFactor * 2^attempt' > BackoffCap THEN BackoffCap
                   ELSE BackoffFactor * 2^attempt'
      BY <3>1, <3>4, BackoffDuration, Zenon
    <3> QED BY <3>4, <3>5, Zenon DEF BackoffExact
  <2>3. ASSUME ~Backoff PROVE UNCHANGED <<attempt, delay>>
    BY <2>3, Zenon DEF Next, Connect, vars, cluster, retry, Expire, Calm, Elect, Learn, Fail, Attempt,
                Check, StoreGet, NextServer, Dial, LeaderAnswer, LeaderError, Redirect, Downgrade,
                ClientAnswer, ClientError
  <2> QED BY <2>1, <2>2, <2>3
<1> QED BY <1>1, <1>2, Invariant, PTL DEF Spec
-----------------------------------------------------------------------------
(* Connect implements LeaderSearch.                                        *)

\* The initial states are initial states of the search ...
LEMMA SearchInit == Init => Search!Init
  BY ConnectorAssumption DEF Init, Search!Init

\* ... a step of the cluster or of the caller is one of theirs ...
LEMMA SearchCluster ==
  ASSUME IInv, Expire \/ Calm \/ \E s \in Server : Elect(s) \/ Learn(s) \/ Fail(s)
  PROVE  [Search!Next]_(Search!vars)
<1>1. CASE Expire
  BY <1>1 DEF Expire, cluster, retry, Search!Next, Search!Expire, Search!vars
<1>2. CASE Calm
  BY <1>2 DEF Calm, retry, Search!vars
<1>3. ASSUME NEW s \in Server, Elect(s) PROVE [Search!Next]_(Search!vars)
  <2>1. led' \in SUBSET Server /\ led \subseteq led'
    BY <1>3 DEF Elect, IInv, TypeOK
  <2> QED BY <1>3, <2>1 DEF Elect, retry, Search!Next, Search!Lead, Search!vars
<1>4. ASSUME NEW s \in Server, Learn(s) \/ Fail(s) PROVE [Search!Next]_(Search!vars)
  BY <1>4 DEF Learn, Fail, retry, Search!vars
<1> QED BY <1>1, <1>2, <1>3, <1>4

\* ... and a step of Connect returns as the search may, or does nothing visible.
LEMMA SearchConnect == ASSUME IInv, Connect PROVE [Search!Next]_(Search!vars)
<1>1. CASE Backoff
  BY <1>1 DEF Backoff, cluster, retry, Search!Next, Search!GiveUp, Search!vars, IInv, TypeOK
<1>2. CASE Check
  BY <1>2 DEF Check, cluster, retry, Search!Next, Search!GiveUp, Search!Find, Search!vars,
              IInv, TypeOK, ProtocolInv, LedInv
<1>3. CASE Attempt \/ StoreGet \/ NextServer \/ Dial \/ ClientAnswer \/ ClientError
  BY <1>3 DEF Attempt, StoreGet, NextServer, Dial, ClientAnswer, ClientError, cluster, retry,
              Search!vars
<1>4. CASE LeaderAnswer \/ LeaderError
  BY <1>4 DEF LeaderAnswer, LeaderError, Redirect, Downgrade, cluster, retry, Search!vars
<1> QED BY <1>1, <1>2, <1>3, <1>4 DEF Connect

\* What Connect returns has believed to be the leader since the call began, it returns
\* once, it gives up only when it may, and it never reaches its panic, whatever the
\* cluster does meanwhile.
THEOREM Refinement == Spec => ImplementsSearch
<1>1. IInv /\ [Next]_vars => [Search!Next]_(Search!vars)
  <2>1. ASSUME UNCHANGED vars PROVE UNCHANGED Search!vars
    BY <2>1 DEF vars, cluster, retry, Search!vars
  <2> QED BY <2>1, SearchCluster, SearchConnect DEF Next
<1> QED BY <1>1, SearchInit, Invariant, PTL DEF Spec, ImplementsSearch, Search!Spec
=============================================================================
