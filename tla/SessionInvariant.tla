--------------------------- MODULE SessionInvariant ---------------------------
(***************************************************************************)
(* The inductive invariant behind the theorems about one connection, and the *)
(* steps around the calls over it: those of the server and the network, and  *)
(* of a caller that comes, connects, begins, or whose context is done.       *)
(***************************************************************************)
EXTENDS Session, TLAPS

\* The values of the variables that the argument is about.
ConnType == [open : BOOLEAN, mu : Caller \cup {NoCaller}, netErr : BOOLEAN,
             down : BOOLEAN, dead : BOOLEAN, prepared : BOOLEAN,
             tx : {0} \cup Op, wrote : SUBSET Op, failed : BOOLEAN]
Request  == [id : Op, type : DOMAIN Reply \cup {"interrupt"}]
Response == [id : Op, type : {"stmt", "result", "empty", "part", "last", "failure", "lost"}]
Thread   == [pc : {"idle", "open", "lock", "send", "recv", "rows", "more", "intLock", "intSend",
                   "intRecv", "panic"},
             op : {0} \cup Op, kind : DOMAIN Reply, dl : BOOLEAN, done : BOOLEAN,
             rows : {"none", "part", "last", "consumed", "failed", "torn"}, tries : 0..MaxTries]
Database == [tx : {"none", "open", "left"}, pending : SUBSET Op, durable : SUBSET Op,
             doubt : SUBSET Op]
Query    == [id : {0} \cup Op, left : 0..MaxParts]
Types ==
  /\ conn \in ConnType /\ pooled \in BOOLEAN
  /\ db \in Database
  /\ out \in Seq(Request) /\ in \in Seq(Response)
  /\ srv \in Query /\ ops \in 0..MaxOps
  /\ th \in [Caller -> Thread] /\ crossed \in BOOLEAN

\* Callers by what they do: those that hold the mutex, those that have rows, and
\* those that nobody else may use the connection beside.
Locked  == {"send", "recv", "intSend", "intRecv"}
Reading == {"rows", "more", "intLock", "intSend", "intRecv"}
Using   == Locked \cup Reading \cup {"panic"}

One == CHOOSE one \in Caller : TRUE

\* Who may be where.
CallerInv ==
  /\ \A t \in Caller :
       /\ conn.mu = t <=> th[t].pc \in Locked
       /\ th[t].pc # "idle" => th[t].op # 0
       /\ th[t].pc \in Reading => Reply[th[t].kind] = "rows"
       /\ th[t].pc \in Reading \cup {"panic", "open"} => pooled
       /\ th[t].pc # "idle" => IF pooled THEN t = One ELSE th[t].kind = "admin"
       /\ th[t].pc \in {"open", "lock", "send", "recv"} => th[t].rows = "none"
       /\ th[t].pc = "open" => ~conn.open
       /\ th[t].pc \in {"lock"} \cup Locked \cup Reading => conn.open
  /\ ~pooled => conn.open /\ conn.tx = 0

\* What a transaction means for the operation on it.
TxInv ==
  /\ ~conn.open => conn.tx = 0
  /\ \A t \in Caller : th[t].pc \notin {"idle", "panic"} =>
       /\ conn.tx # 0 => ~th[t].dl /\ th[t].kind # "begin"
       /\ conn.tx = 0 => th[t].kind \notin {"commit", "rollback"}
       /\ th[t].kind = "stmtClose" => ~th[t].dl

Quiet == out = <<>> /\ in = <<>> /\ srv = NoQuery

\* The responses to the request of t, of which in holds the next ones.
Answered(t) ==
  /\ out = <<>>
  /\ \A i \in DOMAIN in :
       /\ in[i].id = th[t].op
       /\ i # Len(in) => in[i].type = "part"
       /\ IF Reply[th[t].kind] = "rows" THEN in[i].type \in {"part", "last", "failure", "lost"}
          ELSE in[i].type \in {Reply[th[t].kind], "failure", "lost"}
  /\ srv # NoQuery => /\ srv.id = th[t].op /\ Reply[th[t].kind] = "rows"
                      /\ in # <<>> => in[Len(in)].type = "part"
  /\ srv = NoQuery /\ ~conn.down => in # <<>> /\ in[Len(in)].type # "part"

\* The request of t is on its way, or is answered.
Awaited(t) ==
  \/ out = <<[id |-> th[t].op, type |-> th[t].kind]>> /\ in = <<>> /\ srv = NoQuery
  \/ Answered(t)

\* The interrupt of t is on its way, or is answered.
Interrupted ==
  /\ \A i \in DOMAIN in : i # Len(in) => in[i].type # "empty"
  /\ out # <<>> => out[1].type = "interrupt" /\ (in # <<>> => in[Len(in)].type # "empty")
  /\ out = <<>> => srv = NoQuery /\ (conn.down \/ (in # <<>> /\ in[Len(in)].type = "empty"))

\* What is on the wire while t uses the connection.
Wired(t) ==
  /\ th[t].pc = "send" => Quiet \/ conn.dead
  /\ th[t].pc \in {"recv"} \cup Reading => ~conn.dead
  /\ th[t].pc \in Locked \cup Reading => ~conn.netErr
  /\ th[t].pc = "recv" => Awaited(t)
  /\ th[t].pc \in {"rows", "more", "intLock", "intSend"} =>
       IF th[t].rows = "part" THEN Answered(t) ELSE Quiet
  /\ th[t].pc = "more" => th[t].rows = "part"
  /\ th[t].pc \in Reading => th[t].rows # "none"
  /\ th[t].pc = "intRecv" => Interrupted
  /\ th[t].pc = "panic" => out = <<>>

WireInv ==
  /\ Len(out) <= 1
  /\ out # <<>> /\ out[1].type # "interrupt" => srv = NoQuery
  /\ conn.down => out = <<>> /\ srv = NoQuery
  /\ conn.dead => conn.down
  /\ ~conn.open => Quiet
  /\ srv # NoQuery => srv.id # 0
  /\ pooled /\ conn.netErr => conn.down
  /\ (\A t \in Caller : th[t].pc \notin Using) => Quiet \/ conn.netErr \/ conn.dead
  /\ \A t \in Caller : Wired(t)

\* Whether the server has a transaction open when the driver has none, or ends one; one
\* that the server has refused to end is left open.
DbInv ==
  pooled =>
    /\ db.tx = "open" /\ conn.tx = 0 =>
         \E t \in Caller : /\ th[t].pc = "recv" /\ th[t].kind = "begin"
                           /\ in # <<>> /\ in[1].type \in {"result", "lost"}
    /\ \A t \in Caller : th[t].pc = "recv" /\ th[t].kind \in {"commit", "rollback"}
                           /\ in # <<>> /\ in[1].type # "lost" => db.tx # "open"

IInv == Types /\ CallerInv /\ TxInv /\ WireInv /\ DbInv /\ ~crossed
-----------------------------------------------------------------------------
(* The beginning, and the facts that the steps share.                      *)

LEMMA IdleThread == Idle \in Thread /\ Idle.pc = "idle" /\ Idle.rows = "none"
BY SessionAssumption DEF Idle, Thread, Reply

LEMMA InitInv == Init => IInv
<1> SUFFICES ASSUME Init PROVE IInv
  OBVIOUS
<1> USE SessionAssumption DEF Init
<1>1. Types
  <2>1. conn \in ConnType
    BY DEF Fresh, ConnType
  <2>2. th \in [Caller -> Thread]
    BY IdleThread
  <2>3. srv \in Query /\ ops \in 0..MaxOps
    BY DEF NoQuery, Query
  <2>4. crossed \in BOOLEAN
    BY Zenon
  <2>5. /\ pooled \in BOOLEAN /\ out \in Seq(Request) /\ in \in Seq(Response)
        /\ db \in Database
    BY DEF Database
  <2> QED BY <2>1, <2>2, <2>3, <2>4, <2>5 DEF Types
<1>2. \A t \in Caller : th[t].pc = "idle"
  BY DEF Idle
<1> USE <1>2
<1>3. CallerInv
  BY DEF CallerInv, Fresh, Locked, Reading
<1>4. TxInv
  BY DEF TxInv, Fresh
<1>5. WireInv
  BY DEF WireInv, Wired, Quiet, Fresh, Locked, Reading, NoQuery
<1>6. DbInv
  BY DEF DbInv
<1> QED BY <1>1, <1>3, <1>4, <1>5, <1>6 DEF IInv

\* Nobody uses the connection beside t, if t uses it or has just found the mutex free.
LEMMA Exclusive ==
  ASSUME IInv, NEW t \in Caller,
         th[t].pc \in Using \/ (th[t].pc # "idle" /\ conn.mu = NoCaller)
  PROVE  \A s \in Caller \ {t} : th[s].pc \notin Using /\ (pooled => th[s].pc = "idle")
<1> SUFFICES ASSUME NEW s \in Caller, s # t
             PROVE  th[s].pc \notin Using /\ (pooled => th[s].pc = "idle")
  OBVIOUS
<1>1. CASE pooled
  BY <1>1 DEF IInv, CallerInv, Using, Locked, Reading
<1>2. CASE ~pooled
  <2> USE <1>2
  <2>1. th[t].pc \in Locked \/ conn.mu = NoCaller
    BY DEF IInv, CallerInv, Using
  <2>2. th[s].pc \notin Locked
    BY <2>1, SessionAssumption DEF IInv, CallerInv
  <2>3. th[s].pc \notin Reading \cup {"panic"}
    BY DEF IInv, CallerInv
  <2> QED BY <2>2, <2>3 DEF Using
<1> QED BY <1>1, <1>2

\* What the invariant says of the connection, of a caller that sends its request or waits
\* for the response, and of one that has rows.
LEMMA Facts ==
  ASSUME IInv
  PROVE  /\ conn \in ConnType /\ out \in Seq(Request) /\ in \in Seq(Response) /\ ops \in Nat
         /\ th \in [Caller -> Thread] /\ crossed \in BOOLEAN /\ ~crossed /\ Len(out) <= 1
         /\ conn.dead => conn.down
         /\ conn.down => out = <<>> /\ srv = NoQuery
         /\ pooled /\ conn.netErr => conn.down
         /\ out # <<>> /\ out[1].type # "interrupt" => srv = NoQuery
  BY DEF IInv, Types, WireInv

LEMMA CallFacts ==
  ASSUME IInv, NEW t \in Caller, th[t].pc \in {"send", "recv"}
  PROVE  /\ th[t] \in Thread /\ th[t].op # 0 /\ th[t].rows = "none" /\ conn.mu = t /\ ~conn.netErr
         /\ IF th[t].pc = "send" THEN Quiet \/ conn.dead ELSE ~conn.dead /\ Awaited(t)
<1>1. th[t] \in Thread
  BY Facts
<1>2. th[t].op # 0 /\ th[t].rows = "none" /\ conn.mu = t
  BY DEF IInv, CallerInv, Locked
<1>3. ~conn.netErr /\ IF th[t].pc = "send" THEN Quiet \/ conn.dead ELSE ~conn.dead /\ Awaited(t)
  BY DEF IInv, WireInv, Wired, Locked
<1> QED BY <1>1, <1>2, <1>3

LEMMA RowsFacts ==
  ASSUME IInv, NEW t \in Caller, th[t].pc \in Reading
  PROVE  /\ th[t] \in Thread /\ th[t].op # 0 /\ Reply[th[t].kind] = "rows" /\ th[t].rows # "none"
         /\ pooled /\ ~conn.netErr /\ ~conn.dead
         /\ th[t].pc \in {"intSend", "intRecv"} => conn.mu = t
         /\ th[t].pc = "more" => th[t].rows = "part"
         /\ IF th[t].pc = "intRecv" THEN Interrupted
            ELSE IF th[t].rows = "part" THEN Answered(t) ELSE Quiet
<1>1. th[t] \in Thread
  BY Facts
<1>2. /\ th[t].op # 0 /\ Reply[th[t].kind] = "rows" /\ pooled
      /\ th[t].pc \in {"intSend", "intRecv"} => conn.mu = t
  BY DEF IInv, CallerInv, Reading, Locked
<1>3. /\ th[t].rows # "none" /\ ~conn.netErr /\ ~conn.dead
      /\ th[t].pc = "more" => th[t].rows = "part"
      /\ IF th[t].pc = "intRecv" THEN Interrupted
         ELSE IF th[t].rows = "part" THEN Answered(t) ELSE Quiet
  BY DEF IInv, WireInv, Wired, Reading
<1> QED BY <1>1, <1>2, <1>3

\* The wire is for each caller what it was, if nothing that it depends on changes.
LEMMA WiredStays ==
  ASSUME NEW s \in Caller, Wired(s), UNCHANGED <<conn, out, in, srv>>,
         th'[s].pc = th[s].pc, th'[s].op = th[s].op, th'[s].kind = th[s].kind,
         th'[s].rows = th[s].rows
  PROVE  Wired(s)'
<1>1. Quiet' = Quiet /\ Interrupted' = Interrupted
  BY DEF Quiet, Interrupted
<1>2. Answered(s)' = Answered(s)
  BY DEF Answered
<1>3. Awaited(s)' = Awaited(s)
  BY <1>2 DEF Awaited
<1> QED BY <1>1, <1>2, <1>3 DEF Wired

LEMMA StutterKeeps ==
  ASSUME IInv, UNCHANGED vars
  PROVE  IInv'
<1>1. UNCHANGED <<pooled, conn, out, in, srv, db, th, ops, crossed>>
  BY DEF vars, wire, ghosts
<1> USE <1>1
<1>2. Types' /\ CallerInv' /\ TxInv' /\ DbInv'
  BY DEF IInv, Types, CallerInv, TxInv, DbInv
<1>3. WireInv'
  <2>1. \A s \in Caller : Wired(s)'
    BY WiredStays DEF IInv, WireInv
  <2> QED BY <2>1 DEF IInv, WireInv, Quiet
<1> QED BY <1>2, <1>3 DEF IInv

\* A sequence that is not empty, and one of a single element.
LEMMA SeqFacts ==
  ASSUME NEW S, NEW s \in Seq(S), s # <<>>
  PROVE  /\ Tail(s) \in Seq(S) /\ Head(s) = s[1] /\ Head(s) \in S /\ DOMAIN s = 1..Len(s)
         /\ Len(s) \in Nat \ {0} /\ 1 \in DOMAIN s /\ Len(s) \in DOMAIN s
         /\ Len(Tail(s)) = Len(s) - 1 /\ (Len(s) = 1 <=> Tail(s) = <<>>)
         /\ \A i \in DOMAIN Tail(s) : i + 1 \in DOMAIN s /\ Tail(s)[i] = s[i + 1]
<1>1. /\ Tail(s) \in Seq(S) /\ Head(s) = s[1] /\ Head(s) \in S /\ DOMAIN s = 1..Len(s)
      /\ Len(s) \in Nat \ {0} /\ Len(Tail(s)) = Len(s) - 1
  OBVIOUS
<1> USE <1>1
<1>2. Len(s) = 1 <=> Tail(s) = <<>>
  <2> DEFINE r == Tail(s)
  <2>1. r \in Seq(S) /\ Len(r) = Len(s) - 1
    OBVIOUS
  <2> HIDE DEF r
  <2>2. r # <<>> => Len(r) \in Nat \ {0}
    BY <2>1
  <2>3. r = <<>> => Len(r) = 0
    OBVIOUS
  <2>4. Len(s) = 1 <=> r = <<>>
    BY <2>1, <2>2, <2>3
  <2> QED BY <2>4 DEF r
<1>3. \A i \in DOMAIN Tail(s) : i + 1 \in DOMAIN s /\ Tail(s)[i] = s[i + 1]
  OBVIOUS
<1> QED BY <1>2, <1>3

-----------------------------------------------------------------------------
(* The counter, which nothing depends on.                                  *)

CountInv == breaks \in Nat

LEMMA CountKeeps ==
  ASSUME IInv, CountInv, [Next]_vars
  PROVE  CountInv'
<1> USE DEF CountInv
<1>1. CASE Serve
  BY <1>1 DEF Serve
<1>2. CASE Break
  BY <1>2 DEF Break, ghosts
<1>3. ASSUME NEW t \in Caller, Step(t) PROVE UNCHANGED breaks
  BY <1>3, Zenon DEF Step, Connect, Call, Send, SendError, Recv, RecvError, RowsNext, More, RowsClose,
     Interrupt, InterruptSend, InterruptRecv, InterruptError, ghosts
<1>4. ASSUME NEW t \in Caller, Operation(t) \/ CtxDone(t) PROVE UNCHANGED breaks
  BY <1>4, Zenon DEF Operation, PrepareContext, ExecContext, QueryContext, BeginTx, Commit, Rollback,
     StmtExecContext, StmtQueryContext, StmtClose, ClientRequest, Begin, CtxDone, ghosts
<1>5. ASSUME Stream \/ UNCHANGED vars PROVE UNCHANGED breaks
  BY <1>5 DEF Stream, ghosts, vars
<1> QED BY <1>1, <1>2, <1>3, <1>4, <1>5 DEF Next
-----------------------------------------------------------------------------
(* The steps before an operation uses the connection.                      *)

\* A caller that does not use the connection comes, or gives up.
LEMMA OutsideKeeps ==
  ASSUME IInv, NEW t \in Caller, th[t].pc \in {"idle", "open"},
         NEW new \in Thread, th' = [th EXCEPT ![t] = new], new.pc \in {"idle", "open", "lock"},
         new.pc # "idle" => /\ new.op # 0 /\ new.rows = "none"
                            /\ IF pooled THEN t = One ELSE new.kind = "admin"
                            /\ conn.tx # 0 => ~new.dl /\ new.kind # "begin"
                            /\ conn.tx = 0 => new.kind \notin {"commit", "rollback"}
                            /\ new.kind = "stmtClose" => ~new.dl,
         new.pc = "open" => pooled /\ ~conn.open, new.pc = "lock" => conn.open,
         ops' \in 0..MaxOps, UNCHANGED <<pooled, conn, out, in, srv, db, crossed>>
  PROVE  IInv'
<1>1. Types /\ CallerInv /\ TxInv /\ WireInv /\ DbInv /\ ~crossed
  BY DEF IInv
<1> USE <1>1
<1>2. /\ th' \in [Caller -> Thread] /\ th'[t] = new
      /\ \A s \in Caller \ {t} : th'[s] = th[s]
  BY DEF Types
<1> USE <1>2
<1>3. Types'
  BY DEF Types
<1>4. CallerInv'
  <2>1. new.pc \notin Locked \cup Reading \cup {"panic"} /\ conn.mu # t
    BY DEF CallerInv, Locked, Reading
  <2>2. ASSUME NEW s \in Caller
        PROVE  /\ conn.mu = s <=> th'[s].pc \in Locked
               /\ th'[s].pc # "idle" => th'[s].op # 0
               /\ th'[s].pc \in Reading => Reply[th'[s].kind] = "rows"
               /\ th'[s].pc \in Reading \cup {"panic", "open"} => pooled
               /\ th'[s].pc # "idle" => IF pooled THEN s = One ELSE th'[s].kind = "admin"
               /\ th'[s].pc \in {"open", "lock", "send", "recv"} => th'[s].rows = "none"
               /\ th'[s].pc = "open" => ~conn.open
               /\ th'[s].pc \in {"lock"} \cup Locked \cup Reading => conn.open
    <3>1. CASE s = t
      BY <2>1, <3>1
    <3>2. CASE s # t
      BY <3>2 DEF CallerInv
    <3> QED BY <3>1, <3>2
  <2> QED BY <2>2 DEF CallerInv
<1>5. TxInv'
  BY DEF TxInv
<1>6. WireInv'
  <2>1. th[t].pc \notin Using /\ new.pc \notin Using
    BY DEF Using, Locked, Reading
  <2>2. ASSUME NEW s \in Caller PROVE Wired(s)'
    <3>1. CASE s = t
      BY <2>1, <3>1 DEF Wired, Using, Locked, Reading
    <3>2. CASE s # t
      BY <3>2, WiredStays DEF WireInv
    <3> QED BY <3>1, <3>2
  <2>3. (\A s \in Caller : th'[s].pc \notin Using) => \A s \in Caller : th[s].pc \notin Using
    BY <2>1
  <2> QED BY <2>2, <2>3 DEF WireInv, Quiet
<1>7. DbInv'
  BY DEF DbInv
<1> QED BY <1>3, <1>4, <1>5, <1>6, <1>7 DEF IInv

LEMMA ConnectKeeps ==
  ASSUME IInv, NEW t \in Caller, Connect(t), UNCHANGED pooled
  PROVE  IInv'
<1>1. th[t].pc = "open" /\ UNCHANGED <<pooled, out, in, srv, db, ops, crossed>>
  BY DEF Connect, wire, ghosts
<1> USE <1>1
<1>2. /\ Types /\ CallerInv /\ TxInv /\ WireInv /\ DbInv /\ ~crossed /\ ops \in 0..MaxOps
      /\ th \in [Caller -> Thread] /\ th[t] \in Thread
  BY DEF IInv, Types
<1> USE <1>2
<1>3. CASE UNCHANGED conn /\ th' = [th EXCEPT ![t] = Idle]
  BY <1>3, IdleThread, OutsideKeeps, Zenon
<1>4. CASE conn' = Fresh /\ Goto(t, "lock")
  <2>1. /\ pooled /\ t = One /\ ~conn.open /\ conn.tx = 0 /\ Quiet
        /\ th[t].op # 0 /\ th[t].rows = "none" /\ th[t].kind \notin {"commit", "rollback"}
        /\ th[t].kind = "stmtClose" => ~th[t].dl
    BY DEF CallerInv, TxInv, WireInv
  <2> USE <2>1
  <2>2. \A s \in Caller \ {t} : th[s].pc = "idle"
    BY DEF CallerInv
  <2>3. /\ th' \in [Caller -> Thread] /\ th'[t].pc = "lock" /\ th'[t].op # 0 /\ th'[t].rows = "none"
        /\ th'[t].kind \notin {"commit", "rollback"} /\ (th'[t].kind = "stmtClose" => ~th'[t].dl)
        /\ \A s \in Caller \ {t} : th'[s].pc = "idle"
    BY <1>4, <2>2 DEF Goto, Thread
  <2> USE <2>3
  <2>4. /\ conn' \in ConnType /\ conn'.open /\ conn'.mu = NoCaller /\ ~conn'.netErr
        /\ ~conn'.down /\ ~conn'.dead /\ conn'.tx = 0
    BY <1>4 DEF Fresh, ConnType
  <2> USE <2>4
  <2>5. Types'
    BY DEF Types
  <2>6. CallerInv'
    BY SessionAssumption DEF CallerInv, Locked, Reading
  <2>7. TxInv'
    BY DEF TxInv
  <2>8. Quiet'
    BY DEF Quiet
  <2>9. WireInv'
    BY <2>8 DEF WireInv, Wired, Quiet, Locked, Reading
  <2>10. DbInv'
    <3>1. db.tx # "open"
      BY <2>2, Zenon DEF DbInv
    <3> QED BY <3>1, Zenon DEF DbInv
  <2> QED BY <2>5, <2>6, <2>7, <2>9, <2>10 DEF IInv
<1> QED BY <1>3, <1>4 DEF Connect
-----------------------------------------------------------------------------
(* The wire.                                                               *)

\* A sequence with an element more.
LEMMA AppendFacts ==
  ASSUME NEW S, NEW s \in Seq(S), NEW e \in S
  PROVE  /\ Append(s, e) \in Seq(S) /\ Append(s, e) # <<>> /\ Len(Append(s, e)) = Len(s) + 1
         /\ Append(s, e)[Len(s) + 1] = e /\ Len(s) \in Nat
         /\ DOMAIN Append(s, e) = 1..(Len(s) + 1) /\ DOMAIN s = 1..Len(s)
         /\ \A i \in DOMAIN s : Append(s, e)[i] = s[i]
         /\ s # <<>> => Len(s) # 0
         /\ s = <<>> => Len(Append(s, e)) = 1 /\ DOMAIN Append(s, e) = {1} /\ Append(s, e)[1] = e
<1>1. s # <<>> => Len(s) # 0
  OBVIOUS
<1>2. /\ Append(s, e) \in Seq(S) /\ Len(Append(s, e)) = Len(s) + 1
      /\ Append(s, e)[Len(s) + 1] = e /\ Len(s) \in Nat
      /\ DOMAIN Append(s, e) = 1..(Len(s) + 1) /\ DOMAIN s = 1..Len(s)
      /\ \A i \in DOMAIN s : Append(s, e)[i] = s[i]
  OBVIOUS
<1>3. Append(s, e) # <<>>
  BY <1>2
<1>4. s = <<>> => Len(s) = 0
  OBVIOUS
<1> QED BY <1>1, <1>2, <1>3, <1>4

\* A response that is not followed by others is the only one there is.
LEMMA LastResponse ==
  ASSUME IInv, NEW t \in Caller, in # <<>>, Answered(t), Head(in).type # "part"
  PROVE  Tail(in) = <<>> /\ srv = NoQuery /\ out = <<>>
<1>1. /\ Len(in) \in Nat \ {0} /\ Head(in) = in[1] /\ DOMAIN in = 1..Len(in)
      /\ Len(in) = 1 <=> Tail(in) = <<>>
  BY SeqFacts DEF IInv, Types
<1> USE <1>1
<1>2. Len(in) = 1
  BY DEF Answered
<1>3. Tail(in) = <<>>
  BY <1>2
<1> QED BY <1>2, <1>3 DEF Answered

\* The responses after the first one still answer the request.
LEMMA TailAnswers ==
  ASSUME IInv, NEW t \in Caller, Answered(t), in # <<>>, Head(in).type = "part", in' = Tail(in),
         th'[t].op = th[t].op, th'[t].kind = th[t].kind, conn'.down = conn.down,
         UNCHANGED <<out, srv>>
  PROVE  Answered(t)'
<1> DEFINE r == Tail(in)
<1>1. in \in Seq(Response)
  BY DEF IInv, Types
<1>2. /\ r \in Seq(Response) /\ Head(in) = in[1] /\ DOMAIN in = 1..Len(in) /\ Len(in) \in Nat \ {0}
      /\ Len(r) = Len(in) - 1 /\ (Len(in) = 1 <=> r = <<>>)
      /\ \A i \in DOMAIN r : i + 1 \in DOMAIN in /\ r[i] = in[i + 1]
  BY <1>1, SeqFacts
<1> USE <1>2
<1> HIDE DEF r
<1>3. DOMAIN r = 1..Len(r)
  OBVIOUS
<1>4. r # <<>> => r[Len(r)] = in[Len(in)]
  BY <1>3
<1>5. \A i \in DOMAIN r :
        /\ r[i].id = th[t].op
        /\ i # Len(r) => r[i].type = "part"
        /\ IF Reply[th[t].kind] = "rows" THEN r[i].type \in {"part", "last", "failure", "lost"}
           ELSE r[i].type \in {Reply[th[t].kind], "failure", "lost"}
  <2> SUFFICES ASSUME NEW i \in DOMAIN r
               PROVE  /\ r[i].id = th[t].op
                      /\ i # Len(r) => r[i].type = "part"
                      /\ IF Reply[th[t].kind] = "rows" THEN r[i].type \in {"part", "last", "failure", "lost"}
                         ELSE r[i].type \in {Reply[th[t].kind], "failure", "lost"}
    OBVIOUS
  <2>1. i + 1 \in DOMAIN in /\ r[i] = in[i + 1] /\ (i # Len(r) => i + 1 # Len(in))
    BY <1>3
  <2> QED BY <2>1 DEF Answered
<1>6. srv # NoQuery => /\ srv.id = th[t].op /\ Reply[th[t].kind] = "rows"
                       /\ r # <<>> => r[Len(r)].type = "part"
  BY <1>4 DEF Answered
<1>7. srv = NoQuery /\ ~conn.down => r # <<>> /\ r[Len(r)].type # "part"
  BY <1>4 DEF Answered
<1>8. in' = r
  BY DEF r
<1> QED BY <1>5, <1>6, <1>7, <1>8 DEF Answered
-----------------------------------------------------------------------------
(* The server and the network.                                             *)

\* What the steps of the server leave alone.
LEMMA ServerKeeps ==
  ASSUME IInv, UNCHANGED <<pooled, th, conn, ops, crossed>>,
         db' \in Database,
         out' \in Seq(Request), in' \in Seq(Response), srv' \in Query,
         WireInv', DbInv'
  PROVE  IInv'
<1>1. Types'
  BY DEF IInv, Types
<1>2. CallerInv' /\ TxInv'
  BY DEF IInv, CallerInv, TxInv
<1> QED BY <1>1, <1>2 DEF IInv

\* At most one caller is where a response can reach it.
LEMMA OneUser ==
  ASSUME IInv, NEW t \in Caller, NEW s \in Caller, th[t].pc \in Using, th[s].pc \in Using
  PROVE  s = t
BY Exclusive

LEMMA BreakKeeps ==
  ASSUME IInv, Break, UNCHANGED pooled
  PROVE  IInv'
<1>1. /\ conn.open /\ conn' = [conn EXCEPT !.down = TRUE] /\ out' = <<>> /\ srv' = NoQuery
      /\ in' \in {in, <<>>} /\ db' = Aborted /\ UNCHANGED <<pooled, th, ops, crossed>>
  BY DEF Break, ghosts
<1> USE <1>1
<1>2. Types /\ CallerInv /\ TxInv /\ WireInv /\ DbInv /\ ~crossed /\ conn \in ConnType
  BY DEF IInv, Types
<1> USE <1>2
<1>3. /\ conn' \in ConnType /\ conn'.open /\ conn'.down /\ conn'.mu = conn.mu /\ conn'.tx = conn.tx
      /\ conn'.netErr = conn.netErr /\ conn'.dead = conn.dead
  BY Zenon DEF ConnType
<1> USE <1>3
<1>4. db' \in Database /\ db'.tx # "open"
  BY Zenon DEF Types, Aborted, Database
<1>5. Types'
  <2>1. out' \in Seq(Request) /\ srv' \in Query
    BY SessionAssumption DEF NoQuery, Query
  <2>2. in' \in Seq(Response)
    <3>1. in \in Seq(Response) /\ <<>> \in Seq(Response)
      BY DEF Types
    <3> QED BY <3>1, Zenon
  <2> QED BY <1>4, <2>1, <2>2 DEF Types
<1>6. CallerInv' /\ TxInv'
  BY DEF CallerInv, TxInv
<1>7. Quiet => Quiet'
  BY DEF Quiet
<1>8. ASSUME NEW t \in Caller PROVE Wired(t)'
  <2>1. Wired(t)
    BY DEF WireInv
  <2>2. Awaited(t) => Answered(t)'
    BY DEF Awaited, Answered
  <2>3. Answered(t) => Awaited(t)
    BY DEF Awaited
  <2>4. Answered(t)' => Awaited(t)'
    BY DEF Awaited
  <2>5. Interrupted => Interrupted'
    BY DEF Interrupted
  <2> QED BY <1>7, <2>1, <2>2, <2>3, <2>4, <2>5 DEF Wired
<1>9. WireInv'
  BY <1>7, <1>8 DEF WireInv
<1>10. DbInv'
  BY <1>4 DEF DbInv
<1> QED BY <1>5, <1>6, <1>9, <1>10 DEF IInv

LEMMA StreamKeeps ==
  ASSUME IInv, Stream, UNCHANGED pooled
  PROVE  IInv'
<1>1. PICK type \in {"part", "last", "failure", "lost"} :
        /\ srv # NoQuery /\ ~conn.down /\ in' = Append(in, [id |-> srv.id, type |-> type])
        /\ IF type = "part" THEN srv.left > 0 /\ srv' = [srv EXCEPT !.left = @ - 1] ELSE srv' = NoQuery
        /\ UNCHANGED <<pooled, conn, out, db, th, ops, crossed>>
  BY DEF Stream, ghosts
<1> USE <1>1
<1> DEFINE r == [id |-> srv.id, type |-> type]
<1>2. /\ Types /\ CallerInv /\ WireInv /\ DbInv /\ in \in Seq(Response)
      /\ srv \in Query /\ srv.id # 0
  BY DEF IInv, Types, WireInv
<1> USE <1>2
<1>3. r \in Response /\ r.id = srv.id /\ r.type = type
  BY DEF Response, Query
<1> USE <1>3
<1>4. in' = Append(in, r)
  OBVIOUS
<1> HIDE DEF r
<1>5. /\ in' \in Seq(Response) /\ in' # <<>> /\ Len(in') = Len(in) + 1 /\ in'[Len(in) + 1] = r
      /\ Len(in) \in Nat /\ DOMAIN in' = 1..(Len(in) + 1) /\ DOMAIN in = 1..Len(in)
      /\ \A i \in DOMAIN in : in'[i] = in[i]
      /\ in # <<>> => Len(in) # 0
  BY <1>4, AppendFacts
<1> USE <1>5
<1>6. /\ srv' \in Query
      /\ srv' # NoQuery => srv'.id = srv.id /\ type = "part"
      /\ type = "part" => srv' # NoQuery
  <2>1. NoQuery \in Query /\ NoQuery.id = 0 /\ MaxParts \in Nat
    BY SessionAssumption DEF NoQuery, Query
  <2>2. CASE type = "part"
    BY <2>1, <2>2 DEF Query
  <2>3. CASE type # "part"
    BY <2>1, <2>3
  <2> QED BY <2>2, <2>3
<1> USE <1>6
<1>7. ASSUME NEW t \in Caller, Answered(t) PROVE Answered(t)' /\ Reply[th[t].kind] = "rows"
  <2>1. Reply[th[t].kind] = "rows" /\ srv.id = th[t].op /\ out = <<>>
    BY <1>7 DEF Answered
  <2>2. \A i \in DOMAIN in : in[i].id = th[t].op /\ in[i].type = "part"
    BY <1>7 DEF Answered
  <2>3. \A i \in DOMAIN in' : /\ in'[i].id = th[t].op
                              /\ i # Len(in') => in'[i].type = "part"
                              /\ in'[i].type \in {"part", "last", "failure", "lost"}
    <3> SUFFICES ASSUME NEW i \in DOMAIN in'
                 PROVE  /\ in'[i].id = th[t].op
                        /\ i # Len(in') => in'[i].type = "part"
                        /\ in'[i].type \in {"part", "last", "failure", "lost"}
      OBVIOUS
    <3>1. CASE i \in DOMAIN in
      BY <2>2, <3>1
    <3>2. CASE i = Len(in) + 1
      BY <2>1, <3>2
    <3> QED BY <3>1, <3>2
  <2>4. in'[Len(in')].type = type
    OBVIOUS
  <2> QED BY <2>1, <2>3, <2>4 DEF Answered
<1>8. Interrupted => Interrupted'
  <2> SUFFICES ASSUME Interrupted PROVE Interrupted'
    OBVIOUS
  <2>1. out # <<>> /\ out[1].type = "interrupt"
    BY DEF Interrupted
  <2>2. \A i \in DOMAIN in : in[i].type # "empty"
    BY <2>1 DEF Interrupted
  <2>3. \A i \in DOMAIN in' : i # Len(in') => in'[i].type # "empty"
    BY <2>2
  <2>4. in'[Len(in')].type # "empty"
    OBVIOUS
  <2> QED BY <2>1, <2>3, <2>4 DEF Interrupted
<1>9. ~Quiet
  BY DEF Quiet
<1> USE <1>9
<1>10. ASSUME NEW t \in Caller PROVE Wired(t)' /\ (th[t].pc = "recv" => Reply[th[t].kind] = "rows")
  <2>1. Wired(t)
    BY DEF WireInv
  <2>2. Awaited(t) => Answered(t)
    BY DEF Awaited
  <2>3. Answered(t)' => Awaited(t)'
    BY DEF Awaited
  <2>4. th[t].pc = "send" => conn.dead
    BY <2>1 DEF Wired
  <2> QED BY <1>7, <1>8, <2>1, <2>2, <2>3, <2>4 DEF Wired
<1>11. WireInv'
  BY <1>10 DEF WireInv
<1>12. DbInv'
  <2>1. \A t \in Caller : th[t].pc = "recv" => th[t].kind \notin {"begin", "commit", "rollback"}
    BY <1>10 DEF Reply
  <2> QED BY <2>1 DEF DbInv
<1> QED BY <1>11, <1>12, ServerKeeps DEF Types

\* What a request makes of the transaction on the connection.
LEMMA EffectFacts ==
  ASSUME IInv, NEW rq \in Request
  PROVE  /\ Effect(rq) \in Database
         /\ rq.type \in {"commit", "rollback"} => Effect(rq).tx = "none"
         /\ rq.type # "begin" => (Effect(rq).tx = "open" => db.tx = "open")
         /\ Aborted \in Database /\ Aborted.tx = "none"
         /\ LeftOpen \in Database /\ LeftOpen.tx = "left"
<1>1. db \in Database /\ rq.id \in Op
  BY DEF IInv, Types, Request
<1> USE <1>1
<1> DEFINE p == IF rq.type \in {"commit", "rollback"} THEN {}
                ELSE IF rq.type \in Writes /\ db.tx # "none" THEN db.pending \cup {rq.id} ELSE db.pending
           d == IF rq.type = "commit" THEN db.durable \cup db.pending
                ELSE IF rq.type \in Writes /\ db.tx = "none" THEN db.durable \cup {rq.id} ELSE db.durable
           o == IF rq.type \in {"commit", "rollback"} THEN "none"
                ELSE IF rq.type = "begin" THEN "open" ELSE db.tx
           q == IF rq.type \in Writes /\ db.tx = "left" THEN db.doubt \cup {rq.id} ELSE db.doubt
<1>2. p \in SUBSET Op /\ d \in SUBSET Op /\ q \in SUBSET Op
  BY DEF Database
<1>3. o \in {"none", "open", "left"}
  BY DEF Database
<1>4. Effect(rq) = [db EXCEPT !.tx = o, !.pending = p, !.durable = d, !.doubt = q]
  BY DEF Effect
<1>5. Effect(rq).tx = o
  BY <1>4 DEF Database
<1>6. /\ Aborted \in Database /\ Aborted.tx = "none"
      /\ LeftOpen \in Database /\ LeftOpen.tx = "left"
  BY Zenon DEF Aborted, LeftOpen, Database
<1>7. /\ rq.type \in {"commit", "rollback"} => o = "none"
      /\ rq.type # "begin" => (o = "open" => db.tx = "open")
  OBVIOUS
<1> HIDE DEF o, p, d, q
<1>8. Effect(rq) \in Database
  BY <1>2, <1>3, <1>4, Zenon DEF Database
<1> QED BY <1>5, <1>6, <1>7, <1>8

\* What the server does with a request: it answers an interrupt, answers another request
\* with one response, or begins to send rows.
Answers(rq, type) ==
  /\ in' = Append(in, [id |-> rq.id, type |-> type]) /\ srv' = NoQuery
  /\ rq.type = "interrupt" => type = "empty" /\ UNCHANGED db
  /\ rq.type # "interrupt" => type \in {"failure", "lost"} \/ (type = Reply[rq.type] /\ type # "rows")
  /\ db' \in {Effect(rq), db, Aborted, LeftOpen}
  /\ type = "failure" => db' \in {db, Aborted, LeftOpen}
  /\ rq.type \in {"commit", "rollback"} /\ type # "lost" =>
       db' \in {Effect(rq), Aborted, LeftOpen} \/ (UNCHANGED db /\ db.tx = "none")
Streams(rq) ==
  /\ rq.type # "interrupt" /\ srv = NoQuery /\ Reply[rq.type] = "rows" /\ UNCHANGED in
  /\ db' = Effect(rq) /\ \E n \in 0..MaxParts : srv' = [id |-> rq.id, left |-> n]

LEMMA RowsKind ==
  ASSUME NEW kind, Reply[kind] = "rows"
  PROVE  kind \notin {"begin", "commit", "rollback"}
BY DEF Reply

LEMMA ServeCases ==
  ASSUME IInv, Serve
  PROVE  \/ \E type \in {"stmt", "result", "empty", "failure", "lost"} : Answers(Head(out), type)
         \/ Streams(Head(out))
<1> DEFINE rq == Head(out)
           Answer(type) == in' = Append(in, [id |-> rq.id, type |-> type])
<1>1. rq \in Request /\ MaxParts \in Nat
  BY SeqFacts, SessionAssumption DEF IInv, Types, Serve
<1>2. rq.type # "interrupt" => Reply[rq.type] \in {"stmt", "result", "empty", "rows"}
  BY <1>1 DEF Request, Reply
<1>3. CASE rq.type = "interrupt"
  BY <1>3 DEF Serve, Answers
<1>4. CASE rq.type # "interrupt"
  <2> USE <1>4
  <2>1. srv = NoQuery
    BY DEF Serve
  <2> USE <2>1
  <2>2. CASE Reply[rq.type] # "rows" /\ Answer(Reply[rq.type]) /\ db' = Effect(rq) /\ UNCHANGED srv
    BY <1>2, <2>2 DEF Answers
  <2>3. CASE /\ Reply[rq.type] = "rows" /\ db' = Effect(rq) /\ UNCHANGED in
             /\ \E n \in 0..MaxParts : srv' = [id |-> rq.id, left |-> n]
    BY <1>1, <2>3 DEF Streams
  <2>4. CASE Answer("failure") /\ UNCHANGED srv /\ db' \in Refused(rq)
    BY <2>4 DEF Answers, Refused, Dropped
  <2>5. CASE Answer("lost") /\ UNCHANGED srv /\ db' \in {Effect(rq), db, Aborted}
    BY <2>5 DEF Answers
  <2> QED BY <2>2, <2>3, <2>4, <2>5 DEF Serve, Dropped
<1> QED BY <1>3, <1>4

\* Whose request it is that the server takes.
LEMMA RequestOf ==
  ASSUME IInv, out # <<>>, ~conn.down, NEW t \in Caller
  PROVE  /\ th[t].pc = "recv" => /\ out[1].id = th[t].op /\ out[1].type = th[t].kind
                                 /\ out[1].type # "interrupt" /\ in = <<>> /\ srv = NoQuery
         /\ th[t].pc = "intRecv" => /\ out[1].type = "interrupt"
                                    /\ \A i \in DOMAIN in : in[i].type # "empty"
         /\ th[t].pc \in Using => th[t].pc \in {"recv", "intRecv"}
         /\ th[t].pc \in {"recv", "intRecv"} => ~conn.netErr /\ ~conn.dead
<1>1. WireInv /\ in \in Seq(Response) /\ out \in Seq(Request) /\ th \in [Caller -> Thread]
  BY DEF IInv, Types
<1> USE <1>1
<1>2. Wired(t) /\ ~conn.dead
  BY DEF WireInv
<1> USE <1>2
<1>3. ~Quiet /\ ~Answered(t)
  BY DEF Quiet, Answered
<1>4. th[t].pc = "recv" => /\ out = <<[id |-> th[t].op, type |-> th[t].kind]>>
                           /\ in = <<>> /\ srv = NoQuery
  BY <1>3 DEF Wired, Awaited
<1>5. th[t].pc = "recv" => out[1].id = th[t].op /\ out[1].type = th[t].kind
  BY <1>4
<1>6. th[t].kind # "interrupt"
  BY DEF Thread, Reply
<1>7. th[t].pc = "intRecv" => out[1].type = "interrupt" /\ \A i \in DOMAIN in : in[i].type # "empty"
  BY DEF Wired, Interrupted
<1>8. th[t].pc \in Using => th[t].pc \in {"recv", "intRecv"}
  BY <1>3 DEF Wired, Using, Locked, Reading
<1>9. th[t].pc \in {"recv", "intRecv"} => ~conn.netErr
  BY DEF Wired, Locked
<1> QED BY <1>4, <1>5, <1>6, <1>7, <1>8, <1>9

LEMMA SomeoneWaits ==
  ASSUME IInv, out # <<>>, ~conn.down, pooled
  PROVE  \E t \in Caller : th[t].pc \in {"recv", "intRecv"}
<1>1. ~conn.netErr /\ ~conn.dead /\ ~Quiet
  BY DEF IInv, WireInv, Quiet
<1>2. \E t \in Caller : th[t].pc \in Using
  BY <1>1 DEF IInv, WireInv
<1> QED BY <1>2, RequestOf

\* The server begins to send the rows that t asked for.
LEMMA StreamAnswers ==
  ASSUME NEW t \in Caller, in = <<>>, out' = <<>>, srv' # NoQuery, srv'.id = th[t].op,
         Reply[th[t].kind] = "rows", UNCHANGED <<in, th>>
  PROVE  Answered(t)'
BY DEF Answered

LEMMA ServeFacts ==
  ASSUME IInv, Serve
  PROVE  /\ out # <<>> /\ ~conn.down /\ out' = <<>> /\ UNCHANGED <<conn, th, ops, crossed>>
         /\ Head(out) = out[1] /\ out[1] \in Request /\ out[1].id \in Op /\ out[1].id # 0
         /\ in \in Seq(Response)
<1>1. out # <<>> /\ ~conn.down /\ out' = Tail(out) /\ UNCHANGED <<conn, th, ops, crossed>>
  BY DEF Serve
<1>2. in \in Seq(Response) /\ out \in Seq(Request) /\ Len(out) <= 1
  BY DEF IInv, Types, WireInv
<1>3. Head(out) = out[1] /\ out[1] \in Request /\ out' = <<>>
  BY <1>1, <1>2, SeqFacts
<1>4. out[1].id \in Op /\ out[1].id # 0
  BY <1>3, SessionAssumption DEF Request, Op
<1> QED BY <1>1, <1>2, <1>3, <1>4

\* The wire after the server took a request, if what the one who waits needs is on it.
LEMMA ServeWire ==
  ASSUME IInv, Serve, UNCHANGED pooled, srv' # NoQuery => srv'.id # 0,
         \A t \in Caller : th[t].pc = "recv" => Answered(t)',
         \A t \in Caller : th[t].pc = "intRecv" => Interrupted'
  PROVE  WireInv'
<1>1. out # <<>> /\ ~conn.down /\ out' = <<>> /\ UNCHANGED <<conn, th>>
  BY ServeFacts
<1>2. WireInv
  BY DEF IInv
<1>3. ASSUME NEW t \in Caller
      PROVE  /\ th[t].pc \in Using => th[t].pc \in {"recv", "intRecv"}
             /\ th[t].pc \in {"recv", "intRecv"} => ~conn.netErr /\ ~conn.dead
  BY <1>1, RequestOf
<1>4. (\A t \in Caller : th[t].pc \notin Using) => conn.netErr \/ conn.dead
  BY <1>1, <1>2 DEF WireInv, Quiet
<1>5. ASSUME NEW t \in Caller PROVE Wired(t)'
  <2>1. Answered(t)' => Awaited(t)'
    BY DEF Awaited
  <2>2. Wired(t)
    BY <1>2 DEF WireInv
  <2> QED BY <1>1, <1>3, <2>1, <2>2 DEF Wired, Using, Locked, Reading
<1>6. conn.open
  BY <1>1, <1>2 DEF WireInv, Quiet
<1>7. Len(out') <= 1
  BY <1>1
<1> QED BY <1>1, <1>2, <1>4, <1>5, <1>6, <1>7 DEF WireInv

LEMMA AnswersKeep ==
  ASSUME IInv, Serve, UNCHANGED pooled, NEW rq, rq = out[1],
         NEW type \in {"stmt", "result", "empty", "failure", "lost"}, Answers(rq, type)
  PROVE  IInv'
<1>1. /\ out # <<>> /\ ~conn.down /\ out' = <<>> /\ UNCHANGED <<conn, th, ops, crossed>>
      /\ rq \in Request /\ rq.id \in Op /\ in \in Seq(Response)
  BY ServeFacts
<1>2. ASSUME NEW t \in Caller
      PROVE  /\ th[t].pc = "recv" => /\ rq.id = th[t].op /\ rq.type = th[t].kind
                                     /\ rq.type # "interrupt" /\ in = <<>>
             /\ th[t].pc = "intRecv" => /\ rq.type = "interrupt"
                                        /\ \A i \in DOMAIN in : in[i].type # "empty"
  BY <1>1, RequestOf
<1> DEFINE r == [id |-> rq.id, type |-> type]
<1>3. r \in Response /\ r.id = rq.id /\ r.type = type
  BY <1>1 DEF Response
<1>4. in' = Append(in, r) /\ srv' = NoQuery
  BY DEF Answers
<1> HIDE DEF r
<1>5. /\ in' \in Seq(Response) /\ in' # <<>> /\ Len(in') = Len(in) + 1 /\ in'[Len(in) + 1] = r
      /\ Len(in) \in Nat /\ DOMAIN in' = 1..(Len(in) + 1) /\ DOMAIN in = 1..Len(in)
      /\ \A i \in DOMAIN in : in'[i] = in[i]
  BY <1>1, <1>3, <1>4, AppendFacts
<1>6. in = <<>> => Len(in') = 1 /\ DOMAIN in' = {1} /\ in'[1] = r
  BY <1>1, <1>3, <1>4, AppendFacts
<1>7. ASSUME NEW t \in Caller, th[t].pc = "recv" PROVE Answered(t)'
  <2>1. /\ Len(in') = 1 /\ in'[1] = r /\ r.id = th[t].op /\ type # "part" /\ DOMAIN in' = {1}
    BY <1>2, <1>3, <1>6, <1>7
  <2>2. type \in {"failure", "lost"} \/ (type = Reply[th[t].kind] /\ type # "rows")
    BY <1>2, <1>7 DEF Answers
  <2>3. Reply[th[t].kind] = "rows" => type \in {"failure", "lost"}
    BY <2>2
  <2> QED BY <1>1, <1>3, <1>4, <2>1, <2>2, <2>3 DEF Answered
<1>8. ASSUME NEW t \in Caller, th[t].pc = "intRecv" PROVE Interrupted'
  <2>1. rq.type = "interrupt" /\ \A i \in DOMAIN in : in[i].type # "empty"
    BY <1>2, <1>8
  <2>2. \A i \in DOMAIN in' : i # Len(in') => in'[i].type # "empty"
    BY <1>5, <2>1
  <2>3. in'[Len(in')].type = "empty"
    BY <1>3, <1>5, <2>1 DEF Answers
  <2> QED BY <1>1, <1>4, <1>5, <2>2, <2>3 DEF Interrupted
<1>9. WireInv'
  BY <1>4, <1>7, <1>8, ServeWire
<1>10. /\ Effect(rq) \in Database
       /\ rq.type \in {"commit", "rollback"} => Effect(rq).tx = "none"
       /\ rq.type # "begin" => (Effect(rq).tx = "open" => db.tx = "open")
       /\ Aborted \in Database /\ Aborted.tx = "none"
       /\ LeftOpen \in Database /\ LeftOpen.tx = "left"
  BY <1>1, EffectFacts
<1>11. DbInv /\ CallerInv
  BY DEF IInv
<1>12. DbInv'
  <2> SUFFICES ASSUME pooled PROVE DbInv'
    BY DEF DbInv
  <2>1. PICK t \in Caller : th[t].pc \in {"recv", "intRecv"}
    BY <1>1, SomeoneWaits
  <2>2. \A s \in Caller : th[s].pc = "recv" => s = t
    BY <1>11, <2>1, OneUser DEF Using, Locked
  <2>3. CASE rq.type = "interrupt"
    <3>1. UNCHANGED db /\ th[t].pc # "recv"
      BY <1>2, <2>3 DEF Answers
    <3> QED BY <1>1, <1>11, <2>2, <3>1 DEF DbInv
  <2>4. CASE rq.type # "interrupt"
    <3>1. th[t].pc = "recv" /\ rq.type = th[t].kind /\ in = <<>>
      BY <1>2, <2>1, <2>4
    <3>2. in'[1].type = type
      BY <1>3, <1>6, <3>1
    <3>3. conn.tx = 0 => db.tx # "open"
      BY <1>11, <3>1 DEF DbInv
    <3>4. db'.tx = "open" /\ conn.tx = 0 => rq.type = "begin" /\ type \in {"result", "lost"}
      BY <1>10, <2>4, <3>3 DEF Answers, Reply
    <3>5. rq.type \in {"commit", "rollback"} /\ type # "lost" => db'.tx # "open"
      BY <1>10 DEF Answers
    <3> QED BY <1>1, <1>5, <2>2, <3>1, <3>2, <3>4, <3>5 DEF DbInv
  <2> QED BY <2>3, <2>4
<1>13. db' \in Database
  BY <1>10 DEF IInv, Types, Answers
<1>14. out' \in Seq(Request) /\ srv' \in Query
  BY <1>1, <1>4, SessionAssumption DEF NoQuery, Query
<1> QED BY <1>1, <1>5, <1>9, <1>12, <1>13, <1>14, ServerKeeps

LEMMA StreamsKeep ==
  ASSUME IInv, Serve, UNCHANGED pooled, NEW rq, rq = out[1], Streams(rq)
  PROVE  IInv'
<1>1. /\ out # <<>> /\ ~conn.down /\ out' = <<>> /\ UNCHANGED <<conn, th, ops, crossed>>
      /\ rq \in Request /\ rq.id # 0 /\ rq.id \in Op /\ in \in Seq(Response)
  BY ServeFacts
<1>2. PICK n \in 0..MaxParts : srv' = [id |-> rq.id, left |-> n]
  BY DEF Streams
<1>3. /\ rq.type # "interrupt" /\ Reply[rq.type] = "rows" /\ in' = in /\ db' = Effect(rq)
      /\ rq.type \notin {"begin", "commit", "rollback"}
  BY RowsKind, Zenon DEF Streams
<1>4. srv' \in Query /\ srv'.id = rq.id /\ srv' # NoQuery
  BY <1>1, <1>2 DEF NoQuery, Query
<1>5. ASSUME NEW t \in Caller
      PROVE  /\ th[t].pc = "recv" => rq.id = th[t].op /\ rq.type = th[t].kind /\ in = <<>>
             /\ th[t].pc # "intRecv"
             /\ pooled /\ th[t].pc \in {"recv", "intRecv"} => (conn.tx = 0 => db.tx # "open")
  <2>1. /\ th[t].pc = "recv" => rq.id = th[t].op /\ rq.type = th[t].kind /\ in = <<>>
        /\ th[t].pc # "intRecv"
    BY <1>1, <1>3, RequestOf
  <2> QED BY <2>1 DEF IInv, DbInv
<1>6. ASSUME NEW t \in Caller, th[t].pc = "recv" PROVE Answered(t)'
  BY <1>1, <1>3, <1>4, <1>5, <1>6, StreamAnswers
<1>7. WireInv'
  BY <1>1, <1>4, <1>5, <1>6, ServeWire, Zenon
<1>8. Effect(rq) \in Database /\ (Effect(rq).tx = "open" => db.tx = "open")
  BY <1>1, <1>3, EffectFacts
<1>9. pooled => \E t \in Caller : th[t].pc \in {"recv", "intRecv"}
  BY <1>1, SomeoneWaits
<1>10. DbInv'
  <2>1. \A t \in Caller : th[t].pc = "recv" => th[t].kind \notin {"commit", "rollback"}
    BY <1>3, <1>5
  <2>2. pooled /\ conn.tx = 0 => db'.tx # "open"
    BY <1>3, <1>5, <1>8, <1>9
  <2> QED BY <1>1, <2>1, <2>2 DEF DbInv
<1>11. out' \in Seq(Request)
  BY <1>1
<1> QED BY <1>1, <1>3, <1>4, <1>7, <1>8, <1>10, <1>11, ServerKeeps

LEMMA ServeKeeps ==
  ASSUME IInv, Serve, UNCHANGED pooled
  PROVE  IInv'
<1>1. Head(out) = out[1]
  BY ServeFacts
<1> QED BY <1>1, ServeCases, AnswersKeep, StreamsKeep
-----------------------------------------------------------------------------
(* The steps that begin an operation, and its deadline.                    *)

\* An operation begins, without a deadline if it is in a transaction.
LEMMA BeginKeeps ==
  ASSUME IInv, NEW t \in Caller, NEW kind, NEW dls \in SUBSET BOOLEAN, Begin(t, kind, dls),
         UNCHANGED pooled, conn.tx # 0 => dls \subseteq {FALSE} /\ kind # "begin",
         conn.tx = 0 => kind \notin {"commit", "rollback"},
         kind = "stmtClose" => dls \subseteq {FALSE}
  PROVE  IInv'
<1>1. PICK dl \in dls :
        th' = [th EXCEPT ![t] = [Idle EXCEPT !.pc = IF conn.open THEN "lock" ELSE "open",
                                             !.op = ops', !.kind = kind, !.dl = dl]]
  BY Zenon DEF Begin
<1> DEFINE pc  == IF conn.open THEN "lock" ELSE "open"
           new == [Idle EXCEPT !.pc = pc, !.op = ops', !.kind = kind, !.dl = dl]
<1>2. /\ th[t].pc = "idle" /\ kind \in Kinds /\ ops < MaxOps /\ ops' = ops + 1
      /\ pooled <=> kind # "admin"
      /\ pooled => t = One
      /\ UNCHANGED <<pooled, conn, out, in, srv, db, crossed>>
  BY DEF Begin, One, wire
<1> USE <1>2
<1>3. ops \in Nat /\ conn \in ConnType /\ (~pooled => conn.open)
  BY DEF IInv, Types, CallerInv
<1>4. MaxOps \in Nat /\ kind \in DOMAIN Reply
  BY SessionAssumption
<1>5. ops' \in 0..MaxOps /\ ops' \in Op /\ ops' # 0
  BY <1>3, <1>4 DEF Op
<1>6. /\ new \in Thread /\ new.pc = pc /\ new.op = ops' /\ new.kind = kind /\ new.dl = dl
      /\ new.rows = "none"
  BY <1>4, <1>5, IdleThread, Zenon DEF Thread
<1>7. th' = [th EXCEPT ![t] = new]
  BY <1>1
<1> HIDE DEF new
<1> QED BY <1>3, <1>5, <1>6, <1>7, OutsideKeeps, Zenon

LEMMA OperationKeeps ==
  ASSUME IInv, TxDeadlines \subseteq {FALSE}, NEW t \in Caller, Operation(t), UNCHANGED pooled
  PROVE  IInv'
<1>1. Ctx \in SUBSET BOOLEAN /\ (conn.tx # 0 => Ctx \subseteq {FALSE})
  BY SessionAssumption, Zenon DEF Ctx
<1>2. {FALSE} \in SUBSET BOOLEAN /\ ClientDeadlines \in SUBSET BOOLEAN
  BY SessionAssumption
<1>3. CASE \/ PrepareContext(t) \/ ExecContext(t) \/ QueryContext(t) \/ BeginTx(t)
           \/ StmtExecContext(t) \/ StmtQueryContext(t)
  <2>1. PICK kind \in {"prepare", "exec", "query", "begin", "stmtExec", "stmtQuery"} :
          Begin(t, kind, Ctx) /\ (kind = "begin" => conn.tx = 0)
    BY <1>3 DEF PrepareContext, ExecContext, QueryContext, BeginTx, StmtExecContext, StmtQueryContext
  <2> QED BY <1>1, <2>1, BeginKeeps, Zenon
<1>4. CASE Commit(t) \/ Rollback(t) \/ StmtClose(t)
  <2>1. PICK kind \in {"commit", "rollback", "stmtClose"} :
          Begin(t, kind, {FALSE}) /\ (kind # "stmtClose" => conn.tx # 0)
    BY <1>4 DEF Commit, Rollback, StmtClose
  <2> QED BY <1>2, <2>1, BeginKeeps, Zenon
<1>5. CASE ClientRequest(t)
  <2>1. Begin(t, "admin", ClientDeadlines)
    BY <1>5 DEF ClientRequest
  <2>2. ~pooled
    BY <2>1 DEF Begin
  <2>3. conn.tx = 0
    BY <2>2 DEF IInv, CallerInv
  <2> QED BY <1>2, <2>1, <2>3, BeginKeeps, Zenon
<1> QED BY <1>3, <1>4, <1>5 DEF Operation

LEMMA CtxDoneKeeps ==
  ASSUME IInv, NEW t \in Caller, CtxDone(t), UNCHANGED pooled
  PROVE  IInv'
<1>1. th' = [th EXCEPT ![t].done = TRUE] /\ UNCHANGED <<pooled, conn, out, in, srv, db, ops, crossed>>
  BY DEF CtxDone, wire, ghosts
<1> USE <1>1
<1>2. /\ Types /\ CallerInv /\ TxInv /\ WireInv /\ DbInv /\ ~crossed
      /\ th \in [Caller -> Thread] /\ th[t] \in Thread
  BY DEF IInv, Types
<1> USE <1>2
<1>3. /\ th' \in [Caller -> Thread]
      /\ \A s \in Caller : /\ th'[s].pc = th[s].pc /\ th'[s].op = th[s].op /\ th'[s].kind = th[s].kind
                            /\ th'[s].dl = th[s].dl /\ th'[s].rows = th[s].rows
  BY Zenon DEF Thread
<1> USE <1>3
<1>4. Types'
  BY DEF Types
<1>5. CallerInv' /\ TxInv' /\ DbInv'
  BY DEF CallerInv, TxInv, DbInv
<1>6. WireInv'
  <2>1. \A s \in Caller : Wired(s)'
    BY WiredStays DEF WireInv
  <2> QED BY <2>1 DEF WireInv, Quiet
<1> QED BY <1>4, <1>5, <1>6 DEF IInv
=============================================================================
