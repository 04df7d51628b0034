---------------------------- MODULE SessionTruth ----------------------------
(***************************************************************************)
(* What the driver reports of writes and transactions is what the database   *)
(* has done, for any number of operations, retries and lost connections.     *)
(***************************************************************************)
EXTENDS SessionProofs

\* What the user of a pooled connection is doing, and the response it will read next.
Doing == IF One \notin Caller \/ th[One].pc \in {"idle", "panic"} THEN "none" ELSE th[One].kind
Got   == IF One \in Caller /\ th[One].pc = "recv" /\ in # <<>> THEN in[1].type ELSE "none"

\* The operations since the transaction began, if there is one.
Span == conn.tx..ops

\* Operations are numbered, and a write belongs to one that has begun.
NumberInv ==
  /\ Doing # "none" => th[One].op = ops /\ ops \notin never
  /\ db.durable \subseteq 1..ops /\ db.pending \subseteq 1..ops /\ never \subseteq 1..ops
  /\ db.tx = "none" => db.pending = {}

\* What a transaction has written is nowhere else until it is committed.
SpanInv ==
  /\ conn.tx = 0 => conn.wrote = {} /\ (db.tx # "left" => db.pending = {})
  /\ conn.tx # 0 => conn.tx <= ops /\ db.pending \subseteq Span /\ never \cap Span = {}
  /\ conn.tx # 0 /\ Doing # "commit" => db.durable \cap Span = {}
  /\ Doing = "begin" => conn.tx = 0 /\ ops \notin db.durable
  /\ Doing \in {"commit", "rollback"} => conn.tx # 0
  /\ conn.failed => Doing \in {"none", "rollback"}

\* A transaction that the server has refused to end is nobody's, as soon as that is read.
LeftInv ==
  db.tx = "left" =>
    ~conn.down /\ (conn.tx = 0 \/ (Got = "failure" /\ Doing \in {"commit", "rollback"}))

\* A transaction in which nothing has failed is one that the server has too, until a
\* response says otherwise.
OpenInv ==
  conn.tx # 0 /\ ~conn.failed /\ ~conn.down =>
    \/ db.tx = "open" /\ conn.wrote \subseteq db.pending
    \/ Got \in {"lost", "failure"} /\ Doing # "stmtClose"
    \/ (Got # "none" /\ Doing \in {"commit", "rollback"})

\* What a result on its way to the user stands for.
ResultInv ==
  Got = "result" =>
    /\ Doing = "begin" => conn.down \/ db.tx = "open"
    /\ Doing = "commit" => conn.wrote \subseteq db.durable
    /\ Doing \in Writes => IF conn.tx = 0 THEN ops \in db.durable \cup db.doubt
                           ELSE conn.down \/ ops \in db.pending

TInv ==
  /\ TellsTruth
  /\ IF pooled THEN NumberInv /\ SpanInv /\ LeftInv /\ OpenInv /\ ResultInv ELSE sure = {} /\ never = {}
-----------------------------------------------------------------------------
(* The steps that change nothing of what was written or reported.          *)

LEMMA TruthBegins == Init => TInv
<1> SUFFICES ASSUME Init PROVE TInv
  OBVIOUS
<1> USE DEF Init
<1>1. TellsTruth
  BY DEF TellsTruth
<1>2. ASSUME pooled PROVE Doing = "none" /\ Got = "none"
  BY DEF Doing, Got, Idle
<1> QED BY <1>1, <1>2 DEF TInv, NumberInv, SpanInv, LeftInv, OpenInv, ResultInv, Fresh

\* The user of a pooled connection, and what the invariants say of it.
LEMMA User ==
  ASSUME IInv, TInv, pooled, NEW t \in Caller, th[t].pc # "idle"
  PROVE  /\ t = One /\ th[t] \in Thread /\ th[t].kind \in DOMAIN Reply
         /\ TellsTruth /\ NumberInv /\ SpanInv /\ LeftInv /\ OpenInv /\ ResultInv
         /\ th[t].pc # "panic" => Doing = th[t].kind /\ th[t].op = ops /\ ops \in Op /\ ops # 0
<1>1. t = One /\ th[t] \in Thread /\ th[t].op # 0
  BY DEF IInv, CallerInv, Types
<1>2. TellsTruth /\ NumberInv /\ SpanInv /\ LeftInv /\ OpenInv /\ ResultInv
  BY DEF TInv
<1>3. th[t].kind \in DOMAIN Reply /\ th[t].op \in {0} \cup Op
  BY <1>1 DEF Thread
<1>4. th[t].kind # "none"
  BY <1>3 DEF Reply
<1>5. th[t].pc # "panic" => Doing = th[t].kind /\ th[t].op = ops
  BY <1>1, <1>2, <1>4 DEF Doing, NumberInv
<1> QED BY <1>1, <1>2, <1>3, <1>5

\* Nothing is written, begun or reported.
Kept ==
  /\ UNCHANGED <<pooled, db, ops, sure, never>>
  /\ conn'.tx = conn.tx /\ conn'.wrote = conn.wrote /\ conn'.failed = conn.failed
  /\ conn'.down = conn.down

LEMMA StaysTrue ==
  ASSUME TInv, pooled, Kept, Doing' = Doing, Doing # "none" => th'[One].op = th[One].op,
         Got' = "result" => Got = "result", Got \in {"lost", "failure"} => Got' = Got,
         Doing \in {"commit", "rollback"} /\ Got # "none" => Got' # "none"
  PROVE  TInv'
<1>1. TellsTruth /\ NumberInv /\ SpanInv /\ LeftInv /\ OpenInv /\ ResultInv
  BY DEF TInv
<1>2. TellsTruth' /\ NumberInv' /\ SpanInv' /\ ResultInv'
  BY <1>1 DEF Kept, TellsTruth, NumberInv, SpanInv, ResultInv, Span
<1>3. OpenInv' /\ LeftInv'
  BY <1>1 DEF Kept, OpenInv, LeftInv
<1> QED BY <1>2, <1>3 DEF TInv, Kept

\* The user goes on, and has read no more than rows.
LEMMA GoesOnTrue ==
  ASSUME IInv, TInv, pooled, Kept, NEW t \in Caller, th[t].pc \notin {"idle", "panic"},
         th'[t].kind = th[t].kind, th'[t].op = th[t].op, th'[t].pc # "idle",
         th'[t].pc = "panic" \/ Got # "none" => Reply[th[t].kind] = "rows",
         Got' = "none", Got \notin {"lost", "failure"}
  PROVE  TInv'
<1>1. /\ t = One /\ TellsTruth /\ NumberInv /\ SpanInv /\ LeftInv /\ OpenInv /\ ResultInv
      /\ Doing = th[t].kind /\ th[t].kind \in DOMAIN Reply
  BY User
<1>2. Reply[th[t].kind] = "rows" => Doing \notin {"begin", "commit", "rollback"}
  BY <1>1 DEF Reply
<1>3. CASE th'[t].pc # "panic"
  <2>1. Doing' = Doing
    BY <1>1, <1>3 DEF Doing
  <2> QED BY <1>1, <1>2, <2>1, StaysTrue
<1>4. CASE th'[t].pc = "panic"
  <2>1. Doing' = "none" /\ Doing \notin {"begin", "commit", "rollback"}
    BY <1>1, <1>2, <1>4 DEF Doing
  <2>2. TellsTruth' /\ NumberInv' /\ SpanInv' /\ ResultInv'
    BY <1>1, <2>1 DEF Kept, TellsTruth, NumberInv, SpanInv, ResultInv, Span
  <2>3. OpenInv' /\ LeftInv'
    BY <1>1, <2>1 DEF Kept, OpenInv, LeftInv
  <2> QED BY <2>2, <2>3 DEF TInv, Kept
<1> QED BY <1>3, <1>4

\* An operation begins, and is the first of its number.
LEMMA BeginTrue ==
  ASSUME IInv, TInv, pooled, NEW t \in Caller, NEW kind, NEW dls, Begin(t, kind, dls),
         kind = "begin" => conn.tx = 0, kind \in {"commit", "rollback"} => conn.tx # 0,
         UNCHANGED pooled
  PROVE  TInv'
<1>1. /\ th[t].pc = "idle" /\ kind \in Kinds /\ ops' = ops + 1 /\ t = One
      /\ conn.failed => kind = "rollback"
      /\ UNCHANGED <<pooled, conn, db, in, sure, never>>
  BY DEF Begin, One, wire, told
<1>2. PICK dl \in dls :
        th' = [th EXCEPT ![t] = [Idle EXCEPT !.pc = IF conn.open THEN "lock" ELSE "open",
                                             !.op = ops', !.kind = kind, !.dl = dl]]
  BY Zenon DEF Begin
<1>3. th \in [Caller -> Thread] /\ ops \in Nat /\ conn \in ConnType /\ kind # "none"
  BY <1>1, Facts, SessionAssumption DEF Reply
<1>4. th'[One].pc \in {"lock", "open"} /\ th'[One].op = ops + 1 /\ th'[One].kind = kind
  BY <1>1, <1>2, <1>3 DEF Idle
<1>5. Doing = "none" /\ Got = "none" /\ Doing' = kind /\ Got' = "none"
  BY <1>1, <1>3, <1>4 DEF Doing, Got
<1>6. TellsTruth /\ NumberInv /\ SpanInv /\ LeftInv /\ OpenInv
  BY DEF TInv
<1>7. 1..ops \subseteq 1..(ops + 1) /\ ops + 1 \notin 1..ops
  BY <1>3
<1>8. NumberInv'
  BY <1>1, <1>4, <1>5, <1>6, <1>7 DEF NumberInv
<1>9. conn.tx # 0 => \A i \in Span' : i \in Span \/ i = ops + 1
  BY <1>1, <1>3 DEF Span, ConnType, Op
<1>10. Span \subseteq Span'
  BY <1>1, <1>3 DEF Span, ConnType, Op
<1>11. conn.tx # 0 => conn.tx <= ops + 1
  BY <1>3, <1>6 DEF SpanInv, ConnType, Op
<1>12. SpanInv'
  <2>1. conn.tx # 0 => never \cap Span' = {} /\ db.durable \cap Span' = {}
    BY <1>5, <1>6, <1>7, <1>9, Zenon DEF SpanInv, NumberInv
  <2>2. ops' \notin db.durable
    BY <1>1, <1>6, <1>7 DEF NumberInv
  <2> QED BY <1>1, <1>5, <1>6, <1>10, <1>11, <2>1, <2>2 DEF SpanInv
<1>13. OpenInv' /\ LeftInv'
  BY <1>1, <1>5, <1>6 DEF OpenInv, LeftInv
<1>14. ResultInv' /\ TellsTruth'
  BY <1>1, <1>5, <1>6 DEF ResultInv, TellsTruth
<1> QED BY <1>1, <1>8, <1>12, <1>13, <1>14 DEF TInv

LEMMA OperationTrue ==
  ASSUME IInv, TInv, pooled, NEW t \in Caller, Operation(t), UNCHANGED pooled
  PROVE  TInv'
<1>1. PICK kind, dls : /\ Begin(t, kind, dls)
                       /\ kind = "begin" => conn.tx = 0
                       /\ kind \in {"commit", "rollback"} => conn.tx # 0
  BY DEF Operation, PrepareContext, ExecContext, QueryContext, BeginTx, Commit, Rollback,
         StmtExecContext, StmtQueryContext, StmtClose, ClientRequest
<1> QED BY <1>1, BeginTrue

LEMMA ConnectTrue ==
  ASSUME IInv, TInv, pooled, NEW t \in Caller, Connect(t), UNCHANGED pooled
  PROVE  TInv'
<1>1. th[t].pc = "open" /\ UNCHANGED <<pooled, in, db, ops, sure, never>>
  BY DEF Connect, wire, ghosts, told
<1> USE <1>1
<1>2. /\ t = One /\ TellsTruth /\ NumberInv /\ SpanInv /\ LeftInv /\ th \in [Caller -> Thread] /\ th[t] \in Thread
      /\ Doing = th[t].kind
  BY User, Facts
<1> USE <1>2
<1>3. conn.tx = 0 /\ Got = "none" /\ Doing \notin {"commit", "rollback"}
  BY DEF IInv, CallerInv, TxInv, Got
<1> USE <1>3
<1>4. /\ conn'.tx = 0 /\ conn'.wrote = {} /\ (conn'.failed => conn.failed)
      /\ conn'.down => conn.down
      /\ th'[t].pc \in {"idle", "lock"}
      /\ th'[t].pc = "lock" => th'[t].kind = th[t].kind /\ th'[t].op = th[t].op
  BY DEF Connect, Goto, Fresh, Thread, SpanInv, Idle
<1>5. Doing' \in {Doing, "none"} /\ Got' = "none" /\ (Doing' # "none" => th'[One].op = th[One].op)
  BY <1>4 DEF Doing, Got
<1>6. NumberInv' /\ SpanInv' /\ LeftInv'
  BY <1>4, <1>5 DEF NumberInv, SpanInv, LeftInv
<1> QED BY <1>4, <1>5, <1>6 DEF TInv, OpenInv, ResultInv, TellsTruth

\* The steps of a caller that goes on.
LEMMA CallTrue ==
  ASSUME IInv, TInv, pooled, NEW t \in Caller, UNCHANGED pooled,
         (Call(t) /\ ~conn.netErr) \/ Interrupt(t)
  PROVE  TInv'
<1>1. PICK pc \in {"send", "intSend"} :
        /\ th[t].pc \in {"lock", "intLock"} /\ conn' = [conn EXCEPT !.mu = t] /\ Goto(t, pc)
        /\ UNCHANGED <<pooled, in, db, ops, sure, never>>
  BY DEF Call, Interrupt, wire, ghosts, told
<1>2. th \in [Caller -> Thread] /\ th[t] \in Thread /\ conn \in ConnType /\ t = One
  BY <1>1, User, Facts
<1>3. Kept
  BY <1>1, <1>2 DEF Kept, ConnType
<1>4. th'[t].pc = pc /\ th'[t].kind = th[t].kind /\ th'[t].op = th[t].op
  BY <1>1, <1>2 DEF Goto, Thread
<1>5. Got = "none" /\ Got' = "none"
  BY <1>1, <1>2, <1>4 DEF Got
<1> QED BY <1>1, <1>3, <1>4, <1>5, GoesOnTrue

LEMMA SendTrue ==
  ASSUME IInv, TInv, pooled, NEW t \in Caller, UNCHANGED pooled, Send(t) \/ InterruptSend(t)
  PROVE  TInv'
<1>1. PICK pc \in {"recv", "intRecv"} :
        /\ th[t].pc \in {"send", "intSend"} /\ Goto(t, pc) /\ (pc = "recv" => th[t].pc = "send")
        /\ ~conn.dead /\ UNCHANGED <<pooled, conn, in, db, ops, sure, never>>
  BY DEF Send, InterruptSend, ghosts, told
<1>2. th \in [Caller -> Thread] /\ th[t] \in Thread /\ t = One
  BY <1>1, User, Facts
<1>3. pc = "recv" => in = <<>>
  BY <1>1, CallFacts DEF Quiet
<1>4. th'[t].pc = pc /\ th'[t].kind = th[t].kind /\ th'[t].op = th[t].op
  BY <1>1, <1>2 DEF Goto, Thread
<1>5. Got = "none" /\ Got' = "none" /\ Kept
  BY <1>1, <1>2, <1>3, <1>4 DEF Got, Kept
<1> QED BY <1>1, <1>4, <1>5, GoesOnTrue

LEMMA RowsTrue ==
  ASSUME IInv, TInv, pooled, NEW t \in Caller, UNCHANGED pooled,
         RowsNext(t) \/ More(t) \/ (RowsClose(t) /\ Goto(t, "intLock") /\ UNCHANGED <<conn, db, told>>)
  PROVE  TInv'
<1>1. th[t].pc \in {"rows", "more"} /\ UNCHANGED <<pooled, conn, db, ops, sure, never>>
  BY DEF RowsNext, More, RowsClose, ghosts, told
<1>2. th \in [Caller -> Thread] /\ th[t] \in Thread /\ t = One /\ Reply[th[t].kind] = "rows"
  BY <1>1, User, Facts, RowsFacts DEF Reading
<1>3. /\ th'[t].pc \in {"rows", "more", "intLock", "panic"}
      /\ th'[t].kind = th[t].kind /\ th'[t].op = th[t].op
  <2>1. CASE RowsNext(t)
    BY <1>2, <2>1 DEF RowsNext, Goto, Thread
  <2>2. CASE More(t)
    BY <1>2, <2>2 DEF More, RowsFail, Thread
  <2>3. CASE Goto(t, "intLock")
    BY <1>2, <2>3 DEF Goto, Thread
  <2> QED BY <2>1, <2>2, <2>3
<1>4. Got = "none" /\ Got' = "none" /\ Kept
  BY <1>1, <1>2, <1>3 DEF Got, Kept
<1> QED BY <1>1, <1>2, <1>3, <1>4, GoesOnTrue

LEMMA RecvRowsTrue ==
  ASSUME IInv, TInv, pooled, NEW t \in Caller, UNCHANGED pooled, Recv(t),
         Decode(t, Head(in).type) = "ok", Reply[th[t].kind] = "rows"
  PROVE  TInv'
<1>1. /\ th[t].pc = "recv" /\ in # <<>> /\ conn' = Unlocked(conn)
      /\ th' = [th EXCEPT ![t].pc = "rows", ![t].rows = Head(in).type]
      /\ UNCHANGED <<pooled, db, ops, sure, never>>
  BY DEF Recv, told
<1>2. /\ th \in [Caller -> Thread] /\ th[t] \in Thread /\ t = One /\ conn \in ConnType
      /\ in \in Seq(Response)
  BY <1>1, User, Facts
<1>3. th'[t].pc = "rows" /\ th'[t].kind = th[t].kind /\ th'[t].op = th[t].op
  BY <1>1, <1>2 DEF Thread
<1>4. Head(in) = in[1]
  BY <1>1, <1>2, SeqFacts
<1>5. Got \notin {"lost", "failure"} /\ Got' = "none"
  BY <1>1, <1>2, <1>3, <1>4 DEF Got, Decode
<1>6. Kept
  BY <1>1, <1>2 DEF Kept, Unlocked, ConnType
<1> QED BY <1>1, <1>3, <1>5, <1>6, GoesOnTrue, Zenon

LEMMA SameTrue ==
  ASSUME IInv, TInv, pooled, NEW t \in Caller, UNCHANGED pooled,
         CtxDone(t) \/ (InterruptRecv(t) /\ Head(in).type # "empty")
  PROVE  TInv'
<1>1. th[t].pc \notin {"idle", "panic"} /\ UNCHANGED <<pooled, conn, db, ops, sure, never>>
  BY DEF CtxDone, InterruptRecv, ghosts, told
<1>2. th \in [Caller -> Thread] /\ th[t] \in Thread /\ t = One
  BY <1>1, User, Facts
<1>3. th'[t].pc = th[t].pc /\ th'[t].kind = th[t].kind /\ th'[t].op = th[t].op
  BY <1>2 DEF CtxDone, InterruptRecv, Thread
<1>4. th[t].pc = "recv" => UNCHANGED in
  BY DEF CtxDone, InterruptRecv, wire
<1>5. Doing' = Doing /\ Got' = Got /\ Kept
  BY <1>1, <1>2, <1>3, <1>4 DEF Doing, Got, Kept
<1> QED BY <1>2, <1>3, <1>5, StaysTrue, Zenon
-----------------------------------------------------------------------------
(* The server and the network.                                             *)

LEMMA StreamTrue ==
  ASSUME IInv, TInv, pooled, UNCHANGED pooled, Stream
  PROVE  TInv'
<1>1. PICK type \in {"part", "last", "failure", "lost"} :
        /\ in' = Append(in, [id |-> srv.id, type |-> type]) /\ srv # NoQuery
        /\ UNCHANGED <<pooled, conn, db, th, ops, sure, never>>
  BY DEF Stream, ghosts, told
<1> DEFINE r == [id |-> srv.id, type |-> type]
<1>2. in \in Seq(Response) /\ r \in Response /\ r.type = type
  <2>1. in \in Seq(Response) /\ srv.id \in Op
    BY <1>1 DEF IInv, Types, WireInv, Query
  <2> QED BY <2>1 DEF Response
<1>3. in' = Append(in, r)
  BY <1>1
<1> HIDE DEF r
<1>4. in' # <<>> /\ (in = <<>> => in'[1] = r) /\ (in # <<>> => in'[1] = in[1])
  <2>1. in # <<>> => 1 \in DOMAIN in
    BY <1>2, SeqFacts
  <2> QED BY <1>2, <1>3, <2>1, AppendFacts
<1>5. Doing' = Doing /\ Kept
  BY <1>1 DEF Doing, Kept
<1>6. /\ Got' = "result" => Got = "result"
      /\ Got # "none" => Got' = Got
  BY <1>1, <1>2, <1>4 DEF Got
<1> QED BY <1>1, <1>5, <1>6, StaysTrue

LEMMA BreakTrue ==
  ASSUME IInv, TInv, pooled, UNCHANGED pooled, Break
  PROVE  TInv'
<1>1. /\ conn' = [conn EXCEPT !.down = TRUE] /\ in' \in {in, <<>>} /\ db' = Aborted
      /\ UNCHANGED <<pooled, th, ops, sure, never>>
  BY DEF Break, ghosts, told
<1>2. conn \in ConnType /\ db \in Database
  BY DEF IInv, Types
<1>3. /\ conn'.down /\ conn'.tx = conn.tx /\ conn'.wrote = conn.wrote /\ conn'.failed = conn.failed
  BY <1>1, <1>2 DEF ConnType
<1>4. db'.durable = db.durable /\ db'.doubt = db.doubt /\ db'.pending = {} /\ db'.tx = "none"
  BY <1>1, <1>2 DEF Aborted, Database
<1>5. Doing' = Doing /\ Got' \in {Got, "none"}
  BY <1>1 DEF Doing, Got
<1>6. TellsTruth /\ NumberInv /\ SpanInv /\ ResultInv
  BY DEF TInv
<1>7. TellsTruth' /\ NumberInv' /\ SpanInv'
  BY <1>1, <1>3, <1>4, <1>5, <1>6 DEF TellsTruth, NumberInv, SpanInv, Span
<1>8. OpenInv' /\ LeftInv' /\ ResultInv'
  BY <1>1, <1>3, <1>4, <1>5, <1>6 DEF OpenInv, LeftInv, ResultInv
<1> QED BY <1>1, <1>7, <1>8 DEF TInv

\* What the server makes of the request of a user, and of the database.
Handles(rq, type) ==
  \/ /\ type = Reply[rq.type] \/ type = "lost"
     /\ Sensible(rq) /\ db' = Effect(rq)
  \/ type = "lost" /\ db' \in Dropped(rq)
  \/ type = "failure" /\ db' \in Refused(rq)

LEMMA ServeTrueCases ==
  ASSUME IInv, Serve, Head(out).type # "interrupt"
  PROVE  \/ \E type : /\ in' = Append(in, [id |-> Head(out).id, type |-> type]) /\ type # "rows"
                      /\ Handles(Head(out), type)
         \/ Reply[Head(out).type] = "rows" /\ db' = Effect(Head(out)) /\ UNCHANGED in
<1> DEFINE rq == Head(out)
           Answer(type) == in' = Append(in, [id |-> rq.id, type |-> type])
<1>1. \/ Sensible(rq) /\ Reply[rq.type] # "rows" /\ Answer(Reply[rq.type]) /\ db' = Effect(rq)
      \/ Reply[rq.type] = "rows" /\ db' = Effect(rq) /\ UNCHANGED in
      \/ Answer("failure") /\ db' \in Refused(rq)
      \/ Answer("lost") /\ ((Sensible(rq) /\ db' = Effect(rq)) \/ db' \in Dropped(rq))
  BY DEF Serve
<1> HIDE DEF rq
<1>2. CASE Sensible(rq) /\ Reply[rq.type] # "rows" /\ Answer(Reply[rq.type]) /\ db' = Effect(rq)
  BY <1>2, Zenon DEF Handles, rq
<1>3. CASE Answer("failure") /\ db' \in Refused(rq)
  BY <1>3, Zenon DEF Handles, rq
<1>4. CASE Answer("lost") /\ ((Sensible(rq) /\ db' = Effect(rq)) \/ db' \in Dropped(rq))
  BY <1>4, Zenon DEF Handles, rq
<1> QED BY <1>1, <1>2, <1>3, <1>4, Zenon DEF rq

\* The fields of the database after a request.
LEMMA EffectFields ==
  ASSUME IInv, NEW rq
  PROVE  /\ Effect(rq).tx = IF rq.type \in {"commit", "rollback"} THEN "none"
                            ELSE IF rq.type = "begin" THEN "open" ELSE db.tx
         /\ Effect(rq).pending = IF rq.type \in {"commit", "rollback"} THEN {}
                                 ELSE IF rq.type \in Writes /\ db.tx # "none" THEN db.pending \cup {rq.id}
                                 ELSE db.pending
         /\ Effect(rq).durable = IF rq.type = "commit" THEN db.durable \cup db.pending
                                 ELSE IF rq.type \in Writes /\ db.tx = "none" THEN db.durable \cup {rq.id}
                                 ELSE db.durable
         /\ Effect(rq).doubt = IF rq.type \in Writes /\ db.tx = "left" THEN db.doubt \cup {rq.id}
                               ELSE db.doubt
         /\ Aborted.tx = "none" /\ Aborted.pending = {} /\ Aborted.durable = db.durable
         /\ Aborted.doubt = db.doubt
         /\ LeftOpen.tx = "left" /\ LeftOpen.pending = db.pending /\ LeftOpen.durable = db.durable
         /\ LeftOpen.doubt = db.doubt
<1>1. db \in Database
  BY DEF IInv, Types
<1> QED BY <1>1, Zenon DEF Effect, Aborted, LeftOpen, Database

\* The request of the user is answered with type.
LEMMA HandledTrue ==
  ASSUME IInv, TInv, pooled, ~conn.down, in = <<>>, NEW rq, NEW type, rq.type = Doing, rq.id = ops,
         Doing # "none", ops \in Op, Got = "none", Got' = type, type # "none", Handles(rq, type),
         Doing' = Doing, th'[One].op = th[One].op, UNCHANGED <<pooled, conn, ops, sure, never>>
  PROVE  TInv'
<1>1. TellsTruth /\ NumberInv /\ SpanInv /\ LeftInv /\ OpenInv
  BY DEF TInv
<1> USE <1>1
<1>2. /\ (db.tx = "open" /\ conn.wrote \subseteq db.pending) \/ conn.tx = 0 \/ conn.failed
      /\ conn.tx = 0 => db.tx # "open"
      /\ conn.tx # 0 => db.tx # "left"
      /\ db.tx \in {"none", "open", "left"}
  BY DEF OpenInv, LeftInv, IInv, DbInv, Types, Database
<1> USE <1>2
<1>3. CASE db' = db /\ type # "result"
  <2>1. TellsTruth' /\ NumberInv' /\ SpanInv'
    BY <1>3 DEF TellsTruth, NumberInv, SpanInv, Span
  <2>2. OpenInv' /\ LeftInv' /\ ResultInv'
    BY <1>3 DEF OpenInv, LeftInv, ResultInv
  <2> QED BY <2>1, <2>2 DEF TInv
<1>4. CASE db' = Aborted /\ type \in {"lost", "failure"} /\ Doing # "stmtClose"
  <2>1. db'.durable = db.durable /\ db'.doubt = db.doubt /\ db'.pending = {} /\ db'.tx = "none"
    BY <1>4, EffectFields, Zenon
  <2>2. TellsTruth' /\ NumberInv' /\ SpanInv'
    BY <2>1 DEF TellsTruth, NumberInv, SpanInv, Span
  <2>3. OpenInv' /\ LeftInv' /\ ResultInv'
    BY <1>4, <2>1 DEF OpenInv, LeftInv, ResultInv
  <2> QED BY <2>2, <2>3 DEF TInv
<1>5. CASE db' = LeftOpen /\ type = "failure" /\ Doing \in {"commit", "rollback"}
  <2>1. db'.durable = db.durable /\ db'.doubt = db.doubt /\ db'.pending = db.pending /\ db'.tx = "left"
    BY <1>5, EffectFields, Zenon
  <2>2. TellsTruth' /\ NumberInv' /\ SpanInv'
    BY <1>5, <2>1 DEF TellsTruth, NumberInv, SpanInv, Span
  <2>3. OpenInv' /\ LeftInv' /\ ResultInv'
    BY <1>5, <2>1 DEF OpenInv, LeftInv, ResultInv
  <2> QED BY <2>2, <2>3 DEF TInv
<1>6. CASE Sensible(rq) /\ db' = Effect(rq)
  <2>1. /\ db'.tx = IF Doing \in {"commit", "rollback"} THEN "none"
                    ELSE IF Doing = "begin" THEN "open" ELSE db.tx
        /\ db'.pending = IF Doing \in {"commit", "rollback"} THEN {}
                         ELSE IF Doing \in Writes /\ db.tx # "none" THEN db.pending \cup {ops} ELSE db.pending
        /\ db'.durable = IF Doing = "commit" THEN db.durable \cup db.pending
                         ELSE IF Doing \in Writes /\ db.tx = "none" THEN db.durable \cup {ops} ELSE db.durable
        /\ db'.doubt = IF Doing \in Writes /\ db.tx = "left" THEN db.doubt \cup {ops} ELSE db.doubt
    BY <1>6, EffectFields, Zenon
  <2>2. Doing = "begin" => db.tx = "none"
    BY <1>6 DEF Sensible
  <2>3. ops \in 1..ops /\ (conn.tx # 0 => ops \in Span)
    BY DEF SpanInv, Span, IInv, Types, ConnType, Op
  <2>4. CASE Doing = "begin"
    <3>1. /\ db'.tx = "open" /\ db'.pending = {} /\ db'.durable = db.durable /\ conn.tx = 0
          /\ db'.doubt = db.doubt
      BY <2>1, <2>2, <2>4 DEF SpanInv, NumberInv, Writes
    <3>2. TellsTruth' /\ NumberInv' /\ SpanInv'
      BY <2>4, <3>1 DEF TellsTruth, NumberInv, SpanInv, Span
    <3>3. OpenInv' /\ LeftInv' /\ ResultInv'
      BY <2>4, <3>1 DEF OpenInv, LeftInv, ResultInv, Writes
    <3> QED BY <3>2, <3>3 DEF TInv
  <2>5. CASE Doing = "commit"
    <3>1. /\ db'.tx = "none" /\ db'.pending = {} /\ db'.durable = db.durable \cup db.pending
          /\ db'.doubt = db.doubt /\ conn.tx # 0 /\ ~conn.failed
      BY <2>1, <2>5 DEF SpanInv, Writes
    <3>2. db.pending \cap never = {}
      BY <3>1, Zenon DEF SpanInv
    <3>3. TellsTruth' /\ NumberInv' /\ SpanInv'
      BY <2>5, <3>1, <3>2 DEF TellsTruth, NumberInv, SpanInv, Span
    <3>4. OpenInv' /\ LeftInv' /\ ResultInv'
      BY <2>5, <3>1 DEF OpenInv, LeftInv, ResultInv, Writes
    <3> QED BY <3>3, <3>4 DEF TInv
  <2>6. CASE Doing = "rollback"
    <3>1. db'.tx = "none" /\ db'.pending = {} /\ db'.durable = db.durable /\ db'.doubt = db.doubt
      BY <2>1, <2>6 DEF Writes
    <3>2. TellsTruth' /\ NumberInv' /\ SpanInv'
      BY <2>6, <3>1 DEF TellsTruth, NumberInv, SpanInv, Span
    <3>3. OpenInv' /\ LeftInv' /\ ResultInv'
      BY <2>6, <3>1 DEF OpenInv, LeftInv, ResultInv, Writes
    <3> QED BY <3>2, <3>3 DEF TInv
  <2>7. CASE Doing \in Writes /\ conn.tx = 0
    <3>1. /\ db'.tx = db.tx /\ db.tx \in {"none", "left"}
          /\ db.tx = "none" => /\ db'.pending = db.pending /\ db'.durable = db.durable \cup {ops}
                               /\ db'.doubt = db.doubt
          /\ db.tx = "left" => /\ db'.pending = db.pending \cup {ops} /\ db'.durable = db.durable
                               /\ db'.doubt = db.doubt \cup {ops}
      BY <2>1, <2>7 DEF Writes
    <3>2. TellsTruth' /\ NumberInv' /\ SpanInv'
      BY <2>3, <2>7, <3>1 DEF TellsTruth, NumberInv, SpanInv, Span, Writes
    <3>3. OpenInv' /\ LeftInv' /\ ResultInv'
      BY <2>7, <3>1 DEF OpenInv, LeftInv, ResultInv, Writes
    <3> QED BY <3>2, <3>3 DEF TInv
  <2>8. CASE Doing \in Writes /\ conn.tx # 0
    <3>1. ~conn.failed
      BY <2>8 DEF SpanInv, Writes
    <3>2. /\ db'.tx = "open" /\ db'.pending = db.pending \cup {ops} /\ db'.durable = db.durable
          /\ db'.doubt = db.doubt
      BY <2>1, <2>8, <3>1 DEF Writes
    <3>3. TellsTruth' /\ NumberInv' /\ SpanInv'
      BY <2>3, <2>8, <3>2 DEF TellsTruth, NumberInv, SpanInv, Span, Writes
    <3>4. OpenInv' /\ LeftInv' /\ ResultInv'
      BY <2>8, <3>1, <3>2 DEF OpenInv, LeftInv, ResultInv, Writes
    <3> QED BY <3>3, <3>4 DEF TInv
  <2>9. CASE Doing \notin {"begin", "commit", "rollback"} \cup Writes
    <3>1. /\ db'.tx = db.tx /\ db'.pending = db.pending /\ db'.durable = db.durable
          /\ db'.doubt = db.doubt
      BY <2>1, <2>9
    <3>2. TellsTruth' /\ NumberInv' /\ SpanInv'
      BY <2>9, <3>1 DEF TellsTruth, NumberInv, SpanInv, Span
    <3>3. OpenInv' /\ LeftInv' /\ ResultInv'
      BY <2>9, <3>1 DEF OpenInv, LeftInv, ResultInv
    <3> QED BY <3>2, <3>3 DEF TInv
  <2> QED BY <2>4, <2>5, <2>6, <2>7, <2>8, <2>9
<1> QED BY <1>3, <1>4, <1>6, <1>5 DEF Handles, Dropped, Refused

LEMMA ServeTrue ==
  ASSUME IInv, TInv, pooled, UNCHANGED pooled, Serve
  PROVE  TInv'
<1> DEFINE rq == Head(out)
<1>1. out # <<>> /\ ~conn.down /\ UNCHANGED <<pooled, conn, th, ops, sure, never>>
  BY DEF Serve, told
<1>2. out \in Seq(Request) /\ in \in Seq(Response) /\ rq = out[1] /\ rq \in Request
  BY <1>1, SeqFacts DEF IInv, Types
<1> HIDE DEF rq
<1>3. PICK t \in Caller : th[t].pc \in {"recv", "intRecv"}
  BY <1>1, SomeoneWaits
<1>4. /\ t = One /\ TellsTruth /\ NumberInv /\ SpanInv /\ LeftInv /\ OpenInv /\ Doing = th[t].kind
      /\ th[t].op = ops /\ ops \in Op /\ th[t].kind \in DOMAIN Reply
  BY <1>3, User
<1>5. Doing' = Doing /\ th'[One].op = th[One].op
  BY <1>1 DEF Doing
<1>6. CASE th[t].pc = "intRecv"
  <2>1. UNCHANGED db
    BY <1>1, <1>2, <1>6, RequestOf DEF Serve, rq
  <2>2. Got = "none" /\ Got' = "none"
    BY <1>1, <1>4, <1>6 DEF Got
  <2>3. Kept
    BY <1>1, <2>1 DEF Kept
  <2> QED BY <1>5, <2>2, <2>3, StaysTrue
<1>7. CASE th[t].pc = "recv"
  <2>1. rq.id = ops /\ rq.type = Doing /\ rq.type # "interrupt" /\ in = <<>> /\ Got = "none"
    BY <1>1, <1>2, <1>4, <1>7, RequestOf, Zenon DEF Got
  <2>2. CASE Reply[rq.type] = "rows" /\ db' = Effect(rq) /\ UNCHANGED in
    <3>1. Doing \notin {"begin", "commit", "rollback"} \cup Writes
      BY <1>4, <2>1, <2>2 DEF Reply, Writes
    <3>2. /\ Effect(rq).tx = db.tx /\ Effect(rq).doubt = db.doubt
          /\ Effect(rq).pending = db.pending /\ Effect(rq).durable = db.durable
      BY <2>1, <3>1, EffectFields, Zenon
    <3>3. Got' = "none"
      BY <2>1, <2>2 DEF Got
    <3>4. TellsTruth' /\ NumberInv' /\ SpanInv'
      BY <1>1, <1>4, <1>5, <2>2, <3>2 DEF TellsTruth, NumberInv, SpanInv, Span
    <3>5. OpenInv' /\ LeftInv' /\ ResultInv'
      BY <1>1, <1>4, <1>5, <2>1, <2>2, <3>2, <3>3 DEF OpenInv, LeftInv, ResultInv
    <3> QED BY <1>1, <3>4, <3>5 DEF TInv
  <2>3. ASSUME NEW type, in' = Append(in, [id |-> rq.id, type |-> type]), type # "rows",
               Handles(rq, type)
        PROVE  TInv'
    <3>1. Got' = type
      <4>1. in' = <<[id |-> rq.id, type |-> type]>>
        BY <2>1, <2>3
      <4>2. in' # <<>> /\ in'[1].type = type
        BY <4>1
      <4> QED BY <1>1, <1>4, <1>7, <4>2 DEF Got
    <3>2. type # "none" /\ Doing # "none"
      BY <1>4, <2>1, <2>3 DEF Handles, Reply
    <3> QED BY <1>1, <1>4, <1>5, <2>1, <2>3, <3>1, <3>2, HandledTrue, Zenon
  <2> QED BY <1>1, <2>1, <2>2, <2>3, ServeTrueCases, Zenon DEF rq
<1> QED BY <1>3, <1>6, <1>7
-----------------------------------------------------------------------------
(* The end of an operation.                                                *)

\* What the connection a after an operation of t knows of the transaction.
SettledTx(t, res, c, a) ==
  /\ a.tx = IF th[t].kind = "begin" THEN (IF res = "ok" THEN th[t].op ELSE 0)
            ELSE IF th[t].kind \in {"commit", "rollback"} THEN 0 ELSE c.tx
  /\ a.wrote = IF a.tx = 0 THEN {}
               ELSE IF th[t].kind \in Writes /\ res = "ok" THEN c.wrote \cup {th[t].op} ELSE c.wrote
  /\ a.failed <=> a.tx # 0 /\ (c.failed \/ (res # "ok" /\ th[t].kind # "stmtClose"))
  /\ a.down = c.down

LEMMA SettledFields ==
  ASSUME NEW t \in Caller, NEW res, NEW c \in ConnType
  PROVE  SettledTx(t, res, c, Settled(t, res, c))
<1> DEFINE tx == IF th[t].kind = "begin" THEN (IF res = "ok" THEN th[t].op ELSE 0)
                 ELSE IF th[t].kind \in {"commit", "rollback"} THEN 0 ELSE c.tx
           wr == IF tx = 0 THEN {}
                 ELSE IF th[t].kind \in Writes /\ res = "ok" THEN c.wrote \cup {th[t].op} ELSE c.wrote
           fa == tx # 0 /\ (c.failed \/ (res # "ok" /\ th[t].kind # "stmtClose"))
           a  == Settled(t, res, c)
           pr == c.prepared \/ (th[t].kind = "prepare" /\ res = "ok")
<1>1. a = [c EXCEPT !.prepared = pr, !.tx = tx, !.wrote = wr, !.failed = fa]
  BY DEF Settled
<1> HIDE DEF tx, wr, fa, pr, a
<1>2. a.tx = tx /\ a.wrote = wr /\ a.failed = fa /\ a.down = c.down
  BY <1>1, Zenon DEF ConnType
<1>3. SettledTx(t, res, c, a)
  BY <1>2, Zenon DEF SettledTx, tx, wr, fa
<1> QED BY <1>3 DEF a

\* An operation that succeeds has read the result it expects, or rows; what it reports is true.
LEMMA FinishTrue ==
  ASSUME IInv, IInv', TInv, pooled, NEW t \in Caller, th[t].pc \notin {"idle", "open", "panic"},
         NEW res \in {"ok", "bad", "error"}, NEW c \in ConnType, NEW i, Finish(t, res, c, i),
         c.tx = conn.tx, c.wrote = conn.wrote, c.failed = conn.failed, c.down = conn.down,
         res = "ok" => IF Reply[th[t].kind] = "rows" THEN Got \notin {"lost", "failure"}
                          ELSE Got = Reply[th[t].kind],
         UNCHANGED <<pooled, ops>>
  PROVE  TInv'
<1> DEFINE a    == Settled(t, res, c)
           gone == Closes(t, res, c)
<1>0. SettledTx(t, res, c, a)
  BY SettledFields, Zenon
<1>1. /\ t = One /\ th[t] \in Thread /\ TellsTruth /\ NumberInv /\ SpanInv /\ LeftInv /\ OpenInv
      /\ ResultInv
      /\ Doing = th[t].kind /\ th[t].op = ops /\ ops \in Op /\ ops # 0 /\ th[t].kind \in DOMAIN Reply
      /\ th \in [Caller -> Thread]
  BY User, Facts
<1> USE <1>1
<1>2. /\ conn' = IF gone THEN Gone ELSE a
      /\ db' = IF gone THEN Aborted ELSE db
      /\ sure' = sure \cup (IF res # "ok" THEN {} ELSE IF Doing = "commit" THEN conn.wrote
                            ELSE IF Doing \in Writes /\ conn.tx = 0 THEN {ops} ELSE {})
      /\ never' = never \cup (IF res = "ok" /\ Doing = "rollback" THEN Span ELSE {})
      /\ gone => res = "bad" /\ a.tx = 0
  BY DEF Finish, Leave, Tell, Closes, Span
<1>3. /\ th'[t].pc \in {"idle", "panic", "open"}
      /\ th'[t].pc = "open" => /\ gone /\ conn.tx = 0 /\ th'[t].kind = th[t].kind
                               /\ th'[t].op = th[t].op
  BY DEF Finish, Closes, Thread, Idle
<1>4. /\ Got' = "none" /\ Doing' \in {"none", Doing}
      /\ Doing' # "none" => gone /\ conn.tx = 0 /\ th'[One].op = ops
  BY <1>3 DEF Got, Doing
<1>5. /\ db'.durable = db.durable /\ (db'.pending = IF gone THEN {} ELSE db.pending)
      /\ db'.tx = (IF gone THEN "none" ELSE db.tx) /\ db'.doubt = db.doubt
  BY <1>2, EffectFields, Zenon
<1>6. conn'.tx = 0 => db'.tx # "open"
  BY <1>3, Zenon DEF IInv, DbInv, CallerInv
<1>7. /\ a.tx = IF Doing = "begin" THEN (IF res = "ok" THEN ops ELSE 0)
                ELSE IF Doing \in {"commit", "rollback"} THEN 0 ELSE conn.tx
      /\ a.wrote = IF a.tx = 0 THEN {}
                   ELSE IF Doing \in Writes /\ res = "ok" THEN conn.wrote \cup {ops} ELSE conn.wrote
      /\ a.failed <=> a.tx # 0 /\ (conn.failed \/ (res # "ok" /\ Doing # "stmtClose"))
      /\ a.down = conn.down
  BY <1>0, Zenon DEF SettledTx
<1>8. Gone.tx = 0 /\ Gone.wrote = {} /\ ~Gone.failed
  BY DEF Gone, Fresh
<1> HIDE DEF gone, a
<1>9. conn \in ConnType /\ ops \in Nat /\ Span \subseteq 1..ops \cup {0}
  BY DEF IInv, Types, ConnType, Span, Op
<1>10. res = "ok" /\ Doing \in {"begin", "commit", "rollback"} \cup Writes => Got = "result"
  BY DEF Reply, Writes
<1>11. TellsTruth'
  <2>1. sure' \subseteq db.durable \cup db.doubt
    BY <1>2, <1>10 DEF TellsTruth, ResultInv
  <2>2. never' \cap db.durable = {}
    BY <1>2 DEF TellsTruth, SpanInv
  <2> QED BY <1>5, <2>1, <2>2 DEF TellsTruth
<1>12. NumberInv'
  <2>1. never' \subseteq 1..ops
    <3>1. Doing = "rollback" => Span \subseteq 1..ops
      BY <1>9 DEF SpanInv, Span, ConnType, Op
    <3> QED BY <1>2, <3>1, Zenon DEF NumberInv
  <2>2. Doing' # "none" => never' = never
    BY <1>2, <1>4
  <2> QED BY <1>4, <1>5, <2>1, <2>2 DEF NumberInv
<1>13. SpanInv'
  <2>1. CASE conn'.tx = 0
    <3>1. db'.tx # "left" => db'.pending = {}
      BY <1>6, <1>12, <2>1 DEF NumberInv, IInv, Types, Database
    <3> QED BY <1>2, <1>4, <1>5, <1>7, <1>8, <2>1, <3>1, Zenon DEF SpanInv
  <2>2. CASE conn'.tx # 0
    <3>1. ~gone /\ conn' = a /\ db' = db /\ Doing' = "none" /\ never' = never
      BY <1>2, <1>4, <1>7, <1>8, <2>2
    <3>2. CASE Doing = "begin"
      <4>1. conn'.tx = ops /\ Span' = {ops} /\ db.pending = {}
        BY <1>7, <1>9, <1>10, <2>2, <3>1, <3>2 DEF Span, SpanInv, LeftInv, ResultInv
      <4> QED BY <3>1, <3>2, <4>1, <1>9 DEF SpanInv, NumberInv
    <3>3. CASE Doing # "begin"
      <4>1. conn'.tx = conn.tx /\ Span' = Span /\ Doing # "commit"
        BY <1>7, <2>2, <3>1, <3>3 DEF Span
      <4> QED BY <2>2, <3>1, <4>1 DEF SpanInv
    <3> QED BY <3>2, <3>3
  <2> QED BY <2>1, <2>2
<1>14. OpenInv'
  <2> SUFFICES ASSUME conn'.tx # 0, ~conn'.failed, ~conn'.down
               PROVE  db'.tx = "open" /\ conn'.wrote \subseteq db'.pending
    BY DEF OpenInv
  <2>1. /\ ~gone /\ conn' = a /\ db' = db /\ ~conn.down
        /\ res = "ok" \/ Doing = "stmtClose"
    BY <1>2, <1>7, <1>8
  <2>2. CASE Doing = "begin"
    BY <1>7, <1>10, <2>1, <2>2 DEF ResultInv, SpanInv, Writes
  <2>3. CASE Doing # "begin"
    <3>1. /\ conn.tx # 0 /\ ~conn.failed /\ Doing \notin {"commit", "rollback"}
          /\ Got \notin {"lost", "failure"} \/ Doing = "stmtClose"
      BY <1>7, <2>1, <2>3 DEF Reply
    <3>2. db.tx = "open" /\ conn.wrote \subseteq db.pending
      BY <2>1, <3>1 DEF OpenInv
    <3>3. Doing \in Writes => ops \in db.pending
      BY <1>10, <2>1, <3>1 DEF ResultInv, Writes
    <3> QED BY <1>7, <2>1, <2>3, <3>1, <3>2, <3>3
  <2> QED BY <2>2, <2>3
<1>15. ResultInv'
  BY <1>4 DEF ResultInv
<1>16. LeftInv'
  <2> SUFFICES ASSUME db'.tx = "left" PROVE ~conn'.down /\ conn'.tx = 0
    BY DEF LeftInv
  <2>1. ~gone /\ conn' = a /\ db.tx = "left" /\ ~conn.down
    BY <1>2, <1>5 DEF LeftInv
  <2>2. conn.tx = 0 \/ Doing \in {"commit", "rollback"}
    BY <2>1 DEF LeftInv
  <2>3. Doing = "begin" => res # "ok"
    BY <1>10, <2>1 DEF ResultInv
  <2> QED BY <1>7, <2>1, <2>2, <2>3
<1> QED BY <1>11, <1>12, <1>13, <1>14, <1>15, <1>16 DEF TInv

\* The ways in which an operation ends.
LEMMA ErrorTrue ==
  ASSUME IInv, IInv', TInv, pooled, NEW t \in Caller, UNCHANGED pooled,
         \/ Call(t) /\ conn.netErr
         \/ SendError(t) \/ RecvError(t) \/ InterruptError(t)
  PROVE  TInv'
<1>1. th[t].pc \in {"lock", "send", "recv", "intSend", "intRecv"} /\ UNCHANGED ops
  BY DEF Call, SendError, RecvError, InterruptError
<1>2. conn \in ConnType
  BY Facts
<1>3. PICK c : /\ c \in {conn, Unlocked(conn), Unwritable(Unlocked(conn))} \/
                  \E e \in BOOLEAN, b \in {Unlocked(conn), Unwritable(Unlocked(conn))} :
                     c = [b EXCEPT !.netErr = e]
               /\ Finish(t, "bad", c, in)
  <2>1. CASE Call(t) /\ conn.netErr
    BY <2>1 DEF Call, driverError
  <2>2. CASE SendError(t)
    BY <2>2, Zenon DEF SendError, driverError
  <2>3. CASE RecvError(t)
    <3>1. PICK e \in {"net", "eof"} :
            Finish(t, driverError(e), [Unlocked(conn) EXCEPT !.netErr = (e = "net")], in)
      BY <2>3 DEF RecvError
    <3>2. driverError(e) = "bad" /\ (e = "net") \in BOOLEAN
      BY DEF driverError
    <3> QED BY <3>1, <3>2, Zenon
  <2>4. CASE InterruptError(t)
    BY <2>4 DEF InterruptError, driverError
  <2> QED BY <2>1, <2>2, <2>3, <2>4
<1>4. /\ c \in ConnType /\ c.tx = conn.tx /\ c.wrote = conn.wrote /\ c.failed = conn.failed
      /\ c.down = conn.down
  <2>1. ASSUME NEW b \in {conn, Unlocked(conn), Unwritable(Unlocked(conn))}
        PROVE  /\ b \in ConnType /\ b.tx = conn.tx /\ b.wrote = conn.wrote /\ b.failed = conn.failed
               /\ b.down = conn.down
    <3>1. b \in ConnType
      BY <1>2, ConnFacts, Zenon
    <3> QED BY <1>2, <3>1, Zenon DEF Unlocked, Unwritable, ConnType
  <2>2. ASSUME NEW b \in ConnType, NEW e \in BOOLEAN, c = [b EXCEPT !.netErr = e]
        PROVE  /\ c \in ConnType /\ c.tx = b.tx /\ c.wrote = b.wrote /\ c.failed = b.failed
               /\ c.down = b.down
    BY <2>2, Zenon DEF ConnType
  <2> QED BY <1>3, <2>1, <2>2
<1> QED BY <1>1, <1>3, <1>4, FinishTrue

LEMMA RecvLastTrue ==
  ASSUME IInv, IInv', TInv, pooled, NEW t \in Caller, UNCHANGED pooled, Recv(t),
         ~(Decode(t, Head(in).type) = "ok" /\ Reply[th[t].kind] = "rows")
  PROVE  TInv'
<1> DEFINE e   == Decode(t, Head(in).type)
           res == IF e = "ok" THEN "ok" ELSE driverError(e)
           c   == Unlocked(conn)
<1>1. th[t].pc = "recv" /\ in # <<>> /\ Finish(t, res, c, Tail(in)) /\ UNCHANGED <<pooled, ops>>
  BY DEF Recv
<1>2. conn \in ConnType /\ in \in Seq(Response) /\ t = One /\ th[t].kind \in DOMAIN Reply
  BY <1>1, User, Facts, Zenon
<1>3. Got = Head(in).type
  BY <1>1, <1>2, SeqFacts, Zenon DEF Got
<1>4. res = "ok" => Reply[th[t].kind] # "rows" /\ Got = Reply[th[t].kind]
  BY <1>3, Zenon DEF Decode, driverError
<1>5. res \in {"ok", "bad", "error"}
  BY DEF driverError
<1>6. /\ c \in ConnType /\ c.tx = conn.tx /\ c.wrote = conn.wrote /\ c.failed = conn.failed
      /\ c.down = conn.down
  BY <1>2 DEF Unlocked, ConnType
<1> HIDE DEF res, c
<1> QED BY <1>1, <1>4, <1>5, <1>6, FinishTrue

LEMMA CloseTrue ==
  ASSUME IInv, IInv', TInv, pooled, NEW t \in Caller, UNCHANGED <<pooled, ops>>,
         \/ th[t].pc = "rows" /\ Finish(t, "ok", conn, in)
         \/ th[t].pc = "intRecv" /\ Finish(t, "ok", Unlocked(conn), Tail(in))
  PROVE  TInv'
<1>1. conn \in ConnType /\ t = One /\ Reply[th[t].kind] = "rows"
  BY User, Facts, RowsFacts DEF Reading
<1>2. PICK c \in {conn, Unlocked(conn)}, i \in {in, Tail(in)} : Finish(t, "ok", c, i)
  OBVIOUS
<1>3. /\ c \in ConnType /\ c.tx = conn.tx /\ c.wrote = conn.wrote /\ c.failed = conn.failed
      /\ c.down = conn.down
  BY <1>1 DEF Unlocked, ConnType
<1>4. Got = "none"
  BY <1>1 DEF Got
<1> QED BY <1>1, <1>2, <1>3, <1>4, FinishTrue
-----------------------------------------------------------------------------
(* The theorem.                                                            *)

\* A Client's requests are not reported.
LEMMA ClientTrue ==
  ASSUME IInv, TInv, ~pooled, Next
  PROVE  TInv'
<1>1. sure = {} /\ never = {} /\ UNCHANGED pooled
  BY DEF TInv, Next
<1>2. ASSUME NEW t \in Caller, NEW res, NEW c, NEW i, Finish(t, res, c, i), th[t].pc # "idle"
      PROVE  UNCHANGED told
  <2>1. th[t].kind = "admin"
    BY <1>2, Zenon DEF IInv, CallerInv
  <2> QED BY <1>2, <2>1 DEF Finish, Tell, told, Writes
<1>3. ASSUME NEW t \in Caller, Step(t) PROVE UNCHANGED told
  <2>1. CASE \/ Connect(t) \/ Send(t) \/ RowsNext(t) \/ More(t) \/ Interrupt(t) \/ InterruptSend(t)
    BY <2>1 DEF Connect, Send, RowsNext, More, Interrupt, InterruptSend, ghosts
  <2>2. CASE Call(t)
    BY <1>2, <2>2 DEF Call
  <2>3. CASE SendError(t) \/ RecvError(t) \/ InterruptError(t)
    BY <1>2, <2>3, Zenon DEF SendError, RecvError, InterruptError
  <2>4. CASE Recv(t)
    BY <1>2, <2>4 DEF Recv
  <2>5. CASE RowsClose(t)
    BY <1>2, <2>5 DEF RowsClose
  <2>6. CASE InterruptRecv(t)
    BY <1>2, <2>6 DEF InterruptRecv
  <2> QED BY <1>3, <2>1, <2>2, <2>3, <2>4, <2>5, <2>6 DEF Step
<1>4. ASSUME NEW t \in Caller, Operation(t) \/ CtxDone(t) PROVE UNCHANGED told
  BY <1>4, Zenon DEF Operation, PrepareContext, ExecContext, QueryContext, BeginTx, Commit, Rollback,
     StmtExecContext, StmtQueryContext, StmtClose, ClientRequest, Begin, CtxDone, ghosts
<1>5. ASSUME Serve \/ Stream \/ Break PROVE UNCHANGED told
  BY <1>5, Zenon DEF Serve, Stream, Break, ghosts
<1>6. UNCHANGED told
  BY <1>3, <1>4, <1>5, Zenon DEF Next
<1> QED BY <1>1, <1>6 DEF TInv, TellsTruth, told

LEMMA StepTrue ==
  ASSUME IInv, IInv', TInv, Next
  PROVE  TInv'
<1>1. UNCHANGED pooled
  BY DEF Next
<1> USE <1>1
<1>2. CASE ~pooled
  BY <1>2, ClientTrue
<1>3. CASE pooled
  <2> USE <1>3
  <2>1. ASSUME NEW t \in Caller, Step(t) PROVE TInv'
    <3>1. CASE Connect(t)
      BY <3>1, ConnectTrue
    <3>2. CASE Call(t) \/ Interrupt(t)
      BY <3>2, CallTrue, ErrorTrue
    <3>3. CASE Send(t) \/ InterruptSend(t)
      BY <3>3, SendTrue
    <3>4. CASE SendError(t) \/ RecvError(t) \/ InterruptError(t)
      BY <3>4, ErrorTrue
    <3>5. CASE Recv(t)
      BY <3>5, RecvRowsTrue, RecvLastTrue
    <3>6. CASE RowsNext(t) \/ More(t)
      BY <3>6, RowsTrue
    <3>7. CASE RowsClose(t)
      BY <3>7, RowsTrue, CloseTrue, Zenon DEF RowsClose
    <3>8. CASE InterruptRecv(t)
      BY <3>8, SameTrue, CloseTrue DEF InterruptRecv
    <3> QED BY <2>1, <3>1, <3>2, <3>3, <3>4, <3>5, <3>6, <3>7, <3>8 DEF Step
  <2>2. CASE \E t \in Caller : Operation(t) \/ Step(t) \/ CtxDone(t)
    BY <2>1, <2>2, OperationTrue, SameTrue, Zenon
  <2>3. CASE Serve \/ Stream \/ Break
    BY <2>3, ServeTrue, StreamTrue, BreakTrue
  <2> QED BY <2>2, <2>3 DEF Next
<1> QED BY <1>2, <1>3

LEMMA StutterTrue ==
  ASSUME TInv, UNCHANGED vars
  PROVE  TInv'
<1>1. UNCHANGED <<pooled, conn, in, db, th, ops, sure, never>>
  BY DEF vars, wire, ghosts, told
<1> QED BY <1>1, Zenon DEF TInv, TellsTruth, NumberInv, SpanInv, LeftInv, OpenInv, ResultInv,
                          Doing, Got, Span

\* What is written, and what is reported of it, as long as the connection exists.
THEOREM Truth ==
  ASSUME TxDeadlines \subseteq {FALSE}
  PROVE  Spec => []TInv
<1>1. Init => TInv
  BY TruthBegins
<1>2. IInv /\ IInv' /\ TInv /\ [Next]_vars => TInv'
  BY StepTrue, StutterTrue, Zenon
<1> QED BY <1>1, <1>2, Invariant, PTL DEF Spec

\* What database/sql and its user are told is true: a write that was reported to succeed is
\* durable, and so is all of a transaction that was reported to be committed, unless the
\* write ran into a transaction that the server had refused to end; nothing of one that
\* was reported to be rolled back is durable.  However often connections are lost,
\* operations retried and results abandoned (driver.go:382-410, 517-536, 785-851).
THEOREM ReportsAreTrue ==
  ASSUME TxDeadlines \subseteq {FALSE}
  PROVE  Spec => []TellsTruth
<1>1. TInv => TellsTruth
  BY DEF TInv
<1> QED BY <1>1, Truth, PTL

\* Operations, responses, retries and reports stay in their ranges (driver.go:382-851).
THEOREM TypeCorrect ==
  ASSUME TxDeadlines \subseteq {FALSE}
  PROVE  Spec => []TypeOK
<1>1. ASSUME IInv, TInv, CountInv PROVE TypeOK
  <2>1. Types
    BY <1>1 DEF IInv
  <2>2. sure \subseteq Op
    BY <1>1, <2>1 DEF TInv, TellsTruth, Types, Database
  <2>3. never \subseteq Op
    <3>1. 1..ops \subseteq Op
      BY <2>1, SessionAssumption DEF Types, Op
    <3> QED BY <1>1, <3>1 DEF TInv, NumberInv
  <2> QED BY <1>1, <2>1, <2>2, <2>3, Zenon DEF TypeOK, Types, ConnType, Request, Response, Query,
                                               Thread, CountInv, Database
<1>2. Init => CountInv
  BY DEF Init, CountInv
<1>3. IInv /\ CountInv /\ [Next]_vars => CountInv'
  BY CountKeeps
<1> QED BY <1>1, <1>2, <1>3, Invariant, Truth, PTL DEF Spec
=============================================================================
