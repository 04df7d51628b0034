---------------------------- MODULE SessionProofs ----------------------------
(***************************************************************************)
(* One connection carries one request at a time, every caller gets the       *)
(* responses to its own request, and what is left in the pool is clean: for  *)
(* any number of callers, operations, responses, retries and lost            *)
(* connections, if statements of a transaction have no deadlines.            *)
(***************************************************************************)
EXTENDS SessionInvariant

\* What the connection a after an operation of t has in common with c, the one before.
SettledAs(t, res, c, a) ==
  /\ a \in ConnType
  /\ a.open = c.open /\ a.mu = c.mu /\ a.netErr = c.netErr /\ a.down = c.down
  /\ a.dead = c.dead
  /\ th[t].kind \in {"commit", "rollback"} => a.tx = 0
  /\ th[t].kind = "begin" => a.tx = IF res = "ok" THEN th[t].op ELSE 0
  /\ th[t].kind \notin {"begin", "commit", "rollback"} => a.tx = c.tx

\* Settled leaves most of the connection alone.
LEMMA SettledFacts ==
  ASSUME Types, NEW t \in Caller, th[t].op # 0, NEW res, NEW c \in ConnType
  PROVE  SettledAs(t, res, c, Settled(t, res, c))
<1> DEFINE a == Settled(t, res, c)
<1>1. th[t] \in Thread /\ th[t].op \in Op
  BY DEF Types, Thread
<1>2. a = [c EXCEPT !.prepared = a.prepared, !.tx = a.tx, !.wrote = a.wrote, !.failed = a.failed]
  BY DEF Settled, ConnType
<1>3. /\ th[t].kind \in {"commit", "rollback"} => a.tx = 0
      /\ th[t].kind = "begin" => a.tx = IF res = "ok" THEN th[t].op ELSE 0
      /\ th[t].kind \notin {"begin", "commit", "rollback"} => a.tx = c.tx
  BY DEF Settled, ConnType
<1>4. a.tx \in {0} \cup Op
  BY <1>1, <1>3 DEF ConnType
<1>5. a.wrote \in SUBSET Op
  BY <1>1 DEF Settled, ConnType
<1>6. a.prepared \in BOOLEAN /\ a.failed \in BOOLEAN
  BY DEF Settled, ConnType
<1>7. a \in ConnType
  BY <1>2, <1>4, <1>5, <1>6, Zenon DEF ConnType
<1> HIDE DEF a
<1>8. /\ a.open = c.open /\ a.mu = c.mu /\ a.netErr = c.netErr /\ a.down = c.down
      /\ a.dead = c.dead
  BY <1>2, Zenon DEF ConnType
<1>9. SettledAs(t, res, c, a)
  BY <1>3, <1>7, <1>8 DEF SettledAs
<1> QED BY <1>9 DEF a

\* Does database/sql close the connection c when an operation of t returns res?
Closes(t, res, c) ==
  res = "bad" /\ pooled /\ Settled(t, res, c).tx = 0 /\ th[t].kind # "stmtClose"

\* An operation of t returns.  Its connection is closed, or is clean, or is one that
\* nobody will read from again.
LEMMA FinishKeeps ==
  ASSUME IInv, NEW t \in Caller, th[t].pc \in Using \cup {"lock"}, th[t].pc # "panic",
         \A s \in Caller \ {t} : th[s].pc \notin Using /\ (pooled => th[s].pc = "idle"),
         NEW res, NEW c \in ConnType, NEW i \in Seq(Response), Finish(t, res, c, i),
         c.mu = NoCaller, c.open = conn.open, c.down = conn.down, c.tx = conn.tx,
         c.dead => c.down,
         \/ Closes(t, res, c) \/ (c.netErr /\ th[t].rows = "none") \/ c.dead
         \/ out = <<>> /\ i = <<>> /\ srv = NoQuery,
         pooled /\ c.netErr => Closes(t, res, c) \/ c.down,
         pooled /\ Settled(t, res, c).tx = 0 => Closes(t, res, c) \/ db.tx # "open",
         UNCHANGED <<pooled, ops, crossed>>
  PROVE  IInv'
<1> DEFINE a     == Settled(t, res, c)
           gone  == Closes(t, res, c)
           again == gone /\ conn.tx = 0 /\ th[t].rows = "none" /\ th[t].tries < MaxTries
<1>1. Types /\ CallerInv /\ TxInv /\ WireInv /\ DbInv /\ ~crossed
  BY DEF IInv
<1> USE <1>1
<1>2. th[t] \in Thread /\ th[t].op # 0 /\ th[t].op \in Op /\ th[t].pc # "idle" /\ conn.open
  BY DEF Types, Thread, CallerInv, Using, Locked, Reading
<1> USE <1>2
<1>3. SettledAs(t, res, c, a)
  BY SettledFacts, Zenon
<1> USE <1>3
<1>4. /\ \/ gone \/ (c.netErr /\ th[t].rows = "none") \/ c.dead
         \/ out = <<>> /\ i = <<>> /\ srv = NoQuery
      /\ pooled /\ c.netErr => gone \/ c.down
      /\ pooled /\ a.tx = 0 => gone \/ db.tx # "open"
      /\ gone => res = "bad" /\ pooled /\ th[t].kind # "stmtClose"
  BY DEF Closes
<1> USE <1>4
<1>5. /\ conn' = IF gone THEN Gone ELSE a
      /\ out' = IF gone THEN <<>> ELSE out
      /\ in' = IF gone THEN <<>> ELSE i
      /\ srv' = IF gone THEN NoQuery ELSE srv
      /\ db' = IF gone THEN Aborted ELSE db
      /\ th' = [th EXCEPT ![t] = IF Panics(t, res) THEN [th[t] EXCEPT !.pc = "panic"]
                                 ELSE IF again THEN [th[t] EXCEPT !.pc = "open", !.tries = @ + 1]
                                 ELSE Idle]
  BY DEF Finish, Leave, Closes
<1> USE <1>5
<1>6. th \in [Caller -> Thread]
  BY DEF Types
<1> USE <1>6
<1>7. /\ th' \in [Caller -> Thread]
      /\ \A s \in Caller \ {t} : th'[s] = th[s]
      /\ \/ th'[t].pc = "panic" /\ Panics(t, res)
         \/ th'[t].pc = "open" /\ again
         \/ th'[t].pc = "idle"
      /\ th'[t].pc # "idle" => /\ th'[t].op = th[t].op /\ th'[t].kind = th[t].kind
                               /\ th'[t].rows = th[t].rows
  <2>1. CASE Panics(t, res)
    BY <2>1, Zenon DEF Thread
  <2>2. CASE ~Panics(t, res) /\ again
    <3> DEFINE more == th[t].tries + 1
               new  == [th[t] EXCEPT !.pc = "open", !.tries = @ + 1]
    <3> HIDE DEF again, gone, a
    <3>1. th' = [th EXCEPT ![t] = new]
      BY <2>2, Zenon
    <3>2. more \in 0..MaxTries
      BY <2>2, SessionAssumption DEF Thread, again
    <3>3. new = [th[t] EXCEPT !.pc = "open", !.tries = more]
      BY DEF Thread
    <3> HIDE DEF more, new
    <3>4. /\ new \in Thread /\ new.pc = "open" /\ new.op = th[t].op /\ new.kind = th[t].kind
          /\ new.rows = th[t].rows
      BY <3>2, <3>3, Zenon DEF Thread
    <3> QED BY <2>2, <3>1, <3>4
  <2>3. CASE ~Panics(t, res) /\ ~again
    <3>1. th' = [th EXCEPT ![t] = Idle]
      BY <2>3, Zenon
    <3> QED BY <3>1, IdleThread
  <2> QED BY <2>1, <2>2, <2>3
<1> USE <1>7
<1>8. /\ Gone \in ConnType /\ ~Gone.open /\ Gone.mu = NoCaller /\ ~Gone.netErr
      /\ ~Gone.down /\ ~Gone.dead /\ Gone.tx = 0
  BY ZenonT(60) DEF Gone, Fresh, ConnType
<1> USE <1>8
<1>9. conn' \in ConnType /\ conn'.mu = NoCaller
  BY DEF SettledAs
<1> HIDE DEF a, again
<1>10. Types'
  <2>1. db' \in Database
    BY Zenon DEF Types, Aborted, Database
  <2>2. out' \in Seq(Request) /\ in' \in Seq(Response)
    BY DEF Types
  <2>3. srv' \in Query
    BY SessionAssumption DEF Types, NoQuery, Query
  <2> QED BY <1>9, <2>1, <2>2, <2>3 DEF Types
<1>11. \A s \in Caller : th'[s].pc \in Using => s = t /\ th'[s].pc = "panic"
  BY DEF Using, Locked, Reading
<1> USE <1>11
<1>12. \A s \in Caller : s # t /\ pooled => th'[s].pc = "idle"
  OBVIOUS
<1>13. CallerInv'
  <2>1. \A s \in Caller : /\ conn'.mu # s /\ th'[s].pc \notin Locked
                          /\ th'[s].pc \notin Reading
    BY <1>9, SessionAssumption DEF Using, Locked, Reading
  <2>2. ~pooled => conn'.open /\ conn'.tx = 0
    BY Zenon DEF CallerInv, SettledAs
  <2>3. th'[t].pc = "open" => ~conn'.open /\ th'[t].rows = "none" /\ pooled
    BY DEF again
  <2>4. th'[t].pc = "panic" => pooled
    BY DEF Panics, CallerInv
  <2>5. ASSUME NEW s \in Caller, s # t
        PROVE  /\ th'[s].pc # "idle" => th'[s].op # 0 /\ ~pooled /\ th'[s].kind = "admin"
               /\ th'[s].pc \in {"lock"} => th'[s].rows = "none"
               /\ th'[s].pc # "open"
    BY <1>12, <2>5 DEF CallerInv
  <2>6. th'[t].pc # "idle" => th'[t].op # 0 /\ (IF pooled THEN t = One ELSE th'[t].kind = "admin")
    BY DEF CallerInv
  <2> QED BY <2>1, <2>2, <2>3, <2>4, <2>5, <2>6 DEF CallerInv, Using, Locked, Reading
<1>14. TxInv'
  <2>1. ~conn'.open => conn'.tx = 0
    BY Zenon DEF SettledAs
  <2>2. ASSUME NEW s \in Caller, th'[s].pc \notin {"idle", "panic"}
        PROVE  conn'.tx = 0 /\ th'[s].kind \notin {"commit", "rollback", "stmtClose"}
    <3>1. CASE s = t
      BY <2>2, <3>1 DEF again, TxInv
    <3>2. CASE s # t
      BY <1>12, <1>13, <2>2, <3>2 DEF CallerInv
    <3> QED BY <3>1, <3>2
  <2> QED BY <2>1, <2>2 DEF TxInv
<1>15. WireInv'
  <2>1. CASE gone
    BY <2>1 DEF WireInv, Wired, Quiet, Using, Locked, Reading
  <2>2. CASE ~gone
    <3>1. /\ conn' = a /\ out' = out /\ in' = i /\ srv' = srv
          /\ (conn'.netErr /\ th[t].rows = "none") \/ conn'.dead \/ Quiet'
          /\ pooled /\ conn'.netErr => conn'.down
          /\ conn'.dead => conn'.down
          /\ conn'.down = conn.down /\ conn'.open
      BY <2>2, Zenon DEF Quiet, SettledAs
    <3>2. th'[t].pc = "panic" => out' = <<>>
      BY <3>1 DEF Panics, WireInv, Wired, Quiet
    <3> QED BY <3>1, <3>2 DEF WireInv, Wired, Using, Locked, Reading
  <2> QED BY <2>1, <2>2
<1>16. DbInv'
  <2>1. pooled /\ conn'.tx = 0 => db'.tx # "open"
    BY DEF Types, Aborted, Database
  <2> QED BY <2>1 DEF DbInv, Using, Locked
<1> QED BY <1>10, <1>13, <1>14, <1>15, <1>16 DEF IInv
-----------------------------------------------------------------------------
(* The steps with which an operation returns.                              *)

\* The connection after an error.
LEMMA ConnFacts ==
  ASSUME conn \in ConnType, NEW e \in BOOLEAN
  PROVE  /\ Unlocked(conn) \in ConnType
         /\ [Unlocked(conn) EXCEPT !.netErr = e] \in ConnType
         /\ Unwritable(Unlocked(conn)) \in ConnType
         /\ [Unwritable(Unlocked(conn)) EXCEPT !.netErr = e] \in ConnType
<1>1. Unlocked(conn) \in ConnType
  BY DEF Unlocked, ConnType
<1>2. ASSUME NEW c \in ConnType PROVE Unwritable(c) \in ConnType /\ [c EXCEPT !.netErr = e] \in ConnType
  BY DEF Unwritable, ConnType
<1> QED BY <1>1, <1>2

\* The connection of a caller that does not begin or end a transaction.
LEMMA NoTransaction ==
  ASSUME IInv, NEW t \in Caller, pooled, th[t].pc # "idle",
         th[t].kind \notin {"begin", "commit", "rollback"}, NEW res, NEW c \in ConnType,
         c.tx = conn.tx, Settled(t, res, c).tx = 0
  PROVE  db.tx # "open"
<1>1. th[t].op # 0 /\ \A s \in Caller : th[s].pc # "idle" => s = t
  BY DEF IInv, CallerInv
<1>2. conn.tx = 0
  BY <1>1, SettledFacts DEF IInv, SettledAs
<1> QED BY <1>1, <1>2 DEF IInv, DbInv

\* database/sql closes a bad connection, unless a transaction goes on or a statement was
\* closed.
LEMMA BadCloses ==
  ASSUME IInv, NEW t \in Caller, th[t].pc \notin {"idle", "panic"}, NEW c \in ConnType,
         c.tx = conn.tx, pooled, ~Closes(t, "bad", c)
  PROVE  /\ ~Late(t)
         /\ Settled(t, "bad", c).tx = 0 => db.tx # "open"
<1>1. SettledAs(t, "bad", c, Settled(t, "bad", c))
  BY SettledFacts DEF IInv, CallerInv
<1>2. th[t].kind \in {"commit", "rollback", "begin"} => Settled(t, "bad", c).tx = 0
  BY <1>1 DEF SettledAs
<1>3. th[t].kind \notin {"commit", "rollback", "begin"} => Settled(t, "bad", c).tx = conn.tx
  BY <1>1 DEF SettledAs
<1>4. conn.tx # 0 \/ th[t].kind = "stmtClose"
  BY <1>2, <1>3 DEF Closes
<1>5. ~Late(t)
  BY <1>4 DEF IInv, TxInv, Late
<1>6. ASSUME Settled(t, "bad", c).tx = 0 PROVE db.tx # "open"
  <2>1. th[t].kind = "stmtClose"
    BY <1>6 DEF Closes
  <2> QED BY <1>6, <2>1, NoTransaction
<1> QED BY <1>5, <1>6

LEMMA CallErrorKeeps ==
  ASSUME IInv, NEW t \in Caller, Call(t), conn.netErr, UNCHANGED pooled
  PROVE  IInv'
<1>1. /\ th[t].pc = "lock" /\ conn.mu = NoCaller /\ Finish(t, "bad", conn, in)
      /\ UNCHANGED <<pooled, ops, crossed>>
  BY DEF Call, driverError
<1> USE <1>1
<1>2. \A s \in Caller \ {t} : th[s].pc \notin Using /\ (pooled => th[s].pc = "idle")
  BY Exclusive
<1>3. /\ conn \in ConnType /\ in \in Seq(Response) /\ th[t].rows = "none"
      /\ conn.dead => conn.down
      /\ pooled => conn.down
  BY Facts DEF IInv, CallerInv
<1>4. pooled /\ Settled(t, "bad", conn).tx = 0 => Closes(t, "bad", conn) \/ db.tx # "open"
  BY <1>3, BadCloses
<1> QED BY <1>2, <1>3, <1>4, FinishKeeps, Zenon DEF Using

LEMMA SendErrorKeeps ==
  ASSUME IInv, NEW t \in Caller, SendError(t), UNCHANGED pooled
  PROVE  IInv'
<1> DEFINE c == [Unwritable(Unlocked(conn)) EXCEPT !.netErr = TRUE]
<1>1. /\ th[t].pc = "send" /\ (Late(t) \/ conn.down) /\ Finish(t, "bad", c, in)
      /\ UNCHANGED <<pooled, ops, crossed>>
  BY DEF SendError, driverError
<1> USE <1>1
<1>2. \A s \in Caller \ {t} : th[s].pc \notin Using /\ (pooled => th[s].pc = "idle")
  BY Exclusive DEF Using, Locked
<1>3. /\ conn \in ConnType /\ in \in Seq(Response) /\ th[t].rows = "none"
      /\ conn.dead => conn.down
  BY Facts, CallFacts
<1> USE <1>3
<1>4. c \in ConnType
  BY ConnFacts, Zenon
<1>5. /\ c.mu = NoCaller /\ c.open = conn.open /\ c.down = conn.down /\ c.tx = conn.tx
      /\ c.netErr /\ (c.dead => c.down)
  BY DEF Unwritable, Unlocked, ConnType
<1> HIDE DEF c
<1>6. pooled => Closes(t, "bad", c) \/ c.down
  BY <1>4, <1>5, BadCloses
<1>7. pooled /\ Settled(t, "bad", c).tx = 0 => Closes(t, "bad", c) \/ db.tx # "open"
  BY <1>4, <1>5, BadCloses
<1> QED BY <1>2, <1>4, <1>5, <1>6, <1>7, FinishKeeps DEF Using, Locked

LEMMA RecvErrorKeeps ==
  ASSUME IInv, NEW t \in Caller, RecvError(t), UNCHANGED pooled
  PROVE  IInv'
<1>1. PICK e \in {"net", "eof"} :
        /\ (e = "net" /\ Late(t)) \/ (conn.down /\ in = <<>>)
        /\ Finish(t, driverError(e), [Unlocked(conn) EXCEPT !.netErr = (e = "net")], in)
  BY DEF RecvError
<1> USE <1>1
<1> DEFINE c == [Unlocked(conn) EXCEPT !.netErr = (e = "net")]
<1>2. th[t].pc = "recv" /\ Finish(t, "bad", c, in) /\ UNCHANGED <<pooled, ops, crossed>>
  BY DEF RecvError, driverError
<1> USE <1>2
<1>3. \A s \in Caller \ {t} : th[s].pc \notin Using /\ (pooled => th[s].pc = "idle")
  BY Exclusive DEF Using, Locked
<1>4. /\ conn \in ConnType /\ in \in Seq(Response) /\ th[t].rows = "none"
      /\ conn.dead => conn.down
      /\ conn.down => out = <<>> /\ srv = NoQuery
  BY Facts, CallFacts
<1> USE <1>4
<1>5. c \in ConnType
  BY ConnFacts, Zenon
<1>6. /\ c.mu = NoCaller /\ c.open = conn.open /\ c.down = conn.down /\ c.tx = conn.tx
      /\ c.netErr = (e = "net") /\ (c.dead => c.down)
  BY DEF Unlocked, ConnType
<1> USE <1>6
<1> HIDE DEF c
<1>7. pooled => Closes(t, "bad", c) \/ c.down
  BY <1>5, BadCloses
<1>8. pooled /\ Settled(t, "bad", c).tx = 0 => Closes(t, "bad", c) \/ db.tx # "open"
  BY <1>5, BadCloses
<1>9. c.netErr \/ (out = <<>> /\ in = <<>> /\ srv = NoQuery)
  BY Zenon
<1> QED BY <1>3, <1>5, <1>7, <1>8, <1>9, FinishKeeps, Zenon DEF Using, Locked

LEMMA RecvLastKeeps ==
  ASSUME IInv, NEW t \in Caller, Recv(t), UNCHANGED pooled,
         ~(Decode(t, Head(in).type) = "ok" /\ Reply[th[t].kind] = "rows")
  PROVE  IInv'
<1> DEFINE e   == Decode(t, Head(in).type)
           res == IF e = "ok" THEN "ok" ELSE driverError(e)
           c   == Unlocked(conn)
<1>1. /\ th[t].pc = "recv" /\ in # <<>> /\ Finish(t, res, c, Tail(in))
      /\ crossed' = (crossed \/ Head(in).id # th[t].op) /\ UNCHANGED <<pooled, ops>>
  BY DEF Recv
<1>2. \A s \in Caller \ {t} : th[s].pc \notin Using /\ (pooled => th[s].pc = "idle")
  BY <1>1, Exclusive DEF Using, Locked
<1>3. /\ conn \in ConnType /\ in \in Seq(Response) /\ th[t].op # 0 /\ th[t] \in Thread
      /\ conn.dead => conn.down
      /\ ~conn.netErr /\ ~conn.dead /\ Awaited(t)
  BY <1>1, Facts, CallFacts
<1>4. Answered(t)
  BY <1>1, <1>3 DEF Awaited
<1>5. /\ 1 \in DOMAIN in /\ Head(in) = in[1] /\ in[1].id = th[t].op /\ Tail(in) \in Seq(Response)
      /\ IF Reply[th[t].kind] = "rows" THEN in[1].type \in {"part", "last", "failure", "lost"}
         ELSE in[1].type \in {Reply[th[t].kind], "failure", "lost"}
  BY <1>1, <1>3, <1>4, SeqFacts DEF Answered
<1>6. /\ Head(in).type # "part"
      /\ e = IF Head(in).type \in {"failure", "lost"} THEN Head(in).type ELSE "ok"
  BY <1>3, <1>5 DEF Decode, Reply, Thread
<1>7. Tail(in) = <<>> /\ srv = NoQuery /\ out = <<>>
  BY <1>1, <1>3, <1>4, <1>6, LastResponse
<1>8. /\ c.mu = NoCaller /\ c.open = conn.open /\ c.down = conn.down /\ c.tx = conn.tx
      /\ ~c.netErr /\ ~c.dead /\ c \in ConnType
  BY <1>3, ConnFacts, Zenon DEF Unlocked, ConnType
<1>9. UNCHANGED crossed
  BY <1>1, <1>5, Facts
<1>10. /\ res = IF Head(in).type = "failure" THEN "error"
                ELSE IF Head(in).type = "lost" THEN "bad" ELSE "ok"
  BY <1>6 DEF driverError
<1> HIDE DEF res, c
<1>11. ASSUME pooled, Settled(t, res, c).tx = 0, ~Closes(t, res, c) PROVE db.tx # "open"
  <2> USE <1>11
  <2>1. th[t].kind # "stmtClose" => res # "bad" /\ Head(in).type # "lost"
    BY <1>10 DEF Closes
  <2>2. SettledAs(t, res, c, Settled(t, res, c))
    BY <1>3, <1>8, SettledFacts DEF IInv
  <2>3. CASE th[t].kind = "begin"
    <3>1. Head(in).type = "failure"
      BY <1>3, <1>10, <2>1, <2>2, <2>3 DEF SettledAs
    <3>2. conn.tx = 0
      BY <1>1, <2>3 DEF IInv, TxInv
    <3> QED BY <1>1, <1>2, <1>5, <3>1, <3>2 DEF IInv, DbInv
  <2>4. CASE th[t].kind \in {"commit", "rollback"}
    BY <1>1, <1>5, <2>1, <2>4 DEF IInv, DbInv
  <2>5. CASE th[t].kind \notin {"begin", "commit", "rollback"}
    BY <1>1, <1>3, <1>8, <2>5, NoTransaction DEF Using, Locked
  <2> QED BY <2>3, <2>4, <2>5
<1> QED BY <1>1, <1>2, <1>3, <1>5, <1>7, <1>8, <1>9, <1>11, FinishKeeps, Zenon DEF Using, Locked

LEMMA CloseKeeps ==
  ASSUME IInv, NEW t \in Caller, th[t].pc = "rows", "EOF" \in LastByte(th[t].rows),
         Finish(t, "ok", conn, in), UNCHANGED <<pooled, ops, crossed>>
  PROVE  IInv'
<1>1. \A s \in Caller \ {t} : th[s].pc \notin Using /\ (pooled => th[s].pc = "idle")
  BY Exclusive DEF Using, Reading
<1>2. /\ conn \in ConnType /\ in \in Seq(Response) /\ th[t].op # 0
      /\ Reply[th[t].kind] = "rows" /\ th[t].rows # "none" /\ pooled
      /\ ~conn.netErr /\ ~conn.dead
      /\ th[t].rows # "part" => Quiet
  BY Facts, RowsFacts DEF Reading
<1> USE <1>2
<1>3. conn.mu = NoCaller
  <2>1. conn.mu # t
    BY DEF IInv, CallerInv, Locked
  <2>2. \A s \in Caller \ {t} : conn.mu # s
    BY <1>1 DEF IInv, CallerInv, Using
  <2> QED BY <2>1, <2>2 DEF ConnType
<1>4. Quiet
  BY DEF LastByte
<1>5. th[t].kind \notin {"begin", "commit", "rollback"}
  BY DEF Reply
<1>6. Settled(t, "ok", conn).tx = 0 => db.tx # "open"
  BY <1>5, NoTransaction DEF Using, Reading
<1> QED BY <1>1, <1>3, <1>4, <1>6, FinishKeeps, Zenon DEF Quiet, Using, Reading

LEMMA InterruptedKeeps ==
  ASSUME IInv, NEW t \in Caller, InterruptRecv(t), UNCHANGED pooled, Head(in).type = "empty"
  PROVE  IInv'
<1> DEFINE c == Unlocked(conn)
<1>1. /\ th[t].pc = "intRecv" /\ in # <<>> /\ Finish(t, "ok", c, Tail(in))
      /\ UNCHANGED <<pooled, ops, crossed>>
  BY DEF InterruptRecv
<1> USE <1>1
<1>2. \A s \in Caller \ {t} : th[s].pc \notin Using /\ (pooled => th[s].pc = "idle")
  BY Exclusive DEF Using, Reading
<1>3. /\ conn \in ConnType /\ in \in Seq(Response) /\ th[t].op # 0
      /\ Reply[th[t].kind] = "rows" /\ pooled /\ Interrupted
      /\ ~conn.netErr /\ ~conn.dead
  BY Facts, RowsFacts DEF Reading
<1> USE <1>3
<1>4. /\ c.mu = NoCaller /\ c.open = conn.open /\ c.down = conn.down /\ c.tx = conn.tx
      /\ ~c.netErr /\ ~c.dead /\ c \in ConnType
  BY ConnFacts, Zenon DEF Unlocked, ConnType
<1> HIDE DEF c
<1>5. /\ Len(in) \in Nat \ {0} /\ Head(in) = in[1] /\ DOMAIN in = 1..Len(in)
      /\ (Len(in) = 1 <=> Tail(in) = <<>>) /\ Tail(in) \in Seq(Response)
  BY SeqFacts
<1>6. Len(in) = 1 /\ out = <<>> /\ srv = NoQuery
  BY <1>5 DEF Interrupted
<1>7. Tail(in) = <<>> /\ Tail(in) \in Seq(Response)
  BY <1>5, <1>6
<1>8. th[t].kind \notin {"begin", "commit", "rollback"}
  BY DEF Reply
<1>9. Settled(t, "ok", c).tx = 0 => db.tx # "open"
  BY <1>4, <1>8, NoTransaction DEF Using, Reading
<1> QED BY <1>2, <1>4, <1>6, <1>7, <1>9, FinishKeeps, Zenon DEF Using, Reading

LEMMA InterruptErrorKeeps ==
  ASSUME IInv, NEW t \in Caller, InterruptError(t), UNCHANGED pooled
  PROVE  IInv'
<1> DEFINE c == IF th[t].pc = "intSend" THEN Unwritable(Unlocked(conn)) ELSE Unlocked(conn)
<1>1. /\ \/ th[t].pc = "intSend" /\ (Late(t) \/ conn.down)
         \/ th[t].pc = "intRecv" /\ (Late(t) \/ (conn.down /\ in = <<>>))
      /\ Finish(t, "bad", c, in) /\ UNCHANGED <<pooled, ops, crossed>>
  BY DEF InterruptError, driverError
<1> USE <1>1
<1>2. \A s \in Caller \ {t} : th[s].pc \notin Using /\ (pooled => th[s].pc = "idle")
  BY Exclusive DEF Using, Reading
<1>3. /\ conn \in ConnType /\ in \in Seq(Response) /\ pooled
      /\ ~conn.netErr /\ ~conn.dead
      /\ conn.down => out = <<>> /\ srv = NoQuery
  BY Facts, RowsFacts DEF Reading
<1> USE <1>3
<1>4. /\ c.mu = NoCaller /\ c.open = conn.open /\ c.down = conn.down /\ c.tx = conn.tx
      /\ ~c.netErr /\ (c.dead <=> (th[t].pc = "intSend" /\ c.down))
  BY DEF Unlocked, Unwritable, ConnType
<1>5. c \in ConnType
  BY ConnFacts, Zenon
<1> HIDE DEF c
<1>6. Closes(t, "bad", c) \/ c.dead \/ (out = <<>> /\ in = <<>> /\ srv = NoQuery)
  BY <1>4, <1>5, BadCloses
<1>7. Settled(t, "bad", c).tx = 0 => Closes(t, "bad", c) \/ db.tx # "open"
  BY <1>4, <1>5, BadCloses
<1> QED BY <1>2, <1>4, <1>5, <1>6, <1>7, FinishKeeps DEF Using, Reading
-----------------------------------------------------------------------------
(* The steps with which an operation goes on.                              *)

\* A caller that nobody else uses the connection beside goes on, and holds the mutex or not.
LEMMA GoesOn ==
  ASSUME IInv, NEW t \in Caller, th[t].pc \notin {"idle", "open", "panic"},
         th[t].pc \in Using \/ conn.mu = NoCaller, ~conn.netErr,
         NEW new \in Thread, th' = [th EXCEPT ![t] = new], new.pc \in Using,
         new.op = th[t].op, new.kind = th[t].kind, new.dl = th[t].dl,
         conn' = [conn EXCEPT !.mu = IF new.pc \in Locked THEN t ELSE NoCaller],
         new.pc \in Reading \cup {"panic"} => Reply[new.kind] = "rows",
         new.pc \in {"send", "recv"} => new.rows = "none",
         th[t].pc = "recv" => Reply[new.kind] = "rows", new.pc = "recv" => in' = <<>>,
         out' \in Seq(Request), in' \in Seq(Response), Len(out') <= 1,
         out' # <<>> /\ out'[1].type # "interrupt" => srv = NoQuery,
         conn.down => out' = <<>>, Wired(t)', crossed' \in BOOLEAN, ~crossed',
         UNCHANGED <<pooled, srv, db, ops>>
  PROVE  IInv'
<1>1. Types /\ CallerInv /\ TxInv /\ WireInv /\ DbInv /\ ~crossed
  BY DEF IInv
<1> USE <1>1
<1>2. \A s \in Caller \ {t} : th[s].pc \notin Using /\ (pooled => th[s].pc = "idle")
  BY Exclusive
<1> USE <1>2
<1>3. th \in [Caller -> Thread] /\ conn \in ConnType
  BY DEF Types
<1> USE <1>3
<1>4. /\ th' \in [Caller -> Thread] /\ th'[t] = new
      /\ \A s \in Caller \ {t} : th'[s] = th[s]
  OBVIOUS
<1> USE <1>4
<1>5. /\ conn' \in ConnType /\ conn'.open = conn.open /\ conn'.down = conn.down
      /\ conn'.tx = conn.tx /\ conn'.netErr = conn.netErr /\ conn'.dead = conn.dead
      /\ conn'.mu = IF new.pc \in Locked THEN t ELSE NoCaller
  BY DEF ConnType
<1> USE <1>5
<1>6. th[t].op # 0 /\ conn.open /\ (IF pooled THEN t = One ELSE th[t].kind = "admin")
  <2>1. th[t].pc \in {"lock"} \cup Locked \cup Reading
    BY DEF Thread, Locked, Reading
  <2> QED BY <2>1 DEF CallerInv
<1> USE <1>6
<1>7. Reply[new.kind] = "rows" => pooled
  BY DEF Reply
<1>8. Types'
  BY DEF Types
<1>9. CallerInv'
  <2>1. ASSUME NEW s \in Caller, s # t
        PROVE  /\ conn'.mu # s /\ th'[s].pc \notin Using /\ th'[s].pc # "open"
               /\ th'[s].pc # "idle" => th'[s].op # 0 /\ ~pooled /\ th'[s].kind = "admin"
               /\ th'[s].pc = "lock" => th'[s].rows = "none"
    BY <2>1, SessionAssumption DEF CallerInv
  <2>2. conn'.mu = t <=> th'[t].pc \in Locked
    BY SessionAssumption
  <2>3. /\ th'[t].op # 0
        /\ th'[t].pc \in Reading \cup {"panic"} => pooled /\ Reply[th'[t].kind] = "rows"
        /\ IF pooled THEN t = One ELSE th'[t].kind = "admin"
        /\ th'[t].pc \in {"send", "recv"} => th'[t].rows = "none"
        /\ th'[t].pc \notin {"idle", "open", "lock"} /\ conn'.open
    BY <1>7 DEF Using, Locked, Reading
  <2>4. ~pooled => conn'.open /\ conn'.tx = 0
    BY DEF CallerInv
  <2>5. ASSUME NEW s \in Caller
        PROVE  /\ conn'.mu = s <=> th'[s].pc \in Locked
               /\ th'[s].pc # "idle" => th'[s].op # 0
               /\ th'[s].pc \in Reading => Reply[th'[s].kind] = "rows"
               /\ th'[s].pc \in Reading \cup {"panic", "open"} => pooled
               /\ th'[s].pc # "idle" => IF pooled THEN s = One ELSE th'[s].kind = "admin"
               /\ th'[s].pc \in {"open", "lock", "send", "recv"} => th'[s].rows = "none"
               /\ th'[s].pc = "open" => ~conn'.open
               /\ th'[s].pc \in {"lock"} \cup Locked \cup Reading => conn'.open
    <3>1. CASE s = t
      BY <2>2, <2>3, <3>1
    <3>2. CASE s # t
      <4>1. conn'.open
        BY <2>3
      <4> QED BY <2>1, <3>2, <4>1 DEF Using, Locked, Reading
    <3> QED BY <3>1, <3>2
  <2> QED BY <2>4, <2>5 DEF CallerInv
<1>10. TxInv'
  BY DEF TxInv
<1>11. WireInv'
  <2>1. \A s \in Caller : Wired(s)'
    BY DEF Wired, Using, Locked, Reading
  <2>2. ~(\A s \in Caller : th'[s].pc \notin Using)
    OBVIOUS
  <2> QED BY <2>1, <2>2 DEF WireInv
<1>12. DbInv'
  <2>1. pooled /\ conn.tx = 0 => db.tx # "open"
    BY DEF DbInv, Reply
  <2> QED BY <2>1 DEF DbInv, Using, Locked
<1> QED BY <1>8, <1>9, <1>10, <1>11, <1>12 DEF IInv

\* A caller elsewhere, with other rows, and the step that takes it there.
At(t, pc, rows) == [th[t] EXCEPT !.pc = pc, !.rows = rows]
Moves(t, new, pc, rows) ==
  /\ th' = [th EXCEPT ![t] = new] /\ th'[t] = new /\ new \in Thread /\ new.pc = pc /\ new.rows = rows
  /\ new.op = th[t].op /\ new.kind = th[t].kind /\ new.dl = th[t].dl

LEMMA AtFacts ==
  ASSUME th \in [Caller -> Thread], NEW t \in Caller,
         NEW pc \in {"send", "recv", "rows", "more", "intLock", "intSend", "intRecv", "panic"},
         NEW rows \in {"none", "part", "last", "consumed", "failed", "torn"},
         th' = [th EXCEPT ![t].pc = pc, ![t].rows = rows]
  PROVE  Moves(t, At(t, pc, rows), pc, rows)
<1>1. th[t] \in Thread
  OBVIOUS
<1>2. /\ At(t, pc, rows) \in Thread /\ At(t, pc, rows).pc = pc /\ At(t, pc, rows).rows = rows
      /\ At(t, pc, rows).op = th[t].op /\ At(t, pc, rows).kind = th[t].kind
      /\ At(t, pc, rows).dl = th[t].dl
  BY <1>1, Zenon DEF At, Thread
<1>3. th' = [th EXCEPT ![t] = At(t, pc, rows)]
  BY <1>1, Zenon DEF At
<1> QED BY <1>2, <1>3, Zenon DEF Moves

LEMMA GotoFacts ==
  ASSUME th \in [Caller -> Thread], NEW t \in Caller,
         NEW pc \in {"send", "recv", "rows", "more", "intLock", "intSend", "intRecv", "panic"},
         Goto(t, pc)
  PROVE  Moves(t, At(t, pc, th[t].rows), pc, th[t].rows)
<1>1. th[t] \in Thread
  OBVIOUS
<1>2. th[t].rows \in {"none", "part", "last", "consumed", "failed", "torn"}
  BY <1>1 DEF Thread
<1>3. [th[t] EXCEPT !.pc = pc] = [th[t] EXCEPT !.pc = pc, !.rows = th[t].rows]
  BY <1>1, Zenon DEF Thread
<1>4. th' = [th EXCEPT ![t].pc = pc, ![t].rows = th[t].rows]
  BY <1>3, Zenon DEF Goto
<1> QED BY <1>2, <1>4, AtFacts, Zenon

\* A caller that has rows and is not in Protocol.Interrupt does not hold the mutex.
LEMMA FreeMutex ==
  ASSUME IInv, NEW t \in Caller, th[t].pc \in {"rows", "more", "intLock"}
  PROVE  conn.mu = NoCaller /\ [conn EXCEPT !.mu = NoCaller] = conn
<1>1. \A s \in Caller \ {t} : th[s].pc \notin Using
  BY Exclusive DEF Using, Reading
<1>2. conn \in ConnType /\ \A s \in Caller : conn.mu # s
  BY <1>1 DEF IInv, Types, CallerInv, Using, Locked
<1> QED BY <1>2 DEF ConnType

LEMMA CallKeeps ==
  ASSUME IInv, NEW t \in Caller, Call(t), ~conn.netErr, UNCHANGED pooled
  PROVE  IInv'
<1> DEFINE new == At(t, "send", "none")
<1>1. /\ th[t].pc = "lock" /\ conn.mu = NoCaller /\ conn' = [conn EXCEPT !.mu = t]
      /\ Goto(t, "send") /\ UNCHANGED <<pooled, out, in, srv, db, ops, crossed>>
  BY DEF Call, wire
<1> USE <1>1
<1>2. CallerInv /\ WireInv
  BY DEF IInv
<1>3. th \in [Caller -> Thread] /\ th[t].rows = "none" /\ conn \in ConnType
  BY <1>2, Facts DEF CallerInv
<1>4. Moves(t, new, "send", "none")
  BY <1>3, GotoFacts
<1> USE <1>4
<1> HIDE DEF new
<1>5. Quiet \/ conn.dead
  <2>1. \A s \in Caller : th[s].pc \notin Using
    BY Exclusive DEF Using, Locked, Reading
  <2> QED BY <1>2, <2>1 DEF WireInv
<1>6. Wired(t)'
  BY <1>3, <1>5 DEF Moves, Wired, Quiet, ConnType, Reading, Locked
<1>7. /\ new.pc \in Using /\ new.pc \in Locked /\ new.pc \notin Reading
      /\ out' \in Seq(Request) /\ in' \in Seq(Response) /\ Len(out') <= 1
      /\ out' # <<>> /\ out'[1].type # "interrupt" => srv = NoQuery
      /\ conn.down => out' = <<>>
      /\ crossed' \in BOOLEAN /\ ~crossed'
  BY Facts DEF Moves, Using, Locked, Reading
<1> QED BY <1>6, <1>7, GoesOn, Zenon DEF Moves

LEMMA SendKeeps ==
  ASSUME IInv, NEW t \in Caller, Send(t), UNCHANGED pooled
  PROVE  IInv'
<1> DEFINE new == At(t, "recv", "none")
<1>1. /\ th[t].pc = "send" /\ ~conn.dead /\ out' = Sent(t, th[t].kind) /\ Goto(t, "recv")
      /\ UNCHANGED <<pooled, conn, in, srv, db, ops, crossed>>
  BY DEF Send, ghosts
<1> USE <1>1
<1>3. /\ th \in [Caller -> Thread] /\ th[t] \in Thread /\ th[t].rows = "none" /\ conn \in ConnType
      /\ conn.mu = t /\ ~conn.netErr /\ Quiet /\ th[t].op # 0
  BY Facts, CallFacts
<1> USE <1>3
<1>4. Moves(t, new, "recv", "none")
  BY GotoFacts
<1> USE <1>4
<1> HIDE DEF new
<1>5. th[t].op \in Op /\ th[t].kind \in DOMAIN Reply
  BY DEF Thread
<1> DEFINE rq == [id |-> th[t].op, type |-> th[t].kind]
<1>6. rq \in Request /\ Append(<<>>, rq) = <<rq>>
  BY <1>5 DEF Request
<1>7. out' = IF conn.down THEN <<>> ELSE <<rq>>
  BY <1>6 DEF Sent, Quiet
<1> USE <1>7
<1>8. Awaited(t)'
  <2>1. CASE conn.down
    BY <2>1 DEF Awaited, Answered, Quiet
  <2>2. CASE ~conn.down
    BY <2>2 DEF Moves, Awaited, Quiet
  <2> QED BY <2>1, <2>2
<1>9. Wired(t)'
  BY <1>8 DEF Moves, Wired, Reading, Locked
<1>10. conn = [conn EXCEPT !.mu = t]
  BY DEF ConnType
<1>11. /\ out' \in Seq(Request) /\ Len(out') <= 1 /\ (conn.down => out' = <<>>)
  BY <1>6
<1>12. /\ new.pc \in Using /\ new.pc \in Locked /\ new.pc \notin Reading /\ th[t].pc \in Using
      /\ in' \in Seq(Response) /\ in' = <<>> /\ srv = NoQuery /\ crossed' \in BOOLEAN /\ ~crossed'
  BY Facts DEF Moves, Using, Locked, Reading, Quiet
<1> QED BY <1>9, <1>10, <1>11, <1>12, GoesOn, Zenon DEF Moves

\* A caller that reads rows stays with the responses to its request, or has read all.
LEMMA ReadsOn ==
  ASSUME IInv, NEW t \in Caller, th[t].pc \in {"recv", "rows", "more"}, Reply[th[t].kind] = "rows",
         NEW pc \in {"rows", "more", "intLock", "panic"},
         NEW rows \in {"part", "last", "consumed", "failed", "torn"},
         NEW new, Moves(t, new, pc, rows), conn' = [conn EXCEPT !.mu = NoCaller],
         in' \in Seq(Response), out = <<>>, crossed' \in BOOLEAN, ~crossed',
         pc # "panic" => IF rows = "part" THEN Answered(t)' ELSE Quiet',
         pc = "more" => rows = "part", UNCHANGED <<pooled, out, srv, db, ops>>
  PROVE  IInv'
<1>2. conn \in ConnType /\ ~conn.netErr /\ ~conn.dead /\ out \in Seq(Request)
  BY Facts, CallFacts, RowsFacts DEF Reading
<1> USE <1>2
<1>3. ~conn'.netErr /\ ~conn'.dead
  BY DEF ConnType
<1>4. Wired(t)'
  BY <1>3 DEF Moves, Wired, Locked, Reading
<1>5. /\ new.pc \in Using /\ new.pc \notin Locked /\ th[t].pc \in Using /\ new.pc \notin {"send", "recv"}
      /\ Reply[new.kind] = "rows"
  BY DEF Moves, Using, Locked, Reading
<1>6. Len(out') <= 1 /\ out' = <<>> /\ out' \in Seq(Request)
  OBVIOUS
<1> QED BY <1>4, <1>5, <1>6, GoesOn, Zenon DEF Moves

LEMMA RecvRowsKeeps ==
  ASSUME IInv, NEW t \in Caller, Recv(t), UNCHANGED pooled,
         Decode(t, Head(in).type) = "ok", Reply[th[t].kind] = "rows"
  PROVE  IInv'
<1> DEFINE rows == Head(in).type
<1>1. /\ th[t].pc = "recv" /\ in # <<>> /\ conn' = Unlocked(conn) /\ in' = Tail(in)
      /\ th' = [th EXCEPT ![t].pc = "rows", ![t].rows = rows]
      /\ crossed' = (crossed \/ Head(in).id # th[t].op) /\ UNCHANGED <<pooled, out, srv, db, ops>>
  BY DEF Recv
<1> USE <1>1
<1>2. /\ conn \in ConnType /\ in \in Seq(Response) /\ th \in [Caller -> Thread]
      /\ crossed \in BOOLEAN /\ ~crossed /\ Awaited(t)
  BY Facts, CallFacts
<1> USE <1>2
<1>3. Answered(t)
  BY DEF Awaited
<1> USE <1>3
<1>4. /\ 1 \in DOMAIN in /\ Head(in) = in[1] /\ Tail(in) \in Seq(Response)
  BY SeqFacts
<1> USE <1>4
<1>5. in[1].id = th[t].op /\ in[1].type \in {"part", "last", "failure", "lost"} /\ out = <<>>
  BY DEF Answered
<1> USE <1>5
<1>6. rows \in {"part", "last"}
  BY DEF Decode
<1>7. Moves(t, At(t, "rows", rows), "rows", rows)
  BY <1>6, AtFacts, Zenon
<1>8. conn'.down = conn.down
  BY DEF Unlocked, ConnType
<1>9. rows = "part" => Answered(t)'
  BY <1>7, <1>8, TailAnswers, Zenon DEF Moves
<1>10. rows # "part" => Quiet'
  BY LastResponse DEF Quiet
<1>11. crossed' = FALSE
  OBVIOUS
<1> HIDE DEF rows
<1> QED BY <1>6, <1>7, <1>9, <1>10, <1>11, ReadsOn DEF Unlocked

LEMMA RowsNextKeeps ==
  ASSUME IInv, NEW t \in Caller, RowsNext(t), UNCHANGED pooled
  PROVE  IInv'
<1>1. /\ th[t].pc = "rows" /\ UNCHANGED <<pooled, conn, out, in, srv, db, ops, crossed>>
      /\ \/ th[t].rows = "last" /\ th' = [th EXCEPT ![t].rows = "consumed"]
         \/ th[t].rows = "part" /\ Goto(t, "more")
  BY DEF RowsNext, EndOfRows, wire, ghosts
<1> USE <1>1
<1>2. /\ in \in Seq(Response) /\ th \in [Caller -> Thread] /\ crossed \in BOOLEAN /\ ~crossed
      /\ Reply[th[t].kind] = "rows" /\ IF th[t].rows = "part" THEN Answered(t) ELSE Quiet
  BY Facts, RowsFacts DEF Reading
<1> USE <1>2
<1>3. out = <<>> /\ conn' = [conn EXCEPT !.mu = NoCaller]
  BY FreeMutex DEF Answered, Quiet
<1>4. CASE th[t].rows = "last" /\ th' = [th EXCEPT ![t].rows = "consumed"]
  <2>1. th' = [th EXCEPT ![t].pc = "rows", ![t].rows = "consumed"]
    <3>1. th[t] \in Thread
      OBVIOUS
    <3>2. [th[t] EXCEPT !.rows = "consumed"] = [th[t] EXCEPT !.pc = "rows", !.rows = "consumed"]
      BY <3>1, Zenon DEF Thread
    <3> QED BY <1>4, <3>2, Zenon
  <2>2. Moves(t, At(t, "rows", "consumed"), "rows", "consumed")
    BY <2>1, AtFacts, Zenon
  <2>3. Quiet'
    BY <1>4 DEF Quiet
  <2> QED BY <1>3, <2>2, <2>3, ReadsOn, Zenon
<1>5. CASE th[t].rows = "part" /\ Goto(t, "more")
  <2>1. Moves(t, At(t, "more", "part"), "more", "part")
    BY <1>5, GotoFacts
  <2>2. Answered(t)'
    BY <1>5, <2>1 DEF Answered, Moves
  <2> QED BY <1>3, <2>1, <2>2, ReadsOn, Zenon
<1> QED BY <1>4, <1>5

LEMMA MoreKeeps ==
  ASSUME IInv, NEW t \in Caller, More(t), UNCHANGED pooled
  PROVE  IInv'
<1>1. /\ th[t].pc = "more" /\ UNCHANGED <<pooled, conn, out, srv, db, ops>>
  BY DEF More
<1> USE <1>1
<1>2. /\ in \in Seq(Response) /\ th \in [Caller -> Thread] /\ crossed \in BOOLEAN /\ ~crossed
      /\ Reply[th[t].kind] = "rows" /\ Answered(t) /\ (conn.down => srv = NoQuery)
  BY Facts, RowsFacts DEF Reading
<1> USE <1>2
<1>3. out = <<>> /\ conn' = [conn EXCEPT !.mu = NoCaller]
  BY FreeMutex DEF Answered
<1> USE <1>3
<1>4. CASE /\ in # <<>> /\ in' = Tail(in) /\ crossed' = (crossed \/ Head(in).id # th[t].op)
           /\ IF Decode(t, Head(in).type) = "ok"
              THEN th' = [th EXCEPT ![t].pc = "rows", ![t].rows = Head(in).type]
              ELSE RowsFail(t, Decode(t, Head(in).type),
                            IF Decode(t, Head(in).type) = "type" THEN "torn" ELSE "failed")
  <2> USE <1>4
  <2> DEFINE type == Head(in).type
  <2>1. 1 \in DOMAIN in /\ Head(in) = in[1] /\ Tail(in) \in Seq(Response)
    BY SeqFacts
  <2> USE <2>1
  <2>2. in[1].id = th[t].op /\ type \in {"part", "last", "failure", "lost"}
    BY DEF Answered
  <2> USE <2>2
  <2>3. crossed' = FALSE
    OBVIOUS
  <2>4. type # "part" => Quiet'
    BY LastResponse DEF Quiet
  <2>5. Decode(t, type) = IF type \in {"failure", "lost"} THEN type ELSE "ok"
    BY DEF Decode
  <2>6. /\ type \in {"part", "last"} => th' = [th EXCEPT ![t].pc = "rows", ![t].rows = type]
        /\ type \in {"failure", "lost"} => RowsFail(t, type, "failed")
    BY <2>5
  <2> HIDE DEF type
  <2>7. CASE type \in {"part", "last"}
    <3>1. Moves(t, At(t, "rows", type), "rows", type)
      BY <2>6, <2>7, AtFacts, ZenonT(60)
    <3>2. type = "part" => Answered(t)'
      BY <3>1, TailAnswers DEF Moves, type
    <3> QED BY <2>3, <2>4, <2>7, <3>1, <3>2, ReadsOn, ZenonT(60)
  <2>8. CASE type \in {"failure", "lost"}
    <3>1. PICK pc \in {"rows", "panic"} : th' = [th EXCEPT ![t].pc = pc, ![t].rows = "failed"]
      BY <2>6, <2>8, Zenon DEF RowsFail
    <3>2. Moves(t, At(t, pc, "failed"), pc, "failed")
      BY <3>1, AtFacts, Zenon
    <3> QED BY <2>3, <2>4, <2>8, <3>2, ReadsOn, ZenonT(60)
  <2> QED BY <2>7, <2>8
<1>5. CASE conn.down /\ in = <<>> /\ RowsFail(t, "eof", "torn") /\ UNCHANGED <<in, crossed>>
  <2> USE <1>5
  <2>1. PICK pc \in {"rows", "panic"} : th' = [th EXCEPT ![t].pc = pc, ![t].rows = "torn"]
    BY Zenon DEF RowsFail
  <2>2. Moves(t, At(t, pc, "torn"), pc, "torn")
    BY <2>1, AtFacts, Zenon
  <2>3. Quiet'
    BY DEF Quiet
  <2> QED BY <2>2, <2>3, ReadsOn, ZenonT(60)
<1> QED BY <1>4, <1>5 DEF More

LEMMA RowsCloseKeeps ==
  ASSUME IInv, NEW t \in Caller, RowsClose(t), UNCHANGED pooled
  PROVE  IInv'
<1>1. th[t].pc = "rows" /\ UNCHANGED <<pooled, ops, crossed>>
  BY DEF RowsClose
<1> USE <1>1
<1>2. CASE "EOF" \in LastByte(th[t].rows) /\ Finish(t, "ok", conn, in)
  BY <1>2, CloseKeeps
<1>3. CASE Goto(t, "intLock") /\ UNCHANGED <<conn, wire, db>>
  <2> USE <1>3
  <2>1. UNCHANGED <<out, in, srv, db>>
    BY DEF wire
  <2>2. /\ in \in Seq(Response) /\ th \in [Caller -> Thread] /\ crossed \in BOOLEAN /\ ~crossed
        /\ Reply[th[t].kind] = "rows" /\ (IF th[t].rows = "part" THEN Answered(t) ELSE Quiet)
        /\ th[t].rows # "none" /\ th[t] \in Thread
    BY Facts, RowsFacts DEF Reading
  <2> USE <2>2
  <2>3. out = <<>> /\ conn' = [conn EXCEPT !.mu = NoCaller]
    BY FreeMutex DEF Answered, Quiet
  <2>4. th[t].rows \in {"part", "last", "consumed", "failed", "torn"}
    BY DEF Thread
  <2>5. Moves(t, At(t, "intLock", th[t].rows), "intLock", th[t].rows)
    BY GotoFacts
  <2>6. IF th[t].rows = "part" THEN Answered(t)' ELSE Quiet'
    BY <2>1, <2>5 DEF Answered, Quiet, Moves
  <2> QED BY <2>1, <2>3, <2>4, <2>5, <2>6, ReadsOn, Zenon
<1> QED BY <1>2, <1>3 DEF RowsClose

LEMMA InterruptKeeps ==
  ASSUME IInv, NEW t \in Caller, Interrupt(t), UNCHANGED pooled
  PROVE  IInv'
<1> DEFINE new == At(t, "intSend", th[t].rows)
<1>1. /\ th[t].pc = "intLock" /\ conn.mu = NoCaller /\ conn' = [conn EXCEPT !.mu = t]
      /\ Goto(t, "intSend") /\ UNCHANGED <<pooled, out, in, srv, db, ops, crossed>>
  BY DEF Interrupt, wire, ghosts
<1> USE <1>1
<1>2. /\ conn \in ConnType /\ th \in [Caller -> Thread] /\ crossed \in BOOLEAN /\ ~crossed
      /\ Reply[th[t].kind] = "rows" /\ (IF th[t].rows = "part" THEN Answered(t) ELSE Quiet)
      /\ th[t].rows # "none" /\ ~conn.netErr /\ ~conn.dead
  BY Facts, RowsFacts DEF Reading
<1> USE <1>2
<1>3. Moves(t, new, "intSend", th[t].rows)
  BY GotoFacts
<1> USE <1>3
<1> HIDE DEF new
<1>4. ~conn'.netErr /\ ~conn'.dead /\ conn'.down = conn.down
  BY DEF ConnType
<1>5. IF th[t].rows = "part" THEN Answered(t)' ELSE Quiet'
  BY <1>4 DEF Answered, Quiet, Moves
<1>6. Wired(t)'
  BY <1>4, <1>5 DEF Moves, Wired, Reading, Locked
<1>7. /\ new.pc \in Using /\ new.pc \in Locked /\ th[t].pc \in Using
      /\ out' \in Seq(Request) /\ in' \in Seq(Response) /\ Len(out') <= 1
      /\ out' # <<>> /\ out'[1].type # "interrupt" => srv = NoQuery
      /\ conn.down => out' = <<>>
  BY Facts DEF Moves, Using, Locked, Reading
<1> QED BY <1>6, <1>7, GoesOn, Zenon DEF Moves

LEMMA InterruptSendKeeps ==
  ASSUME IInv, NEW t \in Caller, InterruptSend(t), UNCHANGED pooled
  PROVE  IInv'
<1> DEFINE new == At(t, "intRecv", th[t].rows)
           rq  == [id |-> th[t].op, type |-> "interrupt"]
<1>0. ASSUME rq \in Request
      PROVE  /\ <<rq>> \in Seq(Request) /\ Len(<<rq>>) <= 1 /\ <<rq>>[1].type = "interrupt"
             /\ <<>> \in Seq(Request) /\ Len(<<>>) <= 1
  BY <1>0
<1>1. /\ th[t].pc = "intSend" /\ ~conn.dead /\ out' = Sent(t, "interrupt") /\ Goto(t, "intRecv")
      /\ UNCHANGED <<pooled, conn, in, srv, db, ops, crossed>>
  BY Zenon DEF InterruptSend, ghosts
<1> USE <1>1
<1>2. /\ conn \in ConnType /\ th \in [Caller -> Thread] /\ crossed \in BOOLEAN /\ ~crossed
      /\ in \in Seq(Response) /\ th[t] \in Thread /\ th[t].op # 0 /\ conn.mu = t
      /\ Reply[th[t].kind] = "rows" /\ (IF th[t].rows = "part" THEN Answered(t) ELSE Quiet)
      /\ th[t].rows # "none" /\ ~conn.netErr /\ (conn.down => srv = NoQuery)
  BY Facts, RowsFacts DEF Reading
<1> USE <1>2
<1>3. Moves(t, new, "intRecv", th[t].rows)
  BY GotoFacts
<1> USE <1>3
<1> HIDE DEF new
<1>4. out = <<>> /\ \A i \in DOMAIN in : in[i].type # "empty"
  BY DEF Answered, Quiet
<1>5. rq \in Request /\ Append(<<>>, rq) = <<rq>>
  BY DEF Request, Thread
<1>6. out' = IF conn.down THEN <<>> ELSE <<rq>>
  BY <1>4, <1>5 DEF Sent
<1>7. in # <<>> => Len(in) \in DOMAIN in
  BY SeqFacts
<1>8. Interrupted'
  BY <1>4, <1>6, <1>7 DEF Interrupted
<1>9. Wired(t)'
  BY <1>8 DEF Moves, Wired, Reading, Locked
<1>10. conn = [conn EXCEPT !.mu = t]
  BY DEF ConnType
<1> HIDE DEF rq
<1>11. /\ out' \in Seq(Request) /\ Len(out') <= 1 /\ (conn.down => out' = <<>>)
       /\ out' # <<>> => out'[1].type = "interrupt"
  BY <1>0, <1>5, <1>6, Zenon
<1>12. new.pc \in Using /\ new.pc \in Locked /\ th[t].pc \in Using
  BY DEF Moves, Using, Locked, Reading
<1> QED BY <1>9, <1>10, <1>11, <1>12, GoesOn, Zenon DEF Moves

LEMMA InterruptRecvKeeps ==
  ASSUME IInv, NEW t \in Caller, InterruptRecv(t), UNCHANGED pooled
  PROVE  IInv'
<1>1. CASE Head(in).type = "empty"
  BY <1>1, InterruptedKeeps
<1>2. CASE Head(in).type # "empty"
  <2> DEFINE r == Tail(in)
  <2>1. /\ th[t].pc = "intRecv" /\ in # <<>> /\ in' = r
        /\ UNCHANGED <<pooled, conn, out, srv, db, th, ops, crossed>>
    BY <1>2 DEF InterruptRecv
  <2> USE <2>1
  <2>2. /\ conn \in ConnType /\ th \in [Caller -> Thread] /\ crossed \in BOOLEAN /\ ~crossed
        /\ in \in Seq(Response) /\ th[t] \in Thread /\ conn.mu = t /\ out \in Seq(Request)
        /\ Reply[th[t].kind] = "rows" /\ Interrupted /\ th[t].rows # "none"
        /\ ~conn.netErr /\ ~conn.dead
    BY Facts, RowsFacts DEF Reading
  <2> USE <2>2
  <2>3. /\ r \in Seq(Response) /\ Head(in) = in[1] /\ DOMAIN in = 1..Len(in) /\ Len(in) \in Nat \ {0}
        /\ Len(r) = Len(in) - 1 /\ (Len(in) = 1 <=> r = <<>>)
        /\ \A i \in DOMAIN r : i + 1 \in DOMAIN in /\ r[i] = in[i + 1]
    BY SeqFacts
  <2> USE <2>3
  <2> HIDE DEF r
  <2>4. DOMAIN r = 1..Len(r)
    OBVIOUS
  <2>5. r # <<>> => r[Len(r)] = in[Len(in)]
    BY <2>4
  <2>6. \A i \in DOMAIN r : i # Len(r) => r[i].type # "empty"
    BY <2>4 DEF Interrupted
  <2>7. Interrupted'
    <3>1. out # <<>> => out[1].type = "interrupt" /\ (r # <<>> => r[Len(r)].type # "empty")
      BY <2>5 DEF Interrupted
    <3>2. out = <<>> => srv = NoQuery /\ (conn.down \/ (r # <<>> /\ r[Len(r)].type = "empty"))
      BY <1>2, <2>5 DEF Interrupted
    <3> QED BY <2>6, <3>1, <3>2 DEF Interrupted
  <2>8. Wired(t)'
    BY <2>7 DEF Wired, Reading, Locked
  <2>9. conn = [conn EXCEPT !.mu = t] /\ th' = [th EXCEPT ![t] = th[t]]
    BY DEF ConnType
  <2>10. th[t].pc \in Using /\ th[t].pc \in Locked
    BY DEF Using, Locked
  <2>11. /\ Len(out') <= 1 /\ (conn.down => out' = <<>>)
         /\ out' # <<>> /\ out'[1].type # "interrupt" => srv = NoQuery
    BY Facts
  <2> QED BY <2>8, <2>9, <2>10, <2>11, GoesOn, Zenon
<1> QED BY <1>1, <1>2
-----------------------------------------------------------------------------
(* The theorems.                                                           *)

LEMMA StepKeeps ==
  ASSUME IInv, TxDeadlines \subseteq {FALSE}, Next
  PROVE  IInv'
<1>1. UNCHANGED pooled
  BY DEF Next
<1> USE <1>1
<1>2. ASSUME NEW t \in Caller, Step(t) PROVE IInv'
  <2>1. CASE Connect(t)
    BY <2>1, ConnectKeeps
  <2>2. CASE Call(t)
    BY <2>2, CallErrorKeeps, CallKeeps
  <2>3. CASE Send(t) \/ SendError(t)
    BY <2>3, SendKeeps, SendErrorKeeps
  <2>4. CASE Recv(t)
    BY <2>4, RecvLastKeeps, RecvRowsKeeps
  <2>5. CASE RecvError(t)
    BY <2>5, RecvErrorKeeps
  <2>6. CASE RowsNext(t) \/ More(t) \/ RowsClose(t)
    BY <2>6, RowsNextKeeps, MoreKeeps, RowsCloseKeeps
  <2>7. CASE Interrupt(t) \/ InterruptSend(t)
    BY <2>7, InterruptKeeps, InterruptSendKeeps
  <2>8. CASE InterruptRecv(t) \/ InterruptError(t)
    BY <2>8, InterruptRecvKeeps, InterruptErrorKeeps
  <2> QED BY <1>2, <2>1, <2>2, <2>3, <2>4, <2>5, <2>6, <2>7, <2>8 DEF Step
<1>3. CASE \E t \in Caller : Operation(t) \/ Step(t) \/ CtxDone(t)
  BY <1>2, <1>3, OperationKeeps, CtxDoneKeeps, Zenon
<1>4. CASE Serve \/ Stream \/ Break
  BY <1>4, ServeKeeps, StreamKeeps, BreakKeeps
<1> QED BY <1>3, <1>4 DEF Next

\* The invariant holds as long as the connection exists: who may use it, and what the
\* wire carries for the one who does (protocol.go:36-115, driver.go:382-851).
THEOREM Invariant ==
  ASSUME TxDeadlines \subseteq {FALSE}
  PROVE  Spec => []IInv
<1>1. Init => IInv
  BY InitInv
<1>2. IInv /\ [Next]_vars => IInv'
  BY StepKeeps, StutterKeeps, Zenon
<1> QED BY <1>1, <1>2, PTL DEF Spec

\* Every caller decodes only the responses to its own request, however many share a
\* Client's connection, whatever the server loses or refuses, and however often a query is
\* abandoned and database/sql retries (protocol.go:36-53, 84-115, driver.go:691-712).
THEOREM ResponsesMatchRequests ==
  ASSUME TxDeadlines \subseteq {FALSE}
  PROVE  Spec => []AnswersMatch
<1>1. IInv => AnswersMatch
  BY DEF IInv, AnswersMatch
<1> QED BY <1>1, Invariant, PTL

\* The mutex of Protocol, and that database/sql gives a connection to one user at a time,
\* keep a second request off the wire until the first is answered in full, or interrupted
\* (protocol.go:36-39).
THEOREM RequestsAreSerial ==
  ASSUME TxDeadlines \subseteq {FALSE}
  PROVE  Spec => []OneRequestAtATime
<1>1. ASSUME IInv PROVE OneRequestAtATime
  <2>1. out \in Seq(Request) /\ Len(out) <= 1 /\ Len(out) \in Nat /\ DOMAIN out = 1..Len(out)
    BY <1>1 DEF IInv, Types, WireInv
  <2>2. \A i \in DOMAIN out : i = 1 /\ out # <<>>
    BY <2>1
  <2>3. out # <<>> /\ out[1].type # "interrupt" => srv = NoQuery
    BY <1>1 DEF IInv, WireInv
  <2> QED BY <2>2, <2>3 DEF OneRequestAtATime
<1> QED BY <1>1, Invariant, PTL

\* What database/sql puts back into its pool carries nothing of the last operation: an
\* unread row, a response or a transaction would be met by the next user; the one
\* exception is a transaction that the server has refused to end
\* (driver.go:482-536, 691-712, 796-851).
THEOREM PooledIsClean ==
  ASSUME TxDeadlines \subseteq {FALSE}
  PROVE  Spec => []CleanWhenIdle
<1>1. ASSUME IInv PROVE CleanWhenIdle
  <2> SUFFICES ASSUME pooled, \A t \in Caller : th[t].pc = "idle", ~conn.netErr, ~conn.down
               PROVE  /\ out = <<>> /\ in = <<>> /\ srv = NoQuery /\ conn.mu = NoCaller
                      /\ conn.tx = 0 => db.tx # "open"
    BY DEF CleanWhenIdle
  <2>1. Types /\ CallerInv /\ WireInv /\ DbInv
    BY <1>1 DEF IInv
  <2> USE <2>1
  <2>2. Quiet
    BY DEF WireInv, Using, Locked, Reading
  <2>3. conn.mu = NoCaller
    BY DEF Types, ConnType, CallerInv, Locked
  <2>4. conn.tx = 0 => db.tx # "open"
    BY DEF DbInv
  <2> QED BY <2>2, <2>3, <2>4 DEF Quiet
<1> QED BY <1>1, Invariant, PTL
=============================================================================
