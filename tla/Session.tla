------------------------------ MODULE Session ------------------------------
(***************************************************************************)
(* One connection to a server and the goroutines that share it: Protocol    *)
(* (internal/protocol/protocol.go), the statements, rows and transactions    *)
(* that database/sql runs over it (driver/driver.go), and the requests of a  *)
(* client.Client (client/client.go).  The server and database/sql are        *)
(* external and modelled as the code uses them.                             *)
(***************************************************************************)
EXTENDS Integers, Sequences, FiniteSets

CONSTANTS Caller, NoCaller,
          Kinds,          \* the operations that callers use
          Pools,          \* is it a connection of database/sql, or of a Client: subset of BOOLEAN
          Deadlines,      \* may the context have a deadline: outside ...
          TxDeadlines,    \* ... and inside a transaction ...
          ClientDeadlines,   \* ... and for a Client
          MaxOps,         \* bound: operations
          MaxParts,       \* bound: responses of a query before the last one
          MaxTries,       \* retries of database/sql
          MaxBreaks       \* bound: connections that the server loses

\* The type of response that each operation decodes.
Reply ==
  [prepare |-> "stmt", exec |-> "result", query |-> "rows", begin |-> "result",
   commit |-> "result", rollback |-> "result", stmtExec |-> "result", stmtQuery |-> "rows",
   stmtClose |-> "empty", admin |-> "empty"]

ASSUME SessionAssumption ==
  /\ IsFiniteSet(Caller) /\ NoCaller \notin Caller
  /\ Kinds \subseteq DOMAIN Reply /\ Pools \subseteq BOOLEAN
  /\ Deadlines \subseteq BOOLEAN /\ TxDeadlines \subseteq BOOLEAN /\ ClientDeadlines \subseteq BOOLEAN
  /\ {MaxOps, MaxParts, MaxTries, MaxBreaks} \subseteq Nat

VARIABLES pooled,     \* whose connection it is
          conn,       \* the connection: Protocol and Conn
          out, in,    \* requests and responses on the wire
          srv,        \* the query whose rows the server is sending
          db,         \* the database: the transaction of the connection, its writes, the
                      \* writes that are durable, and those made in a transaction that was
                      \* left open
          th,         \* the callers
          ops,        \* operations so far; an operation is known by its number
          sure,       \* writes that were reported to be durable ...
          never,      \* ... and operations that were reported to be rolled back
          crossed,    \* a response was decoded by another operation
          breaks

wire   == <<out, in, srv>>
told   == <<sure, never>>
ghosts == <<ops, told, crossed>>
vars   == <<pooled, conn, wire, db, th, ghosts, breaks>>

Op       == 1..MaxOps
Fresh    == [open |-> TRUE, mu |-> NoCaller, netErr |-> FALSE, down |-> FALSE, dead |-> FALSE,
             prepared |-> FALSE, tx |-> 0, wrote |-> {}, failed |-> FALSE]
Gone     == [Fresh EXCEPT !.open = FALSE]
NoQuery  == [id |-> 0, left |-> 0]
Idle     == [pc |-> "idle", op |-> 0, kind |-> "exec", dl |-> FALSE, done |-> FALSE,
             rows |-> "none", tries |-> 0]
-----------------------------------------------------------------------------
(* How an operation ends.                                                  *)

\* What driverError makes of an error: "bad" stands for driver.ErrBadConn.
driverError(e) == IF e \in {"net", "eof", "lost"} THEN "bad" ELSE "error"

\* The Rows of a prepared statement have no log, and driverError calls it.
Panics(t, res) == res = "bad" /\ th[t].kind = "stmtQuery" /\ th[t].rows # "none"

Writes == {"exec", "stmtExec"}

\* What ends with the connection, or when the server gives up a transaction.
Aborted == [db EXCEPT !.tx = "none", !.pending = {}]

\* The connection c when an operation of t is over: a transaction, known by the
\* operation that began it, begins or ends, a statement exists.
Settled(t, res, c) ==
  LET kind == th[t].kind
      tx   == IF kind = "begin" THEN (IF res = "ok" THEN th[t].op ELSE 0)
              ELSE IF kind \in {"commit", "rollback"} THEN 0 ELSE c.tx
  IN  [c EXCEPT !.prepared = @ \/ (kind = "prepare" /\ res = "ok"), !.tx = tx,
                !.wrote = IF tx = 0 THEN {}
                          ELSE IF kind \in Writes /\ res = "ok" THEN @ \cup {th[t].op} ELSE @,
                !.failed = tx # 0 /\ (@ \/ (res # "ok" /\ kind # "stmtClose"))]

\* What a caller of the driver may rely on when its operation has succeeded.
Tell(t, res) ==
  LET op == th[t].op
  IN  /\ sure' = sure \cup (IF res # "ok" THEN {}
                           ELSE IF th[t].kind = "commit" THEN conn.wrote
                           ELSE IF th[t].kind \in Writes /\ conn.tx = 0 THEN {op} ELSE {})
      /\ never' = never \cup (IF res = "ok" /\ th[t].kind = "rollback" THEN conn.tx..op ELSE {})

\* The connection is c, or is closed and everything on it lost.
Leave(gone, c, i) ==
  /\ conn' = IF gone THEN Gone ELSE c
  /\ out' = IF gone THEN <<>> ELSE out
  /\ in' = IF gone THEN <<>> ELSE i
  /\ srv' = IF gone THEN NoQuery ELSE srv
  /\ db' = IF gone THEN Aborted ELSE db

\* The operation of t returns.  database/sql closes a connection that is bad,
\* unless a transaction holds it, and tries again what returned no rows yet; an
\* error of Stmt.Close it ignores.  Otherwise the connection is c, with the
\* responses i still to be read.
Finish(t, res, c, i) ==
  LET after == Settled(t, res, c)
      gone  == res = "bad" /\ pooled /\ after.tx = 0 /\ th[t].kind # "stmtClose"
      again == gone /\ conn.tx = 0 /\ th[t].rows = "none" /\ th[t].tries < MaxTries
  IN  /\ Leave(gone, after, i) /\ Tell(t, res)
      /\ th' = [th EXCEPT ![t] = IF Panics(t, res) THEN [th[t] EXCEPT !.pc = "panic"]
                                 ELSE IF again THEN [th[t] EXCEPT !.pc = "open", !.tries = @ + 1]
                                 ELSE Idle]

Unlocked(c) == [c EXCEPT !.mu = NoCaller]
Goto(t, pc) == th' = [th EXCEPT ![t].pc = pc]
Late(t) == th[t].dl /\ th[t].done
-----------------------------------------------------------------------------
(* The operations: each encodes a request and hands it to Protocol.Call.   *)

\* database/sql shares no connection, and its users roll back a transaction in
\* which something has failed.
Begin(t, kind, dls) ==
  /\ th[t].pc = "idle" /\ kind \in Kinds /\ ops < MaxOps
  /\ pooled <=> kind # "admin"
  /\ pooled => t = CHOOSE one \in Caller : TRUE
  /\ conn.failed => kind = "rollback"
  /\ ops' = ops + 1
  /\ \E dl \in dls :
       th' = [th EXCEPT ![t] = [Idle EXCEPT !.pc = IF conn.open THEN "lock" ELSE "open",
                                            !.op = ops', !.kind = kind, !.dl = dl]]
  /\ UNCHANGED <<conn, wire, db, told, crossed, breaks>>

Ctx == IF conn.tx # 0 THEN TxDeadlines ELSE Deadlines

PrepareContext(t)   == Begin(t, "prepare", Ctx)
ExecContext(t)      == Begin(t, "exec", Ctx)
QueryContext(t)     == Begin(t, "query", Ctx)
BeginTx(t)          == conn.tx = 0 /\ Begin(t, "begin", Ctx)
Commit(t)           == conn.tx # 0 /\ Begin(t, "commit", {FALSE})
Rollback(t)         == conn.tx # 0 /\ Begin(t, "rollback", {FALSE})
StmtExecContext(t)  == conn.prepared /\ Begin(t, "stmtExec", Ctx)
StmtQueryContext(t) == conn.prepared /\ Begin(t, "stmtQuery", Ctx)
StmtClose(t)        == conn.prepared /\ Begin(t, "stmtClose", {FALSE})
ClientRequest(t)    == Begin(t, "admin", ClientDeadlines)

\* A new connection for the pool: find the leader, open the database.
Connect(t) ==
  /\ th[t].pc = "open"
  /\ \/ conn' = Fresh /\ Goto(t, "lock")
     \/ UNCHANGED conn /\ th' = [th EXCEPT ![t] = Idle]
  /\ UNCHANGED <<wire, db, ghosts, breaks>>
-----------------------------------------------------------------------------
(* Protocol.Call.                                                          *)

\* Mutant of Call: there is no lock.
CallUnlocked(t) ==
  /\ th[t].pc = "lock" /\ ~conn.netErr /\ Goto(t, "send")
  /\ UNCHANGED <<conn, wire, db, ghosts, breaks>>

\* Take the lock; a connection that has failed before fails at once.
Call(t) ==
  /\ th[t].pc = "lock" /\ conn.mu = NoCaller
  /\ IF conn.netErr
     THEN Finish(t, driverError("net"), conn, in)
     ELSE /\ conn' = [conn EXCEPT !.mu = t] /\ Goto(t, "send")
          /\ UNCHANGED <<wire, db, told>>
  /\ UNCHANGED <<ops, crossed, breaks>>

\* What a request leaves on the wire.
\* The first one on a broken connection may be lost without an error.
Sent(t, type) == IF conn.down THEN out ELSE Append(out, [id |-> th[t].op, type |-> type])

Send(t) ==
  /\ th[t].pc = "send" /\ ~Late(t) /\ ~conn.dead
  /\ out' = Sent(t, th[t].kind) /\ Goto(t, "recv")
  /\ UNCHANGED <<conn, in, srv, db, ghosts, breaks>>

\* Once a write has failed because the connection is broken, so does every other.
Unwritable(c) == [c EXCEPT !.dead = @ \/ c.down]

\* A network error is remembered.
SendError(t) ==
  /\ th[t].pc = "send" /\ (Late(t) \/ conn.down)
  /\ Finish(t, driverError("net"), [Unwritable(Unlocked(conn)) EXCEPT !.netErr = TRUE], in)
  /\ UNCHANGED <<ops, crossed, breaks>>

\* Mutant of Decode: a failure is not looked for.
DecodeAny(t, type) ==
  IF type = "failure" \/ type = Reply[th[t].kind]
     \/ (type \in {"part", "last"} /\ Reply[th[t].kind] = "rows")
  THEN "ok" ELSE "type"

\* The error in a response, or "ok": a failure, or not the type that is expected.
Decode(t, type) ==
  IF type \in {"failure", "lost"} THEN type
  ELSE IF type = Reply[th[t].kind] \/ (type \in {"part", "last"} /\ Reply[th[t].kind] = "rows")
  THEN "ok" ELSE "type"

\* Mutant of Recv: a Client that is refused leaves the body of the response unread.
RecvHeader(t) ==
  /\ th[t].pc = "recv" /\ ~Late(t) /\ in # <<>>
  /\ LET r == Head(in)
         e == Decode(t, r.type)
     IN  IF e = "ok" /\ Reply[th[t].kind] = "rows"
         THEN /\ th' = [th EXCEPT ![t].pc = "rows", ![t].rows = r.type]
              /\ conn' = Unlocked(conn) /\ in' = Tail(in)
              /\ UNCHANGED <<out, srv, db, told>>
         ELSE Finish(t, IF e = "ok" THEN "ok" ELSE driverError(e), Unlocked(conn),
                     IF e = "ok" \/ pooled THEN Tail(in) ELSE in)
  /\ crossed' = (crossed \/ Head(in).id # th[t].op)
  /\ UNCHANGED <<ops, breaks>>

Recv(t) ==
  /\ th[t].pc = "recv" /\ ~Late(t) /\ in # <<>>
  /\ LET r == Head(in)
         e == Decode(t, r.type)
     IN  IF e = "ok" /\ Reply[th[t].kind] = "rows"
         THEN /\ th' = [th EXCEPT ![t].pc = "rows", ![t].rows = r.type]
              /\ conn' = Unlocked(conn) /\ in' = Tail(in)
              /\ UNCHANGED <<out, srv, db, told>>
         ELSE Finish(t, IF e = "ok" THEN "ok" ELSE driverError(e), Unlocked(conn), Tail(in))
  /\ crossed' = (crossed \/ Head(in).id # th[t].op)
  /\ UNCHANGED <<ops, breaks>>

\* Mutant of RecvError: an error keeps the lock.
RecvErrorLocked(t) ==
  /\ th[t].pc = "recv" /\ Late(t)
  /\ Finish(t, driverError("net"), [conn EXCEPT !.netErr = TRUE], in)
  /\ UNCHANGED <<ops, crossed, breaks>>

RecvError(t) ==
  /\ th[t].pc = "recv"
  /\ \E e \in {"net", "eof"} :
       /\ (e = "net" /\ Late(t)) \/ (conn.down /\ in = <<>>)
       /\ Finish(t, driverError(e), [Unlocked(conn) EXCEPT !.netErr = (e = "net")], in)
  /\ UNCHANGED <<ops, crossed, breaks>>
-----------------------------------------------------------------------------
(* Rows.                                                                   *)

\* What protocol.Rows.Next finds after the rows of a response: the marker for the
\* end, or for more of them.
EndOfRows(rows) == CASE rows = "last" -> {"EOF"} [] rows = "part" -> {"ErrRowsPart"} [] OTHER -> {}

\* The rows of the current response have been read.
RowsNext(t) ==
  /\ th[t].pc = "rows"
  /\ \/ "EOF" \in EndOfRows(th[t].rows) /\ th' = [th EXCEPT ![t].rows = "consumed"]
     \/ "ErrRowsPart" \in EndOfRows(th[t].rows) /\ Goto(t, "more")
  /\ UNCHANGED <<conn, wire, db, ghosts, breaks>>

\* Rows.Next returns the error e and leaves the response buffer as it is.
RowsFail(t, e, rows) ==
  th' = [th EXCEPT ![t].pc = IF Panics(t, driverError(e)) THEN "panic" ELSE "rows",
                   ![t].rows = rows]

\* Protocol.More takes no lock and has no deadline.
More(t) ==
  /\ th[t].pc = "more"
  /\ \/ /\ in # <<>> /\ in' = Tail(in)
        /\ crossed' = (crossed \/ Head(in).id # th[t].op)
        /\ LET r == Head(in)
               e == Decode(t, r.type)
           IN  IF e = "ok"
               THEN th' = [th EXCEPT ![t].pc = "rows", ![t].rows = r.type]
               ELSE RowsFail(t, e, IF e = "type" THEN "torn" ELSE "failed")
     \/ /\ conn.down /\ in = <<>> /\ RowsFail(t, "eof", "torn")
        /\ UNCHANGED <<in, crossed>>
  /\ UNCHANGED <<conn, out, srv, db, ops, told, breaks>>

\* Mutant of RowsClose: rows that were not read to their end are forgotten.
RowsCloseQuiet(t) ==
  /\ th[t].pc = "rows" /\ Finish(t, "ok", conn, in)
  /\ UNCHANGED <<ops, crossed, breaks>>

\* What protocol.Rows.Close finds in the last byte of the response: the marker for
\* the end or another one.  A response that is not the one the rows are in, or was
\* not received in full, can look like either.
LastByte(rows) == CASE rows = "torn" -> {"EOF", "other"} [] rows \in {"part", "failed"} -> {"other"}
                    [] OTHER -> {"EOF"}

\* There is nothing to do when the rows were read to their end, or are all there.
RowsClose(t) ==
  /\ th[t].pc = "rows"
  /\ \/ "EOF" \in LastByte(th[t].rows) /\ Finish(t, "ok", conn, in)
     \/ /\ "other" \in LastByte(th[t].rows) /\ Goto(t, "intLock")
        /\ UNCHANGED <<conn, wire, db, told>>
  /\ UNCHANGED <<ops, crossed, breaks>>
-----------------------------------------------------------------------------
(* Protocol.Interrupt, under the context of the query.                     *)

Interrupt(t) ==
  /\ th[t].pc = "intLock" /\ conn.mu = NoCaller
  /\ conn' = [conn EXCEPT !.mu = t] /\ Goto(t, "intSend")
  /\ UNCHANGED <<wire, db, ghosts, breaks>>

InterruptSend(t) ==
  /\ th[t].pc = "intSend" /\ ~Late(t) /\ ~conn.dead
  /\ out' = Sent(t, "interrupt") /\ Goto(t, "intRecv")
  /\ UNCHANGED <<conn, in, srv, db, ghosts, breaks>>

\* Responses are dropped until the empty one.
InterruptRecv(t) ==
  /\ th[t].pc = "intRecv" /\ ~Late(t) /\ in # <<>>
  /\ IF Head(in).type = "empty" THEN Finish(t, "ok", Unlocked(conn), Tail(in))
     ELSE in' = Tail(in) /\ UNCHANGED <<conn, out, srv, db, th, told>>
  /\ UNCHANGED <<ops, crossed, breaks>>

\* The error is not remembered.
InterruptError(t) ==
  /\ \/ th[t].pc = "intSend" /\ (Late(t) \/ conn.down)
     \/ th[t].pc = "intRecv" /\ (Late(t) \/ (conn.down /\ in = <<>>))
  /\ Finish(t, driverError("net"), IF th[t].pc = "intSend" THEN Unwritable(Unlocked(conn))
                                  ELSE Unlocked(conn), in)
  /\ UNCHANGED <<ops, crossed, breaks>>
-----------------------------------------------------------------------------
(* The context, the server and the network.                                *)

\* The context of t's operation is cancelled or reaches its deadline.  Without a
\* deadline nobody looks at it; CtxHonoured is about the calls of a Client.
CtxDone(t) ==
  /\ th[t].pc \notin {"idle", "panic"} /\ ~th[t].done /\ (th[t].dl \/ ~pooled)
  /\ th' = [th EXCEPT ![t].done = TRUE]
  /\ UNCHANGED <<conn, wire, db, ghosts, breaks>>

\* What a request does to the database.
Effect(rq) ==
  [db EXCEPT !.tx = IF rq.type \in {"commit", "rollback"} THEN "none"
                    ELSE IF rq.type = "begin" THEN "open" ELSE @,
             !.pending = IF rq.type \in {"commit", "rollback"} THEN {}
                         ELSE IF rq.type \in Writes /\ db.tx # "none" THEN @ \cup {rq.id} ELSE @,
             !.durable = IF rq.type = "commit" THEN @ \cup db.pending
                         ELSE IF rq.type \in Writes /\ db.tx = "none" THEN @ \cup {rq.id} ELSE @,
             !.doubt = IF rq.type \in Writes /\ db.tx = "left" THEN @ \cup {rq.id} ELSE @]

\* A transaction can begin, or end, only if there is none, or one.
Sensible(rq) == /\ rq.type = "begin" => db.tx = "none"
                /\ rq.type \in {"commit", "rollback"} => db.tx # "none"

\* The database when a request has no effect: an error may have ended the transaction.
Dropped(rq) == IF rq.type = "stmtClose" THEN {db} ELSE {db, Aborted}

\* A COMMIT or ROLLBACK that is refused has ended the transaction, or has left it open
\* on the server, for instance for a constraint that is checked on commit.
LeftOpen == [db EXCEPT !.tx = "left"]
Refused(rq) == IF rq.type \notin {"commit", "rollback"} THEN Dropped(rq)
               ELSE IF db.tx = "none" THEN {db} ELSE {Aborted, LeftOpen}

\* A server that loses leadership does not know whether the request went through,
\* and may have given up the transaction.
Serve ==
  /\ out # <<>> /\ ~conn.down /\ out' = Tail(out)
  /\ LET rq == Head(out)
         Answer(type) == in' = Append(in, [id |-> rq.id, type |-> type])
     IN  \/ rq.type = "interrupt" /\ Answer("empty") /\ srv' = NoQuery /\ UNCHANGED db
         \/ /\ rq.type # "interrupt" /\ srv = NoQuery
            /\ \/ /\ Sensible(rq) /\ Reply[rq.type] # "rows" /\ Answer(Reply[rq.type])
                  /\ db' = Effect(rq) /\ UNCHANGED srv
               \/ /\ Reply[rq.type] = "rows" /\ db' = Effect(rq) /\ UNCHANGED in
                  /\ \E n \in 0..MaxParts : srv' = [id |-> rq.id, left |-> n]
               \/ Answer("failure") /\ db' \in Refused(rq) /\ UNCHANGED srv
               \/ /\ Answer("lost") /\ UNCHANGED srv
                  /\ (Sensible(rq) /\ db' = Effect(rq)) \/ db' \in Dropped(rq)
  /\ UNCHANGED <<conn, th, ops, told, crossed, breaks>>

Stream ==
  /\ srv # NoQuery /\ ~conn.down
  /\ LET Answer(type) == in' = Append(in, [id |-> srv.id, type |-> type])
     IN  \/ srv.left > 0 /\ Answer("part") /\ srv' = [srv EXCEPT !.left = @ - 1]
         \/ srv.left = 0 /\ Answer("last") /\ srv' = NoQuery
         \/ \E e \in {"failure", "lost"} : Answer(e) /\ srv' = NoQuery
  /\ UNCHANGED <<conn, out, db, th, ghosts, breaks>>

\* The connection breaks; what the server has sent may still arrive.
Break ==
  /\ breaks < MaxBreaks /\ conn.open /\ ~conn.down
  /\ breaks' = breaks + 1 /\ conn' = [conn EXCEPT !.down = TRUE]
  /\ out' = <<>> /\ srv' = NoQuery /\ in' \in {in, <<>>} /\ db' = Aborted
  /\ UNCHANGED <<th, ghosts>>
-----------------------------------------------------------------------------
Init ==
  /\ pooled \in Pools
  /\ db = [tx |-> "none", pending |-> {}, durable |-> {}, doubt |-> {}]
  /\ conn = Fresh /\ out = <<>> /\ in = <<>> /\ srv = NoQuery
  /\ th = [t \in Caller |-> Idle] /\ ops = 0
  /\ sure = {} /\ never = {} /\ crossed = FALSE /\ breaks = 0

Operation(t) ==
  \/ PrepareContext(t) \/ ExecContext(t) \/ QueryContext(t) \/ BeginTx(t) \/ Commit(t)
  \/ Rollback(t) \/ StmtExecContext(t) \/ StmtQueryContext(t) \/ StmtClose(t) \/ ClientRequest(t)

\* A caller's goroutine, until its operation returns.
Step(t) ==
  \/ Connect(t) \/ Call(t) \/ Send(t) \/ SendError(t) \/ Recv(t) \/ RecvError(t)
  \/ RowsNext(t) \/ More(t) \/ RowsClose(t)
  \/ Interrupt(t) \/ InterruptSend(t) \/ InterruptRecv(t) \/ InterruptError(t)

Next ==
  /\ Serve \/ Stream \/ Break \/ \E t \in Caller : Operation(t) \/ Step(t) \/ CtxDone(t)
  /\ UNCHANGED pooled

Spec == Init /\ [][Next]_vars

\* Goroutines run, contexts with a deadline reach it, and the mutex goes to every
\* goroutine that waits for it; nothing is assumed of the server.
FairSpec ==
  /\ Spec
  /\ \A t \in Caller : LET Do(A) == A /\ UNCHANGED pooled
                       IN  /\ SF_vars(Do(Call(t))) /\ SF_vars(Do(Interrupt(t)))
                           /\ WF_vars(Do(Step(t))) /\ WF_vars(Do(CtxDone(t) /\ th[t].dl))
-----------------------------------------------------------------------------
(* Properties.                                                             *)

\* The values the variables may take.
TypeOK ==
  /\ conn \in [open : BOOLEAN, mu : Caller \cup {NoCaller}, netErr : BOOLEAN,
               down : BOOLEAN, dead : BOOLEAN, prepared : BOOLEAN,
               tx : {0} \cup Op, wrote : SUBSET Op, failed : BOOLEAN]
  /\ pooled \in BOOLEAN
  /\ db \in [tx : {"none", "open", "left"}, pending : SUBSET Op, durable : SUBSET Op,
             doubt : SUBSET Op]
  /\ out \in Seq([id : Op, type : DOMAIN Reply \cup {"interrupt"}])
  /\ in \in Seq([id : Op, type : {"stmt", "result", "empty", "part", "last", "failure", "lost"}])
  /\ srv \in [id : {0} \cup Op, left : 0..MaxParts]
  /\ th \in [Caller ->
        [pc : {"idle", "open", "lock", "send", "recv", "rows", "more", "intLock", "intSend",
               "intRecv", "panic"},
         op : {0} \cup Op, kind : DOMAIN Reply, dl : BOOLEAN, done : BOOLEAN,
         rows : {"none", "part", "last", "consumed", "failed", "torn"},
         tries : 0..MaxTries]]
  /\ ops \in 0..MaxOps /\ sure \subseteq Op /\ never \subseteq Op
  /\ crossed \in BOOLEAN /\ breaks \in Nat

\* A caller decodes only responses to its own request, whatever broke, was abandoned
\* or, outside of a transaction, timed out on the connection before
\* (protocol.go:41-53, driver.go:691-712).
AnswersMatch == ~crossed

\* The server never has two requests at a time, except that one of them is an
\* interrupt (protocol.go:36-39).
OneRequestAtATime ==
  \A i \in DOMAIN out : out[i].type # "interrupt" =>
    srv = NoQuery /\ \A j \in DOMAIN out \ {i} : out[j].type = "interrupt"

\* A connection of the pool that nobody uses and that can still be used is quiet: no
\* request, no response and no rows of an earlier operation are on their way, and no
\* transaction of its last user is open on the server, except one that the server has
\* refused to end (driver.go:482-536, 691-712, 796-851, protocol.go:84-115).
CleanWhenIdle ==
  pooled /\ (\A t \in Caller : th[t].pc = "idle") /\ conn.open /\ ~conn.netErr /\ ~conn.down
    => /\ out = <<>> /\ in = <<>> /\ srv = NoQuery /\ conn.mu = NoCaller
       /\ conn.tx = 0 => db.tx # "open"

\* What is reported to have succeeded is durable: a write outside of a transaction, or
\* one in a transaction that was reported to be committed; the exception is a write
\* that runs into the transaction that an earlier user could not end.  Nothing of a
\* transaction that was reported to be rolled back is durable, whatever was retried,
\* lost or abandoned in between (driver.go:382-410, 517-536, 785-851).
TellsTruth == sure \subseteq db.durable \cup db.doubt /\ never \cap db.durable = {}

\* An operation whose context is done returns, whether or not the server ever
\* answers (protocol.go:57-62).
CtxHonoured ==
  \A t \in Caller : th[t].done /\ ~pooled ~> th[t].pc = "idle"
=============================================================================
