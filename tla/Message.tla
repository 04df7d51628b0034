------------------------------ MODULE Message ------------------------------
(***************************************************************************)
(* One Message of a connection (internal/protocol/message.go): the buffer    *)
(* in which requests are encoded one after the other (request.go), or into   *)
(* which Protocol receives responses (protocol.go) that are then decoded     *)
(* (response.go) and, if they hold rows or files, read step by step by the   *)
(* Rows of the driver (driver/driver.go) or by the client.  The server is    *)
(* external; what it reads and writes is in WireFormat.                     *)
(***************************************************************************)
EXTENDS WireFormat

CONSTANTS Requests,     \* the requests that may be encoded
          Replies,      \* what the server may answer, and what it is decoded as
          BufferSize,   \* the size given to Init
          Times,        \* the texts that parse as a time
          Chunks,       \* bound: how many bytes a read may return
          MaxUint8,     \* the largest 8-bit count
          Prepared,     \* may the rows be those of a prepared statement
          SizeBits,     \* the width of the size of a message, 32 in the code
          MaxMessages   \* bound: requests or replies

ASSUME MessageAssumption ==
  /\ BufferSize \in Nat \ {0} /\ BufferSize % messageWordSize = 0
  /\ Chunks \subseteq Nat \ {0} /\ Prepared \subseteq BOOLEAN
  /\ {MaxUint8, SizeBits, MaxMessages} \subseteq Nat

VARIABLES use,    \* "request" or "response"
          msg,    \* the message
          phase,  \* what is being done with it
          goal,   \* what a response is received for: "decode", "more" or "interrupt"
          fill,   \* how much of the header or the body has been received
          wire,   \* what the server has sent and nobody has read yet
          rows,   \* the Rows or the Files that read from the message
          todo,   \* what the reply still holds, as the server meant it
          last,   \* what the last operation gave, and what it should have given
          count   \* messages so far

vars == <<use, msg, phase, goal, fill, wire, rows, todo, last, count>>
-----------------------------------------------------------------------------
(* Writing.  A message that panics keeps the reason in fault.              *)

\* What base becomes by op with each element of seq in turn: FoldLeft, but the set
\* makes TLC finish one step before it begins the next.
Through(op(_, _), base, seq) ==
  LET after[i \in 0..Len(seq)] ==
        IF i = 0 THEN base ELSE CHOOSE x \in {op(a, seq[i]) : a \in {after[i - 1]}} : TRUE
  IN  after[Len(seq)]

NewMessage == [bytes |-> Zeros(BufferSize), off |-> 0, words |-> 0, mtype |-> 0, schema |-> 0,
               header |-> Zeros(messageWordSize), fault |-> "none"]

reset(m) == [m EXCEPT !.words = 0, !.mtype = 0, !.schema = 0,
                      !.header = Zeros(messageWordSize), !.off = 0]

\* The size of a buffer of n bytes once it has been doubled until need fits.
Grown(n, need) == n * 2^(CHOOSE k \in 0..need : /\ n * 2^k >= need
                                                /\ k > 0 => n * 2^(k - 1) < need)

\* Mutant of bufferForPut: the larger buffer starts empty.
bufferForPutEmpty(m, n) ==
  LET len == Grown(Len(m.bytes), m.off + n)
  IN  IF len = Len(m.bytes) THEN m ELSE [m EXCEPT !.bytes = Zeros(len)]

bufferForPut(m, n) ==
  [m EXCEPT !.bytes = @ \o Zeros(Grown(Len(@), m.off + n) - Len(@))]

\* The buffer buf with the bytes b at the offset at.
Filled(buf, at, b) == SubSeq(buf, 1, at) \o b \o SubSeq(buf, at + Len(b) + 1, Len(buf))

Put(m, b) == [bufferForPut(m, Len(b)) EXCEPT !.bytes = Filled(@, m.off, b), !.off = @ + Len(b)]

\* The padding after n bytes.
pad(n) == IF n % messageWordSize # 0 THEN messageWordSize - (n % messageWordSize) ELSE 0

putUint8(m, v)  == Put(m, Bytes(v, 1))
putUint32(m, v) == Put(m, Bytes(v, 4))
putUint64(m, v) == Put(m, Bytes(v, 8))
putBlob(m, v)   == Put(putUint64(m, Len(v)), v \o Zeros(pad(Len(v))))

putString(m, v) == Put(m, Append(v, 0) \o Zeros(pad(Len(v) + 1)))

putValue(m, p) ==
  CASE p.type \in {"Integer", "Float"} -> putUint64(m, p.v)
    [] p.type = "Boolean" -> putUint64(m, IF p.v THEN 1 ELSE 0)
    [] p.type = "Blob" -> putBlob(m, p.v)
    [] p.type \in {"Text", "ISO8601"} -> putString(m, p.v)
    [] p.type = "Null" -> putUint64(m, 0)

\* The types, then the values; the padding between them is skipped, not written.
putNamedValuesInner(m, values) ==
  LET types == bufferForPut(Through(LAMBDA a, p : putUint8(a, TypeCode[p.type]), m, values), 1)
  IN  Through(putValue, [types EXCEPT !.off = @ + pad(@)], values)

putNamedValues(m, values) ==
  IF values = <<>> THEN m
  ELSE IF Len(values) > MaxUint8 THEN [m EXCEPT !.fault = "too many parameters"]
  ELSE putNamedValuesInner(putUint8(m, Len(values)), values)

putNamedValues32(m, values) ==
  IF values = <<>> THEN m ELSE putNamedValuesInner(putUint32(m, Len(values)), values)

putField(m, f) ==
  CASE f.kind = "uint64" -> putUint64(m, f.v)
    [] f.kind = "uint32" -> putUint32(m, f.v)
    [] f.kind = "string" -> putString(m, f.v)
    [] f.kind = "values" -> IF f.version = 0 THEN putNamedValues(m, f.v)
                            ELSE putNamedValues32(m, f.v)

putHeader(m, mtype, schema) ==
  IF m.fault # "none" THEN m
  ELSE IF m.off <= 0 \/ m.off % messageWordSize # 0 THEN [m EXCEPT !.fault = "not aligned"]
  ELSE LET words == (m.off % 2^SizeBits) \div messageWordSize
       IN  IF words = 0 THEN [m EXCEPT !.fault = "empty"]
           ELSE [m EXCEPT !.mtype = mtype, !.schema = schema, !.words = words,
                          !.header = Bytes(words, 4) \o <<mtype, schema, 0, 0>>]

\* Mutant of version: as many values as do not fit are sent in the old format.
versionLate(values) == IF Len(values) > MaxUint8 + 1 THEN 1 ELSE 0

\* The version of the request with which the driver sends values.
version(values) == IF Len(values) > MaxUint8 THEN 1 ELSE 0

RequestVersion(r) ==
  LET fields == RequestFields[r.type]
  IN  IF Last(fields) = "values" THEN version(Last(r.v)) ELSE 0

EncodeRequest(m, r) ==
  LET fields == RequestFields[r.type]
      v == RequestVersion(r)
  IN  putHeader(Through(putField, reset(m),
                  [i \in DOMAIN fields |-> [kind |-> fields[i], v |-> r.v[i], version |-> v]]),
                RequestCode[r.type], v)
-----------------------------------------------------------------------------
(* Reading.  A read gives the message after it and the value.              *)

size(m) == (m.words * messageWordSize) % 2^SizeBits

Faulty(m, why) == IF m.fault = "none" THEN [m EXCEPT !.fault = why] ELSE m

bufferForGet(m) == IF m.off = size(m) THEN Faulty(m, "short message") ELSE m

\* The next n bytes of a message that has more.
Take(m, n) ==
  IF m.fault = "none" /\ m.off + n <= Len(m.bytes)
  THEN [m |-> [m EXCEPT !.off = @ + n], v |-> SubSeq(m.bytes, m.off + 1, m.off + n)]
  ELSE [m |-> Faulty(m, "out of range"), v |-> Zeros(n)]

Get(m, n) == Take(bufferForGet(m), n)

\* n bytes, one at a time.
GetEach(m, n) ==
  IF n = 0 THEN [m |-> m, v |-> <<>>]
  ELSE IF m.off <= size(m) /\ size(m) < m.off + n
  THEN [m |-> Faulty(m, "short message"), v |-> Zeros(n)]
  ELSE Get(m, n)

getUint32(m) == [Get(m, 4) EXCEPT !.v = Unsigned(@)]
getUint64(m) == [Get(m, 8) EXCEPT !.v = Unsigned(@)]
getInt64(m)  == [Get(m, 8) EXCEPT !.v = Signed(@)]

\* Where the string at the offset ends, or the end of the buffer.
IndexByte(m) ==
  LET ends == {i \in (m.off + 1)..Len(m.bytes) : m.bytes[i] = 0}
  IN  IF ends = {} THEN Len(m.bytes) + 1 ELSE Min(ends)

\* The n - 1 bytes of a string in a message that has more, its end and the padding.
TakeString(m, n) ==
  IF m.fault # "none" \/ m.off + n > Len(m.bytes)
  THEN [m |-> Faulty(m, "no string found"), v |-> <<>>]
  ELSE [m |-> [m EXCEPT !.off = @ + n + pad(n)], v |-> SubSeq(m.bytes, m.off + 1, m.off + n - 1)]

getString(m) == TakeString(bufferForGet(m), IndexByte(m) - m.off)

\* Skip the padding of what g has read, a byte at a time.
SkipPad(g) == [g EXCEPT !.m = GetEach(@, pad(Len(g.v))).m]

\* As many bytes as n, a number that was read, says.
GetCounted(n) == GetEach(n.m, n.v)

getBlob(m) == SkipPad(GetCounted(getUint64(m)))

\* A field after the ones that c holds.
GetField(c, kind) ==
  LET Appended(g) == [g EXCEPT !.v = Append(c.v, @)]
  IN  Appended(CASE kind = "uint32" -> getUint32(c.m)
                 [] kind = "uint64" -> getUint64(c.m)
                 [] kind = "string" -> getString(c.m))

GetEachField(m, kinds) == Through(GetField, [m |-> m, v |-> <<>>], kinds)

\* The fields of a response: one after the other, or a count n and as many units of fields.
GetFields(m, kinds) ==
  LET Units(n) == GetEachField(n.m, FlattenSeq([i \in 1..n.v |->
                    IF kinds = <<"Nodes">> THEN <<"uint64", "string", "uint64">> ELSE <<"string">>]))
  IN  IF kinds \in {<<"Nodes">>, <<"columns">>} THEN Units(getUint64(m)) ELSE GetEachField(m, kinds)

\* A response decoded as type: its fields, a failure, or an error.
DecodeResponse(m, type) ==
  IF m.mtype = ResponseCode["Failure"]
  THEN [GetFields(m, ResponseFields["Failure"]) EXCEPT !.v = <<"failure", @>>]
  ELSE IF m.mtype # ResponseCode[type] THEN [m |-> m, v |-> <<"unexpected type">>]
  ELSE [GetFields(m, ResponseFields[type]) EXCEPT !.v = <<"ok", @>>]
-----------------------------------------------------------------------------
(* Rows and Files.                                                         *)

NoRows   == [kind |-> "none", n |-> 0, known |-> FALSE, types |-> <<>>, names |-> <<>>,
             consumed |-> FALSE, log |-> TRUE]
RowsOf(n, log) == [NoRows EXCEPT !.kind = "rows", !.n = n, !.log = log]

\* The types of the next row, two in a byte; a marker in their place says that there
\* are no more rows here.  With save the offset stays where it is.
readTypes(m, r, save) ==
  LET headerSize == ((r.n * 4 + 63) \div 64) * messageWordSize
      ahead  == SubSeq(m.bytes, m.off + 1, Min({m.off + headerSize, Len(m.bytes)}))
      marker == SelectInSeq(ahead, LAMBDA b : b \in {238, 255})
      n      == IF marker = 0 THEN headerSize ELSE marker
      read   == IF marker = 0 THEN headerSize ELSE marker - 1
      h      == GetEach(m, n)
      old    == IF r.known THEN r.types ELSE Zeros(r.n)
      types  == [i \in 1..r.n |-> LET byte == (i + 1) \div 2
                                  IN  IF byte > read THEN old[i]
                                      ELSE IF i % 2 = 1 THEN h.v[byte] % 16
                                      ELSE h.v[byte] \div 16]
  IN  [m   |-> IF r.n = 0 THEN m
               ELSE IF save THEN [bufferForGet(h.m) EXCEPT !.off = @ - n] ELSE h.m,
       r   |-> [r EXCEPT !.known = TRUE, !.types = types],
       err |-> IF r.n = 0 THEN "EOF"
               ELSE IF marker = 0 THEN "none"
               ELSE IF ahead[marker] = 255 THEN "EOF" ELSE "ErrRowsPart"]

\* Types that are only looked at are read once.
columnTypes(m, r, save) ==
  IF save /\ r.known THEN [m |-> m, r |-> r, err |-> "none"] ELSE readTypes(m, r, save)

\* The value of a column of type code t, after the values that c holds.
GetColumn(c, t) ==
  LET Tagged(tag, g) == [c EXCEPT !.m = g.m, !.v = Append(@, <<tag, g.v>>)]
      text == getString(c.m)
  IN  IF c.err # "none" THEN c
      ELSE CASE t = TypeCode["Integer"]  -> Tagged("Integer", getInt64(c.m))
             [] t = TypeCode["Float"]    -> Tagged("Float", getInt64(c.m))
             [] t = TypeCode["Blob"]     -> Tagged("Blob", getBlob(c.m))
             [] t = TypeCode["Text"]     -> Tagged("Text", text)
             [] t = TypeCode["Null"]     -> [c EXCEPT !.m = getUint64(c.m).m, !.v = Append(@, <<"Null">>)]
             [] t = TypeCode["UnixTime"] -> Tagged("UnixTime", getInt64(c.m))
             [] t = TypeCode["ISO8601"]  ->
                  IF text.v = <<>> THEN [c EXCEPT !.m = text.m, !.v = Append(@, <<"Null">>)]
                  ELSE IF text.v \in Times THEN Tagged("ISO8601", text)
                  ELSE [c EXCEPT !.m = text.m, !.err = "error"]
             [] t = TypeCode["Boolean"]  ->
                  LET g == getInt64(c.m) IN Tagged("Boolean", [m |-> g.m, v |-> g.v # 0])
             [] OTHER -> [c EXCEPT !.m = Faulty(c.m, "unknown data type")]

\* protocol.Rows.Next: a row, or why there is none.
rowsNext(m, r) ==
  LET Row(c, types) ==
        [m |-> c.m, r |-> types, v |-> IF c.err # "none" THEN <<c.err>> ELSE <<"row", c.v>>]
      Read(t) ==
        IF t.err # "none" THEN [m |-> t.m, r |-> t.r, v |-> <<t.err>>]
        ELSE Row(Through(GetColumn, [m |-> t.m, v |-> <<>>, err |-> "none"], t.r.types), t.r)
  IN  Read(columnTypes(m, r, FALSE))

hasBeenConsumed(m) == m.off = size(m)

\* Mutant of lastByte: the last byte of the buffer.
lastByteBuffer(m) == Last(m.bytes)

lastByte(m) == m.bytes[size(m)]

\* The error of protocol.Rows.Close, which resets the message.
rowsClose(m) ==
  IF hasBeenConsumed(m) THEN "none"
  ELSE CASE lastByte(m) = 238 -> "ErrRowsPart" [] lastByte(m) = 255 -> "EOF" [] OTHER -> "error"
-----------------------------------------------------------------------------
(* Requests.                                                               *)

Result(op, got, want) == last' = [op |-> op, got |-> got, want |-> want]

\* Encode a request and send its header and its body.
Encode(r) ==
  /\ use = "request" /\ phase = "idle" /\ count < MaxMessages
  /\ count' = count + 1 /\ msg' = EncodeRequest(msg, r)
  /\ Result("encode", msg'.header \o SubSeq(msg'.bytes, 1, msg'.off),
            WireMessage(RequestCode[r.type], RequestVersion(r),
                        WireFields(RequestFields[r.type], r.v, RequestVersion(r))))
  /\ UNCHANGED <<use, phase, goal, fill, wire, rows, todo>>
-----------------------------------------------------------------------------
(* The server.                                                             *)

NoReply == [type |-> "Empty", as |-> "Empty", v |-> <<0>>, parts |-> <<>>, sent |-> 0,
            failed |-> FALSE, seen |-> <<>>]

\* It answers a request: the first or only response.
Respond(r) ==
  /\ use = "response" /\ phase = "idle" /\ count < MaxMessages
  /\ count' = count + 1
  /\ todo' = [NoReply EXCEPT !.type = r.type, !.as = r.as, !.v = r.v, !.parts = r.parts]
  /\ wire' = CASE r.type = "Rows"  -> WireRows(r.v[1], Head(r.parts), Len(r.parts) = 1)
               [] r.type = "Files" -> WireFiles(r.parts)
               [] OTHER            -> WireResponse(r.type, r.v)
  /\ phase' = "header" /\ goal' = "decode" /\ fill' = 0 /\ msg' = reset(msg)
  /\ UNCHANGED <<use, rows, last>>

\* It sends more of the rows, or fails to.
Stream ==
  /\ todo.type = "Rows" /\ todo.sent + 1 < Len(todo.parts)
  /\ \/ /\ wire' = wire \o WireRows(todo.v[1], todo.parts[todo.sent + 2],
                                    todo.sent + 2 = Len(todo.parts))
        /\ todo' = [todo EXCEPT !.sent = @ + 1]
     \/ /\ wire' = wire \o WireResponse("Failure", <<1, <<>>>>)
        /\ todo' = [todo EXCEPT !.parts = Append(SubSeq(@, 1, todo.sent + 1), <<>>),
                                !.sent = @ + 1, !.failed = TRUE]
  /\ UNCHANGED <<use, msg, phase, goal, fill, rows, last, count>>
-----------------------------------------------------------------------------
(* Protocol.recv, Protocol.More and the receiving end of Protocol.Interrupt. *)

\* What a read returns when n bytes are still missing.
Reads(n) == {Min({c, n, Len(wire)}) : c \in Chunks}

RecvHeader ==
  /\ phase = "header" /\ wire # <<>>
  /\ \E n \in Reads(messageWordSize - fill) :
       LET h == Filled(msg.header, fill, SubSeq(wire, 1, n))
           m == [msg EXCEPT !.header = h]
           words == Unsigned(SubSeq(h, 1, 4))
           len == Grown(Len(m.bytes), words * messageWordSize)
       IN  /\ wire' = SubSeq(wire, n + 1, Len(wire))
           /\ IF fill + n < messageWordSize
              THEN msg' = m /\ fill' = fill + n /\ UNCHANGED phase
              ELSE /\ phase' = "body" /\ fill' = 0
                   /\ msg' = [m EXCEPT !.words = words, !.mtype = h[5], !.schema = h[6],
                                       !.bytes = IF len = Len(@) THEN @ ELSE Zeros(len)]
  /\ UNCHANGED <<use, goal, rows, todo, last, count>>

\* Mutant of Received: the first response ends an interrupt.
ReceivedAny(m) == IF goal = "interrupt" THEN "idle" ELSE goal

\* What comes after a response: one that comes before the empty one is dropped after
\* an interrupt.
Received(m) ==
  IF goal # "interrupt" THEN goal
  ELSE IF m.mtype = ResponseCode["Empty"] THEN "idle" ELSE "header"

RecvBody ==
  /\ phase = "body" /\ wire # <<>>
  /\ \E n \in Reads(msg.words * messageWordSize - fill) :
       LET m == [msg EXCEPT !.bytes = Filled(@, fill, SubSeq(wire, 1, n))]
       IN  /\ wire' = SubSeq(wire, n + 1, Len(wire))
           /\ IF fill + n < msg.words * messageWordSize
              THEN msg' = m /\ fill' = fill + n /\ UNCHANGED phase
              ELSE /\ fill' = 0 /\ phase' = Received(m)
                   /\ msg' = IF Received(m) = "header" THEN reset(m) ELSE m
  /\ UNCHANGED <<use, goal, rows, todo, last, count>>

\* The connection fails: the rows that wanted more are closed, and nothing else
\* happens on it.
RecvError ==
  /\ phase \in {"header", "body"}
  /\ phase' = IF goal = "more" THEN "torn" ELSE "dead"
  /\ UNCHANGED <<use, msg, goal, fill, wire, rows, todo, last, count>>
-----------------------------------------------------------------------------
(* Decoding, and reading rows and files.                                   *)

\* What a response means to those who decode it.
Meant ==
  IF todo.type = "Failure" THEN <<"failure", todo.v>>
  ELSE IF ResponseCode[todo.type] # ResponseCode[todo.as] THEN <<"unexpected type">>
  ELSE CASE todo.type = "Nodes" -> <<"ok", FlattenSeq(todo.v[1])>>
         [] todo.type = "Rows"  -> <<"ok", todo.v[1]>>
         [] todo.type = "Files" -> <<"ok", <<Len(todo.parts)>>>>
         [] OTHER               -> <<"ok", todo.v>>

Decode ==
  /\ phase = "decode"
  /\ \E g \in {DecodeResponse(msg, todo.as)} :
     LET ok == Head(g.v) = "ok"
     IN  /\ msg' = g.m /\ Result("decode", g.v, Meant)
         /\ \/ ok /\ todo.as = "Rows" /\ phase' = "rows"
               /\ \E prepared \in Prepared : rows' = RowsOf(Len(g.v[2]), ~prepared)
            \/ ok /\ todo.as = "Files" /\ phase' = "files"
               /\ rows' = [NoRows EXCEPT !.kind = "files", !.n = g.v[2][1]]
            \/ ~(ok /\ todo.as \in {"Rows", "Files"}) /\ phase' = "idle" /\ rows' = NoRows
  /\ UNCHANGED <<use, goal, fill, wire, todo, count>>

\* The values of a row as the server meant them; one with a bad time is an error.
MeantRow(row) ==
  IF \E i \in DOMAIN row : row[i].type = "ISO8601" /\ row[i].v \notin Times \cup {<<>>}
  THEN <<"error">>
  ELSE <<"row", [i \in DOMAIN row |->
                   IF row[i].type = "Null" \/ (row[i].type = "ISO8601" /\ row[i].v = <<>>)
                   THEN <<"Null">> ELSE <<row[i].type, row[i].v>>]>>

\* What Next should give when parts are to come, and the parts after that.
MeantNext(parts) ==
  IF Head(parts) # <<>> THEN MeantRow(Head(Head(parts)))
  ELSE IF Len(parts) > 1 THEN <<"ErrRowsPart">> ELSE <<"EOF">>
After(parts) == IF Head(parts) = <<>> THEN parts ELSE <<Tail(Head(parts))>> \o Tail(parts)
Seen(parts)  == IF Head(parts) = <<>> THEN <<>> ELSE Head(Head(parts))

\* The driver's Rows.Next, as far as the rows of the current response go.
RowsNext ==
  /\ phase = "rows"
  /\ \E g \in {rowsNext(msg, rows)} :
         /\ Result("next", g.v, MeantNext(todo.parts))
         /\ todo' = [todo EXCEPT !.parts = After(@), !.seen = Seen(todo.parts)]
         /\ rows' = [g.r EXCEPT !.consumed = g.v = <<"EOF">>]
         /\ IF g.v = <<"ErrRowsPart">>
            THEN msg' = reset(g.m) /\ phase' = "header" /\ goal' = "more"
            ELSE /\ msg' = g.m /\ UNCHANGED goal
                 /\ phase' = IF Head(g.v) = "row" THEN "rows" ELSE "closing"
  /\ UNCHANGED <<use, fill, wire, count>>

\* ... and with the next response, which Protocol.More has received.
RowsMore ==
  /\ phase = "more"
  /\ \E d \in {DecodeResponse(msg, "Rows")}, parts \in {Tail(todo.parts)} :
     LET want == IF todo.failed /\ Len(parts) = 1 THEN <<"failure">> ELSE MeantNext(parts)
         new  == [RowsOf(Len(d.v[2]), rows.log) EXCEPT !.names = rows.names]
     IN  IF Head(d.v) = "ok"
         THEN \E g \in {rowsNext(d.m, new)} :
              /\ Result("next", g.v, want)
              /\ todo' = [todo EXCEPT !.parts = After(parts), !.sent = @ - 1, !.seen = Seen(parts)]
              /\ rows' = g.r /\ msg' = g.m
              /\ phase' = IF Head(g.v) = "row" THEN "rows" ELSE "closing"
         ELSE /\ Result("next", <<Head(d.v)>>, want)
              /\ todo' = [todo EXCEPT !.parts = <<<<>>>>, !.sent = 0]
              /\ msg' = d.m /\ phase' = "failed" /\ UNCHANGED rows
  /\ UNCHANGED <<use, goal, fill, wire, count>>

KindName == [Integer |-> "INTEGER", Float |-> "FLOAT", Text |-> "TEXT", Blob |-> "BLOB",
             Null |-> "NULL", UnixTime |-> "TIME", ISO8601 |-> "TIME", Boolean |-> "BOOL"]

\* The driver's ColumnTypeDatabaseTypeName: the names are found once.  Without them
\* it logs, and the rows of a prepared statement have no log.
ColumnTypes ==
  /\ phase = "rows" /\ rows.n > 0 /\ rows.names = <<>>
  /\ \E t \in {columnTypes(msg, rows, TRUE)} :
     LET Name(c) == KindName[CHOOSE k \in DOMAIN TypeCode : TypeCode[k] = c]
         unknown == \E i \in DOMAIN t.r.types : \A k \in DOMAIN TypeCode : TypeCode[k] # t.r.types[i]
         names   == [i \in DOMAIN t.r.types |-> Name(t.r.types[i])]
         row     == IF todo.seen # <<>> THEN todo.seen ELSE Seen(todo.parts)
     IN  /\ msg' = IF unknown /\ ~rows.log THEN Faulty(t.m, "no log") ELSE t.m
         /\ rows' = IF unknown THEN t.r ELSE [t.r EXCEPT !.names = names]
         /\ Result("types", IF unknown THEN <<>> ELSE names,
                   [i \in DOMAIN row |-> KindName[row[i].type]])
  /\ UNCHANGED <<use, phase, goal, fill, wire, todo, count>>

\* The driver's Rows.Close: the query is interrupted unless its rows have been read
\* or are all here; the server stops and says so.
RowsClose ==
  /\ phase \in {"rows", "closing", "failed", "torn"} /\ rows.kind = "rows"
  /\ LET err  == rowsClose(msg)
         done == rows.consumed \/ err = "EOF"
         want == IF phase = "torn" THEN done ELSE phase # "failed" /\ Len(todo.parts) = 1
     IN  /\ Result("close", done, want)
         /\ phase' = IF phase = "torn" THEN "dead" ELSE IF done THEN "idle" ELSE "header"
         /\ goal' = IF done THEN goal ELSE "interrupt"
         /\ wire' = IF done \/ phase = "torn" THEN wire
                    ELSE wire \o WireResponse("Empty", <<0>>)
  /\ msg' = reset(msg) /\ rows' = NoRows /\ todo' = NoReply
  /\ UNCHANGED <<use, fill, count>>

\* Files.Next, as Client.Dump calls it: until there is no name.
FilesNext ==
  /\ phase = "files"
  /\ \E name \in {getString(msg)} : \E data \in {GetCounted(getUint64(name.m))} :
         IF rows.n = 0
         THEN /\ Result("file", <<>>, todo.parts) /\ phase' = "closing"
              /\ UNCHANGED <<msg, rows, todo>>
         ELSE /\ rows' = [rows EXCEPT !.n = @ - 1] /\ msg' = data.m
              /\ Result("file", [name |-> name.v, data |-> data.v], Head(todo.parts))
              /\ todo' = [todo EXCEPT !.parts = Tail(@)] /\ UNCHANGED phase
  /\ UNCHANGED <<use, goal, fill, wire, count>>

FilesClose ==
  /\ phase = "closing" /\ rows.kind = "files"
  /\ msg' = reset(msg) /\ rows' = NoRows /\ todo' = NoReply /\ phase' = "idle"
  /\ UNCHANGED <<use, goal, fill, wire, last, count>>
-----------------------------------------------------------------------------
Init ==
  /\ use \in {"request", "response"} /\ msg = NewMessage /\ phase = "idle" /\ goal = "decode"
  /\ fill = 0 /\ wire = <<>> /\ rows = NoRows /\ todo = NoReply /\ count = 0
  /\ last = [op |-> "none", got |-> <<>>, want |-> <<>>]

Next ==
  \/ \E r \in Requests : Encode(r)
  \/ \E r \in Replies : Respond(r)
  \/ Stream \/ RecvHeader \/ RecvBody \/ RecvError
  \/ Decode \/ RowsNext \/ RowsMore \/ ColumnTypes \/ RowsClose \/ FilesNext \/ FilesClose

Spec == Init /\ [][Next]_vars
-----------------------------------------------------------------------------
(* Properties.                                                             *)

\* No message panics: what is encoded is aligned and has parameters in a format that
\* has room for them, what is decoded does not run into the end of the message, nor
\* past it, where the bytes of an earlier one may be, and looking for a type needs
\* no log (message.go:206-268, 323-453, driver.go:759-776).
NoPanic == msg.fault = "none" /\ (use = "response" => msg.off <= size(msg))

\* The header and the body that are sent are the request in the wire format, whatever
\* was encoded in the same buffer before and however often it has grown
\* (message.go:56-300).
RequestOnWire ==
  last.op = "encode" /\ msg.fault = "none" =>
    /\ Len(last.got) = Len(last.want)
    /\ \A i \in DOMAIN last.got : last.want[i] \in {last.got[i], Whatever}

\* A response is decoded to what the server meant, in whatever pieces it came, and a
\* failure or another response than the expected one is an error.  Rows, the types of
\* their columns and files are read as the server sent them, in order and to their
\* end, over any number of responses that share the buffer and wherever the types were
\* looked at.  Rows.Close interrupts the query exactly if the server has more to send
\* (message.go:302-634, protocol.go:162-238, response.go, driver.go:690-776).
DecodesMeaning == last.op # "encode" => last.got = last.want

\* Whoever is done with a reply has taken all of it from the connection, and no more
\* (protocol.go:162-218, 102-112).
WholeReplies == phase = "idle" => wire = <<>>
=============================================================================
