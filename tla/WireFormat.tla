----------------------------- MODULE WireFormat -----------------------------
(***************************************************************************)
(* What a dqlite server reads and writes on a connection, stated without     *)
(* buffers: the types and the fields of requests and responses as the        *)
(* generated code lists them (internal/protocol/schema.go, request.go,       *)
(* response.go, constants.go) and the bytes they stand for.  A byte is a     *)
(* number and a string a sequence of bytes; a float is known by its bits and *)
(* a time by its text.                                                     *)
(***************************************************************************)
EXTENDS Integers, SequencesExt

messageWordSize == 8
-----------------------------------------------------------------------------
(* Bytes.                                                                  *)

Zeros(n) == [i \in 1..n |-> 0]

\* The little-endian bytes of a number below 2^24, or of a negative one in two's
\* complement, and back.
Bytes(v, n) ==
  LET Digit(u, i) == IF i > 3 THEN 0 ELSE (u \div 256^(i - 1)) % 256
  IN  [i \in 1..n |-> IF v >= 0 THEN Digit(v, i) ELSE 255 - Digit(-1 - v, i)]
Unsigned(b) == b[1] + 256 * b[2] + 256 * 256 * b[3]
Signed(b) == IF b[Len(b)] < 128 THEN Unsigned(b)
             ELSE -1 - Unsigned([i \in DOMAIN b |-> 255 - b[i]])

TypeCode == [Integer |-> 1, Float |-> 2, Text |-> 3, Blob |-> 4, Null |-> 5, UnixTime |-> 9,
             ISO8601 |-> 10, Boolean |-> 11]
RequestCode ==
  [Leader |-> 0, Client |-> 1, Heartbeat |-> 2, Open |-> 3, Prepare |-> 4, Exec |-> 5,
   Query |-> 6, Finalize |-> 7, ExecSQL |-> 8, QuerySQL |-> 9, Interrupt |-> 10, Add |-> 12,
   Assign |-> 13, Remove |-> 14, Dump |-> 15, Cluster |-> 16, Transfer |-> 17,
   Describe |-> 18, Weight |-> 19]
ResponseCode ==
  [Failure |-> 0, Node |-> 1, NodeLegacy |-> 1, Welcome |-> 2, Nodes |-> 3, Db |-> 4,
   Stmt |-> 5, Result |-> 6, Rows |-> 7, Empty |-> 8, Files |-> 9, Metadata |-> 10]

\* The fields of each request, as they are encoded (the versions of the requests
\* with values differ in their last field).
RequestFields ==
  [r \in DOMAIN RequestCode |->
     CASE r = "Open" -> <<"string", "uint64", "string">>
       [] r \in {"Prepare", "Add"} -> <<"uint64", "string">>
       [] r \in {"Exec", "Query"} -> <<"uint32", "uint32", "values">>
       [] r = "Finalize" -> <<"uint32", "uint32">>
       [] r \in {"ExecSQL", "QuerySQL"} -> <<"uint64", "string", "values">>
       [] r = "Assign" -> <<"uint64", "uint64">>
       [] r = "Dump" -> <<"string">>
       [] OTHER -> <<"uint64">>]

\* The fields of each response, as they are decoded.
ResponseFields ==
  [r \in DOMAIN ResponseCode |->
     CASE r \in {"Failure", "Node"} -> <<"uint64", "string">>
       [] r = "NodeLegacy" -> <<"string">>
       [] r = "Nodes" -> <<"Nodes">>
       [] r = "Db" -> <<"uint32", "uint32">>
       [] r = "Stmt" -> <<"uint32", "uint32", "uint64">>
       [] r \in {"Result", "Metadata"} -> <<"uint64", "uint64">>
       [] r = "Rows" -> <<"columns">>
       [] OTHER -> <<"uint64">>]
-----------------------------------------------------------------------------
(* The wire format.  A byte that may have any value is written Whatever.   *)

Whatever == -1
Padded(b, fillWith) == b \o [i \in 1..((-Len(b)) % messageWordSize) |-> fillWith]

RECURSIVE Wire(_, _, _)
Wire(kind, v, version) ==
  LET All(kinds, vs) ==
        FlattenSeq([i \in DOMAIN vs |-> Wire(kinds[i], vs[i], version)])
  IN  CASE kind \in {"uint64", "Integer", "Float", "UnixTime"} -> Bytes(v, 8)
        [] kind = "uint32"  -> Bytes(v, 4)
        [] kind = "Boolean" -> Bytes(IF v THEN 1 ELSE 0, 8)
        [] kind = "Null"    -> Zeros(8)
        [] kind \in {"string", "Text", "ISO8601"} -> Padded(Append(v, 0), 0)
        [] kind = "Blob"    -> Bytes(Len(v), 8) \o Padded(v, 0)
        [] kind = "values"  ->
             IF v = <<>> THEN <<>>
             ELSE Padded(Bytes(Len(v), IF version = 0 THEN 1 ELSE 4)
                         \o [i \in DOMAIN v |-> TypeCode[v[i].type]], Whatever)
                  \o FlattenSeq([i \in DOMAIN v |-> Wire(v[i].type, v[i].v, version)])
        [] kind = "columns" -> Bytes(Len(v), 8) \o All([i \in DOMAIN v |-> "string"], v)
        [] kind = "Nodes"   ->
             Bytes(Len(v), 8)
             \o FlattenSeq([i \in DOMAIN v |-> All(<<"uint64", "string", "uint64">>, v[i])])
        [] kind = "row"     ->
             LET Slot(i) == IF i > Len(v) THEN 0 ELSE TypeCode[v[i].type]
             IN  Padded([i \in 1..((Len(v) + 1) \div 2) |-> Slot(2 * i - 1) + 16 * Slot(2 * i)], 0)
                 \o FlattenSeq([i \in DOMAIN v |-> Wire(v[i].type, v[i].v, version)])
        [] kind = "file"    -> Padded(Append(v.name, 0), 0) \o Bytes(Len(v.data), 8) \o v.data

WireMessage(code, version, body) ==
  Bytes(Len(body) \div messageWordSize, 4) \o <<code, version, 0, 0>> \o body

WireFields(fields, vs, version) ==
  FlattenSeq([i \in DOMAIN fields |-> Wire(fields[i], vs[i], version)])

\* A response with rows, each with the names of the columns and a marker that says
\* whether it is the last one of the reply.
WireRows(names, list, isLast) ==
  WireMessage(ResponseCode["Rows"], 0,
    Wire("columns", names, 0)
    \o FlattenSeq([i \in DOMAIN list |-> Wire("row", list[i], 0)])
    \o [i \in 1..8 |-> IF isLast THEN 255 ELSE 238])

WireFiles(files) ==
  WireMessage(ResponseCode["Files"], 0,
    Bytes(Len(files), 8) \o FlattenSeq([i \in DOMAIN files |-> Wire("file", files[i], 0)]))

WireResponse(type, v) ==
  WireMessage(ResponseCode[type], 0, WireFields(ResponseFields[type], v, 0))
=============================================================================
