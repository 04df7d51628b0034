----------------------------- MODULE MCMessage -----------------------------
(* Small instances of Message for TLC.                                     *)
EXTENDS Message

S(n) == [i \in 1..n |-> 1 + (i % 2)]   \* a string of n bytes
C(type, v) == [type |-> type, v |-> v]

\* Strings and blobs that leave room in their last word, fill it, or need another one.
Values ==
  {<<>>, <<C("Integer", -1)>>, <<C("Text", S(7)), C("Null", 0)>>,
   <<C("Blob", S(8)), C("Boolean", TRUE)>>, <<C("Blob", <<>>), C("ISO8601", S(8)), C("Float", 300)>>}
     \cup {[i \in 1..n |-> C("Null", 0)] : n \in {3, 4, 7, 8}}

SomeRequests ==
  {[type |-> "Leader", v |-> <<0>>], [type |-> "Open", v |-> <<S(0), 6, S(8)>>],
   [type |-> "Prepare", v |-> <<1, S(7)>>], [type |-> "Add", v |-> <<300, S(9)>>],
   [type |-> "Finalize", v |-> <<1, 2>>], [type |-> "Assign", v |-> <<2, 1>>],
   [type |-> "Dump", v |-> <<S(3)>>]}
  \cup {[type |-> "Exec", v |-> <<1, 2, values>>] : values \in Values}
  \cup {[type |-> "QuerySQL", v |-> <<1, S(8), values>>] : values \in Values}

Reply(type, as, v, parts) == [type |-> type, as |-> as, v |-> v, parts |-> parts]

\* A row of every type, and rows that can be told from a marker only by where they are.
RowA == <<C("Integer", -1), C("Text", S(7))>>
RowB == <<C("Blob", S(9)), C("ISO8601", <<>>)>>
RowC == <<C("ISO8601", S(4)), C("Null", 0)>>
Wide == [i \in 1..17 |-> IF i % 2 = 1 THEN C("Boolean", i = 1) ELSE C("UnixTime", 5)]
Bad  == <<C("ISO8601", S(2)), C("Float", 7)>>

Plain ==
  {Reply("Failure", "Db", <<5, S(8)>>, <<>>), Reply("Empty", "Empty", <<0>>, <<>>),
   Reply("Node", "Node", <<1, S(7)>>, <<>>), Reply("NodeLegacy", "NodeLegacy", <<S(8)>>, <<>>),
   Reply("Nodes", "Nodes", <<<<>>>>, <<>>),
   Reply("Nodes", "Nodes", <<<<<<1, S(7), 0>>, <<2, S(8), 2>>>>>>, <<>>),
   Reply("Db", "Db", <<3, 0>>, <<>>), Reply("Stmt", "Stmt", <<3, 4, 300>>, <<>>),
   Reply("Result", "Result", <<1, 2>>, <<>>), Reply("Metadata", "Metadata", <<1, 2>>, <<>>),
   Reply("Result", "Rows", <<1, 2>>, <<>>), Reply("Failure", "Rows", <<5, <<>>>>, <<>>),
   Reply("Files", "Files", <<2>>, <<[name |-> S(2), data |-> S(16)], [name |-> S(7), data |-> <<>>]>>),
   Reply("Files", "Files", <<0>>, <<>>)}

Table(columns, parts) == Reply("Rows", "Rows", <<[i \in 1..columns |-> S(i % 9)]>>, parts)

Tables ==
  {Table(0, <<<<>>>>), Table(2, <<<<>>>>), Table(2, <<<<RowA, RowB>>>>), Table(2, <<<<Bad, RowA>>>>),
   Table(2, <<<<RowA>>, <<RowB, RowC>>>>), Table(2, <<<<RowB>>, <<>>>>),
   Table(2, <<<<RowB>>, <<RowA>>, <<RowC>>>>), Table(17, <<<<Wide>>>>)}

SomeReplies == Plain \cup Tables
SomeTimes   == {S(4), S(8)}
=============================================================================
