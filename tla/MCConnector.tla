---------------------------- MODULE MCConnector ----------------------------
(* Small instances of Connector for TLC.                                   *)
EXTENDS Connector
CONSTANTS s1, s2, s3

\* A voter and a spare; the third server is not in the store.
TwoKnown == [s \in {s1, s2} |-> IF s = s1 THEN 0 ELSE 2]
=============================================================================
