------------------------------ MODULE MCProxy ------------------------------
(* An instance of Proxy for TLC.                                           *)
EXTENDS Proxy
CONSTANTS k1

\* WithTLS, or WithExternalConn over TCP or over something else; the connection
\* comes in or is made by the node.
AllModes ==
  {m \in [listening : BOOLEAN, tcp : BOOLEAN, dialled : SUBSET Conn] : m.listening => m.tcp}
=============================================================================
