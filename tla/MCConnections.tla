---------------------------- MODULE MCConnections ----------------------------
(* Connections for TLC: the connections are interchangeable, and so are   *)
(* the two kinds of stream.                                                  *)
EXTENDS Connections, TLC

Symmetry == Permutations(Conns) \cup Permutations(Streams)
=============================================================================
