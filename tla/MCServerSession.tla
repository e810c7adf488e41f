--------------------------- MODULE MCServerSession ---------------------------
(* Two consumers: the one whose handshake creates the hub and one that      *)
(* joins it, or creates the next hub after it.                             *)
EXTENDS ServerSession, TLC

Symmetry == Permutations(Conns)
=============================================================================
