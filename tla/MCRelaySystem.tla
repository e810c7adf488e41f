---------------------------- MODULE MCRelaySystem ----------------------------
(* Two consumer connections, each with the upstream connection it may dial. *)
EXTENDS RelaySystem, TLC

Symmetry == Permutations(Conns)
=============================================================================
