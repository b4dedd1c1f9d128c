------------------------------ MODULE MCJoin ------------------------------
(* Small instances of Join for TLC.                                         *)
EXTENDS Join, TLC

Symmetry == Permutations(Session) \cup Permutations(Actor)
============================================================================
