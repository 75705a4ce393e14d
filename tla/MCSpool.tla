------------------------------- MODULE MCSpool -------------------------------
(* Instances of Spool for TLC: two events that may each be appended again,  *)
(* over two days and two segment files.                                     *)
EXTENDS Spool, TLC

Symmetry == Permutations(Events)
=============================================================================
