------------------------------ MODULE MCSyncer ------------------------------
(* Instances of Syncer for TLC. *)
EXTENDS Syncer, TLC

(* Paths and goroutines are interchangeable: no action names one of them.  *)
(* Used in the runs that check safety only.                                *)
Symmetry == Permutations(Path) \cup Permutations(Agent)
=============================================================================
