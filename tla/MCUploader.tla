----------------------------- MODULE MCUploader -----------------------------
(* Instances of Uploader for TLC. *)
EXTENDS Uploader, TLC

(* Paths and objects are interchangeable: no action names one of them.     *)
(* Used in the runs that check safety only.                                *)
Symmetry == Permutations(Path) \cup Permutations(Slot)
=============================================================================
