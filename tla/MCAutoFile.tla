----------------------------- MODULE MCAutoFile -----------------------------
(***************************************************************************)
(* An instance of AutoFile for TLC.                                        *)
(***************************************************************************)
EXTENDS AutoFile, TLC

(* Nothing tells two wrappers, two files or two objects apart. *)
Symmetry == Permutations(Wrappers) \cup Permutations(Files) \cup Permutations(Objects)
=============================================================================
