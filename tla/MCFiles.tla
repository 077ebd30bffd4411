------------------------------ MODULE MCFiles ------------------------------
(* Instances of Files for TLC. *)
EXTENDS Files, TLC

OneAndThree == {<<0>>, <<1, 0, 1>>}

Symmetry == Permutations(Procs) \cup Permutations(Pages)
=============================================================================
