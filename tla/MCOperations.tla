---------------------------- MODULE MCOperations ----------------------------
(* Instances of Operations for TLC. *)
EXTENDS Operations, TLC

(* Operations are interchangeable, and so are the worker's slots. *)
Symmetry == Permutations(Op) \cup Permutations(Task)
=============================================================================
