------------------------------- MODULE MCFota -------------------------------
(* Instances of Fota for TLC. *)
EXTENDS Fota, TLC

(* Operations are interchangeable, and so are handlers, slots and images. *)
FSymmetry ==
    Permutations(Op) \cup Permutations(Task) \cup Permutations(Handler)
        \cup Permutations(Firmware)
=============================================================================
