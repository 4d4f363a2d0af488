----------------------------- MODULE MCCommand -----------------------------
(* Instances of Command for TLC. *)
EXTENDS Command

MCBodies == {Json("string", "42"), Json("int", "1"), Json("bool", "true"), Json("missing", "empty")}
=============================================================================
