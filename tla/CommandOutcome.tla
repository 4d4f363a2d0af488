--------------------------- MODULE CommandOutcome ---------------------------
(***************************************************************************)
(* What send_operation may rely on when it sends one command: the reply it   *)
(* acts on, and what it says about the device.  Action Answer of Operations  *)
(* takes one such reply per attempt.                                        *)
(***************************************************************************)
CONSTANT Reply, None

VARIABLES
    reply,    \* what the task makes of the answer, None before
    applied   \* the device has applied the command

Init == reply = None /\ applied = FALSE

(* The device applies the command before the answer, or after an answer that *)
(* did not say what became of it.                                           *)
Apply ==
    /\ reply \in {None, "undelivered"}
    /\ ~applied
    /\ applied' = TRUE
    /\ reply' = reply

Answered(r) ==
    /\ reply = None
    /\ r = "ok" => applied
    /\ r \in {"rejected", "invalid"} => ~applied
    /\ reply' = r
    /\ applied' = applied

(* The worker goes down, or the next command starts. *)
Begin == reply' = None /\ applied' = FALSE

Next == Apply \/ (\E r \in Reply : Answered(r)) \/ Begin

Spec == Init /\ [][Next]_<<reply, applied>>
=============================================================================
