------------------------------ MODULE FotaLife ------------------------------
(***************************************************************************)
(* What the firmware update of an endpoint promises, as ota.rst and the    *)
(* comments of the code put it: of its updates one at a time follows the   *)
(* reports of the device, the Update command is ordered when the device    *)
(* reports the download, the end comes once, and an update that has ended  *)
(* is idle.                                                                *)
(***************************************************************************)
EXTENDS Naturals

CONSTANTS
    Update,   \* primary keys, in the order of creation
    State,    \* FirmwareUpdate.State
    Result    \* FirmwareUpdate.Result

VARIABLES
    stage,    \* the state of each update
    result,   \* "absent" before it is started, "deleted" after it was deleted
    ordered   \* the updates whose Update command was created

vars == <<stage, result, ordered>>

Active == {u \in Update : result[u] = "DEFAULT"}

Init ==
    /\ stage = [u \in Update |-> "IDLE"]
    /\ result = [u \in Update |-> "absent"]
    /\ ordered = {}

Begin(u) ==
    /\ result[u] = "absent"
    /\ \A w \in Update : w < u => result[w] # "absent"
    /\ result' = [result EXCEPT ![u] = "DEFAULT"]
    /\ UNCHANGED <<stage, ordered>>

Progress(u, s) ==
    /\ Active = {u}
    /\ stage' = [stage EXCEPT ![u] = s]
    /\ ordered' = IF s = "DOWNLOADED" THEN ordered \cup {u} ELSE ordered
    /\ UNCHANGED result

(* Whatever the device reports ends the only active update; a failed         *)
(* transmission, or a newer update, ends any.                               *)
End(u, r) ==
    /\ u \in Active
    /\ r # "UPDATE_FAILED" => Active = {u}
    /\ result' = [result EXCEPT ![u] = r]
    /\ stage' = [stage EXCEPT ![u] = "IDLE"]
    /\ UNCHANGED ordered

Delete(u) ==
    /\ result[u] \in Result
    /\ result' = [result EXCEPT ![u] = "deleted"]
    /\ stage' = [stage EXCEPT ![u] = "IDLE"]
    /\ ordered' = ordered \ {u}

Next ==
    \E u \in Update :
        \/ Begin(u) \/ Delete(u)
        \/ \E s \in State : Progress(u, s)
        \/ \E r \in Result \ {"DEFAULT"} : End(u, r)

Spec == Init /\ [][Next]_vars
=============================================================================
