--------------------------- MODULE IngestDelivery ---------------------------
(***************************************************************************)
(* What the gateway promises about each event it posts to Django, as        *)
(* IngestClient's comment and gateway_contract.rst put it: attempts follow  *)
(* one another, there are at most ATTEMPTS of them, and there is none after *)
(* an answer below 500 or after the event was given up.                     *)
(***************************************************************************)
EXTENDS Naturals

CONSTANTS
    Request,   \* requests to the ingest API
    ATTEMPTS   \* attempts per request

VARIABLES
    outcome,   \* "none", "open", or how the request ended
    tries      \* attempts started so far

vars == <<outcome, tries>>

Ending == {"stored", "rejected", "dropped"}

Init ==
    /\ outcome = [r \in Request |-> "none"]
    /\ tries = [r \in Request |-> 0]

Begin(r) ==
    /\ outcome[r] = "none"
    /\ outcome' = [outcome EXCEPT ![r] = "open"]
    /\ tries' = [tries EXCEPT ![r] = 1]

Retry(r) ==
    /\ outcome[r] = "open"
    /\ tries[r] < ATTEMPTS
    /\ tries' = [tries EXCEPT ![r] = tries[r] + 1]
    /\ UNCHANGED outcome

(* Several requests end at once when the gateway stops. *)
End(R, how) ==
    /\ \A r \in R : outcome[r] = "open"
    /\ outcome' = [r \in Request |-> IF r \in R THEN how ELSE outcome[r]]
    /\ UNCHANGED tries

Next ==
    \/ \E r \in Request : Begin(r) \/ Retry(r)
    \/ \E R \in SUBSET Request, how \in Ending : End(R, how)

Spec == Init /\ [][Next]_vars
=============================================================================
