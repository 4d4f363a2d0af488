------------------------- MODULE IngestClientProofs -------------------------
(***************************************************************************)
(* Proofs about IngestClient for any finite set of requests and any limits. *)
(***************************************************************************)
EXTENDS IngestClient, FiniteSetTheorems, TLAPS

(* A request on its way to a retry has an attempt left. *)
AttemptLeft ==
    \A r \in Request :
        at[r] \in {"failed", "undo", "counted", "scheduled", "fired"} => attempt[r] < ATTEMPTS

IInv == TypeOK /\ AttemptLeft /\ CountExact /\ KeptBounded

(* Both sets are finite, and the kept requests are among the counted ones. *)
LEMMA SetFacts ==
    /\ IsFiniteSet(Counted) /\ Cardinality(Counted) \in Nat
    /\ IsFiniteSet(Kept) /\ Cardinality(Kept) \in Nat
    /\ Kept \subseteq Counted
<1>1. Counted \in SUBSET Request /\ Kept \in SUBSET Request /\ Kept \subseteq Counted
  BY DEF Counted, Kept
<1> QED BY <1>1, IngestAssumption, FS_Subset, FS_CardinalityType

LEMMA InitIInv == Init => IInv
<1> SUFFICES ASSUME Init PROVE IInv
  OBVIOUS
<1>1. TypeOK /\ AttemptLeft
  <2>1. at \in [Request -> At] BY DEF Init, At
  <2>2. attempt \in [Request -> 0..ATTEMPTS] BY IngestAssumption DEF Init
  <2>3. AttemptLeft BY DEF Init, AttemptLeft
  <2>4. pendingRetries \in Int BY DEF Init
  <2>5. stored \subseteq Request /\ stopped \in BOOLEAN BY DEF Init
  <2> QED BY <2>1, <2>2, <2>3, <2>4, <2>5 DEF TypeOK
<1>2. Counted = {} /\ Kept = {}
  BY DEF Init, Counted, Kept
<1>3. CountExact /\ KeptBounded
  BY <1>2, FS_EmptySet, IngestAssumption DEF Init, CountExact, KeptBounded
<1> QED BY <1>1, <1>3 DEF IInv

(* A step that changes neither set nor the counter. *)
LEMMA SameSets ==
    ASSUME IInv, Counted' = Counted, Kept' = Kept, pendingRetries' = pendingRetries
    PROVE  CountExact' /\ KeptBounded'
BY DEF IInv, CountExact, KeptBounded

(* Types and remaining attempts are kept by every step of one request. *)
LEMMA StepTypes ==
    ASSUME IInv, NEW r \in Request, Post(r) \/ Step(r)
    PROVE  TypeOK' /\ AttemptLeft'
<1> USE IngestAssumption DEF IInv, TypeOK, AttemptLeft, Move, At
<1>1. CASE Post(r) BY <1>1 DEF Post
<1>2. CASE Success(r) BY <1>2 DEF Success
<1>3. CASE Rejected(r) BY <1>3 DEF Rejected
<1>4. CASE Unavailable(r) BY <1>4 DEF Unavailable
<1>5. CASE Count(r) BY <1>5 DEF Count
<1>6. CASE Undo(r) BY <1>6 DEF Undo
<1>7. CASE Schedule(r) BY <1>7 DEF Schedule
<1>8. CASE Fire(r) BY <1>8 DEF Fire
<1>9. CASE Resend(r) BY <1>9 DEF Resend
<1> QED BY <1>1, <1>2, <1>3, <1>4, <1>5, <1>6, <1>7, <1>8, <1>9 DEF Step

(* The counter follows the set of counted requests, and the kept ones stay  *)
(* within the limit: the count a request sees after its own increment       *)
(* covers every kept request and itself.                                    *)
LEMMA StepCounts ==
    ASSUME IInv, NEW r \in Request, Post(r) \/ Step(r)
    PROVE  CountExact' /\ KeptBounded'
<1> USE DEF IInv, TypeOK, Move
<1>1. CASE Post(r) \/ Success(r) \/ Rejected(r) \/ Unavailable(r) \/ Resend(r)
  <2>1. Counted' = Counted /\ Kept' = Kept /\ pendingRetries' = pendingRetries
    BY <1>1 DEF Post, Success, Rejected, Unavailable, Resend, Counted, Kept
  <2> QED BY <2>1, SameSets
<1>2. CASE Schedule(r)
  <2>1. Counted' = Counted /\ Kept' = Kept /\ pendingRetries' = pendingRetries
    BY <1>2 DEF Schedule, Counted, Kept
  <2> QED BY <2>1, SameSets
<1>3. CASE Count(r)
  <2>1. r \notin Counted /\ Counted' = Counted \cup {r}
    BY <1>3 DEF Count, Counted
  <2>2. Cardinality(Counted') = Cardinality(Counted) + 1
    BY <2>1, SetFacts, FS_AddElement
  <2>3. CountExact'
    BY <1>3, <2>2, SetFacts DEF Count, CountExact
  <2>4. CASE pendingRetries + 1 > MAX_PENDING_RETRIES
    <3>1. Kept' = Kept BY <1>3, <2>4 DEF Count, Kept
    <3> QED BY <2>3, <3>1 DEF KeptBounded
  <2>5. CASE ~(pendingRetries + 1 > MAX_PENDING_RETRIES)
    <3>1. Kept' \subseteq Counted' /\ IsFiniteSet(Counted')
      BY <2>1, SetFacts, FS_AddElement DEF Counted, Kept
    <3>2. Cardinality(Kept') <= Cardinality(Counted')
      BY <3>1, FS_Subset
    <3>3. Cardinality(Kept') \in Nat
      BY <3>1, FS_Subset, FS_CardinalityType
    <3> QED BY <2>2, <2>3, <2>5, <3>2, <3>3, SetFacts, IngestAssumption
            DEF KeptBounded, CountExact
  <2> QED BY <2>4, <2>5
<1>4. CASE Undo(r)
  <2>1. r \in Counted /\ Counted' = Counted \ {r} /\ Kept' = Kept
    BY <1>4 DEF Undo, Counted, Kept
  <2>2. Cardinality(Counted') = Cardinality(Counted) - 1
    BY <2>1, SetFacts, FS_RemoveElement
  <2> QED BY <1>4, <2>1, <2>2, SetFacts DEF Undo, CountExact, KeptBounded
<1>5. CASE Fire(r)
  <2>1. /\ r \in Counted /\ Counted' = Counted \ {r}
        /\ r \in Kept /\ Kept' = Kept \ {r}
    BY <1>5 DEF Fire, Counted, Kept
  <2>2. /\ Cardinality(Counted') = Cardinality(Counted) - 1
        /\ Cardinality(Kept') = Cardinality(Kept) - 1
    BY <2>1, SetFacts, FS_RemoveElement
  <2> QED BY <1>5, <2>2, SetFacts, IngestAssumption DEF Fire, CountExact, KeptBounded
<1> QED BY <1>1, <1>2, <1>3, <1>4, <1>5 DEF Step

(* stop() moves scheduled retries to the lost ones, which count as before. *)
LEMMA StopPreserves == IInv /\ Stop => IInv'
<1> SUFFICES ASSUME IInv, Stop PROVE IInv'
  OBVIOUS
<1>1. TypeOK' /\ AttemptLeft'
  BY DEF IInv, TypeOK, AttemptLeft, Stop, At
<1>2. Counted' = Counted /\ Kept' = Kept /\ pendingRetries' = pendingRetries
  BY DEF IInv, TypeOK, Stop, Counted, Kept
<1> QED BY <1>1, <1>2, SameSets DEF IInv

LEMMA NextPreserves == IInv /\ [Next]_vars => IInv'
<1> SUFFICES ASSUME IInv, [Next]_vars PROVE IInv'
  OBVIOUS
<1>1. ASSUME NEW r \in Request, Post(r) \/ Step(r) PROVE IInv'
  BY <1>1, StepTypes, StepCounts DEF IInv
<1>2. CASE Stop BY <1>2, StopPreserves
<1>3. CASE UNCHANGED vars
  <2>1. TypeOK' /\ AttemptLeft'
    BY <1>3 DEF vars, IInv, TypeOK, AttemptLeft
  <2>2. Counted' = Counted /\ Kept' = Kept /\ pendingRetries' = pendingRetries
    BY <1>3 DEF vars, Counted, Kept
  <2> QED BY <2>1, <2>2, SameSets DEF IInv
<1> QED BY <1>1, <1>2, <1>3 DEF Next

(* IInv is an invariant of every execution. *)
THEOREM Invariance == Spec => []IInv
<1> QED BY InitIInv, NextPreserves, PTL DEF Spec

(* pendingRetries is exactly the number of retries kept or being given up. *)
THEOREM CounterIsExact == Spec => []CountExact
<1>1. IInv => CountExact BY DEF IInv
<1> QED BY <1>1, Invariance, PTL

(* Never more than MAX_PENDING_RETRIES bodies are kept. *)
THEOREM RetriesAreBounded == Spec => []KeptBounded
<1>1. IInv => KeptBounded BY DEF IInv
<1> QED BY <1>1, Invariance, PTL
-----------------------------------------------------------------------------
(* The refinement, step by step. *)

LEMMA InitRefines == Init => D!Init
BY DEF Init, D!Init, Outcome

LEMMA StepRefines ==
    ASSUME IInv, NEW r \in Request, Post(r) \/ Step(r)
    PROVE  D!Next \/ UNCHANGED D!vars
<1> USE DEF IInv, TypeOK, Move, At
<1> DEFINE o == [q \in Request |-> Outcome(at[q])]
<1>1. CASE Post(r)
  <2>1. D!Begin(r) BY <1>1 DEF Post, D!Begin, Outcome
  <2> QED BY <2>1 DEF D!Next
<1>2. ASSUME NEW how \in {"stored", "rejected", "dropped"},
             attempt' = attempt, o[r] = "open", o' = [o EXCEPT ![r] = how]
      PROVE  D!Next
  <2>1. D!End({r}, how) BY <1>2 DEF D!End
  <2>2. {r} \in SUBSET Request /\ how \in D!Ending BY <1>2 DEF D!Ending
  <2> QED BY <2>1, <2>2 DEF D!Next
<1>3. CASE Success(r)
  <2>1. attempt' = attempt /\ o[r] = "open" /\ o' = [o EXCEPT ![r] = "stored"]
    BY <1>3 DEF Success, Outcome
  <2> QED BY <1>2, <2>1
<1>4. CASE Rejected(r)
  <2>1. attempt' = attempt /\ o[r] = "open" /\ o' = [o EXCEPT ![r] = "rejected"]
    BY <1>4 DEF Rejected, Outcome
  <2> QED BY <1>2, <2>1
<1>5. ASSUME attempt' = attempt, o[r] = "open", o' = [o EXCEPT ![r] = "dropped"] \/ o' = o
      PROVE  D!Next \/ UNCHANGED D!vars
  <2>1. CASE o' = o BY <1>5, <2>1 DEF D!vars
  <2>2. CASE o' = [o EXCEPT ![r] = "dropped"] BY <1>2, <1>5, <2>2
  <2> QED BY <1>5, <2>1, <2>2
<1>6. CASE Unavailable(r) \/ Undo(r) \/ Schedule(r)
  <2>1. attempt' = attempt /\ o[r] = "open"
    BY <1>6 DEF Unavailable, Undo, Schedule, Outcome
  <2>2. o' = [o EXCEPT ![r] = "dropped"] \/ o' = o
    <3>1. CASE Unavailable(r) BY <3>1 DEF Unavailable, Outcome
    <3>2. CASE Undo(r) BY <3>2 DEF Undo, Outcome
    <3>3. CASE Schedule(r) BY <3>3 DEF Schedule, Outcome
    <3> QED BY <1>6, <3>1, <3>2, <3>3
  <2> QED BY <1>5, <2>1, <2>2
<1>7. CASE Count(r) \/ Fire(r)
  <2>1. attempt' = attempt /\ o' = o
    BY <1>7 DEF Count, Fire, Outcome
  <2> QED BY <2>1 DEF D!vars
<1>8. CASE Resend(r)
  <2>1. attempt[r] < ATTEMPTS BY <1>8 DEF Resend, AttemptLeft
  <2>2. o' = o /\ o[r] = "open" BY <1>8 DEF Resend, Outcome
  <2>3. D!Retry(r) BY <1>8, <2>1, <2>2 DEF Resend, D!Retry
  <2> QED BY <2>3 DEF D!Next
<1> QED BY <1>1, <1>3, <1>4, <1>6, <1>7, <1>8 DEF Step

LEMMA StopRefines == IInv /\ Stop => D!Next
<1> SUFFICES ASSUME IInv, Stop PROVE D!Next
  OBVIOUS
<1> DEFINE R == {r \in Request : at[r] = "scheduled"}
<1>1. D!End(R, "dropped")
  BY DEF IInv, TypeOK, Stop, D!End, Outcome
<1>2. R \in SUBSET Request /\ "dropped" \in D!Ending
  BY DEF D!Ending
<1> QED BY <1>1, <1>2 DEF D!Next

(* The client implements the delivery promise of gateway_contract.rst. *)
THEOREM Refinement == Spec => Implements
<1>1. IInv /\ [Next]_vars => [D!Next]_(D!vars)
  <2> SUFFICES ASSUME IInv, [Next]_vars PROVE D!Next \/ UNCHANGED D!vars
    OBVIOUS
  <2>1. ASSUME NEW r \in Request, Post(r) \/ Step(r) PROVE D!Next \/ UNCHANGED D!vars
    BY <2>1, StepRefines
  <2>2. CASE Stop BY <2>2, StopRefines
  <2>3. CASE UNCHANGED vars BY <2>3 DEF vars, D!vars
  <2> QED BY <2>1, <2>2, <2>3 DEF Next
<1> QED BY <1>1, InitRefines, Invariance, PTL DEF Spec, Implements, D!Spec
=============================================================================
