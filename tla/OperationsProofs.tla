-------------------------- MODULE OperationsProofs --------------------------
(***************************************************************************)
(* Proofs about Operations for any number of operations and worker slots,   *)
(* any MAX_ATTEMPTS and any bounds.                                         *)
(***************************************************************************)
EXTENDS Operations, TLAPS

(* What a slot's copy of the row is worth at each point of send_operation:  *)
(* its counter is covered by requests that were issued, strictly while its  *)
(* own request is out, and the result it is about to save is justified.     *)
CopyOK ==
    \A t \in Task :
        LET e == e_ops[t] IN
        /\ pc[t] = "loaded" => e.transmit_counter <= sends[e.id]
        /\ pc[t] = "sending" => e.transmit_counter < sends[e.id]
        /\ pc[t] = "answered" =>
              /\ e.transmit_counter <= sends[e.id]
              /\ e.status \in {"CONFIRMED", "FAILED", "QUEUED"}
              /\ e.status = "CONFIRMED" => e.id \in applied
              /\ e.status = "FAILED" => e.id \in refused \/ e.transmit_counter >= MAX_ATTEMPTS
              /\ e.status = "QUEUED" => e.transmit_counter < MAX_ATTEMPTS

(* The rows alone. *)
RowOK == OutcomeJustified /\ CounterNeverOvercounts /\ QueuedHasAttemptsLeft

IInv == TypeOK /\ CopyOK /\ RowOK

-----------------------------------------------------------------------------
(* The initial state satisfies the inductive invariant. *)
LEMMA InitIInv == Init => IInv
<1> SUFFICES ASSUME Init PROVE IInv
  OBVIOUS
<1> USE DEF Init
<1>1. TypeOK
  BY DEF TypeOK, Row, Copy, NoCopy, RowType, CopyType, Status, Invisible, PC
<1>2. CopyOK
  BY DEF CopyOK
<1>3. RowOK
  BY OperationsAssumption
     DEF RowOK, OutcomeJustified, CounterNeverOvercounts, QueuedHasAttemptsLeft, Row
<1> QED BY <1>1, <1>2, <1>3 DEF IInv

(* Classified keeps the identity of the row, counts at most one attempt and *)
(* decides the status by the answer and the new count.                      *)
LEMMA ClassifiedFacts ==
    ASSUME NEW e \in CopyType, NEW reply \in Reply
    PROVE  LET c == Classified(e, reply) IN
           /\ c \in CopyType
           /\ c.id = e.id
           /\ c.transmit_counter <= e.transmit_counter + 1
           /\ c.status \in {"CONFIRMED", "FAILED", "QUEUED"}
           /\ c.status = "CONFIRMED" => reply = "ok"
           /\ c.status = "FAILED" =>
                 reply \in {"rejected", "invalid"} \/ c.transmit_counter >= MAX_ATTEMPTS
           /\ c.status = "QUEUED" => c.transmit_counter < MAX_ATTEMPTS
<1> USE OperationsAssumption DEF Classified, Copy, Row, CopyType, Status, Invisible
<1>1. CASE reply = "ok" BY <1>1
<1>2. CASE reply \in {"rejected", "invalid"} BY <1>2
<1>3. CASE reply = "undelivered" BY <1>3
<1> QED BY <1>1, <1>2, <1>3 DEF Reply

(* A step that creates a row gives it a fresh counter and an open status,   *)
(* or the status the client asked for.                                      *)
LEMMA CreatePreserves == IInv /\ CreateStep => IInv'
<1> SUFFICES ASSUME IInv, NEW o \in Op,
                    \/ \E s \in Status : ApiCreate(o, s)
                    \/ AdminSave(o)
                    \/ AdminCommit(o)
                    \/ AdminChange(o)
                    \/ AdminDelete(o)
             PROVE  IInv'
  BY DEF CreateStep
<1> USE DEF IInv, TypeOK, opVars, brokerVars, taskVars, histVars
<1>1. ASSUME NEW s \in Status, ApiCreate(o, s) PROVE IInv'
  <2> USE <1>1 DEF ApiCreate, Insert, Row
  <2>1. TypeOK' BY DEF RowType, Status
  <2>2. CopyOK' BY DEF CopyOK
  <2>3. RowOK'
    BY OperationsAssumption
       DEF RowOK, OutcomeJustified, CounterNeverOvercounts, QueuedHasAttemptsLeft, RowType
  <2> QED BY <2>1, <2>2, <2>3
<1>2. CASE AdminSave(o)
  <2> USE <1>2 DEF AdminSave, NewTrigger, Delay, Row
  <2>1. TypeOK' BY DEF RowType, Invisible
  <2>2. CopyOK' BY DEF CopyOK
  <2>3. RowOK'
    BY OperationsAssumption
       DEF RowOK, OutcomeJustified, CounterNeverOvercounts, QueuedHasAttemptsLeft, RowType
  <2> QED BY <2>1, <2>2, <2>3
<1>3. CASE AdminCommit(o)
  <2> USE <1>3 DEF AdminCommit, Row
  <2>1. TypeOK' BY DEF RowType, Status
  <2>2. CopyOK' BY DEF CopyOK
  <2>3. RowOK'
    BY OperationsAssumption
       DEF RowOK, OutcomeJustified, CounterNeverOvercounts, QueuedHasAttemptsLeft, RowType
  <2> QED BY <2>1, <2>2, <2>3
<1>4. CASE AdminChange(o)
  BY <1>4 DEF AdminChange, NewTrigger, Delay, CopyOK, RowOK, OutcomeJustified, CounterNeverOvercounts,
              QueuedHasAttemptsLeft
<1>5. CASE AdminDelete(o)
  <2> USE <1>5 DEF AdminDelete, Row
  <2>1. TypeOK' BY DEF RowType, Invisible
  <2>2. CopyOK' BY DEF CopyOK
  <2>3. RowOK'
    BY OperationsAssumption
       DEF RowOK, OutcomeJustified, CounterNeverOvercounts, QueuedHasAttemptsLeft, RowType
  <2> QED BY <2>1, <2>2, <2>3
<1> QED BY <1>1, <1>2, <1>3, <1>4, <1>5

(* Steps that leave the table, the slots and what was sent alone. *)
LEMMA EventPreserves == IInv /\ (EventStep \/ ProcessPending \/ BrokerLoss) => IInv'
<1> SUFFICES ASSUME IInv, EventStep \/ ProcessPending \/ BrokerLoss PROVE IInv'
  OBVIOUS
<1> USE DEF IInv, TypeOK, opVars, brokerVars, taskVars, histVars
<1>1. /\ UNCHANGED <<op, posted, pc, e_ops, sends, applied, refused>>
      /\ registered' \in BOOLEAN /\ pending' \in Nat /\ crashes' \in Nat
  <2>1. CASE RegistrationUpdate BY <2>1 DEF RegistrationUpdate, NewTrigger, Delay
  <2>2. CASE Deregistration BY <2>2 DEF Deregistration
  <2>3. CASE ProcessPending BY <2>3 DEF ProcessPending
  <2>4. CASE BrokerLoss BY <2>4 DEF BrokerLoss
  <2> QED BY <2>1, <2>2, <2>3, <2>4 DEF EventStep
<1>2. queue' \in [Op -> Nat]
  BY DEF EventStep, RegistrationUpdate, Deregistration, NewTrigger, Delay, ProcessPending, BrokerLoss
<1>3. TypeOK' BY <1>1, <1>2 DEF IInv, TypeOK
<1>4. CopyOK' BY <1>1 DEF IInv, CopyOK
<1>5. RowOK'
  BY <1>1 DEF IInv, RowOK, OutcomeJustified, CounterNeverOvercounts, QueuedHasAttemptsLeft
<1> QED BY <1>3, <1>4, <1>5 DEF IInv

(* The steps of send_operation. *)
LEMMA TaskPreserves ==
    ASSUME IInv, NEW t \in Task, TaskStep(t) \/ PropagateNothing(t)
    PROVE  IInv'
<1> USE DEF IInv, TypeOK, opVars, brokerVars, taskVars, histVars
<1>1. ASSUME NEW o \in Op, Load(t, o) PROVE IInv'
  <2>1. /\ \/ /\ pc' = [pc EXCEPT ![t] = "loaded"]
              /\ e_ops' = [e_ops EXCEPT ![t] = Copy(o, op[o])]
           \/ UNCHANGED <<pc, e_ops>>
        /\ queue' \in [Op -> Nat]
        /\ UNCHANGED <<op, posted, registered, pending, sends, applied, refused, crashes>>
    BY <1>1 DEF Load
  <2>2. Copy(o, op[o]) \in CopyType /\ Copy(o, op[o]).id = o
    BY DEF Copy, RowType, CopyType
  <2>3. TypeOK' BY <2>1, <2>2 DEF PC
  <2>4. CopyOK' BY <2>1 DEF CopyOK, RowOK, CounterNeverOvercounts, Copy
  <2>5. RowOK'
    BY <2>1 DEF RowOK, OutcomeJustified, CounterNeverOvercounts, QueuedHasAttemptsLeft
  <2> QED BY <2>3, <2>4, <2>5
<1>2. CASE Mark(t)
  <2> DEFINE o == e_ops[t].id
             c == e_ops[t].transmit_counter
  <2>1. /\ o \in Op /\ c \in Nat /\ c <= sends[o]
    BY <1>2 DEF Mark, CopyOK, CopyType
  <2>2. /\ op' = [op EXCEPT ![o] = Row("SENDING", c)]
        /\ e_ops' = [e_ops EXCEPT ![t] = Copy(o, Row("SENDING", c))]
        /\ pc' = [pc EXCEPT ![t] = "sending"]
        /\ sends' = [sends EXCEPT ![o] = sends[o] + 1]
        /\ UNCHANGED <<posted, registered, pending, queue, applied, refused, crashes>>
    BY <1>2 DEF Mark, SaveRow, Copy, Row
  <2> HIDE DEF o, c
  <2>3. TypeOK' BY <2>1, <2>2 DEF Copy, Row, RowType, CopyType, PC, Status
  <2>4. CopyOK' BY <2>1, <2>2 DEF CopyOK, Copy, Row, CopyType
  <2>5. RowOK'
    BY <2>1, <2>2, OperationsAssumption
       DEF RowOK, OutcomeJustified, CounterNeverOvercounts, QueuedHasAttemptsLeft, Row, RowType
  <2> QED BY <2>3, <2>4, <2>5
<1>3. ASSUME NEW reply \in Reply, Answer(t, reply) PROVE IInv'
  <2> DEFINE e == e_ops[t]
             c == Classified(e_ops[t], reply)
  <2>1. /\ e \in CopyType /\ e.id \in Op /\ e.transmit_counter < sends[e.id]
    BY <1>3 DEF Answer, CopyOK
  <2>2. /\ c \in CopyType
        /\ c.id = e.id
        /\ c.transmit_counter <= e.transmit_counter + 1
        /\ c.status \in {"CONFIRMED", "FAILED", "QUEUED"}
        /\ c.status = "CONFIRMED" => reply = "ok"
        /\ c.status = "FAILED" =>
              reply \in {"rejected", "invalid"} \/ c.transmit_counter >= MAX_ATTEMPTS
        /\ c.status = "QUEUED" => c.transmit_counter < MAX_ATTEMPTS
    BY <2>1, ClassifiedFacts
  <2>3. /\ e_ops' = [e_ops EXCEPT ![t] = c]
        /\ pc' = [pc EXCEPT ![t] = "answered"]
        /\ applied \subseteq applied' /\ applied' \subseteq Op
        /\ refused \subseteq refused' /\ refused' \subseteq Op
        /\ reply = "ok" => e.id \in applied'
        /\ reply \in {"rejected", "invalid"} => e.id \in refused'
        /\ UNCHANGED <<op, posted, registered, pending, queue, sends, crashes>>
    BY <1>3, <2>1 DEF Answer
  <2>4. e.transmit_counter \in Nat /\ c.transmit_counter \in Nat /\ sends[e.id] \in Nat
    BY <2>1, <2>2 DEF CopyType
  <2> HIDE DEF e, c
  <2>5. TypeOK' BY <2>1, <2>2, <2>3 DEF PC
  <2>6. CopyOK'
    <3>1. c.transmit_counter <= sends[c.id] BY <2>1, <2>2, <2>4
    <3> QED BY <2>1, <2>2, <2>3, <3>1 DEF CopyOK
  <2>7. RowOK'
    BY <2>3 DEF RowOK, OutcomeJustified, CounterNeverOvercounts, QueuedHasAttemptsLeft
  <2> QED BY <2>5, <2>6, <2>7
<1>4. CASE Save(t)
  <2> DEFINE e == e_ops[t]
  <2>1. /\ e \in CopyType /\ e.id \in Op
        /\ e.transmit_counter <= sends[e.id]
        /\ e.status \in {"CONFIRMED", "FAILED", "QUEUED"}
        /\ e.status = "CONFIRMED" => e.id \in applied
        /\ e.status = "FAILED" => e.id \in refused \/ e.transmit_counter >= MAX_ATTEMPTS
        /\ e.status = "QUEUED" => e.transmit_counter < MAX_ATTEMPTS
    BY <1>4 DEF Save, CopyOK
  <2>2. /\ op' = [op EXCEPT ![e.id] = Row(e.status, e.transmit_counter)]
        /\ UNCHANGED <<posted, registered, pending, queue, sends, applied, refused, crashes>>
        /\ \/ pc' = [pc EXCEPT ![t] = "failed"] /\ e_ops' = e_ops
           \/ pc' = [pc EXCEPT ![t] = "idle"] /\ e_ops' = [e_ops EXCEPT ![t] = NoCopy]
    BY <1>4 DEF Save, SaveRow, Finish
  <2>3. NoCopy \in CopyType
    BY DEF NoCopy, Copy, Row, CopyType, Invisible
  <2> HIDE DEF e
  <2>4. TypeOK'
    <3>1. Row(e.status, e.transmit_counter) \in RowType
      BY <2>1 DEF CopyType, Row, RowType, Status
    <3> QED BY <2>1, <2>2, <2>3, <3>1 DEF PC, e
  <2>5. CopyOK' BY <2>1, <2>2 DEF CopyOK
  <2>6. RowOK'
    BY <2>1, <2>2, OperationsAssumption
       DEF RowOK, OutcomeJustified, CounterNeverOvercounts, QueuedHasAttemptsLeft, Row,
           RowType, CopyType
  <2> QED BY <2>4, <2>5, <2>6
<1>5. CASE PropagateNothing(t)
  <2> USE <1>5 DEF PropagateNothing, Finish
  <2>1. TypeOK' BY DEF NoCopy, Copy, Row, CopyType, Invisible, PC
  <2>2. CopyOK' BY DEF CopyOK
  <2>3. RowOK'
    BY DEF RowOK, OutcomeJustified, CounterNeverOvercounts, QueuedHasAttemptsLeft
  <2> QED BY <2>1, <2>2, <2>3
<1> QED BY <1>1, <1>2, <1>3, <1>4, <1>5 DEF TaskStep

(* A crash of the worker or an exception of a task only empties slots. *)
LEMMA CrashPreserves == IInv /\ (WorkerCrash \/ \E t \in Task : TaskFails(t)) => IInv'
<1> SUFFICES ASSUME IInv, WorkerCrash \/ \E t \in Task : TaskFails(t) PROVE IInv'
  OBVIOUS
<1> USE DEF IInv, TypeOK
<1>1. /\ \A t \in Task : \/ pc'[t] = "idle" /\ e_ops'[t] = NoCopy
                         \/ pc'[t] = pc[t] /\ e_ops'[t] = e_ops[t]
      /\ pc' \in [Task -> PC]
      /\ e_ops' \in [Task -> CopyType]
      /\ crashes' \in Nat
      /\ UNCHANGED <<op, posted, registered, pending, queue, sends, applied, refused>>
  <2>1. NoCopy \in CopyType
    BY DEF NoCopy, Copy, Row, CopyType, Invisible
  <2>2. CASE WorkerCrash BY <2>1, <2>2 DEF WorkerCrash, PC, opVars, brokerVars
  <2>3. CASE \E t \in Task : TaskFails(t)
    BY <2>1, <2>3 DEF TaskFails, Finish, PC, opVars, brokerVars
  <2> QED BY <2>2, <2>3
<1>2. TypeOK' BY <1>1
<1>3. CopyOK' BY <1>1 DEF CopyOK
<1>4. RowOK'
  BY <1>1 DEF RowOK, OutcomeJustified, CounterNeverOvercounts, QueuedHasAttemptsLeft
<1> QED BY <1>2, <1>3, <1>4

LEMMA NextPreserves == IInv /\ [Next]_vars => IInv'
<1> SUFFICES ASSUME IInv, [Next]_vars PROVE IInv'
  OBVIOUS
<1>1. CASE CreateStep BY <1>1, CreatePreserves
<1>2. CASE EventStep \/ ProcessPending \/ BrokerLoss BY <1>2, EventPreserves
<1>3. ASSUME NEW t \in Task, TaskStep(t) \/ PropagateNothing(t) PROVE IInv'
  BY <1>3, TaskPreserves
<1>4. CASE WorkerCrash \/ \E t \in Task : TaskFails(t) BY <1>4, CrashPreserves
<1>5. CASE UNCHANGED vars
  BY <1>5 DEF IInv, TypeOK, CopyOK, RowOK, OutcomeJustified, CounterNeverOvercounts,
              QueuedHasAttemptsLeft, vars, opVars, brokerVars, taskVars, histVars
<1> QED BY <1>1, <1>2, <1>3, <1>4, <1>5 DEF Next, FailureStep

(* IInv is an invariant of every execution. *)
THEOREM Invariance == Spec => []IInv
<1> QED BY InitIInv, NextPreserves, PTL DEF Spec

(* The types of the tables, the broker and the worker slots. *)
THEOREM TypeCorrect == Spec => []TypeOK
<1>1. IInv => TypeOK BY DEF IInv
<1> QED BY <1>1, Invariance, PTL

(* No interleaving of send_operation tasks, saves of stale rows and crashes *)
(* makes an operation CONFIRMED that the device did not apply, or FAILED    *)
(* that was neither refused nor sent MAX_ATTEMPTS times.                    *)
THEOREM OutcomesAreJustified == Spec => []OutcomeJustified
<1>1. IInv => OutcomeJustified BY DEF IInv, RowOK
<1> QED BY <1>1, Invariance, PTL

(* transmit_counter never exceeds the number of requests issued. *)
THEOREM CounterIsCovered == Spec => []CounterNeverOvercounts
<1>1. IInv => CounterNeverOvercounts BY DEF IInv, RowOK
<1> QED BY <1>1, Invariance, PTL

(* No operation is QUEUED for a retry with its attempts used up. *)
THEOREM RetriesAreBounded == Spec => []QueuedHasAttemptsLeft
<1>1. IInv => QueuedHasAttemptsLeft BY DEF IInv, RowOK
<1> QED BY <1>1, Invariance, PTL

-----------------------------------------------------------------------------
(* The last slot that wrote SENDING still works on the row, or has replaced *)
(* that status by its result.                                               *)
LEMMA StrandedStep == IInv /\ StrandedOnlyByCrash /\ [Next]_vars => StrandedOnlyByCrash'
<1> SUFFICES ASSUME IInv, StrandedOnlyByCrash, [Next]_vars PROVE StrandedOnlyByCrash'
  OBVIOUS
<1> USE DEF IInv, TypeOK, StrandedOnlyByCrash, Attempting, opVars, brokerVars, taskVars, histVars
<1>1. CASE CreateStep
  <2> PICK o \in Op :
        (\E s \in Status : ApiCreate(o, s)) \/ AdminSave(o) \/ AdminCommit(o) \/ AdminChange(o)
          \/ AdminDelete(o)
    BY <1>1 DEF CreateStep
  <2>1. UNCHANGED <<pc, e_ops, crashes>>
    BY DEF ApiCreate, AdminSave, AdminCommit, AdminChange, AdminDelete
  <2>2. \A p \in Op : op'[p].status = "SENDING" =>
            posted'[p] = "SENDING" \/ (op[p].status = "SENDING" /\ posted'[p] = posted[p])
    BY DEF ApiCreate, Insert, AdminSave, AdminCommit, AdminChange, AdminDelete, Row
  <2> QED BY <2>1, <2>2
<1>2. CASE EventStep \/ ProcessPending \/ BrokerLoss
  BY <1>2 DEF EventStep, RegistrationUpdate, Deregistration, ProcessPending, BrokerLoss
<1>3. ASSUME NEW t \in Task, TaskStep(t) \/ PropagateNothing(t) PROVE StrandedOnlyByCrash'
  <2>1. ASSUME NEW o \in Op, Load(t, o) PROVE StrandedOnlyByCrash'
    BY <2>1 DEF Load
  <2>2. CASE Mark(t)
    <3>1. /\ pc' = [pc EXCEPT ![t] = "sending"]
          /\ e_ops'[t].id = e_ops[t].id
          /\ \A u \in Task \ {t} : e_ops'[u] = e_ops[u]
          /\ \A o \in Op \ {e_ops[t].id} : op'[o] = op[o]
          /\ UNCHANGED <<posted, crashes>>
      BY <2>2 DEF Mark, SaveRow, Copy, Row
    <3> QED BY <3>1
  <2>3. ASSUME NEW reply \in Reply, Answer(t, reply) PROVE StrandedOnlyByCrash'
    <3>1. Classified(e_ops[t], reply).id = e_ops[t].id
      BY <2>3, ClassifiedFacts
    <3> QED BY <2>3, <3>1 DEF Answer
  <2>4. CASE Save(t)
    <3>1. e_ops[t].status # "SENDING"
      BY <2>4 DEF Save, CopyOK
    <3> QED BY <2>4, <3>1 DEF Save, SaveRow, Finish, Row
  <2>5. CASE PropagateNothing(t)
    BY <2>5 DEF PropagateNothing, Finish
  <2> QED BY <1>3, <2>1, <2>2, <2>3, <2>4, <2>5 DEF TaskStep
<1>4. CASE WorkerCrash \/ \E t \in Task : TaskFails(t)
  BY <1>4 DEF WorkerCrash, TaskFails
<1>5. CASE UNCHANGED vars
  BY <1>5 DEF vars
<1> QED BY <1>1, <1>2, <1>3, <1>4, <1>5 DEF Next, FailureStep

(* A row is SENDING with no task behind it only after a crash. *)
THEOREM StrandedNeedsCrash == Spec => []StrandedOnlyByCrash
<1>1. Init => StrandedOnlyByCrash
  BY DEF Init, StrandedOnlyByCrash, Row
<1> QED BY <1>1, StrandedStep, Invariance, PTL DEF Spec
=============================================================================
