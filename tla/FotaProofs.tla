----------------------------- MODULE FotaProofs -----------------------------
(***************************************************************************)
(* Firmware updates, for any number of updates, handlers and worker slots.   *)
(*                                                                           *)
(* Every save writes all columns of a row from a copy read earlier, so what  *)
(* has to be shown is a property of every copy in the memory of a handler or *)
(* a task, not only of the table.  Three properties hold for all             *)
(* interleavings: the types, that a finished update is idle, and that an     *)
(* operation belongs to one update.  Four more are proved for requests and   *)
(* tasks that run one after the other (Serial).                              *)
(***************************************************************************)
EXTENDS Fota, OperationsProofs, FiniteSetTheorems, TLAPS

(* A row, or a copy of one: active, or idle. *)
Coherent(r) == r.result \in Result \ {"DEFAULT"} => r.state = "IDLE"

FotaTypes ==
    /\ fw \in [Update -> FwRowType]
    /\ msg \in [Handler -> Report \cup {NoMsg}]
    /\ fw_obj \in [Handler -> FwCopyType]
    /\ todo \in [Handler -> SUBSET FwCopyType]
    /\ fw_update \in [Task -> FwCopyType]

CopiesCoherent ==
    /\ \A u \in Update : Coherent(fw[u])
    /\ \A h \in Handler : Coherent(fw_obj[h].row)
    /\ \A h \in Handler : \A c \in todo[h] : Coherent(c.row)
    /\ \A t \in Task : Coherent(fw_update[t].row)

FIInv == FotaTypes /\ CopiesCoherent

(* The rows that are created, and objects after a result was set. *)
LEMMA RowFacts ==
    /\ NoFw \in FwRowType /\ Coherent(NoFw)
    /\ NoFwCopy \in FwCopyType /\ Coherent(NoFwCopy.row)
    /\ NoRow("deleted") \in FwRowType /\ Coherent(NoRow("deleted"))
    /\ \A f \in Firmware, o \in Op :
          /\ FwRow("IDLE", "DEFAULT", f, o, NoOp) \in FwRowType
          /\ Coherent(FwRow("IDLE", "DEFAULT", f, o, NoOp))
    /\ \A c \in FwCopyType, r \in Result :
          Finished(c, r) \in FwCopyType /\ Coherent(Finished(c, r).row)
    /\ \A u \in Update, r \in FwRowType :
          FwCopy(u, r) \in FwCopyType /\ FwCopy(u, r).row = r
BY DEF NoRow, NoFw, NoFwCopy, FwRow, FwCopy, FwRowType, FwCopyType, Finished, Coherent, State, Result

LEMMA InitFIInv == FInit => FIInv
<1> SUFFICES ASSUME FInit PROVE FIInv
  OBVIOUS
<1>1. FotaTypes BY RowFacts DEF FInit, FotaTypes
<1>2. CopiesCoherent BY RowFacts DEF FInit, CopiesCoherent
<1> QED BY <1>1, <1>2 DEF FIInv

(* Steps that leave every update and every copy of one alone. *)
LEMMA NoUpdateTouched ==
    ASSUME FIInv, UNCHANGED <<fw, msg, fw_obj, todo, fw_update>>
    PROVE  FIInv'
BY DEF FIInv, FotaTypes, CopiesCoherent

(* The end of a request. *)
LEMMA ReturnPreserves ==
    ASSUME FIInv, NEW h \in Handler, Return(h), UNCHANGED <<fw, fw_update>>
    PROVE  FIInv'
BY RowFacts DEF FIInv, FotaTypes, CopiesCoherent, Return, Hold

(* A handler replaces the object it holds by a coherent one. *)
LEMMA HoldPreserves ==
    ASSUME FIInv, NEW h \in Handler, NEW c \in FwCopyType, Coherent(c.row), Hold(h, c),
           UNCHANGED <<fw, msg, fw_update>>,
           \/ todo' = todo
           \/ \E S \in SUBSET todo[h] : todo' = [todo EXCEPT ![h] = S]
    PROVE  FIInv'
BY DEF FIInv, FotaTypes, CopiesCoherent, Hold

LEMMA GetPreserves ==
    ASSUME FIInv, NEW h \in Handler, Get(h)
    PROVE  FIInv'
<1> DEFINE m == msg[h]
<1>1. UNCHANGED <<fw, fw_update>>
  BY DEF Get
<1>2. CASE Return(h) BY <1>1, <1>2, ReturnPreserves
<1>3. ASSUME NEW u \in Active, NEW r \in Result, Hold(h, Finished(FwCopy(u, fw[u]), r)),
             UNCHANGED <<msg, todo>>
      PROVE  FIInv'
  <2>1. FwCopy(u, fw[u]) \in FwCopyType
    BY RowFacts DEF FIInv, FotaTypes, Active
  <2> QED BY <1>1, <1>3, <2>1, RowFacts, HoldPreserves
<1>4. ASSUME NEW u \in Active, m.kind = "state", UNCHANGED <<msg, todo>>,
             Hold(h, FwCopy(u, [fw[u] EXCEPT !.state = m.value]))
      PROVE  FIInv'
  <2> DEFINE row == [fw[u] EXCEPT !.state = m.value]
  <2>1. m \in Report \cup {NoMsg} /\ fw[u] \in FwRowType /\ fw[u].result = "DEFAULT" /\ u \in Update
    BY DEF FIInv, FotaTypes, Active
  <2>2. m.value \in State
    BY <1>4, <2>1, FotaAssumption DEF Report, NoMsg
  <2>3. row \in FwRowType /\ Coherent(row)
    BY <2>1, <2>2 DEF FwRowType, Coherent
  <2> HIDE DEF row
  <2>4. FwCopy(u, row) \in FwCopyType /\ Coherent(FwCopy(u, row).row)
    BY <2>1, <2>3, RowFacts
  <2> QED BY <1>1, <1>4, <2>4, HoldPreserves DEF row
<1>5. m.kind = "result" => m.value \in Result
  <2>1. m \in Report \cup {NoMsg} BY DEF FIInv, FotaTypes
  <2> QED BY <2>1, FotaAssumption DEF Report, NoMsg
<1> QED BY <1>2, <1>3, <1>4, <1>5 DEF Get, Result

(* Receive: a report is taken up, and nothing else. *)
LEMMA ReceivePreserves ==
    ASSUME FIInv, NEW h \in Handler, NEW m \in Report, Receive(h, m)
    PROVE  FIInv'
BY DEF FIInv, FotaTypes, CopiesCoherent, Receive

(* latest and stale_fw: the handler takes copies of rows of the table. *)
LEMMA LatestPreserves ==
    ASSUME FIInv, NEW h \in Handler, Latest(h)
    PROVE  FIInv'
<1>1. UNCHANGED <<fw, fw_update>>
  BY DEF Latest
<1>2. CASE Return(h) BY <1>1, <1>2, ReturnPreserves
<1>3. ASSUME NEW u \in Active, Hold(h, FwCopy(u, fw[u])), UNCHANGED <<msg, todo>>
      PROVE  FIInv'
  <2>1. FwCopy(u, fw[u]) \in FwCopyType /\ Coherent(FwCopy(u, fw[u]).row)
    BY RowFacts DEF FIInv, FotaTypes, CopiesCoherent, Active
  <2> QED BY <1>1, <1>3, <2>1, HoldPreserves
<1> QED BY <1>2, <1>3 DEF Latest

LEMMA OthersPreserves ==
    ASSUME FIInv, NEW h \in Handler, Others(h)
    PROVE  FIInv'
<1> DEFINE S == {FwCopy(u, fw[u]) : u \in Active \ {fw_obj[h].id}}
<1>1. \A u \in Active : /\ FwCopy(u, fw[u]) \in FwCopyType
                        /\ Coherent(FwCopy(u, fw[u]).row)
  BY RowFacts DEF FIInv, FotaTypes, CopiesCoherent, Active
<1>2. S \in SUBSET FwCopyType /\ \A c \in S : Coherent(c.row)
  BY <1>1
<1>3. todo' = [todo EXCEPT ![h] = S] /\ UNCHANGED <<fw, msg, fw_obj, fw_update>>
  BY DEF Others
<1> HIDE DEF S
<1> QED BY <1>2, <1>3 DEF FIInv, FotaTypes, CopiesCoherent

LEMMA NextStalePreserves ==
    ASSUME FIInv, NEW h \in Handler, NextStale(h)
    PROVE  FIInv'
<1>1. UNCHANGED <<fw, msg, fw_update>>
  BY DEF NextStale
<1>2. CASE UNCHANGED <<todo, fw_obj>>
  BY <1>1, <1>2, NoUpdateTouched
<1>3. ASSUME NEW c \in todo[h], todo' = [todo EXCEPT ![h] = todo[h] \ {c}],
             Hold(h, Finished(c, "UPDATE_FAILED"))
      PROVE  FIInv'
  <2>1. c \in FwCopyType
    BY DEF FIInv, FotaTypes
  <2>2. /\ Finished(c, "UPDATE_FAILED") \in FwCopyType
        /\ Coherent(Finished(c, "UPDATE_FAILED").row)
    BY <2>1, RowFacts DEF Result
  <2>3. \E S \in SUBSET todo[h] : todo' = [todo EXCEPT ![h] = S]
    BY <1>3
  <2> QED BY <1>1, <1>3, <2>2, <2>3, HoldPreserves
<1> QED BY <1>2, <1>3 DEF NextStale

LEMMA CreateExecutePreserves ==
    ASSUME FIInv, NEW h \in Handler, NEW o \in Op, CreateExecute(h, o)
    PROVE  FIInv'
<1> DEFINE c == fw_obj[h]
           d == FwCopy(c.id, [c.row EXCEPT !.execute_operation = o])
<1>1. c \in FwCopyType /\ Coherent(c.row)
  BY DEF FIInv, FotaTypes, CopiesCoherent
<1>2. d \in FwCopyType /\ Coherent(d.row)
  BY <1>1 DEF FwCopy, FwCopyType, FwRowType, Coherent
<1>3. Hold(h, d) /\ UNCHANGED <<fw, msg, todo, fw_update>>
  BY DEF CreateExecute
<1> HIDE DEF d
<1> QED BY <1>2, <1>3, HoldPreserves

(* A save writes a coherent object over a row, whatever the row holds now. *)
LEMMA SavePreserves ==
    ASSUME FIInv, NEW c \in FwCopyType, Coherent(c.row),
           fw' = [fw EXCEPT ![c.id] = c.row], UNCHANGED <<msg, fw_obj, todo, fw_update>>
    PROVE  FIInv'
BY DEF FIInv, FotaTypes, CopiesCoherent, FwCopyType

LEMMA SaveUpdatePreserves ==
    ASSUME FIInv, NEW h \in Handler, SaveUpdate(h)
    PROVE  FIInv'
<1> DEFINE c == fw_obj[h]
<1>1. c \in FwCopyType /\ Coherent(c.row)
  BY DEF FIInv, FotaTypes, CopiesCoherent
<1>2. fw' = [fw EXCEPT ![c.id] = c.row] /\ UNCHANGED fw_update
  BY DEF SaveUpdate
<1>3. CASE UNCHANGED localVars
  <2>1. UNCHANGED <<msg, fw_obj, todo, fw_update>>
    BY <1>2, <1>3 DEF localVars
  <2> QED BY <1>1, <1>2, <2>1, SavePreserves
<1>4. CASE Return(h)
  <2>1. /\ fw' \in [Update -> FwRowType]
        /\ \A u \in Update : Coherent(fw'[u])
    BY <1>1, <1>2 DEF FIInv, FotaTypes, CopiesCoherent, FwCopyType
  <2>2. /\ msg' \in [Handler -> Report \cup {NoMsg}]
        /\ fw_obj' \in [Handler -> FwCopyType]
        /\ todo' \in [Handler -> SUBSET FwCopyType]
    BY <1>4, RowFacts DEF FIInv, FotaTypes, Return, Hold
  <2>3. /\ \A g \in Handler : Coherent(fw_obj'[g].row)
        /\ \A g \in Handler : \A d \in todo'[g] : Coherent(d.row)
    BY <1>4, RowFacts DEF FIInv, FotaTypes, CopiesCoherent, Return, Hold
  <2> QED BY <1>2, <2>1, <2>2, <2>3 DEF FIInv, FotaTypes, CopiesCoherent
<1> QED BY <1>3, <1>4 DEF SaveUpdate

LEMMA StartUpdatePreserves ==
    ASSUME FIInv, NEW u \in Update, NEW o \in Op, NEW f \in Firmware, NEW trigger \in BOOLEAN,
           StartUpdate(u, o, f, trigger)
    PROVE  FIInv'
<1> DEFINE row == FwRow("IDLE", "DEFAULT", f, o, NoOp)
<1>1. row \in FwRowType /\ Coherent(row)
  BY RowFacts
<1>2. fw' = [fw EXCEPT ![u] = row] /\ UNCHANGED <<msg, fw_obj, todo, fw_update>>
  BY DEF StartUpdate, handlerVars, localVars
<1> HIDE DEF row
<1> QED BY <1>1, <1>2 DEF FIInv, FotaTypes, CopiesCoherent

LEMMA AdminDeleteUpdatePreserves ==
    ASSUME FIInv, NEW u \in Update, AdminDeleteUpdate(u)
    PROVE  FIInv'
<1> DEFINE row == NoRow("deleted")
<1>1. row \in FwRowType /\ Coherent(row)
  BY RowFacts
<1>2. fw' = [fw EXCEPT ![u] = row] /\ UNCHANGED <<msg, fw_obj, todo, fw_update>>
  BY DEF AdminDeleteUpdate, handlerVars, localVars
<1> HIDE DEF row
<1> QED BY <1>1, <1>2 DEF FIInv, FotaTypes, CopiesCoherent

(* A firmware update is created, changed or deleted by a user. *)
LEMMA UserStepPreserves ==
    ASSUME FIInv, UserStep
    PROVE  FIInv'
<1>1. ASSUME NEW u \in Update, NEW f \in Firmware, AdminChangeUpdate(u, f) PROVE FIInv'
  <2> DEFINE row == [fw[u] EXCEPT !.firmware = f]
  <2>1. fw[u] \in FwRowType /\ Coherent(fw[u])
    BY DEF FIInv, FotaTypes, CopiesCoherent
  <2>2. row \in FwRowType /\ Coherent(row)
    BY <2>1 DEF FwRowType, Coherent
  <2>3. fw' = [fw EXCEPT ![u] = row] /\ UNCHANGED <<msg, fw_obj, todo, fw_update>>
    BY <1>1 DEF AdminChangeUpdate, handlerVars, localVars
  <2> HIDE DEF row
  <2> QED BY <2>2, <2>3 DEF FIInv, FotaTypes, CopiesCoherent
<1> QED BY <1>1, StartUpdatePreserves, AdminDeleteUpdatePreserves DEF UserStep

LEMMA PropagateReadPreserves ==
    ASSUME FIInv, NEW t \in Task, PropagateRead(t)
    PROVE  FIInv'
<1>1. UNCHANGED <<fw, msg, fw_obj, todo>>
  BY DEF PropagateRead, PropagateTo, handlerVars, localVars
<1>2. CASE UNCHANGED fw_update
  BY <1>1, <1>2, NoUpdateTouched
<1>3. ASSUME NEW u \in Update,
             fw_update' = [fw_update EXCEPT ![t] = Finished(FwCopy(u, fw[u]), "UPDATE_FAILED")]
      PROVE  FIInv'
  <2> DEFINE c == Finished(FwCopy(u, fw[u]), "UPDATE_FAILED")
  <2>1. FwCopy(u, fw[u]) \in FwCopyType
    BY RowFacts DEF FIInv, FotaTypes
  <2>2. c \in FwCopyType /\ Coherent(c.row)
    BY <2>1, RowFacts DEF Result
  <2> HIDE DEF c
  <2>3. fw_update' = [fw_update EXCEPT ![t] = c]
    BY <1>3 DEF c
  <2> QED BY <1>1, <2>2, <2>3 DEF FIInv, FotaTypes, CopiesCoherent
<1> QED BY <1>2, <1>3 DEF PropagateRead, PropagateTo, Owners

LEMMA PropagateSavePreserves ==
    ASSUME FIInv, NEW t \in Task, PropagateSave(t)
    PROVE  FIInv'
<1> DEFINE c == fw_update[t]
<1>1. c \in FwCopyType /\ Coherent(c.row)
  BY DEF FIInv, FotaTypes, CopiesCoherent
<1>2. /\ fw' = [fw EXCEPT ![c.id] = c.row]
      /\ fw_update' = [fw_update EXCEPT ![t] = NoFwCopy]
      /\ UNCHANGED <<msg, fw_obj, todo>>
  BY DEF PropagateSave, handlerVars, localVars
<1>3. /\ fw' \in [Update -> FwRowType]
      /\ \A u \in Update : Coherent(fw'[u])
  BY <1>1, <1>2 DEF FIInv, FotaTypes, CopiesCoherent, FwCopyType
<1>4. /\ fw_update' \in [Task -> FwCopyType]
      /\ \A s \in Task : Coherent(fw_update'[s].row)
  BY <1>2, RowFacts DEF FIInv, FotaTypes, CopiesCoherent
<1> QED BY <1>2, <1>3, <1>4 DEF FIInv, FotaTypes, CopiesCoherent

(* The steps of handle_fota. *)
LEMMA HandlerStepPreserves ==
    ASSUME FIInv, NEW h \in Handler, HandlerStep(h)
    PROVE  FIInv'
<1>1. CASE CountActive(h)
  <2>1. UNCHANGED <<fw, fw_update>>
    BY <1>1 DEF CountActive
  <2>2. CASE Return(h) BY <2>1, <2>2, ReturnPreserves
  <2>3. CASE UNCHANGED localVars BY <2>1, <2>3, NoUpdateTouched DEF localVars
  <2> QED BY <1>1, <2>2, <2>3 DEF CountActive
<1>2. CASE Latest(h) BY <1>2, LatestPreserves
<1>3. CASE Others(h) BY <1>3, OthersPreserves
<1>4. CASE NextStale(h) BY <1>4, NextStalePreserves
<1>5. CASE Get(h) BY <1>5, GetPreserves
<1>6. CASE \E o \in Op : CreateExecute(h, o) BY <1>6, CreateExecutePreserves
<1>7. CASE TriggerExecute(h)
  BY <1>7, NoUpdateTouched DEF TriggerExecute, localVars
<1>8. CASE HandlerFails(h)
  BY <1>8, ReturnPreserves DEF HandlerFails
<1>9. CASE AbortExecute(h)
  BY <1>9, NoUpdateTouched DEF AbortExecute, AbortRead, AbortSave
<1>10. CASE AbortSendUri(h)
  BY <1>10, NoUpdateTouched DEF AbortSendUri, AbortRead, AbortSave
<1>11. CASE SaveUpdate(h) BY <1>11, SaveUpdatePreserves
<1> QED BY <1>1, <1>2, <1>3, <1>4, <1>5, <1>6, <1>7, <1>8, <1>9, <1>10, <1>11 DEF HandlerStep

LEMMA FNextPreserves == FIInv /\ [FNext]_fvars => FIInv'
<1> SUFFICES ASSUME FIInv, [FNext]_fvars PROVE FIInv'
  OBVIOUS
<1>1. CASE UserStep BY <1>1, UserStepPreserves
<1>2. ASSUME NEW h \in Handler, HandlerStep(h) PROVE FIInv'
  BY <1>2, HandlerStepPreserves
<1>3. ASSUME NEW h \in Handler, NEW m \in Report, Receive(h, m) PROVE FIInv'
  BY <1>3, ReceivePreserves
<1>4. ASSUME NEW t \in Task, FTaskStep(t) PROVE FIInv'
  <2>1. CASE UNCHANGED fotaVars
    BY <2>1, NoUpdateTouched DEF fotaVars, handlerVars, localVars
  <2>2. CASE PropagateRead(t) BY <2>2, PropagateReadPreserves
  <2>3. CASE PropagateSave(t) BY <2>3, PropagateSavePreserves
  <2>4. CASE fw_update' = [fw_update EXCEPT ![t] = NoFwCopy] /\ UNCHANGED <<fw, handlerVars>>
    BY <2>4, RowFacts DEF FIInv, FotaTypes, CopiesCoherent, handlerVars, localVars
  <2> QED BY <1>4, <2>1, <2>2, <2>3, <2>4 DEF FTaskStep
<1>5. CASE BackgroundStep
  BY <1>5, NoUpdateTouched DEF BackgroundStep, fotaVars, handlerVars, localVars
<1>6. CASE FWorkerCrash
  <2>1. /\ fw_update' = [t \in Task |-> NoFwCopy]
        /\ UNCHANGED <<fw, msg, fw_obj, todo>>
    BY <1>6 DEF FWorkerCrash, handlerVars, localVars
  <2> QED BY <2>1, RowFacts DEF FIInv, FotaTypes, CopiesCoherent
<1>7. CASE UNCHANGED fvars
  BY <1>7, NoUpdateTouched DEF fvars, fotaVars, handlerVars, localVars
<1> QED BY <1>1, <1>2, <1>3, <1>4, <1>5, <1>6, <1>7 DEF FNext

(* The table and every copy of one of its rows, in a request or in a task,  *)
(* stay well-typed and coherent.                                            *)
THEOREM FInvariance == FSpec => []FIInv
<1>1. FInit => FIInv BY InitFIInv
<1>2. FIInv /\ [FNext]_fvars => FIInv' BY FNextPreserves
<1> QED BY <1>1, <1>2, PTL DEF FSpec

(* handle_fota and _propagate_failure_to_firmware_update: whatever the      *)
(* interleaving of stale saves, a finished update is in STATE_IDLE.         *)
THEOREM FinishedUpdatesAreIdle == FSpec => []FinishedIsIdle
<1>1. FIInv => FinishedIsIdle
  BY DEF FIInv, CopiesCoherent, Coherent, FinishedIsIdle
<1> QED BY <1>1, FInvariance, PTL

-----------------------------------------------------------------------------
(* Types: what a handler and a task hold has the key of a row, and is not a  *)
(* row that was never there.                                                 *)

HandlerSide ==
    /\ hpc \in [Handler -> HPC]
    /\ dedup \in [Handler -> BOOLEAN]
    /\ hop \in [Handler -> CopyType]
    /\ \A h \in Handler :
          /\ hpc[h] \in {"exec?", "exec!", "uri?", "uri!", "create", "delay", "save"} =>
                fw_obj[h].id \in Update
          /\ hpc[h] \in {"exec!", "uri!"} => hop[h].id \in Op /\ hop[h].status # "absent"
          /\ \A c \in todo[h] : c.id \in Update

TaskSide ==
    /\ TypeOK
    /\ \A t \in Task : /\ pc[t] = "propagating" => fw_update[t].id \in Update
                       /\ pc[t] # "idle" => e_ops[t].status # "absent"

TInv == FIInv /\ HandlerSide /\ TaskSide

LEMMA CopyFacts ==
    /\ NoCopy \in CopyType
    /\ \A o \in Op, r \in RowType :
          Copy(o, r) \in CopyType /\ Copy(o, r).id = o /\ Copy(o, r).status = r.status
    /\ \A c \in CopyType : Row(c.status, c.transmit_counter) \in RowType
    /\ \A s \in Status, n \in Nat : Row(s, n) \in RowType /\ Row(s, n).status = s
BY DEF NoCopy, Copy, Row, CopyType, RowType, Invisible, Status

LEMMA InitTInv == FInit => TInv
<1> SUFFICES ASSUME FInit PROVE TInv
  OBVIOUS
<1>1. HandlerSide BY CopyFacts DEF FInit, HandlerSide, HPC
<1>2. TypeOK BY InitIInv DEF FInit, IInv
<1>3. TaskSide BY <1>2 DEF TaskSide, FInit, Init
<1> QED BY <1>1, <1>3, InitFIInv DEF TInv

(* The handlers' steps, as far as handlers are concerned. *)
LEMMA ReturnTypes ==
    ASSUME TInv, NEW h \in Handler, Return(h)
    PROVE  HandlerSide'
BY CopyFacts DEF TInv, FIInv, FotaTypes, HandlerSide, Return, Goto, Hold, HPC

(* What Get comes to. *)
GotResult(h) ==
    \E u \in Active, r \in Result :
        /\ Active = {u}
        /\ r = "DEFAULT" => r \in ReportedResult
        /\ Hold(h, Finished(FwCopy(u, fw[u]), r))
        /\ Goto(h, "exec?")

GotState(h) ==
    \E u \in Active, s \in State, l \in {"create", "save"} :
        /\ Active = {u}
        /\ s = "DOWNLOADED" <=> l = "create"
        /\ Hold(h, FwCopy(u, [fw[u] EXCEPT !.state = s]))
        /\ Goto(h, l)

LEMMA GetCases ==
    ASSUME FotaTypes, NEW h \in Handler, Get(h)
    PROVE  /\ Return(h) \/ (UNCHANGED <<msg, todo, dedup, hop>> /\ (GotResult(h) \/ GotState(h)))
           /\ UNCHANGED <<vars, fw, fw_update, reports>>
<1> DEFINE m == msg[h]
<1>1. m \in Report \cup {NoMsg}
  BY DEF FotaTypes
<1>2. /\ m.kind = "state" => m.value \in State
      /\ m.kind = "result" => m.value \in Result /\ m.value \in ReportedResult
  BY <1>1, FotaAssumption DEF Report, NoMsg
<1>3. CASE Return(h)
  BY <1>3 DEF Get
<1>4. ASSUME NEW u \in Active, NEW r \in Result, r = "DEFAULT" => r \in ReportedResult,
             Active = {u}, Hold(h, Finished(FwCopy(u, fw[u]), r)), Goto(h, "exec?")
      PROVE  GotResult(h)
  BY <1>4 DEF GotResult
<1>5. ASSUME NEW u \in Active, Active = {u}, m.kind = "version", UNCHANGED <<msg, todo, dedup, hop>>,
             Hold(h, Finished(FwCopy(u, fw[u]), IF Installed(fw[u], m.value)
                                                THEN "SUCCESS" ELSE "UPDATE_FAILED")),
             Goto(h, "exec?")
      PROVE  GotResult(h)
  <2>1. CASE Installed(fw[u], m.value)
    BY <1>4, <1>5, <2>1 DEF Result
  <2>2. CASE ~Installed(fw[u], m.value)
    BY <1>4, <1>5, <2>2 DEF Result
  <2> QED BY <2>1, <2>2
<1>6. ASSUME NEW u \in Active, Active = {u}, m.kind = "result", UNCHANGED <<msg, todo, dedup, hop>>,
             Hold(h, Finished(FwCopy(u, fw[u]), m.value)), Goto(h, "exec?")
      PROVE  GotResult(h)
  BY <1>2, <1>4, <1>6
<1>7. ASSUME NEW u \in Active, Active = {u}, m.kind = "state", UNCHANGED <<msg, todo, dedup, hop>>,
             Hold(h, FwCopy(u, [fw[u] EXCEPT !.state = m.value])),
             Goto(h, IF m.value = "DOWNLOADED" THEN "create" ELSE "save")
      PROVE  GotState(h)
  <2>1. PICK l \in {"create", "save"} : (m.value = "DOWNLOADED" <=> l = "create") /\ Goto(h, l)
    BY <1>7
  <2> QED BY <1>2, <1>7, <2>1 DEF GotState
<1>8. CASE ~Return(h)
  <2>1. UNCHANGED <<vars, fw, fw_update, reports>>
    BY DEF Get
  <2> QED BY <1>5, <1>6, <1>7, <1>8, <2>1 DEF Get
<1> QED BY <1>3, <1>8

(* A handler holds another object and goes on. *)
LEMMA HoldTypes ==
    ASSUME TInv, NEW h \in Handler, NEW c \in FwCopyType, c.id \in Update, Hold(h, c),
           NEW l \in HPC \ {"exec!", "uri!"}, Goto(h, l), UNCHANGED hop,
           dedup' = dedup \/ dedup' = [dedup EXCEPT ![h] = TRUE],
           \/ todo' = todo
           \/ \E S \in SUBSET todo[h] : todo' = [todo EXCEPT ![h] = S]
    PROVE  HandlerSide'
BY DEF TInv, FIInv, FotaTypes, HandlerSide, Goto, Hold

LEMMA HandlerTypes ==
    ASSUME TInv, NEW h \in Handler, HandlerStep(h)
    PROVE  HandlerSide'
<1> USE DEF TInv, FIInv, FotaTypes, HandlerSide, Goto, Hold, HPC, localVars
<1>0. CASE Return(h) BY <1>0, ReturnTypes
<1>1. CASE CountActive(h) BY <1>0, <1>1 DEF CountActive
<1>2. CASE Latest(h) BY <1>0, <1>2 DEF Latest
<1>3. CASE Others(h)
  <2>1. \A u \in Active : FwCopy(u, fw[u]).id \in Update
    BY DEF FwCopy, Active
  <2> QED BY <1>3, <2>1 DEF Others
<1>4. CASE NextStale(h)
  <2>1. CASE todo[h] = {} /\ Goto(h, "get") /\ dedup' = [dedup EXCEPT ![h] = FALSE]
             /\ UNCHANGED <<todo, fw_obj, hop>>
    BY <2>1
  <2>2. ASSUME NEW c \in todo[h], todo' = [todo EXCEPT ![h] = todo[h] \ {c}], UNCHANGED hop,
               Hold(h, Finished(c, "UPDATE_FAILED")), dedup' = [dedup EXCEPT ![h] = TRUE],
               Goto(h, "exec?")
        PROVE  HandlerSide'
    <3>1. c \in FwCopyType /\ Finished(c, "UPDATE_FAILED").id = c.id
      BY DEF Finished, FwCopy
    <3>2. Finished(c, "UPDATE_FAILED") \in FwCopyType /\ c.id \in Update
      BY <3>1, RowFacts DEF Result
    <3>3. \E S \in SUBSET todo[h] : todo' = [todo EXCEPT ![h] = S]
      BY <2>2
    <3> HIDE DEF TInv, FIInv, FotaTypes, HandlerSide, Goto, Hold
    <3> QED BY <2>2, <3>1, <3>2, <3>3, HoldTypes DEF HPC
  <2> QED BY <1>4, <2>1, <2>2 DEF NextStale
<1>5. CASE Get(h)
  <2> HIDE DEF TInv, FIInv, FotaTypes, HandlerSide, Goto, Hold
  <2>1. CASE GotResult(h) /\ UNCHANGED <<msg, todo, dedup, hop>>
    <3>1. PICK u \in Active, r \in Result : Hold(h, Finished(FwCopy(u, fw[u]), r)) /\ Goto(h, "exec?")
      BY <2>1 DEF GotResult
    <3>2. FwCopy(u, fw[u]) \in FwCopyType
      BY RowFacts DEF TInv, FIInv, FotaTypes, Active
    <3>3. Finished(FwCopy(u, fw[u]), r) \in FwCopyType /\ Finished(FwCopy(u, fw[u]), r).id \in Update
      BY <3>2, RowFacts DEF Finished, FwCopy, Active
    <3> QED BY <2>1, <3>1, <3>3, HoldTypes DEF HPC
  <2>2. CASE GotState(h) /\ UNCHANGED <<msg, todo, dedup, hop>>
    <3>1. PICK u \in Active, s \in State, l \in {"create", "save"} :
             Hold(h, FwCopy(u, [fw[u] EXCEPT !.state = s])) /\ Goto(h, l)
      BY <2>2 DEF GotState
    <3>2. fw[u] \in FwRowType /\ u \in Update
      BY DEF TInv, FIInv, FotaTypes, Active
    <3>3. [fw[u] EXCEPT !.state = s] \in FwRowType
      BY <3>2 DEF FwRowType
    <3>4. /\ FwCopy(u, [fw[u] EXCEPT !.state = s]) \in FwCopyType
          /\ FwCopy(u, [fw[u] EXCEPT !.state = s]).id \in Update
      BY <3>2, <3>3, RowFacts DEF FwCopy
    <3> QED BY <2>2, <3>1, <3>4, HoldTypes DEF HPC
  <2>3. FotaTypes BY DEF TInv, FIInv
  <2> QED BY <1>0, <1>5, <2>1, <2>2, <2>3, GetCases
<1>6. ASSUME NEW o \in Op, CreateExecute(h, o) PROVE HandlerSide'
  <2>1. \A u, r : FwCopy(u, r).id = u
    BY DEF FwCopy
  <2> QED BY <1>6, <2>1 DEF CreateExecute
<1>7. CASE TriggerExecute(h) BY <1>7 DEF TriggerExecute
<1>8. CASE HandlerFails(h) BY <1>0, <1>8 DEF HandlerFails
<1>9. ASSUME NEW o, NEW abort \in {"exec!", "uri!"}, NEW next \in {"uri?", "save"},
             NEW here \in {"exec?", "uri?"}, AbortRead(h, here, o, abort, next)
      PROVE  HandlerSide'
  <2>1. o \in Op => /\ Failed(o) \in CopyType /\ Failed(o).id = o
                    /\ Failed(o).status = "FAILED"
    <3> SUFFICES ASSUME o \in Op
                 PROVE  /\ Failed(o) \in CopyType /\ Failed(o).id = o
                        /\ Failed(o).status = "FAILED"
      OBVIOUS
    <3>1. op[o].transmit_counter \in Nat
      BY DEF TaskSide, TypeOK, RowType
    <3>2. Row("FAILED", op[o].transmit_counter) \in RowType
          /\ Row("FAILED", op[o].transmit_counter).status = "FAILED"
      BY <3>1, CopyFacts DEF Status
    <3> QED BY <3>2, CopyFacts DEF Failed
  <2> QED BY <1>9, <2>1 DEF AbortRead
<1>10. ASSUME NEW here \in {"exec!", "uri!"}, NEW next \in {"uri?", "save"}, AbortSave(h, here, next)
       PROVE  HandlerSide'
  BY <1>10, CopyFacts DEF AbortSave
<1>11. CASE SaveUpdate(h) BY <1>0, <1>11 DEF SaveUpdate
<1> QED BY <1>1, <1>2, <1>3, <1>4, <1>5, <1>6, <1>7, <1>8, <1>9, <1>10, <1>11
        DEF HandlerStep, AbortExecute, AbortSendUri

(* Rows of operations are never unmade. *)
OpsStay == \A o \in Op : op[o].status # "absent" => op'[o].status # "absent"

(* Steps that leave operations and tasks alone. *)
LEMMA TasksUntouched ==
    ASSUME TInv, UNCHANGED vars, UNCHANGED fw_update
    PROVE  TaskSide' /\ OpsStay
BY DEF TInv, TaskSide, TypeOK, OpsStay, vars, opVars, brokerVars, taskVars, histVars

(* A message more. *)
LEMMA DelayTypes ==
    ASSUME TInv, Delay, UNCHANGED <<opVars, registered, taskVars, histVars, fw_update>>
    PROVE  TaskSide' /\ OpsStay
BY DEF TInv, TaskSide, TypeOK, OpsStay, Delay, opVars, taskVars, histVars

(* A new operation. *)
LEMMA InsertTypes ==
    ASSUME TInv, NEW o \in Op, Insert(o, "QUEUED"), Delay \/ UNCHANGED brokerVars,
           UNCHANGED <<registered, taskVars, histVars, fw_update>>
    PROVE  TaskSide' /\ OpsStay
<1>1. Row("QUEUED", 0) \in RowType /\ Row("QUEUED", 0).status = "QUEUED"
  BY CopyFacts DEF Status
<1>2. pending' \in Nat /\ queue' \in [Op -> Nat]
  BY DEF TInv, TaskSide, TypeOK, Delay, brokerVars
<1> QED BY <1>1, <1>2 DEF TInv, TaskSide, TypeOK, OpsStay, Insert, taskVars, histVars, Status

(* Any number of slots is emptied. *)
LEMMA FinishTypes ==
    ASSUME TInv, UNCHANGED <<opVars, registered, brokerVars, sends, applied, refused>>,
           crashes' \in Nat, NEW S \in SUBSET Task,
           \A t \in Task \ S : fw_update'[t] = fw_update[t],
           pc' = [t \in Task |-> IF t \in S THEN "idle" ELSE pc[t]],
           e_ops' = [t \in Task |-> IF t \in S THEN NoCopy ELSE e_ops[t]]
    PROVE  TaskSide' /\ OpsStay
<1>1. pc' \in [Task -> PC] /\ e_ops' \in [Task -> CopyType]
  BY CopyFacts DEF TInv, TaskSide, TypeOK, PC
<1>2. TypeOK'
  BY <1>1 DEF TInv, TaskSide, TypeOK, opVars, brokerVars
<1>3. \A t \in Task : /\ pc'[t] = "propagating" => fw_update'[t].id \in Update
                      /\ pc'[t] # "idle" => e_ops'[t].status # "absent"
  <2> SUFFICES ASSUME NEW t \in Task, pc'[t] # "idle"
               PROVE  /\ pc'[t] = "propagating" => fw_update'[t].id \in Update
                      /\ e_ops'[t].status # "absent"
    OBVIOUS
  <2>1. t \notin S
    OBVIOUS
  <2>2. pc'[t] = pc[t] /\ e_ops'[t] = e_ops[t] /\ fw_update'[t] = fw_update[t]
    BY <2>1
  <2> QED BY <2>2 DEF TInv, TaskSide
<1> QED BY <1>2, <1>3 DEF TaskSide, OpsStay, opVars

LEMMA HandlerTaskSide ==
    ASSUME TInv, NEW h \in Handler, HandlerStep(h)
    PROVE  TaskSide' /\ OpsStay
<1>1. CASE CountActive(h) BY <1>1, TasksUntouched DEF CountActive
<1>2. CASE Latest(h) BY <1>2, TasksUntouched DEF Latest
<1>3. CASE Others(h) BY <1>3, TasksUntouched DEF Others
<1>4. CASE NextStale(h) BY <1>4, TasksUntouched DEF NextStale
<1>5. CASE Get(h) BY <1>5, TasksUntouched DEF Get
<1>6. ASSUME NEW o \in Op, CreateExecute(h, o) PROVE TaskSide' /\ OpsStay
  BY <1>6, InsertTypes DEF CreateExecute
<1>7. CASE TriggerExecute(h) BY <1>7, DelayTypes DEF TriggerExecute
<1>8. CASE HandlerFails(h)
  BY <1>8 DEF HandlerFails, TInv, TaskSide, TypeOK, OpsStay, opVars, brokerVars, taskVars
<1>9. ASSUME NEW o, NEW abort, NEW next, NEW here, AbortRead(h, here, o, abort, next)
      PROVE  TaskSide' /\ OpsStay
  BY <1>9, TasksUntouched DEF AbortRead
<1>10. ASSUME NEW here \in {"exec!", "uri!"}, NEW next, AbortSave(h, here, next)
       PROVE  TaskSide' /\ OpsStay
  <2> DEFINE r == hop[h]
  <2>1. r \in CopyType /\ r.id \in Op /\ r.status # "absent"
    BY <1>10 DEF AbortSave, TInv, HandlerSide
  <2>2. op' = [op EXCEPT ![r.id] = Row(r.status, r.transmit_counter)]
    BY <1>10 DEF AbortSave, SaveRow
  <2>3. Row(r.status, r.transmit_counter) \in RowType /\ Row(r.status, r.transmit_counter).status # "absent"
    BY <2>1, CopyFacts DEF Row
  <2> HIDE DEF r
  <2> QED BY <1>10, <2>1, <2>2, <2>3
          DEF AbortSave, TInv, TaskSide, TypeOK, OpsStay, brokerVars, taskVars, histVars
<1>11. CASE SaveUpdate(h) BY <1>11, TasksUntouched DEF SaveUpdate
<1> QED BY <1>1, <1>2, <1>3, <1>4, <1>5, <1>6, <1>7, <1>8, <1>9, <1>10, <1>11
        DEF HandlerStep, AbortExecute, AbortSendUri

LEMMA TaskStepTypes ==
    ASSUME TInv, NEW t \in Task, TaskStep(t), UNCHANGED fw_update
    PROVE  TaskSide' /\ OpsStay
<1> USE DEF TInv, FIInv, FotaTypes, TaskSide, TypeOK, OpsStay, opVars, brokerVars, taskVars, histVars
<1>1. ASSUME NEW o \in Op, Load(t, o) PROVE TaskSide' /\ OpsStay
  <2>1. Copy(o, op[o]) \in CopyType /\ Copy(o, op[o]).id = o /\ Copy(o, op[o]).status = op[o].status
    BY CopyFacts
  <2>2. queue' \in [Op -> Nat]
    BY <1>1 DEF Load
  <2>3. CASE UNCHANGED taskVars BY <1>1, <2>2, <2>3 DEF Load
  <2>4. CASE Visible(o) /\ pc' = [pc EXCEPT ![t] = "loaded"] /\ e_ops' = [e_ops EXCEPT ![t] = Copy(o, op[o])]
    BY <1>1, <2>1, <2>2, <2>4 DEF Load, Visible, Invisible, PC
  <2> QED BY <1>1, <2>3, <2>4 DEF Load
<1>2. CASE Mark(t)
  <2> DEFINE n == e_ops[t].transmit_counter
             r == Copy(e_ops[t].id, Row("SENDING", n))
  <2>1. e_ops[t].id \in Op /\ n \in Nat
    BY <1>2 DEF Mark, CopyType
  <2>2. /\ r \in CopyType /\ r.id = e_ops[t].id /\ r.status = "SENDING"
        /\ Row(r.status, r.transmit_counter) \in RowType /\ Row(r.status, r.transmit_counter).status = r.status
    BY <2>1, CopyFacts DEF Status, Row
  <2>3. /\ op' = [op EXCEPT ![r.id] = Row(r.status, r.transmit_counter)]
        /\ e_ops' = [e_ops EXCEPT ![t] = r]
    BY <1>2 DEF Mark, SaveRow
  <2> HIDE DEF r, n
  <2> QED BY <1>2, <2>1, <2>2, <2>3 DEF Mark, PC
<1>3. ASSUME NEW reply \in Reply, Answer(t, reply) PROVE TaskSide' /\ OpsStay
  <2> DEFINE c == Classified(e_ops[t], reply)
  <2>1. c \in CopyType /\ c.id = e_ops[t].id /\ c.status # "absent"
    BY ClassifiedFacts
  <2>2. e_ops' = [e_ops EXCEPT ![t] = c]
    BY <1>3 DEF Answer
  <2> HIDE DEF c
  <2>3. applied' \subseteq Op /\ refused' \subseteq Op
    BY <1>3 DEF Answer
  <2> QED BY <1>3, <2>1, <2>2, <2>3 DEF Answer, PC
<1>4. CASE Save(t)
  <2>0. pc[t] = "answered" /\ e_ops[t] \in CopyType /\ e_ops[t].id \in Op /\ e_ops[t].status # "absent"
    <3> HIDE DEF FIInv, FotaTypes
    <3>1. pc[t] = "answered" BY <1>4 DEF Save
    <3> HIDE <1>4
    <3> QED BY <3>1
  <2>1. /\ e_ops[t] \in CopyType /\ e_ops[t].id \in Op
        /\ Row(e_ops[t].status, e_ops[t].transmit_counter) \in RowType
        /\ Row(e_ops[t].status, e_ops[t].transmit_counter).status # "absent"
    <3> HIDE DEF TInv, TaskSide, TypeOK
    <3>1. Row(e_ops[t].status, e_ops[t].transmit_counter).status = e_ops[t].status
      BY DEF Row
    <3> QED BY <2>0, <3>1, CopyFacts
  <2>2. op' \in [Op -> RowType] /\ \A o \in Op : op[o].status # "absent" => op'[o].status # "absent"
    BY <1>4, <2>1 DEF Save, SaveRow
  <2>3. CASE pc' = [pc EXCEPT ![t] = "failed"] /\ e_ops' = e_ops
    BY <1>4, <2>1, <2>2, <2>3 DEF Save, PC
  <2>4. CASE Finish(t)
    BY <1>4, <2>2, <2>4, CopyFacts DEF Save, Finish, PC
  <2> QED BY <1>4, <2>3, <2>4 DEF Save
<1> QED BY <1>1, <1>2, <1>3, <1>4 DEF TaskStep

(* One slot is emptied. *)
LEMMA FinishOneTypes ==
    ASSUME TInv, NEW t \in Task, Finish(t), crashes' \in Nat,
           fw_update' = fw_update \/ fw_update' = [fw_update EXCEPT ![t] = NoFwCopy],
           UNCHANGED <<opVars, registered, brokerVars, sends, applied, refused>>
    PROVE  TaskSide' /\ OpsStay
<1>1. /\ pc' = [s \in Task |-> IF s \in {t} THEN "idle" ELSE pc[s]]
      /\ e_ops' = [s \in Task |-> IF s \in {t} THEN NoCopy ELSE e_ops[s]]
  BY DEF Finish, TInv, TaskSide, TypeOK
<1>2. \A s \in Task \ {t} : fw_update'[s] = fw_update[s]
  BY DEF TInv, FIInv, FotaTypes
<1> QED BY <1>1, <1>2, FinishTypes

LEMMA FTaskTypes ==
    ASSUME TInv, NEW t \in Task, FTaskStep(t)
    PROVE  TaskSide' /\ OpsStay
<1>0. crashes \in Nat /\ pc \in [Task -> PC] /\ e_ops \in [Task -> CopyType]
  BY DEF TInv, TaskSide, TypeOK
<1>1. CASE TaskStep(t) /\ UNCHANGED fotaVars
  BY <1>1, TaskStepTypes DEF fotaVars
<1>2. CASE PropagateRead(t)
  <2>1. UNCHANGED <<opVars, registered, brokerVars, histVars>> /\ pc[t] = "failed"
    BY <1>2 DEF PropagateRead, PropagateTo
  <2>2. CASE Finish(t) /\ UNCHANGED fw_update
    BY <1>0, <2>1, <2>2, FinishOneTypes DEF histVars
  <2>3. ASSUME NEW u \in Update,
               fw_update' = [fw_update EXCEPT ![t] = Finished(FwCopy(u, fw[u]), "UPDATE_FAILED")],
               pc' = [pc EXCEPT ![t] = "propagating"], UNCHANGED e_ops
        PROVE  TaskSide' /\ OpsStay
    <3>1. Finished(FwCopy(u, fw[u]), "UPDATE_FAILED").id = u
      BY DEF Finished, FwCopy
    <3>2. \A s \in Task : pc'[s] = "propagating" => fw_update'[s].id \in Update
      BY <2>3, <3>1 DEF TInv, FIInv, FotaTypes, TaskSide, TypeOK
    <3>3. \A s \in Task : pc'[s] # "idle" => pc[s] # "idle"
      BY <1>0, <2>1, <2>3
    <3>4. pc' \in [Task -> PC]
      BY <1>0, <2>3 DEF PC
    <3> QED BY <2>1, <2>3, <3>2, <3>3, <3>4
            DEF TInv, TaskSide, TypeOK, OpsStay, opVars, brokerVars, histVars
  <2> QED BY <1>2, <2>2, <2>3 DEF PropagateRead, PropagateTo, Owners
<1>3. CASE PropagateSave(t)
  BY <1>0, <1>3, FinishOneTypes DEF PropagateSave, histVars
<1>4. CASE TaskFails(t) /\ fw_update' = [fw_update EXCEPT ![t] = NoFwCopy]
  <2>1. crashes' \in Nat BY <1>0, <1>4 DEF TaskFails
  <2> QED BY <1>4, <2>1, FinishOneTypes DEF TaskFails
<1> QED BY <1>1, <1>2, <1>3, <1>4 DEF FTaskStep

(* Steps of users, of the broker, and the end of the worker. *)
LEMMA OtherTypes ==
    ASSUME TInv, UserStep \/ BackgroundStep \/ FWorkerCrash
    PROVE  TaskSide' /\ OpsStay
<1>1. ASSUME NEW u \in Update, NEW o \in Op, NEW f \in Firmware, NEW trigger \in BOOLEAN,
             StartUpdate(u, o, f, trigger)
      PROVE  TaskSide' /\ OpsStay
  BY <1>1, InsertTypes DEF StartUpdate, NewTrigger
<1>2. ASSUME NEW u \in Update, NEW f \in Firmware, AdminChangeUpdate(u, f)
      PROVE  TaskSide' /\ OpsStay
  BY <1>2, DelayTypes DEF AdminChangeUpdate, NewTrigger
<1>3. ASSUME NEW u \in Update, AdminDeleteUpdate(u) PROVE TaskSide' /\ OpsStay
  BY <1>3, TasksUntouched DEF AdminDeleteUpdate
<1>4. CASE BackgroundStep
  <2>1. UNCHANGED fw_update BY <1>4 DEF BackgroundStep, fotaVars
  <2>2. CASE Trigger BY <2>1, <2>2, DelayTypes DEF Trigger, NewTrigger
  <2>3. CASE ProcessPending
    <3>1. pending' \in Nat /\ queue' \in [Op -> Nat]
      BY <2>3 DEF ProcessPending, TInv, TaskSide, TypeOK
    <3> QED BY <2>1, <2>3, <3>1
            DEF ProcessPending, TInv, TaskSide, TypeOK, OpsStay, opVars, taskVars, histVars
  <2>4. CASE BrokerLoss
    BY <2>1, <2>4 DEF BrokerLoss, TInv, TaskSide, TypeOK, OpsStay, opVars, taskVars
  <2> QED BY <1>4, <2>2, <2>3, <2>4 DEF BackgroundStep
<1>5. CASE FWorkerCrash
  <2>1. /\ crashes' \in Nat
        /\ pc' = [s \in Task |-> IF s \in Task THEN "idle" ELSE pc[s]]
        /\ e_ops' = [s \in Task |-> IF s \in Task THEN NoCopy ELSE e_ops[s]]
        /\ UNCHANGED <<opVars, registered, brokerVars, sends, applied, refused>>
    BY <1>5 DEF FWorkerCrash, WorkerCrash, TInv, TaskSide, TypeOK
  <2> QED BY <2>1, FinishTypes
<1> QED BY <1>1, <1>2, <1>3, <1>4, <1>5 DEF UserStep

LEMMA HandlersUntouched ==
    ASSUME TInv, UNCHANGED handlerVars
    PROVE  HandlerSide'
BY DEF TInv, HandlerSide, handlerVars, localVars

LEMMA TNextPreserves == TInv /\ [FNext]_fvars => TInv' /\ OpsStay
<1> SUFFICES ASSUME TInv, [FNext]_fvars PROVE TInv' /\ OpsStay
  OBVIOUS
<1>0. FIInv' BY FNextPreserves DEF TInv
<1>1. ASSUME NEW h \in Handler, HandlerStep(h) PROVE HandlerSide' /\ TaskSide' /\ OpsStay
  BY <1>1, HandlerTypes, HandlerTaskSide
<1>2. ASSUME NEW h \in Handler, NEW m \in Report, Receive(h, m)
      PROVE  HandlerSide' /\ TaskSide' /\ OpsStay
  <2>1. TaskSide' /\ OpsStay BY <1>2, TasksUntouched DEF Receive
  <2>2. HandlerSide'
    BY <1>2 DEF Receive, Goto, TInv, FIInv, FotaTypes, HandlerSide, HPC
  <2> QED BY <2>1, <2>2
<1>3. ASSUME NEW t \in Task, FTaskStep(t) PROVE HandlerSide' /\ TaskSide' /\ OpsStay
  <2>1. UNCHANGED handlerVars
    BY <1>3 DEF FTaskStep, PropagateRead, PropagateTo, PropagateSave, fotaVars
  <2> QED BY <1>3, <2>1, HandlersUntouched, FTaskTypes
<1>4. CASE UserStep \/ BackgroundStep \/ FWorkerCrash
  <2>1. UNCHANGED handlerVars
    BY <1>4 DEF UserStep, StartUpdate, AdminChangeUpdate, AdminDeleteUpdate, BackgroundStep,
                FWorkerCrash, fotaVars
  <2> QED BY <1>0, <1>4, <2>1, HandlersUntouched, OtherTypes DEF TInv
<1>5. CASE UNCHANGED fvars
  <2>1. UNCHANGED <<vars, handlerVars, fw_update>> BY <1>5 DEF fvars, fotaVars
  <2> QED BY <1>0, <2>1, HandlersUntouched, TasksUntouched DEF TInv
<1> QED BY <1>0, <1>1, <1>2, <1>3, <1>4, <1>5 DEF FNext, TInv

(* Handlers and tasks hold copies of rows that exist, for any overlap. *)
THEOREM TInvariance == FSpec => []TInv
<1>1. FInit => TInv BY InitTInv
<1>2. TInv /\ [FNext]_fvars => TInv' BY TNextPreserves
<1> QED BY <1>1, <1>2, PTL DEF FSpec

(* The types of module Fota: a handler that is about to save, abort or       *)
(* propagate holds the key of a row that exists.                             *)
THEOREM FTypeCorrect == FSpec => []FTypeOK
<1>1. TInv => FTypeOK
  BY DEF TInv, FIInv, FotaTypes, HandlerSide, TaskSide, FTypeOK
<1> QED BY <1>1, TInvariance, PTL

-----------------------------------------------------------------------------
(* An operation belongs to one update, in the table and in every copy of a   *)
(* row that a handler or a task will save.  A step only copies links around, *)
(* or links an operation that it creates.                                    *)

Linked(r, o) == o \in {r.send_uri_operation, r.execute_operation}

Copies ==
    {FwCopy(u, fw[u]) : u \in Update}
        \cup {fw_obj[h] : h \in Handler}
        \cup {fw_update[t] : t \in Task}
        \cup (UNION {todo[h] : h \in Handler})

Claim(u, o) == \E c \in Copies : c.id = u /\ Linked(c.row, o)

ClaimsOK ==
    \A o \in Op : \A u, w \in Update \cup {0} :
        Claim(u, o) => op[o].status # "absent" /\ (Claim(w, o) => u = w)

(* The links of c are links of some copy of the same update. *)
Known(c) == \A o \in Op : Linked(c.row, o) => Claim(c.id, o)

(* Only the update k gets a link that was not there, to a new operation. *)
KnownOrNew(c, k) ==
    \A o \in Op : Linked(c.row, o) =>
        Claim(c.id, o) \/ (c.id = k /\ op[o].status = "absent" /\ op'[o].status # "absent")

NothingElseNew(k) ==
    /\ \A u \in Update : KnownOrNew(FwCopy(u, fw'[u]), k)
    /\ \A h \in Handler : KnownOrNew(fw_obj'[h], k)
    /\ \A h \in Handler : \A c \in todo'[h] : KnownOrNew(c, k)
    /\ \A t \in Task : KnownOrNew(fw_update'[t], k)

LEMMA ClaimsStep ==
    ASSUME ClaimsOK, OpsStay, NEW k, NothingElseNew(k)
    PROVE  ClaimsOK'
<1>1. \A c \in Copies' : KnownOrNew(c, k)
  <2> SUFFICES ASSUME NEW c \in Copies' PROVE KnownOrNew(c, k)
    OBVIOUS
  <2>1. \/ \E u \in Update : c = FwCopy(u, fw'[u])
        \/ \E h \in Handler : c = fw_obj'[h]
        \/ \E h \in Handler : c \in todo'[h]
        \/ \E t \in Task : c = fw_update'[t]
    BY DEF Copies
  <2> QED BY <2>1 DEF NothingElseNew
<1>2. SUFFICES ASSUME NEW o \in Op, NEW u \in Update \cup {0}, NEW w \in Update \cup {0}, Claim(u, o)'
               PROVE  op'[o].status # "absent" /\ (Claim(w, o)' => u = w)
  BY DEF ClaimsOK
<1> DEFINE New(v) == v = k /\ op[o].status = "absent" /\ op'[o].status # "absent"
<1>3. \A v \in Update \cup {0} : Claim(v, o)' => Claim(v, o) \/ New(v)
  BY <1>1 DEF Claim, KnownOrNew, Linked
<1>4. Claim(u, o) \/ New(u)
  BY <1>2, <1>3
<1>5. op'[o].status # "absent"
  BY <1>4 DEF ClaimsOK, OpsStay
<1>6. ASSUME Claim(w, o)' PROVE u = w
  BY <1>3, <1>4, <1>6 DEF ClaimsOK
<1> QED BY <1>5, <1>6

(* What is known: every copy, a copy with another state, result or firmware, *)
(* and what links nothing.                                                   *)
LEMMA KnownFacts ==
    /\ \A c \in Copies : Known(c)
    /\ \A c \in FwCopyType : \A r : Known(c) => Known(Finished(c, r))
    /\ Known(NoFwCopy)
    /\ \A u : Known(FwCopy(u, NoRow("deleted")))
    /\ \A c, k : Known(c) => KnownOrNew(c, k)
<1>1. \A c \in Copies : Known(c)
  BY DEF Known, Claim
<1>2. \A c \in FwCopyType : \A r : Known(c) => Known(Finished(c, r))
  BY DEF Known, Finished, FwCopy, Linked, FwCopyType, FwRowType
<1>3. Known(NoFwCopy) /\ \A u : Known(FwCopy(u, NoRow("deleted")))
  BY OperationsAssumption DEF Known, NoFwCopy, NoFw, NoRow, FwRow, FwCopy, Linked
<1>4. \A c, k : Known(c) => KnownOrNew(c, k)
  BY DEF Known, KnownOrNew
<1> QED BY <1>1, <1>2, <1>3, <1>4

LEMMA CopiesKnown ==
    /\ \A u \in Update : Known(FwCopy(u, fw[u]))
    /\ \A h \in Handler : Known(fw_obj[h])
    /\ \A h \in Handler : \A c \in todo[h] : Known(c)
    /\ \A t \in Task : Known(fw_update[t])
<1>1. \A u \in Update : FwCopy(u, fw[u]) \in Copies BY DEF Copies
<1>2. \A h \in Handler : fw_obj[h] \in Copies BY DEF Copies
<1>3. \A h \in Handler : \A c \in todo[h] : c \in Copies BY DEF Copies
<1>4. \A t \in Task : fw_update[t] \in Copies BY DEF Copies
<1> QED BY <1>1, <1>2, <1>3, <1>4, KnownFacts

(* What a step can do with copies without linking anything: leave them,      *)
(* drop them, hold another known one in one place, store a known row.        *)
CopiesAround ==
    /\ \/ fw' = fw
       \/ \E u \in Update, r \in FwRowType : Known(FwCopy(u, r)) /\ fw' = [fw EXCEPT ![u] = r]
    /\ \/ fw_obj' = fw_obj
       \/ \E h \in Handler, c \in FwCopyType : Known(c) /\ fw_obj' = [fw_obj EXCEPT ![h] = c]
    /\ \/ todo' = todo
       \/ \E h \in Handler, S \in SUBSET FwCopyType :
             (\A c \in S : Known(c)) /\ todo' = [todo EXCEPT ![h] = S]
    /\ \/ fw_update' = fw_update
       \/ fw_update' = [t \in Task |-> NoFwCopy]
       \/ \E t \in Task, c \in FwCopyType : Known(c) /\ fw_update' = [fw_update EXCEPT ![t] = c]

LEMMA AroundLinksNothing ==
    ASSUME FotaTypes, CopiesAround
    PROVE  NothingElseNew(0)
<1>1. \A u \in Update : Known(FwCopy(u, fw'[u]))
  BY CopiesKnown DEF FotaTypes, CopiesAround
<1>2. \A h \in Handler : Known(fw_obj'[h])
  BY CopiesKnown DEF FotaTypes, CopiesAround
<1>3. \A h \in Handler : \A c \in todo'[h] : Known(c)
  BY CopiesKnown DEF FotaTypes, CopiesAround
<1>4. \A t \in Task : Known(fw_update'[t])
  BY CopiesKnown, KnownFacts DEF FotaTypes, CopiesAround
<1> QED BY <1>1, <1>2, <1>3, <1>4, KnownFacts DEF NothingElseNew

LEMMA ReturnAround ==
    ASSUME NEW h \in Handler, Return(h), UNCHANGED <<fw, fw_update>>
    PROVE  CopiesAround
<1>1. Hold(h, NoFwCopy) /\ todo' = [todo EXCEPT ![h] = {}]
  BY DEF Return
<1> QED BY <1>1, KnownFacts, RowFacts DEF CopiesAround, Hold

LEMMA HandlerClaims ==
    ASSUME TInv, NEW h \in Handler, HandlerStep(h)
    PROVE  \E k \in Update \cup {0} : NothingElseNew(k)
<1>0. FotaTypes BY DEF TInv, FIInv
<1> SUFFICES ASSUME ~\E o \in Op : CreateExecute(h, o) PROVE CopiesAround
  <2>1. ASSUME NEW o \in Op, CreateExecute(h, o)
        PROVE  \E k \in Update \cup {0} : NothingElseNew(k)
    <3> DEFINE k == fw_obj[h].id
               r == fw_obj[h].row
               c == FwCopy(k, [r EXCEPT !.execute_operation = o])
    <3>1. fw_obj[h] \in FwCopyType
      BY <1>0 DEF FotaTypes
    <3>2. r \in FwRowType /\ k \in Update \cup {0}
      BY <3>1 DEF FwCopyType
    <3>3. c.id = k /\ \A p : Linked(c.row, p) => p = o \/ Linked(r, p)
      BY <3>2 DEF FwCopy, Linked, FwRowType
    <3>4. op[o].status = "absent" /\ op'[o].status # "absent"
      BY <2>1 DEF CreateExecute, Insert, Row, TInv, TaskSide, TypeOK
    <3>5. KnownOrNew(c, k)
      BY <3>3, <3>4, CopiesKnown DEF KnownOrNew, Known
    <3>6. fw_obj' = [fw_obj EXCEPT ![h] = c] /\ UNCHANGED <<fw, todo, fw_update>>
      BY <2>1 DEF CreateExecute, Hold
    <3> HIDE DEF c, k, r
    <3>7. \A g \in Handler : KnownOrNew(fw_obj'[g], k)
      BY <1>0, <3>5, <3>6, KnownFacts, CopiesKnown DEF FotaTypes
    <3>8. NothingElseNew(k)
      BY <3>6, <3>7, KnownFacts, CopiesKnown DEF NothingElseNew
    <3> QED BY <3>2, <3>8 DEF k
  <2> QED BY <1>0, <2>1, AroundLinksNothing
<1>1. CASE Return(h) /\ UNCHANGED <<fw, fw_update>>
  BY <1>1, ReturnAround
<1>2. CASE UNCHANGED <<fw, fw_obj, todo, fw_update>>
  BY <1>2 DEF CopiesAround
<1>3. CASE CountActive(h)
  BY <1>1, <1>2, <1>3 DEF CountActive, localVars
<1>4. \A u \in Active : FwCopy(u, fw[u]) \in FwCopyType /\ Known(FwCopy(u, fw[u]))
  BY <1>0, RowFacts, CopiesKnown DEF FotaTypes, Active
<1>5. CASE Latest(h)
  BY <1>1, <1>4, <1>5 DEF Latest, Hold, CopiesAround
<1>6. CASE Others(h)
  <2> DEFINE S == {FwCopy(u, fw[u]) : u \in Active \ {fw_obj[h].id}}
  <2>1. S \in SUBSET FwCopyType /\ \A c \in S : Known(c)
    BY <1>4
  <2>2. todo' = [todo EXCEPT ![h] = S] /\ UNCHANGED <<fw, fw_obj, fw_update>>
    BY <1>6 DEF Others
  <2> HIDE DEF S
  <2> QED BY <2>1, <2>2 DEF CopiesAround
<1>7. CASE NextStale(h)
  <2>1. CASE UNCHANGED <<todo, fw_obj>>
    BY <1>2, <1>7, <2>1 DEF NextStale
  <2>2. ASSUME NEW c \in todo[h], todo' = [todo EXCEPT ![h] = todo[h] \ {c}],
               Hold(h, Finished(c, "UPDATE_FAILED"))
        PROVE  CopiesAround
    <3>1. UNCHANGED <<fw, fw_update>>
      BY <1>7 DEF NextStale
    <3>2. c \in FwCopyType /\ todo[h] \ {c} \in SUBSET FwCopyType
      BY <1>0 DEF FotaTypes
    <3>3. Finished(c, "UPDATE_FAILED") \in FwCopyType /\ Known(Finished(c, "UPDATE_FAILED"))
      BY <3>2, RowFacts, CopiesKnown, KnownFacts DEF Result
    <3> QED BY <2>2, <3>1, <3>2, <3>3, CopiesKnown DEF Hold, CopiesAround
  <2> QED BY <1>7, <2>1, <2>2 DEF NextStale
<1>8. CASE Get(h)
  <2>1. CASE GotResult(h) /\ UNCHANGED <<todo, fw, fw_update>>
    <3>1. PICK u \in Active, r \in Result : Hold(h, Finished(FwCopy(u, fw[u]), r))
      BY <2>1 DEF GotResult
    <3>2. /\ Finished(FwCopy(u, fw[u]), r) \in FwCopyType
          /\ Known(Finished(FwCopy(u, fw[u]), r))
      BY <1>4, RowFacts, KnownFacts
    <3> QED BY <2>1, <3>1, <3>2 DEF Hold, CopiesAround
  <2>2. CASE GotState(h) /\ UNCHANGED <<todo, fw, fw_update>>
    <3>1. PICK u \in Active, s \in State : Hold(h, FwCopy(u, [fw[u] EXCEPT !.state = s]))
      BY <2>2 DEF GotState
    <3>2. fw[u] \in FwRowType /\ u \in Update
      BY <1>0 DEF FotaTypes, Active
    <3>3. [fw[u] EXCEPT !.state = s] \in FwRowType
      BY <3>2 DEF FwRowType
    <3>4. FwCopy(u, [fw[u] EXCEPT !.state = s]) \in FwCopyType
      BY <3>2, <3>3, RowFacts
    <3>5. Known(FwCopy(u, [fw[u] EXCEPT !.state = s]))
      BY <1>4, <3>2 DEF Known, FwCopy, Linked, FwRowType
    <3> QED BY <2>2, <3>1, <3>4, <3>5 DEF Hold, CopiesAround
  <2> QED BY <1>0, <1>1, <1>8, <2>1, <2>2, GetCases
<1>9. CASE SaveUpdate(h)
  <2> DEFINE u == fw_obj[h].id
             r == fw_obj[h].row
  <2>1. u \in Update /\ r \in FwRowType
    BY <1>9 DEF SaveUpdate, TInv, FIInv, FotaTypes, HandlerSide, FwCopyType
  <2>2. Known(FwCopy(u, r))
    BY CopiesKnown DEF Known, FwCopy
  <2>3. fw' = [fw EXCEPT ![u] = r] /\ UNCHANGED fw_update
    BY <1>9 DEF SaveUpdate
  <2> HIDE DEF u, r
  <2>4. CASE Return(h)
    <3>1. Hold(h, NoFwCopy) /\ todo' = [todo EXCEPT ![h] = {}]
      BY <2>4 DEF Return
    <3> QED BY <2>1, <2>2, <2>3, <3>1, KnownFacts, RowFacts DEF CopiesAround, Hold
  <2>5. CASE UNCHANGED localVars
    BY <2>1, <2>2, <2>3, <2>5 DEF CopiesAround, localVars
  <2> QED BY <1>9, <2>4, <2>5 DEF SaveUpdate
<1>10. CASE TriggerExecute(h) BY <1>2, <1>10 DEF TriggerExecute, localVars
<1>11. CASE HandlerFails(h) BY <1>1, <1>11 DEF HandlerFails
<1>12. CASE AbortExecute(h) BY <1>2, <1>12 DEF AbortExecute, AbortRead, AbortSave
<1>13. CASE AbortSendUri(h) BY <1>2, <1>13 DEF AbortSendUri, AbortRead, AbortSave
<1> QED BY <1>3, <1>5, <1>6, <1>7, <1>8, <1>9, <1>10, <1>11, <1>12, <1>13 DEF HandlerStep

LEMMA TaskClaims ==
    ASSUME TInv, NEW t \in Task, FTaskStep(t)
    PROVE  CopiesAround
<1>0. FotaTypes BY DEF TInv, FIInv
<1>1. UNCHANGED handlerVars
  BY DEF FTaskStep, PropagateRead, PropagateTo, PropagateSave, fotaVars
<1>2. UNCHANGED <<fw_obj, todo>>
  BY <1>1 DEF handlerVars, localVars
<1>3. CASE UNCHANGED fotaVars
  BY <1>2, <1>3 DEF CopiesAround, fotaVars
<1>4. CASE PropagateRead(t)
  <2>1. CASE UNCHANGED <<fw, fw_update>>
    BY <1>2, <2>1 DEF CopiesAround
  <2>2. ASSUME NEW u \in Update, UNCHANGED fw,
               fw_update' = [fw_update EXCEPT ![t] = Finished(FwCopy(u, fw[u]), "UPDATE_FAILED")]
        PROVE  CopiesAround
    <3>1. FwCopy(u, fw[u]) \in FwCopyType
      BY <1>0, RowFacts DEF FotaTypes
    <3>2. /\ Finished(FwCopy(u, fw[u]), "UPDATE_FAILED") \in FwCopyType
          /\ Known(Finished(FwCopy(u, fw[u]), "UPDATE_FAILED"))
      BY <3>1, RowFacts, CopiesKnown, KnownFacts DEF Result
    <3> QED BY <1>2, <2>2, <3>2 DEF CopiesAround
  <2> QED BY <1>4, <2>1, <2>2 DEF PropagateRead, PropagateTo, Owners
<1>5. CASE PropagateSave(t)
  <2> DEFINE u == fw_update[t].id
             r == fw_update[t].row
  <2>1. u \in Update /\ r \in FwRowType
    BY <1>5 DEF PropagateSave, TInv, FIInv, FotaTypes, TaskSide, FwCopyType
  <2>2. Known(FwCopy(u, r))
    BY CopiesKnown DEF Known, FwCopy
  <2>3. fw' = [fw EXCEPT ![u] = r] /\ fw_update' = [fw_update EXCEPT ![t] = NoFwCopy]
    BY <1>5 DEF PropagateSave
  <2> HIDE DEF u, r
  <2> QED BY <1>2, <2>1, <2>2, <2>3, KnownFacts, RowFacts DEF CopiesAround
<1>6. CASE fw_update' = [fw_update EXCEPT ![t] = NoFwCopy] /\ UNCHANGED fw
  BY <1>2, <1>6, KnownFacts, RowFacts DEF CopiesAround
<1> QED BY <1>3, <1>4, <1>5, <1>6 DEF FTaskStep

LEMMA UserClaims ==
    ASSUME TInv, UserStep
    PROVE  \E k \in Update \cup {0} : NothingElseNew(k)
<1>0. FotaTypes BY DEF TInv, FIInv
<1>1. UNCHANGED <<fw_obj, todo, fw_update>>
  BY DEF UserStep, StartUpdate, AdminChangeUpdate, AdminDeleteUpdate, handlerVars, localVars
<1>2. ASSUME NEW u \in Update, NEW o \in Op, NEW f \in Firmware, NEW trigger \in BOOLEAN,
             StartUpdate(u, o, f, trigger)
      PROVE  NothingElseNew(u)
  <2> DEFINE r == FwRow("IDLE", "DEFAULT", f, o, NoOp)
  <2>1. op[o].status = "absent" /\ op'[o].status # "absent"
    BY <1>2 DEF StartUpdate, Insert, Row, TInv, TaskSide, TypeOK
  <2>2. KnownOrNew(FwCopy(u, r), u)
    BY <2>1, OperationsAssumption DEF KnownOrNew, FwCopy, FwRow, Linked
  <2>3. fw' = [fw EXCEPT ![u] = r]
    BY <1>2 DEF StartUpdate
  <2> HIDE DEF r
  <2>4. \A w \in Update : KnownOrNew(FwCopy(w, fw'[w]), u)
    BY <1>0, <2>2, <2>3, KnownFacts, CopiesKnown DEF FotaTypes
  <2> QED BY <1>1, <2>4, KnownFacts, CopiesKnown DEF NothingElseNew
<1>3. ASSUME NEW u \in Update, NEW f \in Firmware, AdminChangeUpdate(u, f)
      PROVE  CopiesAround
  <2> DEFINE r == [fw[u] EXCEPT !.firmware = f]
  <2>1. fw[u] \in FwRowType
    BY <1>0 DEF FotaTypes
  <2>2. r \in FwRowType /\ Known(FwCopy(u, r))
    BY <2>1, CopiesKnown DEF Known, FwCopy, Linked, FwRowType
  <2>3. fw' = [fw EXCEPT ![u] = r]
    BY <1>3 DEF AdminChangeUpdate
  <2> HIDE DEF r
  <2> QED BY <1>1, <2>2, <2>3 DEF CopiesAround
<1>4. ASSUME NEW u \in Update, AdminDeleteUpdate(u) PROVE CopiesAround
  BY <1>1, <1>4, KnownFacts, RowFacts DEF AdminDeleteUpdate, CopiesAround
<1> QED BY <1>0, <1>2, <1>3, <1>4, AroundLinksNothing DEF UserStep

LEMMA ClaimsPreserved == TInv /\ ClaimsOK /\ [FNext]_fvars => ClaimsOK'
<1> SUFFICES ASSUME TInv, ClaimsOK, [FNext]_fvars PROVE ClaimsOK'
  OBVIOUS
<1>0. OpsStay /\ FotaTypes BY TNextPreserves DEF TInv, FIInv
<1>1. SUFFICES \E k \in Update \cup {0} : NothingElseNew(k)
  BY <1>0, ClaimsStep
<1>2. CASE UserStep BY <1>2, UserClaims
<1>3. ASSUME NEW h \in Handler, HandlerStep(h)
      PROVE  \E k \in Update \cup {0} : NothingElseNew(k)
  BY <1>3, HandlerClaims
<1>4. CASE CopiesAround BY <1>0, <1>4, AroundLinksNothing
<1>5. CASE UNCHANGED <<fw, fw_obj, todo, fw_update>>
  BY <1>4, <1>5 DEF CopiesAround
<1>6. ASSUME NEW h \in Handler, NEW m \in Report, Receive(h, m)
      PROVE  UNCHANGED <<fw, fw_obj, todo, fw_update>>
  BY <1>6 DEF Receive
<1>7. ASSUME NEW t \in Task, FTaskStep(t) PROVE CopiesAround
  BY <1>7, TaskClaims
<1>8. CASE BackgroundStep
  BY <1>5, <1>8 DEF BackgroundStep, fotaVars, handlerVars, localVars
<1>9. CASE FWorkerCrash
  BY <1>4, <1>9 DEF FWorkerCrash, CopiesAround, handlerVars, localVars
<1>10. CASE UNCHANGED fvars
  BY <1>5, <1>10 DEF fvars, fotaVars, handlerVars, localVars
<1> QED BY <1>2, <1>3, <1>4, <1>5, <1>6, <1>7, <1>8, <1>9, <1>10 DEF FNext

LEMMA InitClaims == FInit => ClaimsOK
<1> SUFFICES ASSUME FInit, NEW o \in Op, NEW c \in Copies PROVE ~Linked(c.row, o)
  BY DEF ClaimsOK, Claim
<1>1. c.row = NoFw
  BY DEF FInit, Copies, NoFwCopy, FwCopy
<1> QED BY <1>1, OperationsAssumption DEF Linked, NoFw, NoRow, FwRow

(* The links of all copies together make an operation the part of one update. *)
THEOREM ClaimsInvariance == FSpec => []ClaimsOK
<1>1. FInit => ClaimsOK BY InitClaims
<1>2. TInv /\ ClaimsOK /\ [FNext]_fvars => ClaimsOK' BY ClaimsPreserved
<1> QED BY <1>1, <1>2, TInvariance, PTL DEF FSpec

(* An operation belongs to at most one update, whatever stale rows handlers *)
(* and tasks write back, so the .first() of the query that looks for the    *)
(* update of a failed operation finds the only one.                         *)
THEOREM OwnersAreUnique == FSpec => []OwnerUnique
<1>1. ClaimsOK => OwnerUnique
  <2> SUFFICES ASSUME ClaimsOK, NEW o \in Op, NEW u \in Owners(o), NEW w \in Owners(o)
               PROVE  u = w
    BY DEF OwnerUnique
  <2>1. \A v \in Owners(o) : v \in Update /\ Claim(v, o)
    <3> SUFFICES ASSUME NEW v \in Owners(o) PROVE v \in Update /\ Claim(v, o)
      OBVIOUS
    <3>1. v \in Update /\ Linked(FwCopy(v, fw[v]).row, o) /\ FwCopy(v, fw[v]).id = v
      BY DEF Owners, Linked, FwCopy
    <3> QED BY <3>1, CopiesKnown DEF Known
  <2> QED BY <2>1 DEF ClaimsOK
<1> QED BY <1>1, ClaimsInvariance, PTL

-----------------------------------------------------------------------------
(* The repair of duplicates, when requests and tasks run one after the       *)
(* other.  While a handler repairs, the active updates are those it still    *)
(* has to fail, the one it is failing, and a newer one w.                     *)

OneAtATime ==
    /\ \A g, h \in Handler : hpc[g] # "idle" /\ hpc[h] # "idle" => g = h
    /\ \A s, t \in Task : pc[s] # "idle" /\ pc[t] # "idle" => s = t
    /\ \A h \in Handler, t \in Task : hpc[h] = "idle" \/ pc[t] = "idle"

Ids(h) == {c.id : c \in todo[h]}

Aborting == {"exec?", "exec!", "uri?", "uri!"}

(* fw_obj is a duplicate, or the update the report is applied to. *)
Repairing(h) == dedup[h] /\ hpc[h] \in Aborting \cup {"save"}

Applying(h) ==
    hpc[h] \in {"create", "delay"} \/ (~dedup[h] /\ hpc[h] \in Aborting \cup {"save"})

Newest(w, S) == w \in Active /\ \A x \in S : x < w

HandlerOK(h) ==
    /\ hpc[h] \in {"idle", "count", "latest", "others", "get", "create", "delay"} => ~dedup[h]
    /\ hpc[h] = "others" => fw_obj[h].id \in Active /\ \A w \in Active : w <= fw_obj[h].id
    /\ hpc[h] = "next" => \E w \in Update : Newest(w, Ids(h)) /\ Active = Ids(h) \cup {w}
    /\ Repairing(h) =>
          /\ \E w \in Update : /\ Newest(w, Ids(h) \cup {fw_obj[h].id})
                               /\ Active = Ids(h) \cup {w, fw_obj[h].id}
          /\ fw_obj[h].id \notin Ids(h)
          /\ fw_obj[h].row.result = "UPDATE_FAILED"
    /\ hpc[h] = "get" => \E u \in Update : Active = {u}
    /\ Applying(h) => Active = {fw_obj[h].id}
    /\ \A c, d \in todo[h] : c.id = d.id => c = d

TaskOK(t) ==
    pc[t] = "propagating" =>
        fw[fw_update[t].id].result = "DEFAULT" /\ fw_update[t].row.result = "UPDATE_FAILED"

SInv ==
    /\ OneAtATime
    /\ \A h \in Handler : HandlerOK(h)
    /\ \A t \in Task : TaskOK(t)

LEMMA FinishedFacts ==
    ASSUME NEW c \in FwCopyType, NEW r
    PROVE  /\ Finished(c, r).id = c.id
           /\ Finished(c, r).row.result = r
           /\ \A o : Linked(Finished(c, r).row, o) <=> Linked(c.row, o)
<1>1. c.row \in FwRowType
  BY DEF FwCopyType
<1>2. /\ [c.row EXCEPT !.state = "IDLE", !.result = r].result = r
      /\ \A o : Linked([c.row EXCEPT !.state = "IDLE", !.result = r], o) <=> Linked(c.row, o)
  BY <1>1 DEF FwRowType, Linked
<1>3. /\ Finished(c, r).id = c.id
      /\ Finished(c, r).row = [c.row EXCEPT !.state = "IDLE", !.result = r]
  BY DEF Finished, FwCopy
<1> QED BY <1>2, <1>3

LEMMA OneActive ==
    /\ Cardinality(Active) = 1 <=> \E u \in Update : Active = {u}
    /\ Cardinality(Active) > 1 => Active # {}
<1>1. IsFiniteSet(Update)
  BY FS_Interval, FotaAssumption DEF Update
<1>2. Active \in SUBSET Update
  BY DEF Active
<1>3. IsFiniteSet(Active)
  BY <1>1, <1>2, FS_Subset
<1> QED BY <1>2, <1>3, FS_Singleton, FS_EmptySet

(* What an idle handler's part of the invariant needs. *)
LEMMA IdleOK ==
    ASSUME NEW h \in Handler, HandlerOK(h), hpc[h] = "idle",
           hpc'[h] = "idle", dedup'[h] = dedup[h], todo'[h] = todo[h]
    PROVE  HandlerOK(h)'
BY DEF HandlerOK, Repairing, Applying, Aborting

(* A step of the only busy handler. *)
LEMMA HandlerAlone ==
    ASSUME SInv, NEW h \in Handler, hpc[h] # "idle", UNCHANGED pc, HandlerOK(h)',
           \A g \in Handler \ {h} :
               hpc'[g] = hpc[g] /\ dedup'[g] = dedup[g] /\ todo'[g] = todo[g]
    PROVE  SInv'
<1>1. \A g \in Handler \ {h} : hpc[g] = "idle" /\ hpc'[g] = "idle"
  BY DEF SInv, OneAtATime
<1>2. \A t \in Task : pc'[t] = "idle"
  BY DEF SInv, OneAtATime
<1>3. \A g \in Handler : HandlerOK(g)'
  BY <1>1, IdleOK DEF SInv
<1>4. OneAtATime'
  BY <1>1, <1>2 DEF OneAtATime
<1>5. \A t \in Task : TaskOK(t)'
  BY <1>2 DEF TaskOK
<1> QED BY <1>3, <1>4, <1>5 DEF SInv

LEMMA InitSInv == FInit => SInv
<1> SUFFICES ASSUME FInit PROVE SInv
  OBVIOUS
<1>1. OneAtATime BY DEF FInit, Init, OneAtATime
<1>2. ASSUME NEW h \in Handler PROVE HandlerOK(h)
  BY DEF FInit, HandlerOK, Repairing, Applying, Aborting
<1>3. \A t \in Task : TaskOK(t) BY DEF FInit, Init, TaskOK
<1> QED BY <1>1, <1>2, <1>3 DEF SInv

LEMMA ReturnOK ==
    ASSUME TInv, NEW h \in Handler, Return(h)
    PROVE  HandlerOK(h)'
<1>1. hpc'[h] = "idle" /\ dedup'[h] = FALSE /\ todo'[h] = {}
  BY DEF TInv, FIInv, FotaTypes, HandlerSide, Return, Goto
<1> QED BY <1>1 DEF HandlerOK, Repairing, Applying, Aborting

(* The active updates stay, and the handler has the same duplicates to fail. *)
LEMMA GoOnOK ==
    ASSUME TInv, NEW h \in Handler, HandlerOK(h), NEW l, Goto(h, l),
           UNCHANGED <<fw, dedup, todo>>, fw_obj'[h].id = fw_obj[h].id,
           dedup[h] => fw_obj'[h].row = fw_obj[h].row,
           \/ hpc[h] \in Aborting /\ l \in Aborting \cup {"save"}
           \/ hpc[h] = "create" /\ l = "delay"
           \/ hpc[h] = "delay" /\ l = "save"
    PROVE  HandlerOK(h)'
<1>1. Active' = Active /\ Ids(h)' = Ids(h)
  BY DEF Active, Ids
<1>2. hpc'[h] = l
  BY DEF Goto, TInv, HandlerSide
<1>3. dedup[h] \in BOOLEAN /\ dedup'[h] = dedup[h]
  BY DEF TInv, HandlerSide
<1>4. (Repairing(h)' => Repairing(h)) /\ (Applying(h)' => Applying(h))
  BY <1>2, <1>3 DEF HandlerOK, Repairing, Applying, Aborting
<1>5. \A w, S : Newest(w, S) <=> Newest(w, S)'
  BY <1>1 DEF Newest
<1>6. l \in {"idle", "count", "latest", "others", "get", "create", "delay"} => ~dedup[h]
  BY DEF HandlerOK, Aborting
<1>7. l \notin {"others", "next", "get"}
  BY DEF Aborting
<1>8. Repairing(h)' =>
          /\ \E w \in Update : /\ Newest(w, Ids(h) \cup {fw_obj[h].id})'
                               /\ Active' = Ids(h)' \cup {w, fw_obj'[h].id}
          /\ fw_obj'[h].id \notin Ids(h)'
          /\ fw_obj'[h].row.result = "UPDATE_FAILED"
  <2> SUFFICES ASSUME Repairing(h)'
               PROVE  /\ \E w \in Update : /\ Newest(w, Ids(h) \cup {fw_obj[h].id})'
                                           /\ Active' = Ids(h)' \cup {w, fw_obj'[h].id}
                      /\ fw_obj'[h].id \notin Ids(h)'
                      /\ fw_obj'[h].row.result = "UPDATE_FAILED"
    OBVIOUS
  <2>1. Repairing(h) /\ dedup[h]
    BY <1>3, <1>4 DEF Repairing
  <2>2. PICK w \in Update : /\ Newest(w, Ids(h) \cup {fw_obj[h].id})
                           /\ Active = Ids(h) \cup {w, fw_obj[h].id}
    BY <2>1 DEF HandlerOK
  <2>3. Newest(w, Ids(h) \cup {fw_obj[h].id})'
    BY <1>1, <2>2 DEF Newest
  <2> QED BY <1>1, <2>1, <2>2, <2>3 DEF HandlerOK
<1> QED BY <1>1, <1>2, <1>3, <1>4, <1>6, <1>7, <1>8 DEF HandlerOK

LEMMA HandlerStepOK ==
    ASSUME TInv, NEW h \in Handler, HandlerOK(h), HandlerStep(h)
    PROVE  HandlerOK(h)'
<1>0. FotaTypes /\ HandlerSide BY DEF TInv, FIInv
<1>1. CASE Return(h) BY <1>1, ReturnOK
<1>2. ASSUME UNCHANGED fw PROVE Active' = Active
  BY <1>2 DEF Active
<1>3. CASE CountActive(h)
  <2>1. UNCHANGED fw
    BY <1>3 DEF CountActive
  <2>2. ASSUME NEW l \in {"get", "latest"}, Goto(h, l), UNCHANGED localVars,
               l = "get" => \E u \in Update : Active = {u}
        PROVE  HandlerOK(h)'
    <3>1. hpc'[h] = l /\ dedup'[h] = dedup[h] /\ todo'[h] = todo[h] /\ hpc[h] = "count"
      BY <1>0, <1>3, <2>2 DEF Goto, HandlerSide, localVars, CountActive
    <3> QED BY <1>2, <2>1, <2>2, <3>1 DEF HandlerOK, Repairing, Applying, Aborting
  <2> QED BY <1>1, <1>3, <2>2, OneActive DEF CountActive
<1>4. CASE Latest(h)
  <2>1. UNCHANGED fw
    BY <1>4 DEF Latest
  <2>2. ASSUME NEW u \in Active, \A w \in Active : w <= u, Goto(h, "others"),
               Hold(h, FwCopy(u, fw[u])), UNCHANGED <<dedup, todo>>
        PROVE  HandlerOK(h)'
    <3>1. /\ hpc'[h] = "others" /\ dedup'[h] = dedup[h] /\ todo'[h] = todo[h]
          /\ hpc[h] = "latest" /\ fw_obj'[h].id = u
      BY <1>0, <1>4, <2>2 DEF Goto, Hold, HandlerSide, FotaTypes, FwCopy, Latest
    <3> QED BY <1>2, <2>1, <2>2, <3>1 DEF HandlerOK, Repairing, Applying, Aborting
  <2> QED BY <1>1, <1>4, <2>2 DEF Latest
<1>5. CASE Others(h)
  <2>1. UNCHANGED <<fw, dedup>> /\ hpc[h] = "others" /\ hpc'[h] = "next"
    BY <1>0, <1>5 DEF Others, Goto, HandlerSide
  <2>2. Active \subseteq Update /\ Update \subseteq Nat /\ Active' = Active
    BY <1>2, <2>1 DEF Active, Update
  <2>3. PICK w \in Update : w = fw_obj[h].id /\ w \in Active /\ \A x \in Active : x <= w
    BY <2>1, <2>2 DEF HandlerOK
  <2>4. todo'[h] = {FwCopy(u, fw[u]) : u \in Active \ {w}}
    BY <1>0, <1>5, <2>3 DEF Others, FotaTypes
  <2>5. \A c, d \in todo'[h] : c.id = d.id => c = d
    BY <2>4 DEF FwCopy
  <2>6. Ids(h)' = Active \ {w}
    <3>1. \A u : FwCopy(u, fw[u]).id = u
      BY DEF FwCopy
    <3>2. Ids(h)' = {c.id : c \in {FwCopy(u, fw[u]) : u \in Active \ {w}}}
      BY <2>4 DEF Ids
    <3> QED BY <3>1, <3>2
  <2>7. \A x \in Active \ {w} : x < w
    BY <2>2, <2>3
  <2>8. Newest(w, Ids(h))' /\ Active' = Ids(h)' \cup {w}
    BY <2>2, <2>3, <2>6, <2>7 DEF Newest
  <2>9. \E x \in Update : Newest(x, Ids(h))' /\ Active' = Ids(h)' \cup {x}
    BY <2>8
  <2> QED BY <2>1, <2>5, <2>9 DEF HandlerOK, Repairing, Applying, Aborting
<1>6. CASE NextStale(h)
  <2>1. UNCHANGED fw /\ hpc[h] = "next"
    BY <1>6 DEF NextStale
  <2>2. PICK w \in Update : Newest(w, Ids(h)) /\ Active = Ids(h) \cup {w}
    BY <2>1 DEF HandlerOK
  <2>3. CASE todo[h] = {} /\ Goto(h, "get") /\ dedup' = [dedup EXCEPT ![h] = FALSE]
             /\ UNCHANGED todo
    <3>1. hpc'[h] = "get" /\ dedup'[h] = FALSE /\ todo'[h] = {}
      BY <1>0, <2>3 DEF Goto, HandlerSide
    <3>2. Active' = {w}
      BY <1>2, <2>1, <2>2, <2>3 DEF Ids
    <3> QED BY <3>1, <3>2 DEF HandlerOK, Repairing, Applying, Aborting
  <2>4. ASSUME NEW c \in todo[h], todo' = [todo EXCEPT ![h] = todo[h] \ {c}],
               Hold(h, Finished(c, "UPDATE_FAILED")), dedup' = [dedup EXCEPT ![h] = TRUE],
               Goto(h, "exec?")
        PROVE  HandlerOK(h)'
    <3>1. /\ hpc'[h] = "exec?" /\ dedup'[h] = TRUE /\ todo'[h] = todo[h] \ {c}
          /\ fw_obj'[h] = Finished(c, "UPDATE_FAILED")
      BY <1>0, <2>4 DEF Goto, Hold, HandlerSide, FotaTypes
    <3>2. c \in FwCopyType
      BY <1>0 DEF FotaTypes
    <3>3. fw_obj'[h].id = c.id /\ fw_obj'[h].row.result = "UPDATE_FAILED"
      BY <3>1, <3>2, FinishedFacts
    <3>4. Ids(h)' = Ids(h) \ {c.id} /\ c.id \in Ids(h)
      BY <3>1 DEF Ids, HandlerOK
    <3>5. Active' = Ids(h)' \cup {w, fw_obj'[h].id}
      BY <1>2, <2>1, <2>2, <3>3, <3>4
    <3>6. Newest(w, Ids(h) \cup {fw_obj[h].id})'
      BY <1>2, <2>1, <2>2, <3>3, <3>4 DEF Newest
    <3>7. \A a, b \in todo'[h] : a.id = b.id => a = b
      BY <3>1 DEF HandlerOK
    <3>8. /\ \E x \in Update : /\ Newest(x, Ids(h) \cup {fw_obj[h].id})'
                               /\ Active' = Ids(h)' \cup {x, fw_obj'[h].id}
          /\ fw_obj'[h].id \notin Ids(h)'
      BY <3>3, <3>4, <3>5, <3>6
    <3> QED BY <3>1, <3>3, <3>7, <3>8 DEF HandlerOK, Repairing, Applying, Aborting
  <2> QED BY <1>6, <2>3, <2>4 DEF NextStale
<1>7. CASE Get(h)
  <2>1. UNCHANGED fw /\ hpc[h] = "get"
    BY <1>7 DEF Get
  <2>2. ASSUME NEW u \in Active, Active = {u}, NEW c, c.id = u, Hold(h, c), UNCHANGED <<dedup, todo>>,
               NEW l \in {"exec?", "create", "save"}, Goto(h, l)
        PROVE  HandlerOK(h)'
    <3>1. /\ hpc'[h] = l /\ dedup'[h] = dedup[h] /\ todo'[h] = todo[h] /\ fw_obj'[h].id = u
          /\ ~dedup[h]
      BY <1>0, <2>1, <2>2 DEF Goto, Hold, HandlerSide, FotaTypes, HandlerOK
    <3>2. Active' = {u}
      BY <1>2, <2>1, <2>2
    <3> QED BY <3>1, <3>2 DEF HandlerOK, Repairing, Applying, Aborting
  <2>3. CASE GotResult(h) /\ UNCHANGED <<dedup, todo>>
    <3>1. \A u, r : Finished(FwCopy(u, fw[u]), r).id = u
      BY DEF Finished, FwCopy
    <3> QED BY <2>2, <2>3, <3>1 DEF GotResult
  <2>4. CASE GotState(h) /\ UNCHANGED <<dedup, todo>>
    <3>1. \A u, r : FwCopy(u, r).id = u
      BY DEF FwCopy
    <3> QED BY <2>2, <2>4, <3>1 DEF GotState
  <2> QED BY <1>0, <1>1, <1>7, <2>3, <2>4, GetCases
<1>8. ASSUME NEW o \in Op, CreateExecute(h, o) PROVE HandlerOK(h)'
  <2>1. hpc[h] = "create" /\ Goto(h, "delay") /\ UNCHANGED <<fw, dedup, todo>>
    BY <1>8 DEF CreateExecute
  <2>2. fw_obj'[h].id = fw_obj[h].id /\ ~dedup[h]
    BY <1>0, <1>8, <2>1 DEF CreateExecute, Hold, FwCopy, FotaTypes, HandlerOK
  <2> QED BY <2>1, <2>2, GoOnOK
<1>9. CASE TriggerExecute(h)
  BY <1>9, GoOnOK DEF TriggerExecute, localVars
<1>10. CASE HandlerFails(h) BY <1>1, <1>10 DEF HandlerFails
<1>11. CASE AbortExecute(h)
  BY <1>11, GoOnOK DEF AbortExecute, AbortRead, AbortSave, Aborting
<1>12. CASE AbortSendUri(h)
  BY <1>12, GoOnOK DEF AbortSendUri, AbortRead, AbortSave, Aborting
<1>13. CASE SaveUpdate(h)
  <2> DEFINE u == fw_obj[h].id
  <2>1. CASE dedup[h] /\ Goto(h, "next") /\ UNCHANGED localVars
    <3>1. Repairing(h) /\ hpc[h] = "save"
      BY <1>13, <2>1 DEF Repairing, SaveUpdate
    <3>2. PICK w \in Update : Newest(w, Ids(h) \cup {u}) /\ Active = Ids(h) \cup {w, u}
      BY <3>1 DEF HandlerOK
    <3>3. u \in Update /\ u \notin Ids(h) /\ fw_obj[h].row.result = "UPDATE_FAILED"
      BY <1>0, <3>1 DEF HandlerOK, HandlerSide
    <3>4. fw' = [fw EXCEPT ![u] = fw_obj[h].row]
      BY <1>13 DEF SaveUpdate
    <3>5. Active' = Active \ {u}
      BY <1>0, <3>3, <3>4 DEF Active, FotaTypes
    <3>6. Ids(h)' = Ids(h) /\ hpc'[h] = "next" /\ todo'[h] = todo[h]
      BY <1>0, <2>1 DEF Ids, localVars, Goto, HandlerSide
    <3> HIDE DEF u
    <3>7. w \in Nat /\ u \in Nat /\ u < w
      BY <3>2, <3>3 DEF Newest, Update
    <3>8. Newest(w, Ids(h))' /\ Active' = Ids(h)' \cup {w}
      BY <3>2, <3>3, <3>5, <3>6, <3>7 DEF Newest
    <3>9. \E x \in Update : Newest(x, Ids(h))' /\ Active' = Ids(h)' \cup {x}
      BY <3>8
    <3> QED BY <3>6, <3>9 DEF HandlerOK, Repairing, Applying, Aborting
  <2> QED BY <1>1, <1>13, <2>1 DEF SaveUpdate
<1> QED BY <1>3, <1>4, <1>5, <1>6, <1>7, <1>8, <1>9, <1>10, <1>11, <1>12, <1>13 DEF HandlerStep

(* A step of a handler leaves the other handlers and the tasks' slots alone. *)
LEMMA HandlerFrame ==
    ASSUME TInv, NEW h \in Handler, HandlerStep(h)
    PROVE  /\ hpc[h] # "idle" /\ UNCHANGED <<pc, e_ops, fw_update>>
           /\ \A g \in Handler \ {h} :
                 hpc'[g] = hpc[g] /\ dedup'[g] = dedup[g] /\ todo'[g] = todo[g]
<1>0. /\ hpc \in [Handler -> HPC] /\ dedup \in [Handler -> BOOLEAN]
      /\ todo \in [Handler -> SUBSET FwCopyType]
  BY DEF TInv, FIInv, FotaTypes, HandlerSide
<1> USE DEF vars, opVars, brokerVars, taskVars, histVars, localVars, Goto, Return
<1>1. UNCHANGED <<pc, e_ops, fw_update>> /\ hpc[h] # "idle"
  BY DEF HandlerStep, CountActive, Latest, Others, NextStale, Get, CreateExecute, TriggerExecute,
         HandlerFails, AbortExecute, AbortSendUri, AbortRead, AbortSave, SaveUpdate
<1>2. \E l : hpc' = [hpc EXCEPT ![h] = l]
  BY DEF HandlerStep, CountActive, Latest, Others, NextStale, Get, CreateExecute, TriggerExecute,
         HandlerFails, AbortExecute, AbortSendUri, AbortRead, AbortSave, SaveUpdate
<1>3. \E b : dedup' = [dedup EXCEPT ![h] = b]
  <2>1. CASE UNCHANGED dedup BY <1>0, <2>1
  <2> QED BY <2>1 DEF HandlerStep, CountActive, Latest, Others, NextStale, Get, CreateExecute,
         TriggerExecute, HandlerFails, AbortExecute, AbortSendUri, AbortRead, AbortSave, SaveUpdate
<1>4. \E S : todo' = [todo EXCEPT ![h] = S]
  <2>1. CASE UNCHANGED todo BY <1>0, <2>1
  <2> QED BY <2>1 DEF HandlerStep, CountActive, Latest, Others, NextStale, Get, CreateExecute,
         TriggerExecute, HandlerFails, AbortExecute, AbortSendUri, AbortRead, AbortSave, SaveUpdate
<1> QED BY <1>0, <1>1, <1>2, <1>3, <1>4

(* Steps during which no handler is busy, and none starts. *)
LEMMA NoHandlerBusy ==
    ASSUME SInv, \A h \in Handler : hpc[h] = "idle", UNCHANGED handlerVars,
           \A s, t \in Task : pc'[s] # "idle" /\ pc'[t] # "idle" => s = t,
           \A t \in Task : TaskOK(t)'
    PROVE  SInv'
<1>1. \A h \in Handler : hpc'[h] = "idle" /\ dedup'[h] = dedup[h] /\ todo'[h] = todo[h]
  BY DEF handlerVars, localVars
<1>2. \A h \in Handler : HandlerOK(h)'
  BY <1>1, IdleOK DEF SInv
<1>3. OneAtATime' BY <1>1 DEF OneAtATime
<1> QED BY <1>2, <1>3 DEF SInv

LEMMA TaskStepOK ==
    ASSUME Serial, TInv, SInv, NEW t \in Task, FTaskStep(t)
    PROVE  SInv'
<1>0. FotaTypes /\ TypeOK BY DEF TInv, FIInv, TaskSide
<1>1. UNCHANGED handlerVars
  BY DEF FTaskStep, PropagateRead, PropagateTo, PropagateSave, fotaVars
<1>2. (\A h \in Handler : hpc[h] = "idle") /\ \A s \in Task \ {t} : pc[s] = "idle"
  <2>1. CASE pc[t] = "idle"
    <3>1. Quiet
      BY <2>1 DEF FTaskStep, PropagateRead, PropagateTo, PropagateSave, TaskFails
    <3> QED BY <3>1 DEF Quiet
  <2>2. CASE pc[t] # "idle"
    BY <2>2 DEF SInv, OneAtATime
  <2> QED BY <2>1, <2>2
<1>3. ASSUME NEW l, pc' = [pc EXCEPT ![t] = l], TaskOK(t)' PROVE SInv'
  <2>1. \A s \in Task \ {t} : pc'[s] = "idle"
    BY <1>0, <1>2, <1>3 DEF TypeOK
  <2>2. \A s \in Task : TaskOK(s)'
    BY <1>3, <2>1 DEF TaskOK
  <2> QED BY <1>1, <1>2, <2>1, <2>2, NoHandlerBusy
<1>4. ASSUME NEW l, pc' = [pc EXCEPT ![t] = l], l # "propagating" PROVE SInv'
  <2>1. pc'[t] # "propagating" BY <1>0, <1>4 DEF TypeOK
  <2>2. TaskOK(t)' BY <2>1 DEF TaskOK
  <2> QED BY <1>3, <1>4, <2>2
<1>5. CASE TaskStep(t)
  <2>1. CASE UNCHANGED taskVars
    <3>1. pc[t] = "idle" BY <1>5, <2>1 DEF TaskStep, Load, Mark, Answer, Save, Finish, taskVars, TInv, TaskSide, TypeOK
    <3>2. pc' = [pc EXCEPT ![t] = "idle"] BY <1>0, <2>1, <3>1 DEF taskVars, TypeOK
    <3> QED BY <1>4, <3>2
  <2>2. CASE ~UNCHANGED taskVars
    BY <1>4, <1>5, <2>2 DEF TaskStep, Load, Mark, Answer, Save, Finish
  <2> QED BY <2>1, <2>2
<1>6. CASE PropagateRead(t)
  <2>1. CASE Finish(t) BY <1>4, <2>1 DEF Finish
  <2>2. ASSUME NEW u \in Update, fw[u].result \in {"DEFAULT"}, UNCHANGED fw,
               fw_update' = [fw_update EXCEPT ![t] = Finished(FwCopy(u, fw[u]), "UPDATE_FAILED")],
               pc' = [pc EXCEPT ![t] = "propagating"]
        PROVE  SInv'
    <3>1. FwCopy(u, fw[u]) \in FwCopyType /\ FwCopy(u, fw[u]).id = u
      BY <1>0, RowFacts DEF FotaTypes, FwCopy
    <3>2. fw_update'[t].id = u /\ fw_update'[t].row.result = "UPDATE_FAILED"
      BY <1>0, <2>2, <3>1, FinishedFacts DEF FotaTypes
    <3>3. TaskOK(t)'
      BY <2>2, <3>2 DEF TaskOK
    <3> QED BY <1>3, <2>2, <3>3
  <2> QED BY <1>6, <2>1, <2>2 DEF PropagateRead, PropagateTo, Owners
<1>7. CASE PropagateSave(t) BY <1>4, <1>7 DEF PropagateSave, Finish
<1>8. CASE TaskFails(t) BY <1>4, <1>8 DEF TaskFails, Finish
<1> QED BY <1>5, <1>6, <1>7, <1>8 DEF FTaskStep

LEMMA SNextPreserves ==
    ASSUME Serial
    PROVE  TInv /\ SInv /\ [FNext]_fvars => SInv'
<1> SUFFICES ASSUME TInv, SInv, [FNext]_fvars PROVE SInv'
  OBVIOUS
<1>1. ASSUME NEW h \in Handler, HandlerStep(h) PROVE SInv'
  <2>1. HandlerOK(h)' BY <1>1, HandlerStepOK DEF SInv
  <2> QED BY <1>1, <2>1, HandlerFrame, HandlerAlone
<1>2. ASSUME NEW h \in Handler, NEW m \in Report, Receive(h, m) PROVE SInv'
  <2>1. Quiet /\ UNCHANGED <<pc, dedup, todo>> /\ Goto(h, "count")
    BY <1>2 DEF Receive, vars, taskVars
  <2>2. hpc'[h] = "count" /\ \A g \in Handler \ {h} : hpc'[g] = "idle"
    BY <2>1 DEF Goto, Quiet, TInv, HandlerSide
  <2>3. HandlerOK(h)'
    BY <2>1, <2>2 DEF SInv, Quiet, HandlerOK, Repairing, Applying, Aborting
  <2>4. \A g \in Handler \ {h} : HandlerOK(g)'
    BY <2>1, <2>2, IdleOK DEF SInv, Quiet
  <2>5. OneAtATime' /\ \A t \in Task : TaskOK(t)'
    BY <2>1, <2>2 DEF Quiet, OneAtATime, TaskOK
  <2> QED BY <2>3, <2>4, <2>5 DEF SInv
<1>3. ASSUME NEW t \in Task, FTaskStep(t) PROVE SInv'
  BY <1>3, TaskStepOK
<1>4. CASE UserStep
  <2>1. Quiet /\ UNCHANGED <<handlerVars, pc>>
    BY <1>4 DEF UserStep, StartUpdate, AdminChangeUpdate, AdminDeleteUpdate, vars, taskVars
  <2>2. \A t \in Task : TaskOK(t)'
    BY <2>1 DEF Quiet, TaskOK
  <2> QED BY <2>1, <2>2, NoHandlerBusy DEF Quiet
<1>5. CASE UNCHANGED <<fw, handlerVars, fw_update, pc>>
  <2>1. UNCHANGED <<fw, hpc, fw_obj, dedup, todo, fw_update, pc>>
    BY <1>5 DEF handlerVars, localVars
  <2>2. Active' = Active /\ \A h : Ids(h)' = Ids(h)
    BY <2>1 DEF Active, Ids
  <2>3. ASSUME NEW h \in Handler PROVE HandlerOK(h)'
    <3>1. HandlerOK(h) BY DEF SInv
    <3> QED BY <2>1, <2>2, <3>1 DEF HandlerOK, Repairing, Applying, Newest
  <2>4. OneAtATime' BY <2>1 DEF SInv, OneAtATime
  <2>5. \A t \in Task : TaskOK(t)' BY <2>1 DEF SInv, TaskOK
  <2> QED BY <2>3, <2>4, <2>5 DEF SInv
<1>6. CASE BackgroundStep
  BY <1>5, <1>6 DEF BackgroundStep, Trigger, ProcessPending, BrokerLoss, fotaVars, taskVars
<1>7. CASE FWorkerCrash
  <2>1. (\A t \in Task : pc'[t] = "idle") /\ \E t \in Task : pc[t] # "idle"
    BY <1>7 DEF FWorkerCrash, WorkerCrash
  <2>2. (\A h \in Handler : hpc[h] = "idle") /\ \A t \in Task : TaskOK(t)'
    BY <2>1 DEF SInv, OneAtATime, TaskOK
  <2> QED BY <1>7, <2>1, <2>2, NoHandlerBusy DEF FWorkerCrash
<1>8. CASE UNCHANGED fvars
  BY <1>5, <1>8 DEF fvars, fotaVars, vars, taskVars
<1> QED BY <1>1, <1>2, <1>3, <1>4, <1>6, <1>7, <1>8 DEF FNext

(* What the repair has done at each of its statements, when nothing overlaps. *)
THEOREM SInvariance ==
    ASSUME Serial
    PROVE  FSpec => []SInv
<1>1. FInit => SInv BY InitSInv
<1>2. TInv /\ SInv /\ [FNext]_fvars => SInv' BY SNextPreserves
<1> QED BY <1>1, <1>2, TInvariance, PTL DEF FSpec

(* base.py: "Exactly one active FirmwareUpdate object remains" when the      *)
(* handler calls get(), provided that requests and tasks do not overlap.     *)
THEOREM RepairLeavesOne ==
    ASSUME Serial
    PROVE  FSpec => []ExactlyOneRemains
<1>1. SInv => ExactlyOneRemains
  BY OneActive DEF SInv, HandlerOK, ExactlyOneRemains
<1> QED BY <1>1, SInvariance, PTL

(* What writes the table. *)
LEMMA WhoWrites ==
    ASSUME [FNext]_fvars
    PROVE  \/ UserStep
           \/ \E h \in Handler : SaveUpdate(h)
           \/ \E t \in Task : PropagateSave(t)
           \/ UNCHANGED fw
<1>1. ASSUME NEW h \in Handler, HandlerStep(h) PROVE SaveUpdate(h) \/ UNCHANGED fw
  BY <1>1 DEF HandlerStep, CountActive, Latest, Others, NextStale, Get, CreateExecute, TriggerExecute,
              HandlerFails, AbortExecute, AbortSendUri, AbortRead, AbortSave
<1>2. ASSUME NEW t \in Task, FTaskStep(t) PROVE PropagateSave(t) \/ UNCHANGED fw
  BY <1>2 DEF FTaskStep, PropagateRead, PropagateTo, fotaVars
<1>3. ASSUME NEW h \in Handler, NEW m \in Report, Receive(h, m) PROVE UNCHANGED fw
  BY <1>3 DEF Receive
<1>4. CASE BackgroundStep \/ FWorkerCrash
  BY <1>4 DEF BackgroundStep, FWorkerCrash, fotaVars
<1>5. CASE UNCHANGED fvars BY <1>5 DEF fvars, fotaVars
<1> QED BY <1>1, <1>2, <1>3, <1>4, <1>5 DEF FNext

(* A handler that saves writes to a row that is still active. *)
LEMMA SavesActive ==
    ASSUME TInv, SInv, NEW h \in Handler, hpc[h] = "save"
    PROVE  /\ fw_obj[h].id \in Active
           /\ dedup[h] => \E w \in Active : w > fw_obj[h].id
           /\ ~dedup[h] => Active = {fw_obj[h].id}
<1>1. HandlerOK(h) BY DEF SInv
<1>2. CASE dedup[h]
  <2>1. PICK w \in Update : /\ Newest(w, Ids(h) \cup {fw_obj[h].id})
                           /\ Active = Ids(h) \cup {w, fw_obj[h].id}
    BY <1>1, <1>2 DEF HandlerOK, Repairing
  <2>2. w \in Active /\ fw_obj[h].id < w
    BY <2>1 DEF Newest
  <2>3. fw_obj[h].id \in Nat /\ w \in Nat
    BY DEF TInv, HandlerSide, Update
  <2> QED BY <1>2, <2>1, <2>2, <2>3
<1>3. CASE ~dedup[h]
  BY <1>1, <1>3 DEF HandlerOK, Applying
<1> QED BY <1>2, <1>3

(* The result of a finished update is never overwritten by a handler or a    *)
(* task that read the row before, provided that they do not overlap.         *)
THEOREM ResultsAreFinal ==
    ASSUME Serial
    PROVE  FSpec => ResultIsFinal
<1> DEFINE Final == \A u \in Update : fw[u].result \notin {"absent", "DEFAULT"} =>
                        fw'[u].result \in {fw[u].result, "deleted"}
<1>1. TInv /\ SInv /\ [FNext]_fvars => [Final]_fvars
  <2> SUFFICES ASSUME TInv, SInv, [FNext]_fvars, NEW u \in Update,
                      fw[u].result \notin {"absent", "DEFAULT"}
               PROVE  fw'[u].result \in {fw[u].result, "deleted"}
    OBVIOUS
  <2>0. fw \in [Update -> FwRowType]
    BY DEF TInv, FIInv, FotaTypes
  <2>1. ASSUME NEW w \in Update, NEW r, fw' = [fw EXCEPT ![w] = r], fw[w].result = "DEFAULT"
        PROVE  fw'[u].result \in {fw[u].result, "deleted"}
    BY <2>0, <2>1
  <2>2. ASSUME NEW w \in Update, UserStep PROVE fw'[u].result \in {fw[u].result, "deleted"}
    <3>1. ASSUME NEW v \in Update, NEW o \in Op, NEW f \in Firmware, NEW trigger \in BOOLEAN,
                 StartUpdate(v, o, f, trigger)
          PROVE  fw'[u] = fw[u]
      BY <2>0, <3>1 DEF StartUpdate
    <3>2. ASSUME NEW v \in Update, NEW f \in Firmware, AdminChangeUpdate(v, f)
          PROVE  fw'[u].result = fw[u].result
      BY <2>0, <3>2 DEF AdminChangeUpdate, FwRowType
    <3>3. ASSUME NEW v \in Update, AdminDeleteUpdate(v)
          PROVE  fw'[u].result \in {fw[u].result, "deleted"}
      BY <2>0, <3>3 DEF AdminDeleteUpdate, NoRow, FwRow
    <3> QED BY <2>2, <3>1, <3>2, <3>3 DEF UserStep
  <2>3. ASSUME NEW h \in Handler, SaveUpdate(h) PROVE fw'[u].result \in {fw[u].result, "deleted"}
    <3>1. fw_obj[h].id \in Update /\ fw[fw_obj[h].id].result = "DEFAULT"
      BY <2>3, SavesActive DEF SaveUpdate, Active
    <3> QED BY <2>1, <2>3, <3>1 DEF SaveUpdate
  <2>4. ASSUME NEW t \in Task, PropagateSave(t) PROVE fw'[u].result \in {fw[u].result, "deleted"}
    <3>1. fw_update[t].id \in Update /\ fw[fw_update[t].id].result = "DEFAULT"
      BY <2>4 DEF PropagateSave, TInv, TaskSide, SInv, TaskOK
    <3> QED BY <2>1, <2>4, <3>1 DEF PropagateSave
  <2> QED BY <2>2, <2>3, <2>4, WhoWrites
<1> QED BY <1>1, TInvariance, SInvariance, PTL DEF FSpec, ResultIsFinal

(* The handler that leaves "save" is the one that steps. *)
LEMMA WhoSaves ==
    ASSUME TInv, [FNext]_fvars, NEW h \in Handler, hpc[h] = "save", hpc'[h] # "save"
    PROVE  SaveUpdate(h) \/ (HandlerFails(h) /\ UNCHANGED fw)
<1>1. ASSUME NEW g \in Handler, HandlerStep(g) PROVE g = h
  BY <1>1, HandlerFrame
<1>2. ASSUME NEW g \in Handler, NEW m \in Report PROVE ~Receive(g, m)
  BY <1>2 DEF Receive, Goto, TInv, HandlerSide
<1>3. ~UNCHANGED hpc
  OBVIOUS
<1>4. ASSUME NEW t \in Task PROVE ~FTaskStep(t)
  BY <1>3 DEF FTaskStep, PropagateRead, PropagateTo, PropagateSave, fotaVars, handlerVars
<1>5. ~(UserStep \/ BackgroundStep \/ FWorkerCrash \/ UNCHANGED fvars)
  BY <1>3 DEF UserStep, StartUpdate, AdminChangeUpdate, AdminDeleteUpdate, BackgroundStep,
              FWorkerCrash, fvars, fotaVars, handlerVars
<1>6. HandlerStep(h)
  BY <1>1, <1>2, <1>4, <1>5 DEF FNext
<1> QED BY <1>6 DEF HandlerStep, CountActive, Latest, Others, NextStale, Get, CreateExecute,
       TriggerExecute, HandlerFails, AbortExecute, AbortSendUri, AbortRead, AbortSave

(* The repair fails a duplicate only while a newer update is active, and a   *)
(* report is applied to the only active update, if nothing overlaps.         *)
THEOREM NewestUpdateSurvives ==
    ASSUME Serial
    PROVE  FSpec => NewestSurvives
<1> DEFINE Survives(h) == hpc[h] = "save" /\ hpc'[h] # "save" =>
               IF dedup[h] THEN \E w \in Active : w > fw_obj[h].id ELSE Active' \subseteq {fw_obj[h].id}
<1>1. TInv /\ SInv /\ [FNext]_fvars => [\A h \in Handler : Survives(h)]_fvars
  <2> SUFFICES ASSUME TInv, SInv, [FNext]_fvars, NEW h \in Handler, hpc[h] = "save", hpc'[h] # "save",
                      ~dedup[h]
               PROVE  Active' \subseteq {fw_obj[h].id}
    BY SavesActive
  <2>1. Active = {fw_obj[h].id}
    BY SavesActive
  <2>2. SaveUpdate(h) \/ UNCHANGED fw
    BY WhoSaves
  <2>3. \A u \in Update \ {fw_obj[h].id} : fw'[u] = fw[u]
    BY <2>2 DEF SaveUpdate, TInv, FIInv, FotaTypes
  <2> QED BY <2>1, <2>3 DEF Active
<1> QED BY <1>1, TInvariance, SInvariance, PTL DEF FSpec, NewestSurvives

-----------------------------------------------------------------------------
(* A failed operation ends its update.  Between the failure of the operation *)
(* and the end of the update, a task is on its way from the one to the       *)
(* other, or a handler that has set the result has not saved it yet.          *)

AbortOK(h) ==
    /\ hpc[h] \in Aborting => fw_obj[h].row.result # "DEFAULT"
    /\ hpc[h] = "exec!" => hop[h].id = fw_obj[h].row.execute_operation
    /\ hpc[h] = "uri!" => hop[h].id = fw_obj[h].row.send_uri_operation
    /\ hpc[h] \in {"create", "delay", "save"} /\ fw_obj[h].row.result = "DEFAULT" =>
          \A o \in Op : Linked(fw_obj[h].row, o) /\ op[o].status = "FAILED" =>
              Linked(fw[fw_obj[h].id], o)

Reporting(t, o, u) ==
    \/ pc[t] = "failed" /\ e_ops[t].id = o
    \/ pc[t] = "propagating" /\ fw_update[t].id = u

Ending(h, u) ==
    hpc[h] \in Aborting \cup {"save"} /\ fw_obj[h].id = u /\ fw_obj[h].row.result # "DEFAULT"

Settled ==
    \A o \in Op : \A u \in Active : op[o].status = "FAILED" /\ Linked(fw[u], o) =>
        (\E t \in Task : Reporting(t, o, u)) \/ (\E h \in Handler : Ending(h, u))

PInv == crashes = 0 => Settled /\ \A h \in Handler : AbortOK(h)

(* A step of a busy handler: nobody else explains an open update. *)
LEMMA HandlerSettles ==
    ASSUME TInv, SInv, NEW h \in Handler, HandlerStep(h), Settled,
           NEW o \in Op, NEW u \in Active, op[o].status = "FAILED", Linked(fw[u], o)
    PROVE  Ending(h, u)
<1>1. hpc[h] # "idle" BY HandlerFrame
<1>2. \A t \in Task : ~Reporting(t, o, u)
  BY <1>1 DEF SInv, OneAtATime, Reporting
<1>3. \A g \in Handler : Ending(g, u) => g = h
  BY <1>1 DEF SInv, OneAtATime, Ending, Aborting
<1> QED BY <1>2, <1>3 DEF Settled

(* A step of a busy task: likewise. *)
LEMMA TaskSettles ==
    ASSUME TInv, SInv, NEW t \in Task, \A h \in Handler : hpc[h] = "idle",
           \A s \in Task \ {t} : pc[s] = "idle", Settled,
           NEW o \in Op, NEW u \in Active, op[o].status = "FAILED", Linked(fw[u], o)
    PROVE  Reporting(t, o, u)
<1>1. \A h \in Handler : ~Ending(h, u)
  BY DEF Ending, Aborting
<1>2. \A s \in Task : Reporting(s, o, u) => s = t
  BY DEF Reporting
<1> QED BY <1>1, <1>2 DEF Settled

(* Two claims on an operation are one update's. *)
LEMMA SameUpdate ==
    ASSUME ClaimsOK, NEW o \in Op, NEW u \in Update, NEW c \in Copies, c.id \in Update,
           Linked(fw[u], o), Linked(c.row, o)
    PROVE  u = c.id
<1>1. Claim(c.id, o)
  BY DEF Claim
<1>2. Linked(FwCopy(u, fw[u]).row, o) /\ FwCopy(u, fw[u]).id = u
  BY DEF FwCopy
<1>3. Claim(u, o)
  BY <1>2, CopiesKnown DEF Known
<1> QED BY <1>1, <1>3 DEF ClaimsOK

(* Neither the table nor a FAILED operation is new, and h goes on ending. *)
LEMMA SettledStays ==
    ASSUME TInv, SInv, NEW h \in Handler, HandlerStep(h), Settled, UNCHANGED fw,
           \A o \in Op : op'[o].status = "FAILED" => op[o].status = "FAILED",
           \A u \in Update : Ending(h, u) => Ending(h, u)'
    PROVE  Settled'
<1>1. Active' = Active /\ Active \subseteq Update BY DEF Active
<1> SUFFICES ASSUME NEW o \in Op, NEW u \in Active, op'[o].status = "FAILED", Linked(fw[u], o)
             PROVE  Ending(h, u)'
  BY <1>1 DEF Settled
<1>2. Ending(h, u) BY HandlerSettles
<1> QED BY <1>1, <1>2

LEMMA HandlerPropagates ==
    ASSUME "DEFAULT" \notin ReportedResult, TInv, SInv, ClaimsOK, NEW h \in Handler, HandlerStep(h),
           ~HandlerFails(h), Settled, AbortOK(h)
    PROVE  Settled' /\ AbortOK(h)'
<1>0. /\ FotaTypes /\ hpc \in [Handler -> HPC] /\ hop \in [Handler -> CopyType]
      /\ op \in [Op -> RowType]
  BY DEF TInv, FIInv, HandlerSide, TaskSide, TypeOK
<1>1. ASSUME hpc[h] \notin Aborting \cup {"save"}, UNCHANGED <<fw, op>>
      PROVE  Settled'
  BY <1>1, SettledStays DEF Ending
<1>2. ASSUME NEW l \in {"idle", "count", "latest", "others", "next", "get"}, Goto(h, l)
      PROVE  AbortOK(h)'
  BY <1>0, <1>2 DEF Goto, AbortOK, Aborting
<1>3. ASSUME NEW r, NEW c \in FwCopyType, r # "DEFAULT", Hold(h, Finished(c, r)), Goto(h, "exec?")
      PROVE  AbortOK(h)'
  <2>1. hpc'[h] = "exec?" /\ fw_obj'[h] = Finished(c, r)
    BY <1>0, <1>3 DEF Goto, Hold, FotaTypes
  <2>2. fw_obj'[h].row.result = r
    BY <1>3, <2>1, FinishedFacts
  <2> QED BY <1>3, <2>1, <2>2 DEF AbortOK
<1>4. CASE CountActive(h) \/ Latest(h) \/ Others(h)
  <2>1. hpc[h] \notin Aborting \cup {"save"} /\ UNCHANGED <<fw, op>>
    BY <1>4 DEF CountActive, Latest, Others, Aborting, vars, opVars
  <2> QED BY <1>1, <1>2, <1>4, <2>1 DEF CountActive, Latest, Others, Return
<1>5. CASE NextStale(h)
  <2>1. hpc[h] \notin Aborting \cup {"save"} /\ UNCHANGED <<fw, op>>
    BY <1>5 DEF NextStale, Aborting, vars, opVars
  <2>2. \A c \in todo[h] : c \in FwCopyType
    BY <1>0 DEF FotaTypes
  <2> QED BY <1>1, <1>2, <1>3, <1>5, <2>1, <2>2 DEF NextStale
<1>6. CASE Get(h)
  <2>1. hpc[h] \notin Aborting \cup {"save"} /\ UNCHANGED <<fw, op>>
    BY <1>6 DEF Get, Aborting, vars, opVars
  <2>2. Settled' BY <1>1, <2>1
  <2>3. CASE Return(h) BY <1>2, <2>2, <2>3 DEF Return
  <2>4. \A u \in Active : FwCopy(u, fw[u]) \in FwCopyType
    BY <1>0, RowFacts DEF FotaTypes, Active
  <2>5. CASE GotResult(h)
    <3>1. PICK u \in Active, r \in Result : /\ r = "DEFAULT" => r \in ReportedResult
                                         /\ Hold(h, Finished(FwCopy(u, fw[u]), r))
                                         /\ Goto(h, "exec?")
      BY <2>5 DEF GotResult
    <3> QED BY <1>3, <2>2, <2>4, <3>1
  <2>6. CASE GotState(h)
    <3>1. PICK u \in Active, s \in State, l \in {"create", "save"} :
             Hold(h, FwCopy(u, [fw[u] EXCEPT !.state = s])) /\ Goto(h, l)
      BY <2>6 DEF GotState
    <3>2. hpc'[h] = l /\ fw_obj'[h] = FwCopy(u, [fw[u] EXCEPT !.state = s])
      BY <1>0, <3>1 DEF Goto, Hold, FotaTypes
    <3>3. fw[u] \in FwRowType
      BY <1>0 DEF FotaTypes, Active
    <3>4. \A o : Linked([fw[u] EXCEPT !.state = s], o) <=> Linked(fw[u], o)
      BY <3>3 DEF Linked, FwRowType
    <3>5. fw_obj'[h].id = u /\ fw_obj'[h].row = [fw[u] EXCEPT !.state = s]
      BY <3>2 DEF FwCopy
    <3>6. fw'[fw_obj'[h].id] = fw[u] /\ \A o : Linked(fw_obj'[h].row, o) <=> Linked(fw[u], o)
      BY <2>1, <3>4, <3>5
    <3>7. \A o \in Op : Linked(fw_obj'[h].row, o) => Linked(fw'[fw_obj'[h].id], o)
      BY <3>6
    <3> QED BY <2>2, <3>1, <3>2, <3>7 DEF AbortOK, Aborting
  <2> QED BY <1>0, <1>6, <2>3, <2>5, <2>6, GetCases
<1>7. ASSUME NEW o \in Op, CreateExecute(h, o) PROVE Settled' /\ AbortOK(h)'
  <2> DEFINE r == fw_obj[h].row
  <2>1. /\ UNCHANGED fw /\ op' = [op EXCEPT ![o] = Row("QUEUED", 0)]
        /\ hpc[h] = "create" /\ hpc'[h] = "delay"
        /\ fw_obj'[h] = FwCopy(fw_obj[h].id, [r EXCEPT !.execute_operation = o])
    BY <1>0, <1>7 DEF CreateExecute, Insert, Hold, Goto, FotaTypes
  <2>2. op'[o].status # "FAILED" /\ \A p \in Op : op'[p].status = "FAILED" => op[p].status = "FAILED"
    BY <1>0, <2>1 DEF Row
  <2>3. Settled'
    BY <2>1, <2>2, SettledStays DEF Ending, Aborting
  <2>4. r \in FwRowType
    BY <1>0 DEF FotaTypes, FwCopyType
  <2>5. /\ fw_obj'[h].id = fw_obj[h].id /\ fw_obj'[h].row.result = r.result
        /\ \A p \in Op \ {o} : Linked(fw_obj'[h].row, p) => Linked(r, p)
    BY <2>1, <2>4 DEF FwCopy, FwRowType, Linked
  <2>6. AbortOK(h)'
    BY <2>1, <2>2, <2>5 DEF AbortOK, Aborting
  <2> QED BY <2>3, <2>6
<1>8. CASE TriggerExecute(h)
  <2>1. /\ UNCHANGED <<fw, op, fw_obj>> /\ hpc[h] = "delay" /\ hpc'[h] = "save"
    BY <1>0, <1>8 DEF TriggerExecute, Goto, opVars, localVars
  <2>2. Settled' BY <1>1, <2>1 DEF Aborting
  <2>3. AbortOK(h)' BY <2>1 DEF AbortOK, Aborting
  <2> QED BY <2>2, <2>3
<1>9. ASSUME hpc[h] \in Aborting, hpc'[h] \in Aborting \cup {"save"}, fw_obj'[h] = fw_obj[h]
      PROVE  \A u \in Update : Ending(h, u) => Ending(h, u)'
  BY <1>9 DEF Ending
<1>10. ASSUME NEW here \in {"exec?", "uri?"}, NEW o, NEW abort \in {"exec!", "uri!"},
              NEW next \in {"uri?", "save"}, AbortRead(h, here, o, abort, next),
              o = IF abort = "exec!" THEN fw_obj[h].row.execute_operation
                                     ELSE fw_obj[h].row.send_uri_operation
       PROVE  Settled' /\ AbortOK(h)'
  <2>1. /\ UNCHANGED <<fw, op, fw_obj>> /\ hpc[h] = here /\ hpc'[h] \in {abort, next}
        /\ hpc'[h] = abort => hop'[h].id = o
    BY <1>0, <1>10 DEF AbortRead, Goto, Failed, Copy, vars, opVars
  <2>2. Settled'
    BY <1>9, <2>1, SettledStays DEF Aborting
  <2>3. fw_obj[h].row.result # "DEFAULT"
    BY <2>1 DEF AbortOK, Aborting
  <2>4. AbortOK(h)'
    BY <1>10, <2>1, <2>3 DEF AbortOK, Aborting
  <2> QED BY <2>2, <2>4
<1>11. ASSUME NEW here \in {"exec!", "uri!"}, NEW next \in {"uri?", "save"}, AbortSave(h, here, next)
       PROVE  Settled' /\ AbortOK(h)'
  <2> DEFINE p == hop[h].id
  <2>1. /\ UNCHANGED <<fw, fw_obj>> /\ hpc[h] = here /\ hpc'[h] = next
        /\ op' = [op EXCEPT ![p] = Row(hop[h].status, hop[h].transmit_counter)]
    BY <1>0, <1>11 DEF AbortSave, SaveRow, Goto
  <2>2. /\ p \in Op /\ fw_obj[h].row.result # "DEFAULT" /\ fw_obj[h].id \in Update
        /\ Linked(fw_obj[h].row, p)
    BY <2>1 DEF AbortOK, Aborting, Linked, TInv, HandlerSide
  <2>3. AbortOK(h)'
    BY <2>1, <2>2 DEF AbortOK, Aborting
  <2>4. \A o \in Op : o # p => op'[o] = op[o]
    BY <1>0, <2>1
  <2>5. \A u \in Update : Ending(h, u) => Ending(h, u)'
    BY <1>9, <2>1 DEF Aborting
  <2>6. Active' = Active /\ Active \subseteq Update
    BY <2>1 DEF Active
  <2>7. fw_obj[h] \in Copies
    BY DEF Copies
  <2>8. ASSUME NEW o \in Op, NEW u \in Active, op'[o].status = "FAILED", Linked(fw[u], o)
        PROVE  Ending(h, u)'
    <3>1. CASE o = p
      <4>1. u = fw_obj[h].id
        BY <2>2, <2>6, <2>7, <2>8, <3>1, SameUpdate
      <4> QED BY <2>1, <2>2, <4>1 DEF Ending, Aborting
    <3>2. CASE o # p
      <4>1. Ending(h, u)
        BY <2>4, <2>8, <3>2, HandlerSettles
      <4> QED BY <2>5, <2>6, <4>1
    <3> QED BY <3>1, <3>2
  <2>9. Settled'
    BY <2>1, <2>6, <2>8 DEF Settled
  <2> QED BY <2>3, <2>9
<1>12. CASE SaveUpdate(h)
  <2> DEFINE k == fw_obj[h].id
             r == fw_obj[h].row
  <2>1. /\ UNCHANGED op /\ hpc[h] = "save" /\ fw' = [fw EXCEPT ![k] = r]
        /\ Goto(h, "next") \/ Goto(h, "idle")
    BY <1>12 DEF SaveUpdate, Return, vars, opVars
  <2>2. AbortOK(h)' BY <1>2, <2>1
  <2>3. k \in Active /\ k \in Update
    BY <2>1, SavesActive DEF Active
  <2>4. \A u \in Update : fw'[u] = IF u = k THEN r ELSE fw[u]
    BY <1>0, <2>1, <2>3 DEF FotaTypes
  <2>5. ASSUME NEW o \in Op, NEW u \in Active', op[o].status = "FAILED", Linked(fw'[u], o)
        PROVE  FALSE
    <3>1. u \in Update /\ fw'[u].result = "DEFAULT"
      BY DEF Active
    <3>2. CASE u = k
      <4>1. r.result = "DEFAULT" /\ Linked(r, o)
        BY <2>4, <2>5, <3>1, <3>2
      <4>2. Linked(fw[k], o)
        BY <2>1, <2>5, <4>1 DEF AbortOK
      <4>3. Ending(h, k)
        BY <2>3, <2>5, <4>2, HandlerSettles
      <4> QED BY <4>1, <4>3 DEF Ending
    <3>3. CASE u # k
      <4>1. u \in Active /\ Linked(fw[u], o)
        BY <2>4, <2>5, <3>1, <3>3 DEF Active
      <4>2. Ending(h, u)
        BY <2>5, <4>1, HandlerSettles
      <4> QED BY <3>3, <4>2 DEF Ending
    <3> QED BY <3>2, <3>3
  <2>6. Settled'
    BY <2>1, <2>5 DEF Settled
  <2> QED BY <2>2, <2>6
<1> QED BY <1>4, <1>5, <1>6, <1>7, <1>8, <1>10, <1>11, <1>12
        DEF HandlerStep, AbortExecute, AbortSendUri

LEMMA TaskPropagates ==
    ASSUME Serial, TInv, SInv, ClaimsOK, NEW t \in Task, FTaskStep(t), ~TaskFails(t), Settled
    PROVE  Settled'
<1>0. FotaTypes /\ TypeOK BY DEF TInv, FIInv, TaskSide
<1>1. (\A h \in Handler : hpc[h] = "idle") /\ \A s \in Task \ {t} : pc[s] = "idle"
  <2>1. CASE pc[t] = "idle"
    <3>1. Quiet
      BY <2>1 DEF FTaskStep, PropagateRead, PropagateTo, PropagateSave
    <3> QED BY <3>1 DEF Quiet
  <2>2. CASE pc[t] # "idle"
    BY <2>2 DEF SInv, OneAtATime
  <2> QED BY <2>1, <2>2
<1>2. \A o \in Op, u \in Active : op[o].status = "FAILED" /\ Linked(fw[u], o) => Reporting(t, o, u)
  BY <1>1, TaskSettles
<1>3. ASSUME UNCHANGED fw, NEW p \in Op, \A o \in Op \ {p} : op'[o] = op[o],
             pc[t] \notin {"failed", "propagating"},
             op'[p].status = "FAILED" => op[p].status = "FAILED" \/ (pc'[t] = "failed" /\ e_ops'[t].id = p)
      PROVE  Settled'
  <2>1. \A o \in Op, u \in Active : ~(op[o].status = "FAILED" /\ Linked(fw[u], o))
    BY <1>2, <1>3 DEF Reporting
  <2>2. Active' = Active BY <1>3 DEF Active
  <2> QED BY <1>3, <2>1, <2>2 DEF Settled, Reporting
<1>4. ASSUME UNCHANGED <<fw, op>>, pc[t] \notin {"failed", "propagating"} PROVE Settled'
  <2>1. \A o \in Op, u \in Active : ~(op[o].status = "FAILED" /\ Linked(fw[u], o))
    BY <1>2, <1>4 DEF Reporting
  <2>2. Active' = Active BY <1>4 DEF Active
  <2> QED BY <1>4, <2>1, <2>2 DEF Settled
<1>5. CASE TaskStep(t) /\ UNCHANGED fotaVars
  <2>1. UNCHANGED fw BY <1>5 DEF fotaVars
  <2>2. ASSUME NEW o \in Op, Load(t, o) PROVE Settled'
    BY <1>4, <2>1, <2>2 DEF Load, opVars
  <2>3. CASE Mark(t)
    <3> DEFINE p == e_ops[t].id
    <3>1. pc[t] = "loaded" /\ p \in Op
      BY <1>0, <2>3 DEF Mark, TypeOK
    <3>2. \E n : op' = [op EXCEPT ![p] = Row("SENDING", n)]
      BY <2>3 DEF Mark, SaveRow, Copy, Row
    <3>3. op'[p].status # "FAILED" /\ \A o \in Op \ {p} : op'[o] = op[o]
      BY <1>0, <3>1, <3>2 DEF Row, TypeOK
    <3> QED BY <1>3, <2>1, <3>1, <3>3
  <2>4. ASSUME NEW reply \in Reply, Answer(t, reply) PROVE Settled'
    BY <1>4, <2>1, <2>4 DEF Answer, opVars
  <2>5. CASE Save(t)
    <3> DEFINE p == e_ops[t].id
    <3>1. pc[t] = "answered" /\ p \in Op
      BY <1>0, <2>5 DEF Save, TypeOK
    <3>2. op' = [op EXCEPT ![p] = Row(e_ops[t].status, e_ops[t].transmit_counter)]
      BY <2>5 DEF Save, SaveRow
    <3>3. op'[p].status = e_ops[t].status /\ \A o \in Op \ {p} : op'[o] = op[o]
      BY <1>0, <3>1, <3>2 DEF Row, TypeOK
    <3>4. e_ops[t].status = "FAILED" => pc'[t] = "failed" /\ e_ops'[t].id = p
      BY <1>0, <2>5 DEF Save, TypeOK
    <3> HIDE DEF p
    <3> QED BY <1>3, <2>1, <3>1, <3>3, <3>4
  <2> QED BY <1>5, <2>2, <2>3, <2>4, <2>5 DEF TaskStep
<1>6. CASE PropagateRead(t)
  <2> DEFINE p == e_ops[t].id
  <2>1. UNCHANGED <<fw, op>> /\ pc[t] = "failed" /\ p \in Op
    BY <1>0, <1>6 DEF PropagateRead, PropagateTo, TypeOK, opVars
  <2>2. Active' = Active BY <2>1 DEF Active
  <2>3. ASSUME NEW o \in Op, NEW u \in Active, op[o].status = "FAILED", Linked(fw[u], o)
        PROVE  u \in Owners(p)
    BY <1>2, <2>1, <2>3 DEF Reporting, Owners, Linked, Active
  <2>4. \A u, w \in Owners(p) : u = w
    <3>1. \A v \in Owners(p) : v \in Update /\ Linked(fw[v], p)
      BY DEF Owners, Linked
    <3>2. \A v \in Update : FwCopy(v, fw[v]) \in Copies /\ FwCopy(v, fw[v]).id = v
                            /\ FwCopy(v, fw[v]).row = fw[v]
      BY DEF Copies, FwCopy
    <3> QED BY <2>1, <3>1, <3>2, SameUpdate
  <2>5. CASE \A u \in Owners(p) : u \notin Active
    BY <2>1, <2>2, <2>3, <2>5 DEF Settled
  <2>6. ASSUME NEW u \in Owners(p), pc' = [pc EXCEPT ![t] = "propagating"],
               fw_update' = [fw_update EXCEPT ![t] = Finished(FwCopy(u, fw[u]), "UPDATE_FAILED")]
        PROVE  Settled'
    <3>1. Finished(FwCopy(u, fw[u]), "UPDATE_FAILED").id = u
      BY DEF Finished, FwCopy
    <3>2. Reporting(t, p, u)'
      BY <1>0, <2>6, <3>1 DEF Reporting, FotaTypes, TypeOK
    <3>3. ASSUME NEW o \in Op, NEW w \in Active, op[o].status = "FAILED", Linked(fw[w], o)
          PROVE  pc'[t] = "propagating" /\ fw_update'[t].id = w
      BY <1>0, <2>3, <2>4, <2>6, <3>1, <3>3 DEF FotaTypes, TypeOK
    <3> QED BY <2>1, <2>2, <3>3 DEF Settled, Reporting
  <2>7. CASE \E u \in Owners(p) : fw[u].result \notin {"DEFAULT"}
    BY <2>4, <2>5, <2>7 DEF Active
  <2> QED BY <1>6, <2>5, <2>6, <2>7 DEF PropagateRead, PropagateTo
<1>7. CASE PropagateSave(t)
  <2> DEFINE k == fw_update[t].id
             r == fw_update[t].row
  <2>1. /\ UNCHANGED op /\ pc[t] = "propagating" /\ fw' = [fw EXCEPT ![k] = r]
        /\ k \in Update /\ r.result = "UPDATE_FAILED"
    BY <1>7 DEF PropagateSave, opVars, TInv, TaskSide, SInv, TaskOK
  <2>2. \A u \in Update : fw'[u] = IF u = k THEN r ELSE fw[u]
    BY <1>0, <2>1 DEF FotaTypes
  <2>3. ASSUME NEW o \in Op, NEW u \in Active', op[o].status = "FAILED", Linked(fw'[u], o)
        PROVE  FALSE
    <3>1. u \in Update /\ fw'[u].result = "DEFAULT"
      BY DEF Active
    <3>2. u # k
      BY <2>1, <2>2, <3>1
    <3>3. u \in Active /\ Linked(fw[u], o)
      BY <2>2, <2>3, <3>1, <3>2 DEF Active
    <3>4. Reporting(t, o, u)
      BY <1>2, <2>3, <3>3
    <3> QED BY <2>1, <3>2, <3>4 DEF Reporting
  <2> QED BY <2>1, <2>3 DEF Settled
<1> QED BY <1>5, <1>6, <1>7 DEF FTaskStep

LEMMA UserPropagates ==
    ASSUME TInv, Quiet, UserStep, Settled
    PROVE  Settled'
<1>0. FotaTypes /\ TypeOK BY DEF TInv, FIInv, TaskSide
<1>1. \A o \in Op, u \in Active : ~(op[o].status = "FAILED" /\ Linked(fw[u], o))
  BY DEF Settled, Quiet, Reporting, Ending, Aborting
<1>2. SUFFICES ASSUME NEW o \in Op, NEW w \in Active', op'[o].status = "FAILED", Linked(fw'[w], o)
               PROVE  FALSE
  BY DEF Settled
<1>3. w \in Update /\ fw'[w].result = "DEFAULT"
  BY DEF Active
<1>4. ASSUME NEW u \in Update, NEW p \in Op, NEW f \in Firmware, NEW trigger \in BOOLEAN,
             StartUpdate(u, p, f, trigger)
      PROVE  FALSE
  <2> DEFINE r == FwRow("IDLE", "DEFAULT", f, p, NoOp)
  <2>1. op' = [op EXCEPT ![p] = Row("QUEUED", 0)] /\ fw' = [fw EXCEPT ![u] = r]
    BY <1>4 DEF StartUpdate, Insert
  <2>2. o # p /\ op[o].status = "FAILED"
    BY <1>0, <1>2, <2>1 DEF Row, TypeOK
  <2>3. ~Linked(r, o)
    BY <2>2, OperationsAssumption DEF Linked, FwRow
  <2> HIDE DEF r
  <2>4. w # u
    BY <1>0, <1>2, <2>1, <2>3 DEF FotaTypes
  <2>5. w \in Active /\ Linked(fw[w], o)
    BY <1>0, <1>2, <1>3, <2>1, <2>4 DEF FotaTypes, Active
  <2> QED BY <1>1, <2>2, <2>5
<1>5. ASSUME NEW u \in Update, NEW f \in Firmware, AdminChangeUpdate(u, f) PROVE FALSE
  <2>1. UNCHANGED op /\ fw' = [fw EXCEPT ![u].firmware = f]
    BY <1>5 DEF AdminChangeUpdate, opVars
  <2>2. fw'[w].result = fw[w].result /\ (Linked(fw'[w], o) <=> Linked(fw[w], o))
    BY <1>0, <1>3, <2>1 DEF FotaTypes, FwRowType, Linked
  <2> QED BY <1>1, <1>2, <1>3, <2>1, <2>2 DEF Active
<1>6. ASSUME NEW u \in Update, AdminDeleteUpdate(u) PROVE FALSE
  <2>1. UNCHANGED op /\ fw' = [fw EXCEPT ![u] = NoRow("deleted")]
    BY <1>6 DEF AdminDeleteUpdate, vars, opVars
  <2>2. w # u
    BY <1>0, <1>3, <2>1 DEF FotaTypes, NoRow, FwRow
  <2>3. fw'[w] = fw[w]
    BY <1>0, <1>3, <2>1, <2>2 DEF FotaTypes
  <2> QED BY <1>1, <1>2, <1>3, <2>1, <2>3 DEF Active
<1> QED BY <1>4, <1>5, <1>6 DEF UserStep

LEMMA PNextPreserves ==
    ASSUME Serial, "DEFAULT" \notin ReportedResult
    PROVE  TInv /\ SInv /\ ClaimsOK /\ PInv /\ [FNext]_fvars => PInv'
<1> SUFFICES ASSUME TInv, SInv, ClaimsOK, PInv, [FNext]_fvars, crashes' = 0
             PROVE  Settled' /\ \A h \in Handler : AbortOK(h)'
  BY DEF PInv
<1>0. /\ crashes \in Nat /\ hpc \in [Handler -> HPC]
      /\ \A h \in Handler : hpc[h] = "idle" /\ hpc'[h] = "idle" => AbortOK(h)'
  BY DEF TInv, HandlerSide, TaskSide, TypeOK, AbortOK, Aborting
<1>1. /\ \A h \in Handler : ~HandlerFails(h)
      /\ \A t \in Task : ~TaskFails(t)
      /\ ~FWorkerCrash /\ ~BrokerLoss
  BY <1>0 DEF HandlerFails, TaskFails, FWorkerCrash, WorkerCrash, BrokerLoss
<1>2. ASSUME crashes # 0 PROVE FALSE
  <2> USE <1>0, <1>1, <1>2 DEF vars, histVars
  <2>1. ASSUME NEW h \in Handler PROVE ~HandlerStep(h)
    BY <2>1 DEF HandlerStep, CountActive, Latest, Others, NextStale, Get, CreateExecute,
           TriggerExecute, AbortExecute, AbortSendUri, AbortRead, AbortSave, SaveUpdate
  <2>2. ASSUME NEW t \in Task PROVE ~FTaskStep(t)
    BY <2>2 DEF FTaskStep, TaskStep, Load, Mark, Answer, Save, PropagateRead, PropagateTo, PropagateSave
  <2>3. ~UserStep /\ ~BackgroundStep /\ ~UNCHANGED fvars
    BY DEF UserStep, StartUpdate, AdminChangeUpdate, AdminDeleteUpdate, BackgroundStep, Trigger,
           ProcessPending, fvars
  <2>4. ASSUME NEW h \in Handler, NEW m \in Report PROVE ~Receive(h, m)
    BY <2>4 DEF Receive
  <2> QED BY <2>1, <2>2, <2>3, <2>4 DEF FNext
<1>3. Settled /\ \A h \in Handler : AbortOK(h)
  BY <1>2 DEF PInv
<1>4. ASSUME NEW h \in Handler, HandlerStep(h) PROVE Settled' /\ \A g \in Handler : AbortOK(g)'
  <2>1. Settled' /\ AbortOK(h)'
    BY <1>1, <1>3, <1>4, HandlerPropagates
  <2>2. \A g \in Handler \ {h} : hpc[g] = "idle" /\ hpc'[g] = "idle"
    BY <1>4, HandlerFrame DEF SInv, OneAtATime
  <2> QED BY <1>0, <2>1, <2>2
<1>5. ASSUME NEW t \in Task, FTaskStep(t) PROVE Settled' /\ \A g \in Handler : AbortOK(g)'
  <2>1. Settled' BY <1>1, <1>3, <1>5, TaskPropagates
  <2>2. UNCHANGED hpc
    BY <1>5 DEF FTaskStep, PropagateRead, PropagateTo, PropagateSave, fotaVars, handlerVars
  <2>3. \A g \in Handler : hpc[g] = "idle"
    <3>1. CASE pc[t] = "idle"
      <4>1. Quiet
        BY <1>5, <3>1 DEF FTaskStep, PropagateRead, PropagateTo, PropagateSave, TaskFails
      <4> QED BY <4>1 DEF Quiet
    <3>2. CASE pc[t] # "idle"
      BY <3>2 DEF SInv, OneAtATime
    <3> QED BY <3>1, <3>2
  <2> QED BY <1>0, <2>1, <2>2, <2>3
<1>6. CASE UserStep
  <2>1. Quiet /\ UNCHANGED hpc
    BY <1>6 DEF UserStep, StartUpdate, AdminChangeUpdate, AdminDeleteUpdate, handlerVars
  <2>2. Settled' BY <1>3, <1>6, <2>1, UserPropagates
  <2> QED BY <1>0, <2>1, <2>2 DEF Quiet
<1>7. ASSUME NEW h \in Handler, NEW m \in Report, Receive(h, m)
      PROVE  Settled' /\ \A g \in Handler : AbortOK(g)'
  <2>1. Quiet /\ UNCHANGED <<op, pc, fw, fw_obj>> /\ Goto(h, "count")
    BY <1>7 DEF Receive, vars, opVars, taskVars
  <2>2. \A g \in Handler : hpc'[g] \in {"idle", "count"}
    BY <1>0, <2>1 DEF Goto, Quiet
  <2>3. \A g \in Handler : AbortOK(g)'
    BY <2>2 DEF AbortOK, Aborting
  <2>4. \A o \in Op, u \in Active : ~(op[o].status = "FAILED" /\ Linked(fw[u], o))
    BY <1>3, <2>1 DEF Settled, Quiet, Reporting, Ending, Aborting
  <2>5. Active' = Active BY <2>1 DEF Active
  <2> QED BY <2>1, <2>3, <2>4, <2>5 DEF Settled
<1>8. CASE UNCHANGED <<op, pc, e_ops, fotaVars>>
  <2>1. UNCHANGED <<op, pc, e_ops, fw, hpc, fw_obj, hop, fw_update>>
    BY <1>8 DEF fotaVars, handlerVars, localVars
  <2>2. Active' = Active BY <2>1 DEF Active
  <2>3. Settled' BY <1>3, <2>1, <2>2 DEF Settled, Reporting, Ending
  <2> QED BY <1>3, <2>1, <2>3 DEF AbortOK
<1>9. CASE BackgroundStep
  BY <1>1, <1>8, <1>9 DEF BackgroundStep, Trigger, ProcessPending, opVars, taskVars
<1>10. CASE UNCHANGED fvars
  BY <1>8, <1>10 DEF fvars, vars, opVars, taskVars
<1> QED BY <1>1, <1>4, <1>5, <1>6, <1>7, <1>9, <1>10 DEF FNext

LEMMA InitPInv == FInit => PInv
<1> SUFFICES ASSUME FInit PROVE Settled /\ \A h \in Handler : AbortOK(h)
  BY DEF PInv
<1>1. Settled BY DEF FInit, Settled, Active, NoFw, NoRow, FwRow
<1>2. \A h \in Handler : AbortOK(h) BY DEF FInit, AbortOK, Aborting
<1> QED BY <1>1, <1>2

(* A failed operation of an update that is not over has a task or a handler   *)
(* that is about to end it, when nothing overlaps.                           *)
THEOREM PInvariance ==
    ASSUME Serial, "DEFAULT" \notin ReportedResult
    PROVE  FSpec => []PInv
<1>1. FInit => PInv BY InitPInv
<1>2. TInv /\ SInv /\ ClaimsOK /\ PInv /\ [FNext]_fvars => PInv' BY PNextPreserves
<1> QED BY <1>1, <1>2, TInvariance, SInvariance, ClaimsInvariance, PTL DEF FSpec

(* tasks.py: "If a failed operation belongs to a FirmwareUpdate, mark the    *)
(* update as failed." - between requests and before any failure, no active   *)
(* update has a failed operation, provided that requests and tasks do not    *)
(* overlap and the device reports no result 0, for which handle_fota aborts  *)
(* the operations of an update that stays active.                            *)
THEOREM FailuresArePropagated ==
    ASSUME Serial, "DEFAULT" \notin ReportedResult
    PROVE  FSpec => []FailurePropagated
<1>1. PInv => FailurePropagated
  <2> SUFFICES ASSUME Settled, Quiet, NEW o \in Op, op[o].status = "FAILED",
                      NEW u \in Owners(o) \cap Active
               PROVE  FALSE
    BY DEF PInv, FailurePropagated
  <2>1. Linked(fw[u], o) BY DEF Owners, Linked
  <2> QED BY <2>1 DEF Settled, Quiet, Reporting, Ending, Aborting
<1> QED BY <1>1, PInvariance, PTL

-----------------------------------------------------------------------------
(* The life cycle.  What a handler is about to save is the row of an update  *)
(* with one report applied, or its end; only the download creates an Update  *)
(* command.                                                                  *)

Ordered(r) == r.execute_operation # NoOp

(* c has an Update command just when the row it was read from has. *)
AsRead(c) == Ordered(c.row) <=> Ordered(fw[c.id])

HolderOK(h) ==
    IF hpc[h] = "idle" THEN todo[h] = {}
    ELSE
        /\ hpc[h] \in Aborting \cup {"create", "delay", "save"} => fw_obj[h].row.result \in Result
        /\ hpc[h] \in {"create", "delay"} =>
              fw_obj[h].row.state = "DOWNLOADED" /\ fw_obj[h].row.result = "DEFAULT"
        /\ hpc[h] = "delay" => Ordered(fw_obj[h].row)
        /\ hpc[h] \in Aborting => fw_obj[h].row.state = "IDLE" /\ AsRead(fw_obj[h])
        /\ hpc[h] = "save" => IF fw_obj[h].row.state = "DOWNLOADED" THEN Ordered(fw_obj[h].row)
                              ELSE AsRead(fw_obj[h])
        /\ \A c \in todo[h] : AsRead(c)

LInv ==
    /\ \A h \in Handler : HolderOK(h)
    /\ \A t \in Task : pc[t] = "propagating" => AsRead(fw_update[t])
    /\ \A u \in Update : fw[u].result = "absent" => fw[u].state = "IDLE" /\ ~Ordered(fw[u])

LEMMA FinishedAsRead ==
    ASSUME NEW c \in FwCopyType, NEW r
    PROVE  /\ Finished(c, r).id = c.id /\ Finished(c, r).row.result = r
           /\ Finished(c, r).row.state = "IDLE"
           /\ Ordered(Finished(c, r).row) <=> Ordered(c.row)
BY DEF Finished, FwCopy, FwCopyType, FwRowType, Ordered

(* Steps of a busy handler *)
LEMMA HolderStepOK ==
    ASSUME TInv, SInv, LInv, NEW h \in Handler, HandlerStep(h)
    PROVE  HolderOK(h)'
<1>0. FotaTypes /\ HandlerSide /\ HolderOK(h)
  BY DEF TInv, FIInv, LInv
<1>1. CASE Return(h)
  <2>1. hpc'[h] = "idle" /\ todo'[h] = {}
    BY <1>0, <1>1 DEF Return, Goto, HandlerSide, FotaTypes
  <2> QED BY <2>1 DEF HolderOK
<1>2. ASSUME NEW l \in HPC, Goto(h, l), UNCHANGED <<fw, fw_obj, todo>>, hpc[h] # "idle",
             \/ l \in {"get", "latest", "next"}
             \/ hpc[h] \in Aborting /\ l \in Aborting \cup {"save"}
             \/ hpc[h] = "delay" /\ l = "save"
      PROVE  HolderOK(h)'
  <2>1. hpc'[h] = l
    BY <1>0, <1>2 DEF Goto, HandlerSide
  <2> QED BY <1>0, <1>2, <2>1 DEF HolderOK, AsRead, Ordered, Aborting
<1>3. CASE CountActive(h)
  BY <1>1, <1>2, <1>3 DEF CountActive, localVars, HPC
<1>4. CASE Latest(h)
  <2>1. CASE Goto(h, "others") /\ UNCHANGED <<fw, todo>>
    <3>1. hpc'[h] = "others" /\ hpc[h] # "idle"
      BY <1>0, <1>4, <2>1 DEF Goto, HandlerSide, Latest
    <3> QED BY <1>0, <2>1, <3>1 DEF HolderOK, AsRead, Ordered, Aborting
  <2> QED BY <1>1, <1>4, <2>1 DEF Latest
<1>5. CASE Others(h)
  <2>1. hpc'[h] = "next" /\ todo'[h] = {FwCopy(u, fw[u]) : u \in Active \ {fw_obj[h].id}} /\ UNCHANGED fw
    BY <1>0, <1>5 DEF Others, Goto, HandlerSide, FotaTypes
  <2>2. \A c \in todo'[h] : AsRead(c)'
    BY <2>1 DEF AsRead, Ordered, FwCopy
  <2> QED BY <2>1, <2>2 DEF HolderOK, Aborting
<1>6. CASE NextStale(h)
  <2>1. ASSUME NEW c \in todo[h], todo' = [todo EXCEPT ![h] = todo[h] \ {c}],
               Hold(h, Finished(c, "UPDATE_FAILED")), Goto(h, "exec?")
        PROVE  HolderOK(h)'
    <3>1. /\ hpc'[h] = "exec?" /\ todo'[h] = todo[h] \ {c} /\ UNCHANGED fw
          /\ fw_obj'[h] = Finished(c, "UPDATE_FAILED") /\ hpc[h] # "idle"
      BY <1>0, <1>6, <2>1 DEF Goto, Hold, HandlerSide, FotaTypes, NextStale
    <3>2. c \in FwCopyType
      BY <1>0 DEF FotaTypes
    <3>3. /\ fw_obj'[h].id = c.id /\ fw_obj'[h].row.result = "UPDATE_FAILED"
          /\ fw_obj'[h].row.state = "IDLE" /\ (Ordered(fw_obj'[h].row) <=> Ordered(c.row))
      BY <3>1, <3>2, FinishedAsRead
    <3>4. \A d \in todo[h] : AsRead(d) /\ AsRead(d)'
      BY <1>0, <3>1 DEF HolderOK, AsRead
    <3>5. AsRead(fw_obj[h])'
      BY <3>1, <3>3, <3>4 DEF AsRead, Ordered
    <3> QED BY <3>1, <3>3, <3>4, <3>5 DEF HolderOK, Aborting, Result
  <2> QED BY <1>2, <1>6, <2>1 DEF NextStale, HPC
<1>7. CASE Get(h)
  <2>1. UNCHANGED fw /\ hpc[h] = "get"
    BY <1>7 DEF Get
  <2>2. CASE GotResult(h) /\ UNCHANGED <<dedup, todo>>
    <3>1. PICK u \in Active, r \in Result : Hold(h, Finished(FwCopy(u, fw[u]), r)) /\ Goto(h, "exec?")
      BY <2>2 DEF GotResult
    <3>2. FwCopy(u, fw[u]) \in FwCopyType /\ FwCopy(u, fw[u]).id = u /\ FwCopy(u, fw[u]).row = fw[u]
      BY <1>0, RowFacts DEF Active, FotaTypes, FwCopy
    <3>3. hpc'[h] = "exec?" /\ fw_obj'[h] = Finished(FwCopy(u, fw[u]), r) /\ todo'[h] = todo[h]
      BY <1>0, <2>2, <3>1 DEF Goto, Hold, HandlerSide, FotaTypes
    <3>4. /\ fw_obj'[h].id = u /\ fw_obj'[h].row.result = r /\ fw_obj'[h].row.state = "IDLE"
          /\ (Ordered(fw_obj'[h].row) <=> Ordered(fw[u]))
      BY <3>2, <3>3, FinishedAsRead
    <3>5. AsRead(fw_obj[h])' /\ \A c \in todo'[h] : AsRead(c)'
      BY <1>0, <2>1, <3>3, <3>4 DEF AsRead, HolderOK, Ordered
    <3> QED BY <3>3, <3>4, <3>5 DEF HolderOK, Aborting
  <2>3. CASE GotState(h) /\ UNCHANGED <<dedup, todo>>
    <3>1. PICK u \in Active, s \in State, l \in {"create", "save"} :
              /\ (s = "DOWNLOADED" <=> l = "create") /\ Goto(h, l)
              /\ Hold(h, FwCopy(u, [fw[u] EXCEPT !.state = s]))
      BY <2>3 DEF GotState
    <3>2. u \in Update /\ fw[u] \in FwRowType /\ fw[u].result = "DEFAULT"
      BY <1>0 DEF Active, FotaTypes
    <3>3. /\ hpc'[h] = l /\ todo'[h] = todo[h]
          /\ fw_obj'[h] = FwCopy(u, [fw[u] EXCEPT !.state = s])
      BY <1>0, <2>3, <3>1 DEF Goto, Hold, HandlerSide, FotaTypes
    <3>4. /\ fw_obj'[h].id = u /\ fw_obj'[h].row.result = "DEFAULT" /\ fw_obj'[h].row.state = s
          /\ (Ordered(fw_obj'[h].row) <=> Ordered(fw[u]))
      BY <3>2, <3>3 DEF FwCopy, FwRowType, Ordered
    <3>5. AsRead(fw_obj[h])' /\ \A c \in todo'[h] : AsRead(c)'
      BY <1>0, <2>1, <3>3, <3>4 DEF AsRead, HolderOK, Ordered
    <3> QED BY <3>1, <3>3, <3>4, <3>5 DEF HolderOK, Aborting, Result
  <2> QED BY <1>0, <1>1, <1>7, <2>2, <2>3, GetCases
<1>8. ASSUME NEW o \in Op, CreateExecute(h, o) PROVE HolderOK(h)'
  <2> DEFINE c == fw_obj[h]
  <2>1. /\ hpc[h] = "create" /\ hpc'[h] = "delay" /\ UNCHANGED <<fw, todo>>
        /\ fw_obj'[h] = FwCopy(c.id, [c.row EXCEPT !.execute_operation = o])
    BY <1>0, <1>8 DEF CreateExecute, Goto, Hold, HandlerSide, FotaTypes
  <2>2. c.row \in FwRowType /\ o # NoOp
    BY <1>0, OperationsAssumption DEF FotaTypes, FwCopyType
  <2>3. /\ fw_obj'[h].row.execute_operation = o /\ fw_obj'[h].row.state = c.row.state
        /\ fw_obj'[h].row.result = c.row.result
    BY <2>1, <2>2 DEF FwCopy, FwRowType
  <2> QED BY <1>0, <2>1, <2>2, <2>3 DEF HolderOK, AsRead, Ordered, Aborting, Result
<1>9. CASE TriggerExecute(h)
  BY <1>2, <1>9 DEF TriggerExecute, localVars, HPC
<1>10. CASE HandlerFails(h) BY <1>1, <1>10 DEF HandlerFails
<1>11. CASE AbortExecute(h)
  BY <1>2, <1>11 DEF AbortExecute, AbortRead, AbortSave, Aborting, HPC
<1>12. CASE AbortSendUri(h)
  BY <1>2, <1>12 DEF AbortSendUri, AbortRead, AbortSave, Aborting, HPC
<1>13. CASE SaveUpdate(h)
  <2>1. CASE dedup[h] /\ Goto(h, "next") /\ UNCHANGED localVars
    <3>1. /\ hpc[h] = "save" /\ hpc'[h] = "next" /\ UNCHANGED todo
          /\ fw' = [fw EXCEPT ![fw_obj[h].id] = fw_obj[h].row]
      BY <1>0, <1>13, <2>1 DEF SaveUpdate, Goto, HandlerSide, localVars
    <3>2. fw_obj[h].id \notin Ids(h)
      BY <2>1, <3>1 DEF SInv, HandlerOK, Repairing
    <3>3. \A c \in todo[h] : c.id \in Update /\ c.id # fw_obj[h].id
      BY <1>0, <3>2 DEF Ids, HandlerSide
    <3>4. \A c \in todo[h] : fw'[c.id] = fw[c.id]
      BY <1>0, <3>1, <3>3 DEF FotaTypes
    <3> QED BY <1>0, <3>1, <3>4 DEF HolderOK, AsRead, Ordered, Aborting
  <2> QED BY <1>1, <1>13, <2>1 DEF SaveUpdate
<1> QED BY <1>3, <1>4, <1>5, <1>6, <1>7, <1>8, <1>9, <1>10, <1>11, <1>12, <1>13 DEF HandlerStep

(* A table whose rows were written at u by r *)
LEMMA Written ==
    ASSUME FotaTypes, NEW u \in Update, NEW r, fw' = [fw EXCEPT ![u] = r]
    PROVE  fw'[u] = r /\ \A w \in Update \ {u} : fw'[w] = fw[w]
BY DEF FotaTypes

LEMMA LNextPreserves ==
    ASSUME Serial
    PROVE  TInv /\ SInv /\ LInv /\ [FNext]_fvars => LInv'
<1> SUFFICES ASSUME TInv, SInv, LInv, [FNext]_fvars PROVE LInv'
  OBVIOUS
<1>0. FotaTypes /\ HandlerSide /\ TaskSide
  BY DEF TInv, FIInv
<1>1. ASSUME NEW h \in Handler, HandlerStep(h) PROVE LInv'
  <2>1. \A g \in Handler : HolderOK(g)'
    <3>1. \A g \in Handler \ {h} : hpc[g] = "idle" /\ hpc'[g] = "idle" /\ todo'[g] = todo[g]
      BY <1>1, HandlerFrame DEF SInv, OneAtATime
    <3> QED BY <1>1, <3>1, HolderStepOK DEF HolderOK, LInv
  <2>2. \A t \in Task : pc'[t] = "idle"
    BY <1>1, HandlerFrame DEF SInv, OneAtATime
  <2>3. \A u \in Update : fw'[u].result = "absent" => fw'[u].state = "IDLE" /\ ~Ordered(fw'[u])
    <3>1. SaveUpdate(h) \/ UNCHANGED fw
      BY <1>1 DEF HandlerStep, CountActive, Latest, Others, NextStale, Get, CreateExecute, TriggerExecute,
              HandlerFails, AbortExecute, AbortSendUri, AbortRead, AbortSave
    <3>2. CASE SaveUpdate(h)
      <4>1. /\ fw_obj[h].id \in Update /\ fw_obj[h].row.result # "absent"
            /\ fw' = [fw EXCEPT ![fw_obj[h].id] = fw_obj[h].row]
        BY <1>0, <3>2 DEF SaveUpdate, LInv, HolderOK, HandlerSide, Result
      <4> QED BY <1>0, <4>1, Written DEF LInv
    <3> QED BY <3>1, <3>2 DEF LInv
  <2> QED BY <2>1, <2>2, <2>3 DEF LInv
<1>2. ASSUME NEW h \in Handler, NEW m \in Report, Receive(h, m) PROVE LInv'
  <2>1. Quiet /\ UNCHANGED <<fw, pc, todo>> /\ hpc' = [hpc EXCEPT ![h] = "count"]
    BY <1>2 DEF Receive, vars, taskVars, Goto
  <2>2. \A g \in Handler \ {h} : hpc'[g] = "idle"
    BY <1>0, <2>1 DEF Quiet, HandlerSide
  <2>3. hpc'[h] = "count" /\ \A g \in Handler : todo[g] = {}
    BY <1>0, <2>1 DEF HandlerSide, LInv, HolderOK, Quiet
  <2>4. \A g \in Handler : HolderOK(g)'
    BY <2>1, <2>2, <2>3 DEF HolderOK, Aborting
  <2>5. \A t \in Task : pc'[t] = "idle"
    BY <2>1 DEF Quiet
  <2> QED BY <2>1, <2>4, <2>5 DEF LInv
<1>3. ASSUME \A h \in Handler : hpc[h] = "idle", UNCHANGED handlerVars,
             \A t \in Task : pc'[t] = "propagating" => AsRead(fw_update[t])',
             \A u \in Update : fw'[u].result = "absent" => fw'[u].state = "IDLE" /\ ~Ordered(fw'[u])
      PROVE  LInv'
  <2>1. \A h \in Handler : hpc'[h] = "idle" /\ todo'[h] = {}
    BY <1>3 DEF handlerVars, localVars, LInv, HolderOK
  <2> QED BY <1>3, <2>1 DEF LInv, HolderOK
<1>4. ASSUME NEW t \in Task, FTaskStep(t) PROVE LInv'
  <2>1. (\A h \in Handler : hpc[h] = "idle") /\ \A s \in Task \ {t} : pc[s] = "idle"
    <3>1. CASE pc[t] = "idle"
      <4>1. Quiet
        BY <1>4, <3>1 DEF FTaskStep, PropagateRead, PropagateTo, PropagateSave, TaskFails
      <4> QED BY <4>1 DEF Quiet
    <3>2. CASE pc[t] # "idle"
      BY <3>2 DEF SInv, OneAtATime
    <3> QED BY <3>1, <3>2
  <2>2. UNCHANGED handlerVars
    BY <1>4 DEF FTaskStep, PropagateRead, PropagateTo, PropagateSave, fotaVars
  <2>3. ASSUME NEW l, pc' = [pc EXCEPT ![t] = l], l = "propagating" => AsRead(fw_update[t])',
               \A u \in Update : fw'[u].result = "absent" => fw'[u].state = "IDLE" /\ ~Ordered(fw'[u])
        PROVE  LInv'
    <3>1. \A s \in Task : pc'[s] = IF s = t THEN l ELSE "idle"
      BY <1>0, <2>1, <2>3 DEF TaskSide, TypeOK
    <3>2. \A s \in Task : pc'[s] = "propagating" => AsRead(fw_update[s])'
      BY <2>3, <3>1
    <3> QED BY <1>3, <2>1, <2>2, <2>3, <3>2
  <2>4. CASE TaskStep(t) /\ UNCHANGED fotaVars
    <3>1. UNCHANGED <<fw, fw_update>> /\ UNCHANGED handlerVars
      BY <2>4 DEF fotaVars
    <3>2. CASE UNCHANGED pc
      <4>1. \A s \in Task : pc'[s] = "propagating" => AsRead(fw_update[s])'
        BY <3>1, <3>2 DEF LInv, AsRead
      <4> QED BY <1>3, <2>1, <3>1, <4>1 DEF LInv
    <3>3. CASE ~UNCHANGED pc
      <4>1. ASSUME NEW l, pc' = [pc EXCEPT ![t] = l], l # "propagating" PROVE LInv'
        BY <2>3, <3>1, <4>1 DEF LInv
      <4> QED BY <2>4, <3>3, <4>1 DEF TaskStep, Load, Mark, Answer, Save, Finish, taskVars
    <3> QED BY <3>2, <3>3
  <2>5. CASE PropagateRead(t)
    <3>1. UNCHANGED fw
      BY <2>5 DEF PropagateRead, PropagateTo
    <3>2. CASE Finish(t)
      BY <2>3, <3>1, <3>2 DEF Finish, LInv
    <3>3. ASSUME NEW u \in Update, pc' = [pc EXCEPT ![t] = "propagating"],
                 fw_update' = [fw_update EXCEPT ![t] = Finished(FwCopy(u, fw[u]), "UPDATE_FAILED")]
          PROVE  LInv'
      <4>1. FwCopy(u, fw[u]) \in FwCopyType /\ FwCopy(u, fw[u]).id = u /\ FwCopy(u, fw[u]).row = fw[u]
        BY <1>0, RowFacts DEF FotaTypes, FwCopy
      <4>2. fw_update'[t] = Finished(FwCopy(u, fw[u]), "UPDATE_FAILED")
        BY <1>0, <3>3 DEF FotaTypes
      <4>3. fw_update'[t].id = u /\ (Ordered(fw_update'[t].row) <=> Ordered(fw[u]))
        BY <4>1, <4>2, FinishedAsRead
      <4>4. AsRead(fw_update[t])'
        BY <3>1, <4>3 DEF AsRead, Ordered
      <4> QED BY <2>3, <3>1, <3>3, <4>4 DEF LInv
    <3> QED BY <2>5, <3>2, <3>3 DEF PropagateRead, PropagateTo, Owners
  <2>6. CASE PropagateSave(t)
    <3>1. /\ fw_update[t].id \in Update /\ fw_update[t].row.result = "UPDATE_FAILED"
          /\ fw' = [fw EXCEPT ![fw_update[t].id] = fw_update[t].row] /\ Finish(t)
      BY <1>0, <2>6 DEF PropagateSave, TaskSide, SInv, TaskOK
    <3>2. \A u \in Update : fw'[u].result = "absent" => fw'[u].state = "IDLE" /\ ~Ordered(fw'[u])
      BY <1>0, <3>1, Written DEF LInv
    <3> QED BY <2>3, <3>1, <3>2 DEF Finish
  <2>7. CASE TaskFails(t) /\ UNCHANGED fw
    BY <2>3, <2>7 DEF TaskFails, Finish, LInv
  <2> QED BY <1>4, <2>4, <2>5, <2>6, <2>7 DEF FTaskStep
<1>5. CASE UserStep
  <2>1. Quiet /\ UNCHANGED <<handlerVars, pc>>
    BY <1>5 DEF UserStep, StartUpdate, AdminChangeUpdate, AdminDeleteUpdate, vars, taskVars
  <2>2. \A u \in Update : fw'[u].result = "absent" => fw'[u].state = "IDLE" /\ ~Ordered(fw'[u])
    <3>1. ASSUME NEW u \in Update, NEW r, fw' = [fw EXCEPT ![u] = r], r.result # "absent"
          PROVE  \A w \in Update : fw'[w].result = "absent" => fw'[w].state = "IDLE" /\ ~Ordered(fw'[w])
      BY <1>0, <3>1, Written DEF LInv
    <3>2. ASSUME NEW u \in Update, NEW o \in Op, NEW f \in Firmware, NEW trigger \in BOOLEAN,
                 StartUpdate(u, o, f, trigger)
          PROVE  \E r : fw' = [fw EXCEPT ![u] = r] /\ r.result # "absent"
      <4>1. fw' = [fw EXCEPT ![u] = FwRow("IDLE", "DEFAULT", f, o, NoOp)]
        BY <3>2 DEF StartUpdate
      <4>2. FwRow("IDLE", "DEFAULT", f, o, NoOp).result # "absent"
        BY DEF FwRow
      <4> QED BY <4>1, <4>2
    <3>3. ASSUME NEW u \in Update, NEW f \in Firmware, AdminChangeUpdate(u, f)
          PROVE  \E r : fw' = [fw EXCEPT ![u] = r] /\ r.result # "absent"
      <4>1. fw[u] \in FwRowType /\ fw[u].result # "absent" /\ fw' = [fw EXCEPT ![u] = [fw[u] EXCEPT !.firmware = f]]
        BY <1>0, <3>3 DEF AdminChangeUpdate, FotaTypes, Result
      <4>2. [fw[u] EXCEPT !.firmware = f].result # "absent"
        BY <4>1 DEF FwRowType
      <4> QED BY <4>1, <4>2
    <3>4. ASSUME NEW u \in Update, AdminDeleteUpdate(u)
          PROVE  \E r : fw' = [fw EXCEPT ![u] = r] /\ r.result # "absent"
      <4>1. fw' = [fw EXCEPT ![u] = NoRow("deleted")]
        BY <3>4 DEF AdminDeleteUpdate
      <4>2. NoRow("deleted").result # "absent"
        BY DEF NoRow, FwRow
      <4> QED BY <4>1, <4>2
    <3> QED BY <1>5, <3>1, <3>2, <3>3, <3>4 DEF UserStep
  <2>3. \A t \in Task : pc'[t] = "idle"
    BY <2>1 DEF Quiet
  <2> QED BY <1>3, <2>1, <2>2, <2>3 DEF Quiet
<1>6. CASE UNCHANGED <<fw, handlerVars, fw_update, pc>>
  <2>1. UNCHANGED <<fw, hpc, fw_obj, todo, fw_update, pc>>
    BY <1>6 DEF handlerVars, localVars
  <2>2. \A h \in Handler : HolderOK(h)'
    BY <2>1 DEF LInv, HolderOK, AsRead, Ordered
  <2>3. \A t \in Task : pc'[t] = "propagating" => AsRead(fw_update[t])'
    BY <2>1 DEF LInv, AsRead
  <2> QED BY <2>1, <2>2, <2>3 DEF LInv
<1>7. CASE BackgroundStep
  BY <1>6, <1>7 DEF BackgroundStep, Trigger, ProcessPending, BrokerLoss, fotaVars, taskVars
<1>8. CASE FWorkerCrash
  <2>1. (\A t \in Task : pc'[t] = "idle") /\ \E t \in Task : pc[t] # "idle"
    BY <1>8 DEF FWorkerCrash, WorkerCrash
  <2>2. (\A h \in Handler : hpc[h] = "idle") /\ UNCHANGED <<fw, handlerVars>>
    BY <1>8, <2>1 DEF SInv, OneAtATime, FWorkerCrash
  <2> QED BY <1>3, <2>1, <2>2 DEF LInv
<1>9. CASE UNCHANGED fvars
  BY <1>6, <1>9 DEF fvars, fotaVars, vars, taskVars
<1> QED BY <1>1, <1>2, <1>4, <1>5, <1>7, <1>8, <1>9 DEF FNext

LEMMA InitLInv == FInit => LInv
<1> SUFFICES ASSUME FInit PROVE LInv
  OBVIOUS
<1>1. \A h \in Handler : HolderOK(h)
  BY DEF FInit, HolderOK
<1>2. NoFw.state = "IDLE" /\ ~Ordered(NoFw)
  BY DEF NoFw, NoRow, FwRow, Ordered
<1> QED BY <1>1, <1>2 DEF FInit, Init, LInv

THEOREM LInvariance ==
    ASSUME Serial
    PROVE  FSpec => []LInv
<1>1. FInit => LInv BY InitLInv
<1>2. TInv /\ SInv /\ LInv /\ [FNext]_fvars => LInv' BY LNextPreserves
<1> QED BY <1>1, <1>2, TInvariance, SInvariance, PTL DEF FSpec

(* A save of the row of an active update is a step of its life. *)
LEMMA SaveIsLife ==
    ASSUME FotaTypes, NEW u \in Active, NEW r \in FwRowType, fw' = [fw EXCEPT ![u] = r],
           Coherent(r), r.result \in Result, r.result # "UPDATE_FAILED" => Active = {u},
           IF r.state = "DOWNLOADED" THEN Ordered(r) ELSE Ordered(r) <=> Ordered(fw[u])
    PROVE  Life!Next
<1> DEFINE stage == [w \in Update |-> fw[w].state]
           result == [w \in Update |-> fw[w].result]
           ordered == {w \in Update : Ordered(fw[w])}
<1>1. u \in Update /\ fw'[u] = r /\ \A w \in Update \ {u} : fw'[w] = fw[w]
  BY Written DEF Active
<1>2. stage' = [stage EXCEPT ![u] = r.state] /\ result' = [result EXCEPT ![u] = r.result]
  BY ONLY <1>1
<1>3. Life!Active = Active
  BY DEF Life!Active, Active
<1>4. r.state \in State
  BY DEF FwRowType
<1>5. CASE r.result = "DEFAULT"
  <2>1. result' = result
    BY <1>1, <1>5 DEF Active
  <2>2. ordered' = IF r.state = "DOWNLOADED" THEN ordered \cup {u} ELSE ordered
    BY <1>1 DEF Ordered
  <2>3. Active = {u}
    BY <1>5
  <2>4. Life!Progress(u, r.state)
    BY <1>2, <1>3, <2>1, <2>2, <2>3 DEF Life!Progress, Ordered
  <2> QED BY <1>1, <1>4, <2>4 DEF Life!Next
<1>6. CASE r.result # "DEFAULT"
  <2>1. r.state = "IDLE"
    BY <1>6 DEF Coherent
  <2>2. ordered' = ordered
    BY <1>1, <2>1 DEF Ordered
  <2>3. Life!End(u, r.result)
    BY <1>2, <1>3, <2>1, <2>2 DEF Life!End, Ordered
  <2> QED BY <1>1, <1>6, <2>3 DEF Life!Next
<1> QED BY <1>5, <1>6

(* Each step of the table is one of the abstract life, or none: the handler's *)
(* save is the report, the task's the failure of a transmission.             *)
LEMMA LifeStep ==
    ASSUME TInv, SInv, LInv, [FNext]_fvars
    PROVE  [Life!Next]_(Life!vars)
<1>0. FotaTypes /\ CopiesCoherent
  BY DEF TInv, FIInv
<1> DEFINE stage == [w \in Update |-> fw[w].state]
           result == [w \in Update |-> fw[w].result]
           ordered == {w \in Update : Ordered(fw[w])}
<1>1. CASE UNCHANGED fw
  BY <1>1 DEF Life!vars
<1>2. ASSUME NEW h \in Handler, SaveUpdate(h) PROVE Life!Next
  <2> DEFINE c == fw_obj[h]
  <2>1. hpc[h] = "save" /\ fw' = [fw EXCEPT ![c.id] = c.row] /\ c \in FwCopyType
    BY <1>0, <1>2 DEF SaveUpdate, FotaTypes
  <2>2. c.id \in Active /\ (~dedup[h] => Active = {c.id})
    BY <2>1, SavesActive
  <2>3. Coherent(c.row) /\ c.row \in FwRowType
    BY <1>0, <2>1 DEF CopiesCoherent, FwCopyType
  <2>4. /\ c.row.result \in Result
        /\ IF c.row.state = "DOWNLOADED" THEN Ordered(c.row) ELSE Ordered(c.row) <=> Ordered(fw[c.id])
    BY <2>1 DEF LInv, HolderOK, AsRead
  <2>5. dedup[h] => c.row.result = "UPDATE_FAILED"
    BY <2>1 DEF SInv, HandlerOK, Repairing
  <2> HIDE DEF c
  <2> QED BY <1>0, <2>1, <2>2, <2>3, <2>4, <2>5, SaveIsLife
<1>3. ASSUME NEW t \in Task, PropagateSave(t) PROVE Life!Next
  <2> DEFINE c == fw_update[t]
  <2>1. /\ pc[t] = "propagating" /\ fw' = [fw EXCEPT ![c.id] = c.row] /\ c \in FwCopyType
        /\ c.row.result = "UPDATE_FAILED" /\ c.id \in Active
    BY <1>0, <1>3 DEF PropagateSave, FotaTypes, SInv, TaskOK, Active, TInv, TaskSide
  <2>2. Coherent(c.row) /\ c.row \in FwRowType /\ (Ordered(c.row) <=> Ordered(fw[c.id]))
    BY <1>0, <2>1 DEF CopiesCoherent, FwCopyType, LInv, AsRead
  <2>3. c.row.state = "IDLE" /\ c.row.result \in Result
    BY <2>1, <2>2 DEF Coherent, Result
  <2> HIDE DEF c
  <2> QED BY <1>0, <2>1, <2>2, <2>3, SaveIsLife
<1>4. ASSUME NEW u \in Update, NEW o \in Op, NEW f \in Firmware, NEW trigger \in BOOLEAN,
             StartUpdate(u, o, f, trigger)
      PROVE  Life!Next
  <2> DEFINE r == FwRow("IDLE", "DEFAULT", f, o, NoOp)
  <2>1. /\ fw[u].result = "absent" /\ fw' = [fw EXCEPT ![u] = r]
        /\ \A w \in Update : w < u => fw[w].result # "absent"
    BY <1>4 DEF StartUpdate
  <2>2. r.state = "IDLE" /\ r.result = "DEFAULT" /\ ~Ordered(r)
    BY DEF FwRow, Ordered
  <2>3. fw[u].state = "IDLE" /\ ~Ordered(fw[u])
    BY <2>1 DEF LInv
  <2>4. fw'[u] = r /\ \A w \in Update \ {u} : fw'[w] = fw[w]
    BY <1>0, <2>1, Written
  <2> HIDE DEF r
  <2>5. stage' = stage /\ ordered' = ordered /\ result' = [result EXCEPT ![u] = "DEFAULT"]
    BY <2>2, <2>3, <2>4 DEF Ordered
  <2>6. Life!Begin(u)
    BY <2>1, <2>5 DEF Life!Begin, Ordered
  <2> QED BY <2>6 DEF Life!Next
<1>5. ASSUME NEW u \in Update, NEW f \in Firmware, AdminChangeUpdate(u, f)
      PROVE  UNCHANGED Life!vars
  <2> DEFINE r == [fw[u] EXCEPT !.firmware = f]
  <2>1. fw[u] \in FwRowType /\ fw' = [fw EXCEPT ![u] = r]
    BY <1>0, <1>5 DEF AdminChangeUpdate, FotaTypes
  <2>2. r.state = fw[u].state /\ r.result = fw[u].result /\ (Ordered(r) <=> Ordered(fw[u]))
    BY <2>1 DEF FwRowType, Ordered
  <2>3. fw'[u] = r /\ \A w \in Update \ {u} : fw'[w] = fw[w]
    BY <1>0, <2>1, Written
  <2> HIDE DEF r
  <2>4. stage' = stage /\ ordered' = ordered /\ result' = result
    BY <2>2, <2>3 DEF Ordered
  <2> QED BY <2>4 DEF Life!vars, Ordered
<1>6. ASSUME NEW u \in Update, AdminDeleteUpdate(u) PROVE Life!Next
  <2> DEFINE r == NoRow("deleted")
  <2>1. fw[u].result \in Result /\ fw' = [fw EXCEPT ![u] = r]
    BY <1>6 DEF AdminDeleteUpdate
  <2>2. r.state = "IDLE" /\ r.result = "deleted" /\ ~Ordered(r)
    BY DEF NoRow, FwRow, Ordered
  <2>3. fw'[u] = r /\ \A w \in Update \ {u} : fw'[w] = fw[w]
    BY <1>0, <2>1, Written
  <2> HIDE DEF r
  <2>4. /\ stage' = [stage EXCEPT ![u] = "IDLE"] /\ ordered' = ordered \ {u}
        /\ result' = [result EXCEPT ![u] = "deleted"]
    BY <2>2, <2>3 DEF Ordered
  <2>5. Life!Delete(u)
    BY <2>1, <2>4 DEF Life!Delete, Ordered
  <2> QED BY <2>5 DEF Life!Next
<1> QED BY <1>1, <1>2, <1>3, <1>4, <1>5, <1>6, WhoWrites DEF UserStep

(* Requests and tasks that do not overlap implement the life cycle: however  *)
(* many statements, copies and saves of whole rows a report takes, the table *)
(* shows it as one step, which the life of the update allows.                *)
THEOREM LifeCycleImplemented ==
    ASSUME Serial
    PROVE  FSpec => LifeCycle
<1>1. FInit => Life!Init
  <2>1. NoFw.state = "IDLE" /\ NoFw.result = "absent" /\ NoFw.execute_operation = NoOp
    BY DEF NoFw, NoRow, FwRow
  <2> QED BY <2>1 DEF FInit, Life!Init
<1>2. TInv /\ SInv /\ LInv /\ [FNext]_fvars => [Life!Next]_(Life!vars)
  BY LifeStep
<1> QED BY <1>1, <1>2, TInvariance, SInvariance, LInvariance, PTL DEF FSpec, LifeCycle, Life!Spec
=============================================================================
