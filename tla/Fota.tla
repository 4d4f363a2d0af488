-------------------------------- MODULE Fota --------------------------------
(***************************************************************************)
(* Firmware updates of one endpoint: the FirmwareUpdate table, the ingest   *)
(* handlers that run handle_fota for what the device reports about objects  *)
(* 3 and 5, and the Operations module underneath, which sends the Package   *)
(* URI and the Update command of each update.                               *)
(*                                                                          *)
(* A handler is a web request (two uvicorn processes serve them) or the end *)
(* of a read_device_object task; both run the same code and hold ORM        *)
(* objects read earlier while others write.  The device is not modelled: a  *)
(* report may carry any value at any time, since the gateway's retries      *)
(* delay, repeat and reorder them.                                          *)
(***************************************************************************)
EXTENDS Operations, FiniteSets

CONSTANTS
    Handler,          \* ingest requests being handled at a time
    Firmware,         \* firmware images
    ReportedState,    \* values of resource 5/0/3 the device reports
    ReportedResult,   \* values of resource 5/0/5 the device reports
    Serial,           \* TRUE: requests and tasks run one after the other
    MaxUpdates,       \* bound: FirmwareUpdate rows
    MaxReports        \* bound: reports of the device

State == {"IDLE", "DOWNLOADING", "DOWNLOADED", "UPDATING"}

(* RESULT_DEFAULT (0), SUCCESS (1), UPDATE_FAILED (8), and the other codes. *)
Result == {"DEFAULT", "SUCCESS", "UPDATE_FAILED", "OTHER"}

ASSUME FotaAssumption ==
    /\ ReportedState \subseteq State
    /\ ReportedResult \subseteq Result
    /\ Serial \in BOOLEAN
    /\ MaxUpdates \in Nat
    /\ MaxReports \in Nat

(* Primary keys in the order of creation. *)
Update == 1..MaxUpdates

(* A version string: the image it names and how its parts are joined. *)
Version == Firmware \X {"-", "_"}

(* Stored with hyphens, reported by Zephyr with underscores. *)
NormalizeVersion(v) == v[1]

NoMsg == [kind |-> "none", value |-> "none"]

(* The resources that reach handle_fota: 3/0/3, 5/0/3, 5/0/5, and any other *)
(* resource of object 5.                                                    *)
Report ==
    [kind : {"version"}, value : Version]
        \cup [kind : {"state"}, value : ReportedState]
        \cup [kind : {"result"}, value : ReportedResult]
        \cup [kind : {"other"}, value : {"none"}]

VARIABLES
    fw,        \* the table FirmwareUpdate
    hpc,       \* where each handler is
    msg,       \* the report it handles
    fw_obj,    \* the FirmwareUpdate object it holds
    todo,      \* stale_fw objects still to be failed
    dedup,     \* fw_obj is one of those
    hop,       \* the EndpointOperation object it holds
    fw_update, \* the FirmwareUpdate object a send_operation task holds
    reports    \* history: reports received

localVars == <<msg, fw_obj, todo, dedup, hop>>
handlerVars == <<hpc, localVars>>
fotaVars == <<fw, handlerVars, fw_update, reports>>
fvars == <<vars, fotaVars>>

FwRow(s, r, f, uri, exec) ==
    [state |-> s, result |-> r, firmware |-> f, send_uri_operation |-> uri,
     execute_operation |-> exec]

(* A row that does not exist yet, or that is gone. *)
NoRow(r) == FwRow("IDLE", r, "none", NoOp, NoOp)

NoFw == NoRow("absent")

(* expected_version == reported_version *)
Installed(r, v) == NormalizeVersion(<<r.firmware, "-">>) = NormalizeVersion(v)

(* A FirmwareUpdate object in memory: primary key 0 stands for none. *)
FwCopy(u, r) == [id |-> u, row |-> r]

NoFwCopy == FwCopy(0, NoFw)

(* result=RESULT_DEFAULT *)
Active == {u \in Update : fw[u].result = "DEFAULT"}

FInit ==
    /\ Init
    /\ fw = [u \in Update |-> NoFw]
    /\ hpc = [h \in Handler |-> "idle"]
    /\ msg = [h \in Handler |-> NoMsg]
    /\ fw_obj = [h \in Handler |-> NoFwCopy]
    /\ todo = [h \in Handler |-> {}]
    /\ dedup = [h \in Handler |-> FALSE]
    /\ hop = [h \in Handler |-> NoCopy]
    /\ fw_update = [t \in Task |-> NoFwCopy]
    /\ reports = 0

Quiet == (\A h \in Handler : hpc[h] = "idle") /\ (\A t \in Task : pc[t] = "idle")

-----------------------------------------------------------------------------
(* Users start updates. *)

(* FirmwareUpdate.save() of a new row, in one transaction with its Package  *)
(* URI operation.  clean() raises for a second active update, but inside a  *)
(* try whose except clause drops the exception, so nothing is refused.  The *)
(* firmware page triggers the worker after the commit and the API does not; *)
(* the admin triggers it before the commit, which is Trigger and then this. *)
StartUpdate(u, o, f, trigger) ==
    /\ Serial => Quiet
    /\ fw[u].result = "absent"
    /\ \A w \in Update : w < u => fw[w].result # "absent"
    /\ Insert(o, "QUEUED")
    /\ fw' = [fw EXCEPT ![u] = FwRow("IDLE", "DEFAULT", f, o, NoOp)]
    /\ IF trigger THEN NewTrigger ELSE UNCHANGED brokerVars
    /\ UNCHANGED <<registered, taskVars, histVars, handlerVars, fw_update, reports>>

(* The admin changes the firmware of an update; all other columns are       *)
(* read-only, and read in the transaction that writes them back.            *)
AdminChangeUpdate(u, f) ==
    /\ Serial => Quiet
    /\ fw[u].result \in Result
    /\ fw' = [fw EXCEPT ![u].firmware = f]
    /\ NewTrigger
    /\ UNCHANGED <<opVars, registered, taskVars, histVars, handlerVars, fw_update, reports>>

(* The admin deletes an update; its operations stay. *)
AdminDeleteUpdate(u) ==
    /\ Serial => Quiet
    /\ fw[u].result \in Result
    /\ fw' = [fw EXCEPT ![u] = NoRow("deleted")]
    /\ UNCHANGED <<vars, handlerVars, fw_update, reports>>

-----------------------------------------------------------------------------
(* handle_fota, statement by statement. *)

Goto(h, l) == hpc' = [hpc EXCEPT ![h] = l]

Hold(h, c) == fw_obj' = [fw_obj EXCEPT ![h] = c]

(* The handler ends, with a response or an exception. *)
Return(h) ==
    /\ Goto(h, "idle")
    /\ msg' = [msg EXCEPT ![h] = NoMsg]
    /\ Hold(h, NoFwCopy)
    /\ todo' = [todo EXCEPT ![h] = {}]
    /\ dedup' = [dedup EXCEPT ![h] = FALSE]
    /\ hop' = [hop EXCEPT ![h] = NoCopy]

Receive(h, m) ==
    /\ hpc[h] = "idle"
    /\ Serial => Quiet
    /\ reports < MaxReports
    /\ reports' = reports + 1
    /\ Goto(h, "count")
    /\ msg' = [msg EXCEPT ![h] = m]
    /\ UNCHANGED <<vars, fw, fw_obj, todo, dedup, hop, fw_update>>

(* fw_query.count().  Without an active update a version is a reboot like   *)
(* any other, and anything else a ValidationError.                          *)
CountActive(h) ==
    /\ hpc[h] = "count"
    /\ \/ Active = {} /\ Return(h)
       \/ /\ Cardinality(Active) = 1
          /\ Goto(h, "get")
          /\ UNCHANGED localVars
       \/ /\ Cardinality(Active) > 1
          /\ Goto(h, "latest")
          /\ UNCHANGED localVars
    /\ UNCHANGED <<vars, fw, fw_update, reports>>

(* Mutant of Latest: order_by("timestamp_created"). *)
LatestIsOldest(h) ==
    /\ hpc[h] = "latest"
    /\ \/ Active = {} /\ Return(h)
       \/ \E u \in Active :
             /\ \A w \in Active : u <= w
             /\ Goto(h, "others")
             /\ Hold(h, FwCopy(u, fw[u]))
             /\ UNCHANGED <<msg, todo, dedup, hop>>
    /\ UNCHANGED <<vars, fw, fw_update, reports>>

(* latest = fw_query.order_by("-timestamp_created").first() *)
Latest(h) ==
    /\ hpc[h] = "latest"
    /\ \/ Active = {} /\ Return(h)      \* latest is None: AttributeError
       \/ \E u \in Active :
             /\ \A w \in Active : w <= u
             /\ Goto(h, "others")
             /\ Hold(h, FwCopy(u, fw[u]))
             /\ UNCHANGED <<msg, todo, dedup, hop>>
    /\ UNCHANGED <<vars, fw, fw_update, reports>>

(* Mutant of Others: nothing is excluded. *)
OthersAll(h) ==
    /\ hpc[h] = "others"
    /\ todo' = [todo EXCEPT ![h] = {FwCopy(u, fw[u]) : u \in Active}]
    /\ Goto(h, "next")
    /\ UNCHANGED <<vars, fw, msg, fw_obj, dedup, hop, fw_update, reports>>

(* fw_query.exclude(pk=latest.pk) *)
Others(h) ==
    /\ hpc[h] = "others"
    /\ todo' = [todo EXCEPT ![h] = {FwCopy(u, fw[u]) : u \in Active \ {fw_obj[h].id}}]
    /\ Goto(h, "next")
    /\ UNCHANGED <<vars, fw, msg, fw_obj, dedup, hop, fw_update, reports>>

(* Mutants of Finished: the state is kept, or a new object is made of the   *)
(* columns.                                                                 *)
FinishedKeepsState(c, r) == FwCopy(c.id, [c.row EXCEPT !.result = r])

FinishedLosesKey(c, r) ==
    FwCopy(0, [c.row EXCEPT !.state = "IDLE", !.result = r])

(* The object c with a result and STATE_IDLE. *)
Finished(c, r) == FwCopy(c.id, [c.row EXCEPT !.state = "IDLE", !.result = r])

(* for stale_fw in ...: *)
NextStale(h) ==
    /\ hpc[h] = "next"
    /\ \/ /\ todo[h] = {}
          /\ Goto(h, "get")
          /\ dedup' = [dedup EXCEPT ![h] = FALSE]
          /\ UNCHANGED <<todo, fw_obj>>
       \/ \E c \in todo[h] :
             /\ \A d \in todo[h] : c.id <= d.id
             /\ todo' = [todo EXCEPT ![h] = todo[h] \ {c}]
             /\ Hold(h, Finished(c, "UPDATE_FAILED"))
             /\ dedup' = [dedup EXCEPT ![h] = TRUE]
             /\ Goto(h, "exec?")
    /\ UNCHANGED <<vars, fw, msg, hop, fw_update, reports>>

(* fw_obj = fw_query.get(), and what is done to the object in memory. *)
Get(h) ==
    LET m == msg[h] IN
    /\ hpc[h] = "get"
    /\ \/ Cardinality(Active) # 1 /\ Return(h)   \* DoesNotExist, MultipleObjectsReturned
       \/ \E u \in Active :
             LET c == FwCopy(u, fw[u]) IN
             /\ Active = {u}
             /\ \/ m.kind = "other" /\ Return(h)
                \/ m.kind = "version" /\ fw[u].state = "IDLE" /\ Return(h)
                \/ /\ m.kind = "version" /\ fw[u].state # "IDLE"
                   /\ Hold(h, Finished(c, IF Installed(fw[u], m.value)
                                          THEN "SUCCESS" ELSE "UPDATE_FAILED"))
                   /\ Goto(h, "exec?")
                   /\ UNCHANGED <<msg, todo, dedup, hop>>
                \/ /\ m.kind = "state"
                   /\ Hold(h, FwCopy(u, [fw[u] EXCEPT !.state = m.value]))
                   /\ Goto(h, IF m.value = "DOWNLOADED" THEN "create" ELSE "save")
                   /\ UNCHANGED <<msg, todo, dedup, hop>>
                \/ /\ m.kind = "result"
                   /\ Hold(h, Finished(c, m.value))
                   /\ Goto(h, "exec?")
                   /\ UNCHANGED <<msg, todo, dedup, hop>>
    /\ UNCHANGED <<vars, fw, fw_update, reports>>

(* Mutant of CreateExecute: an operation that is there already is linked. *)
CreateExecuteReuses(h, o) ==
    LET c == fw_obj[h] IN
    /\ hpc[h] = "create"
    /\ Visible(o)
    /\ Hold(h, FwCopy(c.id, [c.row EXCEPT !.execute_operation = o]))
    /\ Goto(h, "delay")
    /\ UNCHANGED <<vars, fw, msg, todo, dedup, hop, fw_update, reports>>

(* STATE_DOWNLOADED: the Update command is created and linked in memory ... *)
CreateExecute(h, o) ==
    LET c == fw_obj[h] IN
    /\ hpc[h] = "create"
    /\ Insert(o, "QUEUED")
    /\ Hold(h, FwCopy(c.id, [c.row EXCEPT !.execute_operation = o]))
    /\ Goto(h, "delay")
    /\ UNCHANGED <<registered, brokerVars, taskVars, histVars, fw, msg, todo, dedup,
                   hop, fw_update, reports>>

(* ... and the worker is triggered, before the link is in the table. *)
TriggerExecute(h) ==
    /\ hpc[h] = "delay"
    /\ Delay
    /\ Goto(h, "save")
    /\ UNCHANGED <<opVars, registered, taskVars, histVars, fw, localVars, fw_update,
                   reports>>

(* The request ends with an exception: the broker cannot be reached, or the *)
(* database stays locked.                                                   *)
HandlerFails(h) ==
    /\ hpc[h] # "idle"
    /\ crashes < MaxCrashes
    /\ crashes' = crashes + 1
    /\ Return(h)
    /\ UNCHANGED <<opVars, registered, brokerVars, taskVars, sends, applied, refused, fw,
                   fw_update, reports>>

(* The operation object after its status was set to FAILED. *)
Failed(o) == Copy(o, Row("FAILED", op[o].transmit_counter))

(* abort_pending_fota_comms: each linked operation is read, and failed if   *)
(* it is open; exec? and uri? read, exec! and uri! write.                   *)
AbortRead(h, here, o, abort, next) ==
    /\ hpc[h] = here
    /\ \/ /\ o \in Op /\ op[o].status \in {"QUEUED", "SENDING"}
          /\ hop' = [hop EXCEPT ![h] = Failed(o)]
          /\ Goto(h, abort)
       \/ /\ o \in Op => op[o].status \notin {"QUEUED", "SENDING"}
          /\ Goto(h, next)
          /\ UNCHANGED hop
    /\ UNCHANGED <<vars, fw, msg, fw_obj, todo, dedup, fw_update, reports>>

AbortSave(h, here, next) ==
    /\ hpc[h] = here
    /\ SaveRow(hop[h])
    /\ hop' = [hop EXCEPT ![h] = NoCopy]
    /\ Goto(h, next)
    /\ UNCHANGED <<posted, registered, brokerVars, taskVars, histVars, fw, msg, fw_obj,
                   todo, dedup, fw_update, reports>>

AbortExecute(h) ==
    \/ AbortRead(h, "exec?", fw_obj[h].row.execute_operation, "exec!", "uri?")
    \/ AbortSave(h, "exec!", "uri?")

AbortSendUri(h) ==
    \/ AbortRead(h, "uri?", fw_obj[h].row.send_uri_operation, "uri!", "save")
    \/ AbortSave(h, "uri!", "save")

(* fw_obj.save() or stale_fw.save(): all columns of the row, which is       *)
(* inserted again if it was deleted in between.                             *)
SaveUpdate(h) ==
    /\ hpc[h] = "save"
    /\ fw' = [fw EXCEPT ![fw_obj[h].id] = fw_obj[h].row]
    /\ \/ /\ dedup[h]
          /\ Goto(h, "next")
          /\ UNCHANGED localVars
       \/ ~dedup[h] /\ Return(h)
    /\ UNCHANGED <<vars, fw_update, reports>>

-----------------------------------------------------------------------------
(* _propagate_failure_to_firmware_update, called by a failed task. *)

(* The update an operation belongs to, as the query finds it. *)
Owners(o) ==
    {u \in Update : fw[u].result # "absent"
                      /\ o \in {fw[u].send_uri_operation, fw[u].execute_operation}}

(* The first update of own, if any, is failed unless its result is not in   *)
(* open; the task holds the object until it is saved.                       *)
PropagateTo(t, own, open) ==
    /\ pc[t] = "failed"
    /\ \/ own = {} /\ Finish(t) /\ UNCHANGED fw_update
       \/ \E u \in own :
             /\ \A w \in own : u <= w
             /\ \/ /\ fw[u].result \notin open
                   /\ Finish(t)
                   /\ UNCHANGED fw_update
                \/ /\ fw[u].result \in open
                   /\ fw_update' = [fw_update EXCEPT ![t] =
                                       Finished(FwCopy(u, fw[u]), "UPDATE_FAILED")]
                   /\ pc' = [pc EXCEPT ![t] = "propagating"]
                   /\ UNCHANGED e_ops
    /\ UNCHANGED <<opVars, registered, brokerVars, histVars, fw, handlerVars, reports>>

(* Mutants of PropagateRead: no query by execute_operation, and a finished  *)
(* update is failed as well.                                                *)
PropagateUriOnly(t) ==
    PropagateTo(t, {u \in Update : fw[u].send_uri_operation = e_ops[t].id}, {"DEFAULT"})

PropagateAlways(t) == PropagateTo(t, Owners(e_ops[t].id), Result)

PropagateRead(t) == PropagateTo(t, Owners(e_ops[t].id), {"DEFAULT"})

PropagateSave(t) ==
    /\ pc[t] = "propagating"
    /\ fw' = [fw EXCEPT ![fw_update[t].id] = fw_update[t].row]
    /\ fw_update' = [fw_update EXCEPT ![t] = NoFwCopy]
    /\ Finish(t)
    /\ UNCHANGED <<opVars, registered, brokerVars, histVars, handlerVars, reports>>

-----------------------------------------------------------------------------
(* The worker process dies; see Operations. *)
FWorkerCrash ==
    /\ WorkerCrash
    /\ fw_update' = [t \in Task |-> NoFwCopy]
    /\ UNCHANGED <<fw, handlerVars, reports>>

UserStep ==
    \E u \in Update :
        \/ \E o \in Op, f \in Firmware, trigger \in BOOLEAN : StartUpdate(u, o, f, trigger)
        \/ \E f \in Firmware : AdminChangeUpdate(u, f)
        \/ AdminDeleteUpdate(u)

HandlerStep(h) ==
    \/ CountActive(h)
    \/ Latest(h)
    \/ Others(h)
    \/ NextStale(h)
    \/ Get(h)
    \/ \E o \in Op : CreateExecute(h, o)
    \/ TriggerExecute(h)
    \/ HandlerFails(h)
    \/ AbortExecute(h)
    \/ AbortSendUri(h)
    \/ SaveUpdate(h)

FTaskStep(t) ==
    \/ /\ TaskStep(t)
       /\ Serial /\ pc[t] = "idle" => Quiet
       /\ UNCHANGED fotaVars
    \/ PropagateRead(t)
    \/ PropagateSave(t)
    \/ /\ TaskFails(t)
       /\ fw_update' = [fw_update EXCEPT ![t] = NoFwCopy]
       /\ UNCHANGED <<fw, handlerVars, reports>>

(* A registration event or a save in the admin asks for pending operations. *)
(* Endpoint.registered itself is read by no step of this module.            *)
Trigger == NewTrigger /\ UNCHANGED <<opVars, registered, taskVars, histVars>>

BackgroundStep == (Trigger \/ ProcessPending \/ BrokerLoss) /\ UNCHANGED fotaVars

FNext ==
    \/ UserStep
    \/ \E h \in Handler : HandlerStep(h) \/ \E m \in Report : Receive(h, m)
    \/ \E t \in Task : FTaskStep(t)
    \/ BackgroundStep
    \/ FWorkerCrash

FSpec == FInit /\ [][FNext]_fvars
-----------------------------------------------------------------------------
(* Properties *)

HPC == {"idle", "count", "latest", "others", "next", "get", "create", "delay", "exec?", "exec!",
        "uri?", "uri!", "save"}

FwRowType ==
    [state : State, result : Result \cup {"absent", "deleted"}, firmware : Firmware \cup {"none"},
     send_uri_operation : Op \cup {NoOp}, execute_operation : Op \cup {NoOp}]

FwCopyType == [id : Update \cup {0}, row : FwRowType]

(* Types: a handler that is about to save holds objects that exist. *)
FTypeOK ==
    /\ TypeOK
    /\ fw \in [Update -> FwRowType]
    /\ hpc \in [Handler -> HPC]
    /\ msg \in [Handler -> Report \cup {NoMsg}]
    /\ fw_obj \in [Handler -> FwCopyType]
    /\ todo \in [Handler -> SUBSET FwCopyType]
    /\ dedup \in [Handler -> BOOLEAN]
    /\ hop \in [Handler -> CopyType]
    /\ fw_update \in [Task -> FwCopyType]
    /\ \A h \in Handler :
          /\ hpc[h] \in {"exec?", "exec!", "uri?", "uri!", "create", "delay", "save"} =>
                fw_obj[h].id \in Update
          /\ hpc[h] \in {"exec!", "uri!"} => hop[h].id \in Op
    /\ \A t \in Task : pc[t] = "propagating" => fw_update[t].id \in Update

(* ota.rst: "Once the update is completed (failed or successful), the state *)
(* is set always set to STATE_IDLE" - for every interleaving of handlers    *)
(* and tasks that save whole rows from copies read earlier.                 *)
FinishedIsIdle ==
    \A u \in Update : fw[u].result \in Result \ {"DEFAULT"} => fw[u].state = "IDLE"

(* An operation belongs to at most one update, so the .first() of           *)
(* _propagate_failure_to_firmware_update never drops one.                   *)
OwnerUnique == \A o \in Op : \A u, w \in Owners(o) : u = w

(* Between requests, an update with a failed operation is over: tasks.py,   *)
(* "If a failed operation belongs to a FirmwareUpdate, mark the update as   *)
(* failed."                                                                 *)
FailurePropagated ==
    Quiet /\ crashes = 0 =>
        \A o \in Op : op[o].status = "FAILED" => Owners(o) \cap Active = {}

(* The result of a finished update never changes again, and an update that  *)
(* was deleted is gone.                                                     *)
ResultIsFinal ==
    [][\A u \in Update : fw[u].result \notin {"absent", "DEFAULT"} =>
          fw'[u].result \in {fw[u].result, "deleted"}]_fvars

(* Repair of duplicates: an update is failed as a duplicate only while a    *)
(* newer one is active, and when a report was applied no update but the one *)
(* it was applied to is active.                                             *)
NewestSurvives ==
    [][\A h \in Handler : hpc[h] = "save" /\ hpc'[h] # "save" =>
          IF dedup[h]
          THEN \E w \in Active : w > fw_obj[h].id
          ELSE Active' \subseteq {fw_obj[h].id}]_fvars

(* Requests and tasks that run one after the other implement FotaLife: an    *)
(* update that has ended stays as it ended, the reports of the device reach  *)
(* the only active one, and its Update command is ordered at the download,   *)
(* however many statements, copies and saves of whole rows that takes.       *)
Life == INSTANCE FotaLife WITH
            stage <- [u \in Update |-> fw[u].state],
            result <- [u \in Update |-> fw[u].result],
            ordered <- {u \in Update : fw[u].execute_operation # NoOp}

LifeCycle == Life!Spec

(* base.py: "Exactly one active FirmwareUpdate object remains" after the    *)
(* repair, when the object is fetched with get().  With overlapping requests *)
(* and tasks it need not, and get() raises.                                  *)
ExactlyOneRemains == \A h \in Handler : hpc[h] = "get" => Cardinality(Active) = 1

=============================================================================
