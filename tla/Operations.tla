----------------------------- MODULE Operations -----------------------------
(***************************************************************************)
(* The downlink of flownexus for one endpoint: the EndpointOperation table, *)
(* the Celery messages that ask a worker to send its rows, and the          *)
(* send_operation tasks themselves.                                         *)
(*                                                                          *)
(* The database runs in autocommit, so every ORM call is a step of its own, *)
(* and Model.save() writes ALL columns of the object a process holds, from  *)
(* the copy it read earlier.  A task is therefore split at each read and    *)
(* each save, and between them at the HTTP request, during which everything *)
(* else may run.  Operations of different endpoints never meet: every query *)
(* is filtered by the endpoint or made by primary key.                      *)
(***************************************************************************)
EXTENDS Naturals

CONSTANTS
    Op,            \* primary keys of EndpointOperation rows
    NoOp,          \* "no row": not a primary key
    Task,          \* slots of the Celery worker (worker -c)
    MAX_ATTEMPTS,  \* tasks.MAX_ATTEMPTS
    MaxQueue,      \* bound: messages of one kind in the broker
    MaxSends,      \* bound: no new trigger once an operation was sent this often
    MaxCrashes     \* bound: failures of the worker, a task or the broker

ASSUME OperationsAssumption ==
    /\ NoOp \notin Op
    /\ MAX_ATTEMPTS \in Nat \ {0}
    /\ MaxQueue \in Nat
    /\ MaxSends \in Nat
    /\ MaxCrashes \in Nat

Status == {"SENDING", "QUEUED", "CONFIRMED", "FAILED"}

(* A row that does not exist yet, that an open transaction holds, or that   *)
(* is gone.                                                                 *)
Invisible == {"absent", "uncommitted", "deleted"}

(* What a request to the gateway can come to, as send_operation tells them  *)
(* apart: 2xx, 502 with a CoAP code, 400, and every other status or a       *)
(* connection error.                                                        *)
Reply == {"ok", "rejected", "invalid", "undelivered"}

VARIABLES
    op,          \* the table: status and transmit_counter of each row
    registered,  \* Endpoint.registered
    pending,     \* process_pending_operations messages in the broker
    queue,       \* send_operation messages in the broker, per operation
    pc,          \* where each worker slot is
    e_ops,       \* the row object each slot holds, read at Load
    posted,      \* history: the status the row was created with, or "admin"
    sends,       \* history: requests issued to the gateway, per operation
    applied,     \* history: operations the device has applied
    refused,     \* history: operations answered with 502+code or 400
    crashes      \* history: failures so far

opVars     == <<op, posted>>
brokerVars == <<pending, queue>>
taskVars   == <<pc, e_ops>>
histVars   == <<sends, applied, refused, crashes>>
vars == <<opVars, registered, brokerVars, taskVars, histVars>>

Row(s, c) == [status |-> s, transmit_counter |-> c]

(* The row object a slot holds: the primary key and its copy of the columns. *)
Copy(o, r) == [id |-> o, status |-> r.status, transmit_counter |-> r.transmit_counter]

NoCopy == Copy(NoOp, Row("absent", 0))

Visible(o) == op[o].status \notin Invisible

Init ==
    /\ op = [o \in Op |-> Row("absent", 0)]
    /\ registered = FALSE
    /\ pending = 0
    /\ queue = [o \in Op |-> 0]
    /\ pc = [t \in Task |-> "idle"]
    /\ e_ops = [t \in Task |-> NoCopy]
    /\ posted = [o \in Op |-> "QUEUED"]
    /\ sends = [o \in Op |-> 0]
    /\ applied = {}
    /\ refused = {}
    /\ crashes = 0

-----------------------------------------------------------------------------
(* Where operations and triggers come from. *)

(* process_pending_operations.delay(): one more message. *)
Delay == pending' = pending + 1 /\ queue' = queue

(* A new reason for one, where the bounds allow it. *)
NewTrigger ==
    /\ pending < MaxQueue
    /\ \A o \in Op : sends[o] < MaxSends
    /\ Delay

(* INSERT of a row that is visible at once. *)
Insert(o, s) ==
    /\ op[o].status = "absent"
    /\ op' = [op EXCEPT ![o] = Row(s, 0)]
    /\ posted' = [posted EXCEPT ![o] = s]

(* POST .../operations: the serializer takes the status from the body, and  *)
(* the view sends no trigger.                                               *)
ApiCreate(o, s) ==
    /\ Insert(o, s)
    /\ UNCHANGED <<registered, brokerVars, taskVars, histVars>>

(* The admin's save_model runs inside the transaction that ModelAdmin opens *)
(* around the request: the trigger is in the broker before the row can be   *)
(* read by others.                                                          *)
AdminSave(o) ==
    /\ op[o].status = "absent"
    /\ op' = [op EXCEPT ![o] = Row("uncommitted", 0)]
    /\ posted' = [posted EXCEPT ![o] = "admin"]
    /\ NewTrigger
    /\ UNCHANGED <<registered, taskVars, histVars>>

AdminCommit(o) ==
    /\ op[o].status = "uncommitted"
    /\ op' = [op EXCEPT ![o] = Row("QUEUED", 0)]
    /\ UNCHANGED <<posted, registered, brokerVars, taskVars, histVars>>

(* Saving an existing row in the admin changes none of the modelled columns *)
(* (they are read-only, and read in the transaction that writes them back). *)
AdminChange(o) ==
    /\ Visible(o)
    /\ NewTrigger
    /\ UNCHANGED <<opVars, registered, taskVars, histVars>>

(* The admin's delete; messages and copies of the row stay behind. *)
AdminDelete(o) ==
    /\ Visible(o)
    /\ op' = [op EXCEPT ![o] = Row("deleted", 0)]
    /\ UNCHANGED <<posted, registered, brokerVars, taskVars, histVars>>

(* A "registered" or "updated" event that is not older than the newest one. *)
(* Module Registration has the handler's inner steps.                       *)
RegistrationUpdate ==
    /\ registered' = TRUE
    /\ NewTrigger
    /\ UNCHANGED <<opVars, taskVars, histVars>>

Deregistration ==
    /\ registered
    /\ registered' = FALSE
    /\ UNCHANGED <<opVars, brokerVars, taskVars, histVars>>

-----------------------------------------------------------------------------
(* The worker. *)

Queued == {o \in Op : op[o].status = "QUEUED"}

(* process_pending_operations: one send_operation message for each row that *)
(* is QUEUED when the query runs, whether the endpoint is registered or not. *)
ProcessPending ==
    /\ pending > 0
    /\ \A o \in Queued : queue[o] < MaxQueue
    /\ pending' = pending - 1
    /\ queue' = [o \in Op |-> IF o \in Queued THEN queue[o] + 1 ELSE queue[o]]
    /\ UNCHANGED <<opVars, registered, taskVars, histVars>>

(* send_operation starts: EndpointOperation.objects.get().  The status that *)
(* was read is not looked at; a row that is gone ends the task.             *)
Load(t, o) ==
    /\ pc[t] = "idle"
    /\ queue[o] > 0
    /\ queue' = [queue EXCEPT ![o] = queue[o] - 1]
    /\ \/ /\ Visible(o)
          /\ pc' = [pc EXCEPT ![t] = "loaded"]
          /\ e_ops' = [e_ops EXCEPT ![t] = Copy(o, op[o])]
       \/ ~Visible(o) /\ UNCHANGED taskVars
    /\ UNCHANGED <<opVars, registered, pending, histVars>>

(* Model.save() of the row object r: all columns of the row are overwritten, *)
(* and a row that was deleted in between is inserted again.                  *)
SaveRow(r) == op' = [op EXCEPT ![r.id] = Row(r.status, r.transmit_counter)]

(* Mutant of Mark: the attempt is counted when it starts, too. *)
MarkCounts(t) ==
    LET r == Copy(e_ops[t].id, Row("SENDING", e_ops[t].transmit_counter + 1)) IN
    /\ pc[t] = "loaded"
    /\ SaveRow(r)
    /\ e_ops' = [e_ops EXCEPT ![t] = r]
    /\ pc' = [pc EXCEPT ![t] = "sending"]
    /\ sends' = [sends EXCEPT ![r.id] = sends[r.id] + 1]
    /\ UNCHANGED <<posted, registered, brokerVars, applied, refused, crashes>>

(* The attempt is stored as SENDING, then the request goes out. *)
Mark(t) ==
    LET r == Copy(e_ops[t].id, Row("SENDING", e_ops[t].transmit_counter)) IN
    /\ pc[t] = "loaded"
    /\ SaveRow(r)
    /\ e_ops' = [e_ops EXCEPT ![t] = r]
    /\ pc' = [pc EXCEPT ![t] = "sending"]
    /\ sends' = [sends EXCEPT ![r.id] = sends[r.id] + 1]
    /\ UNCHANGED <<posted, registered, brokerVars, applied, refused, crashes>>

(* Mutants of Classified: the limit compared with >, reached one attempt    *)
(* early, and an undelivered attempt that is not counted.                   *)
ClassifiedUndelivered(r, reply, limit, count) ==
    LET n == r.transmit_counter + count IN
    CASE reply = "ok" -> Copy(r.id, Row("CONFIRMED", r.transmit_counter))
      [] reply \in {"rejected", "invalid"} -> Copy(r.id, Row("FAILED", n))
      [] OTHER -> Copy(r.id, Row(IF n >= limit THEN "FAILED" ELSE "QUEUED", n))

ClassifiedOneMore(r, reply) == ClassifiedUndelivered(r, reply, MAX_ATTEMPTS + 1, 1)

ClassifiedOneLess(r, reply) == ClassifiedUndelivered(r, reply, MAX_ATTEMPTS - 1, 1)

ClassifiedUncounted(r, reply) == ClassifiedUndelivered(r, reply, MAX_ATTEMPTS, 0)

(* The row object after the answer was looked at. *)
Classified(r, reply) ==
    LET n == r.transmit_counter + 1 IN
    CASE reply = "ok" -> Copy(r.id, Row("CONFIRMED", r.transmit_counter))
      [] reply \in {"rejected", "invalid"} -> Copy(r.id, Row("FAILED", n))
      [] OTHER -> Copy(r.id, Row(IF n >= MAX_ATTEMPTS THEN "FAILED" ELSE "QUEUED", n))

(* The slot is free again. *)
Finish(t) ==
    /\ pc' = [pc EXCEPT ![t] = "idle"]
    /\ e_ops' = [e_ops EXCEPT ![t] = NoCopy]

(* Mutant of Answer: the handler of a connection error returns. *)
AnswerReturns(t, reply) ==
    LET o == e_ops[t].id IN
    /\ pc[t] = "sending"
    /\ IF reply = "undelivered"
       THEN Finish(t)
       ELSE /\ e_ops' = [e_ops EXCEPT ![t] = Classified(e_ops[t], reply)]
            /\ pc' = [pc EXCEPT ![t] = "answered"]
    /\ applied' = IF reply = "ok" THEN applied \cup {o} ELSE applied
    /\ refused' = IF reply \in {"rejected", "invalid"} THEN refused \cup {o} ELSE refused
    /\ UNCHANGED <<opVars, registered, brokerVars, sends, crashes>>

(* The gateway answers, or the request fails.  A device that answered has   *)
(* applied the operation; one whose answer was lost may have.               *)
Answer(t, reply) ==
    LET o == e_ops[t].id IN
    /\ pc[t] = "sending"
    /\ e_ops' = [e_ops EXCEPT ![t] = Classified(e_ops[t], reply)]
    /\ pc' = [pc EXCEPT ![t] = "answered"]
    /\ \/ reply \in {"ok", "undelivered"} /\ applied' = applied \cup {o}
       \/ reply # "ok" /\ applied' = applied
    /\ refused' = IF reply \in {"rejected", "invalid"} THEN refused \cup {o} ELSE refused
    /\ UNCHANGED <<opVars, registered, brokerVars, sends, crashes>>

(* Mutant of Save: the row object is let go before the failure is handled. *)
SaveForgets(t) ==
    /\ pc[t] = "answered"
    /\ SaveRow(e_ops[t])
    /\ pc' = [pc EXCEPT ![t] = IF e_ops[t].status = "FAILED" THEN "failed" ELSE "idle"]
    /\ e_ops' = [e_ops EXCEPT ![t] = NoCopy]
    /\ UNCHANGED <<posted, registered, brokerVars, histVars>>

(* The result is stored; only a failure has more to do. *)
Save(t) ==
    /\ pc[t] = "answered"
    /\ SaveRow(e_ops[t])
    /\ \/ /\ e_ops[t].status = "FAILED"
          /\ pc' = [pc EXCEPT ![t] = "failed"]
          /\ e_ops' = e_ops
       \/ /\ e_ops[t].status # "FAILED"
          /\ Finish(t)
    /\ UNCHANGED <<posted, registered, brokerVars, histVars>>

(* _propagate_failure_to_firmware_update for an operation that belongs to   *)
(* no update: the query finds nothing.  Module Fota has the general case.   *)
PropagateNothing(t) ==
    /\ pc[t] = "failed"
    /\ Finish(t)
    /\ UNCHANGED <<opVars, registered, brokerVars, histVars>>

-----------------------------------------------------------------------------
(* Failures the deployment does not mask. *)

(* The worker process dies.  Celery acknowledges a task when it starts, so  *)
(* the running ones are not delivered again.                                *)
WorkerCrash ==
    /\ crashes < MaxCrashes
    /\ \E t \in Task : pc[t] # "idle"
    /\ crashes' = crashes + 1
    /\ pc' = [t \in Task |-> "idle"]
    /\ e_ops' = [t \in Task |-> NoCopy]
    /\ UNCHANGED <<opVars, registered, brokerVars, sends, applied, refused>>

(* A task ends with an exception, such as a database that stays locked; it  *)
(* is not run again.                                                        *)
TaskFails(t) ==
    /\ crashes < MaxCrashes
    /\ pc[t] # "idle"
    /\ crashes' = crashes + 1
    /\ Finish(t)
    /\ UNCHANGED <<opVars, registered, brokerVars, sends, applied, refused>>

(* Redis restarts without persistence, or evicts: its messages are gone. *)
BrokerLoss ==
    /\ crashes < MaxCrashes
    /\ pending > 0 \/ \E o \in Op : queue[o] > 0
    /\ crashes' = crashes + 1
    /\ pending' = 0
    /\ queue' = [o \in Op |-> 0]
    /\ UNCHANGED <<opVars, registered, taskVars, sends, applied, refused>>

-----------------------------------------------------------------------------
CreateStep ==
    \E o \in Op :
        \/ \E s \in Status : ApiCreate(o, s)
        \/ AdminSave(o)
        \/ AdminCommit(o)
        \/ AdminChange(o)
        \/ AdminDelete(o)

EventStep == RegistrationUpdate \/ Deregistration

TaskStep(t) ==
    \/ \E o \in Op : Load(t, o)
    \/ Mark(t)
    \/ \E r \in Reply : Answer(t, r)
    \/ Save(t)

FailureStep == WorkerCrash \/ (\E t \in Task : TaskFails(t)) \/ BrokerLoss

Next ==
    \/ CreateStep
    \/ EventStep
    \/ ProcessPending
    \/ \E t \in Task : TaskStep(t) \/ PropagateNothing(t)
    \/ FailureStep

Spec == Init /\ [][Next]_vars

(* The worker runs what is in the broker, an HTTP request ends (with a      *)
(* timeout at the latest), and a registered device sends registration       *)
(* updates for as long as it lives.  Users and deregistrations are free.    *)
Fairness ==
    /\ WF_vars(RegistrationUpdate)
    /\ WF_vars(ProcessPending)
    /\ \A t \in Task : WF_vars(TaskStep(t) \/ PropagateNothing(t))

FairSpec == Spec /\ Fairness
-----------------------------------------------------------------------------
(* Properties *)

(* "propagating" is reached in Fota only. *)
PC == {"idle", "loaded", "sending", "answered", "failed", "propagating"}

RowType == [status : Status \cup Invisible, transmit_counter : Nat]

CopyType == [id : Op \cup {NoOp}, status : Status \cup Invisible, transmit_counter : Nat]

(* Types: a slot that is not idle holds the copy of a row that exists. *)
TypeOK ==
    /\ op \in [Op -> RowType]
    /\ registered \in BOOLEAN
    /\ pending \in Nat
    /\ queue \in [Op -> Nat]
    /\ pc \in [Task -> PC]
    /\ e_ops \in [Task -> CopyType]
    /\ posted \in [Op -> Status \cup {"admin"}]
    /\ sends \in [Op -> Nat]
    /\ applied \subseteq Op
    /\ refused \subseteq Op
    /\ crashes \in Nat
    /\ \A t \in Task : pc[t] # "idle" => e_ops[t].id \in Op

(* A row is CONFIRMED only if the device applied the operation, and FAILED  *)
(* only if it was refused (502 with a code, 400) or really was sent         *)
(* MAX_ATTEMPTS times, unless a client posted it with that status: however  *)
(* many tasks hold stale copies of the row, no save makes an outcome up.    *)
OutcomeJustified ==
    \A o \in Op :
        /\ op[o].status = "CONFIRMED" => o \in applied \/ posted[o] = "CONFIRMED"
        /\ op[o].status = "FAILED" =>
              o \in refused \/ sends[o] >= MAX_ATTEMPTS \/ posted[o] = "FAILED"

(* transmit_counter never exceeds the requests issued: saves of stale       *)
(* copies can lose counts, never invent them.                               *)
CounterNeverOvercounts ==
    \A o \in Op : op[o].transmit_counter <= sends[o]

(* process_pending_operations hands out QUEUED rows, so what bounds the     *)
(* retries is that no row is QUEUED with its attempts used up.              *)
QueuedHasAttemptsLeft ==
    \A o \in Op : op[o].status = "QUEUED" => op[o].transmit_counter < MAX_ATTEMPTS

(* A slot is in the middle of an attempt to send o. *)
Attempting(t, o) == pc[t] \in {"sending", "answered"} /\ e_ops[t].id = o

(* process_pending_operations skips SENDING rows, so a row left SENDING with *)
(* no task behind it is never sent again: only a crash of the worker or an   *)
(* exception in a task (or a client that posted the row so) can cause that.  *)
StrandedOnlyByCrash ==
    \A o \in Op : op[o].status = "SENDING" =>
        \/ crashes > 0
        \/ posted[o] = "SENDING"
        \/ \E t \in Task : Attempting(t, o)

(* While the device keeps sending registration updates, a QUEUED operation  *)
(* does not stay unsettled: some attempt is confirmed, is refused, or uses  *)
(* the attempts up, unless the row is deleted.                              *)
QueuedSettles ==
    \A o \in Op :
        op[o].status = "QUEUED" ~> op[o].status \in {"CONFIRMED", "FAILED", "deleted"}

=============================================================================
