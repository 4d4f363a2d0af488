---------------------------- MODULE Registration ----------------------------
(***************************************************************************)
(* How the registration state of one endpoint gets from the gateway to the  *)
(* Endpoint table: IngestForwarder emits an event for each registration,    *)
(* update and deregistration, IngestClient posts it (again, if the answer   *)
(* is lost or a 5xx), and RegistrationEventSerializer.create handles it, one *)
(* database statement at a time, while administrators assign the device to  *)
(* sites.                                                                   *)
(*                                                                          *)
(* The time of an event is its number: the gateway takes them from one      *)
(* clock, and events are taken to be at least a millisecond apart.  Module  *)
(* IngestClient has the details of retrying.                                *)
(***************************************************************************)
EXTENDS Naturals, Sequences, FiniteSets

CONSTANTS
    Handler,      \* registration requests Django handles at a time
    Site,         \* sites
    NoSite,       \* Endpoint.site is NULL
    MaxEvents,    \* bound: events the gateway emits
    MaxFailures,  \* bound: requests that end in a 5xx half-way, and answers that are lost
    MaxDrops,     \* bound: events the gateway gives up on
    MaxAssigns    \* bound: changes of the device's site

ASSUME RegistrationAssumption ==
    /\ NoSite \notin Site
    /\ {MaxEvents, MaxFailures, MaxDrops, MaxAssigns} \subseteq Nat

Kind == {"registered", "unregistered", "updated"}

Time == 1..MaxEvents

VARIABLES
    gw,        \* the device is registered at the gateway
    emitted,   \* events so far; the index is the event's time
    waiting,   \* events the gateway still tries to deliver
    endpoint,  \* the row: registered, site
    stored,    \* times of the stored events (resources of object 10240)
    reading,   \* events for which read_device_object was queued
    hpc,       \* where each handler is
    time_ms,   \* the event it handles
    copy,      \* the Endpoint object it holds
    latest,    \* the newest stored time it read, 0 for none
    assigned,  \* history: the site an administrator chose last
    overlap,   \* history: he did so while a request held a row it had yet to save
    failures,  \* history: requests that failed half-way, and lost answers
    dropped,   \* history: events the gateway gave up
    assigns    \* history: assignments

gatewayVars == <<gw, emitted, waiting, dropped>>
dbVars      == <<endpoint, stored>>
handlerVars == <<hpc, time_ms, copy, latest>>
adminVars   == <<assigned, overlap, assigns>>
vars == <<gatewayVars, dbVars, reading, handlerVars, adminVars, failures>>

Row(r, s) == [registered |-> r, site |-> s]

Init ==
    /\ gw = FALSE
    /\ emitted = <<>>
    /\ waiting = {}
    /\ endpoint = Row(FALSE, NoSite)
    /\ stored = {}
    /\ reading = {}
    /\ hpc = [h \in Handler |-> "idle"]
    /\ time_ms = [h \in Handler |-> 0]
    /\ copy = [h \in Handler |-> Row(FALSE, NoSite)]
    /\ latest = [h \in Handler |-> 0]
    /\ assigned = NoSite
    /\ overlap = FALSE
    /\ failures = 0
    /\ dropped = {}
    /\ assigns = 0

-----------------------------------------------------------------------------
(* The gateway. *)

(* registrationEvent(): the event gets its time and is posted. *)
Emit(k) ==
    /\ Len(emitted) < MaxEvents
    /\ emitted' = Append(emitted, k)
    /\ waiting' = waiting \cup {Len(emitted) + 1}
    /\ UNCHANGED <<dropped, dbVars, reading, handlerVars, adminVars, failures>>

(* A device that reboots registers again without leaving first; the         *)
(* unregistered() callback of the replaced registration posts nothing.      *)
Registered == Emit("registered") /\ gw' = TRUE

Updated == gw /\ Emit("updated") /\ gw' = gw

Unregistered == gw /\ Emit("unregistered") /\ gw' = FALSE

(* The gateway gives up after its last attempt, or restarts. *)
Drop(e) ==
    /\ e \in waiting
    /\ Cardinality(dropped) < MaxDrops
    /\ dropped' = dropped \cup {e}
    /\ waiting' = waiting \ {e}
    /\ UNCHANGED <<gw, emitted, dbVars, reading, handlerVars, adminVars, failures>>

-----------------------------------------------------------------------------
(* RegistrationEventSerializer.create *)

Goto(h, l) == hpc' = [hpc EXCEPT ![h] = l]

(* The request is over and the handler forgets what it held. *)
Return(h) ==
    /\ Goto(h, "idle")
    /\ time_ms' = [time_ms EXCEPT ![h] = 0]
    /\ copy' = [copy EXCEPT ![h] = Row(FALSE, NoSite)]
    /\ latest' = [latest EXCEPT ![h] = 0]

(* A request arrives; Endpoint.objects.get_or_create().  The gateway may    *)
(* post an event again while an earlier attempt, whose answer it no longer  *)
(* waits for, is still being handled.                                       *)
Fetch(h, e) ==
    /\ hpc[h] = "idle"
    /\ e \in waiting
    /\ time_ms' = [time_ms EXCEPT ![h] = e]
    /\ copy' = [copy EXCEPT ![h] = endpoint]
    /\ Goto(h, "aggregate")
    /\ UNCHANGED <<gatewayVars, dbVars, reading, latest, adminVars, failures>>

(* The largest stored time, 0 if there is none. *)
Newest == CHOOSE n \in stored \cup {0} : \A m \in stored : m <= n

(* events.aggregate(Max("int_value")) *)
Aggregate(h) ==
    /\ hpc[h] = "aggregate"
    /\ latest' = [latest EXCEPT ![h] = Newest]
    /\ Goto(h, "create")
    /\ UNCHANGED <<gatewayVars, dbVars, reading, time_ms, copy, adminVars, failures>>

(* Mutant of Stale: an event of the same time counts as late, too. *)
StaleOrEqual(h) == latest[h] # 0 /\ time_ms[h] <= latest[h]

Stale(h) == latest[h] # 0 /\ time_ms[h] < latest[h]

(* The request is answered with 201 and the gateway is done with the event,   *)
(* or the answer is lost and it will post the event again.                   *)
Answer(h) ==
    /\ Return(h)
    /\ \/ waiting' = waiting \ {time_ms[h]} /\ UNCHANGED failures
       \/ waiting' = waiting /\ failures < MaxFailures /\ failures' = failures + 1
    /\ UNCHANGED <<gw, emitted, dropped>>

(* Mutant of StoreEvent: only late events go to the history. *)
StoreLateEvent(h) ==
    /\ hpc[h] = "create"
    /\ \/ Stale(h) /\ Answer(h) /\ stored' = stored \cup {time_ms[h]}
       \/ /\ ~Stale(h)
          /\ Goto(h, "save")
          /\ UNCHANGED <<gatewayVars, time_ms, copy, latest, stored, failures>>
    /\ UNCHANGED <<endpoint, reading, adminVars>>

(* Resource.objects.create(), and the early return for a late event. *)
StoreEvent(h) ==
    /\ hpc[h] = "create"
    /\ stored' = stored \cup {time_ms[h]}
    /\ \/ Stale(h) /\ Answer(h)
       \/ /\ ~Stale(h)
          /\ Goto(h, "save")
          /\ UNCHANGED <<gatewayVars, time_ms, copy, latest, failures>>
    /\ UNCHANGED <<endpoint, reading, adminVars>>

RegisteredAfter(e) == emitted[e] # "unregistered"

(* Mutant of SaveEndpoint: an update does not set the state. *)
SaveEndpointUnlessUpdated(h) ==
    /\ hpc[h] = "save"
    /\ endpoint' = Row(IF emitted[time_ms[h]] = "updated" THEN copy[h].registered
                       ELSE RegisteredAfter(time_ms[h]), copy[h].site)
    /\ Goto(h, "delay")
    /\ UNCHANGED <<gatewayVars, stored, reading, time_ms, copy, latest, adminVars, failures>>

(* Mutant of SaveEndpoint: a row with the default site is saved. *)
SaveEndpointUnassigned(h) ==
    /\ hpc[h] = "save"
    /\ endpoint' = Row(RegisteredAfter(time_ms[h]), NoSite)
    /\ Goto(h, "delay")
    /\ UNCHANGED <<gatewayVars, stored, reading, time_ms, copy, latest, adminVars, failures>>

(* endpoint.save(): both columns, site from the copy. *)
SaveEndpoint(h) ==
    /\ hpc[h] = "save"
    /\ endpoint' = Row(RegisteredAfter(time_ms[h]), copy[h].site)
    /\ Goto(h, "delay")
    /\ UNCHANGED <<gatewayVars, stored, reading, time_ms, copy, latest, adminVars, failures>>

(* Mutant of Delays: a device that was registered before is not read. *)
DelaysUnlessKnown(h) ==
    /\ hpc[h] = "delay"
    /\ reading' = IF emitted[time_ms[h]] = "registered" /\ ~copy[h].registered
                  THEN reading \cup {time_ms[h]} ELSE reading
    /\ Answer(h)
    /\ UNCHANGED <<dbVars, adminVars>>

(* read_device_object and process_pending_operations are queued (the latter *)
(* is RegistrationUpdate in Operations), and the request is answered.       *)
Delays(h) ==
    /\ hpc[h] = "delay"
    /\ reading' = IF emitted[time_ms[h]] = "registered"
                  THEN reading \cup {time_ms[h]} ELSE reading
    /\ Answer(h)
    /\ UNCHANGED <<dbVars, adminVars>>

(* A locked database, or a broker that cannot be reached: 500, and the      *)
(* gateway will post the event again.                                       *)
Fail(h) ==
    /\ hpc[h] # "idle"
    /\ failures < MaxFailures
    /\ failures' = failures + 1
    /\ Return(h)
    /\ UNCHANGED <<gatewayVars, dbVars, reading, adminVars>>

-----------------------------------------------------------------------------
(* The handler will save the row it holds. *)
Holds(h) == hpc[h] \in {"aggregate", "create", "save"}

(* assign_device, transfer_device: save(update_fields=["site"]). *)
AssignSite(s) ==
    /\ assigns < MaxAssigns
    /\ s # endpoint.site
    /\ assigns' = assigns + 1
    /\ endpoint' = [endpoint EXCEPT !.site = s]
    /\ assigned' = s
    /\ overlap' = (overlap \/ \E h \in Handler : Holds(h))
    /\ UNCHANGED <<gatewayVars, stored, reading, handlerVars, failures>>

-----------------------------------------------------------------------------
GatewayStep == Registered \/ Updated \/ Unregistered \/ \E e \in waiting : Drop(e)

HandlerStep(h) ==
    \/ \E e \in waiting : Fetch(h, e)
    \/ Aggregate(h)
    \/ StoreEvent(h)
    \/ SaveEndpoint(h)
    \/ Delays(h)

Next ==
    \/ GatewayStep
    \/ \E h \in Handler : HandlerStep(h) \/ Fail(h)
    \/ \E s \in Site : AssignSite(s)

Spec == Init /\ [][Next]_vars

(* Django handles what is posted, and the gateway's retries post what is    *)
(* waiting; devices, administrators and failures are free.                  *)
FairSpec == Spec /\ \A h \in Handler : WF_vars(HandlerStep(h))

-----------------------------------------------------------------------------
(* Properties *)

Rows == [registered : BOOLEAN, site : Site \cup {NoSite}]

(* Types: a handler at work has an event that was emitted. *)
TypeOK ==
    /\ gw \in BOOLEAN
    /\ emitted \in Seq(Kind) /\ Len(emitted) <= MaxEvents
    /\ waiting \subseteq 1..Len(emitted)
    /\ endpoint \in Rows
    /\ stored \subseteq 1..Len(emitted)
    /\ reading \subseteq stored
    /\ hpc \in [Handler -> {"idle", "aggregate", "create", "save", "delay"}]
    /\ time_ms \in [Handler -> 0..Len(emitted)]
    /\ copy \in [Handler -> Rows]
    /\ latest \in [Handler -> 0..Len(emitted)]
    /\ assigned \in Site \cup {NoSite}
    /\ overlap \in BOOLEAN
    /\ \A h \in Handler : hpc[h] # "idle" => time_ms[h] > 0

Quiet == \A h \in Handler : hpc[h] = "idle"

(* registration_serializer.py: "let only the newest event set the state";   *)
(* gateway_contract.rst: an older event "is stored but does not change the  *)
(* registration state".  Between requests the row shows the newest stored   *)
(* event, unless the request that stored it failed half-way and the gateway *)
(* has yet to repeat it, or gave it up.                                     *)
NewestEventWins ==
    Quiet /\ stored # {} =>
        endpoint.registered = RegisteredAfter(Newest) \/ Newest \in waiting \cup dropped

(* Once the events stop, and if the last one is not given up, the row       *)
(* agrees with the gateway for good.                                        *)
Converges ==
    <>[](emitted # <<>> /\ Len(emitted) \notin dropped => endpoint.registered = gw)

(* gateway_contract.rst: "After a registered event, the Celery task         *)
(* read_device_object reads /3".  Between requests, a registration that is  *)
(* the newest event has had its read queued, even if the request that       *)
(* stored it failed before it got there.  One that an update overtook on    *)
(* the way is taken as late and not read.                                   *)
NewestIsRead ==
    Quiet /\ stored # {} /\ emitted[Newest] = "registered" =>
        Newest \in reading \cup waiting \cup dropped

(* access_control.rst: "Global Admin only for assigning and transferring    *)
(* devices between Sites".  The device is where it was put last, whatever   *)
(* events follow, however they fail and are repeated: an assignment is lost *)
(* only if a request held the row when it was made.                         *)
AssignmentKept == endpoint.site = assigned \/ overlap
=============================================================================
