------------------------------- MODULE Command -------------------------------
(***************************************************************************)
(* One command through the gateway: a Celery task (send_operation or         *)
(* read_device_object) or another client of the command API sends an HTTP    *)
(* request, CommandServlet checks it, sends a CoAP request to the device and *)
(* answers, and the task classifies the answer.  The device, the CoAP        *)
(* exchange and the HTTP connection are external: the device may be slow,    *)
(* asleep or gone, messages get lost, the task stops waiting.               *)
(***************************************************************************)
EXTENDS Values

CONSTANTS
    Bodies,      \* JSON values other clients put in a body
    None,
    MaxCommands  \* bound: commands sent one after the other

Reply == {"ok", "rejected", "invalid", "undelivered"}

ASSUME CommandAssumption ==
    /\ Bodies \subseteq JsonValue
    /\ None \notin Text \cup Reply \cup {"done"}
    /\ MaxCommands \in Nat

Method == {"GET", "PUT", "POST"}

(* /{endpoint} alone, no LwM2M path at all, and the four kinds of one *)
Path == {"endpoint", "invalid", "object", "instance", "resource", "resource_instance"}

VARIABLES
    task,      \* the task: "idle", "waiting", "done", "died"
    request,   \* the HTTP request
    want,      \* history: the value the task means to write
    gateway,   \* the servlet: "idle", "target", "body", "send", "wait", "respond"
    registered, \* the device is registered at the gateway
    coap,      \* the CoAP exchange: "none", "sent", "applied", "refused", "broken"
    got,       \* history: the value the device applied, None
    response,  \* the HTTP answer: status, and whether the body has a CoAP code
    reply,     \* the reply the task acts on
    commands   \* history: commands so far

vars == <<task, request, want, gateway, registered, coap, got, response, reply, commands>>
taskVars == <<task, request, want, reply, commands>>
deviceVars == <<registered, coap, got>>

NoRequest == [method |-> "GET", path |-> "object", type |-> "NONE", value |-> Json("missing", "empty"),
              kind |-> TRUE, id |-> TRUE, format |-> TRUE, timeout |-> TRUE]
NoResponse == [status |-> 0, code |-> FALSE]

Init ==
    /\ task = "idle"
    /\ request = NoRequest
    /\ want = None
    /\ gateway = "idle"
    /\ registered \in BOOLEAN
    /\ coap = "none"
    /\ got = None
    /\ response = NoResponse
    /\ reply = None
    /\ commands = 0

-----------------------------------------------------------------------------
(* The clients *)

Ready == task # "waiting" /\ gateway = "idle" /\ commands < MaxCommands

(* A new command; what was left of the last one is forgotten. *)
Request(r, w) ==
    /\ Ready
    /\ commands' = commands + 1
    /\ request' = r
    /\ want' = w
    /\ task' = IF r.value.kind = "bytes" THEN "died" ELSE "waiting"
    /\ gateway' = IF r.value.kind = "bytes" THEN "idle" ELSE "target"
    /\ coap' = "none"
    /\ got' = None
    /\ response' = NoResponse
    /\ reply' = None
    /\ UNCHANGED registered

(* send_operation(): NONE is executed, everything else written.  bytes raise *)
(* a TypeError in requests, which is not a RequestException.                 *)
SendOperation(type, column) ==
    Request([NoRequest EXCEPT !.method = IF type = "NONE" THEN "POST" ELSE "PUT",
                              !.path = "resource", !.type = type,
                              !.value = GetValue(type, column)],
            column)

(* read_device_object() *)
ReadDeviceObject == Request(NoRequest, None)

(* Any other request: what the contract says is refused.  kind and id say    *)
(* whether the body is a singleResource with the resource id of the path;     *)
(* only a write has one.                                                     *)
OtherRequests ==
    {r \in [method : Method, path : Path, type : LwM2mType, value : Bodies, kind : BOOLEAN,
            id : BOOLEAN, format : BOOLEAN, timeout : BOOLEAN] :
        r.method # "PUT" => [r EXCEPT !.method = "GET", !.path = "object", !.format = TRUE,
                                      !.timeout = TRUE] = NoRequest}

(* Mutant of DeviceRejection: every 502 is the device's. *)
DeviceRejectionAny(resp) == resp.status = 502

(* _device_rejection() *)
DeviceRejection(resp) == resp.status = 502 /\ resp.code

(* The status the task derives from an answer. *)
Classify(resp) ==
    CASE resp.status = 200     -> "ok"
      [] DeviceRejection(resp) -> "rejected"
      [] resp.status = 400     -> "invalid"
      [] OTHER                 -> "undelivered"

TaskAnswered ==
    /\ task = "waiting" /\ gateway = "respond"
    /\ reply' = Classify(response)
    /\ task' = "done"
    /\ gateway' = "idle"
    /\ UNCHANGED <<request, want, commands, deviceVars, response>>

(* RequestException: no connection, or the HTTP timeout.  The gateway does   *)
(* not learn of it.                                                         *)
TaskGivesUp ==
    /\ task = "waiting"
    /\ reply' = "undelivered"
    /\ task' = "done"
    /\ UNCHANGED <<request, want, commands, gateway, deviceVars, response>>

(* The answer has nobody to go to. *)
AnswerLost ==
    /\ task # "waiting" /\ gateway = "respond"
    /\ gateway' = "idle"
    /\ UNCHANGED <<taskVars, deviceVars, response>>

-----------------------------------------------------------------------------
(* CommandServlet *)

Goto(l) == gateway' = l /\ UNCHANGED <<taskVars, deviceVars, response>>

Respond(status, code) ==
    /\ gateway' = "respond"
    /\ response' = [status |-> status, code |-> code]
    /\ UNCHANGED <<taskVars, deviceVars>>

(* target(): the path, then the registration *)
Target ==
    LET ok == /\ request.path \notin {"endpoint", "invalid"}
              /\ request.method = "GET" \/ request.path \in {"resource", "resource_instance"}
    IN  /\ gateway = "target"
        /\ \/ ~ok /\ Respond(400, FALSE)
           \/ ok /\ ~registered /\ Respond(404, FALSE)
           \/ ok /\ registered /\ Goto(IF request.method = "PUT" THEN "body" ELSE "send")

(* SingleResourceParser.parse() and the checks of doPut() *)
ValidBody ==
    /\ request.kind
    /\ request.value.kind # "missing"
    /\ Parses(request.type, request.value)
    /\ request.path = "resource"
    /\ request.id

Body ==
    /\ gateway = "body"
    /\ IF ValidBody THEN Goto("send") ELSE Respond(400, FALSE)

(* send() before the request is on its way: the query parameters, what       *)
(* Leshan finds invalid, a client that sleeps.                              *)
Refuse ==
    /\ gateway = "send"
    /\ \/ Respond(400, FALSE)
       \/ request.format /\ request.timeout /\ Respond(503, FALSE)

Send ==
    /\ gateway = "send"
    /\ request.format /\ request.timeout
    /\ gateway' = "wait"
    /\ coap' = "sent"
    /\ UNCHANGED <<taskVars, registered, got, response>>

(* result() for what the device answered, and the answer Leshan cannot read *)
Result ==
    /\ gateway = "wait"
    /\ \/ coap = "applied" /\ Respond(200, TRUE)
       \/ coap = "refused" /\ Respond(502, TRUE)
       \/ coap = "broken" /\ Respond(502, FALSE)

(* Mutant of NoAnswer: the device is waited for. *)
NoAnswerAfterAll ==
    /\ gateway = "wait" /\ ~registered
    /\ Respond(504, FALSE) \/ Respond(503, FALSE)

(* No answer in time, or the request is cancelled with the registration or   *)
(* by an interrupt: nobody knows what the device did.                       *)
NoAnswer ==
    /\ gateway = "wait"
    /\ Respond(504, FALSE) \/ Respond(503, FALSE)

-----------------------------------------------------------------------------
(* The device *)

DeviceStep(c, v) ==
    /\ coap = "sent"
    /\ coap' = c
    /\ got' = v
    /\ UNCHANGED <<taskVars, gateway, registered, response>>

Applied == IF request.method = "PUT" THEN Parsed(request.type, request.value) ELSE "done"

(* It acts on the request when it gets it, perhaps when nobody waits any    *)
(* more; an answer that cannot be read may hide either.                     *)
DeviceApplies == DeviceStep("applied", Applied)
DeviceRefuses == DeviceStep("refused", None)
DeviceGarbles == \E v \in {None, Applied} : DeviceStep("broken", v)

Register ==
    /\ registered' = ~registered
    /\ UNCHANGED <<taskVars, gateway, coap, got, response>>

-----------------------------------------------------------------------------
ServletStep == Target \/ Body \/ Refuse \/ Send \/ Result \/ NoAnswer

ClientStep ==
    \/ \E t \in DOMAIN Column : \E c \in ColumnText[Column[t]] \cup {"NULL"} : SendOperation(t, c)
    \/ SendOperation("NONE", "NULL")
    \/ ReadDeviceObject
    \/ \E r \in OtherRequests : Request(r, None)

Next ==
    \/ Ready /\ ClientStep
    \/ TaskAnswered \/ TaskGivesUp \/ AnswerLost
    \/ ServletStep
    \/ DeviceApplies \/ DeviceRefuses \/ DeviceGarbles
    \/ Register

Spec == Init /\ [][Next]_vars

(* The servlet goes on, the device timeout and the HTTP timeout expire, and the   *)
(* task takes the answer there is; devices need not do anything.            *)
FairSpec == Spec /\ WF_vars(ServletStep) /\ WF_vars(TaskAnswered \/ TaskGivesUp \/ AnswerLost)

-----------------------------------------------------------------------------
(* Properties *)

Outcome == INSTANCE CommandOutcome WITH applied <- got # None

(* gateway_contract.rst on send_operation: "2xx: CONFIRMED", "FAILED at once, *)
(* without retry" for a 400 or a 502 with a code, anything else is retried.  *)
(* A command through servlet and device implements the outcome Operations    *)
(* is built on: confirmed means applied, failed at once means not applied,   *)
(* then and later.                                                          *)
OutcomeSpec == Outcome!Spec

(* gateway_contract.rst on the body of a write: "BOOLEAN (true, false, 0 or   *)
(* 1), ... TIME (epoch milliseconds)".  What the device applies for an        *)
(* operation is the value of its Resource row, through both conversions.     *)
WrittenAsStored ==
    got # None /\ want # None /\ request.method = "PUT" =>
        IF request.type = "BOOLEAN" THEN got = "true" <=> want = "1" ELSE got = want

(* gateway_contract.rst: "504: The device did not answer within timeout".     *)
(* The servlet ends every request, whatever the device and the client do.    *)
ServletEnds == gateway # "idle" ~> gateway = "idle"

=============================================================================
