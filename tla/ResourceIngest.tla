--------------------------- MODULE ResourceIngest ---------------------------
(***************************************************************************)
(* How readings get into the database: an LwM2M Send posted by the gateway   *)
(* (timestamped), object 3 read after a registration (composite), a single   *)
(* resource of the simulator.  The serializers validate the whole body, then *)
(* store one reading after the other, each statement on its own, so that a   *)
(* request that fails leaves what it has stored.  The gateway repeats a Send *)
(* after a 5xx and when no answer comes in time, also while an earlier       *)
(* attempt is still at work.                                                 *)
(***************************************************************************)
EXTENDS Values, Sequences

CONSTANTS
    Bodies,       \* the requests: their form and groups of nodes
    MaxAttempts   \* bound: attempts of the gateway (6 in the code)

(* One node: its object, what the device says of it, and the type Django has *)
(* for it, "unknown" where there is no ResourceType row.                     *)
Node ==
    {x \in [obj : Nat, multi : BOOLEAN, type : LwM2mType, text : Text,
            res_type : DOMAIN Column \cup {"NONE", "unknown"}] :
        x.text \in DeviceText[x.type]}

Form == {"timestamped", "composite", "single"}

ASSUME IngestAssumption ==
    /\ \A b \in Bodies : b.form \in Form /\ b.groups \in Seq(Seq(Node))
    /\ MaxAttempts \in Nat

Attempt == 1..MaxAttempts

VARIABLES
    body,     \* the request
    at,       \* each attempt: "new", "group", "node", "link", then its status
    group,    \* the group it is at
    node,     \* the node in it
    event,    \* self.event: the group it was created for, 0 for None
    rows,     \* Resource rows: attempt, group and node
    events,   \* Event rows: attempt and group
    links,    \* EventResource rows: attempt, group of the event, group, node
    gateway   \* the client: "waiting", "done", "rejected", "dropped"

vars == <<body, at, group, node, event, rows, events, links, gateway>>

Init ==
    /\ body \in Bodies
    /\ at = [a \in Attempt |-> "new"]
    /\ group = [a \in Attempt |-> 1]
    /\ node = [a \in Attempt |-> 1]
    /\ event = [a \in Attempt |-> 0]
    /\ rows = {}
    /\ events = {}
    /\ links = {}
    /\ gateway = "waiting"

-----------------------------------------------------------------------------
Goto(a, l) == at' = [at EXCEPT ![a] = l]

Groups == body.groups

(* The places of the nodes in the body, in the order they are handled *)
Places == UNION {{<<g, n>> : n \in DOMAIN Groups[g]} : g \in DOMAIN Groups}

Before(p, q) == p[1] < q[1] \/ (p[1] = q[1] /\ p[2] < q[2])

NodeAt(p) == Groups[p[1]][p[2]]

Value(x) == ConvertValue(x.type, x.text)

(* is_valid(); an instance of a multiple resource must not be blank. *)
ValidBody ==
    \A p \in Places :
        LET x == NodeAt(p) IN
        ValidData(x.type, Value(x)) /\ (x.multi => Value(x).text # "empty")

(* The gateway posts; a Send is repeated when the last attempt failed or     *)
(* has not been answered in time.  The other two forms come from a task or   *)
(* the simulator, which do not repeat.                                      *)
Begin(a) ==
    /\ at[a] = "new" /\ gateway = "waiting"
    /\ a > 1 => body.form = "timestamped" /\ at[a - 1] # "new"
    /\ Goto(a, IF ValidBody THEN "group" ELSE "400")
    /\ UNCHANGED <<body, group, node, event, rows, events, links, gateway>>

(* create_event() *)
CreateEvent(a) ==
    /\ events' = events \cup {<<a, group[a]>>}
    /\ event' = [event EXCEPT ![a] = group[a]]

(* Mutant of StartGroup: an event for every group. *)
StartGroupWithEvent(a) ==
    /\ at[a] = "group"
    /\ IF group[a] > Len(Groups)
       THEN Goto(a, "201") /\ UNCHANGED <<events, event>>
       ELSE CreateEvent(a) /\ Goto(a, "node")
    /\ UNCHANGED <<body, group, node, rows, links, gateway>>

(* The next object, timestamp or nothing: CompositeResourceSerializer has    *)
(* an event for each object.                                                *)
StartGroup(a) ==
    /\ at[a] = "group"
    /\ \/ group[a] > Len(Groups) /\ Goto(a, "201") /\ UNCHANGED <<events, event>>
       \/ /\ group[a] <= Len(Groups)
          /\ IF body.form = "composite" THEN CreateEvent(a) ELSE UNCHANGED <<events, event>>
          /\ Goto(a, "node")
    /\ UNCHANGED <<body, group, node, rows, links, gateway>>

EndGroup(a) ==
    /\ at[a] = "node" /\ node[a] > Len(Groups[group[a]])
    /\ group' = [group EXCEPT ![a] = @ + 1]
    /\ node' = [node EXCEPT ![a] = 1]
    /\ Goto(a, "group")
    /\ UNCHANGED <<body, event, rows, events, links, gateway>>

AtNode(a) == at[a] = "node" /\ node[a] <= Len(Groups[group[a]])

(* TimestampedResourceSerializer: one event, before the first node *)
EventDue(a) ==
    /\ body.form = "timestamped" /\ event[a] = 0
    /\ Len(Groups[group[a]]) > 1 \/ Len(Groups) > 1

FirstEvent(a) ==
    /\ AtNode(a) /\ EventDue(a)
    /\ CreateEvent(a)
    /\ UNCHANGED <<body, at, group, node, rows, links, gateway>>

Current(a) == NodeAt(<<group[a], node[a]>>)

Known(x) == ~x.multi /\ x.res_type # "unknown"

Matches(x) == x.res_type \in DOMAIN Column /\ TypesMatch(x.type, x.res_type)

NextNode(a) == node' = [node EXCEPT ![a] = @ + 1]

(* Mutants of Skip: the request is over, and a mismatch is skipped, too. *)
SkipEnds(a) ==
    /\ AtNode(a) /\ ~EventDue(a) /\ ~Known(Current(a))
    /\ Goto(a, "201")
    /\ UNCHANGED <<body, group, node, event, rows, events, links, gateway>>

SkipMismatch(a) ==
    /\ AtNode(a) /\ ~EventDue(a) /\ ~(Known(Current(a)) /\ Matches(Current(a)))
    /\ NextNode(a)
    /\ UNCHANGED <<body, at, group, event, rows, events, links, gateway>>

(* handle_resource(): a multiple resource or one without a type *)
Skip(a) ==
    /\ AtNode(a) /\ ~EventDue(a) /\ ~Known(Current(a))
    /\ NextNode(a)
    /\ UNCHANGED <<body, at, group, event, rows, events, links, gateway>>

(* handle_resource(): the type does not fit (400), the value cannot be       *)
(* stored (500), or Resource.objects.create()                               *)
Store(a) ==
    LET x == Current(a)
        ok == Matches(x) /\ Stores(x.res_type, Value(x)) # "error"
    IN  /\ AtNode(a) /\ ~EventDue(a) /\ Known(x)
        /\ Goto(a, IF ~Matches(x) THEN "400" ELSE IF ok THEN "link" ELSE "500")
        /\ rows' = IF ok THEN rows \cup {<<a, group[a], node[a]>>} ELSE rows
        /\ UNCHANGED <<body, group, node, event, events, links, gateway>>

(* EventResource.objects.create(); then handle_fota(), which is module Fota   *)
(* and refuses a report of object 5 if there is no update under way.         *)
Link(a) ==
    /\ at[a] = "link"
    /\ links' = IF event[a] = 0 THEN links ELSE links \cup {<<a, event[a], group[a], node[a]>>}
    /\ NextNode(a)
    /\ \/ Goto(a, "node")
       \/ Current(a).obj = 5 /\ Goto(a, "400")
    /\ UNCHANGED <<body, group, event, rows, events, gateway>>

(* A locked database, a broker that is down, a worker that stops. *)
Fail(a) ==
    /\ at[a] \in {"group", "node", "link"}
    /\ Goto(a, "500")
    /\ UNCHANGED <<body, group, node, event, rows, events, links, gateway>>

(* The client gets the answer to its last attempt. *)
Last(a) == at[a] # "new" /\ \A b \in Attempt : b > a => at[b] = "new"

Answer(a) ==
    /\ gateway = "waiting" /\ Last(a)
    /\ \/ at[a] = "201" /\ gateway' = "done"
       \/ at[a] = "400" /\ gateway' = "rejected"
       \/ at[a] = "500" /\ (a = MaxAttempts \/ body.form # "timestamped") /\ gateway' = "dropped"
    /\ UNCHANGED <<body, at, group, node, event, rows, events, links>>

(* It stops, or waits no longer for the last answer. *)
GiveUp ==
    /\ gateway = "waiting"
    /\ gateway' = "dropped"
    /\ UNCHANGED <<body, at, group, node, event, rows, events, links>>

AttemptStep(a) ==
    \/ StartGroup(a) \/ EndGroup(a) \/ FirstEvent(a) \/ Skip(a) \/ Store(a) \/ Link(a)

Next == GiveUp \/ \E a \in Attempt : Begin(a) \/ AttemptStep(a) \/ Fail(a) \/ Answer(a)

Spec == Init /\ [][Next]_vars

-----------------------------------------------------------------------------
(* Properties *)

Storable == {p \in Places : Known(NodeAt(p))}

(* gateway_contract.rst: "201 for a stored request", and "Django skips a      *)
(* resource that has no ResourceType row": when the gateway has its answer,   *)
(* some attempt has stored every other reading.                             *)
AcceptedComplete ==
    gateway = "done" => \E a \in Attempt : \A p \in Storable : <<a, p[1], p[2]>> \in rows

(* A request that fails, or is refused half-way with a 400, leaves the        *)
(* readings before the one it failed at and none after it.                   *)
StoredIsPrefix ==
    \A a \in Attempt, q \in Places, p \in Storable :
        <<a, q[1], q[2]>> \in rows /\ Before(p, q) => <<a, p[1], p[2]>> \in rows

(* gateway_contract.rst: "more than one path or more than one timestamp" *)
Several == Len(Groups) > 1 \/ \E g \in DOMAIN Groups : Len(Groups[g]) > 1

First == CHOOSE x \in Places : \A y \in Places : x = y \/ Before(x, y)

(* The event a reading belongs to, 0 for none: one for a Send of several      *)
(* readings, one per object of a read.                                      *)
EventOf(p) ==
    CASE body.form = "composite" -> p[1]
      [] body.form = "timestamped" /\ Several -> First[1]
      [] OTHER -> 0

(* An attempt that ends with 201 has linked each of its readings to that      *)
(* event and to no other, whatever other attempts did in the meantime.       *)
EventsWhole ==
    \A a \in Attempt : at[a] = "201" =>
        {l \in links : l[1] = a} =
            {<<a, EventOf(p), p[1], p[2]>> : p \in {q \in Places : EventOf(q) # 0 /\
                                                        <<a, q[1], q[2]>> \in rows}}

(* No value of a device makes the request fail with a 500, which the gateway  *)
(* would repeat in vain, and what is stored is what the device sent, but for  *)
(* blanks around a text and a NaN, which becomes NULL.                       *)
ValuesKept ==
    \A p \in Storable :
        LET x == NodeAt(p)
            v == Stores(x.res_type, Value(x))
        IN  ValidData(x.type, Value(x)) /\ Matches(x) =>
                v = x.text \/ (x.type = "STRING" /\ v = Stripped(x.text))
                           \/ (x.type = "FLOAT" /\ x.text = "NaN" /\ v = "NULL")
=============================================================================
