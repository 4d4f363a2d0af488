----------------------------- MODULE DataViews -----------------------------
(***************************************************************************)
(* What the web interface makes of the stored readings: the dashboard, the  *)
(* device list, the pages of values and events, the pump monitor and the    *)
(* exports.  A view asks several queries, and a reader several pages, while *)
(* readings arrive, devices come to the site and leave it, and time passes. *)
(* Which devices a user may see is module SiteAccess.                       *)
(*                                                                          *)
(* Rows are numbered by their id.  Rows with the same time keep the order   *)
(* of their ids, as SQLite's sorter leaves them.                            *)
(***************************************************************************)
EXTENDS Integers, Sequences, FiniteSets, FiniteSetsExt, SequencesExt

CONSTANTS
    Endpoint,
    Readings,    \* what arrives: [ep, type, val, ts], the time left open
    EventTypes,  \* Event.event_type
    Views,       \* the views asked for
    Filters,     \* their query strings: [range, from, to, ep, type, dir]
    PageSize,    \* rows of a page (100 values, 50 events)
    RowLimit,    \* EXPORT_ROW_LIMIT, PUMP_EXPORT_EVENT_LIMIT
    SampleLimit, \* PUMP_EXPORT_ROW_LIMIT
    Ending,      \* ResourceType.name is free text; of a name that reads text[...],
                 \* the text and what is in its last brackets
    Span,        \* length of a relative range
    Delta,       \* width of a bar of the dashboard's chart
    NumSteps,    \* and their number
    Databases,   \* what is stored before: [rows, events]
    StartTime,   \* the clock before
    MaxAhead,    \* bound: how far the clock of a device is ahead
    MaxChanges   \* bound: what happens during the request

Pager == {"values", "events", "pump"}
Export == {"export_values", "export_events", "pump_export"}
OfValues == {"values", "export_values"}
Pump == {"pump", "pump_export"}
PumpEventType == "10300"
Opaque == "pm_press_raw"       \* its values are the numbers of samples

(* Resource and Event rows *)
Row ==
    [ep : Endpoint, type : {Opaque}, val : Nat, ts : Nat]
        \cup [ep : Endpoint, type : STRING \ {Opaque}, val : STRING, ts : Nat]
EventRow == [ep : Endpoint, type : STRING, ts : Nat, links : Seq(Nat)]

(* The label of a column.  In its last brackets, where it ends with brackets, *)
(* are an index as the view prints it, one that int() reads but is written   *)
(* otherwise ("007"), or text that is no number; int is 0 where there is none. *)
Bracket == [kind : {"printed", "number", "text"}, int : Int]
NoBracket == [kind |-> "none", int |-> 0]
Label == [name : STRING, at : Bracket \cup {NoBracket}]

ASSUME DataViewsAssumption ==
    /\ Readings \subseteq Row /\ EventTypes \subseteq STRING
    /\ \A d \in Databases : d.rows \in Seq(Row) /\ d.events \in Seq(EventRow)
    /\ Views \subseteq Pager \cup Export \cup {"dashboard"}
    /\ \A f \in Filters : /\ f.range \in {"last", "custom", "all"} /\ f.dir \in {"asc", "desc"}
                          /\ f.ep \in Endpoint \cup {"all"}
    /\ {PageSize, RowLimit, Delta, NumSteps} \subseteq Nat \ {0}
    /\ {SampleLimit, Span, StartTime, MaxAhead, MaxChanges} \subseteq Nat
    /\ DOMAIN Ending \subseteq STRING
    /\ \A n \in DOMAIN Ending : Ending[n] \in Label /\ Ending[n].at # NoBracket

VARIABLES
    now,      \* the clock, in minutes
    place,    \* each device: "new", "here" (on the site of the reader), "moved"
    rows,     \* Resource: endpoint, type, time, value
    events,   \* Event: endpoint, type, time, and the resources linked to it
    view,     \* what is asked for, "none" before
    filter,   \* its query string
    pc,       \* the next query: "count", "fetch", "bar"; "done", "400", "500"
    asked,    \* timezone.now() of the request under way
    page,     \* the page, or the bar, it is at
    counted,  \* what the query before found
    seen,     \* what the reader, or the file, has got
    data,     \* the bars
    known,    \* history: what there was to see at first
    listed,   \* history: what the queries of the pages have found so far
    late,     \* history: what came between the two queries of a page
    changes   \* history: changes to the database so far

dbVars == <<place, rows, events>>
vars == <<now, dbVars, view, filter, pc, asked, page, counted, seen, data, known, listed, late, changes>>

Init ==
    /\ now = StartTime /\ changes = 0
    /\ place \in [Endpoint -> {"new", "here"}]
    /\ \E d \in Databases : rows = d.rows /\ events = d.events
    /\ view = "none" /\ filter = "none" /\ pc = "start"
    /\ asked = 0 /\ page = 1 /\ data = <<>>
    /\ counted = {} /\ seen = {} /\ known = {} /\ listed = {} /\ late = {}

-----------------------------------------------------------------------------
(* The filters, which data_analysis, its export and the pump monitor parse   *)
(* alike                                                                    *)

(* start_date and end_date.  A custom range ends a minute later, the unit of *)
(* time here, than the reader says.                                         *)
InRange(f, t, ts) ==
    /\ f.range = "last" => ts >= t - Span
    /\ f.range = "custom" => f.from <= ts /\ ts <= f.to + 1

Table(v) == IF v \in OfValues THEN rows ELSE events

(* The rows the query of view v returns when it was parsed at time t *)
Listed(v, f, t) ==
    {i \in DOMAIN Table(v) :
        LET x == Table(v)[i] IN
        /\ place[x.ep] = "here"
        /\ InRange(f, t, x.ts)
        /\ f.ep \in {"all", x.ep}
        /\ IF v \in Pump THEN x.type = PumpEventType ELSE f.type \in {"all", x.type}}

(* order_by(): values by time, events as the reader likes, exports of them  *)
(* newest first                                                             *)
Descending(v, f) == v \notin OfValues /\ (f.dir = "desc" \/ v \in Export)

Precedes(v, f, i, j) ==
    LET s == Table(v)[i].ts
        t == Table(v)[j].ts
    IN  \/ s = t /\ i < j
        \/ IF Descending(v, f) THEN s > t ELSE s < t

Rank(v, f, S, i) == Cardinality({j \in S : Precedes(v, f, j, i)})

(* queryset[bottom:top] *)
Slice(v, f, S, bottom, top) == {i \in S : Rank(v, f, S, i) \in bottom..(top - 1)}

-----------------------------------------------------------------------------
(* Paginator: get_page() counts, and the page is fetched by a second query. *)

NumPages(n) == Max({1, (n + PageSize - 1) \div PageSize})

Ask(v, f) ==
    /\ pc = "start"
    /\ view' = v /\ filter' = f
    /\ asked' = now
    /\ known' = IF v = "dashboard" THEN {i \in DOMAIN rows : place[rows[i].ep] = "here"}
                ELSE Listed(v, f, now)
    /\ pc' = CASE v = "dashboard" -> "bar" [] v = "pump_export" -> "fetch" [] OTHER -> "count"
    /\ UNCHANGED <<now, dbVars, page, counted, seen, data, listed, late, changes>>

(* A page after the last one is the last one. *)
CountPage ==
    /\ view \in Pager /\ pc = "count"
    /\ asked' = now
    /\ counted' = Listed(view, filter, now)
    /\ page' = Min({page, NumPages(Cardinality(counted'))})
    /\ pc' = "fetch" /\ listed' = listed \cup counted'
    /\ UNCHANGED <<now, dbVars, view, filter, seen, data, known, late, changes>>

(* The bytes of an opaque value have no JSON form: the request fails. *)
Unwritable(v, S) == v \in OfValues /\ \E i \in S : rows[i].type = Opaque

(* Mutant of FetchPage: has_next() of the page after it. *)
FetchPageStops ==
    LET n == Cardinality(counted)
        P == Slice(view, filter, Listed(view, filter, asked),
                   (page - 1) * PageSize, Min({page * PageSize, n}))
    IN  /\ view \in Pager /\ pc = "fetch"
        /\ seen' = seen \cup P
        /\ listed' = listed \cup Listed(view, filter, asked)
        /\ late' = late \cup (Listed(view, filter, asked) \ counted)
        /\ pc' = IF page + 1 < NumPages(n) THEN "count" ELSE "done"
        /\ page' = page + 1
        /\ UNCHANGED <<now, dbVars, view, filter, asked, counted, data, known, changes>>

(* The page; while has_next() holds, the reader asks for the next. *)
FetchPage ==
    LET n == Cardinality(counted)
        P == Slice(view, filter, Listed(view, filter, asked),
                   (page - 1) * PageSize, Min({page * PageSize, n}))
    IN  /\ view \in Pager /\ pc = "fetch"
        /\ \/ Unwritable(view, P) /\ pc' = "500" /\ UNCHANGED <<seen, page, listed, late>>
           \/ /\ ~Unwritable(view, P)
              /\ seen' = seen \cup P
              /\ listed' = listed \cup Listed(view, filter, asked)
              /\ late' = late \cup (Listed(view, filter, asked) \ counted)
              /\ \/ page < NumPages(n) /\ pc' = "count" /\ page' = page + 1
                 \/ page = NumPages(n) /\ pc' = "done" /\ UNCHANGED page
        /\ UNCHANGED <<now, dbVars, view, filter, asked, counted, data, known, changes>>

-----------------------------------------------------------------------------
(* Exports *)

(* data_analysis_export(): count(), and 400 over the limit *)
CountExport ==
    /\ view \in Export /\ pc = "count"
    /\ counted' = Listed(view, filter, asked)
    /\ pc' = IF Cardinality(counted') > RowLimit THEN "400" ELSE "fetch"
    /\ UNCHANGED <<now, dbVars, view, filter, asked, page, seen, data, known, listed, late, changes>>

(* The values of a name, in the order in which they were linked to event e *)
Values(e, name) ==
    LET links == events[e].links
        S == {p \in DOMAIN links : rows[links[p]].type = name}
    IN  [k \in 1..Cardinality(S) |->
            links[CHOOSE p \in S : Cardinality({q \in S : q <= p}) = k]]

(* The bytes of the first pm_press_raw resource of an event, b"" if none *)
Samples(e) ==
    LET raw == Values(e, Opaque) IN IF raw = <<>> THEN 0 ELSE rows[raw[1]].val

(* The events sheet: a column for each name or, where an event has several   *)
(* values of it, for each name and index.  The label name[k] of an index and *)
(* a name that is written the same are one column.                           *)
Names(e) == {rows[i].type : i \in ToSet(events[e].links)}

LabelOf(n) == IF n \in DOMAIN Ending THEN Ending[n] ELSE [name |-> n, at |-> NoBracket]

Indexed(n, k) == [name |-> n, at |-> [kind |-> "printed", int |-> k]]

ColumnsOf(e) ==
    UNION {{IF Len(Values(e, n)) = 1 THEN LabelOf(n) ELSE Indexed(n, k - 1) : k \in DOMAIN Values(e, n)} :
              n \in Names(e)}

Columns(S) == UNION {ColumnsOf(e) : e \in S}

(* Mutant of Cell: an index counts from one. *)
CellFromOne(e, c) ==
    LET v == Values(e, c.name) IN
    IF c.at = NoBracket THEN IF Len(v) = 1 THEN v ELSE <<>>
    ELSE IF Len(v) > 1 /\ c.at.int \in DOMAIN v THEN <<v[c.at.int]>> ELSE <<>>

(* What the row of event e has in column c.  A label that ends with brackets  *)
(* is taken apart, whether the view made it or it is a name: an index looks   *)
(* into a list only, a negative one from its end.                            *)
Cell(e, c) ==
    LET v == Values(e, c.name)
        k == c.at.int + IF c.at.int < 0 THEN Len(v) + 1 ELSE 1
    IN  IF c.at = NoBracket THEN IF Len(v) = 1 THEN v ELSE <<>>
        ELSE IF Len(v) > 1 /\ k \in DOMAIN v THEN <<v[k]>> ELSE <<>>

(* int() raises ValueError, or the list IndexError. *)
Unreadable(S) ==
    \E c \in Columns(S) :
        \/ c.at.kind = "text"
        \/ \E e \in S : LET n == Len(Values(e, c.name)) IN n > 1 /\ c.at.int + n < 0

(* The rows of an export.  Bytes that are no text raise an error, and a label *)
(* that cannot be read does in the events sheet.                             *)
FetchExport ==
    /\ view \in Export \ Pump /\ pc = "fetch"
    /\ seen' = Listed(view, filter, asked)
    /\ pc' \in IF view = "export_events" /\ Unreadable(seen') THEN {"500"}
               ELSE IF Unwritable(view, seen') THEN {"done", "500"} ELSE {"done"}
    /\ UNCHANGED <<now, dbVars, view, filter, asked, page, counted, data, known, listed, late, changes>>

(* Mutant of FetchPumpExport: the slice ends at the limit. *)
FetchPumpExportCut ==
    LET S == Slice(view, filter, Listed(view, filter, asked), 0, RowLimit) IN
    /\ view = "pump_export" /\ pc = "fetch"
    /\ seen' = S /\ pc' = "done"
    /\ UNCHANGED <<now, dbVars, view, filter, asked, page, counted, data, known, listed, late, changes>>

(* pump_monitor_export(): one event more than the limit is asked for, and    *)
(* 400 for too many events or samples.                                      *)
FetchPumpExport ==
    LET S == Slice(view, filter, Listed(view, filter, asked), 0, RowLimit + 1) IN
    /\ view = "pump_export" /\ pc = "fetch"
    /\ \/ /\ Cardinality(S) > RowLimit \/ \E e \in S : Samples(e) > SampleLimit
          /\ pc' = "400" /\ UNCHANGED seen
       \/ /\ Cardinality(S) <= RowLimit /\ \A e \in S : Samples(e) <= SampleLimit
          /\ pc' = "done" /\ seen' = S
    /\ UNCHANGED <<now, dbVars, view, filter, asked, page, counted, data, known, listed, late, changes>>

-----------------------------------------------------------------------------
(* The dashboard *)

(* Mutant of Bar: the end of a bar belongs to it. *)
BarClosed(k) ==
    LET start == asked - (asked % Delta) - (NumSteps - k) * Delta IN
    {i \in DOMAIN rows : place[rows[i].ep] = "here" /\ rows[i].ts \in start..(start + Delta)}

(* The readings of bar k of NumSteps; the last one holds the time of the     *)
(* request.                                                                 *)
Bar(k) ==
    LET start == asked - (asked % Delta) - (NumSteps - k) * Delta IN
    {i \in DOMAIN rows : place[rows[i].ep] = "here" /\ rows[i].ts \in start..(start + Delta - 1)}

CountBar ==
    /\ view = "dashboard" /\ pc = "bar"
    /\ data' = Append(data, Cardinality(Bar(page)))
    /\ page' = page + 1
    /\ pc' = IF page = NumSteps THEN "done" ELSE "bar"
    /\ UNCHANGED <<now, dbVars, view, filter, asked, counted, seen, known, listed, late, changes>>

-----------------------------------------------------------------------------
(* The database *)

Change ==
    /\ pc # "start" /\ changes < MaxChanges
    /\ changes' = changes + 1
    /\ UNCHANGED <<view, filter, pc, asked, page, counted, seen, data, known, listed, late>>

Tick ==
    /\ Change
    /\ now' = now + 1
    /\ UNCHANGED dbVars

(* A device comes to the site, or is transferred to another. *)
Move(e) ==
    /\ Change
    /\ place[e] # "moved"
    /\ place' = [place EXCEPT ![e] = IF @ = "new" THEN "here" ELSE "moved"]
    /\ UNCHANGED <<now, rows, events>>

(* Resource.save(): the time is the device's, whose clock may be ahead, or now *)
(* where it sends none.                                                     *)
AddReading(x, ts) ==
    /\ Change
    /\ rows' = Append(rows, [x EXCEPT !.ts = ts])
    /\ UNCHANGED <<now, place, events>>

(* create_event(): Event.time is now *)
AddEvent(e, type) ==
    /\ Change
    /\ events' = Append(events, [ep |-> e, type |-> type, ts |-> now, links |-> <<>>])
    /\ UNCHANGED <<now, place, rows>>

(* EventResource.objects.create(): the reading stored last, and an event of  *)
(* its device                                                               *)
LinkReading(e) ==
    /\ Change
    /\ rows # <<>> /\ events[e].ep = rows[Len(rows)].ep
    /\ Len(rows) \notin ToSet(events[e].links)
    /\ events' = [events EXCEPT ![e].links = Append(@, Len(rows))]
    /\ UNCHANGED <<now, place, rows>>

Next ==
    \/ Tick
    \/ \E e \in Endpoint : Move(e) \/ \E type \in EventTypes : AddEvent(e, type)
    \/ \E x \in Readings, ts \in 0..(now + MaxAhead) : AddReading(x, ts)
    \/ \E e \in DOMAIN events : LinkReading(e)
    \/ \E v \in Views, f \in Filters : Ask(v, f)
    \/ CountPage \/ FetchPage
    \/ CountExport \/ FetchExport \/ FetchPumpExport
    \/ CountBar

Spec == Init /\ [][Next]_vars
-----------------------------------------------------------------------------
(* Properties *)

(* Who turns the pages to the last one misses, of what was there when he     *)
(* began and still is, no more rows than have left the list in front of      *)
(* them (a relative range goes on with the clock, a device is transferred)   *)
(* or came between the two queries of one page.  Where neither happens he    *)
(* misses none, however many rows arrive meanwhile.                          *)
MissedBounded ==
    LET still == Listed(view, filter, asked)
        missed == (known \cap still) \ seen
        left == {i \in (known \cup listed) \ still : \E m \in missed : Precedes(view, filter, i, m)}
    IN  view \in Pager /\ pc = "done" => Cardinality(missed) <= Cardinality(left) + Cardinality(late)

(* data_analysis_export(): "all rows matching the current filter": a file    *)
(* has all of what was there when it was asked for and still is, and it      *)
(* exceeds the limit only by rows that came after they were counted.         *)
ExportWhole ==
    view \in Export /\ pc = "done" =>
        /\ known \cap Listed(view, filter, asked) \subseteq seen
        /\ Cardinality(seen \cap (counted \cup known)) <= RowLimit

(* data_analysis_export(): "Array resources produce indexed columns".  A sheet *)
(* that is written has every value whose name does not end with brackets in  *)
(* the row of its event, whatever other names, and events with fewer or more *)
(* values of the same name, are in the sheet; where no name does, every value *)
(* has one cell.                                                            *)
SheetLossless ==
    view = "export_events" => \A S \in SUBSET DOMAIN events : ~Unreadable(S) => \A e \in S :
        LET links == events[e].links
            filled == {c \in Columns(S) : Cell(e, c) # <<>>}
        IN  /\ \A i \in ToSet(links) :
                  rows[i].type \notin DOMAIN Ending => \E c \in filled : Cell(e, c) = <<i>>
            /\ (\A d \in S : Names(d) \cap DOMAIN Ending = {}) => Cardinality(filled) = Len(links)

(* What the bars hold together *)
Sum(s) ==
    LET total[k \in 0..Len(s)] == IF k = 0 THEN 0 ELSE total[k - 1] + s[k]
    IN  total[Len(s)]

(* The bars hold the readings of the time they span, none left out at an     *)
(* edge and none counted twice, whatever arrives while they are counted.     *)
BarsComplete ==
    LET sum == Sum(data)
        recent(t) == {i \in DOMAIN rows : rows[i].ts > t}
    IN  view = "dashboard" /\ pc = "done" =>
            /\ Cardinality({i \in known \cap recent(asked - (NumSteps - 1) * Delta) :
                              place[rows[i].ep] = "here" /\ rows[i].ts <= asked}) <= sum
            /\ sum <= Cardinality(recent(asked - NumSteps * Delta))
=============================================================================
