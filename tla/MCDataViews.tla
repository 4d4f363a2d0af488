---------------------------- MODULE MCDataViews ----------------------------
(* Instances of DataViews for TLC. *)
EXTENDS DataViews

LOCAL INSTANCE TLC

FirmwareVersion == "firmware_version"

R(e, t, v) == [ep |-> e, type |-> t, val |-> v, ts |-> 0]
E(e, t, l) == [ep |-> e, type |-> PumpEventType, ts |-> t, links |-> l]
F(r, e, d) == [range |-> r, from |-> 0, to |-> 0, ep |-> e, type |-> "all", dir |-> d]

MCReadings == {R("a", FirmwareVersion, "1"), R("b", Opaque, 1)}

MCFilters == {F("last", "all", "asc"), F("last", "all", "desc"),
              F("custom", "all", "asc"),
              [F("all", "a", "asc") EXCEPT !.type = FirmwareVersion]}

(* Names that end with brackets: one like the label of an index, one that     *)
(* counts from behind the list, one with a unit.                             *)
Bracketed(n, k, i) == [name |-> n, at |-> [kind |-> k, int |-> i]]
MCEnding == "adc[0]" :> Bracketed("adc", "printed", 0) @@ "adc[-3]" :> Bracketed("adc", "printed", -3)
                @@ "Temp [C]" :> Bracketed("Temp ", "text", 0)

(* Two readings at any time; two events at any time; two events with three   *)
(* values of any names.                                                      *)
Old == {[x EXCEPT !.ts = t] : x \in MCReadings, t \in 0..1}
MCDatabases ==
    {[rows |-> r, events |-> <<>>] : r \in Old \X Old}
        \cup {[rows |-> <<>>, events |-> <<E(d, s, <<>>), E(e, t, <<>>)>>] :
                 d, e \in {"a", "b"}, s, t \in 0..1}
        \cup {[rows |-> r, events |-> <<E("a", 0, <<1, 2>>), E("b", 0, <<3>>)>>] :
                 r \in {<<R("a", x, "1"), R("a", y, "1"), R("b", z, "1")>> :
                          x, y, z \in {"adc", "model_number"} \cup DOMAIN MCEnding}}

(* Bounds: the behaviour ends with the answer; files and charts see two      *)
(* changes, the sheet of events with values none, lists see three; a table   *)
(* that a view does not show is empty, a name it does not know not there, and *)
(* a filter that it does not have always the same.                           *)
Unanswered == pc \notin {"done", "400", "500"}
OfReadings == OfValues \cup {"dashboard"}
Bounded ==
    /\ view \in Export \cup {"dashboard"} => changes < MaxChanges
    /\ view \in OfReadings => events = <<>>
    /\ view \in {"events", "pump"} => rows = <<>>
    /\ view = "export_events" => rows = <<>> \/ changes = 0
    /\ view = "pump_export" => \A i \in DOMAIN rows : rows[i].type \in {FirmwareVersion, Opaque}
    /\ view \in OfReadings \cup Export => filter.dir = "asc"
    /\ view = "dashboard" => filter.range = "all"
=============================================================================
