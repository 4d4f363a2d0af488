--------------------------- MODULE DataViewsProofs ---------------------------
(***************************************************************************)
(* The exports, the pages, the events sheet and the chart, for any         *)
(* database and any number of changes while they are made.  Rows are only  *)
(* added, their device, type and time stay, and a device that left the     *)
(* site does not come back: what was listed at first and is listed at the  *)
(* end was listed all the time, and what a bar counted and is still there  *)
(* is counted once.                                                        *)
(***************************************************************************)
EXTENDS DataViews, FiniteSetTheorems, WellFoundedInduction, TLAPS

Types ==
    /\ now \in Nat
    /\ place \in [Endpoint -> {"new", "here", "moved"}]
    /\ rows \in Seq(Row)
    /\ events \in Seq(EventRow)

(* What the filter says of a row, wherever its device is. *)
Fits(v, f, t, i) ==
    LET x == Table(v)[i] IN
    /\ i \in DOMAIN Table(v)
    /\ InRange(f, t, x.ts)
    /\ f.ep \in {"all", x.ep}
    /\ IF v \in Pump THEN x.type = PumpEventType ELSE f.type \in {"all", x.type}

Moved(i) == place[Table(view)[i].ep] = "moved"

(* What was there at first fits, and its device is here or has left. *)
KnownOK ==
    pc \in {"count", "fetch", "done"} =>
        \A i \in known : Fits(view, filter, asked, i) /\ place[Table(view)[i].ep] \in {"here", "moved"}

(* What is counted is within the limit and misses only what has left. *)
CountedOK ==
    view \notin Pump /\ pc \in {"fetch", "done"} =>
        /\ IsFiniteSet(counted) /\ Cardinality(counted) <= RowLimit
        /\ \A i \in known : i \in counted \/ Moved(i)

(* And so does the file. *)
SeenOK ==
    pc = "done" =>
        /\ \A i \in known : i \in seen \/ Moved(i)
        /\ view \notin Pump => seen \cap known \subseteq counted
        /\ view \in Pump => IsFiniteSet(seen) /\ Cardinality(seen) <= RowLimit

(* The export of the pump monitor does not count. *)
PumpOK ==
    /\ pc = "start" => counted = {} /\ view = "none"
    /\ view = "pump_export" => pc # "count" /\ counted = {}

EInv == Types /\ PumpOK /\ (view \in Export => KnownOK /\ CountedOK /\ SeenOK)

-----------------------------------------------------------------------------
(* The tables. *)

LEMMA Tables ==
    ASSUME Types, NEW v
    PROVE  /\ Len(Table(v)) \in Nat /\ DOMAIN Table(v) = 1..Len(Table(v))
           /\ \A i \in DOMAIN Table(v) : Table(v)[i].ep \in Endpoint /\ Table(v)[i].ts \in Nat
<1>1. CASE v \in OfValues
  BY <1>1 DEF Types, Table, Row
<1>2. CASE v \notin OfValues
  <2>1. /\ Table(v) = events /\ Len(events) \in Nat /\ DOMAIN events = 1..Len(events)
        /\ \A i \in DOMAIN events : events[i] \in EventRow
    BY <1>2 DEF Types, Table
  <2>2. \A x \in EventRow : x.ep \in Endpoint /\ x.ts \in Nat
    BY DEF EventRow
  <2> QED BY <2>1, <2>2
<1> QED BY <1>1, <1>2

(* What a view lists is finite. *)
LEMMA ListedFinite ==
    ASSUME Types, NEW v, NEW f, NEW t
    PROVE  /\ Listed(v, f, t) = {i \in DOMAIN Table(v) : Fits(v, f, t, i) /\ place[Table(v)[i].ep] = "here"}
           /\ IsFiniteSet(Listed(v, f, t)) /\ Cardinality(Listed(v, f, t)) \in Nat
<1>1. Listed(v, f, t) = {i \in DOMAIN Table(v) : Fits(v, f, t, i) /\ place[Table(v)[i].ep] = "here"}
  BY DEF Listed, Fits
<1>2. IsFiniteSet(DOMAIN Table(v))
  <2>1. 1 \in Int /\ Len(Table(v)) \in Int /\ DOMAIN Table(v) = 1..Len(Table(v))
    BY Tables
  <2> QED BY <2>1, FS_Interval
<1>3. Listed(v, f, t) \in SUBSET DOMAIN Table(v)
  BY <1>1
<1> QED BY <1>1, <1>2, <1>3, FS_Subset, FS_CardinalityType

(* The database changes by rows that are added, links, and devices that come *)
(* and leave.                                                                *)
Grown ==
    /\ \A v : \A i \in DOMAIN Table(v) :
          /\ i \in DOMAIN Table(v)'
          /\ Table(v)'[i].ep = Table(v)[i].ep /\ Table(v)'[i].ts = Table(v)[i].ts
          /\ Table(v)'[i].type = Table(v)[i].type
    /\ \A e \in Endpoint : /\ place[e] = "moved" => place'[e] = "moved"
                           /\ place[e] = "here" => place'[e] \in {"here", "moved"}

LEMMA Extended ==
    ASSUME NEW S, NEW s \in Seq(S), NEW x \in S
    PROVE  /\ Append(s, x) \in Seq(S)
           /\ \A i \in DOMAIN s : i \in DOMAIN Append(s, x) /\ Append(s, x)[i] = s[i]
OBVIOUS

LEMMA DbStep ==
    ASSUME Types, [Next]_vars
    PROVE  Types' /\ Grown
<1>1. CASE UNCHANGED <<now, dbVars>>
  BY <1>1 DEF dbVars, Types, Grown, Table
<1>2. CASE Tick
  BY <1>2 DEF Tick, dbVars, Types, Grown, Table
<1>3. ASSUME NEW e \in Endpoint, Move(e) PROVE Types' /\ Grown
  BY <1>3 DEF Move, Types, Grown, Table
<1>4. ASSUME NEW e \in Endpoint, NEW type \in EventTypes, AddEvent(e, type) PROVE Types' /\ Grown
  <2> DEFINE x == [ep |-> e, type |-> type, ts |-> now, links |-> <<>>]
  <2>1. x \in EventRow
    BY DataViewsAssumption DEF Types, EventRow
  <2>2. events' = Append(events, x) /\ UNCHANGED <<now, place, rows>>
    BY <1>4 DEF AddEvent
  <2> HIDE DEF x
  <2>3. events' \in Seq(EventRow) /\ \A i \in DOMAIN events : i \in DOMAIN events' /\ events'[i] = events[i]
    BY <2>1, <2>2, Extended DEF Types
  <2> QED BY <2>2, <2>3 DEF Types, Grown, Table
<1>5. ASSUME NEW x \in Readings, NEW ts \in 0..(now + MaxAhead), AddReading(x, ts) PROVE Types' /\ Grown
  <2> DEFINE y == [x EXCEPT !.ts = ts]
  <2>1. x \in Row /\ ts \in Nat
    BY DataViewsAssumption DEF Types
  <2>2. y \in Row
    BY <2>1 DEF Row
  <2>3. rows' = Append(rows, y) /\ UNCHANGED <<now, place, events>>
    BY <1>5 DEF AddReading
  <2> HIDE DEF y
  <2>4. rows' \in Seq(Row) /\ \A i \in DOMAIN rows : i \in DOMAIN rows' /\ rows'[i] = rows[i]
    BY <2>2, <2>3, Extended DEF Types
  <2> QED BY <2>3, <2>4 DEF Types, Grown, Table
<1>6. ASSUME NEW e \in DOMAIN events, LinkReading(e) PROVE Types' /\ Grown
  <2> DEFINE l == Append(events[e].links, Len(rows))
  <2>1. events' = [events EXCEPT ![e].links = l] /\ UNCHANGED <<now, place, rows>>
    BY <1>6 DEF LinkReading
  <2>2. events[e] \in EventRow /\ l \in Seq(Nat)
    <3>1. events[e] \in EventRow /\ Len(rows) \in Nat
      BY DEF Types
    <3>2. events[e].links \in Seq(Nat)
      BY <3>1 DEF EventRow
    <3> QED BY <3>1, <3>2
  <2> HIDE DEF l
  <2>3. [events[e] EXCEPT !.links = l] \in EventRow
    BY <2>2 DEF EventRow
  <2>4. events' = [events EXCEPT ![e] = [events[e] EXCEPT !.links = l]]
    BY <2>1
  <2>5. events' \in Seq(EventRow)
    BY <2>3, <2>4 DEF Types
  <2>6. /\ DOMAIN events' = DOMAIN events
        /\ \A i \in DOMAIN events : events'[i] = IF i = e THEN [events[e] EXCEPT !.links = l] ELSE events[i]
    BY <2>4 DEF Types
  <2>7. LET x == [events[e] EXCEPT !.links = l]
        IN  x.ep = events[e].ep /\ x.ts = events[e].ts /\ x.type = events[e].type
    BY <2>2 DEF EventRow
  <2> QED BY <2>1, <2>5, <2>6, <2>7 DEF Types, Grown, Table
<1>7. ASSUME NEW v \in Views, NEW f \in Filters, Ask(v, f) PROVE Types' /\ Grown
  BY <1>1, <1>7 DEF Ask
<1>8. CASE CountPage \/ FetchPage \/ CountExport \/ FetchExport \/ FetchPumpExport \/ CountBar
  BY <1>1, <1>8 DEF CountPage, FetchPage, CountExport, FetchExport, FetchPumpExport, CountBar
<1> QED BY <1>1, <1>2, <1>3, <1>4, <1>5, <1>6, <1>7, <1>8 DEF Next, vars

(* A row that fits still does, and one whose device has left stays away. *)
LEMMA FitsOn ==
    ASSUME Types, Grown, UNCHANGED <<view, filter, asked>>, NEW i, Fits(view, filter, asked, i),
           place[Table(view)[i].ep] \in {"here", "moved"}
    PROVE  /\ Fits(view, filter, asked, i)' /\ place'[Table(view)'[i].ep] \in {"here", "moved"}
           /\ Moved(i) => Moved(i)'
<1>1. i \in DOMAIN Table(view)
  BY DEF Fits
<1>2. Table(view)[i].ep \in Endpoint
  BY <1>1, Tables
<1>3. /\ i \in DOMAIN Table(view)'
      /\ Table(view)'[i].ep = Table(view)[i].ep /\ Table(view)'[i].ts = Table(view)[i].ts
      /\ Table(view)'[i].type = Table(view)[i].type
  BY <1>1 DEF Grown, Table
<1>4. place'[Table(view)'[i].ep] \in {"here", "moved"} /\ (Moved(i) => Moved(i)')
  BY <1>2, <1>3 DEF Grown, Moved, Table
<1>5. Fits(view, filter, asked, i)'
  BY <1>3 DEF Fits, InRange, Table
<1> QED BY <1>4, <1>5

-----------------------------------------------------------------------------
(* queryset[:limit + 1] of the pump monitor's export *)

(* Precedes is a strict order. *)
LEMMA Order ==
    ASSUME Types, NEW v, NEW f, NEW i \in DOMAIN Table(v), NEW j \in DOMAIN Table(v),
           NEW k \in DOMAIN Table(v)
    PROVE  /\ ~Precedes(v, f, i, i)
           /\ Precedes(v, f, i, j) /\ Precedes(v, f, j, k) => Precedes(v, f, i, k)
<1>1. \A x \in DOMAIN Table(v) : x \in Nat /\ Table(v)[x].ts \in Nat
  BY Tables
<1> QED BY <1>1 DEF Precedes

LEMMA LeastNatural ==
    ASSUME NEW T \in SUBSET Nat, T # {}
    PROVE  \E n \in T : \A m \in T : n <= m
<1>1. IsWellFoundedOn(OpToRel(<, Nat), Nat)
  BY NatLessThanWellFounded
<1>2. PICK n \in T : \A m \in T : ~(<<m, n>> \in OpToRel(<, Nat))
  BY <1>1, WFMin, Zenon
<1>3. ASSUME NEW m \in T PROVE n <= m
  <2>1. ~(m < n)
    BY <1>2 DEF OpToRel
  <2> QED BY <2>1
<1> QED BY <1>3

(* A slice from the start that does not fill is all there is: of what it     *)
(* leaves out, the first would have everything before it, more than the      *)
(* slice has, in the slice.                                                  *)
LEMMA ShortSlice ==
    ASSUME Types, NEW v, NEW f, NEW L \in SUBSET DOMAIN Table(v), IsFiniteSet(L), NEW n \in Nat,
           Cardinality(Slice(v, f, L, 0, n + 1)) <= n
    PROVE  Slice(v, f, L, 0, n + 1) = L
<1> DEFINE S == Slice(v, f, L, 0, n + 1)
           rank(i) == Rank(v, f, L, i)
           front(i) == {j \in L : Precedes(v, f, j, i)}
           O == L \ S
<1>1. \A i \in L : /\ front(i) \in SUBSET L /\ IsFiniteSet(front(i))
                   /\ rank(i) = Cardinality(front(i)) /\ rank(i) \in Nat
  <2> SUFFICES ASSUME NEW i \in L
               PROVE  /\ front(i) \in SUBSET L /\ IsFiniteSet(front(i))
                      /\ rank(i) = Cardinality(front(i)) /\ rank(i) \in Nat
    OBVIOUS
  <2>1. front(i) \in SUBSET L /\ rank(i) = Cardinality(front(i))
    BY DEF Rank
  <2>2. IsFiniteSet(front(i))
    BY <2>1, FS_Subset
  <2> QED BY <2>1, <2>2, FS_CardinalityType
<1>2. /\ S \in SUBSET L /\ Cardinality(S) <= n
      /\ \A i \in L : i \in S <=> rank(i) \in 0..(n + 1 - 1)
      /\ \A i, j \in L : j \in front(i) <=> Precedes(v, f, j, i)
  BY DEF Slice
<1> HIDE DEF S, rank, front
<1>3. IsFiniteSet(S) /\ Cardinality(S) \in Nat
  BY <1>2, FS_Subset, FS_CardinalityType
<1> SUFFICES ASSUME O # {} PROVE FALSE
  BY <1>2 DEF S
<1>4. PICK i \in O : \A j \in O : rank(i) <= rank(j)
  <2> DEFINE T == {rank(j) : j \in O}
  <2>1. T \in SUBSET Nat /\ T # {}
    BY <1>1
  <2>2. PICK m \in T : \A k \in T : m <= k
    <3> HIDE DEF T
    <3> QED BY <2>1, LeastNatural
  <2> QED BY <2>2
<1>5. i \in L /\ rank(i) > n
  <2>1. i \in L /\ rank(i) \in Nat /\ ~(rank(i) \in 0..(n + 1 - 1))
    BY <1>1, <1>2
  <2> QED BY <2>1
<1>6. ASSUME NEW j \in front(i) PROVE j \in S
  <2>1. j \in L /\ Precedes(v, f, j, i)
    BY <1>1, <1>2, <1>5
  <2>2. front(j) \in SUBSET front(i) /\ j \notin front(j)
    BY <1>1, <1>2, <1>5, <2>1, Order
  <2>3. Cardinality(front(j)) <= Cardinality(front(i)) /\ Cardinality(front(j)) # Cardinality(front(i))
    BY <1>1, <1>5, <2>2, FS_Subset
  <2>4. rank(j) \in Nat /\ rank(i) \in Nat /\ rank(j) <= rank(i) /\ rank(j) # rank(i)
    BY <1>1, <1>5, <2>1, <2>3
  <2>5. ~(rank(i) <= rank(j))
    BY <2>4
  <2> QED BY <1>4, <2>1, <2>5
<1>7. front(i) \in SUBSET S
  BY <1>6
<1>8. Cardinality(front(i)) <= Cardinality(S)
  BY <1>3, <1>7, FS_Subset
<1>9. rank(i) \in Nat /\ rank(i) <= Cardinality(S)
  BY <1>1, <1>5, <1>8
<1> QED BY <1>2, <1>3, <1>5, <1>9

-----------------------------------------------------------------------------
(* The invariant of the exports *)

ExportOK == view \in Export => KnownOK /\ CountedOK /\ SeenOK

(* What was there at first stays so while the database changes. *)
LEMMA KnownStays ==
    ASSUME Types, KnownOK, Grown, UNCHANGED <<view, filter, asked, known>>,
           pc \in {"count", "fetch", "done"}, NEW i \in known
    PROVE  /\ Fits(view, filter, asked, i)' /\ place'[Table(view)'[i].ep] \in {"here", "moved"}
           /\ Moved(i) => Moved(i)'
BY FitsOn DEF KnownOK

LEMMA ChangeOK ==
    ASSUME EInv, Grown, UNCHANGED <<view, filter, pc, asked, counted, seen, known>>
    PROVE  PumpOK' /\ ExportOK'
<1>1. PumpOK'
  BY DEF EInv, PumpOK
<1>2. ASSUME view \in Export PROVE KnownOK' /\ CountedOK' /\ SeenOK'
  <2>1. CASE pc \in {"count", "fetch", "done"}
    <3>1. \A i \in known : /\ Fits(view, filter, asked, i)'
                           /\ place'[Table(view)'[i].ep] \in {"here", "moved"}
                           /\ Moved(i) => Moved(i)'
      BY <1>2, <2>1, KnownStays DEF EInv
    <3>2. KnownOK'
      BY <3>1 DEF KnownOK
    <3>3. CountedOK'
      BY <1>2, <3>1 DEF EInv, CountedOK
    <3>4. SeenOK'
      BY <1>2, <3>1 DEF EInv, SeenOK
    <3> QED BY <3>2, <3>3, <3>4
  <2>2. CASE pc \notin {"count", "fetch", "done"}
    BY <2>2 DEF KnownOK, CountedOK, SeenOK
  <2> QED BY <2>1, <2>2
<1> QED BY <1>1, <1>2 DEF ExportOK

LEMMA AskOK ==
    ASSUME EInv, NEW v \in Views, NEW f \in Filters, Ask(v, f)
    PROVE  PumpOK' /\ ExportOK'
<1>1. /\ pc = "start" /\ view' = v /\ filter' = f /\ asked' = now /\ counted' = counted
      /\ UNCHANGED <<place, rows, events>> /\ counted = {}
  BY DEF Ask, dbVars, EInv, PumpOK
<1>2. CASE v \in Export
  <2>1. v # "dashboard" /\ (v \in Pump => v = "pump_export")
    BY <1>2 DEF Export, Pump
  <2>2. known' = Listed(v, f, now) /\ pc' = IF v \in Pump THEN "fetch" ELSE "count"
    BY <1>2, <2>1 DEF Ask, Pump
  <2>3. \A i \in known' : Fits(v, f, now, i) /\ place[Table(v)[i].ep] = "here"
    BY <2>2, ListedFinite DEF EInv
  <2>4. Table(v)' = Table(v)
    BY <1>1 DEF Table
  <2>5. \A i : Fits(view, filter, asked, i)' <=> Fits(v, f, now, i)
    BY <1>1, <2>4 DEF Fits, InRange, Table
  <2>6. KnownOK'
    BY <1>1, <2>3, <2>5 DEF KnownOK, Table
  <2>7. CountedOK' /\ SeenOK' /\ PumpOK'
    BY <1>1, <2>1, <2>2 DEF CountedOK, SeenOK, PumpOK, Pump
  <2> QED BY <2>6, <2>7 DEF ExportOK
<1>3. CASE v \notin Export
  <2>1. v # "pump_export" /\ pc' # "start"
    BY <1>3 DEF Export, Ask
  <2> QED BY <1>1, <1>3, <2>1 DEF PumpOK, ExportOK
<1> QED BY <1>2, <1>3

(* A step that leaves the database alone. *)
LEMMA FixedDb ==
    ASSUME UNCHANGED <<dbVars, view, filter, asked>>
    PROVE  \A i : /\ Fits(view, filter, asked, i)' <=> Fits(view, filter, asked, i)
                  /\ place'[Table(view)'[i].ep] = place[Table(view)[i].ep]
                  /\ Moved(i)' <=> Moved(i)
<1>1. Table(view)' = Table(view) /\ place' = place
  BY DEF Table, dbVars
<1> QED BY <1>1 DEF Fits, InRange, Moved, Table

(* What was there at first is listed, unless its device has left. *)
LEMMA KnownListed ==
    ASSUME Types, KnownOK, pc \in {"count", "fetch", "done"}, NEW i \in known
    PROVE  i \in Listed(view, filter, asked) <=> ~Moved(i)
<1>1. /\ Fits(view, filter, asked, i) /\ place[Table(view)[i].ep] \in {"here", "moved"}
      /\ i \in DOMAIN Table(view)
  BY DEF KnownOK, Fits
<1> QED BY <1>1, ListedFinite DEF Moved

LEMMA CountExportOK ==
    ASSUME EInv, CountExport
    PROVE  PumpOK' /\ ExportOK'
<1> DEFINE L == Listed(view, filter, asked)
<1>1. /\ view \in Export /\ pc = "count" /\ counted' = L
      /\ pc' = IF Cardinality(L) > RowLimit THEN "400" ELSE "fetch"
      /\ UNCHANGED <<dbVars, view, filter, asked, seen, known>>
  BY DEF CountExport
<1>2. view \notin Pump
  BY <1>1 DEF EInv, PumpOK, Export, Pump
<1>3. Types /\ KnownOK
  BY <1>1 DEF EInv
<1>4. IsFiniteSet(L) /\ Cardinality(L) \in Nat /\ RowLimit \in Nat
  BY <1>3, ListedFinite, DataViewsAssumption
<1>5. \A i \in known : i \in L \/ Moved(i)
  BY <1>1, <1>3, KnownListed
<1> HIDE DEF L
<1>6. KnownOK'
  BY <1>1, <1>3, FixedDb DEF KnownOK
<1>7. CountedOK'
  <2>1. pc' = "fetch" => Cardinality(L) <= RowLimit
    BY <1>1, <1>4
  <2>2. pc' # "done"
    BY <1>1
  <2> QED BY <1>1, <1>4, <1>5, <2>1, <2>2, FixedDb DEF CountedOK
<1>8. SeenOK'
  BY <1>1 DEF SeenOK
<1>9. PumpOK'
  BY <1>1, <1>2 DEF PumpOK, Pump
<1> QED BY <1>6, <1>7, <1>8, <1>9 DEF ExportOK

LEMMA FetchExportOK ==
    ASSUME EInv, FetchExport
    PROVE  PumpOK' /\ ExportOK'
<1> DEFINE L == Listed(view, filter, asked)
<1>1. /\ view \in Export /\ view \notin Pump /\ pc = "fetch" /\ seen' = L /\ pc' \in {"done", "500"}
      /\ UNCHANGED <<dbVars, view, filter, asked, counted, known>>
  BY DEF FetchExport
<1>2. Types /\ KnownOK /\ CountedOK
  BY <1>1 DEF EInv
<1>3. \A i \in known : i \in L <=> ~Moved(i)
  BY <1>1, <1>2, KnownListed
<1>4. /\ IsFiniteSet(counted) /\ Cardinality(counted) <= RowLimit
      /\ \A i \in known : i \in counted \/ Moved(i)
  BY <1>1, <1>2 DEF CountedOK
<1> HIDE DEF L
<1>5. KnownOK'
  BY <1>1, <1>2, FixedDb DEF KnownOK
<1>6. CountedOK'
  BY <1>1, <1>4, FixedDb DEF CountedOK
<1>7. SeenOK'
  BY <1>1, <1>3, <1>4, FixedDb DEF SeenOK
<1>8. PumpOK'
  BY <1>1 DEF PumpOK, Pump
<1> QED BY <1>5, <1>6, <1>7, <1>8 DEF ExportOK

LEMMA FetchPumpExportOK ==
    ASSUME EInv, FetchPumpExport
    PROVE  PumpOK' /\ ExportOK'
<1> DEFINE L == Listed(view, filter, asked)
           S == Slice(view, filter, L, 0, RowLimit + 1)
<1>1. /\ view = "pump_export" /\ view \in Export /\ view \in Pump /\ pc = "fetch"
      /\ pc' = "400" \/ (pc' = "done" /\ seen' = S /\ Cardinality(S) <= RowLimit)
      /\ UNCHANGED <<dbVars, view, filter, asked, counted, known>>
  BY DEF FetchPumpExport, Export, Pump
<1>2. Types /\ KnownOK /\ PumpOK
  BY <1>1 DEF EInv
<1>3. \A i \in known : i \in L <=> ~Moved(i)
  BY <1>1, <1>2, KnownListed
<1>4. L \in SUBSET DOMAIN Table(view) /\ IsFiniteSet(L) /\ RowLimit \in Nat
  BY <1>2, ListedFinite, DataViewsAssumption
<1> HIDE DEF L
<1>5. pc' = "done" => S = L
  BY <1>1, <1>2, <1>4, ShortSlice
<1> HIDE DEF S
<1>6. KnownOK'
  BY <1>1, <1>2, FixedDb DEF KnownOK
<1>7. CountedOK'
  BY <1>1 DEF CountedOK
<1>8. SeenOK'
  BY <1>1, <1>3, <1>4, <1>5, FixedDb DEF SeenOK
<1>9. PumpOK'
  BY <1>1, <1>2 DEF PumpOK
<1> QED BY <1>6, <1>7, <1>8, <1>9 DEF ExportOK

LEMMA NextEInv == EInv /\ [Next]_vars => EInv'
<1> SUFFICES ASSUME EInv, [Next]_vars PROVE EInv'
  OBVIOUS
<1>1. Types' /\ Grown
  BY DbStep DEF EInv
<1>2. ASSUME UNCHANGED <<view, filter, pc, asked, counted, seen, known>> PROVE PumpOK' /\ ExportOK'
  BY <1>1, <1>2, ChangeOK
<1>3. ASSUME Change PROVE PumpOK' /\ ExportOK'
  BY <1>2, <1>3 DEF Change
<1>4. CASE CountPage \/ FetchPage \/ CountBar
  <2>1. view' \notin Export /\ pc' # "start"
    BY <1>4 DEF CountPage, FetchPage, CountBar, Export, Pager
  <2> QED BY <1>1, <2>1 DEF EInv, PumpOK, Export
<1>5. PumpOK' /\ ExportOK' => EInv'
  BY <1>1 DEF EInv, ExportOK
<1>6. CASE Tick
  BY <1>3, <1>5, <1>6 DEF Tick
<1>7. ASSUME NEW e \in Endpoint, Move(e) \/ \E type \in EventTypes : AddEvent(e, type) PROVE EInv'
  BY <1>3, <1>5, <1>7 DEF Move, AddEvent
<1>8. ASSUME NEW x \in Readings, NEW ts \in 0..(now + MaxAhead), AddReading(x, ts) PROVE EInv'
  BY <1>3, <1>5, <1>8 DEF AddReading
<1>9. ASSUME NEW e \in DOMAIN events, LinkReading(e) PROVE EInv'
  BY <1>3, <1>5, <1>9 DEF LinkReading
<1>10. ASSUME NEW v \in Views, NEW f \in Filters, Ask(v, f) PROVE EInv'
  BY <1>5, <1>10, AskOK
<1>11. CASE CountExport \/ FetchExport \/ FetchPumpExport
  BY <1>5, <1>11, CountExportOK, FetchExportOK, FetchPumpExportOK
<1>12. CASE UNCHANGED vars
  BY <1>2, <1>5, <1>12 DEF vars
<1> QED BY <1>4, <1>6, <1>7, <1>8, <1>9, <1>10, <1>11, <1>12 DEF Next

(* A file on its way has what was there at first, but for devices that left. *)
THEOREM ExportInvariance == Spec => []EInv
<1>1. Init => EInv
  BY DataViewsAssumption DEF Init, EInv, Types, PumpOK, Export
<1> QED BY <1>1, NextEInv, PTL DEF Spec

(* data_analysis_export() and pump_monitor_export(): a file has all of what   *)
(* was there when it was asked for and still is, also when it is one slice   *)
(* of the list, and exceeds the limit only by rows that came after the count. *)
THEOREM ExportsAreWhole == Spec => []ExportWhole
<1>1. EInv => ExportWhole
  <2> SUFFICES ASSUME EInv, view \in Export, pc = "done"
               PROVE  /\ known \cap Listed(view, filter, asked) \subseteq seen
                      /\ Cardinality(seen \cap (counted \cup known)) <= RowLimit
    BY DEF ExportWhole
  <2>1. Types /\ KnownOK /\ CountedOK /\ SeenOK /\ PumpOK
    BY DEF EInv
  <2>2. known \cap Listed(view, filter, asked) \subseteq seen
    BY <2>1, KnownListed DEF SeenOK
  <2>3. RowLimit \in Nat
    BY DataViewsAssumption
  <2> DEFINE T == seen \cap (counted \cup known)
  <2>4. ASSUME NEW S, T \subseteq S, IsFiniteSet(S), Cardinality(S) <= RowLimit
        PROVE  Cardinality(T) <= RowLimit
    <3>1. T \in SUBSET S
      BY <2>4
    <3> HIDE DEF T
    <3>2. IsFiniteSet(T) /\ Cardinality(T) <= Cardinality(S)
      BY <2>4, <3>1, FS_Subset
    <3>3. Cardinality(T) \in Nat /\ Cardinality(S) \in Nat
      BY <2>4, <3>2, FS_CardinalityType
    <3> QED BY <2>3, <2>4, <3>2, <3>3
  <2>5. CASE view \notin Pump
    <3>1. T \subseteq counted /\ IsFiniteSet(counted) /\ Cardinality(counted) <= RowLimit
      BY <2>1, <2>5 DEF CountedOK, SeenOK
    <3> HIDE DEF T
    <3>2. Cardinality(T) <= RowLimit
      BY <2>4, <3>1
    <3> QED BY <2>2, <3>2 DEF T
  <2>6. CASE view \in Pump
    <3>1. counted = {}
      BY <2>1, <2>6 DEF PumpOK, Pump, Export
    <3>2. T \subseteq seen /\ IsFiniteSet(seen) /\ Cardinality(seen) <= RowLimit
      BY <2>1, <2>6, <3>1 DEF SeenOK
    <3> HIDE DEF T
    <3>3. Cardinality(T) <= RowLimit
      BY <2>4, <3>2
    <3> QED BY <2>2, <3>3 DEF T
  <2> QED BY <2>5, <2>6
<1> QED BY <1>1, ExportInvariance, PTL

-----------------------------------------------------------------------------
(* The pages.  A row that was there at first can be missed only because      *)
(* earlier rows left the list and it moved up to a page the reader already   *)
(* had.  Each row he missed is matched with one that left in front of it.    *)

Shown == Listed(view, filter, asked)
Ever == known \cup listed
Unseen == (known \cap Shown) \ seen
Gone == Ever \ Shown
Before(S, m) == {i \in S : Precedes(view, filter, i, m)}
Passed == (page - 1) * PageSize
Away(i) == Moved(i) \/ ~InRange(filter, asked, Table(view)[i].ts)

(* m and the unseen rows in front of it are no more than those that left     *)
(* there, and n others.                                                      *)
Matched(m, n) == Cardinality(Before(Unseen, m)) < Cardinality(Before(Gone, m)) + n

(* In front of m are all the rows of the pages the reader had. *)
Followed(m) == Passed <= Cardinality(Before(Ever \ Unseen, m))

(* Rows that left do not come back. *)
EverOK ==
    /\ asked \in Nat /\ asked <= now
    /\ Ever \cup late \subseteq DOMAIN Table(view)
    /\ \A i \in Ever : i \in Shown \/ Away(i)

PageOK == page \in Nat \ {0} /\ \A m \in Unseen : Matched(m, 0) \/ Followed(m)

CountOK == IsFiniteSet(counted) /\ page <= NumPages(Cardinality(counted))

TurnedOK == \A m \in Unseen : Matched(m, Cardinality(late))

PagesOK ==
    /\ pc = "start" => view = "none" /\ page = 1 /\ seen = {} /\ listed = {} /\ late = {}
    /\ view \in Pager =>
          /\ pc \in {"count", "fetch", "done"} => EverOK
          /\ pc \in {"count", "fetch"} => PageOK
          /\ pc = "fetch" => CountOK
          /\ pc = "done" => TurnedOK

PageInv == Types /\ PagesOK

-----------------------------------------------------------------------------
(* Rows in front of a row *)

(* Precedes is total. *)
LEMMA Total ==
    ASSUME Types, NEW i \in DOMAIN Table(view), NEW j \in DOMAIN Table(view), i # j
    PROVE  Precedes(view, filter, i, j) \/ Precedes(view, filter, j, i)
<1>1. \A x \in DOMAIN Table(view) : x \in Nat /\ Table(view)[x].ts \in Nat
  BY Tables
<1> QED BY <1>1 DEF Precedes

LEMMA BeforeFinite ==
    ASSUME Types, NEW S \in SUBSET DOMAIN Table(view), NEW m
    PROVE  /\ IsFiniteSet(S) /\ Cardinality(S) \in Nat
           /\ Before(S, m) \in SUBSET S
           /\ IsFiniteSet(Before(S, m)) /\ Cardinality(Before(S, m)) \in Nat
<1>1. IsFiniteSet(DOMAIN Table(view))
  <2>1. 1 \in Int /\ Len(Table(view)) \in Int /\ DOMAIN Table(view) = 1..Len(Table(view))
    BY Tables
  <2> QED BY <2>1, FS_Interval
<1>2. IsFiniteSet(S)
  BY <1>1, FS_Subset
<1>3. Before(S, m) \in SUBSET S
  BY DEF Before
<1>4. IsFiniteSet(Before(S, m))
  BY <1>2, <1>3, FS_Subset
<1> QED BY <1>2, <1>3, <1>4, FS_CardinalityType

(* The rank of a row is its place among the rows. *)
LEMMA Ranks ==
    ASSUME Types, NEW L \in SUBSET DOMAIN Table(view)
    PROVE  /\ \A i \in L : /\ Rank(view, filter, L, i) = Cardinality(Before(L, i))
                           /\ Rank(view, filter, L, i) \in 0..(Cardinality(L) - 1)
           /\ \A i, j \in L : Precedes(view, filter, i, j)
                                  <=> Rank(view, filter, L, i) < Rank(view, filter, L, j)
<1> DEFINE r(i) == Rank(view, filter, L, i)
<1>1. \A i : r(i) = Cardinality(Before(L, i))
  BY DEF Rank, Before
<1>2. IsFiniteSet(L) /\ Cardinality(L) \in Nat
  BY BeforeFinite
<1>3. \A i \in L : Before(L, i) \in SUBSET L /\ IsFiniteSet(Before(L, i)) /\ r(i) \in Nat
  BY <1>1, BeforeFinite
<1> HIDE DEF r
<1>4. ASSUME NEW i \in L PROVE r(i) < Cardinality(L)
  <2>1. i \notin Before(L, i)
    BY Order DEF Before
  <2>2. r(i) <= Cardinality(L) /\ r(i) # Cardinality(L)
    BY <1>1, <1>2, <1>3, <1>4, <2>1, FS_Subset
  <2> QED BY <1>2, <1>3, <1>4, <2>2
<1>5. ASSUME NEW i \in L, NEW j \in L, Precedes(view, filter, i, j) PROVE r(i) < r(j)
  <2>1. Before(L, i) \in SUBSET Before(L, j)
    BY <1>5, Order DEF Before
  <2>2. i \in Before(L, j) /\ i \notin Before(L, i)
    BY <1>5, Order DEF Before
  <2>3. r(i) <= r(j) /\ r(i) # r(j)
    BY <1>1, <1>3, <2>1, <2>2, FS_Subset
  <2> QED BY <1>3, <2>3
<1>6. ASSUME NEW i \in L, NEW j \in L, r(i) < r(j) PROVE Precedes(view, filter, i, j)
  <2>1. i # j
    BY <1>3, <1>6
  <2>2. ~Precedes(view, filter, j, i)
    BY <1>3, <1>5, <1>6
  <2> QED BY <2>1, <2>2, Total
<1>7. \A i \in L : r(i) \in 0..(Cardinality(L) - 1)
  BY <1>2, <1>3, <1>4
<1> QED BY <1>1, <1>5, <1>6, <1>7 DEF r

(* queryset[:n] has n rows, if there are as many. *)
LEMMA FirstRows ==
    ASSUME Types, NEW L \in SUBSET DOMAIN Table(view), NEW n \in Nat, n <= Cardinality(L)
    PROVE  Cardinality({i \in L : Rank(view, filter, L, i) < n}) = n
<1> DEFINE Q == {i \in L : Rank(view, filter, L, i) < n}
           N == Cardinality(L)
           r == [i \in L |-> Rank(view, filter, L, i)]
           q == [i \in Q |-> Rank(view, filter, L, i)]
<1>1. IsFiniteSet(L) /\ N \in Nat
  BY BeforeFinite
<1>2. \A i \in L : r[i] \in 0..(N - 1)
  BY Ranks
<1>3. \A i, j \in L : i # j => r[i] # r[j]
  <2> SUFFICES ASSUME NEW i \in L, NEW j \in L, i # j PROVE r[i] # r[j]
    OBVIOUS
  <2>1. Precedes(view, filter, i, j) \/ Precedes(view, filter, j, i)
    BY Total
  <2>2. r[i] < r[j] \/ r[j] < r[i]
    BY <2>1, Ranks
  <2>3. r[i] \in Nat /\ r[j] \in Nat
    BY <1>1, <1>2
  <2> QED BY <2>2, <2>3
<1>4. r \in Injection(L, 0..(N - 1))
  BY <1>2, <1>3 DEF Injection, IsInjective
<1>5. IsFiniteSet(0..(N - 1)) /\ Cardinality(0..(N - 1)) = N
  <2> HIDE DEF N
  <2>1. 0 \in Int /\ N - 1 \in Int
    BY <1>1
  <2>2. /\ IsFiniteSet(0..(N - 1))
        /\ Cardinality(0..(N - 1)) = IF 0 > N - 1 THEN 0 ELSE N - 1 - 0 + 1
    BY <2>1, FS_Interval
  <2> QED BY <1>1, <2>2
<1>6. r \in Surjection(L, 0..(N - 1))
  <2> HIDE DEF r
  <2> QED BY <1>4, <1>5, FS_Injection
<1>7. \A k \in 0..(N - 1) : \E i \in L : r[i] = k
  BY <1>6 DEF Surjection
<1>8. \A i \in Q : i \in L /\ q[i] = r[i] /\ q[i] \in 0..(n - 1)
  BY <1>1, <1>2
<1>9. q \in Injection(Q, 0..(n - 1))
  BY <1>3, <1>8 DEF Injection, IsInjective
<1>10. \A k \in 0..(n - 1) : \E i \in Q : q[i] = k
  <2> SUFFICES ASSUME NEW k \in 0..(n - 1) PROVE \E i \in Q : q[i] = k
    OBVIOUS
  <2>1. k \in 0..(N - 1)
    BY <1>1
  <2>2. PICK i \in L : r[i] = k
    BY <1>7, <2>1
  <2>3. i \in Q /\ q[i] = k
    BY <2>2
  <2> QED BY <2>3
<1>11. q \in Surjection(Q, 0..(n - 1))
  BY <1>9, <1>10 DEF Injection, Surjection
<1>12. IsFiniteSet(Q) /\ ExistsBijection(Q, 0..(n - 1))
  <2>1. q \in Bijection(Q, 0..(n - 1))
    BY <1>9, <1>11 DEF Bijection
  <2>2. Q \in SUBSET L
    OBVIOUS
  <2> HIDE DEF q, Q
  <2> QED BY <1>1, <2>1, <2>2, FS_Subset DEF ExistsBijection
<1> HIDE DEF Q
<1>13. Cardinality(0..(n - 1)) = Cardinality(Q)
  BY <1>12, FS_Bijection
<1>14. Cardinality(0..(n - 1)) = n
  BY FS_Interval
<1> QED BY <1>13, <1>14 DEF Q

(* Rows have a last one. *)
LEMMA LastRow ==
    ASSUME Types, NEW S \in SUBSET DOMAIN Table(view), S # {}
    PROVE  \E m \in S : \A i \in S : i = m \/ i \in Before(S, m)
<1> DEFINE N == Cardinality(S)
<1>1. IsFiniteSet(S) /\ N \in Nat /\ N # 0
  BY BeforeFinite, FS_EmptySet
<1>2. \A i \in S : Rank(view, filter, S, i) \in 0..(N - 1)
  BY Ranks
<1> DEFINE Q == {i \in S : Rank(view, filter, S, i) < N - 1}
<1>3. Q \in SUBSET S /\ Cardinality(Q) = N - 1
  BY <1>1, FirstRows
<1>4. Q # S
  <2> HIDE DEF Q
  <2> SUFFICES ASSUME Q = S PROVE FALSE
    OBVIOUS
  <2>1. N = N - 1
    BY <1>3
  <2> HIDE DEF N
  <2> QED BY <1>1, <2>1
<1>5. PICK m \in S : m \notin Q
  BY <1>3, <1>4
<1>6. Rank(view, filter, S, m) = N - 1
  BY <1>1, <1>2, <1>5
<1>7. ASSUME NEW i \in S, i # m PROVE i \in Before(S, m)
  <2>1. Precedes(view, filter, i, m) \/ Precedes(view, filter, m, i)
    BY <1>7, Total
  <2>2. ~(Rank(view, filter, S, m) < Rank(view, filter, S, i))
    BY <1>1, <1>2, <1>6
  <2>3. Precedes(view, filter, i, m)
    BY <2>1, <2>2, Ranks
  <2> QED BY <2>3 DEF Before
<1> QED BY <1>7
-----------------------------------------------------------------------------
(* While the database changes, and from page to page *)

(* What a step of the database or of the reader keeps of the list. *)
Onward ==
    /\ Types /\ Types' /\ Grown /\ EverOK
    /\ UNCHANGED <<view, filter, known>>
    /\ listed \subseteq listed' /\ listed' \subseteq listed \cup Shown'
    /\ late' \subseteq late \cup Shown'
    /\ seen \subseteq seen'
    /\ asked' \in Nat /\ asked <= asked' /\ asked' <= now'

LEMMA Rows ==
    ASSUME Onward
    PROVE  /\ IsFiniteSet(DOMAIN Table(view)')
           /\ \A i \in DOMAIN Table(view) : /\ i \in DOMAIN Table(view)'
                                            /\ Table(view)[i].ep \in Endpoint
                                            /\ Table(view)'[i].ep = Table(view)[i].ep
                                            /\ Table(view)'[i].ts = Table(view)[i].ts
                                            /\ Table(view)'[i].type = Table(view)[i].type
           /\ \A i, j \in DOMAIN Table(view) : Precedes(view, filter, i, j)' <=> Precedes(view, filter, i, j)
           /\ \A i \in DOMAIN Table(view) : Away(i) => Away(i)' /\ i \notin Shown'
<1>1. view' = view /\ filter' = filter /\ Types /\ Grown /\ Types'
  BY DEF Onward
<1>2. \E n \in Nat : DOMAIN Table(view)' = 1..n
  <2>1. rows' \in Seq(Row) /\ events' \in Seq(EventRow)
    BY <1>1 DEF Types
  <2>2. Len(rows') \in Nat /\ DOMAIN rows' = 1..Len(rows') /\ Len(events') \in Nat /\ DOMAIN events' = 1..Len(events')
    BY <2>1
  <2> QED BY <1>1, <2>2 DEF Table
<1>3. IsFiniteSet(DOMAIN Table(view)')
  BY <1>2, FS_Interval
<1>4. \A i \in DOMAIN Table(view) : /\ i \in DOMAIN Table(view)'
                                    /\ Table(view)[i].ep \in Endpoint /\ Table(view)[i].ts \in Nat
                                    /\ Table(view)'[i].ep = Table(view)[i].ep
                                    /\ Table(view)'[i].ts = Table(view)[i].ts
                                    /\ Table(view)'[i].type = Table(view)[i].type
  BY <1>1, Tables DEF Grown, Table
<1>5. \A i, j \in DOMAIN Table(view) : Precedes(view, filter, i, j)' <=> Precedes(view, filter, i, j)
  BY <1>1, <1>4 DEF Precedes, Descending, Table
<1>6. ASSUME NEW i \in DOMAIN Table(view), Away(i) PROVE Away(i)' /\ i \notin Shown'
  <2>1. asked \in Nat /\ asked' \in Nat /\ asked <= asked' /\ Span \in Nat
    BY DataViewsAssumption DEF Onward, EverOK
  <2>2. CASE Moved(i)
    BY <1>1, <1>4, <2>2 DEF Away, Moved, Grown, Shown, Listed, Table
  <2>3. CASE ~InRange(filter, asked, Table(view)[i].ts)
    <3>1. Table(view)[i].ts \in Nat
      BY <1>4
    <3>2. ~InRange(filter, asked', Table(view)[i].ts)
      BY <2>1, <2>3, <3>1 DEF InRange
    <3> QED BY <1>1, <1>4, <3>2 DEF Away, Shown, Listed, InRange, Table
  <2> QED BY <1>6, <2>2, <2>3 DEF Away
<1> QED BY <1>3, <1>4, <1>5, <1>6

LEMMA Forward ==
    ASSUME Onward
    PROVE  EverOK' /\ Unseen' \subseteq Unseen /\ Gone \subseteq Gone' /\ Ever \subseteq Ever'
<1>1. /\ view' = view /\ filter' = filter /\ known' = known /\ Types /\ Grown /\ EverOK
      /\ listed \subseteq listed' /\ listed' \subseteq listed \cup Shown' /\ seen \subseteq seen'
      /\ late' \subseteq late \cup Shown'
  BY DEF Onward
<1>2. /\ Ever \subseteq Ever' /\ Ever' \subseteq Ever \cup Shown'
      /\ Ever \cup late \subseteq DOMAIN Table(view)
  BY <1>1 DEF Ever, EverOK
<1>3. \A i \in Ever : i \in Shown \/ Away(i)
  BY <1>1 DEF EverOK
<1>4. Shown' \subseteq DOMAIN Table(view)'
  BY DEF Shown, Listed
<1>5. Gone \subseteq Gone'
  BY <1>2, <1>3, Rows DEF Gone
<1>6. Unseen' \subseteq Unseen
  BY <1>1, <1>2, <1>3, Rows DEF Unseen, Ever
<1>7. ASSUME NEW i \in Shown, i \notin Shown' PROVE Away(i)'
  <2>1. Fits(view, filter, asked, i) /\ place[Table(view)[i].ep] = "here" /\ i \in DOMAIN Table(view)
    BY <1>1, ListedFinite DEF Shown
  <2>2. SUFFICES ASSUME ~Away(i)' PROVE i \in Shown'
    BY <1>7
  <2>3. InRange(filter', asked', Table(view)'[i].ts) /\ place'[Table(view)'[i].ep] # "moved"
    BY <1>1, <2>2 DEF Away, Moved, InRange, Table
  <2>4. place'[Table(view)'[i].ep] = "here"
    BY <2>1, <2>3, <1>1, Rows DEF Grown
  <2> QED BY <1>1, <2>1, <2>3, <2>4, Rows DEF Shown, Listed, Fits, Table, InRange
<1>8. \A i \in Ever' : i \in Shown' \/ Away(i)'
  BY <1>2, <1>3, <1>7, Rows
<1>9. Ever' \cup late' \subseteq DOMAIN Table(view)'
  BY <1>1, <1>2, <1>4, Rows
<1>10. EverOK'
  BY <1>8, <1>9 DEF EverOK, Onward
<1> QED BY <1>2, <1>5, <1>6, <1>10

(* A match is never lost, and what is in front of a row stays there. *)
LEMMA StillMatched ==
    ASSUME Onward, NEW m \in Unseen'
    PROVE  /\ m \in Unseen
           /\ \A n \in Nat : Matched(m, n) => Matched(m, n)'
           /\ Cardinality(Before(Ever \ Unseen, m)) <= Cardinality(Before(Ever \ Unseen, m)')
           /\ Cardinality(Before(Ever \ Unseen, m)) \in Nat /\ Cardinality(Before(Ever \ Unseen, m)') \in Nat
<1>1. EverOK' /\ Unseen' \subseteq Unseen /\ Gone \subseteq Gone' /\ Ever \subseteq Ever' /\ m \in Unseen
  BY Forward
<1>2. Ever \subseteq DOMAIN Table(view) /\ Ever' \subseteq DOMAIN Table(view)' /\ Types
  BY <1>1 DEF EverOK, Onward
<1>3. Unseen \subseteq Ever /\ Gone \subseteq Ever /\ Gone' \subseteq Ever'
  BY DEF Unseen, Gone, Ever
<1>4. \A i, j \in DOMAIN Table(view) : Precedes(view, filter, i, j)' <=> Precedes(view, filter, i, j)
  BY Rows
<1>5. m \in DOMAIN Table(view)
  BY <1>1, <1>2, <1>3
<1> DEFINE u == Before(Unseen, m)
           g == Before(Gone, m)
           e == Before(Ever \ Unseen, m)
<1>6. u' \subseteq u /\ g \subseteq g' /\ e \subseteq e'
  <2>1. u' \subseteq u
    BY <1>1, <1>2, <1>3, <1>4, <1>5 DEF Before
  <2>2. g \subseteq g'
    BY <1>1, <1>2, <1>3, <1>4, <1>5 DEF Before
  <2>3. e \subseteq e'
    BY <1>1, <1>2, <1>4, <1>5 DEF Before
  <2> QED BY <2>1, <2>2, <2>3
<1>7. /\ IsFiniteSet(u) /\ Cardinality(u) \in Nat /\ Cardinality(g) \in Nat
      /\ Cardinality(e) \in Nat
  <2>1. Unseen \in SUBSET DOMAIN Table(view) /\ Gone \in SUBSET DOMAIN Table(view)
        /\ Ever \ Unseen \in SUBSET DOMAIN Table(view)
    BY <1>2, <1>3
  <2> QED BY <1>2, <2>1, BeforeFinite
<1>8. g' \in SUBSET DOMAIN Table(view)' /\ e' \in SUBSET DOMAIN Table(view)'
  BY <1>2, <1>3 DEF Before
<1> HIDE DEF u, g, e
<1>9. IsFiniteSet(g') /\ IsFiniteSet(e')
  BY <1>8, Rows, FS_Subset
<1>10. Cardinality(g') \in Nat /\ Cardinality(e') \in Nat /\ Cardinality(u') \in Nat
  BY <1>6, <1>7, <1>9, FS_Subset, FS_CardinalityType
<1>11. /\ Cardinality(u') <= Cardinality(u)
       /\ Cardinality(g) <= Cardinality(g') /\ Cardinality(e) <= Cardinality(e')
  BY <1>6, <1>7, <1>9, FS_Subset
<1>12. ASSUME NEW n \in Nat, Cardinality(u) < Cardinality(g) + n
       PROVE  Cardinality(u') < Cardinality(g') + n
  BY <1>7, <1>10, <1>11, <1>12
<1> QED BY <1>1, <1>7, <1>10, <1>11, <1>12 DEF Matched, u, g, e
-----------------------------------------------------------------------------
(* The reader turns a page. *)

RankNow(i) == Rank(view, filter, Shown, i)
RowsFrom(bottom, top) == {i \in Shown : RankNow(i) \in bottom..(top - 1)}

LEMMA Sizes ==
    ASSUME Types, EverOK, page \in Nat \ {0}
    PROVE  /\ Shown \subseteq DOMAIN Table(view) /\ Unseen \subseteq Shown /\ Unseen \subseteq Ever
           /\ Gone \subseteq DOMAIN Table(view) /\ Ever \subseteq DOMAIN Table(view)
           /\ Passed \in Nat /\ PageSize \in Nat \ {0}
           /\ \A i \in Shown : RankNow(i) \in Nat /\ RankNow(i) < Cardinality(Shown)
           /\ IsFiniteSet(Shown) /\ Cardinality(Shown) \in Nat
<1>1. /\ Shown \subseteq DOMAIN Table(view) /\ Unseen \subseteq Shown /\ Unseen \subseteq Ever
      /\ Ever \subseteq DOMAIN Table(view)
  BY DEF Shown, Listed, Unseen, Ever, EverOK
<1>2. Gone \subseteq DOMAIN Table(view)
  BY <1>1 DEF Gone
<1>3. PageSize \in Nat \ {0}
  BY DataViewsAssumption
<1>4. page - 1 \in Nat
  OBVIOUS
<1>5. Passed \in Nat
  BY <1>3, <1>4 DEF Passed
<1>6. IsFiniteSet(Shown) /\ Cardinality(Shown) \in Nat
  BY <1>1, BeforeFinite
<1>7. \A i \in Shown : RankNow(i) \in Nat /\ RankNow(i) < Cardinality(Shown)
  BY <1>1, <1>6, Ranks DEF RankNow
<1> QED BY <1>1, <1>2, <1>3, <1>5, <1>6, <1>7

(* A row on a page the reader already had: that much has left in front of it. *)
LEMMA SkippedMatched ==
    ASSUME Types, EverOK, page \in Nat \ {0}, NEW m \in Unseen, Followed(m), RankNow(m) < Passed
    PROVE  Matched(m, 0)
<1> DEFINE e == Before(Ever \ Unseen, m)
           g == Before(Gone, m)
           u == Before(Unseen, m)
           l == Before(Shown, m)
<1>1. e \subseteq g \cup (l \ u) /\ u \in SUBSET l
  BY Sizes DEF Before, Gone
<1>2. /\ Ever \ Unseen \in SUBSET DOMAIN Table(view) /\ Gone \in SUBSET DOMAIN Table(view)
      /\ Unseen \in SUBSET DOMAIN Table(view) /\ Shown \in SUBSET DOMAIN Table(view)
  BY Sizes
<1>3. /\ IsFiniteSet(e) /\ Cardinality(e) \in Nat /\ IsFiniteSet(g) /\ Cardinality(g) \in Nat
      /\ IsFiniteSet(u) /\ Cardinality(u) \in Nat /\ IsFiniteSet(l) /\ Cardinality(l) \in Nat
  BY <1>2, BeforeFinite
<1>4. RankNow(m) = Cardinality(l) /\ Passed \in Nat /\ Passed <= Cardinality(e)
  <2>1. m \in Shown /\ Passed \in Nat
    BY Sizes
  <2> QED BY <1>2, <2>1, Ranks DEF RankNow, Followed
<1> HIDE DEF e, g, u, l
<1>5. IsFiniteSet(l \ u) /\ Cardinality(l \ u) = Cardinality(l) - Cardinality(u)
  <2>1. l \cap u = u
    BY <1>1
  <2> QED BY <1>3, <2>1, FS_Difference
<1>6. /\ IsFiniteSet(g \cup (l \ u))
      /\ Cardinality(g \cup (l \ u)) <= Cardinality(g) + Cardinality(l) - Cardinality(u)
  <2>1. /\ IsFiniteSet(g \cup (l \ u))
        /\ Cardinality(g \cup (l \ u))
              = Cardinality(g) + Cardinality(l \ u) - Cardinality(g \cap (l \ u))
    BY <1>3, <1>5, FS_Union
  <2>2. Cardinality(g \cap (l \ u)) \in Nat
    BY <1>3, FS_Intersection, FS_CardinalityType
  <2> QED BY <1>3, <1>5, <2>1, <2>2
<1>7. Cardinality(e) <= Cardinality(g \cup (l \ u)) /\ Cardinality(g \cup (l \ u)) \in Nat
  BY <1>1, <1>6, FS_Subset, FS_CardinalityType
<1>8. Cardinality(u) < Cardinality(g)
  BY <1>3, <1>4, <1>6, <1>7
<1> QED BY <1>3, <1>8 DEF Matched, u, g

(* The rows skipped so far: no more than have left in front of a later row. *)
LEMMA SkippedFew ==
    ASSUME Types, EverOK, PageOK, NEW m \in Shown, Passed <= RankNow(m)
    PROVE  Cardinality({b \in Unseen : RankNow(b) < Passed}) <= Cardinality(Before(Gone, m))
<1> DEFINE B == {b \in Unseen : RankNow(b) < Passed}
<1>1. /\ B \in SUBSET DOMAIN Table(view) /\ B \in SUBSET Unseen /\ Unseen \in SUBSET DOMAIN Table(view)
      /\ Gone \in SUBSET DOMAIN Table(view) /\ page \in Nat \ {0}
  BY Sizes DEF PageOK
<1>2. IsFiniteSet(B) /\ Cardinality(Before(Gone, m)) \in Nat /\ IsFiniteSet(Before(Gone, m))
  BY <1>1, BeforeFinite
<1>3. CASE B = {}
  BY <1>2, <1>3, FS_EmptySet
<1>4. CASE B # {}
  <2>1. PICK b \in B : \A i \in B : i = b \/ i \in Before(B, b)
    <3> HIDE DEF B
    <3> QED BY <1>1, <1>4, LastRow
  <2>2. b \in Unseen /\ b \in Shown /\ RankNow(b) < Passed
    BY <1>1, Sizes
  <2>3. Matched(b, 0)
    BY <1>1, <2>2, SkippedMatched DEF PageOK
  <2>4. Precedes(view, filter, b, m)
    <3>1. RankNow(b) \in Nat /\ RankNow(m) \in Nat /\ Passed \in Nat
      BY <1>1, <2>2, Sizes
    <3>2. RankNow(b) < RankNow(m)
      BY <2>2, <3>1
    <3>3. Shown \in SUBSET DOMAIN Table(view)
      BY <1>1, Sizes
    <3> QED BY <2>2, <3>2, <3>3, Ranks DEF RankNow
  <2>5. Before(Gone, b) \in SUBSET Before(Gone, m)
    <3>1. b \in DOMAIN Table(view) /\ m \in DOMAIN Table(view)
      BY <1>1, <2>2, Sizes
    <3> QED BY <1>1, <2>4, <3>1, Order DEF Before
  <2>6. B \subseteq Before(Unseen, b) \cup {b} /\ b \notin Before(Unseen, b)
    <3>1. b \in DOMAIN Table(view)
      BY <1>1, <2>2
    <3>2. b \notin Before(Unseen, b)
      BY <3>1, Order DEF Before
    <3> QED BY <1>1, <2>1, <3>2 DEF Before
  <2> DEFINE u == Before(Unseen, b)
             g == Before(Gone, b)
  <2>7. /\ IsFiniteSet(u) /\ Cardinality(u) \in Nat /\ Cardinality(g) \in Nat
        /\ Cardinality(u) < Cardinality(g) + 0
    BY <1>1, <2>3, BeforeFinite DEF Matched
  <2>8. Cardinality(g) <= Cardinality(Before(Gone, m))
    BY <1>2, <2>5, FS_Subset
  <2> HIDE DEF u, g, B
  <2>9. IsFiniteSet(u \cup {b}) /\ Cardinality(u \cup {b}) = Cardinality(u) + 1
    BY <2>6, <2>7, FS_AddElement DEF u
  <2>10. Cardinality(B) <= Cardinality(u) + 1 /\ Cardinality(B) \in Nat
    BY <1>2, <2>6, <2>9, FS_Subset, FS_CardinalityType DEF u
  <2> QED BY <1>2, <2>7, <2>8, <2>10 DEF B
<1> QED BY <1>3, <1>4

(* After one more page: a row behind it has one more page in front of it. *)
LEMMA TurnOn ==
    ASSUME Types, EverOK, PageOK, NEW m \in Unseen, Passed + PageSize <= RankNow(m)
    PROVE  LET P == RowsFrom(Passed, Passed + PageSize) IN
           Passed + PageSize <= Cardinality(Before((Ever \cup Shown) \ (Unseen \ P), m))
<1> DEFINE K == Passed + PageSize
           P == RowsFrom(Passed, Passed + PageSize)
           Q == {i \in Shown : RankNow(i) < K}
           B == {b \in Unseen : RankNow(b) < Passed}
           g == Before(Gone, m)
           e == Before((Ever \cup Shown) \ (Unseen \ P), m)
<1>1. page \in Nat \ {0}
  BY DEF PageOK
<1>2. /\ Shown \in SUBSET DOMAIN Table(view) /\ Unseen \subseteq Shown /\ Unseen \subseteq Ever
      /\ Gone \in SUBSET DOMAIN Table(view) /\ Ever \subseteq DOMAIN Table(view)
      /\ Passed \in Nat /\ PageSize \in Nat \ {0}
      /\ \A i \in Shown : RankNow(i) \in Nat /\ RankNow(i) < Cardinality(Shown)
      /\ IsFiniteSet(Shown) /\ Cardinality(Shown) \in Nat
  BY <1>1, Sizes
<1>3. m \in Shown /\ K \in Nat /\ K <= RankNow(m) /\ Passed <= RankNow(m) /\ K <= Cardinality(Shown)
  BY <1>2
<1>4. Cardinality(Q) = K
  <2> HIDE DEF K
  <2> QED BY <1>2, <1>3, FirstRows DEF RankNow
<1>5. Cardinality(B) <= Cardinality(g)
  BY <1>3, SkippedFew
<1>6. B \subseteq Q /\ Q \in SUBSET Shown
  BY <1>2
<1>7. /\ IsFiniteSet(g) /\ Cardinality(g) \in Nat /\ IsFiniteSet(e) /\ Cardinality(e) \in Nat
  <2>1. (Ever \cup Shown) \ (Unseen \ P) \in SUBSET DOMAIN Table(view)
    BY <1>2
  <2> HIDE DEF P
  <2> QED BY <1>2, <2>1, BeforeFinite
<1>8. g \cup (Q \ B) \subseteq e /\ g \cap (Q \ B) = {}
  <2>1. \A i \in Q \ B : i \notin Unseen \ P
    BY <1>2 DEF RowsFrom
  <2>2. \A i \in Q : Precedes(view, filter, i, m)
    <3> SUFFICES ASSUME NEW i \in Q PROVE Precedes(view, filter, i, m)
      OBVIOUS
    <3>1. RankNow(i) < RankNow(m) /\ i \in Shown
      BY <1>2, <1>3
    <3> QED BY <1>2, <1>3, <3>1, Ranks DEF RankNow
  <2>3. g \subseteq Gone /\ Gone \cap Shown = {} /\ Gone \subseteq Ever
    BY DEF Before, Gone
  <2> HIDE DEF P
  <2> QED BY <1>2, <2>1, <2>2, <2>3 DEF Before
<1>9. IsFiniteSet(Q) /\ IsFiniteSet(B) /\ Cardinality(B) \in Nat
  BY <1>2, <1>6, FS_Subset, FS_CardinalityType
<1> HIDE DEF K, Q, B, g, e
<1>10. IsFiniteSet(Q \ B) /\ Cardinality(Q \ B) = K - Cardinality(B)
  <2>1. Q \cap B = B
    BY <1>6
  <2> QED BY <1>4, <1>9, <2>1, FS_Difference
<1>11. /\ IsFiniteSet(g \cup (Q \ B))
       /\ Cardinality(g \cup (Q \ B)) = Cardinality(g) + Cardinality(Q \ B) - 0
  <2> DEFINE R == Q \ B
  <2>1. IsFiniteSet(R) /\ g \cap R = {}
    BY <1>8, <1>10
  <2> HIDE DEF R
  <2>2. /\ IsFiniteSet(g \cup R)
        /\ Cardinality(g \cup R) = Cardinality(g) + Cardinality(R) - Cardinality(g \cap R)
    BY <1>7, <2>1, FS_Union
  <2> QED BY <2>1, <2>2, FS_EmptySet DEF R
<1>12. Cardinality(g \cup (Q \ B)) <= Cardinality(e)
  BY <1>7, <1>8, FS_Subset
<1> QED BY <1>3, <1>5, <1>7, <1>9, <1>10, <1>11, <1>12 DEF K, e

(* After the last page: what is behind it came late. *)
LEMMA TurnLast ==
    ASSUME Types, EverOK, PageOK, IsFiniteSet(counted), NEW m \in Unseen,
           Passed <= RankNow(m), Cardinality(counted) <= RankNow(m)
    PROVE  LET P == RowsFrom(Passed, Cardinality(counted)) IN
           Cardinality(Before(Unseen \ P, m))
               < Cardinality(Before(Gone, m)) + Cardinality(Shown \ counted)
<1> DEFINE n == Cardinality(counted)
           P == RowsFrom(Passed, Cardinality(counted))
           Q == {i \in Shown : RankNow(i) < n}
           T == Shown \ Q
           B == {b \in Unseen : RankNow(b) < Passed}
           g == Before(Gone, m)
           u == Before(Unseen \ P, m)
           l == Shown \ counted
<1>1. page \in Nat \ {0}
  BY DEF PageOK
<1>2. /\ Shown \in SUBSET DOMAIN Table(view) /\ Unseen \subseteq Shown /\ Passed \in Nat
      /\ Gone \in SUBSET DOMAIN Table(view)
      /\ \A i \in Shown : RankNow(i) \in Nat /\ RankNow(i) < Cardinality(Shown)
      /\ IsFiniteSet(Shown) /\ Cardinality(Shown) \in Nat
  BY <1>1, Sizes
<1>3. m \in Shown /\ m \in T /\ n \in Nat /\ n <= Cardinality(Shown)
  BY <1>2, FS_CardinalityType
<1>4. Cardinality(Q) = n /\ Q \in SUBSET Shown
  <2>1. Q = {i \in Shown : Rank(view, filter, Shown, i) < n} /\ Q \in SUBSET Shown
    BY DEF RankNow
  <2> HIDE DEF n, Q
  <2> QED BY <1>2, <1>3, <2>1, FirstRows
<1>5. Cardinality(B) <= Cardinality(g)
  BY <1>3, SkippedFew
<1>6. u \subseteq B \cup (T \ {m})
  <2>1. \A i \in Unseen \ P : i \in B \/ i \in T
    BY <1>2, <1>3 DEF RowsFrom
  <2>2. m \notin u
    BY <1>2, <1>3, Order DEF Before
  <2> HIDE DEF B, T, P
  <2> QED BY <2>1, <2>2 DEF Before
<1>7. IsFiniteSet(g) /\ Cardinality(g) \in Nat /\ IsFiniteSet(B) /\ Cardinality(B) \in Nat
  <2>1. B \in SUBSET DOMAIN Table(view)
    BY <1>2
  <2> HIDE DEF B
  <2> QED BY <1>2, <2>1, BeforeFinite
<1> HIDE DEF Q, B, g, u, P, n
<1>8. IsFiniteSet(T) /\ Cardinality(T) = Cardinality(Shown) - n
  <2>1. Shown \cap Q = Q
    BY <1>4
  <2> QED BY <1>2, <1>4, <2>1, FS_Difference
<1>9. IsFiniteSet(l) /\ Cardinality(l) \in Nat /\ Cardinality(T) <= Cardinality(l)
  <2>1. IsFiniteSet(l) /\ Cardinality(l) = Cardinality(Shown) - Cardinality(Shown \cap counted)
    BY <1>2, FS_Difference
  <2>2. Cardinality(Shown \cap counted) \in Nat /\ Cardinality(Shown \cap counted) <= n
    BY FS_Intersection, FS_CardinalityType, <1>2 DEF n
  <2>3. Cardinality(l) \in Nat
    BY <2>1, FS_CardinalityType
  <2> QED BY <1>2, <1>3, <1>8, <2>1, <2>2, <2>3
<1> HIDE DEF T, l
<1>10. IsFiniteSet(T \ {m}) /\ Cardinality(T \ {m}) = Cardinality(T) - 1
  BY <1>3, <1>8, FS_RemoveElement
<1>11. /\ IsFiniteSet(B \cup (T \ {m}))
       /\ Cardinality(B \cup (T \ {m})) <= Cardinality(B) + Cardinality(T \ {m})
  <2> DEFINE R == T \ {m}
  <2>1. IsFiniteSet(R)
    BY <1>10
  <2> HIDE DEF R
  <2>2. /\ IsFiniteSet(B \cup R)
        /\ Cardinality(B \cup R) = Cardinality(B) + Cardinality(R) - Cardinality(B \cap R)
    BY <1>7, <2>1, FS_Union
  <2>3. Cardinality(B \cap R) \in Nat /\ Cardinality(R) \in Nat
    BY <1>7, <2>1, FS_Intersection, FS_CardinalityType
  <2>4. Cardinality(B \cup R) <= Cardinality(B) + Cardinality(R)
    BY <1>7, <2>2, <2>3
  <2> QED BY <2>2, <2>4 DEF R
<1>12. Cardinality(u) <= Cardinality(B \cup (T \ {m})) /\ Cardinality(u) \in Nat
  BY <1>6, <1>11, FS_Subset, FS_CardinalityType
<1>13. Cardinality(T \ {m}) \in Nat /\ Cardinality(B \cup (T \ {m})) \in Nat
  BY <1>10, <1>11, FS_CardinalityType
<1> QED BY <1>5, <1>7, <1>9, <1>10, <1>11, <1>12, <1>13, <1>3, <1>2, <1>8 DEF u, g, l, P
-----------------------------------------------------------------------------
(* The steps *)

LEMMA Times ==
    ASSUME NEW a \in Nat, NEW b \in Nat, NEW c \in Nat, a <= b
    PROVE  a * c \in Nat /\ b * c \in Nat /\ a * c <= b * c
<1>1. PICK d \in Nat : b = a + d
  <2>1. b - a \in Nat /\ b = a + (b - a)
    OBVIOUS
  <2> QED BY <2>1
<1>2. b * c = a * c + d * c /\ a * c \in Nat /\ d * c \in Nat
  BY <1>1
<1> QED BY <1>2

LEMMA PagesBefore ==
    ASSUME NEW a \in Nat \ {0}, NEW b \in Nat \ {0}, a <= b
    PROVE  /\ (a - 1) * PageSize \in Nat /\ (b - 1) * PageSize \in Nat
           /\ (a - 1) * PageSize <= (b - 1) * PageSize
<1>1. a - 1 \in Nat /\ b - 1 \in Nat /\ a - 1 <= b - 1
  OBVIOUS
<1>2. PageSize \in Nat
  BY DataViewsAssumption
<1> QED BY <1>1, <1>2, Times

(* The last page is the one with the last row. *)
LEMMA PageCount ==
    ASSUME NEW n \in Nat, NEW p \in Nat \ {0}
    PROVE  /\ NumPages(n) \in Nat \ {0} /\ p * PageSize \in Nat
           /\ p < NumPages(n) => p * PageSize < n
           /\ NumPages(n) <= p => n <= p * PageSize
<1> DEFINE z == PageSize
           q == (n + z - 1) \div z
           N == NumPages(n)
<1>1. z \in Nat \ {0}
  BY DataViewsAssumption
<1>2. q \in Nat /\ q * z <= n + z - 1 /\ n + z - 1 < (q + 1) * z
  <2>1. n + z - 1 \in Nat
    BY <1>1
  <2> QED BY <1>1, <2>1
<1> HIDE DEF q
<1>3. N \in {1, q} /\ N >= 1 /\ N >= q
  <2>1. N = Max({1, q})
    BY DEF NumPages, q
  <2>2. \E x \in {1, q} : \A y \in {1, q} : x >= y
    BY <1>2
  <2> QED BY <2>1, <2>2 DEF Max
<1> HIDE DEF z, N
<1>4. p * z \in Nat /\ (p + 1) * z = p * z + z /\ (p + 1) * z \in Nat /\ (q + 1) * z \in Nat /\ q * z \in Nat
  BY <1>1, <1>2
<1>5. ASSUME p < N PROVE p * z < n
  <2>1. p + 1 <= q
    BY <1>2, <1>3, <1>5
  <2>2. (p + 1) * z <= q * z
    BY <1>1, <1>2, <2>1, Times
  <2> QED BY <1>1, <1>2, <1>4, <2>2
<1>6. ASSUME N <= p PROVE n <= p * z
  <2>1. q + 1 <= p + 1
    BY <1>2, <1>3, <1>6
  <2>2. (q + 1) * z <= (p + 1) * z
    BY <1>1, <1>2, <2>1, Times
  <2> QED BY <1>1, <1>2, <1>4, <2>2
<1> QED BY <1>2, <1>3, <1>4, <1>5, <1>6 DEF N, z

(* The matches of the rows of a step that fetches nothing. *)
LEMMA MatchesKept ==
    ASSUME Onward
    PROVE  /\ PageOK /\ page' \in Nat \ {0} /\ page' <= page => PageOK'
           /\ TurnedOK /\ late' = late => TurnedOK'
<1>1. ASSUME PageOK, page' \in Nat \ {0}, page' <= page PROVE PageOK'
  <2>1. PageSize \in Nat /\ page \in Nat \ {0}
    BY <1>1, DataViewsAssumption DEF PageOK
  <2>2. Passed' <= Passed /\ Passed \in Nat /\ Passed' \in Nat
    <3>1. /\ (page' - 1) * PageSize <= (page - 1) * PageSize
          /\ (page' - 1) * PageSize \in Nat /\ (page - 1) * PageSize \in Nat
      BY <1>1, <2>1, PagesBefore, Zenon
    <3> QED BY <3>1 DEF Passed
  <2>3. ASSUME NEW m \in Unseen' PROVE Matched(m, 0)' \/ Followed(m)'
    <3>1. m \in Unseen /\ (Matched(m, 0) => Matched(m, 0)')
          /\ Cardinality(Before(Ever \ Unseen, m)) <= Cardinality(Before(Ever \ Unseen, m)')
          /\ Cardinality(Before(Ever \ Unseen, m)) \in Nat /\ Cardinality(Before(Ever \ Unseen, m)') \in Nat
      BY StillMatched
    <3>2. Matched(m, 0) \/ Followed(m)
      BY <1>1, <3>1 DEF PageOK
    <3>3. Followed(m) => Followed(m)'
      BY <2>2, <3>1 DEF Followed
    <3> QED BY <3>1, <3>2, <3>3
  <2> QED BY <1>1, <2>3 DEF PageOK
<1>2. ASSUME TurnedOK, late' = late PROVE TurnedOK'
  <2>1. PICK n \in Nat : n = Cardinality(late)
    <3>1. Types /\ late \in SUBSET DOMAIN Table(view)
      BY DEF Onward, EverOK
    <3> QED BY <3>1, BeforeFinite
  <2>2. ASSUME NEW m \in Unseen' PROVE Matched(m, Cardinality(late))'
    <3>1. m \in Unseen /\ (Matched(m, n) => Matched(m, n)')
      BY StillMatched
    <3>2. Matched(m, n)
      BY <1>2, <2>1, <3>1 DEF TurnedOK
    <3>3. Matched(m, n)' <=> Matched(m, Cardinality(late))'
      BY <1>2, <2>1 DEF Matched
    <3> QED BY <3>1, <3>2, <3>3
  <2> QED BY <1>2, <2>2 DEF TurnedOK
<1> QED BY <1>1, <1>2

LEMMA ListChanges ==
    ASSUME PageInv, Types', Grown, now <= now', now' \in Nat,
           UNCHANGED <<view, filter, pc, asked, page, counted, seen, known, listed, late>>
    PROVE  PagesOK'
<1>1. ASSUME view \in Pager, pc \in {"count", "fetch", "done"}
      PROVE  /\ EverOK' /\ (pc # "done" => PageOK') /\ (pc = "fetch" => CountOK')
             /\ (pc = "done" => TurnedOK')
  <2>1. Types /\ EverOK /\ (pc # "done" => PageOK) /\ (pc = "fetch" => CountOK)
        /\ (pc = "done" => TurnedOK)
    BY <1>1 DEF PageInv, PagesOK
  <2>2. now \in Nat /\ asked \in Nat /\ asked <= now
    BY <2>1 DEF Types, EverOK
  <2>3. Onward
    BY <2>1, <2>2 DEF Onward
  <2>4. page \in Nat \ {0} \/ pc = "done"
    BY <2>1 DEF PageOK
  <2>5. CountOK => CountOK'
    BY DEF CountOK, NumPages
  <2> QED BY <2>1, <2>3, <2>4, <2>5, Forward, MatchesKept
<1> QED BY <1>1 DEF PageInv, PagesOK

LEMMA AskPages ==
    ASSUME PageInv, NEW v \in Views, NEW f \in Filters, Ask(v, f)
    PROVE  PagesOK'
<1>1. /\ pc = "start" /\ page = 1 /\ seen = {} /\ listed = {} /\ late = {} /\ Types
      /\ view' = v /\ filter' = f /\ asked' = now /\ page' = 1 /\ seen' = {} /\ listed' = {} /\ late' = {}
      /\ UNCHANGED <<now, place, rows, events>>
  BY DEF Ask, PageInv, PagesOK, dbVars
<1>2. ASSUME v \in Pager PROVE EverOK' /\ PageOK' /\ pc' = "count"
  <2>1. v # "dashboard" /\ v # "pump_export" /\ pc' = "count" /\ known' = Listed(v, f, now)
    BY <1>2 DEF Pager, Ask
  <2>2. Shown' = Listed(v, f, now)
    BY <1>1 DEF Shown, Listed, Table, InRange
  <2>3. Ever' = Shown' /\ Gone' = {}
    BY <1>1, <2>1, <2>2 DEF Ever, Gone
  <2>4. now \in Nat
    BY <1>1 DEF Types
  <2>5. Shown' \subseteq DOMAIN Table(view)'
    BY DEF Shown, Listed
  <2>6. EverOK'
    BY <1>1, <2>3, <2>4, <2>5 DEF EverOK
  <2>7. Passed' = 0
    BY <1>1, DataViewsAssumption DEF Passed
  <2>8. ASSUME NEW m \in Unseen' PROVE Followed(m)'
    <3>1. Ever' \ Unseen' \subseteq DOMAIN Table(view)'
      BY <2>3, <2>5
    <3>2. Before(Ever \ Unseen, m)' = {}
      BY <1>1, <2>1, <2>2, <2>3 DEF Unseen, Before
    <3> QED BY <2>7, <3>2, FS_EmptySet DEF Followed
  <2> QED BY <1>1, <2>1, <2>6, <2>8 DEF PageOK
<1>3. pc' # "start"
  BY DEF Ask
<1> QED BY <1>1, <1>2, <1>3 DEF PagesOK

LEMMA CountPageOK ==
    ASSUME PageInv, Types', Grown, CountPage
    PROVE  PagesOK'
<1>1. /\ view \in Pager /\ pc = "count" /\ asked' = now /\ pc' = "fetch"
      /\ counted' = Listed(view, filter, now) /\ listed' = listed \cup counted'
      /\ page' = Min({page, NumPages(Cardinality(counted'))})
      /\ UNCHANGED <<now, place, rows, events, view, filter, seen, known, late>>
  BY DEF CountPage, dbVars
<1>2. Types /\ EverOK /\ PageOK /\ now \in Nat /\ asked \in Nat /\ asked <= now /\ page \in Nat \ {0}
  BY <1>1 DEF PageInv, PagesOK, Types, EverOK, PageOK
<1>3. Shown' = counted'
  BY <1>1 DEF Shown, Listed, Table, InRange
<1>4. Onward
  BY <1>1, <1>2, <1>3 DEF Onward
<1>5. IsFiniteSet(counted') /\ Cardinality(counted') \in Nat
  BY <1>1, <1>2, ListedFinite
<1>6. page' \in Nat \ {0} /\ page' <= page /\ page' <= NumPages(Cardinality(counted'))
  <2> DEFINE N == NumPages(Cardinality(counted'))
  <2>1. N \in Nat \ {0}
    BY <1>5, PageCount
  <2> HIDE DEF N
  <2>2. \E x \in {page, N} : \A y \in {page, N} : x <= y
    BY <1>2, <2>1
  <2>3. Min({page, N}) \in {page, N} /\ Min({page, N}) <= page /\ Min({page, N}) <= N
    BY <2>2 DEF Min
  <2> QED BY <1>1, <1>2, <2>1, <2>3 DEF N
<1>7. CountOK'
  BY <1>5, <1>6 DEF CountOK, NumPages
<1> QED BY <1>1, <1>2, <1>4, <1>6, <1>7, Forward, MatchesKept DEF PagesOK
LEMMA FetchPageOK ==
    ASSUME PageInv, Types', Grown, FetchPage
    PROVE  PagesOK'
<1> DEFINE n == Cardinality(counted)
           top == Min({page * PageSize, n})
           P == Slice(view, filter, Shown, (page - 1) * PageSize, top)
<1>1. /\ view \in Pager /\ pc = "fetch"
      /\ UNCHANGED <<now, place, rows, events, view, filter, asked, counted, known>>
      /\ \/ pc' = "500"
         \/ /\ seen' = seen \cup P /\ listed' = listed \cup Shown /\ late' = late \cup (Shown \ counted)
            /\ \/ page < NumPages(n) /\ pc' = "count" /\ page' = page + 1
               \/ page = NumPages(n) /\ pc' = "done" /\ page' = page
  BY DEF FetchPage, dbVars, Shown
<1>2. /\ Types /\ EverOK /\ PageOK /\ IsFiniteSet(counted) /\ n \in Nat /\ page \in Nat \ {0}
      /\ now \in Nat /\ asked \in Nat /\ asked <= now
  <2>1. Types /\ EverOK /\ PageOK /\ IsFiniteSet(counted)
    BY <1>1 DEF PageInv, PagesOK, CountOK
  <2> QED BY <2>1, FS_CardinalityType DEF Types, EverOK, PageOK
<1>3. /\ Passed \in Nat /\ PageSize \in Nat \ {0} /\ page * PageSize = Passed + PageSize
      /\ \A i \in Shown : RankNow(i) \in Nat
      /\ Unseen \subseteq Shown /\ Shown \in SUBSET DOMAIN Table(view)
  <2>1. page * PageSize = (page - 1) * PageSize + PageSize
    <3>1. PageSize \in Nat
      BY DataViewsAssumption
    <3> QED BY <1>2, <3>1
  <2> QED BY <1>2, <2>1, Sizes DEF Passed
<1>4. /\ page < NumPages(n) => Passed + PageSize < n
      /\ page = NumPages(n) => n <= Passed + PageSize
  BY <1>2, <1>3, PageCount
<1>5. /\ page < NumPages(n) => top = Passed + PageSize
      /\ page = NumPages(n) => top = n
  <2> DEFINE z == Passed + PageSize
  <2>1. z \in Nat /\ top = Min({z, n})
    BY <1>3
  <2> HIDE DEF z, n
  <2>2. z <= n => Min({z, n}) = z
    BY <1>2, <2>1 DEF Min
  <2>3. n <= z => Min({z, n}) = n
    BY <1>2, <2>1 DEF Min
  <2> QED BY <1>2, <1>4, <2>1, <2>2, <2>3 DEF z
<1>6. P = RowsFrom(Passed, top)
  BY DEF Slice, RankNow, Passed, RowsFrom
<1>7. Shown' = Shown /\ Table(view)' = Table(view)
  BY <1>1 DEF Shown, Listed, Table, InRange
<1> HIDE DEF top, P, n
<1>8. CASE pc' = "500"
  BY <1>8 DEF PagesOK
<1>9. CASE pc' # "500"
  <2>1. /\ seen' = seen \cup P /\ listed' = listed \cup Shown /\ late' = late \cup (Shown \ counted)
        /\ \/ page < NumPages(n) /\ pc' = "count" /\ page' = page + 1
           \/ page = NumPages(n) /\ pc' = "done" /\ page' = page
    BY <1>1, <1>9
  <2>2. Onward
    BY <1>1, <1>2, <1>7, <2>1 DEF Onward
  <2>3. Unseen' = Unseen \ P /\ Ever' = Ever \cup Shown /\ Gone' = Gone
    BY <1>1, <1>7, <2>1 DEF Unseen, Ever, Gone
  <2>4. /\ \A m : Before(Unseen, m)' = Before(Unseen \ P, m)
        /\ \A m : Before(Gone, m)' = Before(Gone, m)
        /\ \A m : Before(Ever \ Unseen, m)' = Before((Ever \cup Shown) \ (Unseen \ P), m)
    <3>1. \A i, j : Precedes(view, filter, i, j)' <=> Precedes(view, filter, i, j)
      BY <1>1, <1>7 DEF Precedes, Descending
    <3> QED BY <2>3, <3>1 DEF Before
  <2>5. EverOK'
    BY <2>2, Forward
  <2>6. ASSUME NEW m \in Unseen', RankNow(m) < Passed PROVE Matched(m, 0)'
    <3>1. m \in Unseen /\ (Matched(m, 0) => Matched(m, 0)')
      BY <2>2, StillMatched
    <3>2. Matched(m, 0)
      BY <1>2, <2>6, <3>1, SkippedMatched DEF PageOK
    <3> QED BY <3>1, <3>2
  <2>7. ASSUME NEW m \in Unseen', ~(RankNow(m) < Passed)
        PROVE  m \in Unseen /\ Passed <= RankNow(m) /\ (top \in Nat => top <= RankNow(m))
    <3>1. m \in Unseen /\ m \in Shown /\ RankNow(m) \notin Passed..(top - 1)
      BY <1>3, <1>6, <2>3 DEF RowsFrom
    <3> QED BY <1>3, <2>7, <3>1
  <2>8. CASE page < NumPages(n)
    <3>1. page \in Nat /\ page # NumPages(n)
      <4>1. NumPages(n) \in Nat
        BY <1>2, PageCount
      <4> QED BY <1>2, <2>8, <4>1
    <3>2. pc' = "count" /\ page' = page + 1 /\ top = Passed + PageSize
      BY <1>5, <2>1, <2>8, <3>1
    <3>3. Passed' = Passed + PageSize
      <4>1. Passed' = (page' - 1) * PageSize
        BY DEF Passed
      <4>2. page' - 1 = page
        BY <3>1, <3>2
      <4> QED BY <1>3, <4>1, <4>2
    <3>4. ASSUME NEW m \in Unseen', ~(RankNow(m) < Passed) PROVE Followed(m)'
      <4>1. m \in Unseen /\ Passed + PageSize <= RankNow(m)
        BY <1>3, <2>7, <3>2, <3>4
      <4>2. Passed + PageSize <= Cardinality(Before((Ever \cup Shown) \ (Unseen \ P), m))
        <5>1. P = RowsFrom(Passed, Passed + PageSize)
          BY <1>6, <3>2
        <5> QED BY <1>2, <4>1, <5>1, TurnOn
      <4> QED BY <2>4, <3>3, <4>2 DEF Followed
    <3>5. page' \in Nat \ {0}
      BY <3>1, <3>2
    <3>6. PageOK'
      BY <2>6, <3>4, <3>5 DEF PageOK
    <3> QED BY <2>5, <3>2, <3>6 DEF PagesOK
  <2>9. CASE ~(page < NumPages(n))
    <3>1. pc' = "done" /\ top = n
      BY <1>5, <2>1, <2>9
    <3>2. IsFiniteSet(late') /\ Cardinality(late') \in Nat /\ Shown \ counted \in SUBSET late'
      <4>1. IsFiniteSet(DOMAIN Table(view)) /\ late' \in SUBSET DOMAIN Table(view)
        <5>1. late \subseteq DOMAIN Table(view)
          BY <1>2 DEF EverOK
        <5>2. IsFiniteSet(DOMAIN Table(view))
          BY <1>2, Tables, FS_Interval
        <5> QED BY <1>3, <2>1, <5>1, <5>2
      <4> QED BY <2>1, <4>1, FS_Subset, FS_CardinalityType
    <3>3. ASSUME NEW m \in Unseen' PROVE Matched(m, Cardinality(late))'
      <4>1. /\ m \in Unseen
            /\ Cardinality(Before(Unseen, m)') \in Nat /\ Cardinality(Before(Gone, m)') \in Nat
        <5>1. m \in Unseen /\ Unseen \ P \in SUBSET DOMAIN Table(view) /\ Gone \in SUBSET DOMAIN Table(view)
          BY <1>2, <1>3, <2>3, Sizes
        <5> QED BY <1>2, <2>4, <5>1, BeforeFinite
      <4>2. CASE RankNow(m) < Passed
        <5>1. Cardinality(Before(Unseen, m)') < Cardinality(Before(Gone, m)') + 0
          BY <2>6, <4>2 DEF Matched
        <5>2. Cardinality(Before(Unseen, m)') < Cardinality(Before(Gone, m)') + Cardinality(late')
          BY <3>2, <4>1, <5>1
        <5> QED BY <5>2 DEF Matched
      <4>3. CASE ~(RankNow(m) < Passed)
        <5>1. Passed <= RankNow(m) /\ Cardinality(counted) <= RankNow(m)
          BY <1>2, <2>7, <3>1, <4>3 DEF n
        <5>2. Cardinality(Before(Unseen \ P, m))
                  < Cardinality(Before(Gone, m)) + Cardinality(Shown \ counted)
          BY <1>2, <1>6, <3>1, <4>1, <5>1, TurnLast DEF n
        <5>3. Cardinality(Shown \ counted) <= Cardinality(late') /\ Cardinality(Shown \ counted) \in Nat
          BY <3>2, FS_Subset, FS_CardinalityType
        <5>4. Cardinality(Before(Unseen, m)') < Cardinality(Before(Gone, m)') + Cardinality(late')
          BY <2>4, <3>2, <4>1, <5>2, <5>3
        <5> QED BY <5>4 DEF Matched
      <4> QED BY <4>2, <4>3
    <3>4. TurnedOK'
      BY <3>3 DEF TurnedOK
    <3> QED BY <2>5, <3>1, <3>4 DEF PagesOK
  <2> QED BY <2>8, <2>9
<1> QED BY <1>8, <1>9

LEMMA NextPageInv == PageInv /\ [Next]_vars => PageInv'
<1> SUFFICES ASSUME PageInv, [Next]_vars PROVE PageInv'
  OBVIOUS
<1>1. Types' /\ Grown
  BY DbStep DEF PageInv, PagesOK
<1>2. now \in Nat /\ now' \in Nat
  BY <1>1 DEF PageInv, PagesOK, Types
<1>3. PagesOK' => PageInv'
  BY <1>1 DEF PageInv, PagesOK
<1>4. ASSUME now <= now', UNCHANGED <<view, filter, pc, asked, page, counted, seen, known, listed, late>>
      PROVE  PageInv'
  BY <1>1, <1>2, <1>3, <1>4, ListChanges
<1>5. CASE Tick
  BY <1>2, <1>4, <1>5 DEF Tick, Change
<1>6. ASSUME NEW e \in Endpoint, Move(e) \/ \E type \in EventTypes : AddEvent(e, type) PROVE PageInv'
  <2>1. now' = now /\ Change
    BY <1>6 DEF Move, AddEvent
  <2> QED BY <1>2, <1>4, <2>1 DEF Change
<1>7. ASSUME NEW x \in Readings, NEW ts \in 0..(now + MaxAhead), AddReading(x, ts) PROVE PageInv'
  BY <1>2, <1>4, <1>7 DEF AddReading, Change
<1>8. ASSUME NEW e \in DOMAIN events, LinkReading(e) PROVE PageInv'
  BY <1>2, <1>4, <1>8 DEF LinkReading, Change
<1>9. ASSUME NEW v \in Views, NEW f \in Filters, Ask(v, f) PROVE PageInv'
  BY <1>3, <1>9, AskPages
<1>10. CASE CountPage \/ FetchPage
  BY <1>1, <1>3, <1>10, CountPageOK, FetchPageOK
<1>11. CASE CountExport \/ FetchExport \/ FetchPumpExport \/ CountBar
  <2>1. view' \notin Pager /\ pc' # "start"
    BY <1>11 DEF CountExport, FetchExport, FetchPumpExport, CountBar, Export, Pump, Pager
  <2> QED BY <1>3, <2>1 DEF PagesOK
<1>12. CASE UNCHANGED vars
  BY <1>2, <1>4, <1>12 DEF vars
<1> QED BY <1>5, <1>6, <1>7, <1>8, <1>9, <1>10, <1>11, <1>12 DEF Next

(* While the reader turns pages, each row he has skipped is matched with one *)
(* that left in front of it, and every other has the pages he had before it. *)
THEOREM PagesInvariance == Spec => []PageInv
<1>1. Init => PageInv
  BY DataViewsAssumption DEF Init, PageInv, PagesOK, Types, Pager
<1> QED BY <1>1, NextPageInv, PTL DEF Spec

(* Paginator: who turns the pages of values, events or the pump monitor to    *)
(* the last one misses no more of the rows that were there and still are      *)
(* than left in front of them or came late, whatever the size of the pages,   *)
(* the filter and the number of changes.                                     *)
THEOREM MissedRowsAreBounded == Spec => []MissedBounded
<1>1. PageInv => MissedBounded
  <2> DEFINE left == {i \in Ever \ Shown : \E m \in Unseen : Precedes(view, filter, i, m)}
  <2> SUFFICES ASSUME PageInv, view \in Pager, pc = "done"
               PROVE  Cardinality(Unseen) <= Cardinality(left) + Cardinality(late)
    BY DEF MissedBounded, Unseen, Ever, Shown
  <2>1. Types /\ EverOK /\ TurnedOK
    BY DEF PageInv, PagesOK
  <2>2. /\ Unseen \in SUBSET DOMAIN Table(view) /\ late \in SUBSET DOMAIN Table(view)
        /\ left \in SUBSET DOMAIN Table(view)
    BY <2>1 DEF EverOK, Unseen, Ever
  <2>3. /\ IsFiniteSet(Unseen) /\ Cardinality(Unseen) \in Nat
        /\ IsFiniteSet(left) /\ Cardinality(left) \in Nat /\ Cardinality(late) \in Nat
    <3> HIDE DEF left
    <3> QED BY <2>1, <2>2, BeforeFinite
  <2>4. CASE Unseen = {}
    BY <2>3, <2>4, FS_EmptySet
  <2>5. CASE Unseen # {}
    <3>1. PICK m \in Unseen : \A i \in Unseen : i = m \/ i \in Before(Unseen, m)
      BY <2>1, <2>2, <2>5, LastRow
    <3> DEFINE u == Before(Unseen, m)
               g == Before(Gone, m)
    <3>2. Cardinality(u) < Cardinality(g) + Cardinality(late)
      BY <2>1 DEF TurnedOK, Matched
    <3>3. g \in SUBSET left
      BY DEF Before, Gone
    <3>4. IsFiniteSet(u) /\ Cardinality(u) \in Nat /\ m \notin u
      BY <2>1, <2>2, BeforeFinite, Order DEF Before
    <3>5. Unseen \subseteq u \cup {m}
      BY <3>1
    <3> HIDE DEF u, g, left
    <3>6. Cardinality(g) <= Cardinality(left) /\ Cardinality(g) \in Nat
      BY <2>3, <3>3, FS_Subset, FS_CardinalityType
    <3>7. IsFiniteSet(u \cup {m}) /\ Cardinality(u \cup {m}) = Cardinality(u) + 1
      BY <3>4, FS_AddElement
    <3>8. Cardinality(Unseen) <= Cardinality(u) + 1
      BY <3>5, <3>7, FS_Subset
    <3> QED BY <2>3, <3>2, <3>4, <3>6, <3>8
  <2> QED BY <2>4, <2>5
<1> QED BY <1>1, PagesInvariance, PTL
-----------------------------------------------------------------------------
(* The events sheet.  The position of a link among those of its name is its  *)
(* index; so links and filled cells of a row are numbered alike.             *)

Upto(S, p) == {q \in S : q <= p}

(* A finite set of numbers is numbered from one on. *)
LEMMA Numbering ==
    ASSUME NEW S \in SUBSET Nat, IsFiniteSet(S)
    PROVE  /\ Cardinality(S) \in Nat
           /\ \A p \in S : Cardinality(Upto(S, p)) \in 1..Cardinality(S)
           /\ \A p, q \in S : Cardinality(Upto(S, p)) = Cardinality(Upto(S, q)) => p = q
           /\ \A k \in 1..Cardinality(S) : \E p \in S : Cardinality(Upto(S, p)) = k
<1> DEFINE N == Cardinality(S)
           n(p) == Cardinality(Upto(S, p))
           f == [p \in S |-> n(p)]
<1>1. N \in Nat
  BY FS_CardinalityType
<1>2. \A p \in S : Upto(S, p) \in SUBSET S /\ p \in Upto(S, p) /\ IsFiniteSet(Upto(S, p)) /\ n(p) \in Nat
  <2> SUFFICES ASSUME NEW p \in S
               PROVE  Upto(S, p) \in SUBSET S /\ p \in Upto(S, p) /\ IsFiniteSet(Upto(S, p)) /\ n(p) \in Nat
    OBVIOUS
  <2>1. Upto(S, p) \in SUBSET S /\ p \in Upto(S, p)
    BY DEF Upto
  <2> QED BY <2>1, FS_Subset, FS_CardinalityType
<1>3. ASSUME NEW p \in S PROVE n(p) \in 1..N
  <2>1. n(p) <= N
    BY <1>2, FS_Subset
  <2>2. n(p) # 0
    BY <1>2, FS_EmptySet
  <2> HIDE DEF N, n
  <2> QED BY <1>1, <1>2, <2>1, <2>2
<1>4. ASSUME NEW p \in S, NEW q \in S, n(p) = n(q) PROVE p = q
  <2>1. ASSUME NEW x \in S, NEW y \in S, x <= y, n(x) = n(y) PROVE x = y
    <3>1. \A z \in S : z <= x => z <= y
      <4> HIDE DEF n
      <4> QED BY <2>1
    <3> DEFINE A == Upto(S, x)
               B == Upto(S, y)
    <3>4. A \in SUBSET B
      BY <3>1 DEF Upto
    <3>2. Upto(S, x) = Upto(S, y)
      BY <1>2, <2>1, <3>4, FS_Subset
    <3>3. y \in Upto(S, x)
      BY <1>2, <3>2
    <3> QED BY <2>1, <3>3 DEF Upto
  <2>2. p <= q \/ q <= p
    OBVIOUS
  <2> HIDE DEF n
  <2> QED BY <1>4, <2>1, <2>2
<1>5. IsFiniteSet(1..N) /\ Cardinality(1..N) = N
  <2> HIDE DEF N
  <2> QED BY <1>1, FS_Interval
<1>6. f \in Injection(S, 1..N)
  <2> HIDE DEF n, N
  <2> QED BY <1>3, <1>4 DEF Injection, IsInjective
<1>7. f \in Surjection(S, 1..N)
  <2> HIDE DEF f
  <2> QED BY <1>5, <1>6, FS_Injection
<1>8. \A k \in 1..N : \E p \in S : n(p) = k
  <2> HIDE DEF n, N
  <2> QED BY <1>7 DEF Surjection
<1> QED BY <1>1, <1>3, <1>4, <1>8

Positions(e, name) == {p \in DOMAIN events[e].links : rows[events[e].links[p]].type = name}

LEMMA LinksAre ==
    ASSUME Types, NEW e \in DOMAIN events
    PROVE  LET links == events[e].links
           IN  /\ links \in Seq(Nat) /\ Len(links) \in Nat /\ DOMAIN links = 1..Len(links)
               /\ IsFiniteSet(DOMAIN links) /\ Cardinality(DOMAIN links) = Len(links)
<1>1. events[e] \in EventRow
  BY DEF Types
<1> DEFINE links == events[e].links
<1>2. links \in Seq(Nat)
  BY <1>1 DEF EventRow
<1> HIDE DEF links
<1>3. Len(links) \in Nat /\ DOMAIN links = 1..Len(links)
  BY <1>2
<1>4. 1 \in Int /\ Len(links) \in Int /\ IsFiniteSet(1..Len(links)) /\ Cardinality(1..Len(links)) = Len(links)
  BY <1>3, FS_Interval
<1> QED BY <1>2, <1>3, <1>4 DEF links

(* Values numbers the links of a name. *)
LEMMA ValuesAre ==
    ASSUME Types, NEW e \in DOMAIN events, NEW name
    PROVE  LET P == Positions(e, name)
               v == Values(e, name)
           IN  /\ Cardinality(P) \in Nat /\ Len(v) = Cardinality(P) /\ DOMAIN v = 1..Cardinality(P)
               /\ v \in Seq(Nat)
               /\ \A p \in P : /\ Cardinality(Upto(P, p)) \in 1..Cardinality(P)
                               /\ v[Cardinality(Upto(P, p))] = events[e].links[p]
               /\ \A p, q \in P : Cardinality(Upto(P, p)) = Cardinality(Upto(P, q)) => p = q
               /\ \A k \in 1..Cardinality(P) : \E p \in P : Cardinality(Upto(P, p)) = k
<1> DEFINE P == Positions(e, name)
           links == events[e].links
           N == Cardinality(P)
           n(p) == Cardinality(Upto(P, p))
           v == [k \in 1..N |-> links[CHOOSE p \in P : n(p) = k]]
<1>1. links \in Seq(Nat) /\ Len(links) \in Nat /\ DOMAIN links = 1..Len(links) /\ IsFiniteSet(DOMAIN links)
  BY LinksAre
<1>2. P \in SUBSET (1..Len(links)) /\ P \in SUBSET Nat
  BY <1>1 DEF Positions
<1>3. IsFiniteSet(P)
  <2> HIDE DEF P, links
  <2> QED BY <1>1, <1>2, FS_Subset
<1>4. /\ N \in Nat
      /\ \A p \in P : n(p) \in 1..N
      /\ \A p, q \in P : n(p) = n(q) => p = q
      /\ \A k \in 1..N : \E p \in P : n(p) = k
  <2> HIDE DEF P
  <2> QED BY <1>2, <1>3, Numbering
<1>5. Values(e, name) = v
  BY DEF Values, Positions, Upto
<1> HIDE DEF P, n, links, N
<1>6. \A p \in P : (CHOOSE q \in P : n(q) = n(p)) = p
  BY <1>4
<1>7. \A p \in P : v[n(p)] = links[p]
  BY <1>4, <1>6
<1>8. \A k \in 1..N : v[k] \in Nat
  <2> SUFFICES ASSUME NEW k \in 1..N PROVE v[k] \in Nat
    OBVIOUS
  <2>1. PICK p \in P : n(p) = k
    BY <1>4
  <2>2. p \in DOMAIN links /\ v[k] = links[p]
    BY <1>1, <1>2, <1>7, <2>1
  <2> HIDE DEF v
  <2> QED BY <1>1, <2>2
<1>9. v \in Seq(Nat) /\ Len(v) = N /\ DOMAIN v = 1..N
  BY <1>4, <1>8
<1> HIDE DEF v
<1> QED BY <1>4, <1>5, <1>7, <1>9 DEF P, n, links, N

(* The label of an index *)
LEMMA IndexOf ==
    ASSUME NEW j \in Nat, NEW v
    PROVE  LET c == Indexed(v, j) IN c.name = v /\ c.at.int = j /\ c.at # NoBracket
BY DEF Indexed, NoBracket

(* The column of value k of a name n with no brackets, in the sheet of an     *)
(* event that has it, is named so.                                           *)
Column(e, n, k) == IF Len(Values(e, n)) = 1 THEN LabelOf(n) ELSE Indexed(n, k - 1)

LEMMA OwnCell ==
    ASSUME Types, NEW e \in DOMAIN events, NEW n \in Names(e), n \notin DOMAIN Ending,
           NEW k \in DOMAIN Values(e, n)
    PROVE  Column(e, n, k) \in ColumnsOf(e) /\ Cell(e, Column(e, n, k)) = <<Values(e, n)[k]>>
<1> DEFINE v == Values(e, n)
           c == Column(e, n, k)
           L == Len(v)
<1>1. v \in Seq(Nat) /\ L \in Nat /\ DOMAIN v = 1..L /\ k \in 1..L
  BY ValuesAre
<1>2. c \in ColumnsOf(e)
  BY DEF ColumnsOf, Column
<1>3. CASE L = 1
  <2>1. c = [name |-> n, at |-> NoBracket]
    BY <1>3 DEF Column, LabelOf
  <2>2. k = 1 /\ v = <<v[1]>>
    <3> HIDE DEF v
    <3> QED BY <1>1, <1>3
  <2> HIDE DEF c
  <2>3. Cell(e, c) = v
    BY <1>3, <2>1 DEF Cell
  <2> QED BY <1>2, <2>2, <2>3 DEF c
<1>4. CASE L # 1
  <2>1. c = Indexed(n, k - 1) /\ k - 1 \in Nat /\ L > 1
    <3>1. c = Indexed(n, k - 1)
      BY <1>4 DEF Column
    <3> HIDE DEF L, c
    <3> QED BY <1>1, <1>4, <3>1
  <2>2. c.name = n /\ c.at.int = k - 1 /\ c.at # NoBracket
    BY <2>1, IndexOf
  <2>3. c.at.int + (IF c.at.int < 0 THEN L + 1 ELSE 1) = k
    <3> HIDE DEF L, c
    <3> QED BY <1>1, <2>1, <2>2
  <2> HIDE DEF c
  <2>4. Cell(e, c) = <<v[k]>>
    BY <2>1, <2>2, <2>3 DEF Cell
  <2> QED BY <1>2, <2>4 DEF c
<1> QED BY <1>3, <1>4

(* A column of a name without brackets is a name, or an index of one. *)
LEMMA ColumnIs ==
    ASSUME Types, NEW d \in DOMAIN events, Names(d) \cap DOMAIN Ending = {}, NEW c \in ColumnsOf(d)
    PROVE  \E n \in Names(d) :
              /\ n \notin DOMAIN Ending /\ c.name = n
              /\ \/ c = [name |-> n, at |-> NoBracket]
                 \/ \E j \in Nat : c = Indexed(n, j)
<1>0. PICK n \in Names(d) : \E k \in DOMAIN Values(d, n) : c = Column(d, n, k)
  BY DEF ColumnsOf, Column
<1>1. PICK k \in DOMAIN Values(d, n) : c = Column(d, n, k)
  BY <1>0
<1>2. k \in Nat \ {0} /\ k - 1 \in Nat
  BY ValuesAre
<1>3. n \notin DOMAIN Ending
  OBVIOUS
<1>4. c = [name |-> n, at |-> NoBracket] \/ c = Indexed(n, k - 1)
  BY <1>1, <1>3 DEF Column, LabelOf
<1>5. c.name = n
  BY <1>2, <1>4, IndexOf
<1> QED BY <1>2, <1>3, <1>4, <1>5

(* Where no name ends with brackets, the cells of its row that an event fills *)
(* are its own columns.                                                      *)
LEMMA FilledIs ==
    ASSUME Types, NEW S \in SUBSET DOMAIN events, NEW e \in S,
           \A d \in S : Names(d) \cap DOMAIN Ending = {}
    PROVE  {c \in Columns(S) : Cell(e, c) # <<>>} = ColumnsOf(e)
<1>1. ASSUME NEW c \in Columns(S), Cell(e, c) # <<>> PROVE c \in ColumnsOf(e)
  <2>1. PICK d \in S : c \in ColumnsOf(d)
    BY DEF Columns
  <2>2. PICK n \in Names(d) :
              /\ n \notin DOMAIN Ending /\ c.name = n
              /\ \/ c = [name |-> n, at |-> NoBracket]
                 \/ \E j \in Nat : c = Indexed(n, j)
    BY <2>1, ColumnIs
  <2> DEFINE v == Values(e, n)
             L == Len(v)
  <2>3. v \in Seq(Nat) /\ L \in Nat /\ DOMAIN v = 1..L
    BY ValuesAre
  <2>4. PICK k \in DOMAIN v : c = Column(e, n, k)
    <3>1. CASE c = [name |-> n, at |-> NoBracket]
      <4>1. L = 1
        BY <1>1, <2>2, <3>1 DEF Cell
      <4>2. 1 \in DOMAIN v /\ c = Column(e, n, 1)
        <5>1. 1 \in DOMAIN v
          <6> HIDE DEF v
          <6> QED BY <2>3, <4>1
        <5> QED BY <2>2, <3>1, <4>1, <5>1 DEF Column, LabelOf
      <4> QED BY <4>2
    <3>2. ASSUME NEW j \in Nat, c = Indexed(n, j) PROVE \E k \in DOMAIN v : c = Column(e, n, k)
      <4>1. c.name = n /\ c.at.int = j /\ c.at # NoBracket
        BY <3>2, IndexOf
      <4>2. L > 1 /\ c.at.int + (IF c.at.int < 0 THEN L + 1 ELSE 1) \in DOMAIN v
        BY <1>1, <4>1 DEF Cell
      <4>3. j + 1 \in DOMAIN v /\ (j + 1) - 1 = j /\ L # 1
        <5> HIDE DEF L, v
        <5> QED BY <2>3, <4>1, <4>2
      <4>4. c = Column(e, n, j + 1)
        BY <3>2, <4>3 DEF Column
      <4> QED BY <4>3, <4>4
    <3> QED BY <2>2, <3>1, <3>2
  <2>5. n \in Names(e)
    <3>1. e \in DOMAIN events
      OBVIOUS
    <3>2. PICK p \in Positions(e, n) : TRUE
      BY <2>4, <3>1, ValuesAre
    <3>3. p \in DOMAIN events[e].links /\ rows[events[e].links[p]].type = n
      BY <3>2 DEF Positions
    <3> QED BY <3>3 DEF Names, ToSet
  <2> QED BY <2>4, <2>5 DEF ColumnsOf, Column
<1>2. ASSUME NEW c \in ColumnsOf(e) PROVE c \in Columns(S) /\ Cell(e, c) # <<>>
  <2>1. c \in Columns(S)
    BY <1>2 DEF Columns
  <2>2. PICK n \in Names(e) : \E k \in DOMAIN Values(e, n) : c = Column(e, n, k)
    BY <1>2 DEF ColumnsOf, Column
  <2>3. PICK k \in DOMAIN Values(e, n) : c = Column(e, n, k)
    BY <2>2
  <2>4. n \notin DOMAIN Ending /\ e \in DOMAIN events
    OBVIOUS
  <2>5. Cell(e, c) = <<Values(e, n)[k]>>
    BY <2>3, <2>4, OwnCell
  <2> QED BY <2>1, <2>5
<1> QED BY <1>1, <1>2

(* The name of a link, and its number among the links of that name *)
NameAt(e, p) == rows[events[e].links[p]].type
IndexAt(e, p) == Cardinality(Upto(Positions(e, NameAt(e, p)), p))

LEMMA LinkAt ==
    ASSUME Types, NEW e \in DOMAIN events, NEW p \in DOMAIN events[e].links
    PROVE  /\ p \in Positions(e, NameAt(e, p)) /\ NameAt(e, p) \in Names(e)
           /\ IndexAt(e, p) \in DOMAIN Values(e, NameAt(e, p))
           /\ IndexAt(e, p) \in 1..Len(Values(e, NameAt(e, p)))
           /\ Values(e, NameAt(e, p))[IndexAt(e, p)] = events[e].links[p]
<1>1. p \in Positions(e, NameAt(e, p)) /\ NameAt(e, p) \in Names(e)
  BY DEF NameAt, Positions, Names, ToSet
<1> QED BY <1>1, ValuesAre DEF IndexAt

(* Where no name ends with brackets, links and columns of an event are        *)
(* numbered alike.                                                           *)
LEMMA ColumnsMatchLinks ==
    ASSUME Types, NEW e \in DOMAIN events, Names(e) \cap DOMAIN Ending = {}
    PROVE  Cardinality(ColumnsOf(e)) = Len(events[e].links)
<1> DEFINE links == events[e].links
           n(p) == NameAt(e, p)
           k(p) == IndexAt(e, p)
           col(p) == Column(e, n(p), k(p))
           f == [p \in DOMAIN links |-> col(p)]
<1>1. IsFiniteSet(DOMAIN links) /\ Cardinality(DOMAIN links) = Len(links)
  BY LinksAre
<1>2. ASSUME NEW p \in DOMAIN links
      PROVE  /\ p \in Positions(e, n(p)) /\ n(p) \in Names(e) /\ n(p) \notin DOMAIN Ending
             /\ k(p) \in DOMAIN Values(e, n(p)) /\ k(p) \in 1..Len(Values(e, n(p)))
             /\ Len(Values(e, n(p))) \in Nat
  BY LinkAt, ValuesAre
<1>3. ASSUME NEW p \in DOMAIN links PROVE col(p) \in ColumnsOf(e)
  BY <1>2, OwnCell
<1>4. ASSUME NEW p \in DOMAIN links
      PROVE  /\ col(p).name = n(p)
             /\ Len(Values(e, n(p))) # 1 => col(p).at.int = k(p) - 1
  <2>1. CASE Len(Values(e, n(p))) = 1
    BY <1>2, <2>1 DEF Column, LabelOf
  <2>2. CASE Len(Values(e, n(p))) # 1
    <3>1. k(p) - 1 \in Nat
      <4> HIDE DEF n, k
      <4> QED BY <1>2
    <3>2. col(p) = Indexed(n(p), k(p) - 1)
      BY <2>2 DEF Column
    <3> QED BY <2>2, <3>1, <3>2, IndexOf
  <2> QED BY <2>1, <2>2
<1>5. ASSUME NEW p \in DOMAIN links, NEW q \in DOMAIN links, col(p) = col(q) PROVE p = q
  <2>1. n(p) = n(q)
    BY <1>4, <1>5
  <2>2. k(p) = k(q)
    <3> DEFINE L == Len(Values(e, n(p)))
    <3>1. k(p) \in 1..L /\ k(q) \in 1..L /\ L \in Nat
      BY <1>2, <2>1
    <3>2. L # 1 => k(p) - 1 = k(q) - 1
      BY <1>4, <1>5, <2>1
    <3> HIDE DEF L, k
    <3> QED BY <3>1, <3>2
  <2>3. p \in Positions(e, n(p)) /\ q \in Positions(e, n(p))
    BY <1>2, <2>1
  <2>4. Cardinality(Upto(Positions(e, n(p)), p)) = Cardinality(Upto(Positions(e, n(p)), q))
    BY <2>1, <2>2 DEF IndexAt
  <2> HIDE DEF n, k
  <2> QED BY <2>3, <2>4, ValuesAre
<1>6. ASSUME NEW c \in ColumnsOf(e) PROVE \E p \in DOMAIN links : col(p) = c
  <2>1. PICK m \in Names(e) : \E i \in DOMAIN Values(e, m) : c = Column(e, m, i)
    BY <1>6 DEF ColumnsOf, Column
  <2>2. PICK i \in DOMAIN Values(e, m) : c = Column(e, m, i)
    BY <2>1
  <2>3. PICK p \in Positions(e, m) : Cardinality(Upto(Positions(e, m), p)) = i
    BY ValuesAre
  <2>4. p \in DOMAIN links /\ n(p) = m
    BY <2>3 DEF Positions, NameAt
  <2>5. k(p) = i
    BY <2>3, <2>4 DEF IndexAt
  <2> HIDE DEF n, k
  <2> QED BY <2>2, <2>4, <2>5
<1>7. f \in Injection(DOMAIN links, ColumnsOf(e))
  <2> HIDE DEF col
  <2> QED BY <1>3, <1>5 DEF Injection, IsInjective
<1>8. f \in Surjection(DOMAIN links, ColumnsOf(e))
  <2> HIDE DEF col
  <2> QED BY <1>6, <1>7 DEF Injection, Surjection
<1>9. f \in Bijection(DOMAIN links, ColumnsOf(e))
  BY <1>7, <1>8 DEF Bijection
<1> HIDE DEF f, links
<1> QED BY <1>1, <1>9, FS_Bijection DEF ExistsBijection, links

(* data_analysis_export(): every value whose name does not end with brackets  *)
(* has its cell in the row of its event, whichever other events and names    *)
(* are in the sheet; where no name does, no value has two.                   *)
THEOREM SheetsAreLossless == Spec => []SheetLossless
<1>1. Types => SheetLossless
  <2> SUFFICES ASSUME Types, NEW S \in SUBSET DOMAIN events, NEW e \in S
               PROVE  LET filled == {c \in Columns(S) : Cell(e, c) # <<>>}
                      IN  /\ \A i \in ToSet(events[e].links) : rows[i].type \notin DOMAIN Ending
                                => \E c \in filled : Cell(e, c) = <<i>>
                          /\ (\A d \in S : Names(d) \cap DOMAIN Ending = {})
                                => Cardinality(filled) = Len(events[e].links)
    BY DEF SheetLossless
  <2>1. ASSUME NEW i \in ToSet(events[e].links), rows[i].type \notin DOMAIN Ending
        PROVE  \E c \in Columns(S) : Cell(e, c) = <<i>>
    <3>1. PICK p \in DOMAIN events[e].links : events[e].links[p] = i
      BY DEF ToSet
    <3> DEFINE c == Column(e, NameAt(e, p), IndexAt(e, p))
    <3>2. NameAt(e, p) \notin DOMAIN Ending
      BY <2>1, <3>1 DEF NameAt
    <3>3. c \in ColumnsOf(e) /\ Cell(e, c) = <<i>>
      BY <3>1, <3>2, LinkAt, OwnCell
    <3> HIDE DEF c
    <3> QED BY <3>3 DEF Columns
  <2>2. ASSUME \A d \in S : Names(d) \cap DOMAIN Ending = {}
        PROVE  Cardinality({c \in Columns(S) : Cell(e, c) # <<>>}) = Len(events[e].links)
    <3>1. e \in DOMAIN events /\ Names(e) \cap DOMAIN Ending = {}
      BY <2>2
    <3> QED BY <2>2, <3>1, FilledIs, ColumnsMatchLinks
  <2>3. \A i : <<i>> # <<>>
    OBVIOUS
  <2> QED BY <2>1, <2>2, <2>3
<1>2. EInv => Types
  BY DEF EInv
<1> QED BY <1>1, <1>2, ExportInvariance, PTL
-----------------------------------------------------------------------------
(* The chart.  What bars 1 to page - 1 hold together is between the readings *)
(* of their time that have been there since the request and those that are   *)
(* there now: a bar counts once what is between two edges.                   *)

Edge(k) == asked - (asked % Delta) - (NumSteps - k) * Delta

Spanned(k) == {i \in DOMAIN rows : Edge(1) <= rows[i].ts /\ rows[i].ts < Edge(k)}

Remained(k) == {i \in known \cap Spanned(k) : place[rows[i].ep] = "here"}

BarOK ==
    /\ pc \in {"bar", "done"} /\ asked \in Nat /\ data \in Seq(Nat)
    /\ page \in Nat /\ (pc = "bar" => page \in 1..NumSteps) /\ (pc = "done" => page = NumSteps + 1)
    /\ \A i \in known : i \in DOMAIN rows /\ place[rows[i].ep] \in {"here", "moved"}
    /\ Cardinality(Remained(page)) <= Sum(data) /\ Sum(data) <= Cardinality(Spanned(page))

BarInv ==
    /\ Types
    /\ pc = "start" => view = "none" /\ page = 1 /\ data = <<>>
    /\ view = "dashboard" => BarOK

(* The sums of the first terms of s *)
Sums(s, n, g) == g[0] = 0 /\ \A k \in 1..n : g[k] = g[k - 1] + s[k]

LEMMA SumsExist ==
    ASSUME NEW s \in Seq(Nat), NEW n \in 0..Len(s)
    PROVE  \E g \in [0..n -> Nat] : Sums(s, n, g)
<1> DEFINE Bad == {m \in 0..Len(s) : ~ \E g \in [0..m -> Nat] : Sums(s, m, g)}
<1>1. Len(s) \in Nat /\ Bad \in SUBSET Nat
  OBVIOUS
<1>2. SUFFICES Bad = {}
  OBVIOUS
<1>3. SUFFICES ASSUME Bad # {} PROVE FALSE
  OBVIOUS
<1>4. PICK m \in Bad : \A l \in Bad : m <= l
  <2> HIDE DEF Bad
  <2> QED BY <1>1, <1>3, LeastNatural
<1>5. CASE m = 0
  <2> DEFINE g == [k \in 0..0 |-> 0]
  <2>1. g \in [0..m -> Nat] /\ Sums(s, m, g)
    BY <1>5 DEF Sums
  <2> HIDE DEF g
  <2> QED BY <2>1
<1>6. CASE m # 0
  <2>0. m \in 0..Len(s) /\ m - 1 \in 0..Len(s) /\ m \in 1..Len(s) /\ ~(m <= m - 1)
    <3>1. m \in 0..Len(s)
      BY <1>4
    <3> QED BY <1>1, <1>6, <3>1
  <2>1. m - 1 \in 0..Len(s) /\ m - 1 \notin Bad /\ m \in 1..Len(s)
    <3> HIDE DEF Bad
    <3> QED BY <1>4, <2>0
  <2>2. PICK g \in [0..(m - 1) -> Nat] : Sums(s, m - 1, g)
    BY <2>1
  <2> DEFINE h == [k \in 0..m |-> IF k = m THEN g[m - 1] + s[m] ELSE g[k]]
  <2>3. s[m] \in Nat /\ g[m - 1] \in Nat
    BY <2>1
  <2>4. h \in [0..m -> Nat]
    <3>1. ASSUME NEW k \in 0..m PROVE h[k] \in Nat
      <4>1. k # m => k \in 0..(m - 1)
        BY <2>1
      <4> QED BY <2>2, <2>3, <4>1
    <3> QED BY <3>1
  <2>5. Sums(s, m, h)
    <3>1. h[0] = 0
      BY <1>6, <2>1, <2>2 DEF Sums
    <3>2. ASSUME NEW k \in 1..m PROVE h[k] = h[k - 1] + s[k]
      <4>1. k - 1 \in 0..m /\ k \in 0..m /\ k - 1 # m /\ (k # m => k \in 1..(m - 1))
        BY <2>1
      <4>2. h[k - 1] = g[k - 1]
        BY <4>1
      <4> QED BY <2>2, <4>1, <4>2 DEF Sums
    <3> QED BY <3>1, <3>2 DEF Sums
  <2> HIDE DEF h
  <2> QED BY <2>4, <2>5
<1> QED BY <1>5, <1>6

LEMMA SumsUnique ==
    ASSUME NEW s, NEW n \in Nat, NEW g, NEW h, Sums(s, n, g), Sums(s, n, h)
    PROVE  \A k \in 0..n : g[k] = h[k]
<1> DEFINE Bad == {m \in 0..n : g[m] # h[m]}
<1>1. SUFFICES ASSUME Bad # {} PROVE FALSE
  OBVIOUS
<1>2. PICK m \in Bad : \A l \in Bad : m <= l
  <2>1. Bad \in SUBSET Nat
    OBVIOUS
  <2> HIDE DEF Bad
  <2> QED BY <1>1, <2>1, LeastNatural
<1>3. m # 0
  BY <1>2 DEF Sums
<1>4. m - 1 \in 0..n /\ m - 1 \notin Bad /\ m \in 1..n
  BY <1>2, <1>3
<1> QED BY <1>2, <1>4 DEF Sums

LEMMA SumIs ==
    ASSUME NEW s \in Seq(Nat)
    PROVE  \E g \in [0..Len(s) -> Nat] : Sums(s, Len(s), g) /\ Sum(s) = g[Len(s)]
<1> DEFINE f(g) == [k \in 0..Len(s) |-> IF k = 0 THEN 0 ELSE g[k - 1] + s[k]]
           total == CHOOSE g : g = f(g)
<1>1. Len(s) \in Nat /\ Len(s) \in 0..Len(s)
  OBVIOUS
<1>2. PICK g \in [0..Len(s) -> Nat] : Sums(s, Len(s), g)
  BY <1>1, SumsExist
<1>3. g = f(g)
  <2>1. \A k \in 0..Len(s) : g[k] = IF k = 0 THEN 0 ELSE g[k - 1] + s[k]
    BY <1>1, <1>2 DEF Sums
  <2> QED BY <2>1
<1>4. total = f(total)
  <2> HIDE DEF f
  <2> QED BY <1>3
<1>5. Sum(s) = total[Len(s)]
  BY DEF Sum
<1> HIDE DEF total
<1>6. Sums(s, Len(s), total)
  <2>1. \A k \in 0..Len(s) : total[k] = IF k = 0 THEN 0 ELSE total[k - 1] + s[k]
    BY <1>4
  <2>2. 0 \in 0..Len(s) /\ \A k \in 1..Len(s) : k \in 0..Len(s) /\ k # 0
    BY <1>1
  <2> QED BY <2>1, <2>2 DEF Sums
<1>7. g[Len(s)] = total[Len(s)]
  BY <1>1, <1>2, <1>6, SumsUnique
<1> QED BY <1>2, <1>5, <1>7

LEMMA SumAppend ==
    ASSUME NEW s \in Seq(Nat), NEW x \in Nat
    PROVE  Sum(s) \in Nat /\ Sum(Append(s, x)) = Sum(s) + x
<1> DEFINE n == Len(s)
           t == Append(s, x)
<1>1. n \in Nat /\ t \in Seq(Nat) /\ Len(t) = n + 1 /\ t[n + 1] = x /\ \A k \in 1..n : s[k] = t[k]
  OBVIOUS
<1>2. PICK g \in [0..n -> Nat] : Sums(s, n, g) /\ Sum(s) = g[n]
  BY SumIs
<1> HIDE DEF n, t
<1>3. PICK h \in [0..(n + 1) -> Nat] : Sums(t, n + 1, h) /\ Sum(t) = h[n + 1]
  BY <1>1, SumIs
<1>4. Sums(t, n, h) /\ h[n + 1] = h[n] + t[n + 1]
  <2>1. \A k \in 1..n : k \in 1..(n + 1)
    BY <1>1
  <2>2. n + 1 \in 1..(n + 1) /\ (n + 1) - 1 = n
    BY <1>1
  <2> QED BY <1>3, <2>1, <2>2 DEF Sums
<1>5. g[n] = h[n] /\ g[n] \in Nat
  <2>1. Sums(s, n, h)
    BY <1>1, <1>4 DEF Sums
  <2>2. n \in 0..n
    BY <1>1
  <2>3. \A k \in 0..n : g[k] = h[k]
    BY <1>1, <1>2, <2>1, SumsUnique
  <2>4. g[n] \in Nat
    BY <1>2, <2>2
  <2> QED BY <2>2, <2>3, <2>4
<1> QED BY <1>1, <1>2, <1>3, <1>4, <1>5 DEF t

LEMMA SumEmpty == Sum(<<>>) = 0
<1>1. <<>> \in Seq(Nat) /\ Len(<<>>) = 0
  OBVIOUS
<1>2. PICK g \in [0..0 -> Nat] : Sums(<<>>, 0, g) /\ Sum(<<>>) = g[0]
  BY <1>1, SumIs
<1> QED BY <1>2 DEF Sums

(* Each bar begins where the one before ends, the first after the beginning  *)
(* of the time asked about, and the last ends after the request.             *)
LEMMA Edges ==
    ASSUME asked \in Nat
    PROVE  /\ \A k \in Int : Edge(k) \in Int /\ Edge(k + 1) = Edge(k) + Delta
           /\ \A k \in Nat \ {0} : Edge(1) <= Edge(k)
           /\ Edge(1) <= asked - (NumSteps - 1) * Delta /\ asked - NumSteps * Delta < Edge(1)
           /\ asked < Edge(NumSteps + 1)
<1> DEFINE r == asked % Delta
<1>1. Delta \in Nat \ {0} /\ NumSteps \in Nat \ {0}
  BY DataViewsAssumption
<1>2. r \in Nat /\ r < Delta
  BY <1>1
<1> HIDE DEF r
<1>3. \A k \in Int : Edge(k) = asked - r - (NumSteps - k) * Delta
  BY DEF Edge, r
<1>4. \A k \in Int : (NumSteps - k) * Delta \in Int
                     /\ (NumSteps - (k + 1)) * Delta = (NumSteps - k) * Delta - Delta
  BY <1>1
<1>5. \A k \in Int : Edge(k) \in Int /\ Edge(k + 1) = Edge(k) + Delta
  <2> SUFFICES ASSUME NEW k \in Int PROVE Edge(k) \in Int /\ Edge(k + 1) = Edge(k) + Delta
    OBVIOUS
  <2> DEFINE a == (NumSteps - k) * Delta
  <2>1. a \in Int /\ Edge(k) = asked - r - a /\ Edge(k + 1) = asked - r - (a - Delta)
    BY <1>3, <1>4
  <2> HIDE DEF a
  <2> QED BY <1>1, <1>2, <2>1
<1>6. \A k \in Nat \ {0} : Edge(1) <= Edge(k)
  <2> SUFFICES ASSUME NEW k \in Nat \ {0} PROVE Edge(1) <= Edge(k)
    OBVIOUS
  <2> DEFINE a == (NumSteps - k) * Delta
             b == (NumSteps - 1) * Delta
             c == (k - 1) * Delta
  <2>1. a \in Int /\ b \in Int /\ c \in Nat /\ b = a + c
    BY <1>1
  <2>2. Edge(k) = asked - r - a /\ Edge(1) = asked - r - b
    BY <1>3
  <2> HIDE DEF a, b, c
  <2> QED BY <1>2, <2>1, <2>2
<1>7. /\ Edge(1) <= asked - (NumSteps - 1) * Delta /\ asked - NumSteps * Delta < Edge(1)
  <2> DEFINE a == NumSteps * Delta
             b == (NumSteps - 1) * Delta
  <2>1. a \in Int /\ b = a - Delta
    BY <1>1
  <2>2. Edge(1) = asked - r - b
    BY <1>3
  <2> HIDE DEF a, b
  <2>3. Edge(1) <= asked - b /\ asked - a < Edge(1)
    BY <1>1, <1>2, <2>1, <2>2
  <2> QED BY <2>3 DEF a, b
<1>8. asked < Edge(NumSteps + 1)
  <2>1. (NumSteps - (NumSteps + 1)) * Delta = 0 - Delta /\ NumSteps + 1 \in Int
    BY <1>1
  <2> QED BY <1>1, <1>2, <1>3, <2>1
<1> QED BY <1>5, <1>6, <1>7, <1>8

LEMMA BarSets ==
    ASSUME Types, NEW k
    PROVE  /\ IsFiniteSet(Spanned(k)) /\ Cardinality(Spanned(k)) \in Nat
           /\ IsFiniteSet(Remained(k)) /\ Cardinality(Remained(k)) \in Nat
           /\ IsFiniteSet(Bar(k)) /\ Cardinality(Bar(k)) \in Nat
<1>1. Len(rows) \in Nat /\ DOMAIN rows = 1..Len(rows)
  BY DEF Types
<1>2. IsFiniteSet(DOMAIN rows)
  BY <1>1, FS_Interval
<1>3. Spanned(k) \in SUBSET DOMAIN rows /\ Remained(k) \in SUBSET DOMAIN rows /\ Bar(k) \in SUBSET DOMAIN rows
  BY DEF Spanned, Remained, Bar
<1> QED BY <1>2, <1>3, FS_Subset, FS_CardinalityType

LEMMA RowTimes == ASSUME Types PROVE \A i \in DOMAIN rows : rows[i].ts \in Nat /\ rows[i].ep \in Endpoint
BY DEF Types, Row

(* Queries of the next bar *)
LEMMA CountBarOK ==
    ASSUME BarInv, CountBar, Types'
    PROVE  BarInv'
<1> DEFINE N == Cardinality(Bar(page))
<1>1. /\ view = "dashboard" /\ pc = "bar" /\ BarOK /\ Types
      /\ data' = Append(data, N) /\ page' = page + 1
      /\ pc' = IF page = NumSteps THEN "done" ELSE "bar"
      /\ UNCHANGED <<now, place, rows, events, view, asked, known>>
  BY DEF CountBar, BarInv, dbVars
<1>2. N \in Nat /\ page \in 1..NumSteps /\ NumSteps \in Nat /\ Delta \in Nat \ {0} /\ asked \in Nat /\ data \in Seq(Nat)
  BY <1>1, BarSets, DataViewsAssumption DEF BarOK
<1>3. data' \in Seq(Nat) /\ Sum(data') = Sum(data) + N /\ Sum(data) \in Nat
  <2> HIDE DEF N
  <2> QED BY <1>1, <1>2, SumAppend
<1>4. /\ Edge(page) \in Int /\ Edge(page + 1) = Edge(page) + Delta /\ Edge(1) \in Int
      /\ Edge(1) <= Edge(page) /\ Edge(1) <= Edge(page + 1)
  <2>1. page \in Int /\ page \in Nat \ {0} /\ page + 1 \in Nat \ {0} /\ 1 \in Int
    BY <1>2
  <2> QED BY <1>2, <2>1, Edges
<1>5. Bar(page) = {i \in DOMAIN rows : place[rows[i].ep] = "here" /\ Edge(page) <= rows[i].ts
                                       /\ rows[i].ts < Edge(page + 1)}
  <2>1. \A i \in DOMAIN rows : rows[i].ts \in Edge(page)..(Edge(page) + Delta - 1) <=>
                               Edge(page) <= rows[i].ts /\ rows[i].ts < Edge(page + 1)
    BY <1>1, <1>2, <1>4, RowTimes
  <2>2. Bar(page) = {i \in DOMAIN rows : place[rows[i].ep] = "here"
                                         /\ rows[i].ts \in Edge(page)..(Edge(page) + Delta - 1)}
    BY DEF Bar, Edge
  <2> QED BY <2>1, <2>2
<1>6. /\ Spanned(page) \cup Bar(page) \in SUBSET Spanned(page + 1)
      /\ Spanned(page) \cap Bar(page) = {}
      /\ Remained(page + 1) \in SUBSET (Remained(page) \cup Bar(page))
  BY <1>1, <1>2, <1>4, <1>5, RowTimes DEF Spanned, Remained
<1>7. /\ Cardinality(Spanned(page)) + N <= Cardinality(Spanned(page + 1))
      /\ Cardinality(Remained(page + 1)) <= Cardinality(Remained(page)) + N
  <2> DEFINE A == Spanned(page)
             B == Bar(page)
             C == Spanned(page + 1)
             R == Remained(page)
             Q == Remained(page + 1)
  <2>1. /\ IsFiniteSet(A) /\ IsFiniteSet(B) /\ IsFiniteSet(C) /\ IsFiniteSet(R) /\ IsFiniteSet(Q)
        /\ Cardinality(R) \in Nat /\ Cardinality(B) \in Nat
    BY <1>1, BarSets
  <2>2. (A \cup B) \in SUBSET C /\ A \cap B = {} /\ Q \in SUBSET (R \cup B)
    BY <1>6
  <2> HIDE DEF A, B, C, R, Q
  <2>3. Cardinality(A \cup B) = Cardinality(A) + Cardinality(B) /\ Cardinality(A \cup B) <= Cardinality(C)
    <3>1. Cardinality(A \cup B) = Cardinality(A) + Cardinality(B) - Cardinality({})
      BY <2>1, <2>2, FS_Union
    <3> QED BY <2>1, <2>2, <3>1, FS_EmptySet, FS_Subset, FS_CardinalityType
  <2>4. Cardinality(Q) <= Cardinality(R) + Cardinality(B)
    <3>1. /\ IsFiniteSet(R \cup B)
          /\ Cardinality(R \cup B) = Cardinality(R) + Cardinality(B) - Cardinality(R \cap B)
      BY <2>1, FS_Union
    <3>2. Cardinality(R \cap B) \in Nat
      <4>1. R \cap B \in SUBSET B
        OBVIOUS
      <4> QED BY <2>1, <4>1, FS_Subset, FS_CardinalityType
    <3>3. Cardinality(Q) <= Cardinality(R \cup B) /\ Cardinality(Q) \in Nat
      BY <2>1, <2>2, <3>1, FS_Subset, FS_CardinalityType
    <3> QED BY <2>1, <3>1, <3>2, <3>3
  <2> QED BY <2>3, <2>4 DEF A, B, C, R, Q
<1>8. Spanned(page)' = Spanned(page + 1) /\ Remained(page)' = Remained(page + 1)
  BY <1>1 DEF Spanned, Remained, Edge
<1>9. Cardinality(Remained(page))' <= Sum(data)' /\ Sum(data)' <= Cardinality(Spanned(page))'
  <2> DEFINE a == Cardinality(Spanned(page))
             b == Cardinality(Spanned(page + 1))
             c == Cardinality(Remained(page))
             d == Cardinality(Remained(page + 1))
  <2>1. a \in Nat /\ b \in Nat /\ c \in Nat /\ d \in Nat
    BY <1>1, BarSets
  <2>2. c <= Sum(data) /\ Sum(data) <= a
    BY <1>1 DEF BarOK
  <2>3. a + N <= b /\ d <= c + N
    BY <1>7
  <2>4. d <= Sum(data') /\ Sum(data') <= b
    <3> HIDE DEF a, b, c, d, N
    <3> QED BY <1>2, <1>3, <2>1, <2>2, <2>3
  <2> QED BY <1>8, <2>4
<1>10. /\ page' \in Nat /\ (pc' = "bar" => page' \in 1..NumSteps) /\ (pc' = "done" => page' = NumSteps + 1)
       /\ pc' \in {"bar", "done"}
  BY <1>1, <1>2
<1>11. \A i \in known' : i \in DOMAIN rows' /\ place'[rows'[i].ep] \in {"here", "moved"}
  BY <1>1 DEF BarOK
<1>12. BarOK'
  BY <1>1, <1>2, <1>3, <1>9, <1>10, <1>11 DEF BarOK
<1> QED BY <1>1, <1>10, <1>12 DEF BarInv

(* What comes during the request counts at most once, and what leaves need   *)
(* not.                                                                      *)
LEMMA BarKept ==
    ASSUME BarInv, Types', Grown, UNCHANGED <<view, pc, asked, page, data, known>>
    PROVE  BarInv'
<1>1. CASE view # "dashboard"
  BY <1>1 DEF BarInv
<1>2. CASE view = "dashboard"
  <2>1. BarOK /\ Types
    BY <1>2 DEF BarInv
  <2>2. \A i \in DOMAIN rows : /\ i \in DOMAIN rows' /\ rows'[i].ep = rows[i].ep /\ rows'[i].ts = rows[i].ts
    <3>1. "values" \in OfValues
      BY DEF OfValues
    <3> QED BY <3>1 DEF Grown, Table
  <2>3. \A i \in known : i \in DOMAIN rows' /\ place'[rows'[i].ep] \in {"here", "moved"}
    BY <2>1, <2>2, RowTimes DEF BarOK, Grown
  <2>4. Spanned(page) \in SUBSET Spanned(page)' /\ Remained(page)' \in SUBSET Remained(page)
    <3>1. \A k : Edge(k)' = Edge(k)
      BY DEF Edge
    <3>2. Spanned(page) \in SUBSET Spanned(page)'
      BY <2>2 DEF Spanned, Edge
    <3>3. ASSUME NEW i \in Remained(page)' PROVE i \in Remained(page)
      <4>1. i \in known /\ i \in Spanned(page)' /\ place'[rows'[i].ep] = "here"
        BY <3>3 DEF Remained
      <4>2. i \in DOMAIN rows /\ place[rows[i].ep] \in {"here", "moved"} /\ rows[i].ep \in Endpoint
        BY <2>1, <4>1, RowTimes DEF BarOK
      <4>3. place[rows[i].ep] = "here"
        BY <2>2, <4>1, <4>2 DEF Grown
      <4>4. i \in Spanned(page)
        BY <2>2, <4>1, <4>2 DEF Spanned, Edge
      <4> QED BY <4>1, <4>3, <4>4 DEF Remained
    <3> QED BY <3>2, <3>3
  <2>5. Cardinality(Remained(page))' <= Sum(data)' /\ Sum(data)' <= Cardinality(Spanned(page))'
    <3> DEFINE A == Spanned(page)
               C == Spanned(page)'
               Q == Remained(page)
               R == Remained(page)'
    <3>1. IsFiniteSet(A) /\ IsFiniteSet(Q)
      BY <2>1, BarSets
    <3>2. IsFiniteSet(C) /\ IsFiniteSet(R)
      <4>1. Len(rows') \in Nat /\ DOMAIN rows' = 1..Len(rows')
        BY DEF Types
      <4>2. IsFiniteSet(DOMAIN rows')
        BY <4>1, FS_Interval
      <4>3. C \in SUBSET DOMAIN rows' /\ R \in SUBSET DOMAIN rows'
        BY DEF Spanned, Remained
      <4> QED BY <4>2, <4>3, FS_Subset
    <3>3. A \in SUBSET C /\ R \in SUBSET Q
      BY <2>4
    <3>4. Cardinality(Q) <= Sum(data) /\ Sum(data) <= Cardinality(A)
      BY <2>1 DEF BarOK
    <3>5. Sum(data) \in Nat
      BY <2>1, SumAppend DEF BarOK
    <3> HIDE DEF A, C, Q, R
    <3>6. Cardinality(A) <= Cardinality(C) /\ Cardinality(R) <= Cardinality(Q)
          /\ Cardinality(A) \in Nat /\ Cardinality(C) \in Nat /\ Cardinality(Q) \in Nat /\ Cardinality(R) \in Nat
      BY <3>1, <3>2, <3>3, FS_Subset, FS_CardinalityType
    <3>7. Cardinality(R) <= Sum(data) /\ Sum(data) <= Cardinality(C)
      BY <3>4, <3>5, <3>6
    <3>8. Sum(data)' = Sum(data)
      BY DEF Sum
    <3> QED BY <3>7, <3>8 DEF C, R
  <2>6. BarOK'
    BY <2>1, <2>3, <2>5 DEF BarOK
  <2> QED BY <2>6, <1>2 DEF BarInv
<1> QED BY <1>1, <1>2

(* The request for the chart *)
LEMMA AskBars ==
    ASSUME BarInv, Types', NEW v \in Views, NEW f \in Filters, Ask(v, f)
    PROVE  BarInv'
<1>1. /\ pc = "start" /\ page = 1 /\ data = <<>> /\ pc' # "start" /\ view' = v /\ Types
      /\ UNCHANGED <<now, place, rows, events, page, data>> /\ asked' = now
  BY DEF Ask, BarInv, dbVars
<1>2. CASE v # "dashboard"
  BY <1>1, <1>2 DEF BarInv
<1>3. CASE v = "dashboard"
  <2>1. pc' = "bar" /\ known' = {i \in DOMAIN rows : place[rows[i].ep] = "here"}
    BY <1>3 DEF Ask
  <2>2. asked' \in Nat /\ NumSteps \in Nat \ {0} /\ <<>> \in Seq(Nat)
    BY <1>1, DataViewsAssumption DEF Types
  <2>3. Edge(1)' \in Int
    <3>1. asked' \in Nat => (\A k \in Int : Edge(k)' \in Int)
      <4>1. Delta \in Nat \ {0}
        BY DataViewsAssumption
      <4> QED BY <2>2, <4>1 DEF Edge
    <3> QED BY <2>2, <3>1
  <2>4. Spanned(page)' = {} /\ Remained(page)' = {}
    <3>1. Edge(page)' = Edge(1)'
      BY <1>1 DEF Edge
    <3>2. \A i \in DOMAIN rows' : rows'[i].ts \in Nat
      BY DEF Types, Row
    <3>3. Spanned(page)' = {i \in DOMAIN rows' : Edge(1)' <= rows'[i].ts /\ rows'[i].ts < Edge(1)'}
      BY <3>1 DEF Spanned
    <3>4. Spanned(page)' = {}
      BY <2>3, <3>2, <3>3
    <3> QED BY <3>4 DEF Remained
  <2>5. Cardinality(Remained(page))' = 0 /\ Cardinality(Spanned(page))' = 0 /\ Sum(data)' = 0
    BY <1>1, <2>4, FS_EmptySet, SumEmpty
  <2>6. BarOK'
    BY <1>1, <2>1, <2>2, <2>5 DEF BarOK
  <2> QED BY <1>1, <2>6 DEF BarInv
<1> QED BY <1>2, <1>3

LEMMA NextBarInv == BarInv /\ [Next]_vars => BarInv'
<1> SUFFICES ASSUME BarInv, [Next]_vars PROVE BarInv'
  OBVIOUS
<1>1. Types /\ Types' /\ Grown
  BY DbStep DEF BarInv
<1>2. CASE UNCHANGED <<view, pc, asked, page, data, known>>
  BY <1>1, <1>2, BarKept
<1>3. CASE UNCHANGED vars
  BY <1>2, <1>3 DEF vars
<1>4. CASE Tick
  BY <1>2, <1>4 DEF Tick, Change
<1>5. ASSUME NEW e \in Endpoint, Move(e) PROVE BarInv'
  BY <1>2, <1>5 DEF Move, Change
<1>6. ASSUME NEW e \in Endpoint, NEW type \in EventTypes, AddEvent(e, type) PROVE BarInv'
  BY <1>2, <1>6 DEF AddEvent, Change
<1>7. ASSUME NEW x \in Readings, NEW ts \in 0..(now + MaxAhead), AddReading(x, ts) PROVE BarInv'
  BY <1>2, <1>7 DEF AddReading, Change
<1>8. ASSUME NEW e \in DOMAIN events, LinkReading(e) PROVE BarInv'
  BY <1>2, <1>8 DEF LinkReading, Change
<1>9. ASSUME NEW v \in Views, NEW f \in Filters, Ask(v, f) PROVE BarInv'
  BY <1>1, <1>9, AskBars
<1>10. CASE CountBar
  BY <1>1, <1>10, CountBarOK
<1>11. CASE CountPage \/ FetchPage \/ CountExport \/ FetchExport \/ FetchPumpExport
  <2>1. view # "dashboard" /\ view' = view /\ view \in Pager \cup Export
    BY <1>11 DEF CountPage, FetchPage, CountExport, FetchExport, FetchPumpExport, Pager, Export
  <2>2. pc' # "start"
    BY <1>11 DEF CountPage, FetchPage, CountExport, FetchExport, FetchPumpExport
  <2> QED BY <1>1, <2>1, <2>2 DEF BarInv
<1> QED BY <1>3, <1>4, <1>5, <1>6, <1>7, <1>8, <1>9, <1>10, <1>11 DEF Next

(* The bars counted so far have each reading of their time that was there    *)
(* when the chart was asked for and still is, and none twice.                *)
THEOREM BarsInvariance == Spec => []BarInv
<1>1. Init => BarInv
  <2>1. Init => Types
    BY DataViewsAssumption DEF Init, Types
  <2> QED BY <2>1 DEF Init, BarInv
<1> QED BY <1>1, NextBarInv, PTL DEF Spec

(* The dashboard's bars: no reading of the time they span is left out at an  *)
(* edge of two queries or counted by both, whatever arrives in between.      *)
THEOREM BarsAreComplete == Spec => []BarsComplete
<1>1. BarInv => BarsComplete
  <2> SUFFICES ASSUME BarInv, view = "dashboard", pc = "done"
               PROVE  LET recent(t) == {i \in DOMAIN rows : rows[i].ts > t}
                      IN  /\ Cardinality({i \in known \cap recent(asked - (NumSteps - 1) * Delta) :
                                            place[rows[i].ep] = "here" /\ rows[i].ts <= asked}) <= Sum(data)
                          /\ Sum(data) <= Cardinality(recent(asked - NumSteps * Delta))
    BY DEF BarsComplete
  <2> DEFINE recent(t) == {i \in DOMAIN rows : rows[i].ts > t}
             a == asked - NumSteps * Delta
             b == asked - (NumSteps - 1) * Delta
             K == {i \in known \cap recent(b) : place[rows[i].ep] = "here" /\ rows[i].ts <= asked}
  <2>1. BarOK /\ Types /\ page = NumSteps + 1 /\ asked \in Nat
    BY DEF BarInv, BarOK
  <2>2. NumSteps \in Nat /\ Delta \in Nat /\ Edge(1) \in Int /\ Edge(page) \in Int
    <3>1. NumSteps \in Nat /\ Delta \in Nat /\ page \in Int /\ 1 \in Int
      BY <2>1, DataViewsAssumption
    <3> QED BY <2>1, <3>1, Edges
  <2>3. a \in Int /\ b \in Int /\ Edge(1) <= b /\ a < Edge(1) /\ asked < Edge(page)
    BY <2>1, <2>2, Edges
  <2> HIDE DEF a, b
  <2>4. K \in SUBSET Remained(page)
    BY <2>1, <2>2, <2>3, RowTimes DEF Remained, Spanned
  <2>5. Spanned(page) \in SUBSET recent(a)
    BY <2>1, <2>2, <2>3, RowTimes DEF Spanned
  <2>6. IsFiniteSet(recent(a))
    <3>1. IsFiniteSet(DOMAIN rows)
      <4>1. Len(rows) \in Nat /\ DOMAIN rows = 1..Len(rows)
        BY <2>1 DEF Types
      <4> QED BY <4>1, FS_Interval
    <3> QED BY <3>1, FS_Subset
  <2>7. Cardinality(Remained(page)) <= Sum(data) /\ Sum(data) <= Cardinality(Spanned(page)) /\ data \in Seq(Nat)
    BY <2>1 DEF BarOK
  <2>8. Cardinality(K) <= Sum(data) /\ Sum(data) <= Cardinality(recent(a))
    <3> DEFINE S == Spanned(page)
               R == Remained(page)
               T == recent(a)
    <3>1. IsFiniteSet(R) /\ IsFiniteSet(S) /\ IsFiniteSet(T) /\ Sum(data) \in Nat
      BY <2>1, <2>6, <2>7, BarSets, SumAppend
    <3>2. K \in SUBSET R /\ S \in SUBSET T
      BY <2>4, <2>5
    <3>3. Cardinality(R) <= Sum(data) /\ Sum(data) <= Cardinality(S)
      BY <2>7
    <3> HIDE DEF S, R, T, K
    <3>4. /\ Cardinality(K) <= Cardinality(R) /\ Cardinality(S) <= Cardinality(T)
          /\ Cardinality(K) \in Nat /\ Cardinality(R) \in Nat /\ Cardinality(S) \in Nat /\ Cardinality(T) \in Nat
      BY <3>1, <3>2, FS_Subset, FS_CardinalityType
    <3> QED BY <3>1, <3>3, <3>4 DEF T
  <2> QED BY <2>8 DEF a, b
<1> QED BY <1>1, BarsInvariance, PTL
=============================================================================
