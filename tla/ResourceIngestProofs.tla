------------------------ MODULE ResourceIngestProofs ------------------------
(***************************************************************************)
(* Readings on their way into the database, for any bodies and any number    *)
(* of attempts that overlap.  An attempt is at a place of the body; what it   *)
(* has stored and linked is what lies before that place, and perhaps what is *)
(* there.                                                                    *)
(***************************************************************************)
EXTENDS ResourceIngest, TLAPS

Pos(a) == <<group[a], node[a]>>

Status == {"new", "group", "node", "link", "201", "400", "500"}

Types ==
    /\ body \in Bodies
    /\ at \in [Attempt -> Status]
    /\ group \in [Attempt -> Nat \ {0}]
    /\ node \in [Attempt -> Nat \ {0}]
    /\ event \in [Attempt -> Nat]

(* Where an attempt is. *)
PosOK(a) ==
    /\ at[a] \in {"new", "group"} => node[a] = 1
    /\ at[a] \in {"node", "link"} => group[a] \in DOMAIN Groups
    /\ at[a] = "link" => node[a] <= Len(Groups[group[a]])
    /\ at[a] = "201" => group[a] > Len(Groups)

(* What it has stored. *)
RowsOK(a) ==
    /\ \A p \in Places : <<a, p[1], p[2]>> \in rows =>
          p \in Storable /\ (Before(p, Pos(a)) \/ p = Pos(a))
    /\ \A p \in Storable : Before(p, Pos(a)) => <<a, p[1], p[2]>> \in rows
    /\ at[a] = "link" => <<a, group[a], node[a]>> \in rows

(* Its event. *)
EventOK(a) ==
    /\ body.form = "composite" /\ at[a] \in {"node", "link"} => event[a] = group[a]
    /\ body.form = "single" => event[a] = 0
    /\ body.form = "timestamped" /\ event[a] = 0 /\ Several =>
          at[a] # "link" /\ \A p \in Places : ~Before(p, Pos(a))
    /\ body.form = "timestamped" /\ event[a] # 0 => Several /\ event[a] = First[1]

LinkOf(a, p) == <<a, EventOf(p), p[1], p[2]>>

(* What it has linked. *)
LinksOK(a) ==
    /\ \A l \in links : l[1] = a =>
          \E p \in Places : EventOf(p) # 0 /\ <<a, p[1], p[2]>> \in rows /\ l = LinkOf(a, p)
    /\ \A p \in Places : EventOf(p) # 0 /\ <<a, p[1], p[2]>> \in rows /\ Before(p, Pos(a)) =>
          LinkOf(a, p) \in links

IInv ==
    /\ Types
    /\ \A a \in Attempt : PosOK(a) /\ RowsOK(a) /\ EventOK(a) /\ LinksOK(a)
    /\ gateway = "done" => \E a \in Attempt : at[a] = "201"

-----------------------------------------------------------------------------
(* Places and their order. *)

LEMMA GroupFacts ==
    ASSUME body \in Bodies
    PROVE  /\ body.form \in Form
           /\ Len(Groups) \in Nat /\ DOMAIN Groups = 1..Len(Groups)
           /\ \A g \in DOMAIN Groups :
                 /\ Groups[g] \in Seq(Node) /\ Len(Groups[g]) \in Nat
                 /\ DOMAIN Groups[g] = 1..Len(Groups[g])
BY IngestAssumption DEF Groups

LEMMA PlaceFacts ==
    ASSUME body \in Bodies, NEW p
    PROVE  p \in Places <=>
               \E g \in DOMAIN Groups : \E n \in DOMAIN Groups[g] : p = <<g, n>>
BY DEF Places

LEMMA PlaceParts ==
    ASSUME body \in Bodies, NEW p \in Places
    PROVE  /\ p = <<p[1], p[2]>>
           /\ p[1] \in DOMAIN Groups /\ p[1] \in Nat \ {0} /\ p[1] <= Len(Groups)
           /\ p[2] \in DOMAIN Groups[p[1]] /\ p[2] \in Nat \ {0} /\ p[2] <= Len(Groups[p[1]])
<1>1. PICK g \in DOMAIN Groups : \E n \in DOMAIN Groups[g] : p = <<g, n>>
  BY PlaceFacts
<1>2. PICK n \in DOMAIN Groups[g] : p = <<g, n>>
  BY <1>1
<1>3. p[1] = g /\ p[2] = n
  BY <1>2
<1> QED BY <1>2, <1>3, GroupFacts

(* One node further. *)
LEMMA NextPlace ==
    ASSUME body \in Bodies, NEW p \in Places, NEW g \in Nat, NEW n \in Nat
    PROVE  Before(p, <<g, n + 1>>) <=> Before(p, <<g, n>>) \/ p = <<g, n>>
<1>1. p = <<p[1], p[2]>> /\ p[1] \in Nat /\ p[2] \in Nat
  BY PlaceParts
<1>2. p = <<g, n>> <=> p[1] = g /\ p[2] = n
  BY <1>1
<1> QED BY <1>1, <1>2 DEF Before

(* One group further, at the end of a group. *)
LEMMA NextGroup ==
    ASSUME body \in Bodies, NEW p \in Places, NEW g \in DOMAIN Groups, NEW n \in Nat,
           n > Len(Groups[g])
    PROVE  Before(p, <<g + 1, 1>>) <=> Before(p, <<g, n>>)
<1>1. p = <<p[1], p[2]>> /\ p[1] \in Nat /\ p[2] \in Nat \ {0} /\ p[2] <= Len(Groups[p[1]])
  BY PlaceParts
<1>2. g \in Nat /\ Len(Groups[g]) \in Nat
  BY GroupFacts
<1>3. p[1] = g => p[2] < n
  BY <1>1, <1>2
<1>4. Before(p, <<g + 1, 1>>) <=> p[1] < g + 1
  BY <1>1, <1>2 DEF Before
<1>5. Before(p, <<g, n>>) <=> p[1] < g \/ p[1] = g
  BY <1>1, <1>2, <1>3 DEF Before
<1> QED BY <1>1, <1>2, <1>4, <1>5

(* Beyond the last group. *)
LEMMA AllBefore ==
    ASSUME body \in Bodies, NEW p \in Places, NEW g \in Nat, g > Len(Groups), NEW n
    PROVE  Before(p, <<g, n>>)
<1>1. p[1] \in Nat /\ p[1] <= Len(Groups) /\ Len(Groups) \in Nat
  BY PlaceParts, GroupFacts
<1> QED BY <1>1 DEF Before

(* A place with none before it is the first. *)
LEMMA FirstPlace ==
    ASSUME body \in Bodies, NEW q \in Places, \A p \in Places : ~Before(p, q)
    PROVE  First = q
<1>1. \A x, y \in Places : x = y \/ Before(x, y) \/ Before(y, x)
  BY PlaceParts DEF Before
<1>2. \A y \in Places : q = y \/ Before(q, y)
  BY <1>1
<1>3. First \in Places /\ \A y \in Places : First = y \/ Before(First, y)
  BY <1>2 DEF First
<1> QED BY <1>3

(* The body does not change, and so nothing does that is computed from it. *)
LEMMA BodyFixed ==
    ASSUME UNCHANGED body
    PROVE  /\ Groups' = Groups /\ Places' = Places /\ Storable' = Storable
           /\ Several' = Several /\ First' = First /\ ValidBody' = ValidBody
           /\ \A p : EventOf(p)' = EventOf(p) /\ NodeAt(p)' = NodeAt(p)
           /\ \A a, p : LinkOf(a, p)' = LinkOf(a, p)
<1>1. Groups' = Groups BY DEF Groups
<1>2. Places' = Places BY <1>1 DEF Places
<1>3. \A p : NodeAt(p)' = NodeAt(p) BY <1>1 DEF NodeAt
<1>4. Storable' = Storable BY <1>2, <1>3 DEF Storable
<1>5. Several' = Several BY <1>1 DEF Several
<1>6. First' = First BY <1>2 DEF First
<1>7. ValidBody' = ValidBody BY <1>2, <1>3 DEF ValidBody
<1>8. \A p : EventOf(p)' = EventOf(p) BY <1>5, <1>6 DEF EventOf
<1>9. \A a, p : LinkOf(a, p)' = LinkOf(a, p) BY <1>8 DEF LinkOf
<1> QED BY <1>1, <1>2, <1>3, <1>4, <1>5, <1>6, <1>7, <1>8, <1>9

AttemptOK(a) == PosOK(a) /\ RowsOK(a) /\ EventOK(a) /\ LinksOK(a)

(* Nothing is stored or linked in the name of b, which stays where it is. *)
Aside(b) ==
    /\ at'[b] = at[b] /\ group'[b] = group[b] /\ node'[b] = node[b] /\ event'[b] = event[b]
    /\ \A g, n : <<b, g, n>> \in rows' <=> <<b, g, n>> \in rows
    /\ \A l : l[1] = b => (l \in links' <=> l \in links)

LEMMA AsideOK ==
    ASSUME UNCHANGED body, NEW b, Aside(b), AttemptOK(b)
    PROVE  AttemptOK(b)'
<1>0. Pos(b)' = Pos(b) BY DEF Pos, Aside
<1>1. PosOK(b)' BY BodyFixed DEF AttemptOK, PosOK, Aside
<1>2. RowsOK(b)' BY <1>0, BodyFixed DEF AttemptOK, RowsOK, Aside
<1>3. EventOK(b)' BY <1>0, BodyFixed DEF AttemptOK, EventOK, Aside
<1>4. LinksOK(b)'
  <2>1. \A p : LinkOf(b, p)[1] = b BY DEF LinkOf
  <2> QED BY <1>0, <2>1, BodyFixed DEF AttemptOK, LinksOK, Aside
<1> QED BY <1>1, <1>2, <1>3, <1>4 DEF AttemptOK

(* The steps of an attempt touch nothing of the others. *)
LEMMA OthersAside ==
    ASSUME IInv, NEW a \in Attempt, Begin(a) \/ AttemptStep(a) \/ Fail(a), NEW b \in Attempt, b # a
    PROVE  Aside(b)
<1>0. /\ at \in [Attempt -> Status] /\ group \in [Attempt -> Nat \ {0}]
      /\ node \in [Attempt -> Nat \ {0}] /\ event \in [Attempt -> Nat]
  BY DEF IInv, Types
<1> USE DEF Begin, AttemptStep, Fail, StartGroup, EndGroup, FirstEvent, Skip, Store, Link, CreateEvent,
        NextNode, Goto
<1>1. at'[b] = at[b] BY <1>0
<1>2. group'[b] = group[b] BY <1>0
<1>3. node'[b] = node[b] BY <1>0
<1>4. event'[b] = event[b] BY <1>0
<1>5. rows' = rows \/ rows' = rows \cup {<<a, group[a], node[a]>>} OBVIOUS
<1>6. links' = links \/ links' = links \cup {<<a, event[a], group[a], node[a]>>} OBVIOUS
<1>7. \A g, n : <<b, g, n>> \in rows' <=> <<b, g, n>> \in rows BY <1>5
<1>8. \A l : l[1] = b => (l \in links' <=> l \in links) BY <1>6
<1> QED BY <1>1, <1>2, <1>3, <1>4, <1>7, <1>8 DEF Aside

(* An attempt goes on, or ends, without doing anything. *)
LEMMA GotoOK ==
    ASSUME IInv, NEW a \in Attempt, NEW l \in Status \ {"link"}, Goto(a, l), PosOK(a)',
           l = "node" /\ body.form = "composite" => event[a] = group[a],
           UNCHANGED <<body, group, node, event, rows, links>>
    PROVE  AttemptOK(a)'
<1>0. AttemptOK(a) /\ at'[a] = l
  BY DEF IInv, Types, AttemptOK, Goto
<1>1. Pos(a)' = Pos(a) BY DEF Pos
<1>2. RowsOK(a)' BY <1>0, <1>1, BodyFixed DEF AttemptOK, RowsOK
<1>3. EventOK(a)' BY <1>0, <1>1, BodyFixed DEF AttemptOK, EventOK
<1>4. LinksOK(a)' BY <1>0, <1>1, BodyFixed DEF AttemptOK, LinksOK
<1> QED BY <1>2, <1>3, <1>4 DEF AttemptOK

LEMMA BeginOK ==
    ASSUME IInv, NEW a \in Attempt, Begin(a)
    PROVE  AttemptOK(a)'
<1>1. PICK l \in {"group", "400"} : Goto(a, l)
  BY DEF Begin
<1>2. at'[a] = l /\ at[a] = "new" /\ UNCHANGED <<body, group, node, event, rows, links>>
  BY <1>1 DEF Begin, Goto, IInv, Types
<1>3. PosOK(a)'
  BY <1>2 DEF IInv, PosOK
<1> QED BY <1>1, <1>2, <1>3, GotoOK DEF Status

LEMMA StartGroupOK ==
    ASSUME IInv, NEW a \in Attempt, StartGroup(a)
    PROVE  AttemptOK(a)'
<1>0. Types /\ AttemptOK(a) /\ at[a] = "group"
  BY DEF IInv, AttemptOK, StartGroup
<1>1. CASE group[a] > Len(Groups)
  <2>1. Goto(a, "201") /\ at'[a] = "201" /\ UNCHANGED <<body, group, node, event, rows, links>>
    BY <1>0, <1>1, GroupFacts DEF StartGroup, Goto, Types
  <2>2. PosOK(a)'
    BY <1>1, <2>1, BodyFixed DEF PosOK
  <2> QED BY <2>1, <2>2, GotoOK DEF Status
<1>2. CASE ~(group[a] > Len(Groups))
  <2>1. /\ Goto(a, "node") /\ at'[a] = "node" /\ UNCHANGED <<body, group, node, rows, links>>
        /\ IF body.form = "composite" THEN event' = [event EXCEPT ![a] = group[a]] ELSE event' = event
    BY <1>0, <1>2 DEF StartGroup, Goto, Types, CreateEvent
  <2>2. group[a] \in DOMAIN Groups
    BY <1>0, <1>2, GroupFacts DEF Types
  <2>3. PosOK(a)'
    BY <2>1, <2>2, BodyFixed DEF PosOK
  <2>4. CASE body.form # "composite"
    BY <2>1, <2>3, <2>4, GotoOK DEF Status
  <2>5. CASE body.form = "composite"
    <3>1. event'[a] = group[a]
      BY <1>0, <2>1, <2>5 DEF Types
    <3>2. Pos(a)' = Pos(a) BY <2>1 DEF Pos
    <3>3. RowsOK(a)' BY <1>0, <2>1, <3>2, BodyFixed DEF AttemptOK, RowsOK
    <3>4. EventOK(a)' BY <2>1, <2>5, <3>1 DEF EventOK
    <3>5. LinksOK(a)' BY <1>0, <2>1, <3>2, BodyFixed DEF AttemptOK, LinksOK
    <3> QED BY <2>3, <3>3, <3>4, <3>5 DEF AttemptOK
  <2> QED BY <2>4, <2>5
<1> QED BY <1>1, <1>2

LEMMA EndGroupOK ==
    ASSUME IInv, NEW a \in Attempt, EndGroup(a)
    PROVE  AttemptOK(a)'
<1> DEFINE g == group[a]
           n == node[a]
<1>0. /\ Types /\ AttemptOK(a) /\ at[a] = "node" /\ n > Len(Groups[g]) /\ g \in DOMAIN Groups
      /\ g \in Nat /\ n \in Nat
  BY DEF IInv, AttemptOK, EndGroup, PosOK, Types
<1>1. /\ at'[a] = "group" /\ group'[a] = g + 1 /\ node'[a] = 1
      /\ UNCHANGED <<body, event, rows, links>>
  BY <1>0 DEF EndGroup, Goto, Types
<1>2. Pos(a) = <<g, n>> /\ Pos(a)' = <<g + 1, 1>>
  BY <1>1 DEF Pos
<1> HIDE DEF g, n
<1>3. \A p \in Places : Before(p, <<g + 1, 1>>) <=> Before(p, <<g, n>>)
  BY <1>0, NextGroup DEF Types
<1>4. \A p \in Places : p # <<g, n>>
  <2> SUFFICES ASSUME <<g, n>> \in Places PROVE FALSE
    OBVIOUS
  <2>1. n <= Len(Groups[g])
    BY <1>0, PlaceParts DEF Types
  <2> QED BY <1>0, <2>1, GroupFacts DEF Types
<1>5. PosOK(a)' BY <1>1 DEF PosOK
<1>6. RowsOK(a)'
  <2>1. Storable \subseteq Places BY DEF Storable
  <2> QED BY <1>0, <1>1, <1>2, <1>3, <1>4, <2>1, BodyFixed DEF AttemptOK, RowsOK
<1>7. EventOK(a)' BY <1>0, <1>1, <1>2, <1>3, BodyFixed DEF AttemptOK, EventOK
<1>8. LinksOK(a)' BY <1>0, <1>1, <1>2, <1>3, BodyFixed DEF AttemptOK, LinksOK
<1> QED BY <1>5, <1>6, <1>7, <1>8 DEF AttemptOK

(* The place an attempt is at is one of the body. *)
LEMMA AtPlace ==
    ASSUME IInv, NEW a \in Attempt, AtNode(a) \/ at[a] = "link"
    PROVE  /\ Pos(a) \in Places /\ Pos(a)[1] = group[a] /\ Pos(a)[2] = node[a]
           /\ Current(a) = NodeAt(Pos(a))
           /\ group[a] \in DOMAIN Groups /\ group[a] \in Nat \ {0} /\ node[a] \in Nat
<1>1. /\ Types /\ group[a] \in DOMAIN Groups /\ node[a] <= Len(Groups[group[a]])
      /\ group[a] \in Nat \ {0} /\ node[a] \in Nat \ {0}
  BY DEF IInv, PosOK, AtNode, Types
<1>2. node[a] \in DOMAIN Groups[group[a]]
  BY <1>1, GroupFacts DEF Types
<1>3. Pos(a) \in Places
  BY <1>1, <1>2, PlaceFacts DEF Types, Pos
<1> QED BY <1>1, <1>3 DEF Pos, Current

LEMMA FirstEventOK ==
    ASSUME IInv, NEW a \in Attempt, FirstEvent(a)
    PROVE  AttemptOK(a)'
<1>0. /\ Types /\ AttemptOK(a) /\ AtNode(a) /\ body.form = "timestamped" /\ event[a] = 0
      /\ Len(Groups[group[a]]) > 1 \/ Len(Groups) > 1
  BY DEF IInv, AttemptOK, FirstEvent, EventDue
<1>1. event'[a] = group[a] /\ UNCHANGED <<body, at, group, node, rows, links>>
  BY <1>0 DEF FirstEvent, CreateEvent, Types
<1>2. Several
  BY <1>0, AtPlace DEF Several
<1>3. First = Pos(a)
  BY <1>0, <1>2, AtPlace, FirstPlace DEF AttemptOK, EventOK, Types
<1>4. event'[a] = First[1]
  BY <1>0, <1>1, <1>3, AtPlace
<1>5. event'[a] # 0
  BY <1>0, <1>1, AtPlace
<1>6. Pos(a)' = Pos(a) BY <1>1 DEF Pos
<1>7. PosOK(a)' BY <1>0, <1>1, BodyFixed DEF AttemptOK, PosOK
<1>8. RowsOK(a)' BY <1>0, <1>1, <1>6, BodyFixed DEF AttemptOK, RowsOK
<1>9. EventOK(a)' BY <1>0, <1>1, <1>2, <1>4, <1>5, BodyFixed DEF EventOK
<1>10. LinksOK(a)' BY <1>0, <1>1, <1>6, BodyFixed DEF AttemptOK, LinksOK
<1> QED BY <1>7, <1>8, <1>9, <1>10 DEF AttemptOK

(* Past its first node, an attempt at a Send of several readings has its     *)
(* event.                                                                    *)
LEMMA NotDue ==
    ASSUME IInv, NEW a \in Attempt, AtNode(a), ~EventDue(a), body.form = "timestamped", Several
    PROVE  event[a] # 0
<1>1. /\ Types /\ group[a] \in DOMAIN Groups /\ Len(Groups) \in Nat
      /\ DOMAIN Groups = 1..Len(Groups)
  BY AtPlace, GroupFacts DEF IInv, Types
<1>2. CASE Len(Groups) > 1
  BY <1>2 DEF EventDue
<1>3. CASE ~(Len(Groups) > 1)
  <2>1. PICK g \in DOMAIN Groups : Len(Groups[g]) > 1
    BY <1>3 DEF Several
  <2>2. g = group[a]
    BY <1>1, <1>3
  <2> QED BY <2>1, <2>2 DEF EventDue
<1> QED BY <1>2, <1>3

LEMMA SkipOK ==
    ASSUME IInv, NEW a \in Attempt, Skip(a)
    PROVE  AttemptOK(a)'
<1> DEFINE g == group[a]
           n == node[a]
<1>0. /\ Types /\ AttemptOK(a) /\ AtNode(a) /\ ~EventDue(a) /\ ~Known(Current(a)) /\ at[a] = "node"
  BY DEF IInv, AttemptOK, Skip, AtNode
<1>1. /\ node'[a] = n + 1 /\ UNCHANGED <<body, at, group, event, rows, links>>
  BY <1>0 DEF Skip, NextNode, Types
<1>2. /\ Pos(a) = <<g, n>> /\ Pos(a)' = <<g, n + 1>> /\ g \in Nat /\ n \in Nat
      /\ g \in DOMAIN Groups
  BY <1>0, <1>1, AtPlace DEF Pos
<1>3. Pos(a) \notin Storable
  BY <1>0, AtPlace DEF Storable
<1> HIDE DEF g, n
<1>4. \A p \in Places : Before(p, Pos(a)') <=> Before(p, Pos(a)) \/ p = Pos(a)
  BY <1>0, <1>2, NextPlace DEF Types
<1>5. PosOK(a)' BY <1>0, <1>1, BodyFixed DEF AttemptOK, PosOK
<1>6. RowsOK(a)'
  <2>1. Storable \subseteq Places BY DEF Storable
  <2> QED BY <1>0, <1>1, <1>3, <1>4, <2>1, BodyFixed DEF AttemptOK, RowsOK
<1>7. EventOK(a)'
  BY <1>0, <1>1, NotDue, BodyFixed DEF AttemptOK, EventOK
<1>8. LinksOK(a)'
  BY <1>0, <1>1, <1>3, <1>4, BodyFixed DEF AttemptOK, RowsOK, LinksOK
<1> QED BY <1>5, <1>6, <1>7, <1>8 DEF AttemptOK

LEMMA StoreOK ==
    ASSUME IInv, NEW a \in Attempt, Store(a)
    PROVE  AttemptOK(a)'
<1>0. /\ Types /\ AttemptOK(a) /\ AtNode(a) /\ ~EventDue(a) /\ Known(Current(a)) /\ at[a] = "node"
      /\ UNCHANGED <<body, group, node, event, links>>
  BY DEF IInv, AttemptOK, Store, AtNode
<1>1. CASE rows' = rows \cup {<<a, group[a], node[a]>>} /\ Goto(a, "link")
  <2>1. at'[a] = "link" BY <1>0, <1>1 DEF Goto, Types
  <2>2. /\ Pos(a)' = Pos(a) /\ Pos(a) \in Storable
        /\ Pos(a)[1] = group[a] /\ Pos(a)[2] = node[a] /\ group[a] \in DOMAIN Groups
    BY <1>0, AtPlace DEF Pos, Storable
  <2>3. PosOK(a)'
    BY <1>0, <2>1, <2>2, BodyFixed DEF PosOK, AtNode
  <2>4. \A p \in Places : <<a, p[1], p[2]>> \in rows' <=> <<a, p[1], p[2]>> \in rows \/ p = Pos(a)
    BY <1>0, <1>1, <2>2, PlaceParts DEF Pos, Types
  <2>5. RowsOK(a)'
    <3>1. Storable \subseteq Places BY DEF Storable
    <3> QED BY <1>0, <1>1, <2>1, <2>2, <2>4, <3>1, BodyFixed DEF AttemptOK, RowsOK
  <2>6. EventOK(a)'
    BY <1>0, <2>1, <2>2, NotDue, BodyFixed DEF AttemptOK, EventOK
  <2>7. ~Before(Pos(a), Pos(a))
    BY <1>0 DEF Before, Pos, Types
  <2>8. LinksOK(a)'
    BY <1>0, <1>1, <2>2, <2>4, <2>7, BodyFixed DEF AttemptOK, LinksOK
  <2> QED BY <2>3, <2>5, <2>6, <2>8 DEF AttemptOK
<1>2. ASSUME NEW l \in {"400", "500"}, Goto(a, l), UNCHANGED rows PROVE AttemptOK(a)'
  <2>1. at'[a] = l BY <1>0, <1>2 DEF Goto, Types
  <2>2. PosOK(a)' BY <1>2, <2>1 DEF PosOK
  <2> QED BY <1>0, <1>2, <2>2, GotoOK DEF Status
<1> QED BY <1>1, <1>2 DEF Store

LEMMA LinkOK ==
    ASSUME IInv, NEW a \in Attempt, Link(a)
    PROVE  AttemptOK(a)'
<1> DEFINE g == group[a]
           n == node[a]
<1>0. Types /\ AttemptOK(a) /\ at[a] = "link"
  BY DEF IInv, AttemptOK, Link
<1>1. /\ at'[a] \in {"node", "400"} /\ node'[a] = n + 1 /\ UNCHANGED <<body, group, event, rows>>
      /\ links' = IF event[a] = 0 THEN links ELSE links \cup {<<a, event[a], g, n>>}
  BY <1>0 DEF Link, NextNode, Goto, Types
<1>2. /\ Pos(a) = <<g, n>> /\ Pos(a)' = <<g, n + 1>> /\ g \in Nat \ {0} /\ n \in Nat
      /\ g \in DOMAIN Groups /\ Pos(a) \in Places /\ Pos(a)[1] = g /\ Pos(a)[2] = n
  BY <1>0, <1>1, AtPlace DEF Pos
<1>3. event[a] = EventOf(Pos(a))
  <2>1. body.form \in Form BY <1>0, GroupFacts DEF Types
  <2>2. CASE body.form = "composite"
    BY <1>0, <1>2, <2>2 DEF AttemptOK, EventOK, EventOf
  <2>3. CASE body.form = "single"
    BY <1>0, <2>3 DEF AttemptOK, EventOK, EventOf
  <2>4. CASE body.form = "timestamped"
    BY <1>0, <2>4 DEF AttemptOK, EventOK, EventOf
  <2> QED BY <2>1, <2>2, <2>3, <2>4 DEF Form
<1>4. <<a, event[a], g, n>> = LinkOf(a, Pos(a)) /\ <<a, g, n>> \in rows
  BY <1>0, <1>2, <1>3 DEF LinkOf, AttemptOK, RowsOK
<1> HIDE DEF g, n
<1>5. \A p \in Places : Before(p, Pos(a)') <=> Before(p, Pos(a)) \/ p = Pos(a)
  BY <1>0, <1>2, NextPlace DEF Types
<1>6. PosOK(a)' BY <1>0, <1>1, BodyFixed DEF AttemptOK, PosOK
<1>7. RowsOK(a)'
  <2>1. Storable \subseteq Places BY DEF Storable
  <2> QED BY <1>0, <1>1, <1>2, <1>4, <1>5, <2>1, BodyFixed DEF AttemptOK, RowsOK
<1>8. EventOK(a)'
  BY <1>0, <1>1, BodyFixed DEF AttemptOK, EventOK
<1>9. LinksOK(a)'
  <2>1. \A l \in links' : l[1] = a =>
           \E p \in Places : EventOf(p) # 0 /\ <<a, p[1], p[2]>> \in rows /\ l = LinkOf(a, p)
    <3> SUFFICES ASSUME NEW l \in links', l[1] = a, l \notin links
                 PROVE  \E p \in Places : /\ EventOf(p) # 0 /\ <<a, p[1], p[2]>> \in rows
                                          /\ l = LinkOf(a, p)
      BY <1>0 DEF AttemptOK, LinksOK
    <3>1. l = LinkOf(a, Pos(a)) /\ event[a] # 0
      BY <1>1, <1>4
    <3> QED BY <1>2, <1>3, <1>4, <3>1
  <2>2. \A p \in Places : EventOf(p) # 0 /\ <<a, p[1], p[2]>> \in rows /\ Before(p, Pos(a)') =>
           LinkOf(a, p) \in links'
    BY <1>0, <1>1, <1>3, <1>4, <1>5 DEF AttemptOK, LinksOK
  <2> QED BY <1>1, <2>1, <2>2, BodyFixed DEF LinksOK
<1> QED BY <1>6, <1>7, <1>8, <1>9 DEF AttemptOK

LEMMA FailOK ==
    ASSUME IInv, NEW a \in Attempt, Fail(a)
    PROVE  AttemptOK(a)'
<1>1. Goto(a, "500") /\ at'[a] = "500" /\ UNCHANGED <<body, group, node, event, rows, links>>
  BY DEF Fail, Goto, IInv, Types
<1>2. PosOK(a)' BY <1>1 DEF PosOK
<1> QED BY <1>1, <1>2, GotoOK DEF Status

LEMMA InitIInv == Init => IInv
<1> SUFFICES ASSUME Init PROVE IInv
  OBVIOUS
<1>1. Types BY DEF Init, Types, Status
<1>2. ASSUME NEW a \in Attempt PROVE PosOK(a) /\ RowsOK(a) /\ EventOK(a) /\ LinksOK(a)
  <2>1. Pos(a) = <<1, 1>> /\ at[a] = "new" /\ event[a] = 0 /\ rows = {} /\ links = {} /\ node[a] = 1
    BY DEF Init, Pos
  <2>2. \A p \in Places : ~Before(p, <<1, 1>>)
    BY <1>1, PlaceParts DEF Before, Types
  <2>3. \A p \in Storable : p \in Places BY DEF Storable
  <2> QED BY <2>1, <2>2, <2>3 DEF PosOK, RowsOK, EventOK, LinksOK
<1> QED BY <1>1, <1>2 DEF IInv, Init

LEMMA StepTypes ==
    ASSUME IInv, NEW a \in Attempt, Begin(a) \/ AttemptStep(a) \/ Fail(a)
    PROVE  Types' /\ at[a] # "201" /\ UNCHANGED gateway
<1>0. Types BY DEF IInv
<1> USE DEF Begin, AttemptStep, Fail, StartGroup, EndGroup, FirstEvent, Skip, Store, Link, CreateEvent,
        NextNode, Goto, AtNode
<1>1. at[a] # "201" /\ UNCHANGED <<gateway, body>> OBVIOUS
<1>2. at' \in [Attempt -> Status] BY <1>0 DEF Types, Status
<1>3. group' \in [Attempt -> Nat \ {0}] BY <1>0 DEF Types
<1>4. node' \in [Attempt -> Nat \ {0}] BY <1>0 DEF Types
<1>5. event' \in [Attempt -> Nat] BY <1>0 DEF Types
<1> QED BY <1>0, <1>1, <1>2, <1>3, <1>4, <1>5 DEF Types

LEMMA NextPreserves == IInv /\ [Next]_vars => IInv'
<1> SUFFICES ASSUME IInv, [Next]_vars PROVE IInv'
  OBVIOUS
<1>1. ASSUME NEW a \in Attempt, Begin(a) \/ AttemptStep(a) \/ Fail(a) PROVE IInv'
  <2>1. Types' /\ at[a] # "201" /\ UNCHANGED gateway BY <1>1, StepTypes
  <2>2. UNCHANGED body
    BY <1>1 DEF Begin, AttemptStep, Fail, StartGroup, EndGroup, FirstEvent, Skip, Store, Link
  <2>3. AttemptOK(a)'
    BY <1>1, BeginOK, StartGroupOK, EndGroupOK, FirstEventOK, SkipOK, StoreOK, LinkOK, FailOK
       DEF AttemptStep
  <2>4. ASSUME NEW b \in Attempt, b # a PROVE Aside(b) /\ AttemptOK(b)'
    <3>1. Aside(b) BY <1>1, <2>4, OthersAside
    <3>2. AttemptOK(b) BY DEF IInv, AttemptOK
    <3> QED BY <2>2, <3>1, <3>2, AsideOK
  <2>5. \A b \in Attempt : AttemptOK(b)' BY <2>3, <2>4
  <2>6. \A b \in Attempt : at[b] = "201" => at'[b] = "201" BY <2>1, <2>4 DEF Aside
  <2> QED BY <2>1, <2>5, <2>6 DEF IInv, AttemptOK
<1>2. CASE UNCHANGED <<body, at, group, node, event, rows, links>> /\
           (gateway' = "done" => \E a \in Attempt : at[a] = "201")
  <2>1. ASSUME NEW b \in Attempt PROVE AttemptOK(b)'
    <3>1. Aside(b) BY <1>2 DEF Aside
    <3>2. AttemptOK(b) BY DEF IInv, AttemptOK
    <3> QED BY <1>2, <3>1, <3>2, AsideOK
  <2>2. Types' BY <1>2 DEF IInv, Types
  <2> QED BY <1>2, <2>1, <2>2 DEF IInv, AttemptOK
<1>3. ASSUME NEW a \in Attempt, Answer(a) PROVE IInv'
  BY <1>2, <1>3 DEF Answer
<1>4. CASE GiveUp BY <1>2, <1>4 DEF GiveUp
<1>5. CASE UNCHANGED vars BY <1>2, <1>5 DEF vars, IInv
<1> QED BY <1>1, <1>3, <1>4, <1>5 DEF Next

(* Each attempt has stored and linked exactly what lies before its place. *)
THEOREM IngestInvariance == Spec => []IInv
<1> QED BY InitIInv, NextPreserves, PTL DEF Spec

-----------------------------------------------------------------------------
(* gateway_contract.rst, "201 for a stored request": when the gateway has     *)
(* that answer, an attempt stored every reading with a ResourceType.         *)
THEOREM AcceptedIsComplete == Spec => []AcceptedComplete
<1>1. IInv => AcceptedComplete
  <2> SUFFICES ASSUME IInv, NEW a \in Attempt, at[a] = "201", NEW p \in Storable
               PROVE  <<a, p[1], p[2]>> \in rows
    BY DEF IInv, AcceptedComplete
  <2>1. Before(p, Pos(a))
    BY AllBefore DEF IInv, Types, PosOK, Storable, Pos
  <2> QED BY <2>1 DEF IInv, RowsOK
<1> QED BY <1>1, IngestInvariance, PTL

(* A request that fails half-way leaves a prefix of its readings. *)
THEOREM StoredIsAPrefix == Spec => []StoredIsPrefix
<1>1. IInv => StoredIsPrefix
  <2> SUFFICES ASSUME IInv, NEW a \in Attempt, NEW q \in Places, NEW p \in Storable,
                      <<a, q[1], q[2]>> \in rows, Before(p, q)
               PROVE  <<a, p[1], p[2]>> \in rows
    BY DEF StoredIsPrefix
  <2>1. Types /\ p \in Places /\ (Before(q, Pos(a)) \/ q = Pos(a))
    BY DEF IInv, RowsOK, Storable
  <2>2. /\ p[1] \in Nat /\ p[2] \in Nat /\ q[1] \in Nat /\ q[2] \in Nat
        /\ Pos(a)[1] \in Nat /\ Pos(a)[2] \in Nat
    BY <2>1, PlaceParts DEF Types, Pos
  <2>3. Before(p, Pos(a))
    BY <2>1, <2>2 DEF Before
  <2> QED BY <2>3 DEF IInv, RowsOK
<1> QED BY <1>1, IngestInvariance, PTL

(* An attempt that ends with 201 has linked each of its readings to the event *)
(* it belongs to and to no other, whatever other attempts do.                *)
THEOREM EventsAreWhole == Spec => []EventsWhole
<1>1. IInv => EventsWhole
  <2> SUFFICES ASSUME IInv, NEW a \in Attempt, at[a] = "201"
               PROVE  {l \in links : l[1] = a} =
                          {LinkOf(a, p) : p \in {q \in Places : EventOf(q) # 0 /\
                                                      <<a, q[1], q[2]>> \in rows}}
    BY DEF EventsWhole, LinkOf
  <2>1. \A p \in Places : Before(p, Pos(a))
    BY AllBefore DEF IInv, Types, PosOK, Pos
  <2>2. LinksOK(a) BY DEF IInv
  <2>3. \A p : LinkOf(a, p)[1] = a BY DEF LinkOf
  <2> QED BY <2>1, <2>2, <2>3 DEF LinksOK
<1> QED BY <1>1, IngestInvariance, PTL

(* ResourceDataSerializer and handle_resource(), for one reading: what is     *)
(* valid and has a column for its type is stored as the device sent it.      *)
LEMMA ValueKept ==
    ASSUME NEW x \in Node, ValidData(x.type, Value(x)), Matches(x)
    PROVE  LET v == Stores(x.res_type, Value(x))
           IN  v = x.text \/ (x.type = "STRING" /\ v = Stripped(x.text))
                          \/ (x.type = "FLOAT" /\ x.text = "NaN" /\ v = "NULL")
<1> DEFINE type == x.type
           t == x.text
           c == Column[x.res_type]
<1>1. /\ type \in DOMAIN Column /\ t \in DeviceText[type] /\ c = Column[type]
      /\ Value(x).kind \in {"string", "int"} /\ Value(x).text = t
  <2>1. type \in DOMAIN Column /\ t \in DeviceText[type] /\ c = Column[type]
    BY DEF Node, ValidData, Matches, TypesMatch
  <2>2. Value(x).kind \in {"string", "int", "float", "missing"}
    BY DEF ValidData
  <2>3. CASE type = "BOOLEAN"
    BY <2>2, <2>3 DEF Value, ConvertValue, Json
  <2>4. CASE type = "TIME"
    BY <2>1, <2>4 DEF Value, ConvertValue, Json
  <2>5. CASE type \in {"STRING", "INTEGER", "FLOAT", "OPAQUE"}
    BY <2>1, <2>5 DEF Value, ConvertValue, Json
  <2> QED BY <2>1, <2>3, <2>4, <2>5 DEF Column
<1> HIDE DEF type, t, c
<1>2. Stores(x.res_type, Value(x)) =
        LET s == Stripped(t)
            takes == [int_value |-> IntegerText, float_value |-> FloatText,
                      str_value |-> Text, binary_value |-> HexText \cup {"empty"}]
        IN  IF s \notin takes[c] THEN "error"
            ELSE IF s = "NaN" /\ c = "float_value" THEN "NULL" ELSE s
  BY <1>1 DEF Stores, c
<1>3. CASE type = "STRING"
  <2>1. c = "str_value" /\ t \in {"a", "padded a", "42", "empty"}
    BY <1>1, <1>3 DEF Column, DeviceText
  <2>2. Stripped(t) \in Text
    BY <2>1 DEF Stripped, PaddedText, Text, FloatText, IntegerText, HexText
  <2> QED BY <1>2, <1>3, <2>1, <2>2 DEF type, t
<1>4. CASE type = "FLOAT"
  <2>1. c = "float_value" /\ t \in {"1.5", "42", "NaN"}
    BY <1>1, <1>4 DEF Column, DeviceText
  <2>2. Stripped(t) = t /\ t \in FloatText
    BY <2>1 DEF Stripped, PaddedText, FloatText, IntegerText
  <2> QED BY <1>2, <1>4, <2>1, <2>2 DEF type, t
<1>5. CASE type \in {"INTEGER", "TIME"}
  <2>1. c = "int_value" /\ t \in IntegerText
    <3>1. DeviceText["INTEGER"] = IntegerText
      BY DEF DeviceText
    <3>2. DeviceText["TIME"] = {"42"}
      BY DEF DeviceText
    <3>3. Column["INTEGER"] = "int_value" /\ Column["TIME"] = "int_value"
      BY DEF Column
    <3>4. "42" \in IntegerText
      BY DEF IntegerText
    <3> QED BY <1>1, <1>5, <3>1, <3>2, <3>3, <3>4
  <2>2. Stripped(t) = t
    BY <2>1 DEF Stripped, PaddedText, IntegerText
  <2> QED BY <1>2, <2>1, <2>2 DEF t
<1>6. CASE type = "OPAQUE"
  <2>1. c = "binary_value" /\ t \in HexText \cup {"empty"}
    BY <1>1, <1>6 DEF Column, DeviceText
  <2>2. Stripped(t) = t
    BY <2>1 DEF Stripped, PaddedText, HexText
  <2> QED BY <1>2, <2>1, <2>2 DEF t
<1>7. type # "BOOLEAN"
  BY <1>1 DEF Value, ConvertValue, Json, type
<1> QED BY <1>1, <1>3, <1>4, <1>5, <1>6, <1>7 DEF Column

(* No value of a device is answered with a 500, and what is stored is what    *)
(* it sent, but for blanks around a text and a NaN.                          *)
THEOREM ValuesAreKept == Spec => []ValuesKept
<1>1. IInv => ValuesKept
  <2> SUFFICES ASSUME IInv PROVE ValuesKept
    OBVIOUS
  <2>1. ASSUME NEW p \in Storable PROVE NodeAt(p) \in Node
    <3>1. body \in Bodies /\ p \in Places BY DEF IInv, Types, Storable
    <3>2. /\ p[1] \in DOMAIN Groups /\ p[2] \in DOMAIN Groups[p[1]]
          /\ Groups[p[1]] \in Seq(Node)
      BY <3>1, PlaceParts, GroupFacts
    <3> QED BY <3>2 DEF NodeAt
  <2> QED BY <2>1, ValueKept DEF ValuesKept
<1> QED BY <1>1, IngestInvariance, PTL
=============================================================================
