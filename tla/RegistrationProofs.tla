------------------------- MODULE RegistrationProofs -------------------------
(***************************************************************************)
(* Theorems about Registration, for any number of handlers, sites, events   *)
(* and failures.  AssignmentKept holds for overlapping requests, too;       *)
(* NewestEventWins and NewestIsRead need requests handled one at a time.    *)
(***************************************************************************)
EXTENDS Registration, TLAPS

(* Requests are handled one at a time. *)
OneHandler == \A h, k \in Handler : h = k

(* The stored times have a largest one, so that Newest is what its name says. *)
HasNewest == \E n \in stored \cup {0} : \A m \in stored : m <= n

(* The types, and that a handler past StoreEvent has stored its event. *)
Typed ==
    /\ TypeOK
    /\ dropped \subseteq 1..Len(emitted)
    /\ \A h \in Handler : hpc[h] \in {"save", "delay"} => time_ms[h] \in stored

(* What a handler holds agrees with the database, until an administrator     *)
(* moves the device under its feet.                                          *)
CopiesCurrent ==
    ~overlap =>
        /\ endpoint.site = assigned
        /\ \A h \in Handler : Holds(h) => copy[h].site = endpoint.site

(* The only handler at work: its event is not done with, the newest time it  *)
(* read is the newest there is, and what it saves is the newest event's.     *)
AtWork(h) ==
    /\ hpc[h] # "idle" => time_ms[h] \in waiting \cup dropped
    /\ hpc[h] = "create" => latest[h] = Newest
    /\ hpc[h] \in {"save", "delay"} => time_ms[h] = Newest
    /\ hpc[h] = "delay" => endpoint.registered = RegisteredAfter(Newest)

(* The newest event has set the state and was read, or is to come again.     *)
NewestDone ==
    stored # {} =>
        /\ endpoint.registered = RegisteredAfter(Newest) \/ Newest \in waiting \cup dropped
        /\ emitted[Newest] = "registered" => Newest \in reading \cup waiting \cup dropped

OneAtATime == OneHandler => NewestDone /\ \A h \in Handler : AtWork(h)

IInv ==
    /\ Typed
    /\ HasNewest
    /\ CopiesCurrent
    /\ OneAtATime

-----------------------------------------------------------------------------
(* The bound on events, and the times, are natural numbers. *)
LEMMA MaxEventsNat == MaxEvents \in Nat
BY RegistrationAssumption

LEMMA Times ==
    ASSUME TypeOK
    PROVE  /\ Len(emitted) \in Nat /\ 0 \in 0..Len(emitted)
           /\ stored \subseteq Nat \ {0}
           /\ time_ms \in [Handler -> Nat] /\ latest \in [Handler -> Nat]
<1>1. Len(emitted) \in Nat
  BY DEF TypeOK
<1>2. stored \subseteq 1..Len(emitted) /\ 0..Len(emitted) \subseteq Nat
  BY <1>1 DEF TypeOK
<1>3. time_ms \in [Handler -> 0..Len(emitted)] /\ latest \in [Handler -> 0..Len(emitted)]
  BY DEF TypeOK
<1>4. ASSUME NEW h \in Handler PROVE time_ms[h] \in Nat /\ latest[h] \in Nat
  BY <1>2, <1>3
<1> QED BY <1>1, <1>2, <1>3, <1>4

(* Newest is the largest stored time. *)
LEMMA NewestIsLargest ==
    ASSUME HasNewest
    PROVE  Newest \in stored \cup {0} /\ \A m \in stored : m <= Newest
BY DEF HasNewest, Newest

(* The largest time is unique: where n is one, Newest is n. *)
LEMMA NewestUnique ==
    ASSUME TypeOK, NEW n \in stored \cup {0}, \A m \in stored : m <= n
    PROVE  Newest = n
<1>1. stored \subseteq Nat
  BY DEF TypeOK
<1>2. HasNewest
  BY DEF HasNewest
<1>3. Newest \in stored \cup {0} /\ \A m \in stored : m <= Newest
  BY <1>2, NewestIsLargest
<1>4. CASE stored = {}
  BY <1>3, <1>4
<1>5. CASE stored # {}
  <2>1. PICK m \in stored : TRUE
    BY <1>5
  <2>2. n \in stored /\ Newest \in stored
    BY <2>1, <1>1, <1>3 DEF TypeOK
  <2> QED BY <2>2, <1>3, <1>1
<1> QED BY <1>4, <1>5

(* Row makes rows. *)
LEMMA RowType ==
    ASSUME NEW r \in BOOLEAN, NEW s \in Site \cup {NoSite}
    PROVE  Row(r, s) \in Rows /\ Row(r, s).site = s /\ Row(r, s).registered = r
BY DEF Row, Rows

(* A handler that returns is idle and holds nothing. *)
LEMMA ReturnType ==
    ASSUME NEW h \in Handler, Typed, Return(h)
    PROVE  /\ hpc' = [hpc EXCEPT ![h] = "idle"]
           /\ hpc' \in [Handler -> {"idle", "aggregate", "create", "save", "delay"}]
           /\ time_ms' = [time_ms EXCEPT ![h] = 0]
           /\ time_ms' \in [Handler -> 0..Len(emitted)]
           /\ copy' \in [Handler -> Rows]
           /\ latest' \in [Handler -> 0..Len(emitted)]
<1>1. Row(FALSE, NoSite) \in Rows
  BY RowType
<1>2. 0 \in 0..Len(emitted)
  BY DEF Typed, TypeOK
<1> QED BY <1>1, <1>2 DEF Return, Goto, Typed, TypeOK

(* The invariant holds at first. *)
LEMMA InitIInv == Init => IInv
<1> SUFFICES ASSUME Init PROVE IInv
  OBVIOUS
<1> USE RegistrationAssumption
<1>1. Typed
  <2>1. emitted \in Seq(Kind) /\ Len(emitted) = 0
    BY DEF Init
  <2>2. Row(FALSE, NoSite) \in Rows
    BY RowType
  <2>3. 0 <= MaxEvents /\ 0 \in 0..Len(emitted)
    BY <2>1, MaxEventsNat
  <2>4. /\ endpoint \in Rows
        /\ copy \in [Handler -> Rows]
        /\ time_ms \in [Handler -> 0..Len(emitted)]
        /\ latest \in [Handler -> 0..Len(emitted)]
    BY <2>2, <2>3 DEF Init
  <2>5. TypeOK
    BY <2>1, <2>3, <2>4 DEF Init, TypeOK
  <2> QED BY <2>1, <2>5 DEF Init, Typed
<1>2. HasNewest
  BY DEF Init, HasNewest
<1>3. CopiesCurrent
  BY DEF Init, CopiesCurrent, Row
<1>4. OneAtATime
  BY DEF Init, OneAtATime, NewestDone, AtWork
<1> QED BY <1>1, <1>2, <1>3, <1>4 DEF IInv

-----------------------------------------------------------------------------
(* Types are kept by every step. *)
LEMMA TypeStep ==
    ASSUME Typed, HasNewest, [Next]_vars
    PROVE  Typed'
<1> USE RegistrationAssumption
<1> USE DEF Kind, vars, gatewayVars, dbVars, handlerVars, adminVars
<1>1. ASSUME NEW k \in Kind, Emit(k), gw' \in BOOLEAN
      PROVE  Typed'
  <2>1. emitted' \in Seq(Kind) /\ Len(emitted') = Len(emitted) + 1
    BY <1>1 DEF Emit, Typed, TypeOK
  <2>2. 1..Len(emitted) \subseteq 1..Len(emitted') /\ 0..Len(emitted) \subseteq 0..Len(emitted')
    BY <2>1 DEF Typed, TypeOK
  <2>3. waiting' \subseteq 1..Len(emitted') /\ Len(emitted') <= MaxEvents
    <3>1. Len(emitted) + 1 \in 1..Len(emitted') /\ Len(emitted) < MaxEvents
      BY <1>1, <2>1, Times DEF Emit, Typed
    <3>2. waiting \subseteq 1..Len(emitted')
      BY <2>2 DEF Typed, TypeOK
    <3>3. Len(emitted') <= MaxEvents
      BY <2>1, <3>1, Times, MaxEventsNat DEF Typed
    <3> QED BY <1>1, <3>1, <3>2, <3>3 DEF Emit
  <2>4. time_ms' \in [Handler -> 0..Len(emitted')] /\ latest' \in [Handler -> 0..Len(emitted')]
    BY <1>1, <2>2 DEF Emit, Typed, TypeOK
  <2>5. TypeOK'
    BY <1>1, <2>1, <2>2, <2>3, <2>4 DEF Emit, Typed, TypeOK
  <2> QED BY <1>1, <2>2, <2>5 DEF Emit, Typed
<1>2. CASE Registered \/ Updated \/ Unregistered
  BY <1>1, <1>2 DEF Registered, Updated, Unregistered, Typed, TypeOK
<1>3. CASE \E e \in waiting : Drop(e)
  BY <1>3 DEF Drop, Typed, TypeOK
<1>4. ASSUME NEW h \in Handler, HandlerStep(h) \/ Fail(h)
      PROVE  Typed'
  <2>1. CASE \E e \in waiting : Fetch(h, e)
    <3>1. TypeOK'
      BY <2>1 DEF Fetch, Goto, Typed, TypeOK
    <3> QED BY <2>1, <3>1 DEF Fetch, Goto, Typed, TypeOK
  <2>2. CASE Aggregate(h)
    <3>1. latest' \in [Handler -> 0..Len(emitted)]
      <4>1. Newest \in 0..Len(emitted)
        <5>1. Newest \in stored \cup {0}
          BY NewestIsLargest
        <5>2. stored \subseteq 0..Len(emitted) /\ 0 \in 0..Len(emitted)
          BY Times DEF Typed, TypeOK
        <5> QED BY <5>1, <5>2
      <4> QED BY <2>2, <4>1 DEF Aggregate, Typed, TypeOK
    <3>2. hpc' \in [Handler -> {"idle", "aggregate", "create", "save", "delay"}]
      BY <2>2 DEF Aggregate, Goto, Typed, TypeOK
    <3>3. \A k \in Handler : hpc'[k] # "idle" => time_ms'[k] > 0
      BY <2>2 DEF Aggregate, Goto, Typed, TypeOK
    <3>4. TypeOK'
      BY <2>2, <3>1, <3>2, <3>3 DEF Aggregate, Typed, TypeOK
    <3> QED BY <2>2, <3>4 DEF Aggregate, Goto, Typed, TypeOK
  <2>3. CASE StoreEvent(h)
    <3>0. stored' \subseteq 1..Len(emitted) /\ reading' \subseteq stored'
      <4>1. time_ms[h] \in 0..Len(emitted) /\ time_ms[h] > 0
        <5>1. hpc[h] # "idle" /\ time_ms \in [Handler -> 0..Len(emitted)]
          BY <2>3 DEF StoreEvent, Typed, TypeOK
        <5> QED BY <5>1 DEF Typed, TypeOK
      <4>2. time_ms[h] \in 1..Len(emitted)
        <5>1. Len(emitted) \in Nat
          BY Times DEF Typed
        <5> QED BY <4>1, <5>1
      <4> QED BY <2>3, <4>2 DEF StoreEvent, Typed, TypeOK
    <3>1. CASE Answer(h)
      <4>1. TypeOK'
        BY <2>3, <3>0, <3>1, ReturnType DEF StoreEvent, Answer, Typed, TypeOK
      <4> QED BY <2>3, <3>1, <4>1, ReturnType DEF StoreEvent, Answer, Typed, TypeOK
    <3>2. CASE Goto(h, "save") /\ UNCHANGED <<gatewayVars, time_ms, copy, latest, failures>>
      <4>0. /\ hpc' \in [Handler -> {"idle", "aggregate", "create", "save", "delay"}]
            /\ \A k \in Handler : hpc'[k] # "idle" => time_ms'[k] > 0
        BY <2>3, <3>2 DEF StoreEvent, Goto, Typed, TypeOK
      <4>1. TypeOK'
        BY <2>3, <3>0, <3>2, <4>0 DEF StoreEvent, Typed, TypeOK
      <4> QED BY <2>3, <3>2, <4>1 DEF StoreEvent, Goto, Typed, TypeOK
    <3> QED BY <2>3, <3>1, <3>2 DEF StoreEvent
  <2>4. CASE SaveEndpoint(h)
    <3>1. endpoint' \in Rows
      BY <2>4, RowType DEF SaveEndpoint, RegisteredAfter, Typed, TypeOK, Rows
    <3>2. TypeOK'
      BY <2>4, <3>1 DEF SaveEndpoint, Goto, Typed, TypeOK
    <3> QED BY <2>4, <3>2 DEF SaveEndpoint, Goto, Typed, TypeOK
  <2>5. CASE Delays(h)
    <3>1. TypeOK'
      BY <2>5, ReturnType DEF Delays, Answer, Typed, TypeOK
    <3> QED BY <2>5, <3>1, ReturnType DEF Delays, Answer, Typed, TypeOK
  <2>6. CASE Fail(h)
    <3>1. TypeOK'
      BY <2>6, ReturnType DEF Fail, Typed, TypeOK
    <3> QED BY <2>6, <3>1, ReturnType DEF Fail, Typed, TypeOK
  <2> QED BY <1>4, <2>1, <2>2, <2>3, <2>4, <2>5, <2>6 DEF HandlerStep
<1>5. CASE \E s \in Site : AssignSite(s)
  <2> PICK s \in Site : AssignSite(s)
    BY <1>5
  <2>1. endpoint' \in Rows
    BY DEF AssignSite, Typed, TypeOK, Rows
  <2>2. TypeOK'
    BY <2>1 DEF AssignSite, Typed, TypeOK
  <2> QED BY <2>2 DEF AssignSite, Typed, TypeOK
<1>6. CASE UNCHANGED vars
  BY <1>6 DEF Typed, TypeOK
<1> QED BY <1>2, <1>3, <1>4, <1>5, <1>6 DEF Next, GatewayStep

-----------------------------------------------------------------------------
(* How stored and Newest change: not at all, or by the event of StoreEvent. *)
LEMMA StoredStep ==
    ASSUME Typed, HasNewest, [Next]_vars
    PROVE  \/ stored' = stored
           \/ \E h \in Handler : StoreEvent(h)
<1> USE DEF vars, dbVars
<1>1. CASE GatewayStep
  BY <1>1 DEF GatewayStep, Registered, Updated, Unregistered, Emit, Drop
<1>2. ASSUME NEW h \in Handler, HandlerStep(h) \/ Fail(h)
      PROVE  stored' = stored \/ StoreEvent(h)
  BY <1>2 DEF HandlerStep, Fetch, Aggregate, SaveEndpoint, Delays, Fail
<1>3. CASE \E s \in Site : AssignSite(s)
  BY <1>3 DEF AssignSite
<1>4. CASE UNCHANGED vars
  BY <1>4
<1> QED BY <1>1, <1>2, <1>3, <1>4 DEF Next

(* With a new event the newest is the larger of the two. *)
LEMMA NewestStep ==
    ASSUME Typed, Typed', HasNewest, NEW e \in Nat, stored' = stored \cup {e}
    PROVE  HasNewest' /\ Newest' = IF e < Newest THEN Newest ELSE e
<1>1. stored \subseteq Nat /\ Newest \in Nat
  BY NewestIsLargest, Times DEF Typed
<1>2. CASE e < Newest
  <2>1. Newest \in stored' \cup {0} /\ \A m \in stored' : m <= Newest
    BY <1>1, <1>2, NewestIsLargest
  <2>2. HasNewest'
    BY <2>1 DEF HasNewest
  <2>3. Newest' \in stored' \cup {0} /\ \A m \in stored' : m <= Newest'
    BY <2>2 DEF HasNewest, Newest
  <2>4. Newest \in stored'
    BY <1>1, <1>2, <2>1
  <2>5. Newest' \in stored' /\ stored' \subseteq Nat
    BY <1>1, <1>2, <2>3, <2>4
  <2> QED BY <1>1, <1>2, <2>1, <2>2, <2>3, <2>4, <2>5
<1>3. CASE ~(e < Newest)
  <2>1. e \in stored' /\ \A m \in stored' : m <= e
    BY <1>1, <1>3, NewestIsLargest
  <2>2. HasNewest'
    BY <2>1 DEF HasNewest
  <2>3. Newest' \in stored' \cup {0} /\ \A m \in stored' : m <= Newest'
    BY <2>2 DEF HasNewest, Newest
  <2>4. Newest' \in Nat
    BY <1>1, <2>3
  <2> QED BY <1>3, <2>1, <2>2, <2>3, <2>4
<1> QED BY <1>2, <1>3

(* There is a newest time after every step. *)
LEMMA HasNewestStep ==
    ASSUME Typed, Typed', HasNewest, [Next]_vars
    PROVE  HasNewest'
<1>1. CASE stored' = stored
  BY <1>1 DEF HasNewest
<1>2. CASE \E h \in Handler : StoreEvent(h)
  <2> PICK h \in Handler : StoreEvent(h)
    BY <1>2
  <2>1. time_ms[h] \in Nat /\ stored' = stored \cup {time_ms[h]}
    BY DEF StoreEvent, Typed, TypeOK
  <2> QED BY <2>1, NewestStep
<1> QED BY <1>1, <1>2, StoredStep

-----------------------------------------------------------------------------
(* Copies stay current, or the step is an assignment that overlaps. *)
LEMMA CopiesStep ==
    ASSUME Typed, CopiesCurrent, [Next]_vars
    PROVE  CopiesCurrent'
<1> SUFFICES ASSUME ~overlap'
             PROVE  /\ endpoint'.site = assigned'
                    /\ \A k \in Handler : Holds(k)' => copy'[k].site = endpoint'.site
  BY DEF CopiesCurrent
<1> USE DEF vars, gatewayVars, dbVars, handlerVars, adminVars, Holds
<1>0. ASSUME ~overlap
      PROVE  endpoint.site = assigned /\ \A k \in Handler : Holds(k) => copy[k].site = endpoint.site
  BY <1>0 DEF CopiesCurrent
<1>1. CASE Registered \/ Updated \/ Unregistered \/ \E e \in waiting : Drop(e)
  BY <1>0, <1>1 DEF Registered, Updated, Unregistered, Emit, Drop
<1>2. ASSUME NEW h \in Handler, HandlerStep(h) \/ Fail(h)
      PROVE  /\ endpoint'.site = assigned'
             /\ \A k \in Handler : Holds(k)' => copy'[k].site = endpoint'.site
  <2> USE DEF Typed, TypeOK
  <2>1. CASE \E e \in waiting : Fetch(h, e)
    BY <1>0, <2>1 DEF Fetch, Goto
  <2>2. CASE Aggregate(h)
    BY <1>0, <2>2 DEF Aggregate, Goto
  <2>3. CASE StoreEvent(h)
    BY <1>0, <2>3 DEF StoreEvent, Answer, Return, Goto
  <2>4. CASE SaveEndpoint(h)
    BY <1>0, <2>4 DEF SaveEndpoint, Row, Goto
  <2>5. CASE Delays(h)
    BY <1>0, <2>5 DEF Delays, Answer, Return, Goto
  <2>6. CASE Fail(h)
    BY <1>0, <2>6 DEF Fail, Return, Goto
  <2> QED BY <1>2, <2>1, <2>2, <2>3, <2>4, <2>5, <2>6 DEF HandlerStep
<1>3. CASE \E s \in Site : AssignSite(s)
  <2> PICK s \in Site : AssignSite(s)
    BY <1>3
  <2>1. endpoint'.site = s
    BY DEF AssignSite, Typed, TypeOK, Rows
  <2>2. \A k \in Handler : ~Holds(k)'
    BY DEF AssignSite
  <2> QED BY <2>1, <2>2 DEF AssignSite
<1>4. CASE UNCHANGED vars
  BY <1>0, <1>4
<1> QED BY <1>1, <1>2, <1>3, <1>4 DEF Next, GatewayStep

-----------------------------------------------------------------------------
(* With one handler, what is stored, read and shown follows the newest event. *)
LEMMA OneAtATimeStep ==
    ASSUME IInv, Typed', HasNewest', [Next]_vars, OneHandler
    PROVE  NewestDone' /\ \A k \in Handler : AtWork(k)'
<1> USE DEF vars, gatewayVars, dbVars, handlerVars, adminVars
<1>1. NewestDone /\ \A k \in Handler : AtWork(k)
  BY DEF IInv, OneAtATime
<1>2. /\ Newest \in Nat
      /\ stored # {} => Newest \in stored /\ Newest \in 1..Len(emitted)
      /\ stored = {} => Newest = 0
  <2>1. Newest \in stored \cup {0} /\ \A m \in stored : m <= Newest
    BY NewestIsLargest DEF IInv
  <2>2. stored \subseteq Nat \ {0} /\ stored \subseteq 1..Len(emitted)
    BY Times DEF IInv, Typed, TypeOK
  <2>3. CASE stored = {}
    BY <2>1, <2>3
  <2>4. CASE stored # {}
    <3>1. PICK m \in stored : TRUE
      BY <2>4
    <3>2. Newest # 0
      BY <2>1, <2>2, <3>1
    <3> QED BY <2>1, <2>2, <2>4, <3>2
  <2> QED BY <2>3, <2>4
<1>3. ASSUME stored' = stored PROVE Newest' = Newest
  BY <1>3 DEF Newest
<1>4. ASSUME NEW k \in Kind, Emit(k)
      PROVE  NewestDone' /\ \A h \in Handler : AtWork(h)'
  <2>1. stored # {} => emitted'[Newest] = emitted[Newest]
    BY <1>2, <1>4 DEF Emit, IInv, Typed, TypeOK
  <2>2. Newest' = Newest
    BY <1>3, <1>4 DEF Emit
  <2>3. NewestDone'
    BY <1>1, <1>4, <2>1, <2>2 DEF Emit, NewestDone, RegisteredAfter
  <2>4. ASSUME NEW h \in Handler PROVE AtWork(h)'
    BY <1>1, <1>2, <1>4, <2>1, <2>2 DEF Emit, AtWork, RegisteredAfter, IInv, Typed
  <2> QED BY <2>3, <2>4
<1>5. CASE Registered \/ Updated \/ Unregistered
  BY <1>4, <1>5 DEF Registered, Updated, Unregistered, Kind
<1>6. CASE \E e \in waiting : Drop(e)
  BY <1>1, <1>3, <1>6 DEF Drop, NewestDone, AtWork, RegisteredAfter
<1>7. ASSUME NEW h \in Handler, HandlerStep(h) \/ Fail(h)
      PROVE  NewestDone' /\ AtWork(h)'
  <2> USE DEF RegisteredAfter
  <2>0. AtWork(h) /\ hpc \in [Handler -> {"idle", "aggregate", "create", "save", "delay"}]
        /\ time_ms \in [Handler -> Nat] /\ latest \in [Handler -> Nat]
        /\ copy \in [Handler -> Rows] /\ endpoint \in Rows
    BY <1>1, Times DEF IInv, Typed, TypeOK
  <2>1. CASE \E e \in waiting : Fetch(h, e)
    BY <1>1, <1>3, <2>0, <2>1 DEF Fetch, Goto, NewestDone, AtWork
  <2>2. CASE Aggregate(h)
    BY <1>1, <1>3, <2>0, <2>2 DEF Aggregate, Goto, NewestDone, AtWork
  <2>3. CASE StoreEvent(h)
    <3>1. Newest' = IF time_ms[h] < Newest THEN Newest ELSE time_ms[h]
      BY <2>0, <2>3, NewestStep DEF StoreEvent, IInv
    <3>2. hpc[h] = "create" /\ latest[h] = Newest /\ time_ms[h] \in waiting \cup dropped
          /\ time_ms[h] > 0
      BY <2>0, <2>3 DEF StoreEvent, AtWork, IInv, Typed, TypeOK
    <3>3. CASE Stale(h) /\ Answer(h)
      <4>1. Newest' = Newest /\ time_ms[h] # Newest /\ stored # {}
        BY <1>2, <2>0, <3>1, <3>2, <3>3 DEF Stale
      <4>2. NewestDone'
        BY <1>1, <2>3, <3>3, <4>1 DEF StoreEvent, Answer, NewestDone
      <4>3. AtWork(h)'
        BY <2>0, <3>3 DEF Answer, Return, Goto, AtWork
      <4> QED BY <4>2, <4>3
    <3>4. CASE ~Stale(h) /\ Goto(h, "save") /\ UNCHANGED <<gatewayVars, time_ms, copy, latest, failures>>
      <4>1. Newest' = time_ms[h]
        BY <1>2, <2>0, <3>1, <3>2, <3>4 DEF Stale
      <4>2. NewestDone'
        BY <2>3, <3>2, <3>4, <4>1 DEF StoreEvent, NewestDone
      <4>3. AtWork(h)'
        BY <2>0, <3>2, <3>4, <4>1 DEF Goto, AtWork
      <4> QED BY <4>2, <4>3
    <3> QED BY <2>3, <3>3, <3>4 DEF StoreEvent
  <2>4. CASE SaveEndpoint(h)
    <3>1. endpoint'.registered = (emitted[time_ms[h]] # "unregistered")
      BY <2>4 DEF SaveEndpoint, Row
    <3>2. hpc'[h] = "delay" /\ time_ms[h] = Newest /\ Newest' = Newest
      BY <1>3, <2>0, <2>4 DEF SaveEndpoint, Goto, AtWork
    <3> QED BY <1>1, <2>0, <2>4, <3>1, <3>2 DEF SaveEndpoint, NewestDone, AtWork
  <2>5. CASE Delays(h)
    <3>1. endpoint.registered = (emitted[Newest] # "unregistered") /\ time_ms[h] = Newest
      BY <2>0, <2>5 DEF Delays, AtWork
    <3>2. NewestDone'
      BY <1>1, <1>3, <2>5, <3>1 DEF Delays, Answer, NewestDone
    <3>3. AtWork(h)'
      BY <2>0, <2>5 DEF Delays, Answer, Return, Goto, AtWork
    <3> QED BY <3>2, <3>3
  <2>6. CASE Fail(h)
    BY <1>1, <1>3, <2>0, <2>6 DEF Fail, Return, Goto, NewestDone, AtWork
  <2> QED BY <1>7, <2>1, <2>2, <2>3, <2>4, <2>5, <2>6 DEF HandlerStep
<1>8. CASE \E s \in Site : AssignSite(s)
  <2>1. endpoint'.registered = endpoint.registered
    BY <1>8 DEF AssignSite, IInv, Typed, TypeOK, Rows
  <2> QED BY <1>1, <1>3, <1>8, <2>1 DEF AssignSite, NewestDone, AtWork, RegisteredAfter
<1>9. CASE UNCHANGED vars
  BY <1>1, <1>3, <1>9 DEF NewestDone, AtWork, RegisteredAfter
<1>10. ASSUME NEW h \in Handler, HandlerStep(h) \/ Fail(h)
       PROVE  NewestDone' /\ \A k \in Handler : AtWork(k)'
  <2>1. \A k \in Handler : k = h
    BY DEF OneHandler
  <2> QED BY <1>7, <1>10, <2>1
<1> QED BY <1>5, <1>6, <1>8, <1>9, <1>10 DEF Next, GatewayStep

-----------------------------------------------------------------------------
(* The inductive invariant: types, a newest time, current copies, and, with  *)
(* one handler, that the row follows the newest event.                       *)
THEOREM RegistrationInvariance == Spec => []IInv
<1>1. IInv /\ [Next]_vars => IInv'
  <2> SUFFICES ASSUME IInv, [Next]_vars PROVE IInv'
    OBVIOUS
  <2>1. Typed'
    BY TypeStep DEF IInv
  <2>2. HasNewest'
    BY <2>1, HasNewestStep DEF IInv
  <2>3. CopiesCurrent'
    BY CopiesStep DEF IInv
  <2>4. OneAtATime'
    BY <2>1, <2>2, OneAtATimeStep DEF OneAtATime, OneHandler
  <2> QED BY <2>1, <2>2, <2>3, <2>4 DEF IInv
<1> QED BY InitIInv, <1>1, PTL DEF Spec

(* RegistrationEventSerializer.create: types, and a handler at work has an   *)
(* event that was emitted.                                                   *)
THEOREM RegistrationTypes == Spec => []TypeOK
<1>1. IInv => TypeOK
  BY DEF IInv, Typed
<1> QED BY <1>1, RegistrationInvariance, PTL

(* endpoint.save() in registration_serializer.py: however many requests are  *)
(* handled at once, repeated or fail half-way, the site an administrator     *)
(* chose last stays, unless a request held the row when he chose it.         *)
THEOREM AssignmentsAreKept == Spec => []AssignmentKept
<1>1. IInv => AssignmentKept
  BY DEF IInv, CopiesCurrent, AssignmentKept
<1> QED BY <1>1, RegistrationInvariance, PTL

(* "let only the newest event set the state": with one request at a time the *)
(* row shows the newest stored event, or that event comes again or is lost,  *)
(* for any number of late, repeated, dropped and half-failed posts.          *)
THEOREM NewestEventSetsState ==
    ASSUME OneHandler
    PROVE  Spec => []NewestEventWins
<1>1. IInv => NewestEventWins
  BY DEF IInv, OneAtATime, NewestDone, NewestEventWins
<1> QED BY <1>1, RegistrationInvariance, PTL

(* read_device_object: with one request at a time a registration that is the *)
(* newest event has its read queued, or comes again or is lost.              *)
THEOREM NewestRegistrationIsRead ==
    ASSUME OneHandler
    PROVE  Spec => []NewestIsRead
<1>1. IInv => NewestIsRead
  BY DEF IInv, OneAtATime, NewestDone, NewestIsRead
<1> QED BY <1>1, RegistrationInvariance, PTL
=============================================================================
