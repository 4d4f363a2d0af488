---------------------------- MODULE CommandProofs ----------------------------
(***************************************************************************)
(* The command API implements CommandOutcome, whatever the bodies, the       *)
(* number of commands and the moments at which device, gateway and task give *)
(* up on each other, and what a device applies is the value that the          *)
(* operation's row holds.                                                    *)
(***************************************************************************)
EXTENDS Command, TLAPS

(* What is sent is a text, so that None says that nothing was applied. *)
TextOK == request.value.text \in Text

(* The device has applied what the exchange says. *)
DeviceOK ==
    /\ coap \in {"none", "sent", "refused"} => got = None
    /\ coap = "applied" => got # None

(* The answer the servlet gives is about the exchange, and nothing is sent   *)
(* before the checks are over.                                               *)
ServletOK ==
    /\ gateway \in {"target", "body", "send"} => coap = "none"
    /\ gateway = "respond" =>
          /\ response.status = 200 => coap = "applied"
          /\ response.status = 502 /\ response.code => coap = "refused"
          /\ response.status = 400 => coap = "none"

(* A task that waits has no reply, and one whose command the servlet or the   *)
(* device still works on has none that says what became of it.              *)
TaskOK ==
    /\ task = "waiting" => reply = None
    /\ gateway # "idle" \/ coap = "sent" => reply \in {None, "undelivered"}

IInv == TextOK /\ DeviceOK /\ ServletOK /\ TaskOK

-----------------------------------------------------------------------------
(* What a column holds is a text. *)
LEMMA ColumnsAreTexts ==
    ASSUME NEW x \in {"int_value", "str_value", "float_value", "binary_value"},
           NEW c \in ColumnText[x]
    PROVE  c \in Text
<1>1. IntegerText \subseteq Text /\ HexText \subseteq Text
      /\ {"1.5", "42", "a", "padded a", "empty"} \subseteq Text
  BY DEF Text, FloatText, IntegerText, HexText, PaddedText
<1>2. ColumnText[x] \subseteq Text
  <2>1. CASE x = "int_value"
    BY <1>1, <2>1 DEF ColumnText
  <2>2. CASE x = "str_value"
    BY <1>1, <2>2 DEF ColumnText
  <2>3. CASE x = "float_value"
    BY <1>1, <2>3 DEF ColumnText
  <2>4. CASE x = "binary_value"
    BY <1>1, <2>4 DEF ColumnText
  <2> QED BY <2>1, <2>2, <2>3, <2>4
<1> QED BY <1>2

(* The value of an operation is a text. *)
LEMMA OperationTexts ==
    ASSUME NEW t, NEW c \in Text \cup {"NULL"}
    PROVE  GetValue(t, c).text \in Text
<1>1. "null" \in Text
  BY DEF Text
<1>2. CASE t \notin DOMAIN Column \/ c = "NULL"
  <2>1. GetValue(t, c) = Json("null", "null")
    BY <1>2 DEF GetValue
  <2> QED BY <1>1, <2>1 DEF Json
<1>3. CASE t \in DOMAIN Column /\ c # "NULL"
  BY <1>3 DEF GetValue, Json
<1> QED BY <1>2, <1>3

(* So is that of any other request. *)
LEMMA OtherTexts ==
    ASSUME NEW r \in OtherRequests
    PROVE  r.value.text \in Text
<1>1. r.value \in Bodies
  BY DEF OtherRequests
<1>2. \A v \in JsonValue : v.text \in Text
  <2>1. IntegerText \subseteq Text /\ {"1.5", "42", "true", "false", "null", "empty"} \subseteq Text
    BY DEF Text, FloatText, IntegerText, HexText, PaddedText
  <2>2. ASSUME NEW v \in [kind : {"string"}, text : Text] \cup [kind : {"int"}, text : IntegerText]
        PROVE  v.text \in Text
    BY <2>1
  <2>3. ASSUME NEW v \in {Json("float", "1.5"), Json("float", "42"), Json("bool", "true"),
                          Json("bool", "false"), Json("null", "null"), Json("object", "empty"),
                          Json("missing", "empty")}
        PROVE  v.text \in Text
    BY <2>1 DEF Json
  <2> QED BY <2>2, <2>3 DEF JsonValue
<1> QED BY <1>1, <1>2, CommandAssumption

(* What the device applies is a value. *)
LEMMA AppliedIsValue == TextOK => Applied # None
<1> SUFFICES ASSUME TextOK PROVE Applied # None
  OBVIOUS
<1>1. {"true", "false"} \subseteq Text
  BY DEF Text
<1>2. Parsed(request.type, request.value) \in Text
  BY <1>1 DEF Parsed, TextOK
<1> QED BY <1>2, CommandAssumption DEF Applied

LEMMA SendTexts ==
    ASSUME NEW t, NEW c, SendOperation(t, c), GetValue(t, c).text \in Text
    PROVE  \E r, w : Request(r, w) /\ r.value.text \in Text
<1> DEFINE R == [NoRequest EXCEPT !.method = IF t = "NONE" THEN "POST" ELSE "PUT",
                                  !.path = "resource", !.type = t, !.value = GetValue(t, c)]
<1>1. R.value = GetValue(t, c)
  BY DEF NoRequest
<1>2. Request(R, c)
  BY DEF SendOperation
<1>3. R.value.text \in Text
  BY <1>1
<1> HIDE DEF R
<1> QED BY <1>2, <1>3

(* Whatever a client asks for is a text. *)
LEMMA ClientTexts ==
    ASSUME ClientStep
    PROVE  \E r, w : Request(r, w) /\ r.value.text \in Text
<1>1. ASSUME NEW t \in DOMAIN Column, NEW c \in ColumnText[Column[t]] \cup {"NULL"},
             SendOperation(t, c)
      PROVE  \E r, w : Request(r, w) /\ r.value.text \in Text
  <2>1. Column[t] \in {"int_value", "str_value", "float_value", "binary_value"}
    BY DEF Column
  <2>2. c \in Text \cup {"NULL"}
    BY <2>1, ColumnsAreTexts
  <2>3. GetValue(t, c).text \in Text
    BY <2>2, OperationTexts
  <2> QED BY <1>1, <2>3, SendTexts
<1>2. ASSUME SendOperation("NONE", "NULL")
      PROVE  \E r, w : Request(r, w) /\ r.value.text \in Text
  <2>1. GetValue("NONE", "NULL").text \in Text
    BY OperationTexts
  <2> QED BY <1>2, <2>1, SendTexts
<1>3. ASSUME ReadDeviceObject
      PROVE  \E r, w : Request(r, w) /\ r.value.text \in Text
  <2>1. NoRequest.value.text \in Text
    BY DEF NoRequest, Json, Text
  <2> QED BY <1>3, <2>1 DEF ReadDeviceObject
<1>4. ASSUME NEW r \in OtherRequests, Request(r, None)
      PROVE  \E q, w : Request(q, w) /\ q.value.text \in Text
  BY <1>4, OtherTexts
<1> QED BY <1>1, <1>2, <1>3, <1>4 DEF ClientStep

-----------------------------------------------------------------------------
(* A reply other than "undelivered" is about what the device did. *)
LEMMA ReplySaysWhat ==
    ASSUME IInv, TaskAnswered
    PROVE  /\ reply' \in Reply
           /\ reply' = "ok" => got # None
           /\ reply' \in {"rejected", "invalid"} => got = None
           /\ coap = "sent" => reply' = "undelivered"
<1>1. gateway = "respond" /\ reply' = Classify(response)
  BY DEF TaskAnswered
<1>2. CASE response.status = 200
  <2>1. Classify(response) = "ok" BY <1>2 DEF Classify, DeviceRejection
  <2> QED BY <1>1, <1>2, <2>1 DEF IInv, ServletOK, DeviceOK, Reply
<1>3. CASE DeviceRejection(response)
  <2>1. Classify(response) = "rejected" BY <1>3 DEF Classify, DeviceRejection
  <2> QED BY <1>1, <1>3, <2>1 DEF IInv, ServletOK, DeviceOK, Reply, DeviceRejection
<1>4. CASE response.status = 400
  <2>1. Classify(response) = "invalid" BY <1>4 DEF Classify, DeviceRejection
  <2> QED BY <1>1, <1>4, <2>1 DEF IInv, ServletOK, DeviceOK, Reply
<1>5. CASE response.status # 200 /\ ~DeviceRejection(response) /\ response.status # 400
  <2>1. Classify(response) = "undelivered" BY <1>5 DEF Classify
  <2> QED BY <1>1, <2>1 DEF Reply
<1> QED BY <1>2, <1>3, <1>4, <1>5

LEMMA InitIInv == Init => IInv
<1>1. NoRequest.value.text \in Text
  BY DEF NoRequest, Json, Text
<1> QED BY <1>1 DEF Init, IInv, TextOK, DeviceOK, ServletOK, TaskOK

LEMMA ClientPreserves ==
    ASSUME IInv, ClientStep \/ TaskAnswered \/ TaskGivesUp \/ AnswerLost
    PROVE  IInv'
<1> USE DEF IInv, TextOK, DeviceOK, ServletOK, TaskOK, taskVars, deviceVars
<1>1. CASE ClientStep
  <2>1. PICK r, w : Request(r, w) /\ r.value.text \in Text
    BY <1>1, ClientTexts
  <2> QED BY <2>1 DEF Request
<1>2. CASE TaskAnswered
  <2>1. coap = "sent" => reply' = "undelivered"
    BY <1>2, ReplySaysWhat
  <2> QED BY <1>2, <2>1 DEF TaskAnswered
<1>3. CASE TaskGivesUp BY <1>3 DEF TaskGivesUp
<1>4. CASE AnswerLost BY <1>4 DEF AnswerLost
<1> QED BY <1>1, <1>2, <1>3, <1>4

LEMMA ServletPreserves ==
    ASSUME IInv, ServletStep
    PROVE  IInv'
<1> USE DEF IInv, TextOK, DeviceOK, ServletOK, TaskOK, taskVars, deviceVars, Respond, Goto
<1>1. CASE Target BY <1>1 DEF Target
<1>2. CASE Body BY <1>2 DEF Body
<1>3. CASE Refuse BY <1>3 DEF Refuse
<1>4. CASE Send BY <1>4 DEF Send
<1>5. CASE Result BY <1>5 DEF Result
<1>6. CASE NoAnswer BY <1>6 DEF NoAnswer
<1> QED BY <1>1, <1>2, <1>3, <1>4, <1>5, <1>6 DEF ServletStep

LEMMA DevicePreserves ==
    ASSUME IInv, DeviceApplies \/ DeviceRefuses \/ DeviceGarbles \/ Register
    PROVE  IInv'
<1>1. Applied # None
  BY AppliedIsValue DEF IInv
<1> USE DEF IInv, TextOK, DeviceOK, ServletOK, TaskOK, taskVars, DeviceStep
<1>2. CASE DeviceApplies BY <1>1, <1>2 DEF DeviceApplies
<1>3. CASE DeviceRefuses BY <1>3 DEF DeviceRefuses
<1>4. CASE DeviceGarbles BY <1>4 DEF DeviceGarbles
<1>5. CASE Register BY <1>5 DEF Register
<1> QED BY <1>2, <1>3, <1>4, <1>5

LEMMA NextPreserves == IInv /\ [Next]_vars => IInv'
<1> SUFFICES ASSUME IInv, [Next]_vars PROVE IInv'
  OBVIOUS
<1>1. CASE UNCHANGED vars
  BY <1>1 DEF vars, IInv, TextOK, DeviceOK, ServletOK, TaskOK
<1> QED BY <1>1, ClientPreserves, ServletPreserves, DevicePreserves DEF Next

(* IInv is an invariant of every execution. *)
THEOREM CommandInvariance == Spec => []IInv
<1> QED BY InitIInv, NextPreserves, PTL DEF Spec

-----------------------------------------------------------------------------
(* The refinement, step by step. *)

LEMMA ClientRefines ==
    ASSUME IInv, ClientStep \/ TaskAnswered \/ TaskGivesUp \/ AnswerLost
    PROVE  Outcome!Next \/ UNCHANGED <<reply, got # None>>
<1>1. CASE ClientStep
  <2>1. PICK r, w : Request(r, w)
    BY <1>1, ClientTexts
  <2>2. Outcome!Begin
    BY <2>1 DEF Request, Outcome!Begin
  <2> QED BY <2>2 DEF Outcome!Next
<1>2. CASE TaskAnswered
  <2>1. reply = None /\ got' = got
    BY <1>2 DEF TaskAnswered, deviceVars, IInv, TaskOK
  <2>2. Outcome!Answered(reply')
    BY <1>2, <2>1, ReplySaysWhat DEF Outcome!Answered
  <2>3. reply' \in Reply
    BY <1>2, ReplySaysWhat
  <2> QED BY <2>2, <2>3 DEF Outcome!Next
<1>3. CASE TaskGivesUp
  <2>1. Outcome!Answered("undelivered")
    BY <1>3 DEF TaskGivesUp, deviceVars, IInv, TaskOK, Outcome!Answered
  <2> QED BY <2>1 DEF Outcome!Next, Reply
<1>4. CASE AnswerLost
  BY <1>4 DEF AnswerLost, taskVars, deviceVars
<1> QED BY <1>1, <1>2, <1>3, <1>4

LEMMA ServletRefines ==
    ASSUME ServletStep
    PROVE  UNCHANGED <<reply, got # None>>
BY DEF ServletStep, Target, Body, Refuse, Send, Result, NoAnswer, Respond, Goto, taskVars, deviceVars

LEMMA DeviceRefines ==
    ASSUME IInv, DeviceApplies \/ DeviceRefuses \/ DeviceGarbles \/ Register
    PROVE  Outcome!Next \/ UNCHANGED <<reply, got # None>>
<1>1. CASE Register
  BY <1>1 DEF Register, taskVars
<1>2. ASSUME NEW c, NEW v, DeviceStep(c, v)
      PROVE  Outcome!Next \/ UNCHANGED <<reply, got # None>>
  <2>1. coap = "sent" /\ got' = v /\ reply' = reply
    BY <1>2 DEF DeviceStep, taskVars
  <2>2. got = None /\ reply \in {None, "undelivered"}
    BY <2>1 DEF IInv, DeviceOK, TaskOK
  <2>3. CASE v = None
    BY <2>1, <2>2, <2>3
  <2>4. CASE v # None
    <3>1. Outcome!Apply
      BY <2>1, <2>2, <2>4 DEF Outcome!Apply
    <3> QED BY <3>1 DEF Outcome!Next
  <2> QED BY <2>3, <2>4
<1> QED BY <1>1, <1>2 DEF DeviceApplies, DeviceRefuses, DeviceGarbles

(* A confirmed command was applied and one that failed at once was not, then  *)
(* or later, for any bodies and any number of commands.                      *)
THEOREM CommandRefinement == Spec => OutcomeSpec
<1>1. Init => Outcome!Init
  BY DEF Init, Outcome!Init
<1>2. IInv /\ [Next]_vars => [Outcome!Next]_<<reply, got # None>>
  <2> SUFFICES ASSUME IInv, [Next]_vars
               PROVE  Outcome!Next \/ UNCHANGED <<reply, got # None>>
    OBVIOUS
  <2>1. CASE UNCHANGED vars
    BY <2>1 DEF vars
  <2> QED BY <2>1, ClientRefines, ServletRefines, DeviceRefines DEF Next
<1> QED BY <1>1, <1>2, CommandInvariance, PTL DEF Spec, OutcomeSpec, Outcome!Spec

-----------------------------------------------------------------------------
(* What the device applies is what the row holds. *)

(* A request that writes the value of a row, w. *)
Writes(r, w) ==
    w # None /\ r.method = "PUT" => r.type \in DOMAIN Column /\ r.value = GetValue(r.type, w)

(* A write that is on its way, or was, has passed the parser. *)
ParsedOK ==
    gateway \in {"send", "wait"} \/ coap # "none" =>
        (request.method = "PUT" => Parses(request.type, request.value))

WInv ==
    /\ Writes(request, want)
    /\ ParsedOK
    /\ got # None => coap # "none" /\ got = Applied

LEMMA ClientWrites ==
    ASSUME ClientStep
    PROVE  \E r, w : Request(r, w) /\ Writes(r, w)
<1>1. ASSUME NEW t, NEW c, SendOperation(t, c), t \in DOMAIN Column \/ t = "NONE"
      PROVE  \E r, w : Request(r, w) /\ Writes(r, w)
  <2> DEFINE R == [NoRequest EXCEPT !.method = IF t = "NONE" THEN "POST" ELSE "PUT",
                                    !.path = "resource", !.type = t, !.value = GetValue(t, c)]
  <2>1. R.type = t /\ R.value = GetValue(t, c) /\ (R.method = "PUT" => t # "NONE")
    BY DEF NoRequest
  <2>2. Request(R, c)
    BY <1>1 DEF SendOperation
  <2> HIDE DEF R
  <2>3. Writes(R, c)
    BY <1>1, <2>1 DEF Writes
  <2> QED BY <2>2, <2>3
<1>2. \A r : Request(r, None) => Writes(r, None)
  BY DEF Writes
<1> QED BY <1>1, <1>2 DEF ClientStep, ReadDeviceObject

LEMMA InitWInv == Init => WInv
BY DEF Init, WInv, Writes, ParsedOK

LEMMA WritesPreserved == WInv /\ [Next]_vars => WInv'
<1> SUFFICES ASSUME WInv, [Next]_vars PROVE WInv'
  OBVIOUS
<1>1. CASE ClientStep
  <2>1. PICK r, w : Request(r, w) /\ Writes(r, w)
    BY <1>1, ClientWrites
  <2>2. /\ request' = r /\ want' = w /\ got' = None /\ coap' = "none"
        /\ gateway' \in {"idle", "target"}
    BY <2>1 DEF Request
  <2> QED BY <2>1, <2>2 DEF WInv, ParsedOK, Writes
<1>2. ASSUME UNCHANGED <<request, want>> PROVE Writes(request, want)' /\ Applied' = Applied
  BY <1>2 DEF WInv, Writes, Applied
<1>3. ASSUME UNCHANGED <<request, want, coap, got>>,
             gateway' \in {"send", "wait"} => gateway \in {"send", "wait"}
      PROVE  WInv'
  BY <1>2, <1>3 DEF WInv, ParsedOK
<1>4. CASE TaskAnswered \/ TaskGivesUp \/ AnswerLost
  BY <1>3, <1>4 DEF TaskAnswered, TaskGivesUp, AnswerLost, taskVars, deviceVars
<1>5. ASSUME NEW status, NEW code, Respond(status, code) PROVE WInv'
  BY <1>3, <1>5 DEF Respond, taskVars, deviceVars
<1>6. CASE Target
  <2>1. ASSUME Goto(IF request.method = "PUT" THEN "body" ELSE "send") PROVE WInv'
    <3>1. UNCHANGED <<request, want, coap, got>>
      BY <2>1 DEF Goto, taskVars, deviceVars
    <3>2. ParsedOK'
      BY <2>1, <3>1 DEF WInv, ParsedOK, Goto
    <3> QED BY <1>2, <3>1, <3>2 DEF WInv
  <2> QED BY <1>5, <1>6, <2>1 DEF Target
<1>7. CASE Body
  <2>1. ASSUME ValidBody, Goto("send") PROVE WInv'
    <3>1. UNCHANGED <<request, want, coap, got>>
      BY <2>1 DEF Goto, taskVars, deviceVars
    <3>2. ParsedOK'
      BY <2>1, <3>1 DEF ParsedOK, ValidBody
    <3> QED BY <1>2, <3>1, <3>2 DEF WInv
  <2> QED BY <1>5, <1>7, <2>1 DEF Body
<1>8. CASE Refuse \/ Result \/ NoAnswer
  BY <1>5, <1>8 DEF Refuse, Result, NoAnswer
<1>9. CASE Send
  <2>1. UNCHANGED <<request, want, got>> /\ gateway = "send" /\ coap' = "sent"
    BY <1>9 DEF Send, taskVars
  <2> QED BY <1>2, <2>1 DEF WInv, ParsedOK
<1>10. ASSUME NEW c \in {"applied", "refused", "broken"}, NEW v \in {None, Applied}, DeviceStep(c, v)
       PROVE  WInv'
  <2>1. UNCHANGED <<request, want, gateway>> /\ coap = "sent" /\ coap' = c /\ got' = v
    BY <1>10 DEF DeviceStep, taskVars
  <2> QED BY <1>2, <2>1 DEF WInv, ParsedOK
<1>11. CASE Register BY <1>3, <1>11 DEF Register, taskVars
<1>12. CASE UNCHANGED vars BY <1>3, <1>12 DEF vars
<1> QED BY <1>1, <1>4, <1>6, <1>7, <1>8, <1>9, <1>10, <1>11, <1>12
        DEF Next, ServletStep, DeviceApplies, DeviceRefuses, DeviceGarbles

(* The parser takes no null. *)
LEMMA NoNullParses == \A type : ~Parses(type, Json("null", "null"))
<1>1. "null" \notin FloatText /\ "null" \notin IntegerText /\ "null" \notin HexText \cup {"empty"}
  BY DEF FloatText, IntegerText, HexText
<1>2. Json("null", "null").kind = "null" /\ Json("null", "null").text = "null"
  BY DEF Json
<1> QED BY <1>1, <1>2 DEF Parses

(* gateway_contract.rst on the body of a write: what a device applies for an *)
(* operation is the value of its Resource row, after get_value() and the     *)
(* gateway's parser, for any bodies and any number of commands.              *)
THEOREM OperationsWriteTheRow == Spec => []WrittenAsStored
<1>1. WInv => WrittenAsStored
  <2> SUFFICES ASSUME WInv, got # None, want # None, request.method = "PUT"
               PROVE  IF request.type = "BOOLEAN" THEN got = "true" <=> want = "1" ELSE got = want
    BY DEF WrittenAsStored
  <2> DEFINE t == request.type
             v == request.value
  <2>1. /\ t \in DOMAIN Column /\ v = GetValue(t, want) /\ Parses(t, v) /\ got = Parsed(t, v)
    BY DEF WInv, Writes, ParsedOK, Applied
  <2>2. want # "NULL"
    BY <2>1, NoNullParses DEF GetValue
  <2>3. v.text = want
    BY <2>1, <2>2 DEF GetValue, Json
  <2>4. CASE t = "BOOLEAN"
    <3>1. v = Json("int", want)
      BY <2>1, <2>2, <2>4 DEF GetValue, Column
    <3>2. v.kind = "int" BY <3>1 DEF Json
    <3> QED BY <2>1, <2>3, <2>4, <3>2 DEF Parsed
  <2>5. CASE t # "BOOLEAN"
    BY <2>1, <2>3, <2>5 DEF Parsed
  <2> QED BY <2>4, <2>5
<1>2. WInv /\ [Next]_vars => WInv' BY WritesPreserved
<1> QED BY <1>1, <1>2, InitWInv, PTL DEF Spec
=============================================================================
