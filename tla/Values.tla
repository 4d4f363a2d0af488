------------------------------- MODULE Values -------------------------------
(***************************************************************************)
(* What happens to one value between a device and the database, and back.    *)
(* On the way in: JacksonLwM2mNodeSerializer turns the LwM2M value into      *)
(* JSON, the Django serializers validate it and Resource stores it in the    *)
(* column of its type.  On the way out: send_operation puts the column into  *)
(* JSON and SingleResourceParser turns that into an LwM2M value.             *)
(*                                                                          *)
(* A text is a string of some form; a JSON value is its kind and its text.   *)
(* A column is its value's text, "NULL" where it has none.                   *)
(***************************************************************************)
EXTENDS Naturals

(* org.eclipse.leshan.core.model.ResourceModel.Type *)
LwM2mType == {"NONE", "STRING", "INTEGER", "UNSIGNED_INTEGER", "FLOAT", "BOOLEAN",
              "OPAQUE", "TIME", "OBJLNK", "CORELINK"}

(* ResourceType.TYPE_CHOICES, and NONE, which means execute *)
Column == [TIME |-> "int_value", STRING |-> "str_value", INTEGER |-> "int_value",
           FLOAT |-> "float_value", BOOLEAN |-> "int_value", OPAQUE |-> "binary_value"]

(* The forms a text can have, by who can read them; "padded a" has blanks    *)
(* around it, "empty" has no characters.                                     *)
IntegerText == {"0", "1", "42"}
FloatText   == IntegerText \cup {"1.5", "NaN"}
HexText     == {"42", "0a"}
PaddedText  == {"padded a"}
Text        == FloatText \cup HexText \cup PaddedText \cup {"a", "true", "false", "null", "empty"}

Json(k, t) == [kind |-> k, text |-> t]

JsonValue ==
    [kind : {"string"}, text : Text] \cup [kind : {"int"}, text : IntegerText]
        \cup {Json("float", "1.5"), Json("float", "42"), Json("bool", "true"), Json("bool", "false"),
              Json("null", "null"), Json("object", "empty"), Json("missing", "empty")}

(* The texts of the values a device can have for a type. *)
DeviceText ==
    [STRING |-> {"a", "padded a", "42", "empty"},
     INTEGER |-> IntegerText, UNSIGNED_INTEGER |-> IntegerText,
     FLOAT |-> {"1.5", "42", "NaN"}, BOOLEAN |-> {"true", "false"}, OPAQUE |-> HexText \cup {"empty"},
     TIME |-> {"42"}, OBJLNK |-> {"a"}, CORELINK |-> {"a"}, NONE |-> {}]

(* What a column can hold. *)
ColumnText ==
    [int_value |-> IntegerText, float_value |-> {"1.5", "42"},
     str_value |-> {"a", "padded a", "42", "empty"}, binary_value |-> HexText \cup {"empty"}]

-----------------------------------------------------------------------------
(* The way in. *)

(* Mutant of ConvertValue: every value as a string. *)
ConvertToString(type, t) == Json("string", t)

(* JacksonLwM2mNodeSerializer.convertValue(); Jackson writes a Date as a     *)
(* number and an ObjectLink as an object.                                   *)
ConvertValue(type, t) ==
    CASE type = "BOOLEAN" -> Json("bool", t)
      [] type = "TIME"    -> Json("int", t)
      [] type = "OBJLNK"  -> Json("object", "empty")
      [] OTHER            -> Json("string", t)

(* serializers.CharField strips the text. *)
Stripped(t) == IF t \in PaddedText THEN "a" ELSE t

(* ResourceDataSerializer: a type of TYPE_CHOICES, a value that is a string  *)
(* or a number, or none at all.                                             *)
ValidData(type, v) ==
    type \in DOMAIN Column /\ v.kind \in {"string", "int", "float", "missing"}

(* handle_resource(): the column for a value that is valid for its own type. *)
(* The types are compared by their columns only.                            *)
TypesMatch(type, res_type) == Column[type] = Column[res_type]

(* "error" is an exception that nobody catches: no value, or one that        *)
(* int(), float() or bytes.fromhex() do not take.  SQLite has no NaN.        *)
Stores(res_type, v) ==
    LET c == Column[res_type]
        t == Stripped(v.text)
        takes == [int_value |-> IntegerText, float_value |-> FloatText,
                  str_value |-> Text, binary_value |-> HexText \cup {"empty"}]
    IN  IF v.kind = "missing" \/ t \notin takes[c] THEN "error"
        ELSE IF t = "NaN" /\ c = "float_value" THEN "NULL" ELSE t

-----------------------------------------------------------------------------
(* The way out. *)

(* Resource.get_value() as JSON; bytes are no JSON. *)
GetValue(type, column) ==
    LET kind == [int_value |-> "int", float_value |-> "float", str_value |-> "string",
                 binary_value |-> "bytes"]
    IN  IF type \notin DOMAIN Column \/ column = "NULL" THEN Json("null", "null")
        ELSE Json(kind[Column[type]], column)

(* SingleResourceParser.value(): the texts that are accepted for a type *)
Parses(type, v) ==
    CASE type = "STRING"  -> v.kind = "string"
      [] type \in {"INTEGER", "UNSIGNED_INTEGER"} -> v.kind # "float" /\ v.text \in IntegerText
      [] type = "FLOAT"   -> v.kind \in {"int", "float"} \/ v.text \in FloatText
      [] type = "BOOLEAN" -> v.kind = "bool" \/ (v.kind = "int" /\ v.text \in {"0", "1"})
      [] type = "OPAQUE"  -> v.kind # "float" /\ v.text \in HexText \cup {"empty"}
      [] type = "TIME"    -> v.kind = "int"
      [] OTHER            -> FALSE

(* Mutant of Parsed: only "true" is true. *)
ParsedText(type, v) ==
    IF type # "BOOLEAN" THEN v.text ELSE IF v.text = "true" THEN "true" ELSE "false"

Parsed(type, v) ==
    IF type # "BOOLEAN" \/ v.kind = "bool" THEN v.text
    ELSE IF v.text = "1" THEN "true" ELSE "false"
=============================================================================
