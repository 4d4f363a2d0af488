-------------------------- MODULE MCResourceIngest --------------------------
(* Instances of ResourceIngest for TLC. *)
EXTENDS ResourceIngest

N(type, text, res_type) ==
    [obj |-> 3303, multi |-> FALSE, type |-> type, text |-> text, res_type |-> res_type]

(* Every type with its values, a type mismatch, an unknown resource, multiple  *)
(* ones, and a report of an update.                                          *)
Odd == {N("STRING", "a", "INTEGER"), N("INTEGER", "1", "unknown"), N("INTEGER", "1", "NONE"),
        N("INTEGER", "1", "BOOLEAN"), [N("INTEGER", "1", "INTEGER") EXCEPT !.multi = TRUE],
        [N("STRING", "empty", "STRING") EXCEPT !.multi = TRUE]}
Each == Odd \cup UNION {{N(t, x, IF t \in DOMAIN Column THEN t ELSE "unknown") :
                            x \in DeviceText[t]} : t \in LwM2mType}

Good == N("FLOAT", "1.5", "FLOAT")
Report == [N("INTEGER", "1", "INTEGER") EXCEPT !.obj = 5]
Mixed == Odd \cup {Good, Report, N("BOOLEAN", "true", "BOOLEAN")}

Body(f, gs) == [form |-> f, groups |-> gs]

(* The serializers accept timestamps and objects without a node. *)
Empty == {<<>>, <<<<>>>>, <<<<>>, <<Good>>>>, <<<<Good>>, <<>>>>}

MCBodies ==
    {Body(f, <<<<x>>>>) : f \in Form, x \in Each}
        \cup {Body(f, gs) : f \in {"timestamped", "composite"}, gs \in Empty}
        \cup {Body(f, <<<<x, y>>>>) : f \in {"timestamped", "composite"}, x, y \in Mixed}
        \cup {Body(f, <<<<Good>>, <<x, y>>>>) : f \in {"timestamped", "composite"}, x, y \in Mixed}
=============================================================================
