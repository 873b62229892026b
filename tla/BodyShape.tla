------------------------------ MODULE BodyShape ------------------------------
(***************************************************************************)
(* Admitting a JSON request body in one streaming pass                     *)
(* (internal/infra/http/request_body_shape.go).  A schema that states only *)
(* types, properties, required members and additionalProperties is         *)
(* compiled to a shape; the pass admits a body that surely satisfies it,   *)
(* and whatever it does not admit goes to the full validator.              *)
(*                                                                         *)
(* Schemas and bodies are two levels deep: a leaf, an array of leaves or   *)
(* an object with leaf members.  A literal is the kind of token it is.  A  *)
(* schema nested deeper than maxShapeDepth goes to the full validator like *)
(* one with another keyword, and is not told apart from it.                *)
(***************************************************************************)
EXTENDS Naturals, Sequences, FiniteSets

CONSTANT MaxShapeProperties  \* maxShapeProperties, the bits of the mask of members seen

VARIABLES schema,   \* the operation's application/json schema
          request,  \* what the client sends
          at,       \* "start", "pass", "full", "served", "rejected"
          shape,    \* whether the schema compiled
          unread    \* what is left of the body for the next reader

vars == <<schema, request, at, shape, unread>>

\* Integer literals are small, beyond 32 bits ("big") or beyond 15 digits
\* ("long"); "exponent" is an integral literal with an exponent, "overflow"
\* a number beyond a double, "raw" a string that is not valid UTF-8.
Literals == {"string", "raw", "true", "null", "small", "big", "long", "fraction", "exponent", "overflow"}

Numbers == {"small", "big", "long", "fraction", "exponent", "overflow"}

Leaf(type, format, other) == [type |-> type, format |-> format, other |-> other]

\* "other" is any keyword beyond the structural ones.
LeafSchemas ==
    {Leaf(t, "", FALSE) : t \in {"string", "boolean", "number", "integer", "none"}}
    \cup {Leaf("integer", "int32", FALSE), Leaf("integer", "int64", FALSE), Leaf("integer", "custom", FALSE),
          Leaf("string", "date", FALSE), Leaf("number", "custom", FALSE), Leaf("string", "", TRUE)}

NoLeaf == Leaf("none", "", FALSE)

Names == {"a", "b"}

\* "excluded": a document of OpenAPI 3.1, or a media type with an encoding.
Schema(type, leaf, properties, required, additional, other) ==
    [type |-> type, leaf |-> leaf, properties |-> properties, required |-> required,
     additional |-> additional, other |-> other, excluded |-> FALSE]

NoProperties == [n \in {} |-> NoLeaf]

PropertySets ==
    {NoProperties} \cup
    {[n \in {"a"} |-> l] : l \in {Leaf("string", "", FALSE), Leaf("integer", "int32", FALSE), Leaf("string", "", TRUE)}} \cup
    {[n \in Names |-> IF n = "a" THEN l ELSE Leaf("integer", "", FALSE)] :
        l \in {Leaf("string", "", FALSE), Leaf("integer", "int32", FALSE)}} \cup
    {[n \in Names \cup {"c"} |-> Leaf("integer", "", FALSE)]}

Schemas ==
    {Schema("leaf", l, NoProperties, {}, "absent", FALSE) : l \in LeafSchemas}
    \cup {Schema("array", l, NoProperties, {}, "absent", FALSE) : l \in LeafSchemas}
    \cup {Schema("object", NoLeaf, p, r, d, o) : p \in PropertySets, r \in SUBSET {"a", "b"},
             d \in {"absent", "true", "false", "integers"}, o \in BOOLEAN}
    \cup {[Schema(t, Leaf("integer", "", FALSE), NoProperties, {}, "absent", FALSE) EXCEPT !.excluded = TRUE] :
             t \in {"leaf", "array"}}

\* Members keep their order, and a name may come twice.
Members == {[name |-> n, value |-> v] : n \in Names \cup {"u"}, v \in {"string", "small", "big"}}

Value(kind, leaf, items, members) == [kind |-> kind, leaf |-> leaf, items |-> items, members |-> members]

Values ==
    {Value("leaf", v, <<>>, <<>>) : v \in Literals}
    \cup {Value("array", "null", i, <<>>) : i \in {<<>>} \cup {<<v>> : v \in Literals} \cup {<<"small", v>> : v \in Literals}}
    \cup {Value("object", "null", <<>>, m) : m \in {<<>>} \cup {<<x>> : x \in Members} \cup {<<x, y>> : x, y \in Members}}

\* What follows the value, how the body ends, and the declared media type.
Bodies ==
    [value : Values, tail : {"none"}, read : {"whole"}, media : {"json"}]
    \cup [value : {Value("leaf", "small", <<>>, <<>>)}, tail : {"none", "more", "truncated"},
          read : {"whole", "fails", "empty"}, media : {"json", "other"}]

Init ==
    /\ schema \in Schemas
    /\ request \in Bodies
    /\ at = "start"
    /\ shape = FALSE
    /\ unread = "whole"

-----------------------------------------------------------------------------
(***************************************************************************)
(* compileBodyShape: only structural keywords, one type, known formats, no *)
(* schema for additional properties, no more properties than the mask has  *)
(* bits, and required members that have a property.                        *)
(***************************************************************************)
compileLeaf(l) ==
    /\ ~l.other
    /\ l.type # "none"
    /\ IF l.type = "integer" THEN l.format \in {"", "int32", "int64"} ELSE l.format = ""

compileObjectShapeAnyAdditional(s) ==
    /\ \A n \in DOMAIN s.properties : compileLeaf(s.properties[n])
    /\ s.required \subseteq DOMAIN s.properties

compileObjectShape(s) ==
    /\ s.additional # "integers" /\ Cardinality(DOMAIN s.properties) <= MaxShapeProperties
    /\ \A n \in DOMAIN s.properties : compileLeaf(s.properties[n])
    /\ s.required \subseteq DOMAIN s.properties

compileBodyShape(s) ==
    /\ ~s.other
    /\ IF s.type = "object" THEN compileObjectShape(s) ELSE compileLeaf(s.leaf)

exactIntegerAnyWidth(l, v) == v \in {"small", "big"}

-----------------------------------------------------------------------------
\* exactInteger: a plain literal that stays exact, within 32 bits for int32.
exactInteger(l, v) == v = "small" \/ (v = "big" /\ l.format # "int32")

scanLeaf(l, v) ==
    CASE l.type = "string" -> v = "string"
      [] l.type = "boolean" -> v = "true"
      [] l.type = "integer" -> exactInteger(l, v)
      [] l.type = "number" -> v \in Numbers \ {"overflow"}
      [] OTHER -> FALSE

\* scanObject over jsontext, which refuses a member name that comes twice.
scanObject(s, members) ==
    LET names == {members[i].name : i \in DOMAIN members} IN
    /\ Cardinality(names) = Len(members)
    /\ \A i \in DOMAIN members :
         LET m == members[i] IN
         IF m.name \in DOMAIN s.properties THEN scanLeaf(s.properties[m.name], m.value)
         ELSE s.additional # "false"
    /\ s.required \subseteq names

scan(s, v) ==
    CASE s.type = "object" -> v.kind = "object" /\ scanObject(s, v.members)
      [] s.type = "array" -> v.kind = "array" /\ \A i \in DOMAIN v.items : scanLeaf(s.leaf, v.items[i])
      [] OTHER -> v.kind = "leaf" /\ scanLeaf(s.leaf, v.leaf)

\* accepts: the value, and nothing after it.
acceptsPrefix(s, r) == r.tail # "truncated" /\ scan(s, r.value)

accepts(s, r) == r.tail = "none" /\ scan(s, r.value)

-----------------------------------------------------------------------------
(***************************************************************************)
(* The full validator, from what the pass relies on: it decodes the body   *)
(* and checks every keyword.  Where it checks more than this model says (a *)
(* format, another keyword, text after the value) it refuses.              *)
(***************************************************************************)
fullLeaf(l, v) ==
    /\ ~l.other /\ l.format \notin {"custom", "date"}
    /\ CASE l.type = "string" -> v \in {"string", "raw"}
         [] l.type = "boolean" -> v = "true"
         [] l.type = "integer" -> IF l.format = "int32" THEN v \in {"small", "exponent"} ELSE v \in Numbers \ {"fraction", "overflow"}
         [] l.type = "number" -> v \in Numbers \ {"overflow"}
         [] OTHER -> TRUE

fullAccepts(s, r) ==
    LET ms == r.value.members
        last(n) == CHOOSE i \in DOMAIN ms : ms[i].name = n /\ \A j \in DOMAIN ms : ms[j].name = n => j <= i
        names == {ms[i].name : i \in DOMAIN ms}
    IN /\ r.tail = "none" /\ r.read = "whole"
       /\ ~s.other
       /\ CASE s.type = "object" ->
                 /\ r.value.kind = "object"
                 /\ s.required \subseteq names
                 /\ \A n \in names :
                      LET v == ms[last(n)].value IN
                      IF n \in DOMAIN s.properties THEN fullLeaf(s.properties[n], v)
                      ELSE s.additional # "false" /\ (s.additional = "integers" => v \in {"small", "big"})
            [] s.type = "array" -> r.value.kind = "array" /\ \A i \in DOMAIN r.value.items : fullLeaf(s.leaf, r.value.items[i])
            [] OTHER -> s.leaf.type = "none" \/ (r.value.kind = "leaf" /\ fullLeaf(s.leaf, r.value.leaf))

-----------------------------------------------------------------------------
\* structuralRequestBodies, once for the router; then the request's own steps.
Compile ==
    /\ at = "start"
    /\ shape' = (~schema.excluded /\ compileBodyShape(schema))
    /\ at' = IF shape' /\ request.media = "json" THEN "pass" ELSE "full"
    /\ UNCHANGED <<schema, request, unread>>

replayedNothing == IF request.read = "fails" THEN "failing" ELSE "spent"

\* admits reads the whole body and puts it back, a read failure at its end.
replayed == IF request.read = "fails" THEN "failing" ELSE "whole"

Admit ==
    /\ at = "pass"
    /\ unread' = replayed
    /\ at' = IF request.read = "whole" /\ accepts(schema, request) THEN "served" ELSE "full"
    /\ UNCHANGED <<schema, request, shape>>

\* ValidateRequestBody on what the pass left, which it also puts back.
Full ==
    /\ at = "full"
    /\ at' = IF fullAccepts(schema, request) /\ unread = "whole" THEN "served" ELSE "rejected"
    /\ UNCHANGED <<schema, request, shape, unread>>

Next == Compile \/ Admit \/ Full

Spec == Init /\ [][Next]_vars

-----------------------------------------------------------------------------
(***************************************************************************)
(* The pass only ever admits.  A request reaches its handler exactly when  *)
(* the full validator accepts its body, whichever of the two looked at it, *)
(* and the handler finds the body whole: a body that could not be read     *)
(* never passes, and one the pass could not decide is not refused for it.  *)
(***************************************************************************)
BodyIsValid ==
    /\ at = "served" => fullAccepts(schema, request) /\ unread = "whole"
    /\ at = "rejected" => ~fullAccepts(schema, request)
=============================================================================
