------------------------------ MODULE JsonText ------------------------------
(***************************************************************************)
(* What Python's JSON library makes of a value on the way to text and back *)
(***************************************************************************)
EXTENDS Protocol

\* json.dumps(..., default=str) and json.loads: tuples become lists, integer keys
\* strings, and what JSON does not know its text, but not as a key: such a
\* key raises.  Of two keys with one text one survives; the model's choice of
\* it is arbitrary.
RECURSIVE JsonOf(_)
JsonOf(v) ==
  CASE Scalar(v) \/ v = Raise -> v
    [] v.t \in {"list", "tuple"} ->
         LET vs == [i \in DOMAIN v.vs |-> JsonOf(v.vs[i])] IN Built(vs, List(vs))
    [] v.t = "dict" ->
         LET asText(k) == IF k = IntKey THEN "1" ELSE k
             keyOf(s) == CHOOSE k \in DOMAIN v.items : asText(k) = s
             items == [s \in {asText(k) : k \in DOMAIN v.items} |-> JsonOf(v.items[keyOf(s)])]
         IN  IF TupleKey \in DOMAIN v.items THEN Raise ELSE Built(items, Dict(items))
    [] OTHER -> Str("str() of " \o v.t)
=============================================================================
