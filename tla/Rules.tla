------------------------------- MODULE Rules --------------------------------
(***************************************************************************)
(* The rules that both peers validate every message by                     *)
(* (packages/protocol/src/validation.ts).  A value is what a rule looks    *)
(* at: a text's length and the forms it has, a number, a list, an object's *)
(* fields, a JSON value's depth and width.  A rule is data, so a rule can  *)
(* be looked up at a path of another.                                      *)
(*                                                                         *)
(* Rules within rules are applied in Wire; what is here has no recursion.  *)
(***************************************************************************)
EXTENDS Integers

CONSTANT MaxSafeInteger  \* stands for Number.MAX_SAFE_INTEGER

MaxStringLength == 1048576
MaxDescription == 16384
MaxTimeout == 600000
MaxDepth == 32
MaxItems == 10000
Beyond == MaxSafeInteger + 1  \* a number without an upper limit

Text(min, max, form) == [rule |-> "text", min |-> min, max |-> max, form |-> form]
Whole(min, max) == [rule |-> "number", min |-> min, max |-> max, whole |-> TRUE]
Number(min, max) == [rule |-> "number", min |-> min, max |-> max, whole |-> FALSE]
Flag == [rule |-> "flag"]
Json == [rule |-> "json", object |-> FALSE]
JsonObject == [rule |-> "json", object |-> TRUE]
List(of, min, distinct) == [rule |-> "list", of |-> of, min |-> min, distinct |-> distinct]
Object(required, optional) == [rule |-> "object", required |-> required, optional |-> optional]
OneOf(cases) == [rule |-> "oneOf", cases |-> cases]
Texts == [rule |-> "texts"]

\* stringValue, finiteNumber, booleanValue, validateJsonValue
Plain(r, v) ==
    CASE r.rule = "text" ->
            v.sort = "text" /\ v.length \in r.min .. r.max /\ (r.form = "any" \/ r.form \in v.forms)
      [] r.rule = "number" ->
            v.sort = "number" /\ v.value >= r.min /\ v.value <= r.max /\ (r.whole => v.whole)
      [] r.rule = "flag" -> v.sort = "flag"
      [] r.rule = "json" ->
            /\ v.sort = "json" /\ (r.object => v.object)
            /\ v.depth <= MaxDepth /\ v.width <= MaxItems /\ v.safe
      [] r.rule = "texts" ->
            v.sort = "json" /\ v.object /\ v.depth <= 1 /\ v.width <= MaxItems /\ v.safe

\* exactObject: the required fields and no others than the optional ones.
Exact(r, v) ==
    /\ v.sort = "object"
    /\ DOMAIN r.required \subseteq DOMAIN v.fields
    /\ DOMAIN v.fields \subseteq DOMAIN r.required \cup DOMAIN r.optional
RuleOf(r, field) == IF field \in DOMAIN r.required THEN r.required[field] ELSE r.optional[field]

\* An object all of whose fields are plain.
Flat(r, v) == Exact(r, v) /\ \A f \in DOMAIN v.fields : Plain(RuleOf(r, f), v.fields[f])

None == [f \in {} |-> Flag]
=============================================================================
