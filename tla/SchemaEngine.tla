---------------------------- MODULE SchemaEngine ----------------------------
(***************************************************************************)
(* SchemaEngine::validate_fields (src/fabric-client/src/schema_engine.rs). *)
(* A JSON value is a string, of which it matters whether it is an RFC3339  *)
(* time, or an integer of serde_json: an i64 or a u64, here of a small     *)
(* width, MaxI64 being the largest i64.                                    *)
(***************************************************************************)
EXTENDS Integers, Sequences

CONSTANT MaxI64

Text == [json |-> "string", rfc3339 |-> FALSE]
Rfc3339 == [json |-> "string", rfc3339 |-> TRUE]
Num(n) == [json |-> "int", n |-> n]
Value == {Text, Rfc3339} \cup {Num(n) : n \in (-MaxI64 - 1)..(2 * MaxI64 + 1)}

is_string(v) == v.json = "string"
is_integer(v) == v.json = "int"
is_i64(v) == v.json = "int" /\ v.n <= MaxI64

\* Faulty variant of FieldError: a zero timestamp passes.
FieldErrorZero(attr, fields) ==
    IF attr.name \notin DOMAIN fields THEN "InvalidWitness"
    ELSE LET v == fields[attr.name]
         IN  CASE attr.type = "string" -> IF is_string(v) THEN "ok" ELSE "InvalidWitness"
               [] attr.type = "integer" -> IF is_integer(v) THEN "ok" ELSE "InvalidWitness"
               [] attr.type = "timestamp" ->
                    IF \/ is_i64(v) /\ v.n >= 0
                       \/ is_string(v) /\ v.rfc3339
                    THEN "ok" ELSE "InvalidWitness"
               [] OTHER -> "ConfigError"

\* What one attribute of the schema yields for a credentialSubject.
FieldError(attr, fields) ==
    IF attr.name \notin DOMAIN fields THEN "InvalidWitness"
    ELSE LET v == fields[attr.name]
         IN  CASE attr.type = "string" -> IF is_string(v) THEN "ok" ELSE "InvalidWitness"
               [] attr.type = "integer" -> IF is_integer(v) THEN "ok" ELSE "InvalidWitness"
               [] attr.type = "timestamp" ->
                    IF \/ is_i64(v) /\ v.n > 0
                       \/ is_string(v) /\ v.rfc3339
                    THEN "ok" ELSE "InvalidWitness"
               [] OTHER -> "ConfigError"

\* The first attribute that fails decides.
validate_fields(attrs, fields) ==
    LET bad == {i \in DOMAIN attrs : FieldError(attrs[i], fields) # "ok"}
    IN  IF bad = {} THEN "ok"
        ELSE FieldError(attrs[CHOOSE i \in bad : \A j \in bad : i <= j], fields)
=============================================================================
