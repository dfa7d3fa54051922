---------------------------- MODULE SchemaCheck -----------------------------
(***************************************************************************)
(* One call of SchemaEngine::validate_fields, on any schema and subject,   *)
(* against a reference (src/fabric-client/src/schema_engine.rs).           *)
(***************************************************************************)
EXTENDS SchemaEngine

CONSTANTS Schemas,      \* sequences of attributes, each with a name and a type
          Subjects      \* credentialSubjects: field name -> value

ASSUME SchemaAssumption ==
    /\ MaxI64 \in Nat
    /\ \A a \in Schemas : DOMAIN a \subseteq Nat
    /\ \A s \in Subjects : \A f \in DOMAIN s : s[f] \in Value

VARIABLES attributes, subject,      \* the arguments of validate_fields
          result

schemaVars == <<attributes, subject, result>>

SchemaInit ==
    /\ attributes \in Schemas
    /\ subject \in Subjects
    /\ result = "running"

ValidateFields ==
    /\ result = "running"
    /\ result' = validate_fields(attributes, subject)
    /\ UNCHANGED <<attributes, subject>>

SchemaSpec == SchemaInit /\ [][ValidateFields]_schemaVars
-----------------------------------------------------------------------------
\* A field is there with a value of its type, a timestamp in one of the two
\* forms the engine takes: positive seconds of an i64, or an RFC3339 string.
\* Reference for the field check above.
ValuesOf(type) ==
    CASE type = "string" -> {Text, Rfc3339}
      [] type = "integer" -> {Num(n) : n \in (-MaxI64 - 1)..(2 * MaxI64 + 1)}
      [] type = "timestamp" -> {Rfc3339} \cup {Num(n) : n \in 1..MaxI64}
      [] OTHER -> {}

Conforms(attr) == attr.name \in DOMAIN subject /\ subject[attr.name] \in ValuesOf(attr.type)

\* The engine accepts exactly the subjects in which every attribute of the
\* schema is present with a value of its type: a zero, negative or too large
\* timestamp does not slip through validate_fields.  The error that it reports
\* blames the first bad attribute: ConfigError means that its type is not known
\* and that all attributes before it conform.
ValidationIsExact ==
    result # "running" =>
        /\ result = "ok" <=> \A i \in DOMAIN attributes : Conforms(attributes[i])
        /\ result = "ConfigError" =>
              \E i \in DOMAIN attributes :
                  /\ attributes[i].type \notin {"string", "integer", "timestamp"}
                  /\ \A j \in DOMAIN attributes : j < i => Conforms(attributes[j])
=============================================================================
