-------------------------- MODULE IdentityRegistry --------------------------
(***************************************************************************)
(* The documents on the ledger and their way to a client: the chaincode    *)
(* (src/dztac/main.go) writes Go structs as JSON, reads them back into Go  *)
(* structs and returns JSON, which FabricClient decodes into the structs   *)
(* of src/shared/src/models.rs.  A JSON object is a record of its fields;  *)
(* a registration is one committed transaction.                            *)
(***************************************************************************)
EXTENDS Naturals, Sequences

CONSTANTS Dids, Keys, SchemaIds, CredIds,
          Null          \* JSON null

ASSUME NullAssumption ==
    /\ Null # <<>>
    /\ \A d \in Dids :
          /\ Null # <<d>>
          /\ \A k \in Keys : Null # <<[controller |-> d, publicKeyMultibase |-> k]>>

\* The Result of a decoder or of a chaincode function.
Err == [ok |-> FALSE]
Ok(v) == [ok |-> TRUE, value |-> v]

\* Faulty variant of SchemaKey: the prefix of another kind.
SchemaKeyUnprefixed(s) == <<"DID", s>>

\* The prefixes keep the three kinds of keys apart.
DidKey(d) == <<"DID", d>>
SchemaKey(s) == <<"SCHEMA", s>>
CredKey(c) == <<"CRED", c>>

VARIABLES is_mock,      \* FabricClient.is_mock
          world,        \* world state: ledger key -> JSON document
          reply         \* what the last query returned, if nothing was written since

registryVars == <<is_mock, world, reply>>

NoReply == [fn |-> "none", arg |-> Null, result |-> Err]
-----------------------------------------------------------------------------
\* json.Marshal of the Go structs: slices are sequences, nil slices null.
DIDDocument(d, issuer, key) ==
    [id |-> d, public_key |-> key, issuer_did |-> issuer,
     verificationMethod |-> <<[controller |-> d, publicKeyMultibase |-> key]>>,
     authentication |-> <<d>>, assertionMethod |-> <<d>>]

CredentialSchema(s, issuer) ==
    [schema_id |-> s, issuer_did |-> issuer, attributes |-> <<>>, created |-> 1]

CredentialMetadata(c, issuer) ==
    [credential_id |-> c, issuer_did |-> issuer, revoked |-> FALSE]

\* json.Unmarshal into a Go DIDDocument and json.Marshal of the result: a
\* field that is missing is its zero value, one that is not known is dropped.
AsDIDDocument(doc) ==
    LET Field(name, zero) == IF name \in DOMAIN doc THEN doc[name] ELSE zero
    IN  [id |-> Field("id", ""), public_key |-> Field("public_key", ""),
         issuer_did |-> Field("issuer_did", ""),
         verificationMethod |-> Field("verificationMethod", Null),
         authentication |-> Field("authentication", Null),
         assertionMethod |-> Field("assertionMethod", Null)]

Put(key, doc) ==
    world' = [k \in DOMAIN world \cup {key} |-> IF k = key THEN doc ELSE world[k]]

\* RegisterDID, RegisterSchema and RecordCredentialMetadata are blind puts.
\* In mock mode nothing is sent.
RegisterDID(d, issuer, key) ==
    /\ ~is_mock
    /\ Put(DidKey(d), DIDDocument(d, issuer, key))
    /\ reply' = NoReply
    /\ UNCHANGED is_mock

RegisterSchema(s, issuer) ==
    /\ ~is_mock
    /\ SchemaKey(s) \notin DOMAIN world     \* a new UUID per call
    /\ Put(SchemaKey(s), CredentialSchema(s, issuer))
    /\ reply' = NoReply
    /\ UNCHANGED is_mock

RecordCredential(c, issuer) ==
    /\ ~is_mock
    /\ CredKey(c) \notin DOMAIN world       \* a new UUID per call
    /\ Put(CredKey(c), CredentialMetadata(c, issuer))
    /\ reply' = NoReply
    /\ UNCHANGED is_mock

Get(key) == IF key \in DOMAIN world THEN Ok(world[key]) ELSE Err

ResolveDID(d) == IF Get(DidKey(d)).ok THEN Ok(AsDIDDocument(Get(DidKey(d)).value)) ELSE Err

GetSchema(s) == Get(SchemaKey(s))

\* The set of documents that the CouchDB selector on issuer_did finds, each
\* read as a DIDDocument.
QueryDIDsByIssuer(issuer) ==
    {AsDIDDocument(world[k]) : k \in {l \in DOMAIN world : world[l].issuer_did = issuer}}
-----------------------------------------------------------------------------
\* The mock answers of query_chaincode; the one for any other function is
\* false, which no decoder of a document takes.
MockResolveDID(d) == [id |-> d, public_key |-> "placeholder_pubkey", authentication |-> <<d>>]
MockGetSchema(s) == [schema_id |-> s, issuer_did |-> "did:example:issuer", attributes |-> <<>>]

\* serde: #[serde(default)] stands in for a field that is missing, not for one
\* that is null; a Vec is not decoded from null.
OrDefault(json, name, default) == IF name \in DOMAIN json THEN json[name] ELSE default

\* deserialize_bool_or_default is called for a field that is there only.
DecodeActive(json) ==
    CASE "active" \notin DOMAIN json -> FALSE
      [] OrDefault(json, "active", Null) = Null -> TRUE
      [] OTHER -> json["active"]

DecodeVerificationMethod(json) ==
    [controller |-> json.controller,
     public_key_multibase |-> OrDefault(json, "public_key_multibase", "")]

VecFields == {"verificationMethod", "authentication", "assertionMethod"}

DecodeDIDDocument(json) ==
    IF \E f \in VecFields : OrDefault(json, f, <<>>) = Null
    THEN Err
    ELSE LET methods == OrDefault(json, "verificationMethod", <<>>)
         IN  Ok([did |-> json.id,
                 issuer_did |-> OrDefault(json, "issuer_did", ""),
                 public_key |-> OrDefault(json, "public_key", ""),
                 verification_method |->
                     [i \in DOMAIN methods |-> DecodeVerificationMethod(methods[i])],
                 active |-> DecodeActive(json)])

\* created has no default.
DecodeSchema(json) ==
    IF "created" \notin DOMAIN json THEN Err
    ELSE Ok([schema_id |-> json.schema_id, issuer_did |-> json.issuer_did])

\* Vec<DIDDocument>: one element that fails fails the whole, and so does the
\* nil slice that an empty result leaves.
DecodeDIDDocuments(jsons) ==
    LET docs == {DecodeDIDDocument(j) : j \in jsons}
    IN  IF Err \in docs \/ jsons = {} THEN Err ELSE Ok({doc.value : doc \in docs})

Reply(fn, arg, value) == reply' = [fn |-> fn, arg |-> arg, result |-> value]

\* FabricClient.resolve_did, get_schema and query_dids_by_issuer.
resolve_did(d) ==
    LET json == IF is_mock THEN Ok(MockResolveDID(d)) ELSE ResolveDID(d)
    IN  /\ Reply("resolve_did", d, IF json.ok THEN DecodeDIDDocument(json.value) ELSE Err)
        /\ UNCHANGED <<is_mock, world>>

get_schema(s) ==
    LET json == IF is_mock THEN Ok(MockGetSchema(s)) ELSE GetSchema(s)
    IN  /\ Reply("get_schema", s, IF json.ok THEN DecodeSchema(json.value) ELSE Err)
        /\ UNCHANGED <<is_mock, world>>

query_dids_by_issuer(i) ==
    /\ Reply("query_dids_by_issuer", i,
             IF is_mock THEN Err ELSE DecodeDIDDocuments(QueryDIDsByIssuer(i)))
    /\ UNCHANGED <<is_mock, world>>

RegistryInit ==
    /\ is_mock \in BOOLEAN
    /\ world = [k \in {} |-> Null]
    /\ reply = NoReply

RegistryNext ==
    \/ \E d, i \in Dids, k \in Keys : RegisterDID(d, i, k)
    \/ \E i \in Dids, s \in SchemaIds : RegisterSchema(s, i)
    \/ \E i \in Dids, c \in CredIds : RecordCredential(c, i)
    \/ \E d \in Dids : resolve_did(d) \/ query_dids_by_issuer(d)
    \/ \E s \in SchemaIds : get_schema(s)

RegistrySpec == RegistryInit /\ [][RegistryNext]_registryVars
-----------------------------------------------------------------------------
RegistryTypeOK ==
    /\ is_mock \in BOOLEAN
    /\ DOMAIN world \subseteq {"DID"} \X Dids \cup {"SCHEMA"} \X SchemaIds \cup {"CRED"} \X CredIds
    /\ \A k \in DOMAIN world : world[k].issuer_did \in Dids

Registered(d) == DidKey(d) \in DOMAIN world
DidsOf(i) == {d \in Dids : Registered(d) /\ world[DidKey(d)].issuer_did = i}

\* The client talks to a peer and the last call was fn.
Asked(fn) == ~is_mock /\ reply.fn = fn

\* A DID resolves exactly if it is registered, to the key and the issuer of its
\* last registration.
ResolveIsExact ==
    Asked("resolve_did") =>
        /\ reply.result.ok <=> Registered(reply.arg)
        /\ reply.result.ok =>
              /\ reply.result.value.did = reply.arg
              /\ reply.result.value.public_key = world[DidKey(reply.arg)].public_key
              /\ reply.result.value.issuer_did = world[DidKey(reply.arg)].issuer_did

SchemaIsExact ==
    Asked("get_schema") =>
        /\ reply.result.ok <=> SchemaKey(reply.arg) \in DOMAIN world
        /\ reply.result.ok =>
              /\ reply.result.value.schema_id = reply.arg
              /\ reply.result.value.issuer_did = world[SchemaKey(reply.arg)].issuer_did

\* A list of an issuer's DIDs is complete and has nothing else, although the
\* selector also finds its schemas and credentials and DIDs change hands.
ListIsComplete ==
    (Asked("query_dids_by_issuer") /\ reply.result.ok) =>
        {doc.did : doc \in reply.result.value} = DidsOf(reply.arg)

\* What the lookups answer, a client that is not a mock: what a key holds stays
\* a document of its kind and id, though ids of schemas and credentials may
\* equal a DID and a DID may be registered anew by someone else, and nil slices
\* and missing fields on the way never yield a document that is not there.
LookupIsExact == ResolveIsExact /\ SchemaIsExact /\ ListIsComplete

\* "List the DIDs registered by an issuer": an issuer with DIDs gets a list.
QueryListsDids ==
    (reply.fn = "query_dids_by_issuer" /\ DidsOf(reply.arg) # {}) => reply.result.ok
=============================================================================
