# A TLA+ model of DZTA

DZTA is a zero-trust access system. An issuer records credentials on Hyperledger
Fabric; a holder keeps them in an encrypted wallet and makes zero-knowledge
proofs of clearance in a Gramine/SGX enclave, which gets its keys from an
attestation broker; an Envoy Wasm filter admits requests with a good proof and
denies revoked credentials, of which a daemon keeps it informed.

This directory has the specifications of the parts that carry that logic, the
TLC runs that check them on small instances, and TLAPS proofs of the central
properties for all values of the constants. `PROJECT.json` maps every definition
to the lines it models.

## 1. Inventory

| Component | State | Operations | What is hard | What makes it correct |
|---|---|---|---|---|
| Chaincode `dztac/main.go` | world state (`DID_`, `SCHEMA_`, `CRED_` keys), chaincode events | RegisterDID, ResolveDID, QueryDIDsByIssuer, RegisterSchema, GetSchema, RecordCredentialMetadata, RevokeCredential, IsCredentialRevoked | blind puts, MVCC conflicts, one selector for three kinds of documents | revocation is permanent; flag and events agree |
| `fabric-client` | the profile, a peer URL, an MSP id, the mock flag | new, set_mock, invoke_chaincode (endorse, submit, poll), query_chaincode, verify_credential_active, mock answers | errors after the envelope was sent, a 30 s poll, two queries for one verdict, two connections with addresses from different places | Ok is durable; a verdict held at some instant; requests reach only peers that the profile vouches for |
| Fabric configuration (`config.rs`) | a connection profile | validate, accessors, get_user_context | names that refer to each other, HashMap order, files that are missing | an accepted profile is one a client can work with |
| Schema engine | none | validate_fields | boundaries of i64/u64, order of errors | agrees with a reference |
| `dzta-issuer` | signer: a local key, or a name of a Vault key | create_credential, revoke_credential, register_did, register_signing_did, sign, public_key_multibase | four awaits with a failure at each; a key that changes between two uses; registrations that commit late | what is held is on the ledger; the DID document has the key that signs |
| `dzta-wallet` | Askar database on disk; open store and passphrase in memory, behind two locks | initialize, provision_and_bind_vault, store_credential, mark_credential_revoked, get_or_create_zkp_secret_seed | tasks suspended at every await, wrong keys, failed commits, process stops | records readable, one seed, revoked tag kept |
| Revocation daemon | cursor in a stream, backoff, cache | subscribe from block 0, push each event with at most 5 attempts | broken streams, lost answers, late POSTs, restarts | no gap without a loss; eventual blocking |
| Edge filter | SharedData of the Envoy process | admin POST, public request | lookup and admission are separate; restart forgets | only revoked ids blocked; bounded window |
| Circuit (`zkp-core-crypto`) | none | generate_constraints | field wrap-around, 8-bit range check | judges levels exactly |
| Gramine prover | host runner and enclave process joined by three pipes | execute_proof, execute_confidential_proof, main() of the enclave | two processes that wait for each other, full pipes, crashes | Ok is a proof, calls return, enclaves end |
| Attestation broker | none; Vault keeps the key | /provision, /unwrap, /release | five Vault requests per call, two seeds in flight | sessions agree on the secrets; other enclaves get none |
| Transport engine | configuration | submit_proof_request, submit_proof_result, request_proof, collect_proof | a request outlives its caller, or Envoy's patience; blank values; an answer that breaks off | each outcome tells what was done; the service gets authorised requests only |
| Android app, trusted set-up, scripts | see section 9 | | | |

Interactions: issuer -> chaincode (transactions); chaincode -> daemon (event
stream); daemon -> edge (HTTP POST); client -> edge (headers with proof and id);
wallet -> runner -> enclave (stdin payload with the sealed record); enclave ->
runner -> broker -> Vault (attestation handshake).

## 2. Modules

| Module | Models | Uses |
|---|---|---|
| `DztaContract` | the credential functions of the chaincode, one atomic step per transaction: the abstract ledger | |
| `FabricLedger` | the same functions run by `invoke_chaincode` on Fabric | refines `DztaContract` |
| `RevocationDaemon`, `EdgeFilter` | the two components, each as a set of actions on its own variables | |
| `RevocationPipeline` | ledger, daemon and edge composed, with the network and restarts | `DztaContract`, `RevocationDaemon`, `EdgeFilter`; refines `RevocationService` |
| `RevocationService` | what the pipeline promises: revoked grows, blocked is within revoked, blocked is lost all at once | |
| `WalletStore` | the wallet's methods, await by await | |
| `IdentityRegistry` | documents of all kinds and the JSON that crosses from Go to Rust | |
| `SchemaEngine`, `SchemaCheck` | `validate_fields`; a call of it and its reference | |
| `CredentialSigning` | the issuer's signing key, its registration and signatures made with it | |
| `TransportEngine` | headers and outcomes of the client, as operators | |
| `GatewayAccess` | client, edge and service composed | `TransportEngine`, `EdgeFilter` |
| `ConnectionConfig` | the connection profile and its accessors, as operators | |
| `FabricSetup` | a client made from a profile, and the connections of its calls | `ConnectionConfig` |
| `CredentialLifecycle` | issuance, delivery, revocation, expiry and verification composed | `DztaContract` (which it refines), `SchemaEngine` |
| `RoleCircuit`, `WitnessCheck` | the constraints of the circuit; the enclave's check of them | |
| `ConfidentialSession` | host, enclave and pipes | `RoleCircuit` |
| `AttestationBroker` | the broker's handlers with Vault | |
| `MC...` | instances for TLC where a cfg alone does not do | |
| `...Proofs` | theorems and proofs | TLAPS |

Definitions named "Faulty variant of X" are not part of a specification. Each is
a plausible error in the code that X models, used to see that a property notices
it.

### How state and actions correspond to the code

**FabricLedger.** `tx` has an entry per call. `Endorse` is everything up to a
signed proposal and fixes the version of the key that the simulation read;
`Submit` and `SubmitFails` are `submit()`, where a failure may come before or
after delivery; `PollAsk`/`PollCommitted`/`PollRejected`/`PollFails`/
`PollTimeout` are one round of `wait_for_transaction_commit`. A response may
arrive any time later, so a poll is a request and an answer. `Commit` and
`Invalidate` are the orderer and the peers' MVCC check (external). That no two
records share a key (`FreshId`) is `Uuid::new_v4` in `create_credential`; the
chaincode itself does not check it, and without it revocation would not be
permanent (this is the mutant of three properties).

**RevocationPipeline.** `Connect` starts the replay at block 0; `Receive` hands
over the events of the next block; `TakeEvent` caches an event and begins its
push; `Post`, `PostAcked`, `PostFails` are `sync_to_envoy_memory`. The composition
says what became of a POST: handled and acknowledged (`Inject`), handled without
the answer being seen (`InjectUnacked`), refused (`PostRefused`), or given up by
the daemon while it is still on the wire (`PostTimesOut`, `LateInject`). On the
public path the SharedData lookup (`GateRead`) and the decision (`GateContinue`,
`GateReject`) are two steps, as other worker threads run between them. With one
worker only, Envoy would not interleave an admin request with a public one on
the same thread; the admin listener may be served by any worker, so the model
lets it come at any time, which only adds behaviours.

**WalletStore.** A task's `at` names the await it is suspended at. `initialize`
opens the database, sets the store and sets the passphrase in three steps.
Askar's `insert` refuses an existing id. A failing commit may or may not have
written.

**CredentialLifecycle.** `create_credential` is CreateBegin (expiry check, UUID),
CreateValidate, CreateSign, CreateRecord, CommitRecord, CreateReturn; each await
may fail, and a record whose caller has failed may still commit.
`verify_credential_active` is two queries with anything in between.

**IdentityRegistry.** JSON objects are records; the Go side reads unknown or
missing fields as Go does (zero values, nil slices become null), the Rust side as
serde does (a default stands in for a missing field and not for null). `Ok` and
`Err` are the results of queries and decoders. `is_mock` is chosen once, initially.
`LookupIsExact` is about clients on the ledger and the fields that both sides name
alike: id, issuer and `public_key`. The fields that are lost on the way and the mock
answers are decoded in the model as in the code; where that differs from what the
repository says of them, section 4 tells.

**CredentialSigning.** Keys are numbered; the last one signs. `RegisterRead`,
`RegisterSubmit`, `CommitRegistration`, `RegisterOk` and `RegisterErr` are
`register_signing_did` with the await on the signer and those of the ledger, whose
commit may come after the caller has gone. `RegisterGiven` is `register_did` for the
issuer's own DID, with a key that its caller has: one of the signer's or another
(0). `CreateType` and `CreateSign` are the two requests of the Vault signer; the
type that the first one reads decides on the parameters of the second, and if the
key has another type by then, Vault ignores them, refuses, or answers with
something else ("mixed"). `RotateVaultKey` is an operator of Vault, `Restart` gives a
local signer another key. `confirmed`, `clean`, `asked` and `during` are history.

**GatewayAccess.** `Begin` is a call up to `send()`: the headers it carries are
`RequestHeaders`. A request is on the wire, with a worker, with the service, or
done, whatever its caller does meanwhile; the caller receives, times out, loses
its connection, or loses the body after the status (which `parse_json` reports as
a serialization error). A lost message is one that nobody takes up: no fairness
makes anyone. The actions of the edge are those of `EdgeFilter` with the headers
that the client has sent; `EdgeNoKey` is the filter without a verifying key
(`pvk`), which answers 500 to everybody. Envoy itself may answer 503 or 504 for a
request that is with the service, before or after the service handles it
(`EnvoyAnswers`, `EnvoyStatuses`): `envoy.yaml` sets no route timeout, so Envoy's
default of 15 s applies, while the client waits for 30 s.

**FabricSetup.** `New` is the constructor; `ConnectGateway`, `SendEndorse`,
`BuildTlsGateway`, `SendSubmit` and `PollCommit` are `invoke_chaincode`, and
`ConnectGateway` and `Evaluate` are `query_chaincode`, seen from their
connections; `sent` is what they have sent to whom. `FABRIC_PEER_ENDPOINT` is read
by `New` and again by `BuildTlsGateway`, and `SetEndpoint` (external) changes it at any
time in between; the host that the second connection was made to is the one that
`SendSubmit` uses. A path in the profile stands for the contents of its file.

**ConfidentialSession.** Lines in the pipes are kinds of messages. The enclave
logs up to `MaxLog` units before each step; stderr holds `StderrCap` of them and
is read by `wait_with_output` only. A payload that does not fit its pipe
(`mode.fits`) is written as the enclave reads it, so the writer may block.
Returning from the runner closes its ends of the pipes. `Unseals` has the three
fallbacks of `unseal_and_derive_witness_with_credential_id`. What the broker expects is
a parameter (`Brokers`): the fields it decodes, the form of the public key it parses
and the hash of its OAEP. `KeyBroker` is the one of this repository; the enclave has
its own (`AttestationRequest`, `EnclaveKeyForm`, `EnclaveOaep`), and a step fails where
the two differ.

**AttestationBroker.** Secrets are numbered in the order Vault draws them.
`/provision` makes a wallet key, a seed that the engine draws and the handler
drops, and the seed that is returned. `/unwrap` and `/release` check the quote
and have the secrets of two ciphertexts unwrapped, any two that the device has: one
Vault key has encrypted them all, and the handlers do not ask whether they belong
together. A ciphertext opens to one secret and a wrapped secret opens in one enclave
(ideal cryptography, and an enclave that speaks the broker's key format and hash,
unlike the one of this repository).

## 3. Runs

| Run | Instance | Shows |
|---|---|---|
| `ledger` | 3 calls, 2 credentials, 2 polls, with fairness | `RevokedIffAnnounced`, `OkIsDurable`, `LostRaceIsRevoked`, `RevocationIsPermanent`, refinement of the atomic contract (`ContractSpec`), `EveryCallReturns` |
| `pipeline` | 2 credentials, 1 worker, 2 events, 3 attempts, 3 failed POSTs, 2 stream faults, a restart of each process, with fairness | `OnlyRevokedBlocked`, `NoGapWithoutLoss`, `OnePassPerWorker`, refinement of `RevocationService` (`ServiceSpec`), `PendingGetsBlocked` |
| `wallet` | 3 tasks, 2 keys, 3 seeds, 1 credential, 1 restart | `RecordsReadable`, `SeedAgreement`, `BoundKeyOpensStore`, `RevokedTagIsKept` |
| `standalone` | all pairs of levels 0..300 in the field of order 557; all schemas of up to 2 attributes, all subjects with small integers; 14 profiles, 3 organizations and 3 peers as arguments, with `FABRIC_PEER_ENDPOINT` set, unset and changed at any time; 2 DIDs, 2 keys, ids of schemas and credentials that equal DIDs, mock mode and not | `LevelIsJudgedExactly`; `ValidationIsExact`; `SentIsVouchedFor`; `LookupIsExact` |
| `registry_query` | the documents of `standalone` | violation of `QueryListsDids` |
| `lifecycle` | 2 issuances, 2 ids, 1 verifier, clock 0..2 | `HeldIsRecorded`, `VerdictHeldOnce`, `RevocationIsSeen`, `InactiveForEver`, refinement of the atomic contract (`LedgerSpec`) |
| `session` | all records (sealed, XORed, clear; subject or W3C; 4 levels, 2 keys), confidential or not, SGX or not, payloads that fit and that do not, brokers that match the enclave or differ from it in one thing, 1 failure, stderr of 2 units and a log of 3, with fairness | `OkIsProof`, `PlainProofSucceeds`, `CallReturns`, `EnclaveEnds` |
| `session_broker` | the same with this repository's broker and no failure | violation of `ConfidentialProofSucceeds` |
| `broker` | 2 concurrent calls, 3 enclaves of which 1 genuine, 6 secrets, 1 level, an enclave that has a pair asks for no more | `SessionsAgree`, `SecretsAreSeparate`, `SharedOnlyWithGenuine` |
| `signing` | 2 registrations of either kind, 1 signature at a time, keys of 2 types, 3 keys over time, 1 restart, both signers | `ConfirmedKeyIsLatest`, `ConfirmedProofsVerify` |
| `gateway` | 2 calls, 1 worker, 1 credential, 8 bundles of headers, 3 configurations, 1 restart of Envoy, with fairness | `OutcomeIsTelling`, `MarkedIsNeverHandled`, `HandledIsAuthorized`, `EveryCallReturns` |
| `gateway_rejected` | the same | violation of `RejectedIsNotHandled` |

Every module with several actions states its types in `TypeOK` (`SetupTypeOK` in
`FabricSetup`, `RegistryTypeOK` in `IdentityRegistry`). They are proved, and so not
among the properties of the runs. Deadlock is not checked, as all these systems may stop: calls return,
budgets of faults are used up.

### Bounds, and why they are enough

* Three calls hold a record and two racing revocations, or a record, a
  revocation and a second record, which are the cases that can go wrong. Two
  polls hold a failed and a successful one.
* Two events of two credentials, or two of one, are enough for a replay that is
  interleaved with a new event, and for one push to overwrite or overtake
  another. Three failed POSTs use up all three attempts (the code has five) and
  so reach the permanent failure. Two stream faults take the backoff to its cap.
  The safety properties of this run are also proved without bounds.
* Three tasks hold two that race and one that initialises; two keys a right and
  a wrong one; one restart separates what is on disk from what is in memory.
* Levels 2, 3, 258 and 259 around a required 3 are the edges of the 8-bit range.
  The `standalone` run has every pair.
* Three keys are a registered one, its successor, and one more for a change while
  the successor is being registered; two registrations can overtake each other.
* Two calls compete for a worker and see a mark at different stages; the bundles
  have everything, or one thing blank, missing or bad, or nothing.
* The profiles are a good one and one for each way in which it can be bad.
* Six secrets are two full provisioning calls, enough for ciphertexts of two roles
  and of two provisionings to be mixed. An enclave process serves one session
  (`MaxPairs` = 1); the level enters one comparison and no property. The proofs have
  neither bound.

Budgets of faults are in the guards (`MaxPostFaults`, `MaxStreamFaults`,
`MaxDaemonRestarts`, `MaxEnvoyRestarts`, `MaxRestarts`, `MaxFaults`), as are
`MaxEvents`, `MaxTime`, `MaxSecrets` and `MaxPairs`. Symmetry is used in safety-only runs on
sets whose members no definition tells apart.

### Fairness

* `FabricLedger`: a call in its polling loop asks again or sees that its time is
  up (the tokio runtime schedules it). Nothing is assumed of requests to the
  gateway or of the orderer. So `EveryCallReturns` says of each call that it
  returns or hangs in one request for ever, for the loop looks at its deadline
  between requests only; that a transaction may never commit makes no difference.
* `GatewayAccess`: the timer of a client with a timeout runs. Nothing is assumed
  of network, Envoy or service; without a timeout a call may wait for ever, and
  `EveryCallReturns` says nothing of it.
* `RevocationPipeline`: the daemon's loop keeps running, and a POST that is
  neither lost nor refused is handled and acknowledged. Nothing is assumed of
  issuers, clients, late POSTs, faults or restarts. `PendingGetsBlocked` is
  stated for the case that fewer than `MaxRetries` POSTs still fail, since after
  that many the code drops the event.
* `ConfidentialSession`: both processes keep running, and the request to the
  broker ends (reqwest's default client has a timeout). No fairness for crashes.

The other specifications have none and only safety is checked.

## 4. What the runs found

* `session_broker`: the runner posts an `AttestationRequest`, the broker of this
  repository decodes a `ReleaseRequest` with other fields. Were the fields the same,
  the broker would refuse the key (PKCS#1, where it parses SPKI), and were the key
  accepted, the enclave could not decrypt the answer (OAEP with SHA-1 against
  SHA-256). So a confidential proof cannot succeed, and no property of a confidential
  success is checked with another broker.
* `registry_query`: an issuer that has registered a schema or issued a
  credential cannot list its DIDs, against the comment of `query_dids_by_issuer`.
* `gateway_rejected`: `Rejected` reads "request was rejected by the gateway", and is
  also what a caller gets for a request that the service has handled and for which
  Envoy's own 503 or 504 came first. `OutcomeIsTelling` says what each outcome is
  worth; these two statuses tell nothing.

Disagreements between the repository's words and its code that follow from a single
definition of a model, and so have no run:

* The key of the verification method is lost between chaincode and client, as the one
  writes `publicKeyMultibase` and the other reads `public_key_multibase` with a default
  (`DecodeVerificationMethod`), though the chaincode's comment says "Matching Rust
  Models" (`dztac/main.go:13`).
* A resolved DID document always has `active = false` (`DecodeActive`): the chaincode
  has no such field, and serde's default applies before the deserializer that would
  "Fallback to active if not explicitly set to false" (`shared/src/models.rs:106`).
* The mock answer of `GetSchema` lacks the field `created` that the decoder demands
  (`MockGetSchema`, `DecodeSchema`), so no credential can be created in mock mode,
  against the repository's `README.md:66`.
* `validate` announces "Validate all organizations have users"
  (`fabric-client/src/config.rs:171`) and looks at peers, and what it looks at only
  makes a warning.

Seen while modelling, without a run of their own: a
registration of the signing key that commits late brings an older key back even
after a newer one was confirmed, as `RegisterDID` is a blind put, and so does
`register_did` with an older key (`ConfirmedKeyIsLatest` has the condition under which
this cannot happen), and
every change of the key invalidates the credentials signed before
(`ConfirmedProofsVerify`); `request_proof` and `collect_proof` send no proof and so
get 401 from the filter, which `collect_proof` reports as a serialization error
since it does not look at the status (`HandledIsAuthorized`); every call of a
FabricClient uses the TLS settings of `org1-peer1` and submits there, whatever peer
the client was made for, unless the environment names another host (`target`,
`SubmitUrl`), so the two connections of a call need not be to one peer; it signs with a
certificate of the profile's organization whatever organization it was made for
(`CanIdentify`); a credential may have expired when it is issued, as the expiry is
compared before three awaits; `/unwrap` gives a genuine enclave a wallet key and a
seed that do not belong together, if that is what the ciphertexts are
(`SessionsAgree`); `revoke_credential`
does not touch the wallet, though the repository's README says so; a level more
than 255 above the required one is refused as "below required threshold"; and the
confidential call hangs if the enclave logs more than its stderr pipe holds
before it answers, as does any call with a payload longer than the stdin pipe
(`LogJam`, part of `CallReturns`).

## 5. Proofs

All theorems are for arbitrary sets and bounds. Every safety property of section 3
is proved: all invariants, all action properties and all three refinements.
Assumptions on constants are named where they are declared, and TLC evaluates them
in the runs. Most say that a bound is a natural number or that a value that stands
for "none" is not one of the others. The ones with content:

* `FieldAssumption`: the field exceeds the largest level by more than 256, which
  holds by far for u64 levels in the scalar field of BLS12-381; a wrapped
  difference is then above 255. `LevelsAssumption`: levels are within that range.
* `SchemaAssumption`: a subject has strings and integers only, as the one that
  `create_credential` builds.
* `BundlesAssumption`: a caller gives a revocation id, a blank one, or none.
* `ConfigsAssumption`: no configuration sends one value under the name that the
  filter has for another. `TransportEngine::new` does not check that, and
  `HandledIsAuthorized` needs it: a proof sent under the name of the revocation
  id would be looked up as one.
* `ProfilesAssumption`: a user's entry names a certificate. `NetworkAssumption`: no
  host has the name "grpcs" (which `TlsDomain` yields for a URL with a scheme), and no
  certificate is from a CA that is missing.

**FabricClientProofs** has the parts of that crate.

*Ledger*: `TypeCorrect`, `EventsAgree`, `OkDurable`, `LostRace`, `Permanence`,
`Refinement`. That revocation is permanent is not inductive: one
must know that a record that is not committed yet finds its key absent
(`RecordFirst`), which needs that no two calls record one id (`RecordOnce`) and
that what is on the ledger was recorded by some call (`Provenance`). A lost MVCC
race means a revoked credential because a changed version since a successful
simulation can only be a revocation's (`StaleReadIsRevoked`). `Refinement` shows
each step to be a step of `DztaContract` or a stutter.

*Set-up*: `SetupTypeCorrect`, `VouchedFor`. The invariant says what a client was made
of (`ClientMade`), that a running call has an identity and an open second connection
to a host that passed its handshake (`CallMade`), and the same of everything sent
so far (`SentMade`). The environment may change at any step: whom a client trusts
depends on the profile alone (`Trusting`), so what was vouched for stays so.

*Schema engine*: `ValidationExact`. `FieldIsExact` compares the check of one
attribute with the reference, by kind of value; that the verdict is that of the
first bad attribute needs a least element of a set of indices (`LeastExists`, from
the well-foundedness of the naturals).

*Registry*: `RegistryTypeCorrect`, `LookupExact`. The invariant `WorldOK` says that
a key holds a document of its own kind and id and that in mock mode nothing is
written. The lemmas follow a document on its way: a DID document survives the Go
struct (`ReadBack`) and decodes, without the keys of its methods (`DecodeDID`); any
other document read as one has null slices, which serde refuses (`DecodeOther`).
`LookupIsExact` is about the current state because every write clears the reply.

**RevocationPipelineProofs**: `TypeCorrect`, `NoFalseBlock`, `NoGap`,
`BoundedWindow`, `Refinement`. The invariant adds to the properties
that events name revoked credentials (`EventsAreRevoked`), that the daemon is not
ahead of the stream (`DaemonBehindStream`), that the attempts left and the POSTs
failed so far make up at least `MaxRetries` (`RetriesLeft`, without which a push
might end in a permanent failure early), and that the history of admissions names
marked ids (`PassedAreShared`).

**WalletStoreProofs**: `TypeCorrect`, `Readable`, `OneSeed`, `BoundKey`,
`TagIsKept`. That records are readable is not inductive, as a record is sealed
long before it is inserted and a passphrase cached long after the database has
taken it. The invariant says that there is one key: the key a suspended task
carries (`KeyedTasks`), the cached one (`CachedKey`), that of the records
(`RecordKeys`) and of the bound ciphertexts are all `dbKey`. A database without a
key has no task, record or ciphertext with one, so its first key is free. The
kept tag also needs it: replacing a revoked record by what was fetched earlier
changes nothing because the value is sealed with the same key.

**CredentialSigningProofs**: `TypeCorrect`, `KeyConfirmed`, `ProofsVerify`. That a
confirmed key is the latest is not inductive: nothing in it keeps a transaction
with an older key from the ledger. The invariant adds that after a confirmation no
registration under way has another key than the latest (`Confirmation`), that a
clean call has that key and runs among no stale ones, and has its key in the
document once committed (`CleanCalls`), both only for an Ed25519 key, and that a
signature is by the key that was the latest when it was made, and has its form if the
parameters were those of its type (`ProofsAreSound`). A new key ends every
confirmation and leaves the numbers and types of the older ones alone (`KeysGrow`);
`register_did` ends it if it is given another key.

**CredentialLifecycleProofs**: `TypeCorrect`, `HolderKnown`, `VerdictSound`,
`RevocationSeen`, `InactivityLasts`, `Refinement`. The put of a record is blind, so
that a revoked or expired credential stays inactive needs that a record with the
orderer is the only one of its id and comes before its key exists (`PendingOnce`);
for this a call that has not sent its record must be alone with its id
(`OneIdPerCall`, `UnsentIsAbsent`). `Refinement` rests on the same. The verdict:
between the two queries the credential was active at the first one or has expired
already, which the second will find (`BetweenQueries`), as the clock does not go
back. A call begun after a confirmed revocation does not reach the second query
(`SeenAtOnce`).

**AttestationBrokerProofs**: `TypeCorrect`, `PairsAgree`, `PairsAreSeparate`,
`OnlyGenuineShare`. The invariant says what a handler has at each of its requests
to Vault (`HandlersOK`): secrets that were drawn for it, or, past the quote, a
genuine enclave and two ciphertexts from the disk, in any combination. Separate pairs need that the secrets
which a provisioning call has drawn and not given away are known to no other call
and to no ciphertext (`OwnAreFresh`); a failing handler forgets them. That enclaves
which are not genuine share no secret follows from `SessionsAgree`: what is in any
memory is on disk, and what a provisioning call hands over is not.

**GatewayAccessProofs**: `TypeCorrect`, `Telling`, `MarkedStopped`,
`HandledAuthorized`. The invariant says that a request is in one place (`OnePlace`),
without which a rejected request might be handled as well; that an answer on
its way tells what the outcome will: a success comes from the service, a rejection
with a status that is neither the service's nor Envoy's own from the edge
(`AnswerTells`); that a marked request has not passed the lookup (`MarkedIsStopped`);
and that a worker verifies proofs only for ids that can be looked up
(`EdgeAuthorizes`). Its lemma `HeaderIsSent` is the contract of the two components:
under each name the edge finds what the caller gave, or nothing, and no blank id.

**ProverProofs**: `RangeCheckIsExact` (the range check of the circuit is exact in
every field with that margin), `LevelJudged`, and for the session `TypeCorrect`,
`OkProof`, `PlainSucceeds`. The invariant of the session is the protocol:
for each place of the host, where the enclave may be and what is in the pipes
(`Protocol`, `OneLine`), and what the enclave has checked by then (`Checked`). That
a clearance is within 255 of what is required comes from `RangeCheckIsExact`. That
a good session of `execute_proof` does not fail needs in addition that the enclave has
not failed either as long as the host runs (`Able`, `Succeeding`).

## 6. Only model-checked

Liveness under fairness (both `EveryCallReturns`, `PendingGetsBlocked`, `CallReturns`,
`EnclaveEnds`) is out of the prover's reach. The violations are TLC's as well. That the proved
invariants are not vacuous is also TLC's to show: the runs reach every action.

## 7. Abstractions that matter

Ciphers, hashes, signatures, Groth16 and quotes are ideal: a ciphertext opens
with its key only, a proof exists if the constraints hold, and a signature
verifies with the key that made it. In `CredentialLifecycle` the signer is one
step that succeeds or fails; `CredentialSigning` has the two requests and the
keys. In `FabricLedger` the set-up of a call is one step that succeeds or fails;
`FabricSetup` has its parts. TLS is a relation: a handshake needs a CA that vouches
for the host and a name in its certificate. A JSON document has the fields that a decoder or a
property looks at. Time is a counter in `CredentialLifecycle` and nowhere else;
timeouts are steps that may happen at any time they are possible.

Mock mode answers without a ledger: `invoke_chaincode` of a mock returns Ok at once and
`query_chaincode` makes its answers up. `IdentityRegistry` and `FabricSetup` have it;
`FabricLedger`, `CredentialLifecycle` and `CredentialSigning` are about clients that are
not mocks, and none of their properties holds for a mock.

`CredentialLifecycle` has one linearizable ledger: all queries go to the peer at which
commits are waited for, as they do in a deployment with one gateway peer. A verifier
at a peer that lags behind is answered from an earlier state, so `RevocationIsSeen`
would hold for it only after a delay that the code does not bound.

The RSA wrap of the broker is ideal in `AttestationBroker`; that the enclave of this
repository has another key format and another OAEP hash is modelled in
`ConfidentialSession`.

## 8. Plan

Done: all components of section 2 with their runs, both levels of the ledger and of
the revocation service with their refinements, and the proofs of all safety
properties.

Next:

1. Proofs of what `PendingGetsBlocked` and `CallReturns` rest on that is safety:
   every step of the daemon's loop brings it nearer to the end of the stream.
2. The composition of lifecycle and pipeline: a verifier and the edge disagree
   about a credential for a bounded time only.
3. `/release` of the broker in one specification with the session.

## 9. Not modelled

* `fabric-client/src/credential_manager.rs` and `hold.rs`: not declared as modules
  of their crate, so not compiled. `get_endorsements_with_retry`: called by
  nothing.
* Inside of TLS and of the Fabric SDK; the parsing of YAML; the accessors of the
  profile that list all URLs; the DID that `generate_did` hashes from a key; the
  URL that `target_url` puts together.
* Pairing checks, proof encodings, receipts: no state; the outcome is a choice.
* The HTTPS KMS provider of the broker, which forwards a request, and its
  start-up.
* `tee-runner-enclave`, `dzta-protected-prover`, `toxic-waste`: wrappers of the
  circuit without a protocol. Android app, scripts, Vault and Envoy
  configuration: user interface and deployment. The end-to-end tests were used
  for what they expect of the components.
