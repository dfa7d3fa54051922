-------------------------- MODULE CredentialSigning --------------------------
(***************************************************************************)
(* The issuer's signing key and the key that its DID document shows:       *)
(* register_signing_did, register_did of the issuer's own DID, and the     *)
(* signature of create_credential (src/dzta-issuer/src/lib.rs) with the    *)
(* two signers of signer.rs.  The Vault signer asks for the key at every   *)
(* use, the local one draws a key when the process starts; so the key may  *)
(* change between the read of the public key, its registration, a          *)
(* signature and a verification.  Vault and its operators, and Fabric's    *)
(* orderer, are external.                                                  *)
(***************************************************************************)
EXTENDS Naturals, Sequences

CONSTANTS Registrars,   \* calls of register_signing_did and register_did
          Issuers,      \* calls of create_credential
          KeyTypes,     \* types of Vault Transit keys, "ed25519" among them
          MaxKeys,      \* bound: keys over time
          MaxRestarts   \* bound: restarts of the issuer

ASSUME KeyTypesAssumption == "ed25519" \in KeyTypes /\ "mixed" \notin KeyTypes
ASSUME KeysAssumption == MaxKeys \in Nat \ {0} /\ MaxRestarts \in Nat

VARIABLES backend,      \* "local" or "vault"
          keys,         \* types of all keys so far; the last one signs
          did,          \* ledger: the key in the issuer's DID document, 0 if
                        \* none or one that the signer never had
          sent,         \* registrations with the orderer: the keys they write
          register,     \* state of each registration
          create,       \* state of each call of create_credential
          issued,       \* proofs of the credentials returned so far
          restarts,
          confirmed     \* history: since the key last changed, a registration
                        \* that met no other key has returned Ok, and
                        \* register_did has not been given another key

vars == <<backend, keys, did, sent, register, create, issued, restarts, confirmed>>

latest == Len(keys)

\* clean: history, a call of register_signing_did that has met no registration
\* of another key since it read its own, which is still the latest.
NoRegister == [at |-> "idle", key |-> 0, clean |-> FALSE]
Registering == [at : {"read", "sent", "committed"}, key : 0..latest, clean : BOOLEAN]

\* A proof value is made by a key, and has the form of a signature of a type of
\* key; "mixed" is none of these.  asked: history, the type whose parameters
\* were sent; during: history, the latest key at the time.
Forms == KeyTypes \cup {"mixed"}
Proof == [key : 1..latest, form : Forms, asked : KeyTypes, during : 1..latest]

\* What create_credential has: nothing, the type of the key, the proof.
NoCreate == [at |-> "idle"]
Typed == [at : {"typed"}, type : KeyTypes]
Signed == [at : {"signed"}, proof : Proof]

TypeOK ==
    /\ backend \in {"local", "vault"}
    /\ keys \in Seq(KeyTypes) /\ latest \in 1..MaxKeys
    /\ did \in 0..latest
    /\ sent \subseteq Registrars \X (0..latest)
    /\ register \in [Registrars -> {NoRegister} \cup Registering]
    /\ create \in [Issuers -> {NoCreate} \cup Typed \cup Signed]
    /\ issued \subseteq Proof
    /\ restarts \in 0..MaxRestarts
    /\ confirmed \in BOOLEAN

Init ==
    /\ backend \in {"local", "vault"}
    /\ \E t \in KeyTypes : keys = <<t>> /\ (backend = "local" => t = "ed25519")
    /\ did = 0
    /\ sent = {}
    /\ register = [r \in Registrars |-> NoRegister]
    /\ create = [i \in Issuers |-> NoCreate]
    /\ issued = {}
    /\ restarts = 0
    /\ confirmed = FALSE
-----------------------------------------------------------------------------
\* Faulty variant of public_key: the version the key was created with.
public_keyFirst == 1

\* public_key_multibase: keys[latest_version].
public_key == latest

\* Only a key of 32 bytes has a multibase form; others are an Err.
HasPublicKey(k) == keys[k] = "ed25519"

\* No registration under way writes another key than the latest.
NoStaleRegistration ==
    /\ \A r \in Registrars : register[r].at = "read" => register[r].key = latest
    /\ \A tx \in sent : tx[2] = latest

\* register_signing_did: the signer answers with the public key.  The name of
\* a call is free again when nothing of it is with the orderer.
RegisterRead(r) ==
    /\ register[r].at = "idle"
    /\ \A tx \in sent : tx[1] # r
    /\ HasPublicKey(public_key)
    /\ register' = [register EXCEPT ![r] = [at |-> "read", key |-> public_key,
                                            clean |-> NoStaleRegistration]]
    /\ UNCHANGED <<backend, keys, did, sent, create, issued, restarts, confirmed>>

\* register_did for the issuer's own DID, with a public key that its caller has:
\* one of the signer's, the latest or not, or another (0).
RegisterGiven(r, key) ==
    /\ register[r].at = "idle"
    /\ \A tx \in sent : tx[1] # r
    /\ register' = [q \in Registrars |->
                        IF q = r THEN [at |-> "read", key |-> key, clean |-> FALSE]
                        ELSE [register[q] EXCEPT !.clean = @ /\ key = latest]]
    /\ confirmed' = (confirmed /\ key = latest)
    /\ UNCHANGED <<backend, keys, did, sent, create, issued, restarts>>

\* fabric.register_did up to submit: the transaction is with the orderer, and
\* the call polls or has failed; or it has failed with nothing sent.
RegisterSubmit(r) ==
    /\ register[r].at = "read"
    /\ \/ /\ sent' = sent \cup {<<r, register[r].key>>}
          /\ \/ register' = [register EXCEPT ![r].at = "sent"]
             \/ register' = [register EXCEPT ![r] = NoRegister]
       \/ /\ register' = [register EXCEPT ![r] = NoRegister]
          /\ UNCHANGED sent
    /\ UNCHANGED <<backend, keys, did, create, issued, restarts, confirmed>>

\* External: a registration is committed.  RegisterDID is a blind put of the
\* whole document under "#key-1", so the last one wins whatever key it has.
CommitRegistration(tx) ==
    /\ tx \in sent
    /\ sent' = sent \ {tx}
    /\ did' = tx[2]
    /\ register' = [register EXCEPT ![tx[1]].at = IF @ = "sent" THEN "committed" ELSE @]
    /\ UNCHANGED <<backend, keys, create, issued, restarts, confirmed>>

\* The commit status is VALID: Ok.
RegisterOk(r) ==
    /\ register[r].at = "committed"
    /\ register' = [register EXCEPT ![r] = NoRegister]
    /\ confirmed' = (confirmed \/ register[r].clean)
    /\ UNCHANGED <<backend, keys, did, sent, create, issued, restarts>>

\* The poll gives up: Err, whatever becomes of the transaction.
RegisterErr(r) ==
    /\ register[r].at \in {"sent", "committed"}
    /\ register' = [register EXCEPT ![r] = NoRegister]
    /\ UNCHANGED <<backend, keys, did, sent, create, issued, restarts, confirmed>>
-----------------------------------------------------------------------------
\* sign: get_key_type answers, and decides on the parameters of the next request.
CreateType(i) ==
    /\ create[i].at = "idle"
    /\ create' = [create EXCEPT ![i] = [at |-> "typed", type |-> keys[latest]]]
    /\ UNCHANGED <<backend, keys, did, sent, register, issued, restarts, confirmed>>

\* Faulty variant of signing_key: Vault is told to use version 1.
signing_keyPinned == 1

\* transit/sign signs with the latest version; the version in the answer,
\* "vault:vN:", is cut off.
signing_key == latest

\* External: Vault signs as the parameters say.  If the key has another type by
\* now, what they mean for it is Vault's to say (or it refuses: CreateFails).
SignatureForms(asked, type) == IF asked = type THEN {type} ELSE {type, "mixed"}

CreateSign(i, form) ==
    /\ create[i].at = "typed"
    /\ form \in SignatureForms(create[i].type, keys[signing_key])
    /\ create' = [create EXCEPT ![i] =
                      [at |-> "signed",
                       proof |-> [key |-> signing_key, form |-> form,
                                  asked |-> create[i].type, during |-> latest]]]
    /\ UNCHANGED <<backend, keys, did, sent, register, issued, restarts, confirmed>>

\* The credential is recorded and returned, with "#key-1" of the issuer as
\* its verification method.
CreateReturn(i) ==
    /\ create[i].at = "signed"
    /\ issued' = issued \cup {create[i].proof}
    /\ create' = [create EXCEPT ![i] = NoCreate]
    /\ UNCHANGED <<backend, keys, did, sent, register, restarts, confirmed>>

\* A request to Vault or to Fabric fails: Err.
CreateFails(i) ==
    /\ create[i].at # "idle"
    /\ create' = [create EXCEPT ![i] = NoCreate]
    /\ UNCHANGED <<backend, keys, did, sent, register, issued, restarts, confirmed>>
-----------------------------------------------------------------------------
\* Another key becomes the latest.
NewKey(type) ==
    /\ latest < MaxKeys
    /\ keys' = Append(keys, type)
    /\ confirmed' = FALSE

\* External: the Vault key is rotated (same type), or deleted and made again.
RotateVaultKey(type) ==
    /\ backend = "vault"
    /\ NewKey(type)
    /\ register' = [r \in Registrars |-> [register[r] EXCEPT !.clean = FALSE]]
    /\ UNCHANGED <<backend, did, sent, create, issued, restarts>>

\* The issuer stops and starts: its calls are gone, and a local signer
\* generates another key.
Restart ==
    /\ restarts < MaxRestarts
    /\ restarts' = restarts + 1
    /\ register' = [r \in Registrars |-> NoRegister]
    /\ create' = [i \in Issuers |-> NoCreate]
    /\ IF backend = "local" THEN NewKey("ed25519") ELSE UNCHANGED <<keys, confirmed>>
    /\ UNCHANGED <<backend, did, sent, issued>>
-----------------------------------------------------------------------------
Register(r) ==
    \/ RegisterRead(r)
    \/ \E key \in 0..latest : RegisterGiven(r, key)
    \/ RegisterSubmit(r) \/ RegisterOk(r) \/ RegisterErr(r)

Create(i) ==
    \/ CreateType(i)
    \/ \E form \in Forms : CreateSign(i, form)
    \/ CreateReturn(i) \/ CreateFails(i)

Next ==
    \/ \E r \in Registrars : Register(r)
    \/ \E tx \in sent : CommitRegistration(tx)
    \/ \E i \in Issuers : Create(i)
    \/ \E t \in KeyTypes : RotateVaultKey(t)
    \/ Restart

Spec == Init /\ [][Next]_vars
-----------------------------------------------------------------------------
\* LocalCredentialSigner::verify with the key of the resolved DID document: an
\* Ed25519 signature (64 bytes) by that key.
Verifies(proof) == proof.key = did /\ proof.form = "ed25519"

\* What Ok of register_signing_did is worth.  If no registration of another key
\* was under way when the call read the key, none was asked for since and the
\* key did not change until it returned, then the DID document has the latest
\* key, and keeps it until the key changes or register_did is given another: a
\* late, lost or repeated registration cannot bring an older key back.  Without
\* these conditions it can, as RegisterDID is a blind put.
ConfirmedKeyIsLatest == confirmed => did = latest

\* Which credentials then verify.  Only those signed since the key last changed:
\* every registration writes "#key-1", and the key of the earlier ones is gone
\* from the document.  And all of those for which sign found the type of the key
\* to be Ed25519, though it signs in a second request and never looks at the
\* version; one that found another type, in a Vault key that was made again
\* before it signed, may not verify.
ConfirmedProofsVerify ==
    confirmed => \A p \in issued :
        /\ Verifies(p) => p.during = latest
        /\ p.during = latest /\ p.asked = "ed25519" => Verifies(p)
=============================================================================
