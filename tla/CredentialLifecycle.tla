------------------------ MODULE CredentialLifecycle -------------------------
(***************************************************************************)
(* A credential from issuance to its last check: Issuer.create_credential  *)
(* and revoke_credential (src/dzta-issuer/src/lib.rs), the delivery to the *)
(* holder's wallet, and FabricClient.verify_credential_active, over the    *)
(* chaincode of DztaContract.  Issuers, administrators, holders, verifiers *)
(* and the clock run concurrently; a call is suspended at every request.   *)
(* Clients are not in mock mode, and all queries are answered by one peer, *)
(* the one at which the commits are waited for: a peer that lags behind    *)
(* answers an earlier state.                                               *)
(***************************************************************************)
EXTENDS Naturals, Sequences

CONSTANTS Creds,        \* UUIDs
          Issuers,      \* calls of create_credential
          Verifiers,    \* calls of verify_credential_active
          NoCred,
          Schemas,      \* attribute lists of the registered schemas
          Subjects,     \* credentialSubjects
          MaxI64,
          MaxTime       \* bound of the clock

ASSUME NoCredAssumption == NoCred \notin Creds
ASSUME TimeAssumption == MaxTime \in Nat

VARIABLES meta, events, \* ledger
          expires,      \* ledger: expires_at of a recorded credential
          now,          \* Utc::now()
          create,       \* issuer -> state of its call
          drawn,        \* UUIDs drawn so far
          pending,      \* records sent to the orderer and not committed yet
          issued,       \* credentials that create_credential has returned
          wallet,       \* credential -> "none", "held", "revoked" (its tag)
          revokeOk,     \* credentials whose revoke_credential has returned Ok
          verify        \* verifier -> state of its call

Ledger == INSTANCE DztaContract
Engine == INSTANCE SchemaEngine

ledgerVars == <<meta, events, expires>>
issuerVars == <<create, drawn, pending, issued>>
vars == <<ledgerVars, now, issuerVars, wallet, revokeOk, verify>>

NoCreate == [at |-> "idle", cred |-> NoCred, expires |-> 0]
NoVerify == [at |-> "idle", cred |-> NoCred, sawActive |-> FALSE, afterRevoke |-> FALSE]

\* expires_at is in the future when a call begins.
Expiry == 1..(MaxTime + 1)

TypeOK ==
    /\ Ledger!TypeOK
    /\ expires \in [Creds -> Expiry \cup {0}]
    /\ now \in 0..MaxTime
    /\ create \in [Issuers -> {NoCreate} \cup
                              [at : {"schema", "sign", "record", "sent"},
                               cred : drawn, expires : Expiry]]
    /\ drawn \subseteq Creds
    /\ pending \subseteq [cred : drawn, expires : Expiry]
    /\ issued \subseteq drawn
    /\ wallet \in [Creds -> {"none", "held", "revoked"}]
    /\ revokeOk \subseteq Creds
    /\ verify \in [Verifiers -> {NoVerify} \cup
                                [at : {"revocation", "expiry", "active", "denied"},
                                 cred : Creds, sawActive : BOOLEAN, afterRevoke : BOOLEAN]]

Init ==
    /\ Ledger!Init
    /\ expires = [c \in Creds |-> 0]
    /\ now = 0
    /\ create = [i \in Issuers |-> NoCreate]
    /\ drawn = {}
    /\ pending = {}
    /\ issued = {}
    /\ wallet = [c \in Creds |-> "none"]
    /\ revokeOk = {}
    /\ verify = [v \in Verifiers |-> NoVerify]
-----------------------------------------------------------------------------
\* A call of create_credential goes from one await to the next, or returns.
Step(i, from, to) ==
    /\ create[i].at = from
    /\ create' = [create EXCEPT ![i] = IF to = "idle" THEN NoCreate
                                                      ELSE [@ EXCEPT !.at = to]]

\* Faulty variant of CreateBegin: an id may be drawn twice.
CreateBeginReused(i, c, e) ==
    /\ create[i].at = "idle"
    /\ e > now
    /\ drawn' = drawn \cup {c}
    /\ create' = [create EXCEPT ![i] = [at |-> "schema", cred |-> c, expires |-> e]]
    /\ UNCHANGED <<ledgerVars, now, pending, issued, wallet, revokeOk, verify>>

\* create_credential: the expiration must be later than now; a UUID is drawn.
CreateBegin(i, c, e) ==
    /\ create[i].at = "idle"
    /\ e > now
    /\ c \notin drawn
    /\ drawn' = drawn \cup {c}
    /\ create' = [create EXCEPT ![i] = [at |-> "schema", cred |-> c, expires |-> e]]
    /\ UNCHANGED <<ledgerVars, now, pending, issued, wallet, revokeOk, verify>>

\* get_schema answers and the subject is validated; either may fail.
CreateValidate(i, attributes, subject) ==
    /\ \/ Engine!validate_fields(attributes, subject) = "ok" /\ Step(i, "schema", "sign")
       \/ Step(i, "schema", "idle")
    /\ UNCHANGED <<ledgerVars, now, drawn, pending, issued, wallet, revokeOk, verify>>

\* The signer (local key or Vault) answers or fails.
CreateSign(i) ==
    /\ Step(i, "sign", "record") \/ Step(i, "sign", "idle")
    /\ UNCHANGED <<ledgerVars, now, drawn, pending, issued, wallet, revokeOk, verify>>

\* record_credential_metadata up to submit: sent, or failed with or without
\* the transaction being on its way.
CreateRecord(i) ==
    LET tx == [cred |-> create[i].cred, expires |-> create[i].expires]
    IN  /\ \/ Step(i, "record", "sent") /\ pending' = pending \cup {tx}
           \/ Step(i, "record", "idle") /\ pending' \in {pending, pending \cup {tx}}
        /\ UNCHANGED <<ledgerVars, now, drawn, issued, wallet, revokeOk, verify>>

\* Faulty variant of CommitRecord: the transaction stays with the orderer
\* and is committed again.
CommitRecordAgain(tx) ==
    /\ tx \in pending
    /\ Ledger!RecordCredentialMetadata(tx.cred)
    /\ expires' = [expires EXCEPT ![tx.cred] = tx.expires]
    /\ UNCHANGED <<now, issuerVars, wallet, revokeOk, verify>>

\* A record is committed, whether or not its caller still waits.
CommitRecord(tx) ==
    /\ tx \in pending
    /\ pending' = pending \ {tx}
    /\ Ledger!RecordCredentialMetadata(tx.cred)
    /\ expires' = [expires EXCEPT ![tx.cred] = tx.expires]
    /\ UNCHANGED <<now, create, drawn, issued, wallet, revokeOk, verify>>

\* Faulty variant of CreateReturn: submission alone counts as success.
CreateReturnEarly(i) ==
    /\ Step(i, "sent", "idle")
    /\ issued' \in {issued, issued \cup {create[i].cred}}
    /\ UNCHANGED <<ledgerVars, now, drawn, pending, wallet, revokeOk, verify>>

\* The commit status arrives: Ok with the credential.  Or Err, at any time.
CreateReturn(i) ==
    /\ Step(i, "sent", "idle")
    /\ \/ meta[create[i].cred] # "absent" /\ issued' = issued \cup {create[i].cred}
       \/ UNCHANGED issued
    /\ UNCHANGED <<ledgerVars, now, drawn, pending, wallet, revokeOk, verify>>

\* wallet.store_credential of what create_credential returned.
Deliver(c) ==
    /\ c \in issued
    /\ wallet[c] = "none"
    /\ wallet' = [wallet EXCEPT ![c] = "held"]
    /\ UNCHANGED <<ledgerVars, now, issuerVars, revokeOk, verify>>

\* wallet.mark_credential_revoked, which an application may call.
MarkRevoked(c) ==
    /\ wallet[c] # "none"
    /\ wallet' = [wallet EXCEPT ![c] = "revoked"]
    /\ UNCHANGED <<ledgerVars, now, issuerVars, revokeOk, verify>>

\* Issuer.revoke_credential of any id, also of one whose create_credential has
\* failed or still runs: the transaction commits if the id is on the ledger (a
\* second one would only add an event) ...
Revoke(c) ==
    /\ ~Ledger!IsRevoked(c)
    /\ Ledger!RevokeCredential(c)
    /\ UNCHANGED <<expires, now, issuerVars, wallet, revokeOk, verify>>

\* ... and later the call returns Ok.
RevokeReturn(c) ==
    /\ Ledger!IsRevoked(c)
    /\ c \notin revokeOk
    /\ revokeOk' = revokeOk \cup {c}
    /\ UNCHANGED <<ledgerVars, now, issuerVars, wallet, verify>>

Tick ==
    /\ now < MaxTime
    /\ now' = now + 1
    /\ UNCHANGED <<ledgerVars, issuerVars, wallet, revokeOk, verify>>
-----------------------------------------------------------------------------
Expired(c) == now > expires[c]
Active(c) == meta[c] = "active" /\ ~Expired(c)

VerifyBegin(v, c) ==
    /\ verify[v].at \in {"idle", "active", "denied"}
    /\ verify' = [verify EXCEPT ![v] = [at |-> "revocation", cred |-> c, sawActive |-> FALSE,
                                        afterRevoke |-> c \in revokeOk]]
    /\ UNCHANGED <<ledgerVars, now, issuerVars, wallet, revokeOk>>

\* Faulty variant of RevokedAnswer: the flag in the answer is not looked at.
RevokedAnswerIgnored(c) == meta[c] = "absent"

\* IsCredentialRevoked is true, or an error as there is no such credential.
RevokedAnswer(c) == meta[c] \in {"revoked", "absent"}

\* is_credential_revoked, the first query.
VerifyRevocation(v) ==
    /\ verify[v].at = "revocation"
    /\ LET c == verify[v].cred
       IN  verify' = [verify EXCEPT ![v].at = IF RevokedAnswer(c) THEN "denied" ELSE "expiry",
                                    ![v].sawActive = Active(c)]
    /\ UNCHANGED <<ledgerVars, now, issuerVars, wallet, revokeOk>>

\* Faulty variant of VerifyExpiry: the dates are compared the wrong way round.
VerifyExpirySwapped(v) ==
    /\ verify[v].at = "expiry"
    /\ verify' = [verify EXCEPT ![v].at = IF now < expires[verify[v].cred]
                                          THEN "denied" ELSE "active"]
    /\ UNCHANGED <<ledgerVars, now, issuerVars, wallet, revokeOk>>

\* get_credential_metadata, the second query: only expires_at is looked at.
VerifyExpiry(v) ==
    /\ verify[v].at = "expiry"
    /\ verify' = [verify EXCEPT ![v].at = IF Expired(verify[v].cred) THEN "denied" ELSE "active"]
    /\ UNCHANGED <<ledgerVars, now, issuerVars, wallet, revokeOk>>

\* A query fails: Err.
VerifyFails(v) ==
    /\ verify[v].at \in {"revocation", "expiry"}
    /\ verify' = [verify EXCEPT ![v].at = "denied"]
    /\ UNCHANGED <<ledgerVars, now, issuerVars, wallet, revokeOk>>
-----------------------------------------------------------------------------
Create(i) ==
    \/ \E c \in Creds, e \in Expiry : CreateBegin(i, c, e)
    \/ \E attributes \in Schemas, subject \in Subjects : CreateValidate(i, attributes, subject)
    \/ CreateSign(i)
    \/ CreateRecord(i)
    \/ CreateReturn(i)

Verify(v) ==
    \/ \E c \in Creds : VerifyBegin(v, c)
    \/ VerifyRevocation(v)
    \/ VerifyExpiry(v)
    \/ VerifyFails(v)

Next ==
    \/ \E i \in Issuers : Create(i)
    \/ \E tx \in pending : CommitRecord(tx)
    \/ \E c \in Creds : Deliver(c) \/ MarkRevoked(c)
                        \/ Revoke(c) \/ RevokeReturn(c)
    \/ Tick
    \/ \E v \in Verifiers : Verify(v)

Spec == Init /\ [][Next]_vars
-----------------------------------------------------------------------------
\* A holder has only credentials that the ledger knows, whatever became of
\* the calls that failed: their records may be on the ledger, unheld.
HeldIsRecorded == \A c \in Creds : wallet[c] # "none" => meta[c] # "absent"

\* Ok(true) is right for one instant of the call, though the revocation and
\* the expiry are asked for separately: at the first query the credential was
\* recorded, not revoked and not expired.
VerdictHeldOnce ==
    \A v \in Verifiers : verify[v].at = "active" => verify[v].sawActive

\* A call that starts after revoke_credential has returned Ok never gets
\* Ok(true).
RevocationIsSeen ==
    \A v \in Verifiers : verify[v].afterRevoke => verify[v].at # "active"

\* Once denied for good, never active again: no later call finds a revoked or
\* expired credential active.
InactiveForEver ==
    [][\A c \in Creds : (meta[c] # "absent" /\ ~Active(c)) => ~Active(c)']_vars

\* What the issuers, the orderer and the administrators do to the ledger, with
\* records that are committed after their caller has given up, is what the
\* atomic contract allows: RecordCredentialMetadata never finds its key, and
\* RevokeCredential always does.
LedgerSpec == Ledger!Spec
=============================================================================
