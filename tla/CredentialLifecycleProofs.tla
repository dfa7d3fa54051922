--------------------- MODULE CredentialLifecycleProofs ----------------------
(***************************************************************************)
(* The properties of CredentialLifecycle, for any number of credentials,   *)
(* calls, schemas and subjects, and for a clock of any length.             *)
(***************************************************************************)
EXTENDS CredentialLifecycle, TLAPS

\* Every call works on an id of its own: UUIDs are drawn once.
OneIdPerCall ==
    \A i, j \in Issuers :
        (i # j /\ create[i].at # "idle" /\ create[j].at # "idle")
            => create[i].cred # create[j].cred

\* Until a call has sent its record, nobody else has, and an id that nobody
\* has drawn is not on the ledger.
UnsentIsAbsent ==
    /\ \A i \in Issuers : create[i].at \in {"schema", "sign", "record"} =>
          /\ meta[create[i].cred] = "absent"
          /\ \A tx \in pending : tx.cred # create[i].cred
    /\ \A c \in Creds : c \notin drawn => meta[c] = "absent"

\* A record with the orderer is the first and only one of its id: the blind
\* put of the chaincode never hits a key that is there.
PendingOnce ==
    /\ \A tx \in pending : meta[tx.cred] = "absent"
    /\ \A t, u \in pending : t.cred = u.cred => t = u

\* What has been returned, is held or was revoked is on the ledger as such.
LedgerKnows ==
    /\ \A c \in issued : meta[c] # "absent"
    /\ \A c \in Creds : wallet[c] # "none" => meta[c] # "absent"
    /\ \A c \in revokeOk : meta[c] = "revoked"

\* Between its two queries a verifier knows of a recorded credential, and if
\* that was not active at the first one, it has expired.
BetweenQueries ==
    \A v \in Verifiers : verify[v].at = "expiry" =>
        /\ meta[verify[v].cred] # "absent"
        /\ verify[v].sawActive \/ Expired(verify[v].cred)

\* A call that began after the revocation never gets past the first query.
SeenAtOnce ==
    \A v \in Verifiers : verify[v].afterRevoke =>
        verify[v].cred \in revokeOk /\ verify[v].at \notin {"expiry", "active"}

IInv ==
    /\ TypeOK
    /\ OneIdPerCall /\ UnsentIsAbsent /\ PendingOnce /\ LedgerKnows
    /\ BetweenQueries /\ SeenAtOnce /\ VerdictHeldOnce
-----------------------------------------------------------------------------
\* A call of create_credential that has begun.
Busy == [at : {"schema", "sign", "record", "sent"}, cred : drawn, expires : Expiry]

\* The ledger is empty, and no call has begun.
LEMMA InitIInv == Init => IInv
<1> SUFFICES ASSUME Init PROVE IInv
  OBVIOUS
<1>1. /\ \A i \in Issuers : create[i].at = "idle"
      /\ \A v \in Verifiers : verify[v].at = "idle" /\ verify[v].afterRevoke = FALSE
  BY DEF Init, NoCreate, NoVerify
<1>2. TypeOK
  <2>1. 0 \in 0..MaxTime /\ 0 \in Expiry \cup {0}
    BY TimeAssumption
  <2>2. Ledger!TypeOK
    BY DEF Init, Ledger!Init, Ledger!TypeOK, Ledger!Status
  <2> QED
    BY <2>1, <2>2 DEF Init, TypeOK
<1>3. OneIdPerCall /\ UnsentIsAbsent /\ PendingOnce /\ LedgerKnows
  BY <1>1 DEF Init, Ledger!Init, OneIdPerCall, UnsentIsAbsent, PendingOnce, LedgerKnows
<1>4. BetweenQueries /\ SeenAtOnce /\ VerdictHeldOnce
  BY <1>1 DEF BetweenQueries, SeenAtOnce, VerdictHeldOnce
<1> QED
  BY <1>2, <1>3, <1>4 DEF IInv

\* What a move of create_credential from one request to the next changes.
LEMMA StepEffect ==
    ASSUME TypeOK, NEW i \in Issuers, NEW from, NEW to \in {"sign", "record", "sent", "idle"},
           from # "idle", Step(i, from, to)
    PROVE  /\ create[i] \in Busy /\ create[i].at = from
           /\ create' \in [Issuers -> {NoCreate} \cup Busy]
           /\ \A j \in Issuers : j # i => create'[j] = create[j]
           /\ create'[i].at = to
           /\ to # "idle" => create'[i].cred = create[i].cred
<1>1. create \in [Issuers -> {NoCreate} \cup Busy]
  BY DEF TypeOK, Busy
<1>2. create[i] \in Busy /\ create[i].at = from
  BY <1>1 DEF Step, NoCreate
<1>3. create' = [create EXCEPT ![i] = IF to = "idle" THEN NoCreate
                                      ELSE [create[i] EXCEPT !.at = to]]
  BY DEF Step
<1>4. CASE to = "idle"
  BY <1>1, <1>2, <1>3, <1>4 DEF NoCreate
<1>5. CASE to # "idle"
  <2>1. [create[i] EXCEPT !.at = to] \in Busy
    BY <1>2, <1>5 DEF Busy
  <2> QED
    BY <1>1, <1>2, <1>3, <1>5, <2>1 DEF Busy
<1> QED
  BY <1>4, <1>5

\* A step that leaves the ledger, the clock and the verifiers alone.
LEMMA VerifiersKept ==
    ASSUME IInv, UNCHANGED <<meta, expires, now, revokeOk, verify>>
    PROVE  BetweenQueries' /\ SeenAtOnce' /\ VerdictHeldOnce'
BY DEF IInv, BetweenQueries, SeenAtOnce, VerdictHeldOnce, Expired

-----------------------------------------------------------------------------
\* create_credential draws an id that is new to every call and to the ledger.
LEMMA CreateBeginPreserves ==
    ASSUME IInv, NEW i \in Issuers, NEW c \in Creds, NEW e \in Expiry, CreateBegin(i, c, e)
    PROVE  IInv'
<1> USE DEF IInv
<1>1. /\ drawn' = drawn \cup {c} /\ c \notin drawn
      /\ UNCHANGED <<meta, events, expires, now, pending, issued, wallet, revokeOk, verify>>
  BY DEF CreateBegin, ledgerVars
<1> DEFINE new == [at |-> "schema", cred |-> c, expires |-> e]
<1>2. /\ create' \in [Issuers -> {NoCreate} \cup Busy']
      /\ create'[i] = new
      /\ \A j \in Issuers : j # i => create'[j] = create[j]
  <2>1. new \in Busy' /\ Busy \subseteq Busy'
    BY <1>1 DEF Busy
  <2>2. create \in [Issuers -> {NoCreate} \cup Busy]
    BY DEF TypeOK, Busy
  <2>3. create' = [create EXCEPT ![i] = new]
    BY DEF CreateBegin
  <2> QED
    BY <2>1, <2>2, <2>3
<1>3. \A j \in Issuers : create[j].at # "idle" => create[j].cred # c
  BY <1>1 DEF TypeOK, NoCreate
<1>4. TypeOK'
  <2>1. pending' \subseteq [cred : drawn', expires : Expiry]
    BY <1>1 DEF TypeOK
  <2>2. Ledger!TypeOK'
    BY <1>1 DEF TypeOK, Ledger!TypeOK
  <2> QED
    BY <1>1, <1>2, <2>1, <2>2 DEF TypeOK, Busy
<1>5. OneIdPerCall'
  BY <1>2, <1>3 DEF OneIdPerCall
<1>6. UnsentIsAbsent'
  <2>1. meta[c] = "absent" /\ \A tx \in pending : tx.cred # c
    BY <1>1 DEF UnsentIsAbsent, TypeOK
  <2> QED
    BY <1>1, <1>2, <2>1 DEF UnsentIsAbsent
<1>7. PendingOnce' /\ LedgerKnows'
  BY <1>1 DEF PendingOnce, LedgerKnows
<1> QED
  BY <1>1, <1>4, <1>5, <1>6, <1>7, VerifiersKept

\* Validation and signature only move the call on, or end it.
LEMMA CreatePreparePreserves ==
    ASSUME IInv, NEW i \in Issuers, NEW from \in {"schema", "sign"},
           NEW to \in {"sign", "record", "idle"}, Step(i, from, to),
           UNCHANGED <<ledgerVars, now, drawn, pending, issued, wallet, revokeOk, verify>>
    PROVE  IInv'
<1> USE DEF IInv
<1>1. UNCHANGED <<meta, events, expires, now, drawn, pending, issued, wallet, revokeOk, verify>>
  BY DEF ledgerVars
<1>2. /\ create[i].at = from
      /\ create' \in [Issuers -> {NoCreate} \cup Busy]
      /\ \A j \in Issuers : j # i => create'[j] = create[j]
      /\ create'[i].at = to
      /\ to # "idle" => create'[i].cred = create[i].cred
  BY StepEffect
<1>3. TypeOK'
  BY <1>1, <1>2 DEF TypeOK, Ledger!TypeOK, Busy
<1>4. OneIdPerCall'
  BY <1>2 DEF OneIdPerCall
<1>5. UnsentIsAbsent'
  BY <1>1, <1>2 DEF UnsentIsAbsent
<1>6. PendingOnce' /\ LedgerKnows'
  BY <1>1 DEF PendingOnce, LedgerKnows
<1> QED
  BY <1>1, <1>3, <1>4, <1>5, <1>6, VerifiersKept

\* The record that is sent is the first one of its id, also if the call ends
\* with an error while it is on its way.
LEMMA CreateRecordPreserves ==
    ASSUME IInv, NEW i \in Issuers, CreateRecord(i)
    PROVE  IInv'
<1> USE DEF IInv
<1> DEFINE tx == [cred |-> create[i].cred, expires |-> create[i].expires]
<1>1. UNCHANGED <<meta, events, expires, now, drawn, issued, wallet, revokeOk, verify>>
  BY DEF CreateRecord, ledgerVars
<1>2. /\ create[i] \in Busy /\ create[i].at = "record"
      /\ create' \in [Issuers -> {NoCreate} \cup Busy]
      /\ \A j \in Issuers : j # i => create'[j] = create[j]
      /\ create'[i].at \in {"sent", "idle"}
      /\ create'[i].at # "idle" => create'[i].cred = create[i].cred
  <2>1. Step(i, "record", "sent") \/ Step(i, "record", "idle")
    BY DEF CreateRecord
  <2>2. CASE Step(i, "record", "sent")
    BY <2>2, StepEffect
  <2>3. CASE Step(i, "record", "idle")
    BY <2>3, StepEffect
  <2> QED
    BY <2>1, <2>2, <2>3
<1>3. pending' \in {pending, pending \cup {tx}}
  BY DEF CreateRecord
<1>4. /\ tx \in [cred : drawn, expires : Expiry] /\ meta[tx.cred] = "absent"
      /\ \A u \in pending : u.cred # tx.cred
  BY <1>2 DEF Busy, UnsentIsAbsent
<1>5. TypeOK'
  <2>1. pending' \subseteq [cred : drawn, expires : Expiry]
    BY <1>3, <1>4 DEF TypeOK
  <2> QED
    BY <1>1, <1>2, <2>1 DEF TypeOK, Ledger!TypeOK, Busy
<1>6. OneIdPerCall'
  BY <1>2 DEF OneIdPerCall
<1>7. UnsentIsAbsent'
  BY <1>1, <1>2, <1>3 DEF UnsentIsAbsent, OneIdPerCall
<1>8. PendingOnce'
  BY <1>1, <1>3, <1>4 DEF PendingOnce
<1>9. LedgerKnows'
  BY <1>1 DEF LedgerKnows
<1> QED
  BY <1>1, <1>5, <1>6, <1>7, <1>8, <1>9, VerifiersKept

\* Ok is returned for a record that is on the ledger.
LEMMA CreateReturnPreserves ==
    ASSUME IInv, NEW i \in Issuers, CreateReturn(i)
    PROVE  IInv'
<1> USE DEF IInv
<1>1. UNCHANGED <<meta, events, expires, now, drawn, pending, wallet, revokeOk, verify>>
  BY DEF CreateReturn, ledgerVars
<1>2. /\ create[i] \in Busy
      /\ create' \in [Issuers -> {NoCreate} \cup Busy]
      /\ \A j \in Issuers : j # i => create'[j] = create[j]
      /\ create'[i].at = "idle"
  BY StepEffect DEF CreateReturn
<1>3. \/ issued' = issued
      \/ meta[create[i].cred] # "absent" /\ issued' = issued \cup {create[i].cred}
  BY DEF CreateReturn
<1>4. TypeOK'
  <2>1. issued' \subseteq drawn
    BY <1>2, <1>3 DEF TypeOK, Busy
  <2> QED
    BY <1>1, <1>2, <2>1 DEF TypeOK, Ledger!TypeOK, Busy
<1>5. OneIdPerCall'
  BY <1>2 DEF OneIdPerCall
<1>6. UnsentIsAbsent' /\ PendingOnce'
  BY <1>1, <1>2 DEF UnsentIsAbsent, PendingOnce
<1>7. LedgerKnows'
  BY <1>1, <1>3 DEF LedgerKnows
<1> QED
  BY <1>1, <1>4, <1>5, <1>6, <1>7, VerifiersKept
-----------------------------------------------------------------------------
\* A commit makes an absent key active, and touches no other.
LEMMA CommitEffect ==
    ASSUME IInv, NEW tx \in pending, CommitRecord(tx)
    PROVE  /\ tx.cred \in drawn /\ tx.cred \in Creds /\ tx.expires \in Expiry
           /\ meta[tx.cred] = "absent"
           /\ meta' \in [Creds -> Ledger!Status] /\ expires' \in [Creds -> Expiry \cup {0}]
           /\ meta'[tx.cred] = "active"
           /\ \A c \in Creds : c # tx.cred => meta'[c] = meta[c] /\ expires'[c] = expires[c]
<1>1. tx.cred \in drawn /\ tx.cred \in Creds /\ tx.expires \in Expiry
  BY DEF IInv, TypeOK
<1>2. meta[tx.cred] = "absent"
  BY DEF IInv, PendingOnce
<1>3. /\ meta \in [Creds -> Ledger!Status] /\ expires \in [Creds -> Expiry \cup {0}]
      /\ meta' = [meta EXCEPT ![tx.cred] = "active"]
      /\ expires' = [expires EXCEPT ![tx.cred] = tx.expires]
  BY DEF IInv, TypeOK, Ledger!TypeOK, CommitRecord, Ledger!RecordCredentialMetadata
<1> QED
  BY <1>1, <1>2, <1>3 DEF Ledger!Status

\* The orderer commits a record: its id was absent and is pending no longer.
LEMMA CommitPreserves ==
    ASSUME IInv, NEW tx \in pending, CommitRecord(tx)
    PROVE  IInv'
<1> USE DEF IInv
<1>1. /\ pending' = pending \ {tx}
      /\ UNCHANGED <<events, now, create, drawn, issued, wallet, revokeOk, verify>>
  BY DEF CommitRecord, Ledger!RecordCredentialMetadata
<1>2. /\ tx.cred \in drawn /\ tx.cred \in Creds /\ tx.expires \in Expiry
      /\ meta[tx.cred] = "absent"
      /\ meta' \in [Creds -> Ledger!Status] /\ expires' \in [Creds -> Expiry \cup {0}]
      /\ meta'[tx.cred] = "active"
      /\ \A c \in Creds : c # tx.cred => meta'[c] = meta[c] /\ expires'[c] = expires[c]
  BY CommitEffect
<1>3. TypeOK'
  BY <1>1, <1>2 DEF TypeOK, Ledger!TypeOK
<1>4. OneIdPerCall'
  BY <1>1 DEF OneIdPerCall
<1>5. UnsentIsAbsent'
  <2>1. \A i \in Issuers : create[i].at \in {"schema", "sign", "record"} =>
           create[i].cred \in Creds /\ create[i].cred # tx.cred
    BY DEF UnsentIsAbsent, TypeOK, NoCreate
  <2> QED
    BY <1>1, <1>2, <2>1 DEF UnsentIsAbsent
<1>6. PendingOnce'
  <2>1. \A u \in pending' : u.cred \in Creds /\ u.cred # tx.cred
    BY <1>1 DEF PendingOnce, TypeOK
  <2> QED
    BY <1>1, <1>2, <2>1 DEF PendingOnce
<1>7. LedgerKnows'
  BY <1>1, <1>2 DEF LedgerKnows, TypeOK
<1>8. BetweenQueries'
  <2>1. \A v \in Verifiers : verify[v].at = "expiry" =>
           verify[v].cred \in Creds /\ verify[v].cred # tx.cred
    BY <1>2 DEF BetweenQueries, TypeOK, NoVerify
  <2> QED
    BY <1>1, <1>2, <2>1 DEF BetweenQueries, Expired
<1>9. SeenAtOnce' /\ VerdictHeldOnce'
  BY <1>1 DEF SeenAtOnce, VerdictHeldOnce
<1> QED
  BY <1>3, <1>4, <1>5, <1>6, <1>7, <1>8, <1>9

\* The holder gets what create_credential returned; a tag changes nothing else.
LEMMA WalletPreserves ==
    ASSUME IInv, NEW c \in Creds, Deliver(c) \/ MarkRevoked(c)
    PROVE  IInv'
<1> USE DEF IInv
<1>1. UNCHANGED <<meta, events, expires, now, create, drawn, pending, issued, revokeOk, verify>>
  BY DEF Deliver, MarkRevoked, ledgerVars, issuerVars
<1>2. /\ wallet' \in [Creds -> {"none", "held", "revoked"}]
      /\ \A d \in Creds : d # c => wallet'[d] = wallet[d]
  BY DEF Deliver, MarkRevoked, TypeOK
<1>3. meta[c] # "absent"
  BY DEF Deliver, MarkRevoked, LedgerKnows
<1>4. TypeOK'
  BY <1>1, <1>2 DEF TypeOK, Ledger!TypeOK
<1>5. OneIdPerCall' /\ UnsentIsAbsent' /\ PendingOnce'
  BY <1>1 DEF OneIdPerCall, UnsentIsAbsent, PendingOnce
<1>6. LedgerKnows'
  BY <1>1, <1>2, <1>3 DEF LedgerKnows
<1> QED
  BY <1>1, <1>4, <1>5, <1>6, VerifiersKept

\* A revocation finds its record on the ledger, so it disturbs no call that
\* still counts on an absent key.
LEMMA RevokePreserves ==
    ASSUME IInv, NEW c \in Creds, Revoke(c)
    PROVE  IInv'
<1> USE DEF IInv
<1>1. UNCHANGED <<expires, now, create, drawn, pending, issued, wallet, revokeOk, verify>>
  BY DEF Revoke, issuerVars
<1>2. /\ meta[c] # "absent"
      /\ meta' \in [Creds -> Ledger!Status]
      /\ meta'[c] = "revoked"
      /\ \A d \in Creds : d # c => meta'[d] = meta[d]
      /\ events' \in Seq(Creds)
  BY DEF Revoke, Ledger!RevokeCredential, TypeOK, Ledger!TypeOK, Ledger!Status
<1>3. TypeOK'
  BY <1>1, <1>2 DEF TypeOK, Ledger!TypeOK
<1>4. \A d \in Creds : /\ meta'[d] = "absent" <=> meta[d] = "absent"
                       /\ meta[d] = "revoked" => meta'[d] = "revoked"
  BY <1>2
<1>5. OneIdPerCall'
  BY <1>1 DEF OneIdPerCall
<1>6. UnsentIsAbsent' /\ PendingOnce'
  <2>1. \A i \in Issuers : create[i].at # "idle" => create[i].cred \in Creds
    BY DEF TypeOK, NoCreate
  <2>2. \A tx \in pending : tx.cred \in Creds
    BY DEF TypeOK
  <2> QED
    BY <1>1, <1>4, <2>1, <2>2 DEF UnsentIsAbsent, PendingOnce
<1>7. LedgerKnows'
  BY <1>1, <1>4 DEF LedgerKnows, TypeOK
<1>8. BetweenQueries'
  <2>1. \A v \in Verifiers : verify[v].at = "expiry" => verify[v].cred \in Creds
    BY DEF TypeOK, NoVerify
  <2> QED
    BY <1>1, <1>4, <2>1 DEF BetweenQueries, Expired
<1>9. SeenAtOnce' /\ VerdictHeldOnce'
  BY <1>1 DEF SeenAtOnce, VerdictHeldOnce
<1> QED
  BY <1>3, <1>5, <1>6, <1>7, <1>8, <1>9

\* Ok of revoke_credential is recorded for a credential that is revoked.
LEMMA RevokeReturnPreserves ==
    ASSUME IInv, NEW c \in Creds, RevokeReturn(c)
    PROVE  IInv'
<1> USE DEF IInv
<1>1. /\ UNCHANGED <<meta, events, expires, now, create, drawn, pending, issued, wallet, verify>>
      /\ revokeOk' = revokeOk \cup {c} /\ meta[c] = "revoked"
  BY DEF RevokeReturn, ledgerVars, issuerVars, Ledger!IsRevoked
<1>2. TypeOK'
  BY <1>1 DEF TypeOK, Ledger!TypeOK
<1>3. OneIdPerCall' /\ UnsentIsAbsent' /\ PendingOnce' /\ LedgerKnows'
  BY <1>1 DEF OneIdPerCall, UnsentIsAbsent, PendingOnce, LedgerKnows
<1>4. BetweenQueries' /\ SeenAtOnce' /\ VerdictHeldOnce'
  BY <1>1 DEF BetweenQueries, SeenAtOnce, VerdictHeldOnce, Expired
<1> QED
  BY <1>2, <1>3, <1>4

\* The clock only makes credentials expire.
LEMMA TickPreserves ==
    ASSUME IInv, Tick
    PROVE  IInv'
<1> USE DEF IInv
<1>1. UNCHANGED <<meta, events, expires, create, drawn, pending, issued, wallet, revokeOk, verify>>
  BY DEF Tick, ledgerVars, issuerVars
<1>2. now \in Nat /\ now' = now + 1 /\ now' \in 0..MaxTime
  BY TimeAssumption DEF Tick, TypeOK
<1>3. TypeOK'
  BY <1>1, <1>2 DEF TypeOK, Ledger!TypeOK
<1>4. OneIdPerCall' /\ UnsentIsAbsent' /\ PendingOnce' /\ LedgerKnows'
  BY <1>1 DEF OneIdPerCall, UnsentIsAbsent, PendingOnce, LedgerKnows
<1>5. BetweenQueries'
  <2>1. \A v \in Verifiers : verify[v].at = "expiry" => expires[verify[v].cred] \in Nat
    BY TimeAssumption DEF TypeOK, NoVerify, Expiry
  <2> QED
    BY <1>1, <1>2, <2>1 DEF BetweenQueries, Expired
<1>6. SeenAtOnce' /\ VerdictHeldOnce'
  BY <1>1 DEF SeenAtOnce, VerdictHeldOnce
<1> QED
  BY <1>3, <1>4, <1>5, <1>6
-----------------------------------------------------------------------------
\* What a verifier's step leaves alone.
LEMMA VerifyFrame ==
    ASSUME IInv, NEW v \in Verifiers, Verify(v)
    PROVE  /\ UNCHANGED <<meta, events, expires, now, create, drawn, pending, issued, wallet,
                          revokeOk>>
           /\ OneIdPerCall' /\ UnsentIsAbsent' /\ PendingOnce' /\ LedgerKnows'
<1>1. UNCHANGED <<meta, events, expires, now, create, drawn, pending, issued, wallet, revokeOk>>
  BY DEF Verify, VerifyBegin, VerifyRevocation, VerifyExpiry, VerifyFails, ledgerVars, issuerVars
<1> QED
  BY <1>1 DEF IInv, OneIdPerCall, UnsentIsAbsent, PendingOnce, LedgerKnows

\* A call of verify_credential_active that has begun.
Checking == [at : {"revocation", "expiry", "active", "denied"},
             cred : Creds, sawActive : BOOLEAN, afterRevoke : BOOLEAN]

\* The two queries, in the order of the code.  The first one sees a revocation
\* that was over before the call; what it saw of an active credential can only
\* have ended by time, which the second one sees.
LEMMA VerifyPreserves ==
    ASSUME IInv, NEW v \in Verifiers, Verify(v)
    PROVE  IInv'
<1> USE DEF IInv
<1>1. /\ UNCHANGED <<meta, events, expires, now, create, drawn, pending, issued, wallet, revokeOk>>
      /\ OneIdPerCall' /\ UnsentIsAbsent' /\ PendingOnce' /\ LedgerKnows'
  BY VerifyFrame
<1>2. verify \in [Verifiers -> {NoVerify} \cup Checking]
  BY DEF TypeOK, Checking
<1>3. SUFFICES /\ verify' \in [Verifiers -> {NoVerify} \cup Checking]
               /\ BetweenQueries' /\ SeenAtOnce' /\ VerdictHeldOnce'
  <2>1. verify' \in [Verifiers -> {NoVerify} \cup Checking] => TypeOK'
    BY <1>1 DEF TypeOK, Ledger!TypeOK, Checking
  <2> QED
    BY <1>1, <2>1
<1>4. ASSUME NEW c \in Creds, VerifyBegin(v, c)
      PROVE  /\ verify' \in [Verifiers -> {NoVerify} \cup Checking]
             /\ BetweenQueries' /\ SeenAtOnce' /\ VerdictHeldOnce'
  <2> DEFINE new == [at |-> "revocation", cred |-> c, sawActive |-> FALSE,
                     afterRevoke |-> c \in revokeOk]
  <2>0. new.afterRevoke => c \in revokeOk
    OBVIOUS
  <2>1. new \in Checking /\ new.at = "revocation" /\ new.cred = c
    BY DEF Checking
  <2>2. verify' = [verify EXCEPT ![v] = new]
    BY <1>4 DEF VerifyBegin
  <2> HIDE DEF new
  <2>3. /\ verify' \in [Verifiers -> {NoVerify} \cup Checking]
        /\ verify'[v] = new
        /\ \A u \in Verifiers : u # v => verify'[u] = verify[u]
    BY <1>2, <2>1, <2>2
  <2> QED
    BY <1>1, <2>0, <2>1, <2>3 DEF BetweenQueries, SeenAtOnce, VerdictHeldOnce, Expired
<1>5. CASE VerifyRevocation(v)
  <2> DEFINE c == verify[v].cred
             new == [verify[v] EXCEPT !.at = IF RevokedAnswer(c) THEN "denied" ELSE "expiry",
                                      !.sawActive = Active(c)]
  <2>1. verify[v] \in Checking /\ c \in Creds
    BY <1>2, <1>5 DEF VerifyRevocation, NoVerify, Checking
  <2>2. new \in Checking
    BY <2>1 DEF Checking, Active
  <2>3. /\ verify' \in [Verifiers -> {NoVerify} \cup Checking]
        /\ verify'[v] = new
        /\ \A u \in Verifiers : u # v => verify'[u] = verify[u]
    BY <1>2, <1>5, <2>2 DEF VerifyRevocation
  <2>4. /\ new.cred = c /\ new.sawActive = Active(c)
        /\ new.afterRevoke = verify[v].afterRevoke
        /\ new.at = IF RevokedAnswer(c) THEN "denied" ELSE "expiry"
    BY <2>1 DEF Checking
  <2> HIDE DEF new
  <2>5. ~RevokedAnswer(c) => meta[c] = "active"
    BY <2>1 DEF RevokedAnswer, TypeOK, Ledger!TypeOK, Ledger!Status
  <2>6. BetweenQueries'
    BY <1>1, <2>3, <2>4, <2>5 DEF BetweenQueries, Active, Expired
  <2>7. SeenAtOnce'
    <3>1. verify[v].afterRevoke => RevokedAnswer(c)
      BY DEF SeenAtOnce, LedgerKnows, RevokedAnswer
    <3> QED
      BY <1>1, <2>3, <2>4, <3>1 DEF SeenAtOnce
  <2>8. VerdictHeldOnce'
    BY <2>3, <2>4 DEF VerdictHeldOnce
  <2> QED
    BY <2>3, <2>6, <2>7, <2>8
<1>6. CASE VerifyExpiry(v)
  <2> DEFINE c == verify[v].cred
             new == [verify[v] EXCEPT !.at = IF Expired(c) THEN "denied" ELSE "active"]
  <2>1. verify[v] \in Checking /\ verify[v].at = "expiry"
    BY <1>2, <1>6 DEF VerifyExpiry, NoVerify
  <2>2. new \in Checking
    BY <2>1 DEF Checking
  <2>3. /\ verify' \in [Verifiers -> {NoVerify} \cup Checking]
        /\ verify'[v] = new
        /\ \A u \in Verifiers : u # v => verify'[u] = verify[u]
    BY <1>2, <1>6, <2>2 DEF VerifyExpiry
  <2>4. /\ new.cred = c /\ new.sawActive = verify[v].sawActive
        /\ new.afterRevoke = verify[v].afterRevoke
        /\ new.at = IF Expired(c) THEN "denied" ELSE "active"
    BY <2>1 DEF Checking
  <2> HIDE DEF new
  <2>5. ~Expired(c) => verify[v].sawActive
    BY <2>1 DEF BetweenQueries
  <2>6. ~verify[v].afterRevoke
    BY <2>1 DEF SeenAtOnce
  <2>7. BetweenQueries' /\ VerdictHeldOnce'
    BY <1>1, <2>3, <2>4, <2>5 DEF BetweenQueries, VerdictHeldOnce, Expired
  <2>8. SeenAtOnce'
    BY <1>1, <2>3, <2>4, <2>6 DEF SeenAtOnce
  <2> QED
    BY <2>3, <2>7, <2>8
<1>7. CASE VerifyFails(v)
  <2> DEFINE new == [verify[v] EXCEPT !.at = "denied"]
  <2>1. verify[v] \in Checking
    BY <1>2, <1>7 DEF VerifyFails, NoVerify
  <2>2. /\ new \in Checking /\ new.at = "denied" /\ new.cred = verify[v].cred
        /\ new.afterRevoke = verify[v].afterRevoke
    BY <2>1 DEF Checking
  <2>3. /\ verify' \in [Verifiers -> {NoVerify} \cup Checking]
        /\ verify'[v] = new
        /\ \A u \in Verifiers : u # v => verify'[u] = verify[u]
    BY <1>2, <1>7, <2>2 DEF VerifyFails
  <2> QED
    BY <1>1, <2>2, <2>3 DEF BetweenQueries, SeenAtOnce, VerdictHeldOnce, Expired
<1> QED
  BY <1>4, <1>5, <1>6, <1>7 DEF Verify

-----------------------------------------------------------------------------
\* Every step of create_credential keeps the invariant.
LEMMA CreatePreserves ==
    ASSUME IInv, NEW i \in Issuers, Create(i)
    PROVE  IInv'
<1>1. ASSUME NEW a \in Schemas, NEW s \in Subjects, CreateValidate(i, a, s)
      PROVE  IInv'
  <2>1. CASE Step(i, "schema", "sign")
    BY <1>1, <2>1, CreatePreparePreserves DEF CreateValidate
  <2>2. CASE Step(i, "schema", "idle")
    BY <1>1, <2>2, CreatePreparePreserves DEF CreateValidate
  <2> QED
    BY <1>1, <2>1, <2>2 DEF CreateValidate
<1>2. CASE CreateSign(i)
  <2>1. CASE Step(i, "sign", "record")
    BY <1>2, <2>1, CreatePreparePreserves DEF CreateSign
  <2>2. CASE Step(i, "sign", "idle")
    BY <1>2, <2>2, CreatePreparePreserves DEF CreateSign
  <2> QED
    BY <1>2, <2>1, <2>2 DEF CreateSign
<1> QED
  BY <1>1, <1>2, CreateBeginPreserves, CreateRecordPreserves, CreateReturnPreserves DEF Create

\* Every step of the system keeps the invariant.
LEMMA NextIInv == IInv /\ [Next]_vars => IInv'
<1> SUFFICES ASSUME IInv, [Next]_vars PROVE IInv'
  OBVIOUS
<1>1. ASSUME NEW i \in Issuers, Create(i) PROVE IInv'
  BY <1>1, CreatePreserves
<1>2. ASSUME NEW tx \in pending, CommitRecord(tx) PROVE IInv'
  BY <1>2, CommitPreserves
<1>3. ASSUME NEW c \in Creds, Deliver(c) \/ MarkRevoked(c) \/ Revoke(c) \/ RevokeReturn(c)
      PROVE  IInv'
  BY <1>3, WalletPreserves, RevokePreserves, RevokeReturnPreserves
<1>4. CASE Tick
  BY <1>4, TickPreserves
<1>5. ASSUME NEW v \in Verifiers, Verify(v) PROVE IInv'
  BY <1>5, VerifyPreserves
<1>6. CASE UNCHANGED vars
  <2>1. UNCHANGED <<meta, events, expires, now, create, drawn, pending, issued, wallet,
                    revokeOk, verify>>
    BY <1>6 DEF vars, ledgerVars, issuerVars
  <2>2. TypeOK'
    BY <2>1 DEF IInv, TypeOK, Ledger!TypeOK
  <2>3. OneIdPerCall' /\ UnsentIsAbsent' /\ PendingOnce' /\ LedgerKnows'
    BY <2>1 DEF IInv, OneIdPerCall, UnsentIsAbsent, PendingOnce, LedgerKnows
  <2> QED
    BY <2>1, <2>2, <2>3, VerifiersKept DEF IInv
<1> QED
  BY <1>1, <1>2, <1>3, <1>4, <1>5, <1>6 DEF Next

\* The invariant holds in every reachable state.
THEOREM Invariance == Spec => []IInv
BY InitIInv, NextIInv, PTL DEF Spec

\* The state of ledger, calls, wallet and verifiers keeps its types; no call
\* and no pending record has an id that was not drawn.
THEOREM TypeCorrect == Spec => []TypeOK
<1>1. IInv => TypeOK
  BY DEF IInv
<1> QED
  BY <1>1, Invariance, PTL

\* A holder has only credentials that are on the ledger, whatever became of
\* the calls of create_credential that failed.
THEOREM HolderKnown == Spec => []HeldIsRecorded
<1>1. IInv => HeldIsRecorded
  BY DEF IInv, LedgerKnows, HeldIsRecorded
<1> QED
  BY <1>1, Invariance, PTL

\* Ok(true) of verify_credential_active is right for the instant of its first
\* query, though revocation and expiry are asked for separately.
THEOREM VerdictSound == Spec => []VerdictHeldOnce
<1>1. IInv => VerdictHeldOnce
  BY DEF IInv
<1> QED
  BY <1>1, Invariance, PTL

\* A call that begins after revoke_credential has returned Ok is not told
\* Ok(true).
THEOREM RevocationSeen == Spec => []RevocationIsSeen
<1>1. IInv => RevocationIsSeen
  BY DEF IInv, SeenAtOnce, RevocationIsSeen
<1> QED
  BY <1>1, Invariance, PTL

\* A credential on the ledger that is revoked or expired never becomes active
\* again: no late record overwrites it, and the clock does not go back.
THEOREM InactivityLasts == Spec => InactiveForEver
<1>1. IInv /\ [Next]_vars =>
        [\A c \in Creds : (meta[c] # "absent" /\ ~Active(c)) => ~Active(c)']_vars
  <2> SUFFICES ASSUME IInv, Next, NEW c \in Creds, meta[c] # "absent", ~Active(c)
               PROVE  ~Active(c)'
    OBVIOUS
  <2>1. now \in Nat /\ expires[c] \in Nat
    BY TimeAssumption DEF IInv, TypeOK, Expiry
  <2>2. ASSUME UNCHANGED <<meta, expires, now>> PROVE ~Active(c)'
    BY <2>2 DEF Active, Expired
  <2>3. ASSUME NEW i \in Issuers, Create(i) PROVE ~Active(c)'
    <3>1. UNCHANGED <<meta, expires, now>>
      BY <2>3 DEF Create, CreateBegin, CreateValidate, CreateSign, CreateRecord, CreateReturn,
                  ledgerVars
    <3> QED
      BY <3>1, <2>2
  <2>4. ASSUME NEW tx \in pending, CommitRecord(tx) PROVE ~Active(c)'
    <3>1. meta'[c] = meta[c] /\ expires'[c] = expires[c] /\ now' = now
      BY <2>4, CommitEffect DEF CommitRecord
    <3> QED
      BY <3>1 DEF Active, Expired
  <2>5. ASSUME NEW d \in Creds, Deliver(d) \/ MarkRevoked(d) \/ RevokeReturn(d)
        PROVE  ~Active(c)'
    BY <2>2, <2>5 DEF Deliver, MarkRevoked, RevokeReturn, ledgerVars
  <2>6. ASSUME NEW d \in Creds, Revoke(d) PROVE ~Active(c)'
    <3>1. meta'[c] \in {meta[c], "revoked"} /\ expires' = expires /\ now' = now
      BY <2>6 DEF Revoke, Ledger!RevokeCredential, IInv, TypeOK, Ledger!TypeOK
    <3> QED
      BY <3>1 DEF Active, Expired
  <2>7. CASE Tick
    <3>1. meta' = meta /\ expires' = expires /\ now' = now + 1
      BY <2>7 DEF Tick, ledgerVars
    <3> QED
      BY <2>1, <3>1 DEF Active, Expired
  <2>8. ASSUME NEW v \in Verifiers, Verify(v) PROVE ~Active(c)'
    BY <2>2, <2>8, VerifyFrame
  <2> QED
    BY <2>3, <2>4, <2>5, <2>6, <2>7, <2>8 DEF Next
<1> QED
  BY <1>1, Invariance, PTL DEF Spec, InactiveForEver

\* What the issuers, the orderer and the administrators do to the ledger is
\* what DztaContract allows: a record is a new one, and a revocation finds it.
THEOREM Refinement == Spec => LedgerSpec
<1>1. Init => Ledger!Init
  BY DEF Init
<1>2. IInv /\ [Next]_vars => [Ledger!Next]_(Ledger!vars)
  <2> SUFFICES ASSUME IInv, [Next]_vars
               PROVE  Ledger!Next \/ UNCHANGED <<meta, events>>
    BY DEF Ledger!vars
  <2>1. ASSUME NEW i \in Issuers, Create(i) PROVE UNCHANGED <<meta, events>>
    BY <2>1 DEF Create, CreateBegin, CreateValidate, CreateSign, CreateRecord, CreateReturn,
                ledgerVars
  <2>2. ASSUME NEW tx \in pending, CommitRecord(tx) PROVE Ledger!Next
    <3>1. tx.cred \in Creds /\ meta[tx.cred] = "absent"
      BY <2>2, CommitEffect
    <3> QED
      BY <2>2, <3>1 DEF CommitRecord, Ledger!Next, Ledger!Issue
  <2>3. ASSUME NEW c \in Creds, Deliver(c) \/ MarkRevoked(c) \/ RevokeReturn(c)
        PROVE  UNCHANGED <<meta, events>>
    BY <2>3 DEF Deliver, MarkRevoked, RevokeReturn, ledgerVars
  <2>4. ASSUME NEW c \in Creds, Revoke(c) PROVE Ledger!Next
    BY <2>4 DEF Revoke, Ledger!Next
  <2>5. CASE Tick
    BY <2>5 DEF Tick, ledgerVars
  <2>6. ASSUME NEW v \in Verifiers, Verify(v) PROVE UNCHANGED <<meta, events>>
    BY <2>6, VerifyFrame
  <2>7. CASE UNCHANGED vars
    BY <2>7 DEF vars, ledgerVars
  <2> QED
    BY <2>1, <2>2, <2>3, <2>4, <2>5, <2>6, <2>7 DEF Next
<1> QED
  BY <1>1, <1>2, Invariance, PTL DEF Spec, LedgerSpec, Ledger!Spec
=============================================================================
