------------------------- MODULE FabricClientProofs -------------------------
(***************************************************************************)
(* Proofs about the fabric-client crate, for any value of the constants:   *)
(* the transactions of a FabricClient (FabricLedger), its set-up           *)
(* (FabricSetup), the schema engine (SchemaCheck), and the documents it    *)
(* reads from the ledger (IdentityRegistry).                               *)
(***************************************************************************)
EXTENDS FabricLedger, FabricSetup, SchemaCheck, IdentityRegistry, TLAPS,
        WellFoundedInduction

-----------------------------------------------------------------------------
(* The inductive invariant. *)

IsRecord(t) == tx[t].fn = "RecordCredentialMetadata"
IsRevoke(t) == tx[t].fn = "RevokeCredential"

\* No two calls record the same id.
RecordOnce ==
    \A t, u \in DOMAIN tx :
        (IsRecord(t) /\ IsRecord(u) /\ tx[t].cred = tx[u].cred) => t = u

\* What is on the ledger has been recorded by some call.
Provenance ==
    \A c \in Creds : meta[c] # "absent" =>
        \E t \in DOMAIN tx : IsRecord(t) /\ tx[t].cred = c

\* As long as a record is not committed, its key is absent.
RecordFirst ==
    \A t \in DOMAIN tx :
        (IsRecord(t) /\ tx[t].state # "valid") => meta[tx[t].cred] = "absent"

\* A revocation that passed its simulation found the key.
RevokeAfterRecord ==
    \A t \in DOMAIN tx :
        (IsRevoke(t) /\ tx[t].state # "dropped") => meta[tx[t].cred] # "absent"

\* If the key has changed since such a simulation, it was by a revocation.
StaleReadIsRevoked ==
    \A t \in DOMAIN tx :
        (IsRevoke(t) /\ tx[t].state # "dropped" /\ version[tx[t].cred] # tx[t].read)
            => meta[tx[t].cred] = "revoked"

\* Valid transactions have had their effect, and read what was then current.
ValidTookEffect ==
    \A t \in DOMAIN tx : tx[t].state = "valid" =>
        IF IsRevoke(t) THEN meta[tx[t].cred] = "revoked"
                       ELSE meta[tx[t].cred] # "absent"

\* Only a committed call is reported as Ok.
OkIsValid == \A t \in DOMAIN tx : tx[t].result = "ok" => tx[t].state = "valid"

IndInv ==
    /\ TypeOK
    /\ RecordOnce
    /\ Provenance
    /\ RecordFirst
    /\ RevokeAfterRecord
    /\ StaleReadIsRevoked
    /\ ValidTookEffect
    /\ OkIsValid
    /\ LostRaceIsRevoked
    /\ RevokedIffAnnounced
-----------------------------------------------------------------------------
\* A new call extends tx by one entry and leaves the others alone.
LEMMA NewCallEffect ==
    ASSUME NEW t, NEW r, t \notin DOMAIN tx, NewCall(t, r)
    PROVE  /\ DOMAIN tx' = DOMAIN tx \cup {t}
           /\ tx'[t] = r
           /\ \A u \in DOMAIN tx : tx'[u] = tx[u]
BY DEF NewCall

\* A step of a running call changes its state and its result only.
LEMMA AdvanceEffect ==
    ASSUME TypeOK, NEW t \in DOMAIN tx, NEW s \in TxState, NEW r \in CallResult,
           Advance(t, s, r)
    PROVE  /\ DOMAIN tx' = DOMAIN tx
           /\ tx'[t] \in Tx
           /\ tx'[t].fn = tx[t].fn
           /\ tx'[t].cred = tx[t].cred
           /\ tx'[t].read = tx[t].read
           /\ tx'[t].state = s
           /\ tx'[t].result = r
           /\ \A u \in DOMAIN tx : u # t => tx'[u] = tx[u]
<1>1. tx[t] \in Tx
  BY DEF TypeOK
<1> QED
  BY <1>1 DEF Tx, Advance

\* The invariant holds initially.
LEMMA InitIndInv == Init => IndInv
<1> SUFFICES ASSUME Init PROVE IndInv
  OBVIOUS
<1> USE DEF Init, Contract!Init
<1>1. TypeOK
  BY PollsAssumption DEF TypeOK, Contract!Status
<1>2. DOMAIN tx = {}
  OBVIOUS
<1>3. RevokedIffAnnounced
  <2>1. \A c \in Creds : ~Contract!IsRevoked(c)
    BY DEF Contract!IsRevoked
  <2>2. \A c \in Creds : ~Contract!Announced(c)
    <3>1. Len(events) = 0
      OBVIOUS
    <3>2. 1..Len(events) = {}
      BY <3>1
    <3> QED
      BY <3>2 DEF Contract!Announced
  <2> QED
    BY <2>1, <2>2 DEF RevokedIffAnnounced
<1> QED
  BY <1>1, <1>2, <1>3 DEF IndInv, RecordOnce, Provenance, RecordFirst, RevokeAfterRecord,
     StaleReadIsRevoked, ValidTookEffect, OkIsValid, LostRaceIsRevoked

\* Starting a call: a record draws an id that no record has, a revocation has
\* just read the key.
LEMMA StartPreserves ==
    ASSUME IndInv, NEW t \in Txs, NEW fn \in Fns, NEW c \in Creds,
           Endorse(t, fn, c) \/ EndorseFails(t, fn, c)
    PROVE  IndInv'
<1> USE DEF IndInv
<1>1. /\ t \notin DOMAIN tx
      /\ MayCall(fn, c)
      /\ UNCHANGED <<meta, version, events, polls>>
  BY DEF Endorse, EndorseFails, ledgerVars
<1>2. PICK r \in Tx :
        /\ NewCall(t, r)
        /\ r.fn = fn /\ r.cred = c /\ r.read = version[c]
        /\ \/ r.state = "endorsed" /\ r.result = "running" /\ Simulates(fn, c)
           \/ r.state = "dropped" /\ r.result = "err"
  <2>1. version[c] \in Nat
    BY DEF TypeOK
  <2> QED
    BY <2>1 DEF Endorse, EndorseFails, Tx, TxState, CallResult
<1>3. /\ DOMAIN tx' = DOMAIN tx \cup {t}
      /\ tx'[t] = r
      /\ \A u \in DOMAIN tx : tx'[u] = tx[u]
  BY <1>1, <1>2, NewCallEffect
<1>4. TypeOK'
  BY <1>1, <1>2, <1>3 DEF TypeOK
<1>5. RecordOnce'
  BY <1>1, <1>2, <1>3 DEF RecordOnce, IsRecord, MayCall, FreshId
<1>6. Provenance'
  BY <1>1, <1>2, <1>3 DEF Provenance, IsRecord
<1>7. RecordFirst'
  <2>1. ASSUME fn = "RecordCredentialMetadata" PROVE meta[c] = "absent"
    BY <1>1, <2>1 DEF MayCall, FreshId, Provenance, IsRecord
  <2> QED
    BY <1>1, <1>2, <1>3, <2>1 DEF RecordFirst, IsRecord
<1>8. RevokeAfterRecord' /\ StaleReadIsRevoked'
  BY <1>1, <1>2, <1>3 DEF RevokeAfterRecord, StaleReadIsRevoked, IsRevoke, Simulates
<1>9. ValidTookEffect' /\ OkIsValid' /\ LostRaceIsRevoked'
  BY <1>1, <1>2, <1>3 DEF ValidTookEffect, OkIsValid, LostRaceIsRevoked, IsRevoke
<1>10. RevokedIffAnnounced'
  BY <1>1 DEF RevokedIffAnnounced, Contract!IsRevoked, Contract!Announced
<1> QED
  BY <1>4, <1>5, <1>6, <1>7, <1>8, <1>9, <1>10

\* A step of the client leaves the ledger alone, and reports Ok only for a
\* transaction that is valid.
LEMMA ClientStepPreserves ==
    ASSUME IndInv, NEW t \in DOMAIN tx, ClientStep(t)
    PROVE  IndInv'
<1> USE DEF IndInv
<1>1. UNCHANGED <<meta, version, events>>
  BY DEF ledgerVars, ClientStep, Submit, SubmitFails, PollAsk, PollCommitted, PollRejected, PollFails, PollTimeout
<1>2. tx[t] \in Tx
  BY DEF TypeOK
<1>3. PICK s \in TxState, r \in CallResult :
        /\ Advance(t, s, r)
        /\ \/ tx[t].state = "endorsed" /\ s \in {"sent", "dropped"} /\ r # "ok"
           \/ s = tx[t].state /\ (r = "ok" => s = "valid")
  BY <1>2 DEF ClientStep, Submit, SubmitFails, PollAsk, PollCommitted, PollRejected,
     PollFails, PollTimeout, Tx, TxState, CallResult
<1>4. /\ DOMAIN tx' = DOMAIN tx
      /\ tx'[t] \in Tx
      /\ tx'[t].fn = tx[t].fn
      /\ tx'[t].cred = tx[t].cred
      /\ tx'[t].read = tx[t].read
      /\ tx'[t].state = s
      /\ tx'[t].result = r
      /\ \A u \in DOMAIN tx : u # t => tx'[u] = tx[u]
  BY <1>3, AdvanceEffect
<1>5. TypeOK'
  <2>1. polls' \in [Txs -> 0..MaxPolls]
    <3>1. CASE UNCHANGED polls
      BY <3>1 DEF TypeOK
    <3>2. CASE PollAsk(t)
      BY <3>2, PollsAssumption DEF PollAsk, TypeOK
    <3> QED
      BY <3>1, <3>2 DEF ClientStep, Submit, SubmitFails, PollCommitted, PollRejected,
         PollFails, PollTimeout
  <2> QED
    BY <1>1, <1>4, <2>1 DEF TypeOK
<1>6. RecordOnce'
  BY <1>4 DEF RecordOnce, IsRecord
<1>7. Provenance'
  BY <1>1, <1>4 DEF Provenance, IsRecord
<1>8. RecordFirst'
  BY <1>1, <1>3, <1>4 DEF RecordFirst, IsRecord
<1>9. RevokeAfterRecord' /\ StaleReadIsRevoked'
  BY <1>1, <1>3, <1>4 DEF RevokeAfterRecord, StaleReadIsRevoked, IsRevoke
<1>10. ValidTookEffect' /\ OkIsValid' /\ LostRaceIsRevoked'
  BY <1>1, <1>3, <1>4 DEF ValidTookEffect, OkIsValid, LostRaceIsRevoked, IsRevoke
<1>11. RevokedIffAnnounced'
  BY <1>1 DEF RevokedIffAnnounced, Contract!IsRevoked, Contract!Announced
<1> QED
  BY <1>5, <1>6, <1>7, <1>8, <1>9, <1>10, <1>11

\* Committing or invalidating a transaction.
LEMMA NetworkStepPreserves ==
    ASSUME IndInv, NEW t \in DOMAIN tx, NetworkStep(t)
    PROVE  IndInv'
<1> USE DEF IndInv
<1>0. PICK c \in Creds : c = tx[t].cred
  BY DEF TypeOK, Tx
<1>1. /\ tx[t] \in Tx
      /\ \A u \in DOMAIN tx : tx[u].cred \in Creds /\ tx[u].read \in Nat
      /\ IsRecord(t) \/ IsRevoke(t)
      /\ tx[t].state = "sent"
      /\ version[c] \in Nat
  BY <1>0 DEF TypeOK, Tx, Fns, IsRecord, IsRevoke, NetworkStep, Commit, Invalidate
<1>2. PICK s \in {"valid", "invalid"} : Advance(t, s, tx[t].result) /\ UNCHANGED polls
  BY DEF NetworkStep, Commit, Invalidate
<1>3. /\ DOMAIN tx' = DOMAIN tx
      /\ tx'[t] \in Tx
      /\ tx'[t].fn = tx[t].fn
      /\ tx'[t].cred = tx[t].cred
      /\ tx'[t].read = tx[t].read
      /\ tx'[t].state = s
      /\ tx'[t].result = tx[t].result
      /\ \A u \in DOMAIN tx : u # t => tx'[u] = tx[u]
  <2>1. s \in TxState /\ tx[t].result \in CallResult
    BY <1>1 DEF Tx, TxState
  <2> QED
    BY <1>2, <2>1, AdvanceEffect
<1>4. RecordOnce'
  BY <1>3 DEF RecordOnce, IsRecord
<1>5. OkIsValid'
  BY <1>1, <1>3 DEF OkIsValid
<1>6. CASE Commit(t)
  <2>1. /\ s = "valid"
        /\ version' \in [Creds -> Nat]
        /\ \A d \in Creds : version'[d] = IF d = c THEN version[d] + 1 ELSE version[d]
    <3>1. Advance(t, "valid", tx[t].result)
      BY <1>6 DEF Commit
    <3>2. "valid" \in TxState /\ tx[t].result \in CallResult
      BY <1>1 DEF Tx, TxState
    <3>3. tx'[t].state = "valid"
      BY <3>1, <3>2, AdvanceEffect
    <3> QED
      BY <1>0, <1>3, <1>6, <3>3 DEF Commit, TypeOK
  <2>2. CASE IsRecord(t)
    <3>1. /\ meta' \in [Creds -> Contract!Status]
          /\ \A d \in Creds : meta'[d] = IF d = c THEN "active" ELSE meta[d]
          /\ UNCHANGED events
      BY <1>0, <1>6, <2>2 DEF Commit, ApplyWrites, IsRecord, TypeOK, Contract!Status
    <3>2. meta[c] = "absent"
      BY <1>0, <1>1, <2>2 DEF RecordFirst
    <3>3. TypeOK'
      BY <1>0, <1>1, <1>2, <1>3, <2>1, <3>1 DEF TypeOK
    <3>4. Provenance'
      BY <1>0, <1>1, <1>3, <2>2, <3>1 DEF Provenance, IsRecord
    <3>5. RecordFirst'
      BY <1>0, <1>1, <1>3, <2>1, <2>2, <3>1 DEF RecordFirst, RecordOnce, IsRecord
    <3>6. RevokeAfterRecord' /\ StaleReadIsRevoked'
      BY <1>0, <1>1, <1>3, <2>1, <2>2, <3>1, <3>2
         DEF RevokeAfterRecord, StaleReadIsRevoked, IsRevoke, IsRecord
    <3>7. ValidTookEffect' /\ LostRaceIsRevoked'
      BY <1>0, <1>1, <1>3, <2>1, <2>2, <3>1, <3>2
         DEF ValidTookEffect, LostRaceIsRevoked, IsRevoke, IsRecord
    <3>8. RevokedIffAnnounced'
      <4>1. \A d \in Creds : meta'[d] = "revoked" <=> meta[d] = "revoked"
        BY <3>1, <3>2
      <4>2. \A d \in Creds : Contract!Announced(d)' <=> Contract!Announced(d)
        BY <3>1 DEF Contract!Announced
      <4> QED
        BY <4>1, <4>2 DEF RevokedIffAnnounced, Contract!IsRevoked
    <3> QED
      BY <1>4, <1>5, <3>3, <3>4, <3>5, <3>6, <3>7, <3>8
  <2>3. CASE IsRevoke(t)
    <3>1. /\ meta' \in [Creds -> Contract!Status]
          /\ \A d \in Creds : meta'[d] = IF d = c THEN "revoked" ELSE meta[d]
      BY <1>0, <1>6, <2>3 DEF Commit, ApplyWrites, IsRevoke, TypeOK, Contract!Status
    <3>2. meta[c] # "absent"
      BY <1>0, <1>1, <2>3 DEF RevokeAfterRecord
    <3>3. events' = Append(events, c)
      BY <1>0, <1>6, <2>3 DEF Commit, ApplyWrites, IsRevoke
    <3>4. events' \in Seq(Creds)
      BY <3>3 DEF TypeOK
    <3>5. TypeOK'
      BY <1>0, <1>1, <1>2, <1>3, <2>1, <3>1, <3>4 DEF TypeOK
    <3>6. Provenance'
      BY <1>0, <1>1, <1>3, <3>1, <3>2 DEF Provenance, IsRecord
    <3>7. RecordFirst'
      BY <1>0, <1>1, <1>3, <2>1, <2>3, <3>1, <3>2 DEF RecordFirst, IsRecord, IsRevoke
    <3>8. RevokeAfterRecord' /\ StaleReadIsRevoked'
      BY <1>0, <1>1, <1>3, <2>1, <2>3, <3>1, <3>2
         DEF RevokeAfterRecord, StaleReadIsRevoked, IsRevoke
    <3>9. ValidTookEffect' /\ LostRaceIsRevoked'
      BY <1>0, <1>1, <1>3, <2>1, <2>3, <3>1, <3>2
         DEF ValidTookEffect, LostRaceIsRevoked, IsRevoke
    <3>10. RevokedIffAnnounced'
      <4>1. events \in Seq(Creds)
        BY DEF TypeOK
      <4>2. \A d \in Creds : Contract!IsRevoked(d)' <=> (Contract!IsRevoked(d) \/ d = c)
        BY <1>0, <1>1, <3>1 DEF Contract!IsRevoked, TypeOK
      <4>3. \A d \in Creds : Contract!Announced(d)' <=> (Contract!Announced(d) \/ d = c)
        <5> SUFFICES ASSUME NEW d \in Creds
                     PROVE  Contract!Announced(d)' <=> (Contract!Announced(d) \/ d = c)
          OBVIOUS
        <5>1. /\ Len(Append(events, c)) = Len(events) + 1
              /\ Len(events) \in Nat
              /\ \A i \in 1..Len(events) : Append(events, c)[i] = events[i]
              /\ Append(events, c)[Len(events) + 1] = c
          BY <4>1
        <5> QED
          BY <3>3, <5>1 DEF Contract!Announced
      <4> QED
        BY <4>2, <4>3 DEF RevokedIffAnnounced
    <3> QED
      BY <1>4, <1>5, <3>5, <3>6, <3>7, <3>8, <3>9, <3>10
  <2> QED
    BY <1>0, <1>1, <2>2, <2>3
<1>7. CASE Invalidate(t)
  <2>1. /\ UNCHANGED <<meta, version, events>>
        /\ IsRevoke(t)
        /\ version[c] # tx[t].read
    BY <1>0, <1>7 DEF Invalidate, MvccValid, IsRevoke, ledgerVars
  <2>2. s = "invalid"
    <3>1. Advance(t, "invalid", tx[t].result)
      BY <1>7 DEF Invalidate
    <3>2. "invalid" \in TxState /\ tx[t].result \in CallResult
      BY <1>1 DEF Tx, TxState
    <3>3. tx'[t].state = "invalid"
      BY <3>1, <3>2, AdvanceEffect
    <3> QED
      BY <1>3, <3>3
  <2>3. TypeOK'
    BY <1>2, <1>3, <2>1 DEF TypeOK
  <2>4. Provenance' /\ RecordFirst'
    BY <1>0, <1>1, <1>3, <2>1 DEF Provenance, RecordFirst, IsRecord, IsRevoke
  <2>5. RevokeAfterRecord' /\ StaleReadIsRevoked'
    BY <1>0, <1>1, <1>3, <2>1 DEF RevokeAfterRecord, StaleReadIsRevoked, IsRevoke
  <2>6. ValidTookEffect' /\ LostRaceIsRevoked'
    BY <1>0, <1>1, <1>3, <2>1, <2>2
       DEF ValidTookEffect, LostRaceIsRevoked, StaleReadIsRevoked, IsRevoke
  <2>7. RevokedIffAnnounced'
    BY <2>1 DEF RevokedIffAnnounced, Contract!IsRevoked, Contract!Announced
  <2> QED
    BY <1>4, <1>5, <2>3, <2>4, <2>5, <2>6, <2>7
<1> QED
  BY <1>6, <1>7 DEF NetworkStep

\* The invariant is inductive.
LEMMA NextIndInv == IndInv /\ [Next]_vars => IndInv'
<1> SUFFICES ASSUME IndInv, [Next]_vars PROVE IndInv'
  OBVIOUS
<1>1. CASE UNCHANGED vars
  BY <1>1 DEF IndInv, TypeOK, RecordOnce, Provenance, RecordFirst, RevokeAfterRecord,
     StaleReadIsRevoked, ValidTookEffect, OkIsValid, LostRaceIsRevoked,
     RevokedIffAnnounced, Contract!IsRevoked, Contract!Announced, IsRecord, IsRevoke, vars
<1>2. CASE Next
  BY <1>2, StartPreserves, ClientStepPreserves, NetworkStepPreserves DEF Next
<1> QED
  BY <1>1, <1>2

LEMMA Invariance == Spec => []IndInv
  BY InitIndInv, NextIndInv, PTL DEF Spec

\* Type correctness.
THEOREM TypeCorrect == Spec => []TypeOK
  BY Invariance, PTL DEF IndInv

\* The world state and the event stream agree on what is revoked.
THEOREM EventsAgree == Spec => []RevokedIffAnnounced
  BY Invariance, PTL DEF IndInv

\* Ok means that the effect is on the ledger, for good.
THEOREM OkDurable == Spec => []OkIsDurable
<1>1. IndInv => OkIsDurable
  BY DEF IndInv, OkIsDurable, OkIsValid, ValidTookEffect, IsRevoke
<1> QED
  BY <1>1, Invariance, PTL

\* Err from a lost MVCC race still leaves the credential revoked.
THEOREM LostRace == Spec => []LostRaceIsRevoked
  BY Invariance, PTL DEF IndInv

\* No step of any call takes a revocation back.
THEOREM Permanence == Spec => RevocationIsPermanent
<1>1. IndInv /\ [Next]_vars => [\A c \in Creds : meta[c] = "revoked" => meta'[c] = "revoked"]_vars
  <2> SUFFICES ASSUME IndInv, Next, NEW c \in Creds, meta[c] = "revoked"
               PROVE  meta'[c] = "revoked"
    BY DEF vars
  <2>1. ASSUME UNCHANGED meta PROVE meta'[c] = "revoked"
    BY <2>1
  <2>2. ASSUME NEW t \in DOMAIN tx, Commit(t) PROVE meta'[c] = "revoked"
    <3>1. tx[t] \in Tx /\ tx[t].state = "sent"
      BY <2>2 DEF IndInv, TypeOK, Commit
    <3>2. IsRecord(t) => tx[t].cred # c
      BY <3>1 DEF IndInv, RecordFirst
    <3> QED
      BY <2>2, <3>1, <3>2 DEF Commit, ApplyWrites, IsRecord, IndInv, TypeOK
  <2> QED
    BY <2>1, <2>2 DEF Next, ClientStep, NetworkStep, Endorse, EndorseFails, Submit,
       SubmitFails, PollAsk, PollCommitted, PollRejected, PollFails, PollTimeout, Invalidate, ledgerVars
<1> QED
  BY <1>1, Invariance, PTL DEF Spec, RevocationIsPermanent

\* The distributed execution implements the atomic contract.
THEOREM Refinement == Spec => ContractSpec
<1>1. Init => Contract!Init
  BY DEF Init
<1>2. IndInv /\ [Next]_vars => [Contract!Next]_(Contract!vars)
  <2> SUFFICES ASSUME IndInv, Next PROVE Contract!Next \/ UNCHANGED Contract!vars
    BY DEF vars, Contract!vars
  <2>1. ASSUME UNCHANGED <<meta, events>> PROVE UNCHANGED Contract!vars
    BY <2>1 DEF Contract!vars
  <2>2. ASSUME NEW t \in DOMAIN tx, Commit(t) PROVE Contract!Next
    <3>1. tx[t] \in Tx /\ tx[t].state = "sent" /\ tx[t].cred \in Creds
      BY <2>2 DEF IndInv, TypeOK, Commit, Tx
    <3>2. CASE IsRecord(t)
      <4>1. meta[tx[t].cred] = "absent"
        BY <3>1, <3>2 DEF IndInv, RecordFirst
      <4>2. Contract!Issue(tx[t].cred)
        BY <2>2, <3>2, <4>1 DEF Commit, ApplyWrites, IsRecord, Contract!Issue,
           Contract!RecordCredentialMetadata
      <4> QED
        BY <3>1, <4>2 DEF Contract!Next
    <3>3. CASE IsRevoke(t)
      <4>1. meta[tx[t].cred] # "absent"
        BY <3>1, <3>3 DEF IndInv, RevokeAfterRecord
      <4>2. Contract!RevokeCredential(tx[t].cred)
        BY <2>2, <3>3, <4>1 DEF Commit, ApplyWrites, IsRevoke, Contract!RevokeCredential
      <4> QED
        BY <3>1, <4>2 DEF Contract!Next
    <3> QED
      BY <3>1, <3>2, <3>3 DEF Tx, Fns, IsRecord, IsRevoke
  <2> QED
    BY <2>1, <2>2 DEF Next, ClientStep, NetworkStep, Endorse, EndorseFails, Submit,
       SubmitFails, PollAsk, PollCommitted, PollRejected, PollFails, PollTimeout, Invalidate, ledgerVars
<1> QED
  BY <1>1, <1>2, Invariance, PTL DEF Spec, ContractSpec, Contract!Spec
-----------------------------------------------------------------------------
(* The set-up of a client. *)

MadeClient(mock, url) ==
    [at |-> "ready", is_mock |-> mock, org_mspid |-> get_org_mspid(profile, org_name),
     peer_url |-> url]

Ready ==
    /\ Accepted
    /\ first \in FirstUsers(profile, profile.organization)
    /\ \E mock \in BOOLEAN : \E url : client = MadeClient(mock, url)

\* A client is made of an accepted profile, or it does not exist.
ClientMade ==
    \/ client = NoClient \/ client = [at |-> "failed"]
    \/ Ready

\* The hosts that the two connections accept.
SdkVouches(host) ==
    Handshake(read_peer_tls_cert_bytes(profile, TargetPeer), host, host)

TonicVouches(host) ==
    /\ target # NotFound
    /\ Handshake(read_peer_tonic_tls_cert_bytes(profile, TargetPeer), TlsDomain, host)

RunningCall == [at : {"connected", "endorsed", "open", "submitted"}, kind : {"query", "invoke"},
                submit_host : DOMAIN Network \cup {NotFound}]

\* A running call has an identity, and its connections are to hosts that are
\* vouched for.
CallMade ==
    \/ call = NoCall
    \/ /\ call \in RunningCall /\ Ready /\ CanIdentify
       /\ SdkVouches(client.peer_url.host)
       /\ call.at = "open" => TonicVouches(call.submit_host)

\* What has been sent, to whom and as whom.
SentMade ==
    \A s \in sent :
        /\ Ready /\ CanIdentify
        /\ s.cert = user_context.cert
        /\ s.what = "submit" => TonicVouches(s.host)
        /\ s.what # "submit" => SdkVouches(s.host)

SetupInv ==
    /\ profile \in Profiles /\ org_name \in Orgs /\ peer_name \in PeerNames
    /\ endpoint \in Urls \cup {NotFound}
    /\ ClientMade /\ CallMade /\ SentMade

\* The profile and its user decide whom a client trusts and as whom it speaks,
\* the environment does not.
LEMMA Trusting ==
    ASSUME UNCHANGED <<profile, first>>
    PROVE  /\ CanIdentify' <=> CanIdentify
           /\ user_context' = user_context
           /\ target' = target
           /\ TlsDomain' = TlsDomain
           /\ \A host : SdkVouches(host)' <=> SdkVouches(host)
           /\ \A host : TonicVouches(host)' <=> TonicVouches(host)
<1>1. user_context' = user_context /\ target' = target
  BY DEF user_context, target
<1>2. CanIdentify' <=> CanIdentify
  BY <1>1 DEF CanIdentify
<1>3. TlsDomain' = TlsDomain
  BY <1>1 DEF TlsDomain
<1>4. ASSUME NEW host PROVE SdkVouches(host)' <=> SdkVouches(host)
  BY DEF SdkVouches
<1>5. ASSUME NEW host PROVE TonicVouches(host)' <=> TonicVouches(host)
  BY <1>1, <1>3 DEF TonicVouches
<1> QED
  BY <1>1, <1>2, <1>3, <1>4, <1>5

\* Whatever a client is made of stays as it is while a call is made.
LEMMA Settled ==
    ASSUME UNCHANGED <<profile, org_name, peer_name, client, first>>
    PROVE  Ready' <=> Ready
  BY DEF Ready, Accepted, MadeClient

LEMMA ReadyClient ==
    ASSUME Ready
    PROVE  /\ client.at = "ready"
           /\ client.org_mspid = get_org_mspid(profile, org_name)
           /\ client.is_mock \in BOOLEAN
  BY DEF Ready, MadeClient

\* A step that sends something sends it as the client's user, to a host that
\* is vouched for.
LEMMA SendKeeps ==
    ASSUME SetupInv, NEW what, NEW place, Ready, CanIdentify,
           Send(what, place), UNCHANGED <<profile, org_name, peer_name, client, first>>,
           what = "submit" => TonicVouches(place),
           what # "submit" => SdkVouches(place)
    PROVE  SentMade'
<1>1. sent' = sent \cup {[what |-> what, host |-> place, cert |-> user_context.cert,
                          msp |-> client.org_mspid]}
  BY DEF Send
<1>2. ASSUME NEW s \in sent'
      PROVE  /\ s.cert = user_context.cert
             /\ s.what = "submit" => TonicVouches(s.host)
             /\ s.what # "submit" => SdkVouches(s.host)
  BY <1>1, <1>2 DEF SetupInv, SentMade
<1> QED
  BY <1>2, Settled, Trusting DEF SentMade

\* A step that leaves the client alone keeps the invariant if it keeps its two
\* last parts.
LEMMA CallKeeps ==
    ASSUME SetupInv, UNCHANGED <<profile, org_name, peer_name, client, first>>,
           endpoint' \in Urls \cup {NotFound}, CallMade', SentMade'
    PROVE  SetupInv'
<1>1. ClientMade'
  BY Settled DEF SetupInv, ClientMade
<1> QED
  BY <1>1 DEF SetupInv

\* Nothing is sent and no call is made before the client is there.
LEMMA NothingBefore ==
    ASSUME SetupInv, client = NoClient
    PROVE  call = NoCall /\ sent = {}
<1>1. ~Ready
  BY ReadyClient DEF NoClient
<1> QED
  BY <1>1 DEF SetupInv, CallMade, SentMade

LEMMA NewStep ==
    ASSUME SetupInv, NEW u \in FirstUsers(profile, profile.organization), New(u)
    PROVE  SetupInv'
<1>1. /\ client = NoClient /\ Accepted /\ first' = u
      /\ \E url : client' = MadeClient(FALSE, url)
      /\ UNCHANGED <<profile, org_name, peer_name, endpoint, call, sent>>
  BY DEF New, MadeClient, inputs
<1>2. call = NoCall /\ sent = {}
  BY <1>1, NothingBefore
<1>3. Ready'
  BY <1>1 DEF Ready, Accepted, MadeClient
<1>4. ClientMade' /\ CallMade' /\ SentMade'
  BY <1>1, <1>2, <1>3 DEF ClientMade, CallMade, SentMade
<1> QED
  BY <1>1, <1>4 DEF SetupInv

LEMMA NewFailsStep == ASSUME SetupInv, NewFails PROVE SetupInv'
<1>1. /\ client = NoClient /\ client' = [at |-> "failed"]
      /\ UNCHANGED <<profile, org_name, peer_name, endpoint, first, call, sent>>
  BY DEF NewFails, inputs
<1>2. call = NoCall /\ sent = {}
  BY <1>1, NothingBefore
<1>3. ClientMade' /\ CallMade' /\ SentMade'
  BY <1>1, <1>2 DEF ClientMade, CallMade, SentMade
<1> QED
  BY <1>1, <1>3 DEF SetupInv

LEMMA MockStep == ASSUME SetupInv, NEW b \in BOOLEAN, set_mock(b) PROVE SetupInv'
<1>1. /\ client.at = "ready" /\ call = NoCall
      /\ client' = [client EXCEPT !.is_mock = b]
      /\ UNCHANGED <<profile, org_name, peer_name, endpoint, first, call, sent>>
  BY DEF set_mock, inputs
<1>2. Ready
  BY <1>1 DEF SetupInv, ClientMade, NoClient
<1>3. \E url : client' = MadeClient(b, url)
  <2>1. PICK mock \in BOOLEAN : \E url : client = MadeClient(mock, url)
    BY <1>2 DEF Ready
  <2>2. PICK url : client = MadeClient(mock, url)
    BY <2>1
  <2>3. client' = MadeClient(b, url)
    BY <1>1, <2>2 DEF MadeClient
  <2> QED
    BY <2>3
<1>4. Ready'
  BY <1>1, <1>2, <1>3 DEF Ready, Accepted, MadeClient
<1>5. SentMade'
  BY <1>1, <1>4, Trusting DEF SetupInv, SentMade
<1>6. ClientMade' /\ CallMade'
  BY <1>1, <1>4 DEF ClientMade, CallMade
<1> QED
  BY <1>1, <1>5, <1>6 DEF SetupInv

\* A step that sends nothing and leaves the client and the call alone.
LEMMA KeepsSent ==
    ASSUME SetupInv, UNCHANGED <<profile, org_name, peer_name, client, first>>, UNCHANGED sent
    PROVE  SentMade'
  BY Settled, Trusting DEF SetupInv, SentMade

LEMMA EndpointStep ==
    ASSUME SetupInv, NEW e \in Urls \cup {NotFound}, SetEndpoint(e)
    PROVE  SetupInv'
<1>1. /\ UNCHANGED <<profile, org_name, peer_name, client, first>>
      /\ endpoint' = e /\ UNCHANGED call /\ UNCHANGED sent
  BY DEF SetEndpoint
<1>2. CallMade'
  BY <1>1, Settled, Trusting DEF SetupInv, CallMade
<1> QED
  BY <1>1, <1>2, KeepsSent, CallKeeps

LEMMA CallStep ==
    ASSUME SetupInv,
           \/ \E kind \in {"query", "invoke"} : ConnectGateway(kind)
           \/ Evaluate \/ SendEndorse \/ BuildTlsGateway \/ SendSubmit \/ PollCommit \/ CallFails
    PROVE  SetupInv'
<1>1. /\ UNCHANGED <<profile, org_name, peer_name, client, first>>
      /\ endpoint' \in Urls \cup {NotFound}
  BY DEF SetupInv, inputs, ConnectGateway, Evaluate, SendEndorse, BuildTlsGateway, SendSubmit,
         PollCommit, CallFails
<1>2. ASSUME call # NoCall
      PROVE  /\ call \in RunningCall /\ Ready /\ CanIdentify
             /\ SdkVouches(client.peer_url.host)
             /\ call.at = "open" => TonicVouches(call.submit_host)
  BY <1>2 DEF SetupInv, CallMade
<1>3. ASSUME call' = NoCall
      PROVE  CallMade'
  BY <1>3 DEF CallMade
<1>4. ASSUME call' \in RunningCall, Ready, CanIdentify, SdkVouches(client.peer_url.host),
             call'.at = "open" => TonicVouches(call'.submit_host)
      PROVE  CallMade'
  BY <1>1, <1>4, Settled, Trusting DEF CallMade
<1>5. ASSUME NEW kind \in {"query", "invoke"}, ConnectGateway(kind)
      PROVE  SetupInv'
  <2>1. /\ client.at = "ready" /\ CanIdentify /\ SdkVouches(client.peer_url.host)
        /\ call' = [at |-> "connected", kind |-> kind, submit_host |-> NotFound]
        /\ UNCHANGED sent
    BY <1>5 DEF ConnectGateway, SdkVouches
  <2>2. Ready
    BY <2>1 DEF SetupInv, ClientMade, NoClient
  <2>3. call' \in RunningCall /\ call'.at # "open"
    BY <2>1 DEF RunningCall
  <2> QED
    BY <1>1, <1>4, <2>1, <2>2, <2>3, KeepsSent, CallKeeps
<1>6. CASE Evaluate
  <2>1. call # NoCall /\ call' = NoCall /\ Send("evaluate", client.peer_url.host)
    BY <1>6 DEF Evaluate, NoCall
  <2>2. SentMade'
    BY <1>1, <1>2, <2>1, SendKeeps
  <2> QED
    BY <1>1, <1>3, <2>1, <2>2, CallKeeps
<1>7. CASE SendEndorse
  <2>1. /\ call # NoCall /\ call' = [call EXCEPT !.at = "endorsed"]
        /\ Send("endorse", client.peer_url.host)
    BY <1>7 DEF SendEndorse, NoCall
  <2>2. SentMade'
    BY <1>1, <1>2, <2>1, SendKeeps
  <2>3. call' \in RunningCall /\ call'.at # "open"
    BY <1>2, <2>1 DEF RunningCall
  <2> QED
    BY <1>1, <1>2, <1>4, <2>1, <2>2, <2>3, CallKeeps
<1>8. CASE BuildTlsGateway
  <2>1. /\ call # NoCall /\ TonicVouches(SubmitUrl.host)
        /\ call' = [call EXCEPT !.at = "open", !.submit_host = SubmitUrl.host]
        /\ UNCHANGED sent
    BY <1>8 DEF BuildTlsGateway, NoCall, TonicVouches
  <2>2. SubmitUrl.host \in DOMAIN Network
    BY <2>1 DEF TonicVouches, Handshake
  <2>3. call' \in RunningCall /\ call'.submit_host = SubmitUrl.host
    BY <1>2, <2>1, <2>2 DEF RunningCall
  <2> QED
    BY <1>1, <1>2, <1>4, <2>1, <2>3, KeepsSent, CallKeeps
<1>9. CASE SendSubmit
  <2>1. /\ call # NoCall /\ call.at = "open" /\ call' = [call EXCEPT !.at = "submitted"]
        /\ Send("submit", call.submit_host)
    BY <1>9 DEF SendSubmit, NoCall
  <2>2. SentMade'
    BY <1>1, <1>2, <2>1, SendKeeps
  <2>3. call' \in RunningCall /\ call'.at # "open"
    BY <1>2, <2>1 DEF RunningCall
  <2> QED
    BY <1>1, <1>2, <1>4, <2>1, <2>2, <2>3, CallKeeps
<1>10. CASE PollCommit
  <2>1. call # NoCall /\ call' = NoCall /\ Send("commit_status", client.peer_url.host)
    BY <1>10 DEF PollCommit, NoCall
  <2>2. SentMade'
    BY <1>1, <1>2, <2>1, SendKeeps
  <2> QED
    BY <1>1, <1>3, <2>1, <2>2, CallKeeps
<1>11. CASE CallFails
  BY <1>1, <1>3, <1>11, KeepsSent, CallKeeps DEF CallFails
<1> QED
  BY <1>5, <1>6, <1>7, <1>8, <1>9, <1>10, <1>11

LEMMA SetupInvariance == SetupSpec => []SetupInv
<1>1. SetupInit => SetupInv
  BY DEF SetupInit, SetupInv, ClientMade, CallMade, SentMade
<1>2. SetupInv /\ [SetupNext]_setupVars => SetupInv'
  <2> SUFFICES ASSUME SetupInv, [SetupNext]_setupVars PROVE SetupInv'
    OBVIOUS
  <2>1. CASE SetupNext
    BY <2>1, NewStep, NewFailsStep, MockStep, EndpointStep, CallStep DEF SetupNext
  <2>2. CASE UNCHANGED setupVars
    <3>1. /\ UNCHANGED <<profile, org_name, peer_name, client, first>>
          /\ UNCHANGED endpoint /\ UNCHANGED call /\ UNCHANGED sent
      BY <2>2 DEF setupVars
    <3>2. CallMade'
      BY <3>1, Settled, Trusting DEF SetupInv, CallMade
    <3>3. endpoint' \in Urls \cup {NotFound}
      BY <3>1 DEF SetupInv
    <3> QED
      BY <3>1, <3>2, <3>3, KeepsSent, CallKeeps
  <2> QED
    BY <2>1, <2>2
<1> QED
  BY <1>1, <1>2, PTL DEF SetupSpec

\* A certificate that can be used is a user's.
LEMMA IdentityIsUser ==
    ASSUME SetupInv, CanIdentify
    PROVE  user_context.cert \notin {Empty, Unreadable, NotFound}
<1> DEFINE org == get_org_config(profile, profile.organization)
           usr == org.users[first]
<1>1. user_context # NotFound /\ Unreadable # user_context.cert
  BY DEF CanIdentify
<1>2. /\ org # NotFound /\ first \in DOMAIN org.users
      /\ user_context = UserContext(usr.cert, usr.key, org.mspid)
  BY <1>1 DEF user_context, get_user_context, get_user_context_for_org, get_user_context_by_name
<1>3. user_context.cert = usr.cert /\ usr.cert # Empty
  BY <1>1, <1>2 DEF UserContext
<1>4. profile.organization \in DOMAIN profile.organizations
      /\ org = profile.organizations[profile.organization]
  BY <1>2 DEF get_org_config, Entry
<1>5. usr.cert # NotFound
  BY <1>2, <1>4, ProfilesAssumption DEF SetupInv
<1> QED
  BY <1>1, <1>3, <1>5

\* The set-up is well typed: a client that is ready has the MSP id of its
\* organization, and nothing is sent under a certificate that is empty or
\* cannot be read.
THEOREM SetupTypeCorrect == SetupSpec => []SetupTypeOK
<1>1. SetupInv => SetupTypeOK
  <2> SUFFICES ASSUME SetupInv PROVE SetupTypeOK
    OBVIOUS
  <2>1. Ready => /\ client.at = "ready" /\ client.org_mspid # NotFound
                 /\ client.is_mock \in BOOLEAN
                 /\ first \in FirstUsers(profile, profile.organization)
    BY ReadyClient DEF Ready, Accepted
  <2>2. call.at \in {"idle", "connected", "endorsed", "open", "submitted"}
    BY DEF SetupInv, CallMade, NoCall, RunningCall
  <2>3. \A s \in sent : s.cert \notin {Empty, Unreadable, NotFound}
    BY IdentityIsUser DEF SetupInv, SentMade
  <2> QED
    BY <2>1, <2>2, <2>3 DEF SetupInv, ClientMade, SetupTypeOK
<1> QED
  BY <1>1, SetupInvariance, PTL

\* A CA file that vouches for a host is there and has been read.
LEMMA CaIsRead ==
    ASSUME NEW path, NEW host \in DOMAIN Network, Network[host].ca = read(path)
    PROVE  Network[host].ca = path
  BY NetworkAssumption DEF read

\* Whom a client talks to is vouched for by the profile, however often and
\* whenever the variable of the environment changes.
THEOREM VouchedFor == SetupSpec => []SentIsVouchedFor
<1>1. ASSUME SetupInv, NEW s \in sent
      PROVE  /\ s.host \in DOMAIN Network
             /\ IF s.what = "submit"
                THEN /\ Network[s.host].ca = target.tls_ca_certs_tonic
                     /\ target.url.host \in Network[s.host].names
                ELSE /\ Network[s.host].ca = target.tls_ca_certs
                     /\ s.host \in Network[s.host].names
  <2>1. CASE s.what = "submit"
    <3>1. /\ target # NotFound /\ s.host \in DOMAIN Network
          /\ Network[s.host].ca = read_peer_tonic_tls_cert_bytes(profile, TargetPeer)
          /\ TlsDomain \in Network[s.host].names
      BY <1>1, <2>1 DEF SetupInv, SentMade, TonicVouches, Handshake
    <3>2. Network[s.host].ca = target.tls_ca_certs_tonic
      <4>1. /\ get_peer_config(profile, TargetPeer) # NotFound
            /\ target = profile.peers[TargetPeer]
        BY <3>1 DEF target, get_peer_config, Entry
      <4>2. Network[s.host].ca = read(target.tls_ca_certs_tonic)
        BY <3>1, <4>1 DEF read_peer_tonic_tls_cert_bytes
      <4> QED
        BY <3>1, <4>2, CaIsRead
    <3>3. target.url.host \in Network[s.host].names
      BY <3>1, NetworkAssumption DEF TlsDomain
    <3> QED
      BY <2>1, <3>1, <3>2, <3>3
  <2>2. CASE s.what # "submit"
    <3>1. /\ s.host \in DOMAIN Network
          /\ Network[s.host].ca = read_peer_tls_cert_bytes(profile, TargetPeer)
          /\ s.host \in Network[s.host].names
      BY <1>1, <2>2 DEF SetupInv, SentMade, SdkVouches, Handshake
    <3>2. Network[s.host].ca = target.tls_ca_certs
      <4>1. get_peer_config(profile, TargetPeer) # NotFound
        BY <3>1, NetworkAssumption DEF read_peer_tls_cert_bytes
      <4>2. target = profile.peers[TargetPeer]
        BY <4>1 DEF target, get_peer_config, Entry
      <4>3. Network[s.host].ca = read(target.tls_ca_certs)
        BY <3>1, <4>1, <4>2 DEF read_peer_tls_cert_bytes
      <4> QED
        BY <3>1, <4>3, CaIsRead
    <3> QED
      BY <2>2, <3>1, <3>2
  <2> QED
    BY <2>1, <2>2
<1>2. SetupInv => SentIsVouchedFor
  BY <1>1 DEF SentIsVouchedFor
<1> QED
  BY <1>2, SetupInvariance, PTL
-----------------------------------------------------------------------------
(* The schema engine. *)

\* A set of natural numbers has a least element.
LEMMA LeastExists ==
    ASSUME NEW S \in SUBSET Nat, S # {}
    PROVE  \E i \in S : \A j \in S : i <= j
<1>1. \E i \in S : \A j \in S : ~(<<j, i>> \in OpToRel(<, Nat))
  BY NatLessThanWellFounded, WFMin
<1>2. \A i, j \in S : ~(<<j, i>> \in OpToRel(<, Nat)) => i <= j
  BY DEF OpToRel
<1> QED
  BY <1>1, <1>2

\* One attribute: the check of the engine and the reference agree.
LEMMA FieldIsExact ==
    ASSUME NEW attr, subject \in Subjects
    PROVE  /\ FieldError(attr, subject) = "ok" <=> Conforms(attr)
           /\ FieldError(attr, subject) = "ConfigError" =>
                 attr.type \notin {"string", "integer", "timestamp"}
<1>1. CASE attr.name \notin DOMAIN subject
  BY <1>1 DEF FieldError, Conforms
<1>2. CASE attr.name \in DOMAIN subject
  <2> DEFINE v == subject[attr.name]
  <2>1. v \in Value
    BY <1>2, SchemaAssumption
  <2> HIDE DEF v
  <2>2. /\ is_string(v) <=> v \in {Text, Rfc3339}
        /\ is_integer(v) <=> v \in {Num(n) : n \in (-MaxI64 - 1)..(2 * MaxI64 + 1)}
        /\ (is_string(v) /\ v.rfc3339) <=> v = Rfc3339
        /\ (is_i64(v) /\ v.n > 0) <=> v \in {Num(n) : n \in 1..MaxI64}
    <3>1. CASE v \in {Text, Rfc3339}
      <4>1. is_string(v) /\ ~is_integer(v) /\ ~is_i64(v)
        BY <3>1 DEF is_string, is_integer, is_i64, Text, Rfc3339
      <4>2. \A m : v # Num(m)
        BY <4>1 DEF is_integer, Num
      <4>3. v.rfc3339 <=> v = Rfc3339
        <5>1. Rfc3339.rfc3339 = TRUE /\ Text.rfc3339 = FALSE
          BY DEF Text, Rfc3339
        <5> QED
          BY <3>1, <5>1
      <4> QED
        BY <3>1, <4>1, <4>2, <4>3
    <3>2. ASSUME NEW n \in (-MaxI64 - 1)..(2 * MaxI64 + 1), v = Num(n)
          PROVE  /\ ~is_string(v) /\ v \notin {Text, Rfc3339}
                 /\ is_integer(v)
                 /\ (is_i64(v) /\ v.n > 0) <=> v \in {Num(m) : m \in 1..MaxI64}
      <4>1. ~is_string(v) /\ is_integer(v) /\ v.n = n /\ (is_i64(v) <=> n <= MaxI64)
        BY <3>2 DEF is_string, is_integer, is_i64, Num
      <4>2. v \notin {Text, Rfc3339}
        BY <4>1 DEF is_string, Text, Rfc3339
      <4>3. v \in {Num(m) : m \in 1..MaxI64} <=> n \in 1..MaxI64
        <5>1. \A m : Num(m).n = m
          BY DEF Num
        <5> QED
          BY <3>2, <5>1
      <4>4. n \in Int /\ MaxI64 \in Nat
        BY SchemaAssumption
      <4>5. (n <= MaxI64 /\ n > 0) <=> n \in 1..MaxI64
        BY <4>4
      <4> QED
        BY <4>1, <4>2, <4>3, <4>5
    <3> QED
      BY <2>1, <3>1, <3>2 DEF Value
  <2>3. FieldError(attr, subject) =
            CASE attr.type = "string" -> IF is_string(v) THEN "ok" ELSE "InvalidWitness"
              [] attr.type = "integer" -> IF is_integer(v) THEN "ok" ELSE "InvalidWitness"
              [] attr.type = "timestamp" ->
                   IF (is_i64(v) /\ v.n > 0) \/ (is_string(v) /\ v.rfc3339)
                   THEN "ok" ELSE "InvalidWitness"
              [] OTHER -> "ConfigError"
    BY <1>2 DEF FieldError, v
  <2>4. Conforms(attr) <=> v \in ValuesOf(attr.type)
    BY <1>2 DEF Conforms, v
  <2> QED
    BY <2>2, <2>3, <2>4 DEF ValuesOf
<1> QED
  BY <1>1, <1>2

\* The whole schema: the engine finds the first attribute that is bad.
LEMMA VerdictIsExact ==
    ASSUME attributes \in Schemas, subject \in Subjects
    PROVE  /\ validate_fields(attributes, subject) = "ok" <=>
                 \A i \in DOMAIN attributes : Conforms(attributes[i])
           /\ validate_fields(attributes, subject) = "ConfigError" =>
                 \E i \in DOMAIN attributes :
                     /\ attributes[i].type \notin {"string", "integer", "timestamp"}
                     /\ \A j \in DOMAIN attributes : j < i => Conforms(attributes[j])
<1> DEFINE bad == {i \in DOMAIN attributes : FieldError(attributes[i], subject) # "ok"}
           least == CHOOSE i \in bad : \A j \in bad : i <= j
<1>1. \A i \in DOMAIN attributes : i \in bad <=> ~Conforms(attributes[i])
  BY FieldIsExact
<1>2. validate_fields(attributes, subject) =
        IF bad = {} THEN "ok" ELSE FieldError(attributes[least], subject)
  BY DEF validate_fields
<1>3. bad \in SUBSET Nat /\ bad \subseteq DOMAIN attributes
  BY SchemaAssumption
<1>4. ASSUME bad # {}
      PROVE  least \in bad /\ \A j \in bad : least <= j
  <2>1. \E i \in bad : \A j \in bad : i <= j
    BY <1>3, <1>4, LeastExists
  <2> QED
    BY <2>1
<1>5. bad # {} => FieldError(attributes[least], subject) # "ok"
  BY <1>4
<1> HIDE DEF bad, least
<1>6. CASE bad = {}
  BY <1>1, <1>2, <1>6
<1>7. CASE bad # {}
  <2>1. least \in DOMAIN attributes /\ ~Conforms(attributes[least])
    BY <1>1, <1>3, <1>4, <1>7
  <2>2. \A j \in DOMAIN attributes : j < least => Conforms(attributes[j])
    <3>1. DOMAIN attributes \subseteq Nat
      BY SchemaAssumption
    <3> QED
      BY <1>1, <1>4, <1>7, <2>1, <3>1
  <2> QED
    BY <1>2, <1>5, <1>7, <2>1, <2>2, FieldIsExact
<1> QED
  BY <1>6, <1>7

\* validate_fields accepts exactly the subjects that conform, and blames the
\* first attribute that does not, for every schema and every subject.
THEOREM ValidationExact == SchemaSpec => []ValidationIsExact
<1> DEFINE SchemaInv == attributes \in Schemas /\ subject \in Subjects /\ ValidationIsExact
<1>1. SchemaInit => SchemaInv
  BY DEF SchemaInit, ValidationIsExact
<1>2. SchemaInv /\ [ValidateFields]_schemaVars => SchemaInv'
  <2> SUFFICES ASSUME SchemaInv, [ValidateFields]_schemaVars PROVE SchemaInv'
    OBVIOUS
  <2>1. UNCHANGED <<attributes, subject>>
    BY DEF ValidateFields, schemaVars
  <2>2. \A a : Conforms(a)' <=> Conforms(a)
    BY <2>1 DEF Conforms
  <2>3. ValidationIsExact'
    <3>1. CASE ValidateFields
      <4>1. result' = validate_fields(attributes, subject)
        BY <3>1 DEF ValidateFields
      <4> QED
        BY <2>1, <2>2, <4>1, VerdictIsExact DEF ValidationIsExact
    <3>2. CASE UNCHANGED schemaVars
      BY <2>1, <2>2, <3>2 DEF ValidationIsExact, schemaVars
    <3> QED
      BY <3>1, <3>2
  <2> QED
    BY <2>1, <2>3
<1> QED
  BY <1>1, <1>2, PTL DEF SchemaSpec
-----------------------------------------------------------------------------
(* The identity registry. *)

\* A DID document comes through json.Unmarshal and json.Marshal unharmed; of
\* another document nothing is left in the slices.
LEMMA ReadBack ==
    ASSUME NEW d, NEW i, NEW k
    PROVE  AsDIDDocument(DIDDocument(d, i, k)) = DIDDocument(d, i, k)
  BY DEF AsDIDDocument, DIDDocument

LEMMA ReadOther ==
    ASSUME NEW c, NEW i
    PROVE  /\ AsDIDDocument(CredentialSchema(c, i)).authentication = Null
           /\ "authentication" \in DOMAIN AsDIDDocument(CredentialSchema(c, i))
           /\ AsDIDDocument(CredentialMetadata(c, i)).authentication = Null
           /\ "authentication" \in DOMAIN AsDIDDocument(CredentialMetadata(c, i))
  BY DEF AsDIDDocument, CredentialSchema, CredentialMetadata

LEMMA DecodeOther ==
    ASSUME NEW c, NEW i
    PROVE  /\ DecodeDIDDocument(AsDIDDocument(CredentialSchema(c, i))) = Err
           /\ DecodeDIDDocument(AsDIDDocument(CredentialMetadata(c, i))) = Err
  BY ReadOther DEF DecodeDIDDocument, VecFields, OrDefault

\* The two results are told apart by ok.
LEMMA OkFields ==
    ASSUME NEW v
    PROVE  Ok(v).ok = TRUE /\ Ok(v).value = v /\ Err.ok = FALSE
  BY DEF Ok, Err

\* The client gets the document of d, of issuer i and with key k.
IsDocumentOf(answer, d, i, k) ==
    /\ answer.ok = TRUE
    /\ answer.value.did = d
    /\ answer.value.issuer_did = i
    /\ answer.value.public_key = k

LEMMA DecodeDID ==
    ASSUME NEW d \in Dids, NEW i \in Dids, NEW k \in Keys
    PROVE  IsDocumentOf(DecodeDIDDocument(DIDDocument(d, i, k)), d, i, k)
<1> DEFINE json == DIDDocument(d, i, k)
           method == [controller |-> d, publicKeyMultibase |-> k]
           decoded == [j \in DOMAIN <<method>> |-> DecodeVerificationMethod(<<method>>[j])]
<1>1. /\ OrDefault(json, "verificationMethod", <<>>) = <<method>>
      /\ OrDefault(json, "authentication", <<>>) = <<d>>
      /\ OrDefault(json, "assertionMethod", <<>>) = <<d>>
      /\ OrDefault(json, "issuer_did", "") = i
      /\ OrDefault(json, "public_key", "") = k
      /\ json.id = d
  BY DEF OrDefault, DIDDocument
<1>2. \A f \in VecFields : OrDefault(json, f, <<>>) # Null
  BY <1>1, NullAssumption DEF VecFields
<1> HIDE DEF json
<1> DEFINE value == [did |-> d, issuer_did |-> i, public_key |-> k,
                     verification_method |-> decoded, active |-> DecodeActive(json)]
<1>3. DecodeDIDDocument(json) = Ok(value)
  BY <1>1, <1>2 DEF DecodeDIDDocument
<1> HIDE DEF decoded
<1>4. value.did = d /\ value.issuer_did = i /\ value.public_key = k
  OBVIOUS
<1> HIDE DEF value
<1>5. /\ DecodeDIDDocument(json).ok = TRUE
      /\ DecodeDIDDocument(json).value = value
  BY <1>3, OkFields
<1> QED
  BY <1>4, <1>5 DEF json, IsDocumentOf

\* What a key holds is a document of its kind and id.
WorldOK ==
    \A k \in DOMAIN world :
        \/ \E d, i \in Dids, key \in Keys :
              k = DidKey(d) /\ world[k] = DIDDocument(d, i, key)
        \/ \E s \in SchemaIds, i \in Dids :
              k = SchemaKey(s) /\ world[k] = CredentialSchema(s, i)
        \/ \E c \in CredIds, i \in Dids :
              k = CredKey(c) /\ world[k] = CredentialMetadata(c, i)

LEMMA KeysApart ==
    ASSUME NEW a, NEW b
    PROVE  /\ DidKey(a) # SchemaKey(b) /\ DidKey(a) # CredKey(b) /\ SchemaKey(a) # CredKey(b)
           /\ DidKey(a) = DidKey(b) => a = b
           /\ SchemaKey(a) = SchemaKey(b) => a = b
           /\ DidKey(a)[1] = "DID" /\ SchemaKey(a)[1] # "DID" /\ CredKey(a)[1] # "DID"
  BY DEF DidKey, SchemaKey, CredKey

\* A key of a DID holds its document, and the client can decode it.
LEMMA DidEntry ==
    ASSUME WorldOK, NEW d \in Dids, Registered(d)
    PROVE  \E i \in Dids, key \in Keys : world[DidKey(d)] = DIDDocument(d, i, key)
<1>1. \A a : DidKey(d) # SchemaKey(a) /\ DidKey(d) # CredKey(a)
  BY KeysApart
<1>2. PICK e, i \in Dids, key \in Keys :
          DidKey(d) = DidKey(e) /\ world[DidKey(d)] = DIDDocument(e, i, key)
  BY <1>1 DEF WorldOK, Registered
<1> QED
  BY <1>2, KeysApart

LEMMA SchemaEntry ==
    ASSUME WorldOK, NEW s \in SchemaIds, SchemaKey(s) \in DOMAIN world
    PROVE  \E i \in Dids : world[SchemaKey(s)] = CredentialSchema(s, i)
<1>1. \A a : SchemaKey(s) # DidKey(a) /\ SchemaKey(s) # CredKey(a)
  BY KeysApart
<1>2. PICK r \in SchemaIds, i \in Dids :
          SchemaKey(s) = SchemaKey(r) /\ world[SchemaKey(s)] = CredentialSchema(r, i)
  BY <1>1 DEF WorldOK
<1> QED
  BY <1>2, KeysApart

\* The answers of the three queries.
LEMMA ResolveAnswer ==
    ASSUME WorldOK, NEW d \in Dids, resolve_did(d)
    PROVE  LookupIsExact'
<1>1. /\ UNCHANGED <<is_mock, world>>
      /\ reply'.fn = "resolve_did" /\ reply'.arg = d
  BY DEF resolve_did, Reply
<1> USE DEF LookupIsExact, ResolveIsExact, SchemaIsExact, ListIsComplete, Asked
<1>2. CASE is_mock
  BY <1>1, <1>2
<1>3. CASE ~is_mock /\ ~Registered(d)
  <2>1. reply'.result = Err
    BY <1>3, OkFields DEF resolve_did, Reply, ResolveDID, Get, Registered
  <2> QED
    BY <1>1, <1>3, <2>1, OkFields DEF Registered
<1>4. CASE ~is_mock /\ Registered(d)
  <2>1. PICK i \in Dids, key \in Keys : world[DidKey(d)] = DIDDocument(d, i, key)
    BY <1>4, DidEntry
  <2>2. Get(DidKey(d)) = Ok(DIDDocument(d, i, key))
    BY <1>4, <2>1 DEF Get, Registered
  <2>3. ResolveDID(d) = Ok(DIDDocument(d, i, key))
    BY <2>2, OkFields, ReadBack DEF ResolveDID
  <2>4. reply'.result = DecodeDIDDocument(DIDDocument(d, i, key))
    BY <1>4, <2>3, OkFields DEF resolve_did, Reply
  <2>5. DIDDocument(d, i, key).public_key = key /\ DIDDocument(d, i, key).issuer_did = i
    BY DEF DIDDocument
  <2>6. /\ Registered(d)'
        /\ (world[DidKey(d)].public_key)' = key
        /\ (world[DidKey(d)].issuer_did)' = i
    BY <1>1, <1>4, <2>1, <2>5 DEF Registered
  <2>7. IsDocumentOf(reply'.result, d, i, key)
    BY <2>4, DecodeDID
  <2> QED
    BY <1>1, <2>6, <2>7 DEF IsDocumentOf
<1> QED
  BY <1>2, <1>3, <1>4

LEMMA SchemaAnswer ==
    ASSUME WorldOK, NEW s \in SchemaIds, get_schema(s)
    PROVE  LookupIsExact'
<1>0. \A i \in Dids : /\ DecodeSchema(CredentialSchema(s, i)).ok = TRUE
                      /\ DecodeSchema(CredentialSchema(s, i)).value.schema_id = s
                      /\ DecodeSchema(CredentialSchema(s, i)).value.issuer_did = i
  BY DEF DecodeSchema, CredentialSchema, Ok
<1>1. /\ UNCHANGED <<is_mock, world>>
      /\ reply'.fn = "get_schema" /\ reply'.arg = s
  BY DEF get_schema, Reply
<1> USE DEF LookupIsExact, ResolveIsExact, SchemaIsExact, ListIsComplete, Asked
<1>2. CASE is_mock
  BY <1>1, <1>2
<1>3. CASE ~is_mock /\ SchemaKey(s) \notin DOMAIN world
  <2>1. reply'.result = Err
    BY <1>3, OkFields DEF get_schema, Reply, GetSchema, Get
  <2> QED
    BY <1>1, <1>3, <2>1, OkFields
<1>4. CASE ~is_mock /\ SchemaKey(s) \in DOMAIN world
  <2>1. PICK i \in Dids : world[SchemaKey(s)] = CredentialSchema(s, i)
    BY <1>4, SchemaEntry
  <2>2. GetSchema(s) = Ok(CredentialSchema(s, i))
    BY <1>4, <2>1 DEF GetSchema, Get
  <2>3. reply'.result = DecodeSchema(CredentialSchema(s, i))
    BY <1>4, <2>2, OkFields DEF get_schema, Reply
  <2>4. /\ reply'.result.ok = TRUE /\ reply'.result.value.schema_id = s
        /\ reply'.result.value.issuer_did = i
    BY <1>0, <2>3
  <2>5. (world[SchemaKey(s)].issuer_did)' = i
    BY <1>1, <2>1 DEF CredentialSchema
  <2> QED
    BY <1>1, <1>4, <2>4, <2>5
<1> QED
  BY <1>2, <1>3, <1>4

LEMMA QueryAnswer ==
    ASSUME WorldOK, NEW q \in Dids, query_dids_by_issuer(q)
    PROVE  LookupIsExact'
<1>1. /\ UNCHANGED <<is_mock, world>>
      /\ reply'.fn = "query_dids_by_issuer" /\ reply'.arg = q
  BY DEF query_dids_by_issuer, Reply
<1>2. CASE is_mock
  BY <1>1, <1>2 DEF LookupIsExact, ResolveIsExact, SchemaIsExact, ListIsComplete, Asked
<1>3. CASE ~is_mock
  <2> DEFINE found == {k \in DOMAIN world : world[k].issuer_did = q}
             Decoded(k) == DecodeDIDDocument(AsDIDDocument(world[k]))
             docs == {Decoded(k) : k \in found}
  <2>1. \A k \in found : k[1] # "DID" => Decoded(k) = Err
    BY KeysApart, DecodeOther DEF WorldOK
  <2>2. \A k \in found : k[1] = "DID" =>
            \E d \in Dids : k = DidKey(d) /\ Decoded(k).value.did = d
    <3> SUFFICES ASSUME NEW k \in found, k[1] = "DID"
                 PROVE  \E d \in Dids : k = DidKey(d) /\ Decoded(k).value.did = d
      OBVIOUS
    <3>1. PICK d, i \in Dids, key \in Keys : k = DidKey(d) /\ world[k] = DIDDocument(d, i, key)
      BY KeysApart DEF WorldOK
    <3>2. Decoded(k) = DecodeDIDDocument(DIDDocument(d, i, key))
      BY <3>1, ReadBack
    <3>3. Decoded(k).value.did = d
      <4> HIDE DEF Decoded
      <4>1. IsDocumentOf(Decoded(k), d, i, key)
        BY <3>2, DecodeDID
      <4> QED
        BY <4>1 DEF IsDocumentOf
    <3> QED
      BY <3>1, <3>3
  <2>3. reply'.result = DecodeDIDDocuments({AsDIDDocument(world[k]) : k \in found})
    BY <1>3 DEF query_dids_by_issuer, Reply, QueryDIDsByIssuer
  <2>4. reply'.result =
            IF Err \in docs \/ found = {} THEN Err ELSE Ok({doc.value : doc \in docs})
    <3>1. {DecodeDIDDocument(j) : j \in {AsDIDDocument(world[k]) : k \in found}} = docs
      OBVIOUS
    <3>2. {AsDIDDocument(world[k]) : k \in found} = {} <=> found = {}
      OBVIOUS
    <3> HIDE DEF found, docs
    <3> QED
      BY <2>3, <3>1, <3>2 DEF DecodeDIDDocuments
  <2>5. DidsOf(q) = {d \in Dids : DidKey(d) \in found}
    BY DEF DidsOf, Registered
  <2> HIDE DEF found, Decoded
  <2>6. Err \notin docs => {v.did : v \in {doc.value : doc \in docs}} = DidsOf(q)
    <3> SUFFICES ASSUME Err \notin docs
                 PROVE  {v.did : v \in {doc.value : doc \in docs}} = DidsOf(q)
      OBVIOUS
    <3>1. \A k \in found : k[1] = "DID"
      BY <2>1
    <3>2. \A k \in found : Decoded(k).value.did \in DidsOf(q) /\ k = DidKey(Decoded(k).value.did)
      BY <2>2, <2>5, <3>1
    <3>3. \A d \in DidsOf(q) : \E k \in found : Decoded(k).value.did = d
      BY <2>5, <3>2, KeysApart
    <3> QED
      BY <3>2, <3>3
  <2>7. reply'.result.ok => {v.did : v \in reply'.result.value} = DidsOf(q)
    <3> HIDE DEF docs
    <3>1. reply'.result.ok => Err \notin docs /\ reply'.result.value = {doc.value : doc \in docs}
      BY <2>4, OkFields
    <3> QED
      BY <2>6, <3>1
  <2>8. DidsOf(q)' = DidsOf(q)
    BY <1>1 DEF DidsOf, Registered
  <2> QED
    BY <1>1, <2>7, <2>8 DEF LookupIsExact, ResolveIsExact, SchemaIsExact, ListIsComplete, Asked
<1> QED
  BY <1>2, <1>3

\* A put keeps the other entries.
LEMMA PutKeepsWorld ==
    ASSUME WorldOK, NEW key, NEW doc, Put(key, doc),
           \/ \E d, i \in Dids, k \in Keys : key = DidKey(d) /\ doc = DIDDocument(d, i, k)
           \/ \E s \in SchemaIds, i \in Dids : key = SchemaKey(s) /\ doc = CredentialSchema(s, i)
           \/ \E c \in CredIds, i \in Dids : key = CredKey(c) /\ doc = CredentialMetadata(c, i)
    PROVE  WorldOK'
<1>1. /\ DOMAIN world' = DOMAIN world \cup {key}
      /\ world'[key] = doc
      /\ \A k \in DOMAIN world : k # key => world'[k] = world[k]
  BY DEF Put
<1> QED
  BY <1>1 DEF WorldOK

LEMMA WorldIsKept ==
    ASSUME WorldOK, [RegistryNext]_registryVars
    PROVE  WorldOK'
<1>1. ASSUME NEW d \in Dids, NEW i \in Dids, NEW k \in Keys, RegisterDID(d, i, k)
      PROVE  WorldOK'
  BY <1>1, PutKeepsWorld DEF RegisterDID
<1>2. ASSUME NEW i \in Dids, NEW s \in SchemaIds, RegisterSchema(s, i)
      PROVE  WorldOK'
  BY <1>2, PutKeepsWorld DEF RegisterSchema
<1>3. ASSUME NEW i \in Dids, NEW c \in CredIds, RecordCredential(c, i)
      PROVE  WorldOK'
  BY <1>3, PutKeepsWorld DEF RecordCredential
<1>4. ASSUME UNCHANGED world PROVE WorldOK'
  BY <1>4 DEF WorldOK
<1> QED
  BY <1>1, <1>2, <1>3, <1>4
  DEF RegistryNext, registryVars, resolve_did, query_dids_by_issuer, get_schema

\* Keys and issuers by kind.
LEMMA KeyKinds ==
    /\ \A d \in Dids : DidKey(d) \in {"DID"} \X Dids
    /\ \A s \in SchemaIds : SchemaKey(s) \in {"SCHEMA"} \X SchemaIds
    /\ \A c \in CredIds : CredKey(c) \in {"CRED"} \X CredIds
  BY DEF DidKey, SchemaKey, CredKey

LEMMA DocumentIssuer ==
    ASSUME NEW a, NEW i, NEW k
    PROVE  /\ DIDDocument(a, i, k).issuer_did = i
           /\ CredentialSchema(a, i).issuer_did = i
           /\ CredentialMetadata(a, i).issuer_did = i
  BY DEF DIDDocument, CredentialSchema, CredentialMetadata

\* The world state is well typed: every document has a key of one of the
\* three kinds, and names its issuer.
THEOREM RegistryTypeCorrect == RegistrySpec => []RegistryTypeOK
<1> DEFINE RegistryInv == is_mock \in BOOLEAN /\ WorldOK
<1>1. RegistryInit => RegistryInv
  BY DEF RegistryInit, WorldOK
<1>2. RegistryInv /\ [RegistryNext]_registryVars => RegistryInv'
  <2> SUFFICES ASSUME RegistryInv, [RegistryNext]_registryVars
               PROVE  RegistryInv'
    OBVIOUS
  <2>1. UNCHANGED is_mock
    BY DEF RegistryNext, registryVars, RegisterDID, RegisterSchema, RecordCredential,
           resolve_did, query_dids_by_issuer, get_schema
  <2>2. WorldOK'
    BY WorldIsKept
  <2> QED
    BY <2>1, <2>2
<1>3. RegistryInv => RegistryTypeOK
  <2> SUFFICES ASSUME RegistryInv, NEW k \in DOMAIN world
               PROVE  /\ k \in {"DID"} \X Dids \cup {"SCHEMA"} \X SchemaIds \cup {"CRED"} \X CredIds
                      /\ world[k].issuer_did \in Dids
    BY DEF RegistryTypeOK
  <2>1. CASE \E d, i \in Dids, key \in Keys : k = DidKey(d) /\ world[k] = DIDDocument(d, i, key)
    BY <2>1, KeyKinds, DocumentIssuer
  <2>2. CASE \E s \in SchemaIds, i \in Dids : k = SchemaKey(s) /\ world[k] = CredentialSchema(s, i)
    BY <2>2, KeyKinds, DocumentIssuer
  <2>3. CASE \E c \in CredIds, i \in Dids : k = CredKey(c) /\ world[k] = CredentialMetadata(c, i)
    BY <2>3, KeyKinds, DocumentIssuer
  <2> QED
    BY <2>1, <2>2, <2>3 DEF WorldOK
<1> QED
  BY <1>1, <1>2, <1>3, PTL DEF RegistrySpec

\* The three lookups answer exactly, for any ids and keys and any history of
\* registrations.
THEOREM LookupExact == RegistrySpec => []LookupIsExact
<1> DEFINE RegistryInv == WorldOK /\ LookupIsExact
<1>1. RegistryInit => RegistryInv
  BY DEF RegistryInit, WorldOK, LookupIsExact, ResolveIsExact, SchemaIsExact, ListIsComplete, Asked, NoReply
<1>2. RegistryInv /\ [RegistryNext]_registryVars => RegistryInv'
  <2> SUFFICES ASSUME RegistryInv, [RegistryNext]_registryVars
               PROVE  RegistryInv'
    OBVIOUS
  <2>1. ASSUME reply' = NoReply PROVE LookupIsExact'
    BY <2>1 DEF LookupIsExact, ResolveIsExact, SchemaIsExact, ListIsComplete, Asked, NoReply
  <2>2. ASSUME NEW d \in Dids, resolve_did(d) PROVE LookupIsExact'
    BY <2>2, ResolveAnswer
  <2>3. ASSUME NEW d \in Dids, query_dids_by_issuer(d) PROVE LookupIsExact'
    BY <2>3, QueryAnswer
  <2>4. ASSUME NEW s \in SchemaIds, get_schema(s) PROVE LookupIsExact'
    BY <2>4, SchemaAnswer
  <2>5. ASSUME UNCHANGED registryVars PROVE LookupIsExact'
    BY <2>5 DEF LookupIsExact, ResolveIsExact, SchemaIsExact, ListIsComplete, Asked, registryVars,
                Registered, DidsOf
  <2>6. LookupIsExact'
    BY <2>1, <2>2, <2>3, <2>4, <2>5
    DEF RegistryNext, RegisterDID, RegisterSchema, RecordCredential
  <2> QED
    BY <2>6, WorldIsKept
<1>3. RegistryInv => LookupIsExact
  OBVIOUS
<1> QED
  BY <1>1, <1>2, <1>3, PTL DEF RegistrySpec
=============================================================================
