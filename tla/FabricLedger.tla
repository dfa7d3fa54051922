---------------------------- MODULE FabricLedger ----------------------------
(***************************************************************************)
(* How FabricClient.invoke_chaincode runs a chaincode function on Fabric:  *)
(* endorse (simulate and sign), submit to the orderer, poll the commit     *)
(* status for 30 s.  Every call is one transaction; calls run concurrently *)
(* and any of the remote steps may fail or be answered late.  The orderer  *)
(* and the peers' MVCC validation are external to the repository.  The     *)
(* clients are not in mock mode, in which a call returns Ok at once and    *)
(* nothing is sent: what Ok says of the ledger is not meant for those.     *)
(***************************************************************************)
EXTENDS Naturals, Sequences

CONSTANTS Creds,        \* credential ids
          Txs,          \* transaction ids: one per call of invoke_chaincode
          MaxPolls      \* polls of the commit status that fit in 30 s (61)

ASSUME PollsAssumption == MaxPolls \in Nat \ {0}

VARIABLES meta,         \* committed world state
          version,      \* committed version of every CRED_ key
          events,       \* chaincode events of the valid transactions
          tx,           \* the calls made so far: a function on a subset of Txs
          polls         \* polls of the commit status made by each call

vars == <<meta, version, events, tx, polls>>
ledgerVars == <<meta, version, events>>

Contract == INSTANCE DztaContract

Fns == {"RecordCredentialMetadata", "RevokeCredential"}

TxState == {"endorsed", "sent", "valid", "invalid", "dropped"}
CallResult == {"running", "asking", "ok", "err"}

\* read is the key version the simulation saw, state the progress of the
\* transaction on the network, result what the caller has been told ("asking"
\* while a commit_status request of the call is open).
Tx == [fn : Fns, cred : Creds, read : Nat, state : TxState, result : CallResult]

TypeOK ==
    /\ meta \in [Creds -> Contract!Status]
    /\ version \in [Creds -> Nat]
    /\ events \in Seq(Creds)
    /\ DOMAIN tx \subseteq Txs
    /\ \A t \in DOMAIN tx : tx[t] \in Tx
    /\ polls \in [Txs -> 0..MaxPolls]

Init ==
    /\ Contract!Init
    /\ version = [c \in Creds |-> 0]
    /\ tx = [t \in {} |-> 0]
    /\ polls = [t \in Txs |-> 0]
-----------------------------------------------------------------------------
NewCall(t, r) == tx' = [u \in DOMAIN tx \cup {t} |-> IF u = t THEN r ELSE tx[u]]

Advance(t, state, result) ==
    tx' = [tx EXCEPT ![t].state = state, ![t].result = result]

\* Faulty variant of FreshId: a retry that reuses the id of an earlier record.
FreshIdReused(c) == TRUE

\* create_credential draws a new UUID per call, so no two records share a key.
FreshId(c) ==
    \A t \in DOMAIN tx :
        ~(tx[t].fn = "RecordCredentialMetadata" /\ tx[t].cred = c)

\* The callers: Issuer.create_credential records a fresh id,
\* Issuer.revoke_credential revokes any id.
MayCall(fn, c) == fn = "RecordCredentialMetadata" => FreshId(c)

\* Simulating RevokeCredential fails on an absent key.
Simulates(fn, c) == fn = "RevokeCredential" => meta[c] # "absent"

\* invoke_chaincode up to a successful endorsement.
Endorse(t, fn, c) ==
    /\ t \notin DOMAIN tx
    /\ MayCall(fn, c)
    /\ Simulates(fn, c)
    /\ NewCall(t, [fn |-> fn, cred |-> c, read |-> version[c],
                   state |-> "endorsed", result |-> "running"])
    /\ UNCHANGED <<ledgerVars, polls>>

\* The identity, the connection or the endorsement fails: Err, nothing sent.
EndorseFails(t, fn, c) ==
    /\ t \notin DOMAIN tx
    /\ MayCall(fn, c)
    /\ NewCall(t, [fn |-> fn, cred |-> c, read |-> version[c],
                   state |-> "dropped", result |-> "err"])
    /\ UNCHANGED <<ledgerVars, polls>>

\* The signed envelope reaches the orderer and submit() returns Ok.
Submit(t) ==
    /\ tx[t].state = "endorsed"
    /\ Advance(t, "sent", "running")
    /\ UNCHANGED <<ledgerVars, polls>>

\* The TLS client cannot be built, or submit() fails before or after the
\* envelope was delivered: the caller sees Err in every case.
SubmitFails(t) ==
    /\ tx[t].state = "endorsed"
    /\ \E state \in {"dropped", "sent"} : Advance(t, state, "err")
    /\ UNCHANGED <<ledgerVars, polls>>
-----------------------------------------------------------------------------
\* RecordCredentialMetadata reads nothing, RevokeCredential reads its key.
MvccValid(t) ==
    tx[t].fn = "RevokeCredential" => version[tx[t].cred] = tx[t].read

\* Faulty variant of ApplyWrites: the flag is written, the event forgotten.
ApplyWritesSilently(fn, c) ==
    /\ meta' = [meta EXCEPT ![c] = IF fn = "RevokeCredential"
                                   THEN "revoked" ELSE "active"]
    /\ UNCHANGED events

\* The write set and the event fixed by the simulation, applied as they are.
ApplyWrites(fn, c) ==
    \/ /\ fn = "RecordCredentialMetadata"
       /\ meta' = [meta EXCEPT ![c] = "active"]
       /\ UNCHANGED events
    \/ /\ fn = "RevokeCredential"
       /\ meta' = [meta EXCEPT ![c] = "revoked"]
       /\ events' = Append(events, c)

\* External: an ordered transaction passes validation and is committed.
Commit(t) ==
    /\ tx[t].state = "sent"
    /\ MvccValid(t)
    /\ ApplyWrites(tx[t].fn, tx[t].cred)
    /\ version' = [version EXCEPT ![tx[t].cred] = @ + 1]
    /\ Advance(t, "valid", tx[t].result)
    /\ UNCHANGED polls

\* External: a stale read set invalidates the transaction, no write, no event.
Invalidate(t) ==
    /\ tx[t].state = "sent"
    /\ ~MvccValid(t)
    /\ Advance(t, "invalid", tx[t].result)
    /\ UNCHANGED <<ledgerVars, polls>>
-----------------------------------------------------------------------------
\* wait_for_transaction_commit, at the head of its loop.
Polling(t) == tx[t].result = "running" /\ tx[t].state \in {"sent", "valid", "invalid"}

\* Another round: commit_status is asked.  A round ends with a sleep of 0.5 s,
\* so no more than MaxPolls of them start before the deadline.
PollAsk(t) ==
    /\ Polling(t)
    /\ polls[t] < MaxPolls
    /\ polls' = [polls EXCEPT ![t] = @ + 1]
    /\ Advance(t, tx[t].state, "asking")
    /\ UNCHANGED ledgerVars

\* The answer is VALID (0) ...
PollCommitted(t) ==
    /\ tx[t].result = "asking"
    /\ tx[t].state = "valid"
    /\ Advance(t, tx[t].state, "ok")
    /\ UNCHANGED <<ledgerVars, polls>>

\* ... or a validation code above 0 ...
PollRejected(t) ==
    /\ tx[t].result = "asking"
    /\ tx[t].state = "invalid"
    /\ Advance(t, tx[t].state, "err")
    /\ UNCHANGED <<ledgerVars, polls>>

\* ... or the request fails, whatever became of the transaction: sleep, loop.
PollFails(t) ==
    /\ tx[t].result = "asking"
    /\ Advance(t, tx[t].state, "running")
    /\ UNCHANGED <<ledgerVars, polls>>

\* Faulty variant of PollTimeout: giving up is reported as success.
PollTimeoutIsOk(t) ==
    /\ Polling(t)
    /\ polls[t] > 0
    /\ Advance(t, tx[t].state, "ok")
    /\ UNCHANGED <<ledgerVars, polls>>

\* Faulty variant of PollTimeout: the poll loop has no deadline.
PollForever(t) ==
    /\ Polling(t)
    /\ polls[t] > 0
    /\ polls' = [polls EXCEPT ![t] = 0]
    /\ UNCHANGED <<ledgerVars, tx>>

\* More than 30 s have passed, which is looked at between two rounds only:
\* the transaction may be valid already, or be committed later.
PollTimeout(t) ==
    /\ Polling(t)
    /\ polls[t] > 0
    /\ Advance(t, tx[t].state, "err")
    /\ UNCHANGED <<ledgerVars, polls>>
-----------------------------------------------------------------------------
ClientStep(t) ==
    \/ Submit(t) \/ SubmitFails(t)
    \/ PollAsk(t) \/ PollCommitted(t) \/ PollRejected(t) \/ PollFails(t)
    \/ PollTimeout(t)

NetworkStep(t) == Commit(t) \/ Invalidate(t)

Next ==
    \/ \E t \in Txs, fn \in Fns, c \in Creds :
            Endorse(t, fn, c) \/ EndorseFails(t, fn, c)
    \/ \E t \in DOMAIN tx : ClientStep(t) \/ NetworkStep(t)

Spec == Init /\ [][Next]_vars

\* The tokio runtime keeps scheduling a call that has started: its loop goes
\* on and its clock runs.  Nothing is assumed of the gateway, to whose requests
\* the code sets no deadline, or of the orderer: a request may stay open and a
\* transaction pending for ever.
Fairness ==
    \A t \in Txs : WF_vars(t \in DOMAIN tx /\ (PollAsk(t) \/ PollTimeout(t)))

FairSpec == Spec /\ Fairness
-----------------------------------------------------------------------------
\* A credential that the ledger says is revoked stays revoked, whatever late,
\* concurrent or retried transaction is committed afterwards: the blind
\* PutState of RecordCredentialMetadata never hits a revoked key.
RevocationIsPermanent ==
    [][\A c \in Creds : meta[c] = "revoked" => meta'[c] = "revoked"]_vars

\* The flag in the world state and the event stream agree: a credential is
\* revoked exactly when some committed event announces it, so the daemon can
\* rebuild the revocation list from the events alone.
RevokedIffAnnounced ==
    \A c \in Creds : Contract!IsRevoked(c) <=> Contract!Announced(c)

\* What a caller may conclude from Ok: a credential whose revocation returned
\* Ok is revoked, one whose record returned Ok exists - at that moment and for
\* ever after, since this is an invariant of the later states too.
OkIsDurable ==
    \A t \in DOMAIN tx : tx[t].result = "ok" =>
        IF tx[t].fn = "RevokeCredential" THEN meta[tx[t].cred] = "revoked"
                                         ELSE meta[tx[t].cred] # "absent"

\* A revocation that loses an MVCC race returns Err, but then the credential
\* is revoked all the same: only another revocation can have changed the key.
LostRaceIsRevoked ==
    \A t \in DOMAIN tx : tx[t].state = "invalid" => meta[tx[t].cred] = "revoked"

\* The call is suspended at submit() or at a commit_status request.
InRequest(t) ==
    /\ t \in DOMAIN tx
    /\ \/ tx[t].state = "endorsed" /\ tx[t].result = "running"
       \/ tx[t].result = "asking"

\* A caller of invoke_chaincode returns, even if every request for the commit
\* status fails and the transaction is never committed, unless a single
\* request of it stays open for ever: the deadline of 30 s is looked at between
\* two requests, so it bounds the rounds and not the call.
EveryCallReturns ==
    \A t \in Txs :
        \/ <>[]InRequest(t)
        \/ t \in DOMAIN tx ~> t \in DOMAIN tx /\ tx[t].result \in {"ok", "err"}

\* The distributed execution is serialisable: every step is one atomic
\* chaincode transaction of DztaContract or leaves its state alone.
ContractSpec == Contract!Spec
=============================================================================
