---------------------- MODULE RevocationPipelineProofs ----------------------
(***************************************************************************)
(* Proofs about RevocationPipeline, for any number of credentials, workers *)
(* events, faults and restarts.                                            *)
(***************************************************************************)
EXTENDS RevocationPipeline, TLAPS

-----------------------------------------------------------------------------
(* The inductive invariant. *)

\* What the stream carries is revoked on the ledger.
EventsAreRevoked == \A i \in 1..Len(events) : meta[events[i]] = "revoked"

\* The daemon never runs ahead of the stream, and pushes an event it has read.
DaemonBehindStream ==
    /\ cursor <= batchEnd
    /\ batchEnd <= Len(events)
    /\ push # "idle" => cursor >= 1 /\ stream = "open"

\* A push has lost at most as many attempts as POSTs have failed at all.
RetriesLeft == push # "idle" => retries >= 1 /\ retries + postFaults >= MaxRetries

\* A pair in the history stands for an id that is still marked.
PassedAreShared == \A w \in Workers, c \in Creds : <<w, c>> \in passed => c \in shared

IndInv ==
    /\ TypeOK
    /\ EventsAreRevoked
    /\ DaemonBehindStream
    /\ RetriesLeft
    /\ PassedAreShared
    /\ OnlyRevokedBlocked
    /\ NoGapWithoutLoss
    /\ OnePassPerWorker
-----------------------------------------------------------------------------
(* Each lemma below is about one kind of step and one part of the state.   *)

\* The credential being pushed is revoked.
LEMMA TargetRevoked ==
    ASSUME IndInv, push # "idle"
    PROVE  /\ Daemon!Target \in Creds
           /\ meta[Daemon!Target] = "revoked"
           /\ cursor \in 1..Len(events)
<1>1. cursor \in 1..Len(events)
  BY DEF IndInv, TypeOK, Daemon!TypeOK, Ledger!TypeOK, DaemonBehindStream
<1> QED
  BY <1>1 DEF IndInv, TypeOK, Ledger!TypeOK, EventsAreRevoked, Daemon!Target

\* The invariant holds initially.
LEMMA InitIndInv == Init => IndInv
<1> SUFFICES ASSUME Init PROVE IndInv
  OBVIOUS
<1> USE DEF Init, Ledger!Init, Daemon!Init, Edge!Init
<1>1. Len(events) = 0
  OBVIOUS
<1>2. 1..Len(events) = {}
  BY <1>1
<1>3. TypeOK
  BY BoundsAssumption DEF TypeOK, Ledger!TypeOK, Ledger!Status, Daemon!TypeOK, Edge!TypeOK
<1>4. EventsAreRevoked
  BY <1>2 DEF EventsAreRevoked
<1>5. DaemonBehindStream /\ RetriesLeft
  BY <1>1 DEF DaemonBehindStream, RetriesLeft
<1>6. PassedAreShared /\ OnlyRevokedBlocked /\ OnePassPerWorker
  BY DEF PassedAreShared, OnlyRevokedBlocked, OnePassPerWorker, Edge!OnePassPerWorker
<1>7. NoGapWithoutLoss
  BY DEF NoGapWithoutLoss, Daemon!Settled
<1> QED
  BY <1>3, <1>4, <1>5, <1>6, <1>7 DEF IndInv

\* Recording a fresh credential.
LEMMA IssuePreserves ==
    ASSUME IndInv, NEW c \in Creds, Issue(c)
    PROVE  IndInv'
<1> USE DEF IndInv
<1>1. /\ meta[c] = "absent"
      /\ meta' \in [Creds -> Ledger!Status]
      /\ \A d \in Creds : d # c => meta'[d] = meta[d]
      /\ UNCHANGED <<events, daemonVars, edgeVars, late, faultVars>>
  BY DEF Issue, Ledger!Issue, Ledger!RecordCredentialMetadata, Ledger!Status,
     TypeOK, Ledger!TypeOK
<1> USE DEF daemonVars, edgeVars, faultVars
<1>2. TypeOK'
  BY <1>1 DEF TypeOK, Ledger!TypeOK, Daemon!TypeOK, Edge!TypeOK
<1>3. EventsAreRevoked'
  BY <1>1 DEF EventsAreRevoked, TypeOK, Ledger!TypeOK
<1>4. OnlyRevokedBlocked'
  BY <1>1 DEF OnlyRevokedBlocked, Ledger!IsRevoked, TypeOK, Edge!TypeOK
<1>5. DaemonBehindStream' /\ RetriesLeft' /\ PassedAreShared'
  BY <1>1 DEF DaemonBehindStream, RetriesLeft, PassedAreShared
<1>6. NoGapWithoutLoss' /\ OnePassPerWorker'
  BY <1>1 DEF NoGapWithoutLoss, Daemon!Settled, OnePassPerWorker, Edge!OnePassPerWorker
<1> QED
  BY <1>2, <1>3, <1>4, <1>5, <1>6

\* Revoking a credential appends its event.
LEMMA RevokePreserves ==
    ASSUME IndInv, NEW c \in Creds, Revoke(c)
    PROVE  IndInv'
<1> USE DEF IndInv
<1>1. /\ meta' \in [Creds -> Ledger!Status]
      /\ \A d \in Creds : meta'[d] = IF d = c THEN "revoked" ELSE meta[d]
      /\ UNCHANGED <<daemonVars, edgeVars, late, faultVars>>
  BY DEF Revoke, Ledger!RevokeCredential, Ledger!Status, TypeOK, Ledger!TypeOK
<1>2. events' = Append(events, c) /\ events \in Seq(Creds)
  BY DEF Revoke, Ledger!RevokeCredential, TypeOK, Ledger!TypeOK
<1>3. /\ events' \in Seq(Creds)
      /\ Len(events) \in Nat
      /\ Len(events') = Len(events) + 1
      /\ \A i \in 1..Len(events) : events'[i] = events[i]
      /\ events'[Len(events) + 1] = c
  <2>1. /\ Append(events, c) \in Seq(Creds)
        /\ Len(events) \in Nat
        /\ Len(Append(events, c)) = Len(events) + 1
        /\ \A i \in 1..Len(events) : Append(events, c)[i] = events[i]
        /\ Append(events, c)[Len(events) + 1] = c
    BY <1>2
  <2> QED
    BY <1>2, <2>1
<1> USE DEF daemonVars, edgeVars, faultVars
<1>4. TypeOK'
  BY <1>1, <1>3 DEF TypeOK, Ledger!TypeOK, Daemon!TypeOK, Edge!TypeOK
<1>5. EventsAreRevoked'
  <2>1. \A i \in 1..Len(events) : events[i] \in Creds
    BY <1>2
  <2> QED
    BY <1>1, <1>3, <2>1 DEF EventsAreRevoked
<1>6. OnlyRevokedBlocked'
  BY <1>1 DEF OnlyRevokedBlocked, Ledger!IsRevoked, TypeOK, Edge!TypeOK
<1>7. DaemonBehindStream' /\ RetriesLeft' /\ PassedAreShared'
  BY <1>1, <1>3 DEF DaemonBehindStream, RetriesLeft, PassedAreShared, TypeOK, Daemon!TypeOK
<1>8. NoGapWithoutLoss'
  <2>1. Daemon!Settled \subseteq 1..Len(events)
    BY <1>3 DEF Daemon!Settled, DaemonBehindStream, TypeOK, Daemon!TypeOK
  <2>2. Daemon!Settled' = Daemon!Settled
    BY <1>1 DEF Daemon!Settled
  <2> QED
    BY <1>1, <1>3, <2>1, <2>2 DEF NoGapWithoutLoss
<1>9. OnePassPerWorker'
  BY <1>1 DEF OnePassPerWorker, Edge!OnePassPerWorker
<1> QED
  BY <1>4, <1>5, <1>6, <1>7, <1>8, <1>9

\* The steps of the daemon that touch neither the ledger nor the edge.
LEMMA DaemonPreserves ==
    ASSUME IndInv, DaemonStep \/ StreamFault
    PROVE  IndInv'
<1> USE DEF IndInv
<1>1. UNCHANGED <<meta, events, shared, gate, passed, late, postFaults, envoyRestarts>>
  BY DEF DaemonStep, StreamFault, ledgerVars, edgeVars, faultVars
<1>2. EventsAreRevoked' /\ PassedAreShared' /\ OnePassPerWorker'
  BY <1>1 DEF EventsAreRevoked, PassedAreShared, OnePassPerWorker, Edge!OnePassPerWorker
<1>3. /\ streamFaults' \in 0..MaxStreamFaults
      /\ daemonRestarts' \in 0..MaxDaemonRestarts
  BY BoundsAssumption DEF DaemonStep, StreamFault, faultVars, TypeOK
<1>4. Daemon!TypeOK' /\ DaemonBehindStream' /\ RetriesLeft'
  <2> USE <1>1, BoundsAssumption DEF TypeOK, Ledger!TypeOK, Daemon!TypeOK, DaemonBehindStream, RetriesLeft
  <2>1. Len(events) \in Nat
    OBVIOUS
  <2>2. CASE Daemon!Connect
    BY <2>1, <2>2 DEF Daemon!Connect
  <2>6. CASE Daemon!ConnectFails \/ Daemon!StreamFails \/ Daemon!StreamEnds
    <3>1. backoff' \in 1..MaxBackoff
      BY <2>6 DEF Daemon!ConnectFails, Daemon!StreamFails, Daemon!StreamEnds, Daemon!Doubled
    <3>2. UNCHANGED <<cursor, batchEnd, push, retries>>
      BY <2>6 DEF Daemon!ConnectFails, Daemon!StreamFails, Daemon!StreamEnds
    <3>3. stream' \in {"connecting", "open"} /\ push = "idle"
      BY <2>6 DEF Daemon!ConnectFails, Daemon!StreamFails, Daemon!StreamEnds, Daemon!Polling
    <3> QED
      BY <2>1, <3>1, <3>2, <3>3
  <2>3. CASE Daemon!Receive
    BY <2>1, <2>3 DEF Daemon!Receive, Daemon!Polling
  <2>4. CASE Daemon!TakeEvent
    BY <2>1, <2>4 DEF Daemon!TakeEvent
  <2>5. CASE Daemon!Post
    BY <2>1, <2>5 DEF Daemon!Post
  <2> QED
    BY <2>2, <2>3, <2>4, <2>5, <2>6 DEF DaemonStep, StreamFault
<1>5. cache' \subseteq Creds /\ \A c \in cache' : meta[c] = "revoked"
  <2>1. cache \subseteq Creds /\ \A c \in cache : meta[c] = "revoked"
    BY DEF TypeOK, OnlyRevokedBlocked, Ledger!IsRevoked
  <2>2. CASE Daemon!TakeEvent
    <3>1. cursor + 1 \in 1..Len(events)
      BY <2>2 DEF Daemon!TakeEvent, DaemonBehindStream, TypeOK, Daemon!TypeOK, Ledger!TypeOK
    <3>2. events[cursor + 1] \in Creds /\ meta[events[cursor + 1]] = "revoked"
      BY <3>1 DEF EventsAreRevoked, TypeOK, Ledger!TypeOK
    <3> QED
      BY <2>1, <2>2, <3>2 DEF Daemon!TakeEvent
  <2>3. CASE UNCHANGED cache
    BY <2>1, <2>3
  <2> QED
    BY <2>2, <2>3 DEF DaemonStep, StreamFault, Daemon!Connect, Daemon!Receive, Daemon!Post,
       Daemon!ConnectFails, Daemon!StreamFails, Daemon!StreamEnds
<1>6. TypeOK'
  BY <1>1, <1>3, <1>4, <1>5 DEF TypeOK, Ledger!TypeOK, Edge!TypeOK
<1>7. OnlyRevokedBlocked'
  BY <1>1, <1>5 DEF OnlyRevokedBlocked, Ledger!IsRevoked
<1>8. NoGapWithoutLoss'
  <2>1. Daemon!Settled' \subseteq Daemon!Settled
    <3> USE DEF Daemon!Settled, TypeOK, Daemon!TypeOK
    <3>1. CASE UNCHANGED <<cursor, push>>
      BY <3>1
    <3>2. CASE Daemon!Connect
      BY <3>2 DEF Daemon!Connect, RetriesLeft, DaemonBehindStream
    <3>3. CASE Daemon!TakeEvent
      BY <3>3 DEF Daemon!TakeEvent
    <3>4. CASE Daemon!Post
      BY <3>4 DEF Daemon!Post
    <3> QED
      BY <3>1, <3>2, <3>3, <3>4 DEF DaemonStep, StreamFault, Daemon!Receive,
         Daemon!ConnectFails, Daemon!StreamFails, Daemon!StreamEnds
  <2> QED
    BY <1>1, <2>1 DEF NoGapWithoutLoss
<1> QED
  BY <1>2, <1>4, <1>6, <1>7, <1>8

\* A push that ends or loses an attempt, with or without a stored id.
LEMMA PostFailsPreserves ==
    ASSUME IndInv, Daemon!PostFails, postFaults' = postFaults + 1,
           UNCHANGED events
    PROVE  Daemon!TypeOK' /\ DaemonBehindStream' /\ RetriesLeft'
<1> USE BoundsAssumption DEF IndInv, TypeOK, Ledger!TypeOK, Daemon!TypeOK,
        DaemonBehindStream, RetriesLeft
<1>1. retries' = retries - 1 /\ retries \in 1..MaxRetries
  BY DEF Daemon!PostFails
<1>2. retries' = 0 => push' = "idle"
  BY DEF Daemon!PostFails, Daemon!AttemptsOver
<1>3. push' \in {"idle", "ready"} /\ push = "posted"
      /\ UNCHANGED <<stream, cursor, batchEnd, backoff>>
  BY DEF Daemon!PostFails
<1> QED
  BY <1>1, <1>2, <1>3

\* Marking a revoked credential in SharedData keeps the edge's part.
LEMMA StorePreserves ==
    ASSUME IndInv, NEW c \in Creds, meta[c] = "revoked", Edge!AdminStore(c),
           UNCHANGED <<meta, cache>>, late' \subseteq late
    PROVE  Edge!TypeOK' /\ PassedAreShared' /\ OnlyRevokedBlocked' /\ OnePassPerWorker'
           /\ shared \subseteq shared' /\ c \in shared'
<1> USE DEF IndInv, Edge!AdminStore
<1>1. shared' = shared \cup {c} /\ UNCHANGED <<gate, passed>>
  OBVIOUS
<1>2. Edge!TypeOK'
  BY <1>1 DEF TypeOK, Edge!TypeOK
<1>3. PassedAreShared' /\ OnePassPerWorker'
  BY <1>1 DEF PassedAreShared, OnePassPerWorker, Edge!OnePassPerWorker
<1>4. OnlyRevokedBlocked'
  BY <1>1 DEF OnlyRevokedBlocked, Ledger!IsRevoked
<1> QED
  BY <1>1, <1>2, <1>3, <1>4

\* A POST handled by the admin endpoint, acknowledged or not.
LEMMA InjectPreserves ==
    ASSUME IndInv, Inject \/ InjectUnacked
    PROVE  IndInv'
<1> USE DEF IndInv
<1>1. /\ push = "posted"
      /\ UNCHANGED <<meta, events, cursor, cache, late, streamFaults, daemonRestarts, envoyRestarts>>
      /\ Edge!AdminStore(Daemon!Target)
  BY DEF Inject, InjectUnacked, ledgerVars, faultVars, Daemon!PostAcked, Daemon!PostFails
<1>2. postFaults' \in 0..MaxPostFaults /\ postFaults <= postFaults'
  BY BoundsAssumption DEF Inject, InjectUnacked, faultVars, TypeOK
<1>3. Daemon!TypeOK' /\ DaemonBehindStream' /\ RetriesLeft'
  <2>1. CASE Inject
    BY <1>1, <2>1 DEF Inject, Daemon!PostAcked, faultVars, TypeOK, Daemon!TypeOK,
       DaemonBehindStream, RetriesLeft
  <2>2. CASE InjectUnacked
    BY <1>1, <2>2, PostFailsPreserves DEF InjectUnacked
  <2> QED
    BY <2>1, <2>2
<1>4. /\ Daemon!Target \in Creds
      /\ meta[Daemon!Target] = "revoked"
      /\ cursor \in 1..Len(events)
  BY <1>1, TargetRevoked
<1>5. /\ Edge!TypeOK' /\ PassedAreShared' /\ OnlyRevokedBlocked' /\ OnePassPerWorker'
      /\ shared \subseteq shared' /\ Daemon!Target \in shared'
  BY <1>1, <1>4, StorePreserves
<1>6. TypeOK' /\ EventsAreRevoked'
  BY <1>1, <1>2, <1>3, <1>5 DEF TypeOK, Ledger!TypeOK, EventsAreRevoked
<1>7. NoGapWithoutLoss'
  <2>1. Daemon!Settled' \subseteq 1..cursor /\ Daemon!Settled = 1..(cursor - 1)
    BY <1>1, <1>4 DEF Daemon!Settled
  <2>2. 1..cursor = 1..(cursor - 1) \cup {cursor}
    BY <1>4 DEF TypeOK, Daemon!TypeOK
  <2>3. SUFFICES ASSUME envoyRestarts' = 0, postFaults' < MaxRetries,
                        NEW i \in Daemon!Settled'
                 PROVE  events[i] \in shared'
    BY <1>1 DEF NoGapWithoutLoss
  <2>4. envoyRestarts = 0 /\ postFaults < MaxRetries
    BY <1>1, <1>2, <2>3, BoundsAssumption DEF TypeOK
  <2>5. CASE i = cursor
    BY <1>5, <2>5 DEF Daemon!Target
  <2>6. CASE i \in 1..(cursor - 1)
    BY <1>5, <2>1, <2>4, <2>6 DEF NoGapWithoutLoss
  <2> QED
    BY <2>1, <2>2, <2>3, <2>5, <2>6
<1> QED
  BY <1>3, <1>5, <1>6, <1>7

\* A POST that is refused, or that times out and stays on the wire.
LEMMA PostFaultPreserves ==
    ASSUME IndInv, PostRefused \/ PostTimesOut
    PROVE  IndInv'
<1> USE DEF IndInv
<1>1. /\ push = "posted"
      /\ postFaults' = postFaults + 1
      /\ Daemon!PostFails
      /\ UNCHANGED <<meta, events, cursor, cache, shared, gate, passed, streamFaults,
                     daemonRestarts, envoyRestarts>>
      /\ late' \subseteq late \cup {Daemon!Target}
  BY DEF PostRefused, PostTimesOut, ledgerVars, edgeVars, Daemon!PostFails
<1>2. postFaults' \in 0..MaxPostFaults
  BY BoundsAssumption DEF PostRefused, PostTimesOut, TypeOK
<1>3. Daemon!TypeOK' /\ DaemonBehindStream' /\ RetriesLeft'
  BY <1>1, PostFailsPreserves
<1>4. /\ Daemon!Target \in Creds
      /\ meta[Daemon!Target] = "revoked"
      /\ cursor \in 1..Len(events)
  BY <1>1, TargetRevoked
<1>5. TypeOK' /\ EventsAreRevoked' /\ PassedAreShared' /\ OnePassPerWorker'
  BY <1>1, <1>2, <1>3, <1>4 DEF TypeOK, Ledger!TypeOK, Edge!TypeOK, EventsAreRevoked,
     PassedAreShared, OnePassPerWorker, Edge!OnePassPerWorker
<1>6. OnlyRevokedBlocked'
  BY <1>1, <1>4 DEF OnlyRevokedBlocked, Ledger!IsRevoked
<1>7. NoGapWithoutLoss'
  <2>1. CASE push' = "idle"
    <3>1. retries - 1 = 0
      BY <1>1, <2>1 DEF Daemon!PostFails, Daemon!AttemptsOver
    <3>2. postFaults' >= MaxRetries
      BY <1>1, <3>1, BoundsAssumption DEF RetriesLeft, TypeOK, Daemon!TypeOK
    <3> QED
      BY <1>2, <3>2, BoundsAssumption DEF NoGapWithoutLoss
  <2>2. CASE push' # "idle"
    <3>1. Daemon!Settled' = Daemon!Settled
      BY <1>1, <2>2 DEF Daemon!Settled
    <3>2. postFaults' < MaxRetries => postFaults < MaxRetries
      BY <1>1, BoundsAssumption DEF TypeOK
    <3> QED
      BY <1>1, <3>1, <3>2 DEF NoGapWithoutLoss
  <2> QED
    BY <2>1, <2>2
<1> QED
  BY <1>3, <1>5, <1>6, <1>7

\* A late POST that is handled after the daemon has given up on it.
LEMMA LateInjectPreserves ==
    ASSUME IndInv, NEW c \in Creds, LateInject(c)
    PROVE  IndInv'
<1> USE DEF IndInv
<1>1. /\ UNCHANGED <<meta, events, stream, cursor, batchEnd, push, retries, backoff, cache,
                     postFaults, streamFaults, daemonRestarts, envoyRestarts>>
      /\ c \in late /\ late' \subseteq late
      /\ Edge!AdminStore(c)
  BY DEF LateInject, ledgerVars, daemonVars, faultVars
<1>2. meta[c] = "revoked"
  BY <1>1 DEF OnlyRevokedBlocked, Ledger!IsRevoked
<1>3. /\ Edge!TypeOK' /\ PassedAreShared' /\ OnlyRevokedBlocked' /\ OnePassPerWorker'
      /\ shared \subseteq shared'
  BY <1>1, <1>2, StorePreserves
<1>4. TypeOK' /\ EventsAreRevoked' /\ DaemonBehindStream' /\ RetriesLeft'
  BY <1>1, <1>3 DEF TypeOK, Ledger!TypeOK, Daemon!TypeOK, EventsAreRevoked,
     DaemonBehindStream, RetriesLeft
<1>5. NoGapWithoutLoss'
  BY <1>1, <1>3 DEF NoGapWithoutLoss, Daemon!Settled
<1> QED
  BY <1>3, <1>4, <1>5

\* The three steps of a public request.
LEMMA PublicPreserves ==
    ASSUME IndInv, PublicRequest
    PROVE  IndInv'
<1> USE DEF IndInv
<1>1. /\ UNCHANGED <<meta, events, stream, cursor, batchEnd, push, retries, backoff, cache,
                     late, postFaults, streamFaults, daemonRestarts, envoyRestarts>>
      /\ Edge!PublicNext
  BY DEF PublicRequest, ledgerVars, daemonVars, faultVars
<1>2. shared' = shared
  BY <1>1 DEF Edge!PublicNext, Edge!GateRead, Edge!GateContinue, Edge!GateReject
<1>3. Edge!TypeOK' /\ PassedAreShared' /\ OnePassPerWorker'
  <2> USE <1>2 DEF TypeOK, Edge!TypeOK, PassedAreShared, OnePassPerWorker, Edge!OnePassPerWorker
  <2>1. ASSUME NEW w \in Workers, NEW c \in Creds, Edge!GateRead(w, c)
        PROVE  Edge!TypeOK' /\ PassedAreShared' /\ OnePassPerWorker'
    BY <2>1 DEF Edge!GateRead, Edge!NotMarked
  <2>2. ASSUME NEW w \in Workers, Edge!GateContinue(w)
        PROVE  Edge!TypeOK' /\ PassedAreShared' /\ OnePassPerWorker'
    <3>1. /\ gate' \in [Workers -> Creds \cup {NoCred}]
          /\ \A v \in Workers : gate'[v] = IF v = w THEN NoCred ELSE gate[v]
          /\ passed' = passed \cup {<<w, c>> : c \in {gate[w]} \cap shared}
      BY <2>2 DEF Edge!GateContinue
    <3>2. \A v \in Workers, c \in Creds :
             <<v, c>> \in passed' => <<v, c>> \in passed \/ (v = w /\ c \in shared)
      BY <3>1
    <3>3. passed' \subseteq Workers \X Creds
      BY <3>1
    <3> QED
      BY <3>1, <3>2, <3>3, NoCredAssumption
  <2>3. ASSUME NEW w \in Workers, Edge!GateReject(w)
        PROVE  Edge!TypeOK' /\ PassedAreShared' /\ OnePassPerWorker'
    BY <2>3, NoCredAssumption DEF Edge!GateReject
  <2> QED
    BY <1>1, <2>1, <2>2, <2>3 DEF Edge!PublicNext
<1>4. TypeOK' /\ EventsAreRevoked' /\ DaemonBehindStream' /\ RetriesLeft'
  BY <1>1, <1>3 DEF TypeOK, Ledger!TypeOK, Daemon!TypeOK, EventsAreRevoked,
     DaemonBehindStream, RetriesLeft
<1>5. NoGapWithoutLoss' /\ OnlyRevokedBlocked'
  BY <1>1, <1>2 DEF NoGapWithoutLoss, Daemon!Settled, OnlyRevokedBlocked, Ledger!IsRevoked
<1> QED
  BY <1>3, <1>4, <1>5

\* A restart of the daemon.
LEMMA DaemonRestartPreserves ==
    ASSUME IndInv, DaemonRestart
    PROVE  IndInv'
<1> USE DEF IndInv
<1>1. /\ UNCHANGED <<meta, events, shared, gate, passed, postFaults, streamFaults, envoyRestarts>>
      /\ daemonRestarts' \in 0..MaxDaemonRestarts
      /\ Daemon!Restart
  BY BoundsAssumption DEF DaemonRestart, ledgerVars, edgeVars, TypeOK
<1>2. late' \subseteq Creds /\ \A c \in late' : meta[c] = "revoked"
  <2>1. late \subseteq Creds /\ \A c \in late : meta[c] = "revoked"
    BY DEF TypeOK, OnlyRevokedBlocked, Ledger!IsRevoked
  <2>2. CASE late' = late
    BY <2>1, <2>2
  <2>3. CASE push = "posted" /\ late' = late \cup {Daemon!Target}
    BY <2>1, <2>3, TargetRevoked
  <2> QED
    BY <2>2, <2>3 DEF DaemonRestart
<1> USE DEF Daemon!Restart
<1>3. TypeOK'
  BY <1>1, <1>2, BoundsAssumption DEF TypeOK, Ledger!TypeOK, Daemon!TypeOK, Edge!TypeOK
<1>4. EventsAreRevoked' /\ PassedAreShared' /\ OnePassPerWorker'
  BY <1>1 DEF EventsAreRevoked, PassedAreShared, OnePassPerWorker, Edge!OnePassPerWorker
<1>5. Len(events) \in Nat
  BY DEF TypeOK, Ledger!TypeOK
<1>6. DaemonBehindStream' /\ RetriesLeft'
  BY <1>1, <1>5 DEF DaemonBehindStream, RetriesLeft
<1>7. OnlyRevokedBlocked'
  BY <1>1, <1>2 DEF OnlyRevokedBlocked, Ledger!IsRevoked
<1>8. NoGapWithoutLoss'
  BY <1>1 DEF NoGapWithoutLoss, Daemon!Settled
<1> QED
  BY <1>3, <1>4, <1>6, <1>7, <1>8

\* A restart of Envoy.
LEMMA EnvoyRestartPreserves ==
    ASSUME IndInv, EnvoyRestart
    PROVE  IndInv'
<1> USE DEF IndInv
<1>1. /\ UNCHANGED <<meta, events, stream, cursor, batchEnd, push, retries, backoff, cache,
                     postFaults, streamFaults, daemonRestarts>>
      /\ shared' = {} /\ late' = {} /\ passed' = {}
      /\ gate' = [w \in Workers |-> NoCred]
      /\ envoyRestarts' \in 0..MaxEnvoyRestarts /\ envoyRestarts' # 0
  BY BoundsAssumption DEF EnvoyRestart, Edge!Restart, ledgerVars, daemonVars, TypeOK
<1>2. TypeOK' /\ EventsAreRevoked' /\ DaemonBehindStream' /\ RetriesLeft'
  BY <1>1 DEF TypeOK, Ledger!TypeOK, Daemon!TypeOK, Edge!TypeOK, EventsAreRevoked,
     DaemonBehindStream, RetriesLeft
<1>3. PassedAreShared' /\ OnePassPerWorker' /\ NoGapWithoutLoss'
  BY <1>1 DEF PassedAreShared, OnePassPerWorker, Edge!OnePassPerWorker, NoGapWithoutLoss
<1>4. OnlyRevokedBlocked'
  BY <1>1 DEF OnlyRevokedBlocked, Ledger!IsRevoked
<1> QED
  BY <1>2, <1>3, <1>4

\* Every step preserves the invariant.
LEMMA NextIndInv == IndInv /\ [Next]_vars => IndInv'
<1> SUFFICES ASSUME IndInv, [Next]_vars PROVE IndInv'
  OBVIOUS
<1>1. ASSUME NEW c \in Creds, Issue(c) \/ Revoke(c) \/ LateInject(c)
      PROVE  IndInv'
  BY <1>1, IssuePreserves, RevokePreserves, LateInjectPreserves
<1>2. CASE UNCHANGED vars
  <2>1. TypeOK'
    BY <1>2 DEF IndInv, vars, ledgerVars, daemonVars, edgeVars, faultVars,
       TypeOK, Ledger!TypeOK, Daemon!TypeOK, Edge!TypeOK
  <2> QED
    BY <1>2, <2>1 DEF IndInv, vars, ledgerVars, daemonVars, edgeVars, faultVars,
     EventsAreRevoked, DaemonBehindStream, RetriesLeft, PassedAreShared, OnlyRevokedBlocked,
     Ledger!IsRevoked, NoGapWithoutLoss, Daemon!Settled, OnePassPerWorker, Edge!OnePassPerWorker
<1> QED
  BY <1>1, <1>2, DaemonPreserves, InjectPreserves, PostFaultPreserves, PublicPreserves,
     DaemonRestartPreserves, EnvoyRestartPreserves DEF Next
LEMMA Invariance == Spec => []IndInv
<1>1. Init => IndInv
  BY InitIndInv
<1>2. IndInv /\ [Next]_vars => IndInv'
  BY NextIndInv
<1> QED
  BY <1>1, <1>2, PTL DEF Spec
-----------------------------------------------------------------------------
\* Every reachable state of ledger, daemon and edge is well typed; in
\* particular the backoff stays between 1 and MaxBackoff seconds and the
\* attempt counter of a push never passes zero.
THEOREM TypeCorrect == Spec => []TypeOK
<1>1. IndInv => TypeOK
  BY DEF IndInv
<1> QED
  BY <1>1, Invariance, PTL

\* The edge, the daemon's cache and the POSTs on the wire name only
\* credentials that the chaincode has revoked.
THEOREM NoFalseBlock == Spec => []OnlyRevokedBlocked
<1>1. IndInv => OnlyRevokedBlocked
  BY DEF IndInv
<1> QED
  BY <1>1, Invariance, PTL

\* No event is left behind by the daemon while fewer POSTs have failed than
\* one push has attempts and Envoy has kept its memory.
THEOREM NoGap == Spec => []NoGapWithoutLoss
<1>1. IndInv => NoGapWithoutLoss
  BY DEF IndInv
<1> QED
  BY <1>1, Invariance, PTL

\* The window between a worker's lookup and its verification lets at most one
\* request for a blocked credential through per worker.
THEOREM BoundedWindow == Spec => []OnePassPerWorker
<1>1. IndInv => OnePassPerWorker
  BY DEF IndInv
<1> QED
  BY <1>1, Invariance, PTL

\* The abstract set of revoked credentials.
Revoked == {c \in Creds : Ledger!IsRevoked(c)}

\* Ledger, daemon and edge together implement the abstract revocation service.
THEOREM Refinement == Spec => ServiceSpec
<1>1. Init => Service!Init
  BY DEF Init, Ledger!Init, Ledger!IsRevoked, Edge!Init, Service!Init
<1>2. IndInv /\ [Next]_vars => [Service!Next]_<<Revoked, shared>>
  <2> SUFFICES ASSUME IndInv, [Next]_vars
               PROVE  [Service!Next]_<<Revoked, shared>>
    OBVIOUS
  <2> USE DEF Service!Next
  <2>1. ASSUME UNCHANGED meta PROVE Revoked' = Revoked
    BY <2>1 DEF Revoked, Ledger!IsRevoked
  <2>2. ASSUME NEW c \in Creds, Issue(c)
        PROVE  UNCHANGED <<Revoked, shared>>
    <3>1. meta[c] = "absent" /\ meta'[c] = "active" /\ UNCHANGED shared
          /\ \A d \in Creds : d # c => meta'[d] = meta[d]
      BY <2>2 DEF Issue, Ledger!Issue, Ledger!RecordCredentialMetadata, edgeVars,
         IndInv, TypeOK, Ledger!TypeOK
    <3> QED
      BY <3>1 DEF Revoked, Ledger!IsRevoked
  <2>3. ASSUME NEW c \in Creds, Revoke(c)
        PROVE  Service!Revoke(c)
    <3>1. /\ \A d \in Creds : meta'[d] = IF d = c THEN "revoked" ELSE meta[d]
          /\ UNCHANGED shared
      BY <2>3 DEF Revoke, Ledger!RevokeCredential, edgeVars, IndInv, TypeOK, Ledger!TypeOK
    <3>2. Revoked' = Revoked \cup {c}
      BY <3>1 DEF Revoked, Ledger!IsRevoked
    <3> QED
      BY <3>1, <3>2 DEF Service!Revoke, Revoked
  <2>4. ASSUME NEW c \in Creds, LateInject(c)
        PROVE  Service!Block(c)
    <3>1. UNCHANGED meta /\ c \in late /\ shared' = shared \cup {c}
      BY <2>4 DEF LateInject, ledgerVars, Edge!AdminStore
    <3>2. c \in Revoked
      BY <3>1 DEF Revoked, IndInv, OnlyRevokedBlocked
    <3> QED
      BY <2>1, <3>1, <3>2 DEF Service!Block, Revoked
  <2>5. CASE Inject \/ InjectUnacked
    <3>1. UNCHANGED meta /\ push # "idle" /\ shared' = shared \cup {Daemon!Target}
      BY <2>5 DEF Inject, InjectUnacked, ledgerVars, Edge!AdminStore, Daemon!PostAcked,
         Daemon!PostFails
    <3>2. Daemon!Target \in Creds /\ Daemon!Target \in Revoked
      BY <3>1, TargetRevoked DEF Revoked, Ledger!IsRevoked
    <3>3. Service!Block(Daemon!Target)
      BY <2>1, <3>1, <3>2 DEF Service!Block, Revoked
    <3> QED
      BY <3>2, <3>3
  <2>6. CASE DaemonStep \/ StreamFault \/ PostRefused \/ PostTimesOut \/ DaemonRestart
             \/ PublicRequest \/ UNCHANGED vars
    <3>1. UNCHANGED <<meta, shared>>
      BY <2>6 DEF DaemonStep, StreamFault, PostRefused, PostTimesOut, DaemonRestart,
         PublicRequest, Edge!PublicNext, Edge!GateRead, Edge!GateContinue, Edge!GateReject,
         ledgerVars, edgeVars, vars
    <3> QED
      BY <2>1, <3>1
  <2>7. CASE EnvoyRestart
    <3>1. UNCHANGED meta /\ shared' = {}
      BY <2>7 DEF EnvoyRestart, Edge!Restart, ledgerVars
    <3> QED
      BY <2>1, <3>1 DEF Service!Forget, Revoked
  <2> QED
    BY <2>2, <2>3, <2>4, <2>5, <2>6, <2>7 DEF Next
<1> QED
  BY <1>1, <1>2, Invariance, PTL DEF Spec, ServiceSpec, Service!Spec, Revoked
=============================================================================
