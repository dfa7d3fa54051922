------------------------- MODULE RevocationPipeline -------------------------
(***************************************************************************)
(* The path of a revocation: chaincode -> event stream -> daemon -> admin  *)
(* endpoint -> SharedData -> the workers that admit public requests.  The  *)
(* daemon and Envoy are two containers of one pod that fail separately.    *)
(***************************************************************************)
EXTENDS Naturals, Sequences

CONSTANTS Creds, Workers, NoCred, Config,
          Token,            \* the daemon's WASM_ADMIN_TOKEN
          MaxRetries, MaxBackoff,
          MaxEvents,        \* bound: revocation transactions
          MaxPostFaults,    \* bound: failed attempts of the daemon's POST
          MaxStreamFaults,  \* bound: broken streams and failed connects
          MaxDaemonRestarts, \* bound: restarts of the daemon
          MaxEnvoyRestarts  \* bound: restarts of Envoy

ASSUME NoCredAssumption == NoCred \notin Creds
ASSUME BoundsAssumption ==
    /\ MaxRetries \in Nat \ {0}
    /\ MaxBackoff \in Nat \ {0}
    /\ MaxEvents \in Nat
    /\ MaxPostFaults \in Nat
    /\ MaxStreamFaults \in Nat
    /\ MaxDaemonRestarts \in Nat
    /\ MaxEnvoyRestarts \in Nat

VARIABLES meta, events,                                       \* ledger
          stream, cursor, batchEnd, push, retries, backoff, cache, \* daemon
          shared, gate, passed,                               \* edge
          late,             \* ids of POSTs that timed out but are on the wire
          postFaults, streamFaults, daemonRestarts, envoyRestarts \* used budgets

Ledger == INSTANCE DztaContract
Daemon == INSTANCE RevocationDaemon
Edge == INSTANCE EdgeFilter

ledgerVars == <<meta, events>>
daemonVars == <<stream, cursor, batchEnd, push, retries, backoff, cache>>
edgeVars == <<shared, gate, passed>>
faultVars == <<postFaults, streamFaults, daemonRestarts, envoyRestarts>>
vars == <<ledgerVars, daemonVars, edgeVars, late, faultVars>>

TypeOK ==
    /\ Ledger!TypeOK
    /\ Daemon!TypeOK
    /\ cache \subseteq Creds
    /\ Edge!TypeOK
    /\ late \subseteq Creds
    /\ postFaults \in 0..MaxPostFaults
    /\ streamFaults \in 0..MaxStreamFaults
    /\ daemonRestarts \in 0..MaxDaemonRestarts
    /\ envoyRestarts \in 0..MaxEnvoyRestarts

Init ==
    /\ Ledger!Init
    /\ Daemon!Init
    /\ Edge!Init
    /\ late = {}
    /\ postFaults = 0
    /\ streamFaults = 0
    /\ daemonRestarts = 0
    /\ envoyRestarts = 0
-----------------------------------------------------------------------------
Issue(c) ==
    /\ Ledger!Issue(c)
    /\ UNCHANGED <<daemonVars, edgeVars, late, faultVars>>

Revoke(c) ==
    /\ Len(events) < MaxEvents
    /\ Ledger!RevokeCredential(c)
    /\ UNCHANGED <<daemonVars, edgeVars, late, faultVars>>

DaemonStep ==
    /\ Daemon!Connect \/ Daemon!Receive \/ Daemon!TakeEvent \/ Daemon!Post
    /\ UNCHANGED <<ledgerVars, edgeVars, late, faultVars>>

StreamFault ==
    /\ streamFaults < MaxStreamFaults
    /\ streamFaults' = streamFaults + 1
    /\ Daemon!ConnectFails \/ Daemon!StreamFails \/ Daemon!StreamEnds
    /\ UNCHANGED <<ledgerVars, edgeVars, late, postFaults, daemonRestarts, envoyRestarts>>

\* The POST is handled and its 200 reaches the daemon.
Inject ==
    /\ Daemon!PostAcked
    /\ Edge!AdminStatus(Token, Daemon!Target) = 200
    /\ Edge!AdminStore(Daemon!Target)
    /\ UNCHANGED <<ledgerVars, late, faultVars>>

\* The POST is handled, but the answer is lost or later than 5 s.
InjectUnacked ==
    /\ postFaults < MaxPostFaults
    /\ postFaults' = postFaults + 1
    /\ Daemon!PostFails
    /\ Edge!AdminStatus(Token, Daemon!Target) = 200
    /\ Edge!AdminStore(Daemon!Target)
    /\ UNCHANGED <<ledgerVars, late, streamFaults, daemonRestarts, envoyRestarts>>

\* Envoy is not reachable or answers 4xx/5xx: nothing is stored.
PostRefused ==
    /\ postFaults < MaxPostFaults
    /\ postFaults' = postFaults + 1
    /\ Daemon!PostFails
    /\ UNCHANGED <<ledgerVars, edgeVars, late, streamFaults, daemonRestarts, envoyRestarts>>

\* The daemon gives up on a POST that Envoy has yet to read.
PostTimesOut ==
    /\ postFaults < MaxPostFaults
    /\ postFaults' = postFaults + 1
    /\ Daemon!PostFails
    /\ late' = late \cup {Daemon!Target}
    /\ UNCHANGED <<ledgerVars, edgeVars, streamFaults, daemonRestarts, envoyRestarts>>

LateInject(c) ==
    /\ c \in late
    /\ late' = late \ {c}
    /\ Edge!AdminStatus(Token, c) = 200
    /\ Edge!AdminStore(c)
    /\ UNCHANGED <<ledgerVars, daemonVars, faultVars>>

PublicRequest ==
    /\ Edge!PublicNext
    /\ UNCHANGED <<ledgerVars, daemonVars, late, faultVars>>

\* A POST that is on the wire then may still be handled.
DaemonRestart ==
    /\ daemonRestarts < MaxDaemonRestarts
    /\ daemonRestarts' = daemonRestarts + 1
    /\ late' = late \/ (push = "posted" /\ late' = late \cup {Daemon!Target})
    /\ Daemon!Restart
    /\ UNCHANGED <<ledgerVars, edgeVars, postFaults, streamFaults, envoyRestarts>>

\* Connections to Envoy are reset, so late POSTs are lost too; one that waits
\* for its answer fails, or reaches the new process.
EnvoyRestart ==
    /\ envoyRestarts < MaxEnvoyRestarts
    /\ envoyRestarts' = envoyRestarts + 1
    /\ Edge!Restart
    /\ late' = {}
    /\ UNCHANGED <<ledgerVars, daemonVars, postFaults, streamFaults, daemonRestarts>>

Next ==
    \/ \E c \in Creds : Issue(c) \/ Revoke(c) \/ LateInject(c)
    \/ DaemonStep
    \/ StreamFault
    \/ Inject
    \/ InjectUnacked
    \/ PostRefused
    \/ PostTimesOut
    \/ PublicRequest
    \/ DaemonRestart
    \/ EnvoyRestart

Spec == Init /\ [][Next]_vars

\* The daemon's loop and Envoy's admin listener keep running: an attempt that
\* is neither lost nor refused is answered.  Nothing is assumed of issuers,
\* administrators, clients, late POSTs, faults or restarts.
Fairness == WF_vars(DaemonStep) /\ WF_vars(Inject)

FairSpec == Spec /\ Fairness
-----------------------------------------------------------------------------
\* The edge never blocks a credential that the ledger does not say is
\* revoked, whatever is replayed, retried, late or restarted.
OnlyRevokedBlocked ==
    \A c \in shared \cup late \cup cache : Ledger!IsRevoked(c)

\* A daemon that has not used up the attempts of any push, facing an Envoy
\* that has not restarted, leaves no gap: every event it is done with is in
\* SharedData, in whatever order failures and replays came.
NoGapWithoutLoss ==
    (envoyRestarts = 0 /\ postFaults < MaxRetries) =>
        \A i \in Daemon!Settled : events[i] \in shared

\* A worker admits at most one request for a blocked credential.
OnePassPerWorker == Edge!OnePassPerWorker

\* The daemon has yet to reach an event of c: in the open stream, or in the
\* replay that the next connection brings.
Pending(c) ==
    \/ stream = "connecting" /\ Ledger!IsRevoked(c)
    \/ \E i \in (cursor + 1)..Len(events) : events[i] = c

\* A revocation the daemon has yet to reach gets blocked, if fewer than
\* MaxRetries POSTs still fail.  As the stream restarts at block 0, each
\* reconnection so repairs what an Envoy restart, a permanent push failure or
\* a daemon restart has lost before.
PendingGetsBlocked ==
    \A c \in Creds :
        (Pending(c) /\ MaxPostFaults - postFaults < MaxRetries) ~> (c \in shared)

\* The pipeline implements the abstract service.
Service == INSTANCE RevocationService
    WITH revoked <- {c \in Creds : Ledger!IsRevoked(c)}, blocked <- shared

ServiceSpec == Service!Spec
=============================================================================
