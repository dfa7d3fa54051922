----------------------------- MODULE EdgeFilter -----------------------------
(***************************************************************************)
(* The Envoy Wasm filter (src/dzta-edge-wasm/src/lib.rs).  The filter runs *)
(* in every Envoy worker thread, one request at a time per thread; the     *)
(* SharedData store is common to all of them (one vm_id) and lives in the  *)
(* memory of the Envoy process.  A request that is refused without a       *)
(* change of state (401, 403, 500 ...) is a stuttering step.               *)
(***************************************************************************)
CONSTANTS Creds,        \* revocation ids: the ids of credentials
          Workers,      \* Envoy worker threads
          NoCred,       \* "no id" / "no request being verified"
          Config        \* PluginConfig of the listener: mode and admin_token

VARIABLES shared,       \* ids with "revoked.<id>" = "true" in SharedData
          gate,         \* worker -> the credential whose proof it verifies
          passed        \* history: worker/credential pairs let through while
                        \* the id was in SharedData (cleared by a restart)

vars == <<shared, gate, passed>>

TypeOK ==
    /\ shared \subseteq Creds
    /\ gate \in [Workers -> Creds \cup {NoCred}]
    /\ passed \subseteq Workers \X Creds

Init ==
    /\ shared = {}
    /\ gate = [w \in Workers |-> NoCred]
    /\ passed = {}
-----------------------------------------------------------------------------
\* The guards of /_wasm_admin/revoke, in order: 403, 401, 400, else go on.
AdminStatus(token, id) ==
    IF Config.mode # "admin_enabled" THEN 403
    ELSE IF token = "" \/ token # Config.admin_token THEN 401
    ELSE IF id = NoCred THEN 400
    ELSE 200

\* Faulty variant of AdminStore: one key holds the last id only.
AdminStoreOverwrites(c) ==
    /\ shared' = {c}
    /\ UNCHANGED <<gate, passed>>

\* set_shared_data succeeded: the id is marked for every worker, 200.
AdminStore(c) ==
    /\ shared' = shared \cup {c}
    /\ UNCHANGED <<gate, passed>>

\* Faulty variant of NotMarked: the status is looked up, the answer ignored.
NotMarkedIgnored(c) == TRUE

\* get_shared_data("revoked.<id>") is not "true".
NotMarked(c) == c \notin shared

\* A public request with the three headers, up to the SharedData lookup: it
\* goes on to the proof if the id is not marked there.
GateRead(w, c) ==
    /\ gate[w] = NoCred
    /\ NotMarked(c)
    /\ gate' = [gate EXCEPT ![w] = c]
    /\ UNCHANGED <<shared, passed>>

\* verify_zkp returned Ok(true): Action::Continue.
GateContinue(w) ==
    /\ gate[w] # NoCred
    /\ gate' = [gate EXCEPT ![w] = NoCred]
    /\ passed' = passed \cup {<<w, c>> : c \in {gate[w]} \cap shared}
    /\ UNCHANGED shared

\* verify_zkp returned Ok(false): 403, or Err: 400.
GateReject(w) ==
    /\ gate[w] # NoCred
    /\ gate' = [gate EXCEPT ![w] = NoCred]
    /\ UNCHANGED <<shared, passed>>

\* External: the Envoy process restarts; SharedData and the requests are gone.
Restart ==
    /\ shared' = {}
    /\ gate' = [w \in Workers |-> NoCred]
    /\ passed' = {}

PublicNext ==
    \E w \in Workers :
        \/ \E c \in Creds : GateRead(w, c)
        \/ GateContinue(w)
        \/ GateReject(w)

\* After an id is in SharedData, a worker lets at most one request for it
\* through, the one whose lookup came before: a worker that has done so never
\* gets another request for that id as far as the proof.
OnePassPerWorker ==
    \A w \in Workers, c \in Creds : <<w, c>> \in passed => gate[w] # c
=============================================================================
