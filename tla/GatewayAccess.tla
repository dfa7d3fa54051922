---------------------------- MODULE GatewayAccess ----------------------------
(***************************************************************************)
(* Access through the edge: calls of the transport engine, the Wasm filter *)
(* in Envoy's workers, and the service behind it.  A request that its      *)
(* caller has given up is still handled, or not; a request or an answer    *)
(* that is lost is one that is never taken up, for no fairness is assumed  *)
(* of the network; credentials are marked as revoked and Envoy restarts at *)
(* any time.  A call is one request: a retry is another call.  HTTP, Envoy *)
(* and the service are external; the route has no timeout of its own, so   *)
(* that Envoy's default of 15 s holds, half of what the client waits.      *)
(***************************************************************************)
EXTENDS TransportEngine

CONSTANTS Creds,        \* revocation ids
          Workers,      \* Envoy worker threads
          Calls,        \* calls of the transport engine
          NoCall,
          Configs,      \* the TransportConfigs that are tried
          Bundles,      \* the arguments of calls; of a proof it matters
                        \* whether it is "valid", "invalid" or no proof at all
          EdgeConfig,   \* PluginConfig of the filter
          UpstreamAnswers,  \* what the service may answer
          MaxRestarts   \* bound: restarts of Envoy

ASSUME CallAssumption == NoCall \notin Calls
ASSUME TextAssumption == None \notin {Blank, "valid"} /\ {None, Blank} \cap Creds = {}
ASSUME RestartAssumption == MaxRestarts \in Nat
ASSUME BundlesAssumption == \A b \in Bundles : b.revocation_id \in Creds \cup {None, Blank}

\* What may come back: a status and a body.
Response == [status : Nat, body : {"envelope", "artifact", "text"}]
ASSUME AnswersAssumption == UpstreamAnswers \subseteq Response

\* The engine is not told to send one value under the name that the edge has
\* for another.  TransportEngine::new does not look into that.
ASSUME ConfigsAssumption ==
    \A c \in Configs :
        /\ c.proof_header \notin {"x-dzta-public-inputs", "x-dzta-revocation-id"}
        /\ c.public_inputs_header \notin {"x-dzta-proof", "x-dzta-revocation-id"}
        /\ c.revocation_header \notin {"x-dzta-proof", "x-dzta-public-inputs"}

\* Envoy's own answers: the service cannot be reached or breaks off, or the
\* time of the route is up.
EnvoyStatuses == {503, 504}
EdgeStatuses == {400, 401, 403, 500}
UpstreamStatuses == {a.status : a \in UpstreamAnswers}

VARIABLES shared, gate, passed,     \* edge
          pvk,          \* the verifying key in the filter can be read
          config,       \* the engine's configuration
          call,         \* state of each call
          wire,         \* requests on their way to the edge
          serving,      \* worker -> the call whose request it serves
          upstream,     \* requests that the edge has let through
          handled,      \* history: requests that the service has handled
          answer,       \* answers on their way to a caller that waits
          restarts

\* The edge sees texts, one of which could be blank.
Edge == INSTANCE EdgeFilter WITH Creds <- Creds \cup {Blank}, NoCred <- None,
                                 Config <- EdgeConfig

edgeVars == <<shared, gate, passed>>
vars == <<edgeVars, pvk, config, call, wire, serving, upstream, handled, answer, restarts>>

Methods == {"submit_proof_request", "submit_proof_result", "request_proof", "collect_proof"}

\* status: what was received with the outcome, 0 if nothing was.
\* marked: history, the id was marked when the call began and has been since.
IdleCall == [at |-> "idle", method |-> None, bundle |-> NoBundle, status |-> 0,
             marked |-> FALSE]
Returned == {"ok", "rejected", "serialization", "http"}

TypeOK ==
    /\ Edge!TypeOK
    /\ pvk \in BOOLEAN
    /\ config \in Configs
    /\ Blank \notin {config.envoy_url, config.proof_header, config.public_inputs_header,
                     config.revocation_header}
    /\ call \in [Calls -> {IdleCall} \cup [at : Returned \cup {"waiting"}, method : Methods,
                                            bundle : Bundles, status : Nat,
                                            marked : BOOLEAN]]
    /\ serving \in [Workers -> Calls \cup {NoCall}]
    /\ wire \subseteq Calls /\ upstream \subseteq Calls /\ handled \subseteq Calls
    /\ DOMAIN answer \subseteq {k \in Calls : call[k].at = "waiting"}
    /\ answer \in [DOMAIN answer -> Response]
    /\ restarts \in 0..MaxRestarts

Init ==
    /\ Edge!Init
    /\ pvk \in BOOLEAN
    /\ config \in {c \in Configs : validated(c)}
    /\ call = [k \in Calls |-> IdleCall]
    /\ wire = {}
    /\ serving = [w \in Workers |-> NoCall]
    /\ upstream = {}
    /\ handled = {}
    /\ answer = [k \in {} |-> None]
    /\ restarts = 0
-----------------------------------------------------------------------------
Begin(k, method, bundle) ==
    /\ call[k] = IdleCall
    /\ Accepts(method, bundle)
    /\ call' = [call EXCEPT ![k] = [at |-> "waiting", method |-> method, bundle |-> bundle,
                                    status |-> 0, marked |-> bundle.revocation_id \in shared]]
    /\ wire' = wire \cup {k}
    /\ UNCHANGED <<edgeVars, pvk, config, serving, upstream, handled, answer, restarts>>

\* A call that waits returns; an answer still on its way finds nobody.
Return(k, outcome, status) ==
    /\ call[k].at = "waiting"
    /\ call' = [call EXCEPT ![k] = [@ EXCEPT !.at = outcome, !.status = status]]
    /\ answer' = [j \in DOMAIN answer \ {k} |-> answer[j]]
    /\ UNCHANGED <<edgeVars, pvk, config, wire, serving, upstream, handled, restarts>>

Receive(k) ==
    /\ k \in DOMAIN answer
    /\ Return(k, Outcome(call[k].method, answer[k]), answer[k].status)

\* Faulty variant of TimesOut: the timeout is not given to the client.
TimesOutNever(k) == FALSE /\ UNCHANGED vars

\* reqwest's timeout, which covers the call from connecting to the body.
TimesOut(k) ==
    /\ config.timeout
    /\ Return(k, "http", 0)

\* The connection cannot be made or breaks, or the request cannot be built.
ConnectionFails(k) == Return(k, "http", 0)

\* The status has come but the body cannot be read, for which the time may
\* be up as well.
BodyFails(k) ==
    /\ k \in DOMAIN answer
    /\ Return(k, Outcome(call[k].method, Answer(answer[k].status, "unreadable")), answer[k].status)
-----------------------------------------------------------------------------
\* An answer whose caller has returned is dropped, and so is a second one.
Reply(k, a) ==
    answer' = [j \in {i \in DOMAIN answer \cup {k} : call[i].at = "waiting"} |->
                  IF j \in DOMAIN answer THEN answer[j] ELSE a]

RequestOf(k) == RequestHeaders(call[k].method, config, call[k].bundle)

\* get_http_request_header.
Header(k, name) ==
    LET values == {h[2] : h \in {g \in RequestOf(k) : g[1] = name}}
    IN  IF values = {} THEN None ELSE CHOOSE v \in values : TRUE

proof_header(k) == Header(k, "x-dzta-proof")
inputs_header(k) == Header(k, "x-dzta-public-inputs")
rev_status_header(k) == Header(k, "x-dzta-revocation-id")

HasHeaders(k) == None \notin {proof_header(k), inputs_header(k), rev_status_header(k)}

\* A worker takes a request and has no verifying key: 500 ...
EdgeNoKey(w, k) ==
    /\ k \in wire /\ serving[w] = NoCall
    /\ ~pvk
    /\ wire' = wire \ {k}
    /\ Reply(k, Answer(500, "text"))
    /\ UNCHANGED <<edgeVars, pvk, config, call, serving, upstream, handled, restarts>>

\* ... or finds a header missing: 401 ...
EdgeUnauthorized(w, k) ==
    /\ k \in wire /\ serving[w] = NoCall
    /\ pvk
    /\ ~HasHeaders(k)
    /\ wire' = wire \ {k}
    /\ Reply(k, Answer(401, "text"))
    /\ UNCHANGED <<edgeVars, pvk, config, call, serving, upstream, handled, restarts>>

\* ... or the id marked: 403 ...
EdgeRevoked(w, k) ==
    /\ k \in wire /\ serving[w] = NoCall
    /\ pvk
    /\ HasHeaders(k)
    /\ ~Edge!NotMarked(rev_status_header(k))
    /\ wire' = wire \ {k}
    /\ Reply(k, Answer(403, "text"))
    /\ UNCHANGED <<edgeVars, pvk, config, call, serving, upstream, handled, restarts>>

\* ... or goes on to verify the proof.
EdgeReads(w, k) ==
    /\ k \in wire /\ serving[w] = NoCall
    /\ pvk
    /\ HasHeaders(k)
    /\ Edge!GateRead(w, rev_status_header(k))
    /\ wire' = wire \ {k}
    /\ serving' = [serving EXCEPT ![w] = k]
    /\ UNCHANGED <<pvk, config, call, upstream, handled, answer, restarts>>

EdgeContinues(w) ==
    /\ serving[w] # NoCall
    /\ proof_header(serving[w]) = "valid"
    /\ Edge!GateContinue(w)
    /\ upstream' = upstream \cup {serving[w]}
    /\ serving' = [serving EXCEPT ![w] = NoCall]
    /\ UNCHANGED <<pvk, config, call, wire, handled, answer, restarts>>

\* Ok(false): 403; a text that is no proof, a blank one among them: 400.
EdgeRejects(w) ==
    /\ serving[w] # NoCall
    /\ proof_header(serving[w]) # "valid"
    /\ Edge!GateReject(w)
    /\ Reply(serving[w], Answer(IF proof_header(serving[w]) = "invalid" THEN 403 ELSE 400, "text"))
    /\ serving' = [serving EXCEPT ![w] = NoCall]
    /\ UNCHANGED <<pvk, config, call, wire, upstream, handled, restarts>>

\* External: the service behind Envoy handles the request.  The caller gets its
\* answer, or Envoy's own if that came first or the answer is late or breaks off.
UpstreamHandles(k, a) ==
    /\ k \in upstream
    /\ upstream' = upstream \ {k}
    /\ handled' = handled \cup {k}
    /\ Reply(k, a)
    /\ UNCHANGED <<edgeVars, pvk, config, call, wire, serving, restarts>>

\* Envoy answers before the service has handled the request, which may be
\* handled all the same.
EnvoyAnswers(k, status) ==
    /\ k \in upstream /\ k \notin DOMAIN answer
    /\ Reply(k, Answer(status, "text"))
    /\ UNCHANGED <<edgeVars, pvk, config, call, wire, serving, upstream, handled, restarts>>

\* The request never reaches the service, or the service drops it, as may
\* happen when the caller has gone.
UpstreamDrops(k) ==
    /\ k \in upstream
    /\ upstream' = upstream \ {k}
    /\ UNCHANGED <<edgeVars, pvk, config, call, wire, serving, handled, answer, restarts>>

\* The daemon's POST is stored.
Mark(c) ==
    /\ Edge!AdminStatus(EdgeConfig.admin_token, c) = 200
    /\ Edge!AdminStore(c)
    /\ UNCHANGED <<pvk, config, call, wire, serving, upstream, handled, answer, restarts>>

\* External: Envoy restarts, with SharedData and the requests in it gone.
EnvoyRestart ==
    /\ restarts < MaxRestarts
    /\ restarts' = restarts + 1
    /\ Edge!Restart
    /\ serving' = [w \in Workers |-> NoCall]
    /\ upstream' = {}
    /\ call' = [k \in Calls |-> [call[k] EXCEPT !.marked = FALSE]]
    /\ UNCHANGED <<pvk, config, wire, handled, answer>>
-----------------------------------------------------------------------------
ClientNext(k) ==
    \/ \E method \in Methods, bundle \in Bundles : Begin(k, method, bundle)
    \/ Receive(k) \/ TimesOut(k) \/ ConnectionFails(k) \/ BodyFails(k)

EdgeNext(w) ==
    \/ \E k \in wire : EdgeNoKey(w, k) \/ EdgeUnauthorized(w, k) \/ EdgeRevoked(w, k) \/ EdgeReads(w, k)
    \/ EdgeContinues(w) \/ EdgeRejects(w)

Next ==
    \/ \E k \in Calls : ClientNext(k)
    \/ \E w \in Workers : EdgeNext(w)
    \/ \E k \in upstream :
          \/ UpstreamDrops(k)
          \/ \E status \in EnvoyStatuses : EnvoyAnswers(k, status)
          \/ \E a \in UpstreamAnswers \cup {Answer(s, "text") : s \in EnvoyStatuses} :
                UpstreamHandles(k, a)
    \/ \E c \in Creds : Mark(c)
    \/ EnvoyRestart

\* The client's timer runs.  Nothing is assumed of the network, Envoy or the
\* service.
Spec == Init /\ [][Next]_vars /\ \A k \in Calls : WF_vars(TimesOut(k))
-----------------------------------------------------------------------------
Under(k) == k \in wire \/ k \in upstream \/ \E w \in Workers : serving[w] = k

\* What is so when a call has an outcome with a status.
Tells(k, outcome, status) ==
    /\ (outcome \in {"ok", "serialization"} /\ Submits(call[k].method)) => k \in handled
    /\ (outcome = "rejected" /\ status \notin UpstreamStatuses \cup EnvoyStatuses) =>
          k \notin handled /\ ~Under(k)
    /\ (outcome = "rejected" /\ status \notin EdgeStatuses \cup EnvoyStatuses) => k \in handled

\* What a caller may conclude from what it gets, whatever happens later.  Ok,
\* or an answer to a submission that cannot be read or decoded, means that the
\* service has handled the request.  A rejection with a status of the edge that
\* the service does not use means that it has not and will not; one with a
\* status of the service, that it has.  Envoy's own 503 and 504, and an HTTP
\* failure, leave it open: the request may have been handled, or may be yet.
OutcomeIsTelling == \A k \in Calls : Tells(k, call[k].at, call[k].status)

\* "request was rejected by the gateway": what is reported so has not been
\* handled, where the service itself rejects nothing.
RejectedIsNotHandled ==
    \A k \in Calls :
        (call[k].at = "rejected" /\ \A a \in UpstreamAnswers : is_success(a)) => k \notin handled

\* The service never handles a request whose credential was marked before the
\* call began, however late the edge comes to it, until Envoy forgets the mark.
MarkedIsNeverHandled ==
    \A k \in Calls : call[k].marked => k \notin handled

\* The service handles only requests with a valid proof and a revocation id
\* that can be looked up.  The edge takes a blank id for one that is not
\* marked; that none gets there is the client's filter of blank values.  So
\* request_proof and collect_proof, which send no headers, get no further than
\* the edge.
HandledIsAuthorized ==
    \A k \in handled :
        call[k].bundle.proof = "valid" /\ call[k].bundle.revocation_id \in Creds

\* With a timeout every call returns, even if the request or the answer is
\* lost; without one (a configuration that leaves it out) it may wait for ever.
EveryCallReturns ==
    config.timeout => \A k \in Calls : call[k].at = "waiting" ~> call[k].at \in Returned
=============================================================================
