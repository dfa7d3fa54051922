------------------------- MODULE GatewayAccessProofs -------------------------
(***************************************************************************)
(* The safety properties of GatewayAccess, for any number of calls,        *)
(* workers, credentials and restarts, and for any bundles, configurations  *)
(* and answers within the assumptions of that module.                      *)
(***************************************************************************)
EXTENDS GatewayAccess, TLAPS

\* A request is in one place: on the wire, with one worker, behind the edge or
\* handled.  What has not begun is nowhere; what is answered is not under way,
\* unless Envoy has answered and the service may yet handle it.
OnePlace ==
    \A k \in Calls :
        /\ call[k].at = "idle" => k \notin handled /\ ~Under(k)
        /\ k \in DOMAIN answer => k \in upstream \/ ~Under(k)
        /\ k \in handled => ~Under(k)
        /\ k \in wire => k \notin upstream /\ \A w \in Workers : serving[w] # k
        /\ k \in upstream => \A w \in Workers : serving[w] # k
        /\ \A v, w \in Workers : (serving[v] = k /\ serving[w] = k) => v = w

\* Where an answer that is on its way may come from.
AnswerTells ==
    \A k \in DOMAIN answer :
        /\ is_success(answer[k]) => k \in handled
        /\ answer[k].status \notin UpstreamStatuses \cup EnvoyStatuses => k \notin handled /\ ~Under(k)
        /\ answer[k].status \notin EdgeStatuses \cup EnvoyStatuses => k \in handled

\* What was marked before the call began is still marked, and the edge has not
\* let the request past the lookup.
MarkedIsStopped ==
    \A k \in Calls : call[k].marked =>
        /\ call[k].bundle.revocation_id \in shared
        /\ k \notin upstream /\ k \notin handled
        /\ \A w \in Workers : serving[w] # k

Authorized(k) == call[k].bundle.proof = "valid" /\ call[k].bundle.revocation_id \in Creds

\* A worker verifies a proof for an id that can be looked up.
EdgeAuthorizes ==
    /\ \A w \in Workers :
          serving[w] # NoCall => call[serving[w]].bundle.revocation_id \in Creds
    /\ \A k \in upstream \cup handled : Authorized(k)

IInv ==
    /\ TypeOK
    /\ OnePlace /\ AnswerTells /\ MarkedIsStopped /\ EdgeAuthorizes
    /\ OutcomeIsTelling
-----------------------------------------------------------------------------
CallState == {IdleCall} \cup [at : Returned \cup {"waiting"}, method : Methods,
                              bundle : Bundles, status : Nat, marked : BOOLEAN]

\* The edge finds under the name of a header what the caller gave for it, or
\* nothing; it never finds a revocation id that is blank.
LEMMA HeaderIsSent ==
    ASSUME TypeOK, NEW k \in Calls
    PROVE  /\ proof_header(k) \in {None, call[k].bundle.proof}
           /\ \/ rev_status_header(k) = None
              \/ /\ rev_status_header(k) = call[k].bundle.revocation_id
                 /\ rev_status_header(k) \in Creds
<1> DEFINE b == call[k].bundle
           Values(name) == {h[2] : h \in {g \in RequestOf(k) : g[1] = name}}
<1>1. b.revocation_id \in Creds \cup {None, Blank}
  <2>1. call[k] \in CallState
    BY DEF TypeOK, CallState
  <2>2. CASE call[k] = IdleCall
    BY <2>2 DEF IdleCall, NoBundle, HeaderBundle
  <2>3. CASE call[k] # IdleCall
    BY <2>1, <2>3, BundlesAssumption DEF CallState
  <2> QED
    BY <2>2, <2>3
<1>2. /\ config.proof_header # "x-dzta-revocation-id"
      /\ config.public_inputs_header \notin {"x-dzta-proof", "x-dzta-revocation-id"}
      /\ config.revocation_header # "x-dzta-proof"
  BY ConfigsAssumption DEF TypeOK
<1>3. RequestOf(k) \subseteq {<<config.proof_header, b.proof>>,
                              <<config.public_inputs_header, b.public_inputs>>,
                              <<config.revocation_header, b.revocation_id>>}
  BY DEF RequestOf, RequestHeaders, proof_headers
<1>4. \A h \in RequestOf(k) : h[2] \notin {None, Blank}
  BY DEF RequestOf, RequestHeaders, proof_headers
<1>5. \A v \in Values("x-dzta-proof") : v = b.proof
  BY <1>2, <1>3
<1>6. \A v \in Values("x-dzta-revocation-id") : v = b.revocation_id /\ v \notin {None, Blank}
  BY <1>2, <1>3, <1>4
<1>7. proof_header(k) \in {None} \cup Values("x-dzta-proof")
  BY DEF proof_header, Header
<1>8. rev_status_header(k) \in {None} \cup Values("x-dzta-revocation-id")
  BY DEF rev_status_header, Header
<1> QED
  BY <1>1, <1>5, <1>6, <1>7, <1>8

\* An answer that is a text is a response with its status.
LEMMA AnswerIs ==
    ASSUME NEW status \in Nat
    PROVE  /\ Answer(status, "text") \in Response
           /\ Answer(status, "text").status = status
  BY DEF Answer, Response

\* What the answers on their way are once one is added.
LEMMA ReplyEffect ==
    ASSUME TypeOK, NEW k \in Calls, NEW a \in Response, Reply(k, a), UNCHANGED call
    PROVE  /\ DOMAIN answer' \subseteq {i \in Calls : call[i].at = "waiting"}
           /\ answer' \in [DOMAIN answer' -> Response]
           /\ \A j \in DOMAIN answer' : \/ j = k /\ answer'[j] = a
                                        \/ j \in DOMAIN answer /\ answer'[j] = answer[j]
  BY DEF TypeOK, Reply, Response

\* An answer that is taken from the network, or lost, leaves the others.
LEMMA ReturnEffect ==
    ASSUME TypeOK, NEW k \in Calls, NEW outcome \in Returned, NEW status \in Nat,
           Return(k, outcome, status)
    PROVE  /\ call[k].at = "waiting"
           /\ call'[k] = [call[k] EXCEPT !.at = outcome, !.status = status]
           /\ \A j \in Calls \ {k} : call'[j] = call[j]
           /\ call' \in [Calls -> CallState]
           /\ DOMAIN answer' = DOMAIN answer \ {k}
           /\ answer' \in [DOMAIN answer' -> Response]
           /\ \A j \in DOMAIN answer' : answer'[j] = answer[j]
<1>1. /\ call \in [Calls -> CallState]
      /\ call[k].at = "waiting"
      /\ call' = [call EXCEPT ![k] = [call[k] EXCEPT !.at = outcome, !.status = status]]
  BY DEF TypeOK, Return, CallState
<1>2. call[k] \in [at : Returned \cup {"waiting"}, method : Methods,
                   bundle : Bundles, status : Nat, marked : BOOLEAN]
  BY <1>1 DEF CallState, IdleCall
<1>3. [call[k] EXCEPT !.at = outcome, !.status = status] \in CallState
  BY <1>2 DEF CallState
<1>4. call' = [call EXCEPT ![k] = [call[k] EXCEPT !.at = outcome, !.status = status]]
  BY <1>1
<1>5. /\ DOMAIN answer' = DOMAIN answer \ {k}
      /\ answer' \in [DOMAIN answer' -> Response]
      /\ \A j \in DOMAIN answer' : answer'[j] = answer[j]
  BY DEF Return, TypeOK, Response
<1> QED
  BY <1>1, <1>3, <1>4, <1>5
-----------------------------------------------------------------------------
LEMMA InitIInv == Init => IInv
<1> SUFFICES ASSUME Init PROVE IInv
  OBVIOUS
<1>1. TypeOK
  BY RestartAssumption DEF Init, TypeOK, Edge!Init, Edge!TypeOK, validated
<1>2. \A k \in Calls : ~Under(k) /\ call[k].at = "idle" /\ call[k].marked = FALSE
  BY CallAssumption DEF Init, Under, IdleCall
<1>3. /\ wire = {} /\ upstream = {} /\ handled = {} /\ DOMAIN answer = {}
      /\ \A w \in Workers : serving[w] = NoCall
  BY DEF Init
<1> QED
  BY <1>1, <1>2, <1>3, CallAssumption
  DEF IInv, OnePlace, AnswerTells, MarkedIsStopped, EdgeAuthorizes, OutcomeIsTelling, Tells

\* A call begins: its request is on the wire and nowhere else.
LEMMA BeginStep ==
    ASSUME IInv, NEW k \in Calls, NEW method \in Methods, NEW bundle \in Bundles,
           Begin(k, method, bundle)
    PROVE  IInv'
<1> DEFINE new == [at |-> "waiting", method |-> method, bundle |-> bundle,
                   status |-> 0, marked |-> bundle.revocation_id \in shared]
<1>1. new \in CallState
  <2>1. (bundle.revocation_id \in shared) \in BOOLEAN
    OBVIOUS
  <2> QED
    BY <2>1 DEF CallState
<1>2. new.marked => bundle.revocation_id \in shared
  OBVIOUS
<1>3. new.at = "waiting" /\ new.bundle = bundle
  OBVIOUS
<1>4. /\ call \in [Calls -> CallState]
      /\ call[k] = IdleCall
      /\ call' = [call EXCEPT ![k] = new]
      /\ wire' = wire \cup {k}
      /\ UNCHANGED <<shared, gate, passed, pvk, config, serving, upstream, handled, answer, restarts>>
  BY DEF IInv, TypeOK, CallState, Begin, edgeVars
<1> HIDE DEF new
<1>5. call'[k] = new /\ \A j \in Calls \ {k} : call'[j] = call[j]
  BY <1>4
<1>6. call[k].at = "idle"
  BY <1>4 DEF IdleCall
<1>7. TypeOK'
  <2>1. call' \in [Calls -> CallState]
    BY <1>1, <1>4
  <2>2. DOMAIN answer' \subseteq {j \in Calls : call'[j].at = "waiting"}
    BY <1>3, <1>4, <1>5, <1>6 DEF IInv, TypeOK
  <2> QED
    BY <1>4, <2>1, <2>2 DEF IInv, TypeOK, CallState, Edge!TypeOK
<1>8. k \notin handled /\ k \notin wire /\ k \notin upstream /\ k \notin DOMAIN answer
      /\ \A w \in Workers : serving[w] # k
  BY <1>6 DEF IInv, OnePlace, Under, TypeOK
<1>9. OnePlace'
  BY <1>3, <1>4, <1>5, <1>8 DEF IInv, OnePlace, Under
<1>10. AnswerTells'
  <2>1. \A j \in DOMAIN answer : j # k /\ (Under(j)' <=> Under(j))
    BY <1>4, <1>8 DEF Under
  <2> QED
    BY <1>4, <2>1 DEF IInv, AnswerTells
<1>11. MarkedIsStopped'
  BY <1>2, <1>3, <1>4, <1>5, <1>8 DEF IInv, MarkedIsStopped
<1>12. EdgeAuthorizes'
  <2>1. \A w \in Workers : serving[w] \in Calls \cup {NoCall}
    BY DEF IInv, TypeOK
  <2> QED
    BY <1>4, <1>5, <1>8, <2>1 DEF IInv, EdgeAuthorizes, Authorized, TypeOK
<1>13. OutcomeIsTelling'
  BY <1>3, <1>4, <1>5 DEF IInv, OutcomeIsTelling, Tells, Under
<1> QED
  BY <1>7, <1>9, <1>10, <1>11, <1>12, <1>13 DEF IInv

\* A call returns with an outcome that tells the truth about its request.
LEMMA ReturnStep ==
    ASSUME IInv, NEW k \in Calls, NEW outcome \in Returned, NEW status \in Nat,
           Return(k, outcome, status), Tells(k, outcome, status)
    PROVE  IInv'
<1>1. UNCHANGED <<shared, gate, passed, pvk, config, wire, serving, upstream, handled, restarts>>
  BY DEF Return, edgeVars
<1>2. /\ call[k].at = "waiting"
      /\ call'[k] = [call[k] EXCEPT !.at = outcome, !.status = status]
      /\ \A j \in Calls \ {k} : call'[j] = call[j]
      /\ call' \in [Calls -> CallState]
      /\ DOMAIN answer' = DOMAIN answer \ {k}
      /\ answer' \in [DOMAIN answer' -> Response]
      /\ \A j \in DOMAIN answer' : answer'[j] = answer[j]
  BY ReturnEffect DEF IInv
<1>3. /\ call'[k].at = outcome
      /\ call'[k].status = status
      /\ call'[k].method = call[k].method
      /\ call'[k].bundle = call[k].bundle
      /\ call'[k].marked = call[k].marked
  <2>1. call[k] \in [at : Returned \cup {"waiting"}, method : Methods,
                     bundle : Bundles, status : Nat, marked : BOOLEAN]
    BY <1>2 DEF IInv, TypeOK, IdleCall
  <2> QED
    BY <1>2, <2>1
<1>4. TypeOK'
  <2>1. DOMAIN answer' \subseteq {j \in Calls : call'[j].at = "waiting"}
    BY <1>2 DEF IInv, TypeOK
  <2> QED
    BY <1>1, <1>2, <2>1 DEF IInv, TypeOK, CallState, Response, Edge!TypeOK
<1>5. \A j \in Calls : /\ call'[j].method = call[j].method
                       /\ call'[j].bundle = call[j].bundle
                       /\ call'[j].marked = call[j].marked
                       /\ call'[j].at = IF j = k THEN outcome ELSE call[j].at
                       /\ call'[j].status = IF j = k THEN status ELSE call[j].status
  BY <1>2, <1>3
<1>6. outcome # "idle"
  BY DEF Returned
<1>7. OnePlace'
  BY <1>1, <1>2, <1>5, <1>6 DEF IInv, OnePlace, Under
<1>8. AnswerTells'
  BY <1>1, <1>2 DEF IInv, AnswerTells, Under
<1>9. MarkedIsStopped'
  BY <1>1, <1>5 DEF IInv, MarkedIsStopped
<1>10. EdgeAuthorizes'
  <2>1. \A w \in Workers : serving[w] \in Calls \cup {NoCall}
    BY DEF IInv, TypeOK
  <2>2. upstream \subseteq Calls /\ handled \subseteq Calls
    BY DEF IInv, TypeOK
  <2> QED
    BY <1>1, <1>5, <2>1, <2>2 DEF IInv, EdgeAuthorizes, Authorized
<1>11. OutcomeIsTelling'
  BY <1>1, <1>5 DEF IInv, OutcomeIsTelling, Tells, Under
<1> QED
  BY <1>4, <1>7, <1>8, <1>9, <1>10, <1>11 DEF IInv
-----------------------------------------------------------------------------
\* The caller's steps.
LEMMA ClientStep ==
    ASSUME IInv, NEW k \in Calls, ClientNext(k)
    PROVE  IInv'
<1>1. ASSUME NEW method \in Methods, NEW bundle \in Bundles, Begin(k, method, bundle)
      PROVE  IInv'
  BY <1>1, BeginStep
<1>2. ASSUME Return(k, "http", 0)
      PROVE  IInv'
  <2>1. "http" \in Returned /\ 0 \in Nat /\ Tells(k, "http", 0)
    BY DEF Returned, Tells
  <2> QED
    BY <1>2, <2>1, ReturnStep
<1>3. ASSUME NEW a, k \in DOMAIN answer, a.status = answer[k].status,
             Return(k, Outcome(call[k].method, a), answer[k].status)
      PROVE  IInv'
  <2> DEFINE outcome == Outcome(call[k].method, a)
  <2>1. is_success(a) <=> is_success(answer[k])
    BY <1>3 DEF is_success
  <2>2. outcome \in Returned
    BY DEF Outcome, handle_response, parse_json, Returned
  <2>3. (outcome \in {"ok", "serialization"} /\ Submits(call[k].method)) => is_success(a)
    BY DEF Outcome, handle_response
  <2> HIDE DEF outcome
  <2>5. answer[k].status \in Nat
    BY <1>3 DEF IInv, TypeOK, Response
  <2>6. Tells(k, outcome, answer[k].status)
    BY <1>3, <2>1, <2>3 DEF IInv, AnswerTells, Tells
  <2>7. Return(k, outcome, answer[k].status)
    BY <1>3 DEF outcome
  <2> QED
    BY <2>2, <2>5, <2>6, <2>7, ReturnStep
<1>4. CASE Receive(k)
  BY <1>3, <1>4 DEF Receive
<1>5. CASE BodyFails(k)
  <2> DEFINE a == Answer(answer[k].status, "unreadable")
  <2>1. k \in DOMAIN answer /\ Return(k, Outcome(call[k].method, a), answer[k].status)
    BY <1>5 DEF BodyFails
  <2>2. a.status = answer[k].status
    BY DEF Answer
  <2> HIDE DEF a
  <2> QED
    BY <1>3, <2>1, <2>2
<1> QED
  BY <1>1, <1>2, <1>4, <1>5 DEF ClientNext, TimesOut, ConnectionFails

\* The edge refuses a request: it is answered, and is nowhere any more.
LEMMA RefusalStep ==
    ASSUME IInv, NEW k \in Calls, NEW a \in Response, a.status \in EdgeStatuses, Reply(k, a),
           UNCHANGED <<shared, passed, pvk, config, call, upstream, handled, restarts>>,
           gate' \in [Workers -> Creds \cup {Blank} \cup {None}],
           serving' \in [Workers -> Calls \cup {NoCall}],
           wire' \subseteq wire, k \notin wire',
           \A w \in Workers : serving'[w] \in {NoCall, serving[w]} /\ serving'[w] # k,
           k \notin handled, k \notin upstream
    PROVE  IInv'
<1>1. /\ DOMAIN answer' \subseteq {i \in Calls : call[i].at = "waiting"}
      /\ answer' \in [DOMAIN answer' -> Response]
      /\ \A j \in DOMAIN answer' : \/ j = k /\ answer'[j] = a
                                   \/ j \in DOMAIN answer /\ answer'[j] = answer[j]
  BY ReplyEffect DEF IInv
<1>2. TypeOK'
  BY <1>1 DEF IInv, TypeOK, Edge!TypeOK, Response
<1>3. \A j \in Calls : Under(j)' => Under(j)
  BY CallAssumption DEF Under
<1>4. ~Under(k)'
  BY DEF Under
<1>5. OnePlace'
  BY <1>1, <1>3, <1>4, CallAssumption DEF IInv, OnePlace
<1>6. AnswerTells'
  BY <1>1, <1>3, <1>4 DEF IInv, AnswerTells, TypeOK, is_success, EdgeStatuses
<1>7. MarkedIsStopped'
  BY CallAssumption DEF IInv, MarkedIsStopped
<1>8. EdgeAuthorizes'
  BY DEF IInv, EdgeAuthorizes, Authorized
<1>9. OutcomeIsTelling'
  BY <1>3 DEF IInv, OutcomeIsTelling, Tells
<1> QED
  BY <1>2, <1>5, <1>6, <1>7, <1>8, <1>9 DEF IInv

\* A worker takes a request whose id is not marked.
LEMMA ReadStep ==
    ASSUME IInv, NEW w \in Workers, NEW k \in wire, EdgeReads(w, k)
    PROVE  IInv'
<1> DEFINE id == rev_status_header(k)
<1>1. k \in Calls
  BY DEF IInv, TypeOK
<1>2. id \in Creds /\ id = call[k].bundle.revocation_id
  BY <1>1, HeaderIsSent DEF IInv, EdgeReads, HasHeaders
<1>3. /\ serving[w] = NoCall
      /\ id \notin shared
      /\ gate' = [gate EXCEPT ![w] = id]
      /\ wire' = wire \ {k}
      /\ serving' = [serving EXCEPT ![w] = k]
      /\ UNCHANGED <<shared, passed, pvk, config, call, upstream, handled, answer, restarts>>
  BY DEF EdgeReads, Edge!GateRead, Edge!NotMarked
<1> HIDE DEF id
<1>4. TypeOK'
  BY <1>1, <1>2, <1>3 DEF IInv, TypeOK, Edge!TypeOK
<1>5. serving'[w] = k /\ \A v \in Workers \ {w} : serving'[v] = serving[v]
  BY <1>3 DEF IInv, TypeOK
<1>6. \A j \in Calls : Under(j)' <=> Under(j)
  <2>1. ASSUME NEW j \in Calls \ {k}
        PROVE  Under(j)' <=> Under(j)
    BY <1>3, <1>5, CallAssumption DEF Under
  <2>2. Under(k)' /\ Under(k)
    BY <1>5 DEF Under
  <2> QED
    BY <2>1, <2>2
<1>7. OnePlace'
  BY <1>1, <1>3, <1>5, <1>6, CallAssumption DEF IInv, OnePlace
<1>8. AnswerTells'
  BY <1>3, <1>6 DEF IInv, AnswerTells, TypeOK
<1>10. MarkedIsStopped'
  BY <1>2, <1>3, <1>5 DEF IInv, MarkedIsStopped
<1>11. EdgeAuthorizes'
  BY <1>2, <1>3, <1>5 DEF IInv, EdgeAuthorizes, Authorized
<1>12. OutcomeIsTelling'
  BY <1>3, <1>6 DEF IInv, OutcomeIsTelling, Tells
<1> QED
  BY <1>4, <1>7, <1>8, <1>10, <1>11, <1>12 DEF IInv

\* A worker lets the request that it serves through.
LEMMA ContinueStep ==
    ASSUME IInv, NEW w \in Workers, EdgeContinues(w)
    PROVE  IInv'
<1>1. PICK k \in Calls : k = serving[w] /\ proof_header(k) = "valid"
  BY DEF IInv, TypeOK, EdgeContinues
<1>2. Authorized(k)
  <2>1. call[k].bundle.proof = "valid"
    BY <1>1, HeaderIsSent, TextAssumption DEF IInv
  <2> QED
    BY <1>1, <2>1 DEF IInv, EdgeAuthorizes, EdgeContinues, Authorized
<1>3. /\ upstream' = upstream \cup {k}
      /\ serving' = [serving EXCEPT ![w] = NoCall]
      /\ gate' = [gate EXCEPT ![w] = None]
      /\ passed' \subseteq passed \cup ({w} \X ({gate[w]} \cap shared))
      /\ UNCHANGED <<shared, pvk, config, call, wire, handled, answer, restarts>>
  BY <1>1 DEF EdgeContinues, Edge!GateContinue
<1>4. TypeOK'
  <2>1. passed' \subseteq Workers \X (Creds \cup {Blank})
    BY <1>3 DEF IInv, TypeOK, Edge!TypeOK
  <2> QED
    BY <1>1, <1>3, <2>1 DEF IInv, TypeOK, Edge!TypeOK
<1>5. serving[w] = k /\ serving'[w] = NoCall /\ \A v \in Workers \ {w} : serving'[v] = serving[v]
  BY <1>1, <1>3 DEF IInv, TypeOK
<1>6. \A v \in Workers \ {w} : serving[v] # k
  BY <1>1, <1>5 DEF IInv, OnePlace
<1>7. \A j \in Calls : Under(j)' <=> Under(j)
  <2>1. ASSUME NEW j \in Calls \ {k}
        PROVE  Under(j)' <=> Under(j)
    BY <1>3, <1>5, CallAssumption DEF Under
  <2>2. Under(k)' /\ Under(k)
    BY <1>3, <1>5 DEF Under
  <2> QED
    BY <2>1, <2>2
<1>8. OnePlace'
  BY <1>1, <1>3, <1>5, <1>6, <1>7, CallAssumption DEF IInv, OnePlace
<1>9. AnswerTells'
  BY <1>3, <1>7 DEF IInv, AnswerTells, TypeOK
<1>10. MarkedIsStopped'
  BY <1>1, <1>3, <1>5, CallAssumption DEF IInv, MarkedIsStopped
<1>11. EdgeAuthorizes'
  BY <1>2, <1>3, <1>5 DEF IInv, EdgeAuthorizes, Authorized
<1>12. OutcomeIsTelling'
  BY <1>3, <1>7 DEF IInv, OutcomeIsTelling, Tells
<1> QED
  BY <1>4, <1>8, <1>9, <1>10, <1>11, <1>12 DEF IInv

\* A worker refuses the request that it serves: the proof is not valid.
LEMMA RejectStep ==
    ASSUME IInv, NEW w \in Workers, EdgeRejects(w)
    PROVE  IInv'
<1>1. PICK k \in Calls : k = serving[w]
  BY DEF IInv, TypeOK, EdgeRejects
<1> DEFINE status == IF proof_header(k) = "invalid" THEN 403 ELSE 400
           a == Answer(status, "text")
<1>2. a \in Response /\ a.status \in EdgeStatuses
  <2>1. status \in Nat /\ status \in EdgeStatuses
    BY DEF EdgeStatuses
  <2> HIDE DEF status
  <2> QED
    BY <2>1, AnswerIs
<1>3. /\ Reply(k, a)
      /\ gate' = [gate EXCEPT ![w] = None]
      /\ serving' = [serving EXCEPT ![w] = NoCall]
      /\ UNCHANGED <<shared, passed, pvk, config, call, wire, upstream, handled, restarts>>
  BY <1>1 DEF EdgeRejects, Edge!GateReject
<1> HIDE DEF a
<1>4. /\ serving'[w] = NoCall
      /\ \A v \in Workers \ {w} : serving'[v] = serving[v]
      /\ serving' \in [Workers -> Calls \cup {NoCall}]
      /\ gate' \in [Workers -> Creds \cup {Blank} \cup {None}]
  BY <1>3 DEF IInv, TypeOK, Edge!TypeOK
<1>5. Under(k)
  BY <1>1 DEF Under
<1>6. k \notin handled /\ k \notin upstream /\ k \notin wire /\ \A v \in Workers \ {w} : serving[v] # k
  BY <1>1, <1>5 DEF IInv, OnePlace
<1> QED
  BY <1>2, <1>3, <1>4, <1>6, CallAssumption, RefusalStep

\* A worker's steps.
LEMMA EdgeStep ==
    ASSUME IInv, NEW w \in Workers, EdgeNext(w)
    PROVE  IInv'
<1>1. ASSUME NEW k \in wire, NEW status \in {401, 403, 500},
             wire' = wire \ {k}, Reply(k, Answer(status, "text")),
             UNCHANGED <<edgeVars, pvk, config, call, serving, upstream, handled, restarts>>
      PROVE  IInv'
  <2> DEFINE a == Answer(status, "text")
  <2>1. a \in Response /\ a.status \in EdgeStatuses
    <3>1. status \in Nat /\ status \in EdgeStatuses
      BY DEF EdgeStatuses
    <3> QED
      BY <3>1, AnswerIs
  <2>2. Reply(k, a)
    BY <1>1
  <2> HIDE DEF a
  <2>3. k \in Calls /\ Under(k)
    BY DEF IInv, TypeOK, Under
  <2>4. k \notin handled /\ k \notin upstream /\ \A v \in Workers : serving[v] # k
    BY <2>3 DEF IInv, OnePlace
  <2>5. /\ serving' \in [Workers -> Calls \cup {NoCall}]
        /\ gate' \in [Workers -> Creds \cup {Blank} \cup {None}]
    BY <1>1 DEF IInv, TypeOK, Edge!TypeOK, edgeVars
  <2> QED
    BY <1>1, <2>1, <2>2, <2>3, <2>4, <2>5, RefusalStep DEF edgeVars
<1>2. ASSUME NEW k \in wire, EdgeUnauthorized(w, k)
      PROVE  IInv'
  BY <1>1, <1>2 DEF EdgeUnauthorized
<1>3. ASSUME NEW k \in wire, EdgeRevoked(w, k)
      PROVE  IInv'
  BY <1>1, <1>3 DEF EdgeRevoked
<1>4. ASSUME NEW k \in wire, EdgeNoKey(w, k)
      PROVE  IInv'
  BY <1>1, <1>4 DEF EdgeNoKey
<1> QED
  BY <1>2, <1>3, <1>4, ReadStep, ContinueStep, RejectStep DEF EdgeNext
-----------------------------------------------------------------------------
\* The service handles a request and answers it.
LEMMA HandleStep ==
    ASSUME IInv, NEW k \in upstream,
           NEW a \in UpstreamAnswers \cup {Answer(s, "text") : s \in EnvoyStatuses},
           UpstreamHandles(k, a)
    PROVE  IInv'
<1>1. k \in Calls /\ a \in Response /\ a.status \in UpstreamStatuses \cup EnvoyStatuses
  <2>1. CASE a \in UpstreamAnswers
    BY <2>1, AnswersAssumption DEF IInv, TypeOK, UpstreamStatuses
  <2>2. CASE a \in {Answer(s, "text") : s \in EnvoyStatuses}
    BY <2>2, AnswerIs DEF IInv, TypeOK, EnvoyStatuses
  <2> QED
    BY <2>1, <2>2
<1>2. /\ Reply(k, a)
      /\ upstream' = upstream \ {k}
      /\ handled' = handled \cup {k}
      /\ UNCHANGED <<shared, gate, passed, pvk, config, call, wire, serving, restarts>>
  BY DEF UpstreamHandles, edgeVars
<1>3. /\ DOMAIN answer' \subseteq {i \in Calls : call[i].at = "waiting"}
      /\ answer' \in [DOMAIN answer' -> Response]
      /\ \A j \in DOMAIN answer' : \/ j = k /\ answer'[j] = a
                                   \/ j \in DOMAIN answer /\ answer'[j] = answer[j]
  BY <1>1, <1>2, ReplyEffect DEF IInv
<1>4. TypeOK'
  BY <1>1, <1>2, <1>3 DEF IInv, TypeOK, Edge!TypeOK, Response
<1>5. k \notin wire /\ \A w \in Workers : serving[w] # k
  BY <1>1 DEF IInv, OnePlace
<1>6. ~Under(k)' /\ Under(k)
  BY <1>2, <1>5 DEF Under
<1>7. \A j \in Calls : Under(j)' => Under(j)
  BY <1>2 DEF Under
<1>8. call[k].at # "idle"
  BY <1>1, <1>6 DEF IInv, OnePlace
<1>9. OnePlace'
  BY <1>1, <1>2, <1>3, <1>6, <1>7, <1>8 DEF IInv, OnePlace
<1>10. AnswerTells'
  BY <1>1, <1>2, <1>3, <1>6, <1>7 DEF IInv, AnswerTells, TypeOK
<1>11. MarkedIsStopped'
  BY <1>1, <1>2 DEF IInv, MarkedIsStopped
<1>12. EdgeAuthorizes'
  BY <1>2 DEF IInv, EdgeAuthorizes, Authorized
<1>13. OutcomeIsTelling'
  BY <1>2, <1>6, <1>7 DEF IInv, OutcomeIsTelling, Tells
<1> QED
  BY <1>4, <1>9, <1>10, <1>11, <1>12, <1>13 DEF IInv

\* Envoy answers a request that is behind the edge.
LEMMA EnvoyStep ==
    ASSUME IInv, NEW k \in upstream, NEW status \in EnvoyStatuses, EnvoyAnswers(k, status)
    PROVE  IInv'
<1> DEFINE a == Answer(status, "text")
<1>1. k \in Calls /\ a \in Response /\ a.status = status
  BY AnswerIs DEF IInv, TypeOK, EnvoyStatuses
<1>2. /\ Reply(k, a)
      /\ UNCHANGED <<shared, gate, passed, pvk, config, call, wire, serving, upstream, handled, restarts>>
  BY DEF EnvoyAnswers, edgeVars
<1> HIDE DEF a
<1>3. /\ DOMAIN answer' \subseteq {i \in Calls : call[i].at = "waiting"}
      /\ answer' \in [DOMAIN answer' -> Response]
      /\ \A j \in DOMAIN answer' : \/ j = k /\ answer'[j] = a
                                   \/ j \in DOMAIN answer /\ answer'[j] = answer[j]
  BY <1>1, <1>2, ReplyEffect DEF IInv
<1>4. TypeOK'
  BY <1>2, <1>3 DEF IInv, TypeOK, Edge!TypeOK, Response
<1>5. \A j \in Calls : Under(j)' <=> Under(j)
  BY <1>2 DEF Under
<1>6. OnePlace'
  BY <1>2, <1>3, <1>5 DEF IInv, OnePlace
<1>7. AnswerTells'
  BY <1>1, <1>2, <1>3, <1>5 DEF IInv, AnswerTells, TypeOK, is_success, EnvoyStatuses
<1>8. MarkedIsStopped' /\ EdgeAuthorizes'
  BY <1>2 DEF IInv, MarkedIsStopped, EdgeAuthorizes, Authorized
<1>9. OutcomeIsTelling'
  BY <1>2, <1>5 DEF IInv, OutcomeIsTelling, Tells
<1> QED
  BY <1>4, <1>6, <1>7, <1>8, <1>9 DEF IInv

\* A request behind the edge is dropped.
LEMMA DropStep ==
    ASSUME IInv, NEW k \in upstream, UpstreamDrops(k)
    PROVE  IInv'
<1>1. /\ upstream' = upstream \ {k}
      /\ UNCHANGED <<shared, gate, passed, pvk, config, call, wire, serving, handled, answer, restarts>>
  BY DEF UpstreamDrops, edgeVars
<1>2. TypeOK'
  BY <1>1 DEF IInv, TypeOK, Edge!TypeOK
<1>3. \A j \in Calls : Under(j)' => Under(j)
  BY <1>1 DEF Under
<1>4. OnePlace'
  <2>1. k \in Calls /\ ~Under(k)'
    BY <1>1 DEF IInv, TypeOK, OnePlace, Under
  <2> QED
    BY <1>1, <1>3, <2>1 DEF IInv, OnePlace
<1>5. AnswerTells' /\ MarkedIsStopped' /\ EdgeAuthorizes'
  BY <1>1, <1>3 DEF IInv, TypeOK, AnswerTells, MarkedIsStopped, EdgeAuthorizes, Authorized
<1>6. OutcomeIsTelling'
  <2>1. ASSUME NEW j \in Calls PROVE Tells(j, call[j].at, call[j].status)'
    BY <1>1, <1>3 DEF IInv, OutcomeIsTelling, Tells
  <2> QED
    BY <2>1 DEF OutcomeIsTelling
<1> QED
  BY <1>2, <1>4, <1>5, <1>6 DEF IInv

\* An id is marked.
LEMMA MarkStep ==
    ASSUME IInv, NEW c \in Creds, Mark(c)
    PROVE  IInv'
<1>1. /\ shared' = shared \cup {c}
      /\ UNCHANGED <<gate, passed, pvk, config, call, wire, serving, upstream, handled, answer, restarts>>
  BY DEF Mark, Edge!AdminStore
<1>2. TypeOK'
  BY <1>1 DEF IInv, TypeOK, Edge!TypeOK
<1>3. \A j \in Calls : Under(j)' <=> Under(j)
  BY <1>1 DEF Under
<1>4. OnePlace' /\ OutcomeIsTelling'
  BY <1>1, <1>3 DEF IInv, OnePlace, OutcomeIsTelling, Tells
<1>5. AnswerTells' /\ MarkedIsStopped' /\ EdgeAuthorizes'
  BY <1>1, <1>3 DEF IInv, TypeOK, AnswerTells, MarkedIsStopped, EdgeAuthorizes, Authorized
<1> QED
  BY <1>2, <1>4, <1>5 DEF IInv

\* Envoy restarts: it forgets the marks, and the requests within it.
LEMMA RestartStep ==
    ASSUME IInv, EnvoyRestart
    PROVE  IInv'
<1>1. /\ restarts < MaxRestarts /\ restarts' = restarts + 1
      /\ shared' = {} /\ gate' = [w \in Workers |-> None] /\ passed' = {}
      /\ serving' = [w \in Workers |-> NoCall]
      /\ upstream' = {}
      /\ call' = [k \in Calls |-> [call[k] EXCEPT !.marked = FALSE]]
      /\ UNCHANGED <<pvk, config, wire, handled, answer>>
  BY DEF EnvoyRestart, Edge!Restart
<1>2. ASSUME NEW k \in Calls
      PROVE  /\ call'[k] \in CallState
             /\ call'[k].at = call[k].at
             /\ call'[k].status = call[k].status
             /\ call'[k].method = call[k].method
             /\ call'[k].bundle = call[k].bundle
             /\ call'[k].marked = FALSE
  <2>1. call'[k] = [call[k] EXCEPT !.marked = FALSE]
    BY <1>1
  <2>2. CASE call[k] = IdleCall
    <3> DEFINE record == [at : {"idle"}, method : {None}, bundle : {NoBundle},
                       status : {0}, marked : BOOLEAN]
    <3>1. IdleCall \in record /\ IdleCall.marked = FALSE
      BY DEF IdleCall
    <3>2. call'[k] = IdleCall
      BY <2>1, <2>2, <3>1
    <3> QED
      BY <2>2, <3>1, <3>2 DEF CallState
  <2>3. CASE call[k] # IdleCall
    <3>1. call[k] \in [at : Returned \cup {"waiting"}, method : Methods,
                       bundle : Bundles, status : Nat, marked : BOOLEAN]
      BY <2>3 DEF IInv, TypeOK
    <3> QED
      BY <2>1, <3>1 DEF CallState
  <2> QED
    BY <2>2, <2>3
<1>3. TypeOK'
  <2>1. call' \in [Calls -> CallState]
    BY <1>1, <1>2
  <2>2. DOMAIN answer' \subseteq {k \in Calls : call'[k].at = "waiting"}
    BY <1>1, <1>2 DEF IInv, TypeOK
  <2>3. restarts' \in 0..MaxRestarts
    BY <1>1, RestartAssumption DEF IInv, TypeOK
  <2> QED
    BY <1>1, <2>1, <2>2, <2>3 DEF IInv, TypeOK, CallState, Edge!TypeOK
<1>4. \A j \in Calls : Under(j)' => Under(j)
  BY <1>1, CallAssumption DEF Under
<1>5. OnePlace'
  <2>1. \A j \in upstream : ~Under(j)'
    BY <1>1, CallAssumption DEF IInv, TypeOK, OnePlace, Under
  <2> QED
    BY <1>1, <1>2, <1>4, <2>1, CallAssumption DEF IInv, OnePlace
<1>6. AnswerTells'
  BY <1>1, <1>4 DEF IInv, AnswerTells, TypeOK
<1>7. MarkedIsStopped'
  BY <1>2 DEF MarkedIsStopped
<1>8. EdgeAuthorizes'
  BY <1>1, <1>2 DEF IInv, TypeOK, EdgeAuthorizes, Authorized
<1>9. OutcomeIsTelling'
  BY <1>1, <1>2, <1>4 DEF IInv, OutcomeIsTelling, Tells
<1> QED
  BY <1>3, <1>5, <1>6, <1>7, <1>8, <1>9 DEF IInv
-----------------------------------------------------------------------------
LEMMA NextIInv == IInv /\ [Next]_vars => IInv'
<1> SUFFICES ASSUME IInv, [Next]_vars PROVE IInv'
  OBVIOUS
<1>1. CASE Next
  BY <1>1, ClientStep, EdgeStep, HandleStep, EnvoyStep, DropStep, MarkStep, RestartStep DEF Next
<1>2. CASE UNCHANGED vars
  <2>1. UNCHANGED <<shared, gate, passed, pvk, config, call, wire, serving, upstream, handled, answer,
                    restarts>>
    BY <1>2 DEF vars, edgeVars
  <2>2. TypeOK'
    BY <2>1 DEF IInv, TypeOK, Edge!TypeOK
  <2>3. \A j \in Calls : Under(j)' <=> Under(j)
    BY <2>1 DEF Under
  <2>4. OnePlace' /\ OutcomeIsTelling'
    BY <2>1, <2>3 DEF IInv, OnePlace, OutcomeIsTelling, Tells
  <2>5. AnswerTells' /\ MarkedIsStopped' /\ EdgeAuthorizes'
    BY <2>1, <2>3 DEF IInv, TypeOK, AnswerTells, MarkedIsStopped, EdgeAuthorizes, Authorized
  <2> QED
    BY <2>2, <2>4, <2>5 DEF IInv
<1> QED
  BY <1>1, <1>2

\* The inductive invariant holds in every reachable state.
THEOREM Invariance == Spec => []IInv
  BY InitIInv, NextIInv, PTL DEF Spec

\* Every variable keeps its type, and an answer on its way has a caller that
\* waits for it.
THEOREM TypeCorrect == Spec => []TypeOK
<1>1. IInv => TypeOK
  BY DEF IInv
<1> QED
  BY <1>1, Invariance, PTL

\* What the caller gets from submit_proof_request, submit_proof_result and
\* request_proof (handle_response) tells whether the service has handled the
\* request, as far as the status is not one of Envoy's own, and whatever is
\* lost, late or given up on the way.
THEOREM Telling == Spec => []OutcomeIsTelling
<1>1. IInv => OutcomeIsTelling
  BY DEF IInv
<1> QED
  BY <1>1, Invariance, PTL

\* A request whose credential was marked before the call began does not get
\* past the lookup in SharedData, in any worker, until Envoy restarts.
THEOREM MarkedStopped == Spec => []MarkedIsNeverHandled
<1>1. IInv => MarkedIsNeverHandled
  BY DEF IInv, MarkedIsStopped, MarkedIsNeverHandled
<1> QED
  BY <1>1, Invariance, PTL

\* The service handles only what has a valid proof and a revocation id that
\* can be looked up: the filter of blank values in proof_headers and the edge
\* see to it together.
THEOREM HandledAuthorized == Spec => []HandledIsAuthorized
<1>1. IInv => HandledIsAuthorized
  BY DEF IInv, EdgeAuthorizes, Authorized, HandledIsAuthorized
<1> QED
  BY <1>1, Invariance, PTL
=============================================================================
