--------------------------- MODULE TransportEngine ---------------------------
(***************************************************************************)
(* The client of the edge (src/transport-engine/src/transport.rs): which   *)
(* headers a call sends and what it makes of the answer.  An optional text *)
(* is None, Blank (nothing but white space) or a value; of URLs and header *)
(* names it matters whether they are blank and whether the edge knows them. *)
(***************************************************************************)
EXTENDS Naturals

CONSTANTS None, Blank

\* TransportConfig; whether there is a timeout, and the header names.
TransportConfig(timeout, proof_header, public_inputs_header, revocation_header) ==
    [envoy_url |-> "http://127.0.0.1:10000", timeout |-> timeout,
     proof_header |-> proof_header, public_inputs_header |-> public_inputs_header,
     revocation_header |-> revocation_header]

\* TransportEngine::default, and TransportConfig::new.
DefaultConfig == TransportConfig(TRUE, "x-dzta-proof", "x-dzta-public-inputs", "x-dzta-revocation-id")

\* What TransportEngine::new accepts: nothing is blank; other names than those
\* of the edge will do.
validated(config) ==
    /\ config.envoy_url # Blank
    /\ config.proof_header # Blank
    /\ config.public_inputs_header # Blank
    /\ config.revocation_header # Blank

HeaderBundle(proof, public_inputs, revocation_id) ==
    [proof |-> proof, public_inputs |-> public_inputs, revocation_id |-> revocation_id]

NoBundle == HeaderBundle(None, None, None)

\* Faulty variant of proof_headers: what is there is sent, blank or not.
proof_headersUnfiltered(config, bundle) ==
    {h \in {<<config.proof_header, bundle.proof>>,
            <<config.public_inputs_header, bundle.public_inputs>>,
            <<config.revocation_header, bundle.revocation_id>>} : h[2] # None}

\* The headers of a bundle, as pairs of name and value: only what has a value.
proof_headers(config, bundle) ==
    {h \in {<<config.proof_header, bundle.proof>>,
            <<config.public_inputs_header, bundle.public_inputs>>,
            <<config.revocation_header, bundle.revocation_id>>} : h[2] \notin {None, Blank}}

\* The calls.  Only the methods that submit apply the headers; request_proof
\* submits a request that has none, collect_proof is a GET without any.
Submits(method) == method \in {"submit_proof_request", "submit_proof_result", "request_proof"}

\* The arguments of a method: a request may lack anything, an artifact has a
\* proof and public inputs, be they blank.
Accepts(method, bundle) ==
    CASE method = "submit_proof_request" -> TRUE
      [] method = "submit_proof_result" -> None \notin {bundle.proof, bundle.public_inputs}
      [] OTHER -> bundle = NoBundle

RequestHeaders(method, config, bundle) ==
    IF Submits(method) THEN proof_headers(config, bundle) ELSE {}

\* An answer is a status with a body, which is an envelope, an artifact or
\* other text.
Answer(status, body) == [status |-> status, body |-> body]
is_success(answer) == answer.status \in 200..299

parse_json(answer, type) == IF answer.body = type THEN "ok" ELSE "serialization"

\* Faulty variant of handle_response: the body is parsed whatever the status.
handle_responseAnyStatus(answer) == parse_json(answer, "envelope")

handle_response(answer) ==
    IF ~is_success(answer) THEN "rejected" ELSE parse_json(answer, "envelope")

\* What a call returns: collect_proof does not look at the status.
Outcome(method, answer) ==
    IF Submits(method) THEN handle_response(answer) ELSE parse_json(answer, "artifact")
=============================================================================
