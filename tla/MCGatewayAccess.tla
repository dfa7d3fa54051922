--------------------------- MODULE MCGatewayAccess ---------------------------
(* A small instance of GatewayAccess for TLC. *)
EXTENDS GatewayAccess, FiniteSets

CONSTANT c1

MCEdgeConfig == [mode |-> "admin_enabled", admin_token |-> "token"]

\* The default; no timeout; a name that the edge does not know; and the two
\* that are refused.
MCConfigs ==
    {DefaultConfig, [DefaultConfig EXCEPT !.timeout = FALSE],
     [DefaultConfig EXCEPT !.revocation_header = "x-other"],
     [DefaultConfig EXCEPT !.revocation_header = Blank],
     [DefaultConfig EXCEPT !.envoy_url = Blank]}

\* All there and valid, or one thing wrong, or nothing there.
MCBundles ==
    {HeaderBundle("valid", "inputs", c1),
     HeaderBundle("invalid", "inputs", c1),
     HeaderBundle("malformed", "inputs", c1),
     HeaderBundle(Blank, "inputs", c1),
     HeaderBundle("valid", Blank, c1),
     HeaderBundle("valid", "inputs", Blank),
     HeaderBundle("valid", "inputs", None),
     NoBundle}

\* A success, one that is not JSON, and a rejection by the service.
MCUpstreamAnswers == {Answer(200, "envelope"), Answer(200, "text"), Answer(422, "text")}

\* A service that rejects nothing.
WillingUpstream == {Answer(200, "envelope")}
=============================================================================
