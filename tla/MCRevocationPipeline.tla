------------------------ MODULE MCRevocationPipeline ------------------------
(* A small instance of RevocationPipeline for TLC. *)
EXTENDS RevocationPipeline

\* The admin listener of envoy-configmap.yaml and the daemon's token.
AdminConfig == [mode |-> "admin_enabled", admin_token |-> "token"]
=============================================================================
