------------------------ MODULE MCAttestationBroker -------------------------
(* A small instance of AttestationBroker for TLC. *)
EXTENDS AttestationBroker, TLC

\* Calls and the enclaves that are not genuine are interchangeable.
Symmetry == Permutations(Calls) \cup Permutations(Enclaves \ Genuine)
=============================================================================
