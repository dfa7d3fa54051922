----------------------- MODULE MCConfidentialSession ------------------------
(* Small instances of ConfidentialSession for TLC. *)
EXTENDS ConfidentialSession

\* The broker of src/dzta-attestation-broker.
OwnBroker == {KeyBroker}

\* broker_url is an argument: the repository's broker, one that takes what the
\* enclave sends but wraps as the repository's does, and one that agrees with
\* the enclave in everything.
AnyBroker ==
    OwnBroker \cup [fields : {AttestationRequest}, keyForm : {EnclaveKeyForm},
                    oaep : {KeyBroker.oaep, EnclaveOaep}]
=============================================================================
