------------------------- MODULE ConfidentialSession -------------------------
(***************************************************************************)
(* One proof made by the Gramine prover: the host's GramineProverRunner    *)
(* (src/dzta-gramine-prover/src/runner.rs) and the enclave process         *)
(* (main.rs), joined by the pipes stdin, stdout and stderr, with the       *)
(* attestation broker in between.  The two processes run concurrently,     *)
(* either may fail at any step, and a write to a full pipe blocks.         *)
(***************************************************************************)
EXTENDS RoleCircuit, Sequences

CONSTANTS Brokers,          \* the brokers that may be at broker_url, see KeyBroker
          WalletKeys,       \* wallet keys; one of them sealed the record
          Clearances,       \* clearance levels in credentials
          Required,         \* required_clearance_level of the session
          StderrCap,        \* what the stderr pipe holds, in units of log
          MaxLog,           \* units the enclave logs before each of its steps
          MaxFaults         \* bound: failures of processes and requests

ASSUME BoundsAssumption ==
    /\ StderrCap \in Nat
    /\ MaxLog \in Nat
    /\ MaxFaults \in Nat

\* Levels are u64 in credentials and in requests alike.
ASSUME LevelsAssumption == Clearances \subseteq Level /\ Required \in Level

VARIABLES mode,             \* the kind of session, see Mode
          broker,           \* the broker at broker_url
          record,           \* raw_wallet_ciphertext
          key,              \* the wallet key given by the host or the broker
          host,             \* where the host is
          enclave,          \* where the enclave process is
          stdin, stdout,    \* lines in the two pipes
          stdinOpen,        \* the host holds its end of stdin
          stderr,           \* units in the stderr pipe
          toLog,            \* units to log before the enclave's next step
          faults

hostVars == <<host, stdinOpen>>
enclaveVars == <<enclave, toLog, stderr>>
request == <<mode, broker, record, key>>
vars == <<request, hostVars, enclaveVars, stdin, stdout, faults>>

\* execute_confidential_proof or execute_proof, with /dev/attestation in the
\* enclave (gramine-sgx) or without (gramine-direct), with a payload that the
\* stdin pipe can hold or with a longer one.
Mode == [confidential : BOOLEAN, hardware : BOOLEAN, fits : BOOLEAN]
Confidential == mode.confidential
Hardware == mode.hardware

\* A record is sealed by encrypt_wallet_record, XORed by an older release, or
\* cleartext; it holds a plain subject or a W3C credential, for which the
\* payload has the credential_id.
Record == [form : {"sealed", "xor", "clear"}, under : WalletKeys,
           doc : {"subject", "w3c"}, clearance : Clearances]

\* The fields of AttestationRequest, and of the ReleaseRequest that the broker
\* of this repository decodes.
AttestationRequest ==
    {"quote", "enclave_public_key_pem", "credential_key_id", "required_clearance_level"}
ReleaseRequest ==
    {"quote", "enclave_public_key", "credential_key_id", "required_clearance_level",
     "wallet_ciphertext", "seed_ciphertext"}

\* The enclave sends its key as a PKCS#1 PEM and unwraps with OpenSSL's OAEP,
\* of which the hash is SHA-1.
EnclaveKeyForm == "pkcs1"
EnclaveOaep == "sha1"

\* The broker of this repository: the fields it decodes, the form of the key
\* that it parses, and the hash of the OAEP it wraps with.
KeyBroker == [fields |-> ReleaseRequest, keyForm |-> "spki", oaep |-> "sha256"]

\* A line on stdin or stdout.
Line == [kind : {"payload", "response", "request"}]
            \cup [kind : {"proof"}, level : Nat, quote : BOOLEAN]

HostDone == host \in {"ok", "err"}
Exited == enclave \in {"exit0", "exit1"}

TypeOK ==
    /\ mode \in Mode
    /\ broker \in Brokers
    /\ record \in Record
    /\ key \in WalletKeys
    /\ host \in {"start", "send", "readRequest", "broker", "sendResponse", "readOutput",
                 "wait", "ok", "err"}
    /\ enclave \in {"none", "read", "handshake", "readResponse", "prove", "output", "done",
                    "exit0", "exit1"}
    /\ stdin \in Seq(Line) /\ Len(stdin) <= 1
    /\ stdout \in Seq(Line) /\ Len(stdout) <= 1
    /\ stdinOpen \in BOOLEAN
    /\ stderr \in 0..StderrCap
    /\ toLog \in 0..MaxLog
    /\ faults \in 0..MaxFaults

Init ==
    /\ mode \in Mode
    /\ broker \in Brokers
    /\ record \in Record
    /\ key \in WalletKeys
    /\ host = "start"
    /\ enclave = "none"
    /\ stdin = <<>> /\ stdout = <<>>
    /\ stdinOpen = FALSE
    /\ stderr = 0
    /\ toLog = 0
    /\ faults = 0

Fault == faults < MaxFaults /\ faults' = faults + 1
-----------------------------------------------------------------------------
\* Faulty variant of HostReturns: the handle of stdin lives on.
HostReturnsLeaky(result) == host' = result /\ UNCHANGED stdinOpen

\* Returning drops the child's handles: its ends of all pipes are closed.
HostReturns(result) == host' = result /\ stdinOpen' = FALSE

\* spawn() of gramine-direct or gramine-sgx.
Spawn ==
    /\ host = "start"
    /\ \/ /\ host' = "send" /\ stdinOpen' = TRUE
          /\ enclave' = "read"
          /\ toLog' \in 0..MaxLog
          /\ UNCHANGED faults
       \/ /\ Fault /\ HostReturns("err")
          /\ UNCHANGED <<enclave, toLog>>
    /\ UNCHANGED <<request, stderr, stdin, stdout>>

\* The enclave goes on once it has logged what it has to.
EnclaveAt(place) == enclave = place /\ toLog = 0

\* The payload line; execute_proof closes stdin after it, in place of the end
\* of the line.  A line that the pipe cannot hold is written as the enclave
\* reads it.  A write to a process that is gone is an error.
SendPayload ==
    /\ host = "send"
    /\ mode.fits \/ EnclaveAt("read") \/ Exited
    /\ IF Exited THEN HostReturns("err") /\ UNCHANGED stdin
       ELSE /\ stdin' = Append(stdin, [kind |-> "payload"])
            /\ IF Confidential THEN host' = "readRequest" /\ UNCHANGED stdinOpen
                               ELSE host' = "wait" /\ stdinOpen' = FALSE
    /\ UNCHANGED <<request, enclaveVars, stdout, faults>>

\* read_line: a line, or the empty one at the end of the stream, which does
\* not parse - nor does a proof.
ReadRequest ==
    /\ host = "readRequest"
    /\ \/ /\ stdout # <<>>
          /\ stdout' = Tail(stdout)
          /\ IF Head(stdout).kind = "request" THEN host' = "broker" /\ UNCHANGED stdinOpen
                                              ELSE HostReturns("err")
       \/ /\ stdout = <<>> /\ Exited
          /\ HostReturns("err")
          /\ UNCHANGED stdout
    /\ UNCHANGED <<request, enclaveVars, stdin, faults>>

\* The POST to the broker: an error status if a field is missing or the key
\* does not parse, else the wrapped secrets of the credential, or a failure.
AskBroker ==
    /\ host = "broker"
    /\ \/ /\ IF broker.fields \subseteq AttestationRequest /\ broker.keyForm = EnclaveKeyForm
             THEN host' = "sendResponse" /\ UNCHANGED stdinOpen
             ELSE HostReturns("err")
          /\ UNCHANGED faults
       \/ Fault /\ HostReturns("err")
    /\ UNCHANGED <<request, enclaveVars, stdin, stdout>>

\* Faulty variant of SendResponse: the line stays in the writer's buffer.
SendResponseUnflushed ==
    /\ host = "sendResponse"
    /\ host' = "readOutput"
    /\ UNCHANGED <<request, stdinOpen, enclaveVars, stdin, stdout, faults>>

\* The response fits: it is two blocks of RSA, and the pipe is empty.
SendResponse ==
    /\ host = "sendResponse"
    /\ IF Exited THEN HostReturns("err") /\ UNCHANGED stdin
       ELSE /\ stdin' = Append(stdin, [kind |-> "response"])
            /\ host' = "readOutput"
            /\ UNCHANGED stdinOpen
    /\ UNCHANGED <<request, enclaveVars, stdout, faults>>

\* read_line of the proof; only then stdin is dropped and the child waited for.
ReadOutput ==
    /\ host = "readOutput"
    /\ stdout # <<>> \/ Exited
    /\ host' = "wait" /\ stdinOpen' = FALSE
    /\ UNCHANGED <<request, enclaveVars, stdin, stdout, faults>>

\* wait_with_output, then the exit status and the line decide.
Wait ==
    /\ host = "wait"
    /\ Exited
    /\ HostReturns(IF enclave = "exit0" /\ stdout # <<>> /\ Head(stdout).kind = "proof"
                   THEN "ok" ELSE "err")
    /\ stderr' = 0
    /\ UNCHANGED <<request, enclave, toLog, stdin, stdout, faults>>
-----------------------------------------------------------------------------
\* stderr is drained by wait_with_output only; when the host is gone, a write
\* fails and the line is lost.
StderrTakes == host = "wait" \/ HostDone \/ stderr < StderrCap

\* A unit of the log of Gramine or of the prover.
Log ==
    /\ enclave # "none" /\ ~Exited
    /\ toLog > 0
    /\ toLog' = toLog - 1
    /\ StderrTakes
    /\ stderr' = IF host = "wait" \/ HostDone THEN 0 ELSE stderr + 1
    /\ UNCHANGED <<request, hostVars, enclave, stdin, stdout, faults>>

\* The enclave goes on to a place, where it has something to log first.
EnclaveGoes(place) ==
    /\ enclave' = place
    /\ toLog' \in IF place \in {"exit0", "exit1"} THEN {0} ELSE 0..MaxLog
    /\ UNCHANGED stderr

\* The end of stdin: an empty line, which does not parse.
StdinEnds == stdin = <<>> /\ ~stdinOpen

\* The payload: with the keys in it, no handshake is needed.  The line ends
\* with a newline or with the stream.
ReadPayload ==
    /\ EnclaveAt("read")
    /\ \/ /\ stdin # <<>> /\ stdin' = Tail(stdin)
          /\ Confidential \/ ~stdinOpen
          /\ EnclaveGoes(IF Confidential THEN "handshake" ELSE "prove")
       \/ StdinEnds /\ EnclaveGoes("exit1") /\ UNCHANGED stdin
    /\ UNCHANGED <<request, hostVars, stdout, faults>>

\* Writing to stdout fails if the host is gone.
Emit(line) == ~HostDone /\ stdout' = Append(stdout, line)

\* Key pair, bind_session, quote; without SGX there is no quote.
Handshake ==
    /\ EnclaveAt("handshake")
    /\ \/ Hardware /\ Emit([kind |-> "request"]) /\ EnclaveGoes("readResponse")
       \/ ~Hardware /\ EnclaveGoes("exit1") /\ UNCHANGED stdout
       \/ HostDone /\ EnclaveGoes("exit1") /\ UNCHANGED stdout
    /\ UNCHANGED <<request, hostVars, stdin, faults>>

\* private_decrypt fails if the hash is not the one that wrapped.
ReadResponse ==
    /\ EnclaveAt("readResponse")
    /\ \/ /\ stdin # <<>> /\ stdin' = Tail(stdin)
          /\ EnclaveGoes(IF broker.oaep = EnclaveOaep THEN "prove" ELSE "exit1")
       \/ StdinEnds /\ EnclaveGoes("exit1") /\ UNCHANGED stdin
    /\ UNCHANGED <<request, hostVars, stdout, faults>>

\* Faulty variant of Unseals: a W3C credential is read as a plain subject.
UnsealsSubjects ==
    \/ record.form = "sealed" /\ record.under = key /\ record.doc = "subject"
    \/ record.form = "clear"
    \/ record.form = "xor" /\ record.under = key /\ record.doc = "subject"

\* unseal_and_derive_witness_with_credential_id: decrypt_wallet_record with
\* the key; if that fails the bytes as they are; if those do not parse the
\* XORed bytes, as a plain subject only.
Unseals ==
    \/ record.form = "sealed" /\ record.under = key
    \/ record.form = "clear"
    \/ record.form = "xor" /\ record.under = key /\ record.doc = "subject"

\* Faulty variant of Proves: the constraints are not checked.
ProvesUnchecked == Unseals

\* The witness is derived from the record, with its own commitment (see
\* RoleCircuit), and the constraints are checked before the proof is made.
Proves == Unseals /\ RangeCheck(record.clearance, Required)

Prove ==
    /\ EnclaveAt("prove")
    /\ EnclaveGoes(IF Proves THEN "output" ELSE "exit1")
    /\ UNCHANGED <<request, hostVars, stdin, stdout, faults>>

\* The proof with its public inputs, and a quote if there is SGX.
Output ==
    /\ EnclaveAt("output")
    /\ \/ /\ Emit([kind |-> "proof", level |-> Required, quote |-> Hardware])
          /\ EnclaveGoes("done")
       \/ HostDone /\ EnclaveGoes("exit1") /\ UNCHANGED stdout
    /\ UNCHANGED <<request, hostVars, stdin, faults>>

\* main() returns Ok.
Exit ==
    /\ EnclaveAt("done")
    /\ EnclaveGoes("exit0")
    /\ UNCHANGED <<request, hostVars, stdin, stdout, faults>>

\* External: the process is killed, or a device or cipher fails.
Crash ==
    /\ enclave # "none" /\ ~Exited
    /\ Fault
    /\ enclave' = "exit1"
    /\ toLog' = 0
    /\ UNCHANGED <<request, hostVars, stderr, stdin, stdout>>
-----------------------------------------------------------------------------
HostStep ==
    \/ Spawn \/ SendPayload \/ ReadRequest \/ AskBroker \/ SendResponse
    \/ ReadOutput \/ Wait

EnclaveStep ==
    \/ Log \/ ReadPayload \/ Handshake \/ ReadResponse \/ Prove \/ Output \/ Exit

Next == HostStep \/ EnclaveStep \/ Crash

Spec == Init /\ [][Next]_vars

\* Both processes keep running, and a request to the broker ends.
Fairness == WF_vars(HostStep) /\ WF_vars(EnclaveStep)

FairSpec == Spec /\ Fairness
-----------------------------------------------------------------------------
\* A proof that reaches the caller is one for its level, from an enclave that
\* ended well, on a record it could open and with a level that is enough; one
\* made confidentially carries the quote of the hardware.
OkIsProof ==
    host = "ok" =>
        /\ enclave = "exit0"
        /\ Head(stdout).level = Required
        /\ Confidential => Head(stdout).quote
        /\ record.form # "clear" => record.under = key
        /\ record.clearance \in Required..(Required + 255)

\* The host waits for a line, or for the end of a long write, while the enclave
\* waits for room in stderr, which nobody reads before wait_with_output: neither
\* ever goes on.
LogJam ==
    /\ \/ host \in {"readRequest", "readOutput"} /\ stdout = <<>>
       \/ host = "send" /\ ~mode.fits
    /\ ~Exited
    /\ toLog > 0 /\ stderr = StderrCap

\* Whatever fails, every call returns, unless the log jams: the only way for
\* host and enclave to wait for each other.  execute_proof, which reads stderr
\* as soon as the payload is sent, can only meet it with a long payload.
CallReturns == <>(HostDone \/ (LogJam /\ (Confidential \/ ~mode.fits)))

\* An enclave never outlives the call for long, though no path of the runner
\* kills or (on an error) waits for it: its pipes break, and it ends.
EnclaveEnds == HostDone ~> (Exited \/ enclave = "none")

\* execute_proof does not fail of itself: a sealed record that the key opens,
\* be it a plain subject or a W3C credential, with enough clearance, is proved
\* with or without SGX, and no order of the two processes' steps makes a pipe
\* end too early.
PlainProofSucceeds ==
    (/\ ~Confidential /\ faults = 0
     /\ record.form = "sealed" /\ record.under = key
     /\ record.clearance \in Required..(Required + 255)) => host # "err"

\* "confidential SGX proving failed" never happens to a session with SGX, a
\* sealed W3C record, the right key and enough clearance.
ConfidentialProofSucceeds ==
    (/\ Confidential /\ Hardware /\ faults = 0
     /\ record.form = "sealed" /\ record.doc = "w3c" /\ record.under = key
     /\ record.clearance \in Required..(Required + 255)) => host # "err"
=============================================================================
