---------------------------- MODULE ProverProofs ----------------------------
(***************************************************************************)
(* The circuit's range check for every field that is large enough, the     *)
(* enclave's check of its witness, and the session of host and enclave for *)
(* any keys, levels, amounts of log and number of failures.                *)
(***************************************************************************)
EXTENDS ConfidentialSession, WitnessCheck, TLAPS

\* A difference that did not wrap is small enough to be cut off unchanged
\* exactly if it is at most 255.
LEMMA TruncatedFixpoint ==
    ASSUME NEW x \in Nat
    PROVE  x = Truncated(x) <=> x <= 255
BY DEF Truncated

\* A difference that wrapped is far above the 8 bits that are kept: this is
\* what the margin of 256 in FieldAssumption is for.
LEMMA WrappedIsLarge ==
    ASSUME NEW a \in Level, NEW b \in Level, a < b
    PROVE  FieldSub(a, b) \in Nat /\ FieldSub(a, b) > 255
BY FieldAssumption DEF FieldSub, Level

\* generate_constraints accepts a level exactly if it is the required one or
\* at most 255 above it, in every field that exceeds the range of levels by 256.
THEOREM RangeCheckIsExact ==
    ASSUME NEW a \in Level, NEW b \in Level
    PROVE  RangeCheck(a, b) <=> a \in b..(b + 255)
<1>1. CASE a < b
  BY <1>1, WrappedIsLarge, TruncatedFixpoint DEF RangeCheck, Level
<1>2. CASE b <= a
  <2>1. FieldSub(a, b) = a - b /\ a - b \in Nat
    BY <1>2 DEF FieldSub, Level
  <2> QED
    BY <1>2, <2>1, TruncatedFixpoint DEF RangeCheck, Level
<1> QED
  BY <1>1, <1>2 DEF Level

\* The levels of a session do not change while it is judged.
WitnessInv == user \in Level /\ req \in Level /\ LevelIsJudgedExactly

\* The enclave's check before the proof (main.rs) judges every pair of levels
\* exactly, for every field, role and nullifier: the commitment it derives
\* from the same witness never fails its own constraint.
THEOREM LevelJudged == WitnessSpec => []LevelIsJudgedExactly
<1>1. WitnessInit => WitnessInv
  BY DEF WitnessInit, WitnessInv, LevelIsJudgedExactly
<1>2. WitnessInv /\ [CheckWitness]_witnessVars => WitnessInv'
  <2> SUFFICES ASSUME WitnessInv, [CheckWitness]_witnessVars PROVE WitnessInv'
    OBVIOUS
  <2>1. CASE CheckWitness
    <3>1. Satisfied(user, Role, Nullifier, req, Commitment(Nullifier, user, Role))
            <=> user \in req..(req + 255)
      BY RangeCheckIsExact DEF Satisfied, WitnessInv
    <3> QED
      BY <2>1, <3>1 DEF CheckWitness, WitnessInv, LevelIsJudgedExactly
  <2>2. CASE UNCHANGED witnessVars
    BY <2>2 DEF witnessVars, WitnessInv, LevelIsJudgedExactly
  <2> QED
    BY <2>1, <2>2
<1>3. WitnessInv => LevelIsJudgedExactly
  BY DEF WitnessInv
<1> QED
  BY <1>1, <1>2, <1>3, PTL DEF WitnessSpec
-----------------------------------------------------------------------------
Payload == [kind |-> "payload"]
Response == [kind |-> "response"]
Request == [kind |-> "request"]
Proof(quoted) == [kind |-> "proof", level |-> Required, quote |-> quoted]

\* The enclave has yet to read the line it waits for, or makes the proof, or
\* has written it; a failure ends it at any point.
Working(place, line) ==
    \/ stdin = <<line>> /\ stdout = <<>> /\ enclave \in {place, "exit1"}
    \/ stdin = <<>> /\ stdout = <<>> /\ enclave \in {"prove", "output", "exit1"}
    \/ stdin = <<>> /\ stdout = <<Proof(Hardware)>> /\ enclave \in {"done", "exit0", "exit1"}

\* Where the enclave is, and what is in the pipes, for each place of the host.
Protocol ==
    /\ host = "start" => enclave = "none" /\ stdin = <<>> /\ stdout = <<>>
    /\ host = "send" =>
          stdinOpen /\ stdin = <<>> /\ stdout = <<>> /\ enclave \in {"read", "exit1"}
    /\ host = "readRequest" =>
          /\ Confidential /\ stdinOpen
          /\ \/ stdin = <<Payload>> /\ stdout = <<>> /\ enclave \in {"read", "exit1"}
             \/ stdin = <<>> /\ stdout = <<>> /\ enclave \in {"handshake", "exit1"}
             \/ stdin = <<>> /\ stdout = <<Request>> /\ enclave \in {"readResponse", "exit1"}
    /\ host \in {"broker", "sendResponse"} =>
          /\ Confidential /\ stdinOpen
          /\ stdin = <<>> /\ stdout = <<>> /\ enclave \in {"readResponse", "exit1"}
    /\ host = "readOutput" => Confidential /\ stdinOpen /\ Working("readResponse", Response)
    /\ host = "wait" => IF Confidential
                        THEN Working("readResponse", Response) /\ (stdout # <<>> \/ Exited)
                        ELSE Working("read", Payload)
    /\ host = "ok" => enclave = "exit0" /\ stdout = <<Proof(Hardware)>>

\* A pipe never holds more than one line.
OneLine ==
    /\ stdin \in {<<>>, <<Payload>>, <<Response>>}
    /\ stdout \in {<<>>, <<Request>>, <<Proof(Hardware)>>}

\* What the enclave has checked by the time it is where it is.
Checked ==
    /\ enclave \in {"output", "done", "exit0"} => Proves
    /\ (Confidential /\ enclave \in {"readResponse", "prove", "output", "done", "exit0"}) => Hardware

\* Nothing is wrong with a session of execute_proof.
Able ==
    /\ ~Confidential /\ faults = 0
    /\ record.form = "sealed" /\ record.under = key
    /\ record.clearance \in Required..(Required + 255)

\* Then the host does not fail, nor the enclave before the host is done.
Succeeding == Able => host # "err" /\ (~HostDone => enclave # "exit1")

Places ==
    /\ mode \in Mode /\ broker \in Brokers /\ record \in Record /\ key \in WalletKeys
    /\ host \in {"start", "send", "readRequest", "broker", "sendResponse", "readOutput",
                 "wait", "ok", "err"}
    /\ enclave \in {"none", "read", "handshake", "readResponse", "prove", "output", "done",
                    "exit0", "exit1"}

Flag == stdinOpen \in BOOLEAN

Numbers == stderr \in 0..StderrCap /\ toLog \in 0..MaxLog /\ faults \in 0..MaxFaults

IInv == Places /\ Flag /\ Numbers /\ OneLine /\ Protocol /\ Checked /\ Succeeding
-----------------------------------------------------------------------------
\* Writing a line to an empty pipe, and reading it.
LEMMA Pipe ==
    ASSUME NEW line
    PROVE  /\ Append(<<>>, line) = <<line>>
           /\ Tail(<<line>>) = <<>>
           /\ Head(<<line>>) = line
           /\ <<line>> # <<>>
  OBVIOUS

LEMMA PipeOf ==
    ASSUME NEW S, NEW line \in S
    PROVE  /\ <<line>> \in Seq(S) /\ Len(<<line>>) <= 1
           /\ <<>> \in Seq(S) /\ Len(<<>>) <= 1
  OBVIOUS

LEMMA LinesOfPipes ==
    /\ Append(<<>>, Payload) = <<Payload>> /\ Tail(<<Payload>>) = <<>> /\ <<Payload>> # <<>>
    /\ Append(<<>>, Response) = <<Response>> /\ Tail(<<Response>>) = <<>> /\ <<Response>> # <<>>
    /\ Append(<<>>, Request) = <<Request>> /\ Tail(<<Request>>) = <<>> /\ <<Request>> # <<>>
    /\ Head(<<Request>>) = Request
  BY Pipe

LEMMA InitIInv == Init => IInv
<1> SUFFICES ASSUME Init PROVE IInv
  OBVIOUS
<1>1. Places /\ OneLine /\ Protocol /\ Checked /\ Succeeding
  BY DEF Init, Places, OneLine, Protocol, Checked, Succeeding, HostDone
<1>2. Flag
  BY DEF Init, Flag
<1>3. Numbers
  BY BoundsAssumption DEF Init, Numbers
<1> QED
  BY <1>1, <1>2, <1>3 DEF IInv

\* A session in which nothing is wrong yields a proof.
LEMMA AbleProves ==
    ASSUME Places, Able
    PROVE  Proves
<1>1. record.clearance \in Level /\ Required \in Level
  BY LevelsAssumption DEF Places, Record
<1> QED
  BY <1>1, RangeCheckIsExact DEF Able, Proves, Unseals

\* A step that leaves the session's request alone changes its prospects only
\* by a failure.
LEMMA AbleKept ==
    ASSUME Numbers, UNCHANGED request, UNCHANGED faults \/ Fault, Able'
    PROVE  Able /\ UNCHANGED faults
<1>1. UNCHANGED faults
  BY DEF Fault, Able, Numbers
<1> QED
  BY <1>1 DEF Able, request, Confidential, Hardware

LEMMA CheckedKept ==
    ASSUME Checked, UNCHANGED <<request, enclave>>
    PROVE  Checked'
  BY DEF Checked, request, Confidential, Hardware, Proves, Unseals

LEMMA NumbersKept ==
    ASSUME Numbers, UNCHANGED faults \/ Fault,
           stderr' \in {0, stderr}, toLog' \in 0..MaxLog
    PROVE  Numbers'
  BY BoundsAssumption DEF Numbers, Fault

LEMMA SpawnStep == ASSUME IInv, Spawn PROVE IInv'
<1>1. /\ host = "start" /\ enclave = "none" /\ stdin = <<>> /\ stdout = <<>>
      /\ UNCHANGED <<mode, broker, record, key, stderr, stdin, stdout>>
  BY DEF IInv, Protocol, Spawn, request
<1>2. \/ /\ host' = "send" /\ stdinOpen' = TRUE /\ enclave' = "read"
         /\ toLog' \in 0..MaxLog /\ UNCHANGED faults
      \/ /\ host' = "err" /\ stdinOpen' = FALSE /\ Fault /\ UNCHANGED <<enclave, toLog>>
  BY DEF Spawn, HostReturns
<1>3. Places' /\ Flag'
  BY <1>1, <1>2 DEF IInv, Places, Flag
<1>4. Numbers'
  BY <1>1, <1>2, NumbersKept DEF IInv, Numbers
<1>5. OneLine' /\ Protocol' /\ Checked'
  BY <1>1, <1>2 DEF OneLine, Protocol, Checked
<1>6. Succeeding'
  <2>1. Able' => UNCHANGED faults
    BY <1>1, <1>2, AbleKept DEF IInv, request
  <2>2. Able' => ~Fault
    BY <2>1 DEF Fault, IInv, Numbers
  <2> QED
    BY <1>2, <2>2 DEF Succeeding
<1> QED
  BY <1>3, <1>4, <1>5, <1>6 DEF IInv

\* The steps of the host after the start leave the enclave as it is.
LEMMA HostKeeps ==
    ASSUME IInv, UNCHANGED <<request, enclave, toLog>>, UNCHANGED faults \/ Fault,
           stderr' \in {0, stderr},
           host' \in {"readRequest", "broker", "sendResponse", "readOutput", "wait", "ok", "err"},
           stdinOpen' = stdinOpen \/ stdinOpen' = FALSE,
           OneLine', Protocol',
           Able' => host' # "err" /\ ~HostDone
    PROVE  IInv'
<1>1. Places'
  BY DEF IInv, Places, request
<1>2. Flag'
  BY DEF IInv, Flag
<1>3. Numbers'
  <2>1. toLog' \in 0..MaxLog
    BY DEF IInv, Numbers
  <2> QED
    BY <2>1, NumbersKept DEF IInv
<1>4. Checked'
  BY CheckedKept DEF IInv
<1>5. Succeeding'
  <2>1. Able' => Able
    BY AbleKept DEF IInv
  <2> QED
    BY <2>1 DEF IInv, Succeeding
<1> QED
  BY <1>1, <1>2, <1>3, <1>4, <1>5 DEF IInv

\* The payload goes to an enclave that waits for it, or that is gone.
LEMMA SendPayloadStep == ASSUME IInv, SendPayload PROVE IInv'
<1>1. /\ host = "send" /\ stdinOpen /\ stdin = <<>> /\ stdout = <<>>
      /\ enclave \in {"read", "exit1"}
      /\ UNCHANGED <<mode, broker, record, key, enclave, toLog, stderr, stdout, faults>>
  BY DEF IInv, Protocol, SendPayload, request, enclaveVars
<1>2. \/ enclave = "exit1" /\ host' = "err" /\ stdinOpen' = FALSE /\ UNCHANGED stdin
      \/ /\ enclave = "read" /\ stdin' = <<Payload>>
         /\ \/ Confidential /\ host' = "readRequest" /\ UNCHANGED stdinOpen
            \/ ~Confidential /\ host' = "wait" /\ stdinOpen' = FALSE
  BY <1>1, LinesOfPipes DEF SendPayload, HostReturns, Exited, Payload
<1>3. OneLine'
  BY <1>1, <1>2 DEF IInv, OneLine, Hardware
<1>4. Protocol'
  BY <1>1, <1>2 DEF Protocol, Working, Confidential
<1>5. Able' => host' # "err" /\ ~HostDone
  <2>1. Able' => Able
    BY <1>1, AbleKept DEF IInv, request
  <2> QED
    BY <1>1, <1>2, <2>1 DEF IInv, Succeeding, HostDone
<1> QED
  BY <1>1, <1>2, <1>3, <1>4, <1>5, HostKeeps DEF request

LEMMA ReadRequestStep == ASSUME IInv, ReadRequest PROVE IInv'
<1>1. /\ host = "readRequest" /\ Confidential /\ stdinOpen
      /\ \/ stdin = <<Payload>> /\ stdout = <<>> /\ enclave \in {"read", "exit1"}
         \/ stdin = <<>> /\ stdout = <<>> /\ enclave \in {"handshake", "exit1"}
         \/ stdin = <<>> /\ stdout = <<Request>> /\ enclave \in {"readResponse", "exit1"}
      /\ UNCHANGED <<mode, broker, record, key, enclave, toLog, stderr, stdin, faults>>
  BY DEF IInv, Protocol, ReadRequest, request, enclaveVars
<1>2. Head(<<Request>>).kind = "request"
  BY LinesOfPipes DEF Request
<1>3. \/ /\ stdout = <<Request>> /\ stdin = <<>> /\ enclave \in {"readResponse", "exit1"}
         /\ stdout' = <<>> /\ host' = "broker" /\ UNCHANGED stdinOpen
      \/ /\ stdout = <<>> /\ enclave = "exit1"
         /\ host' = "err" /\ stdinOpen' = FALSE /\ UNCHANGED stdout
  BY <1>1, <1>2, LinesOfPipes DEF ReadRequest, HostReturns, Exited
<1>4. OneLine'
  BY <1>1, <1>3 DEF IInv, OneLine
<1>5. Protocol'
  BY <1>1, <1>3 DEF Protocol, Confidential
<1>6. Able' => host' # "err" /\ ~HostDone
  <2>1. Able' => Able
    BY <1>1, AbleKept DEF IInv, request
  <2> QED
    BY <1>1, <1>3, <2>1 DEF IInv, Succeeding, HostDone
<1> QED
  BY <1>1, <1>3, <1>4, <1>5, <1>6, HostKeeps DEF request

LEMMA AskBrokerStep == ASSUME IInv, AskBroker PROVE IInv'
<1>1. /\ host = "broker" /\ Confidential /\ stdinOpen
      /\ stdin = <<>> /\ stdout = <<>> /\ enclave \in {"readResponse", "exit1"}
      /\ UNCHANGED <<mode, broker, record, key, enclave, toLog, stderr, stdin, stdout>>
  BY DEF IInv, Protocol, AskBroker, request, enclaveVars
<1>2. \/ host' = "sendResponse" /\ UNCHANGED <<stdinOpen, faults>>
      \/ host' = "err" /\ stdinOpen' = FALSE /\ (UNCHANGED faults \/ Fault)
  BY DEF AskBroker, HostReturns
<1>3. OneLine'
  BY <1>1 DEF IInv, OneLine, Hardware
<1>4. Protocol'
  BY <1>1, <1>2 DEF Protocol, Confidential
<1>5. ~Able'
  BY <1>1 DEF Able, Confidential
<1> QED
  BY <1>1, <1>2, <1>3, <1>4, <1>5, HostKeeps DEF request

LEMMA SendResponseStep == ASSUME IInv, SendResponse PROVE IInv'
<1>1. /\ host = "sendResponse" /\ Confidential /\ stdinOpen
      /\ stdin = <<>> /\ stdout = <<>> /\ enclave \in {"readResponse", "exit1"}
      /\ UNCHANGED <<mode, broker, record, key, enclave, toLog, stderr, stdout, faults>>
  BY DEF IInv, Protocol, SendResponse, request, enclaveVars
<1>2. \/ enclave = "exit1" /\ host' = "err" /\ stdinOpen' = FALSE /\ UNCHANGED stdin
      \/ /\ enclave = "readResponse" /\ stdin' = <<Response>>
         /\ host' = "readOutput" /\ UNCHANGED stdinOpen
  BY <1>1, LinesOfPipes DEF SendResponse, HostReturns, Exited, Response
<1>3. OneLine'
  BY <1>1, <1>2 DEF IInv, OneLine, Hardware
<1>4. Protocol'
  BY <1>1, <1>2 DEF Protocol, Working, Confidential
<1>5. Able' => host' # "err" /\ ~HostDone
  <2>1. Able' => Able
    BY <1>1, AbleKept DEF IInv, request
  <2> QED
    BY <1>1, <1>2, <2>1 DEF IInv, Succeeding, HostDone
<1> QED
  BY <1>1, <1>2, <1>3, <1>4, <1>5, HostKeeps DEF request

LEMMA ReadOutputStep == ASSUME IInv, ReadOutput PROVE IInv'
<1>1. /\ host = "readOutput" /\ Confidential /\ Working("readResponse", Response)
      /\ stdout # <<>> \/ Exited
      /\ host' = "wait" /\ stdinOpen' = FALSE
      /\ UNCHANGED <<mode, broker, record, key, enclave, toLog, stderr, stdin, stdout, faults>>
  BY DEF IInv, Protocol, ReadOutput, request, enclaveVars
<1>2. OneLine'
  BY <1>1 DEF IInv, OneLine, Hardware
<1>3. Protocol'
  BY <1>1 DEF Protocol, Working, Confidential, Hardware, Exited
<1>4. ~HostDone
  BY <1>1 DEF HostDone
<1> QED
  BY <1>1, <1>2, <1>3, <1>4, HostKeeps DEF request

LEMMA WaitStep == ASSUME IInv, Wait PROVE IInv'
<1> DEFINE good == enclave = "exit0" /\ stdout # <<>> /\ Head(stdout).kind = "proof"
<1>1. /\ host = "wait" /\ Exited
      /\ host' = (IF good THEN "ok" ELSE "err") /\ stdinOpen' = FALSE /\ stderr' = 0
      /\ UNCHANGED <<mode, broker, record, key, enclave, toLog, stdin, stdout, faults>>
  BY DEF Wait, HostReturns, request
<1>2. /\ enclave = "exit0" => stdout = <<Proof(Hardware)>>
      /\ Confidential => enclave \in {"exit0", "exit1"}
  BY <1>1 DEF IInv, Protocol, Working, Exited
<1>3. <<Proof(Hardware)>> # <<>> /\ Head(<<Proof(Hardware)>>).kind = "proof"
  <2>1. <<Proof(Hardware)>> # <<>> /\ Head(<<Proof(Hardware)>>) = Proof(Hardware)
    BY Pipe
  <2> QED
    BY <2>1 DEF Proof
<1>4. good <=> enclave = "exit0"
  BY <1>2, <1>3
<1> HIDE DEF good
<1>5. OneLine'
  BY <1>1 DEF IInv, OneLine, Hardware
<1>6. Protocol'
  BY <1>1, <1>2, <1>4 DEF Protocol, Hardware
<1>7. Able' => host' # "err" /\ ~HostDone
  <2>1. Able' => Able
    BY <1>1, AbleKept DEF IInv, request
  <2>2. Able => enclave # "exit1"
    BY <1>1 DEF IInv, Succeeding, HostDone
  <2> QED
    BY <1>1, <1>4, <2>1, <2>2 DEF Exited, HostDone
<1>8. host' \in {"ok", "err"}
  BY <1>1
<1> QED
  BY <1>1, <1>5, <1>6, <1>7, <1>8, HostKeeps DEF request
-----------------------------------------------------------------------------
\* The steps of the enclave leave the host as it is; what they must show is
\* where they go, what has been checked by then, and that a session that is
\* able does not fail.
LEMMA EnclaveKeeps ==
    ASSUME IInv, UNCHANGED <<request, host, stdinOpen>>,
           UNCHANGED faults \/ Fault,
           enclave' \in {"handshake", "readResponse", "prove", "output", "done", "exit0", "exit1"},
           Numbers', OneLine', Protocol', Checked',
           (Able' /\ ~HostDone) => enclave' # "exit1"
    PROVE  IInv'
<1>1. Places' /\ Flag'
  BY DEF IInv, Places, Flag, request
<1>2. Succeeding'
  <2>1. Able' => Able
    BY AbleKept DEF IInv
  <2> QED
    BY <2>1 DEF IInv, Succeeding, HostDone
<1> QED
  BY <1>1, <1>2 DEF IInv

\* Going somewhere, with something to log there.
LEMMA GoesEffect ==
    ASSUME IInv, NEW place, EnclaveGoes(place), UNCHANGED faults
    PROVE  enclave' = place /\ Numbers'
<1>1. enclave' = place /\ toLog' \in 0..MaxLog /\ UNCHANGED stderr
  BY BoundsAssumption DEF EnclaveGoes
<1> QED
  BY <1>1, NumbersKept DEF IInv

LEMMA LogStep == ASSUME IInv, Log PROVE IInv'
<1>1. /\ toLog > 0 /\ toLog' = toLog - 1
      /\ StderrTakes
      /\ stderr' = IF host = "wait" \/ HostDone THEN 0 ELSE stderr + 1
      /\ UNCHANGED <<mode, broker, record, key, host, stdinOpen, enclave, stdin, stdout, faults>>
  BY DEF Log, request, hostVars
<1>2. Numbers'
  <2>1. host = "wait" \/ HostDone \/ stderr < StderrCap
    BY <1>1 DEF StderrTakes
  <2>2. stderr' \in 0..StderrCap
    BY <1>1, <2>1, BoundsAssumption DEF IInv, Numbers
  <2> QED
    BY <1>1, <2>2, BoundsAssumption DEF IInv, Numbers
<1>3. Places' /\ Flag' /\ OneLine' /\ Protocol'
  BY <1>1 DEF IInv, Places, Flag, OneLine, Protocol, Working, Confidential, Hardware, Exited
<1>4. Checked'
  BY <1>1, CheckedKept DEF IInv, request
<1>5. Succeeding'
  <2>1. Able' => Able
    BY <1>1, AbleKept DEF IInv, request
  <2> QED
    BY <1>1, <2>1 DEF IInv, Succeeding, HostDone
<1> QED
  BY <1>2, <1>3, <1>4, <1>5 DEF IInv

LEMMA ReadPayloadStep == ASSUME IInv, ReadPayload PROVE IInv'
<1>1. /\ enclave = "read"
      /\ UNCHANGED <<mode, broker, record, key, host, stdinOpen, stdout, faults>>
  BY DEF ReadPayload, EnclaveAt, request, hostVars
<1>2. /\ Numbers'
      /\ \/ /\ stdin # <<>> /\ stdin' = Tail(stdin)
            /\ \/ Confidential /\ enclave' = "handshake"
               \/ ~Confidential /\ enclave' = "prove"
         \/ StdinEnds /\ enclave' = "exit1" /\ UNCHANGED stdin
  BY <1>1, GoesEffect DEF ReadPayload
<1>3. stdin # <<>> => Tail(stdin) = <<>>
  BY LinesOfPipes DEF IInv, OneLine
<1>4. OneLine'
  BY <1>1, <1>2, <1>3 DEF IInv, OneLine, Hardware
<1>5. Protocol'
  BY <1>1, <1>2, <1>3, LinesOfPipes
  DEF IInv, Protocol, Working, Confidential, Hardware, Exited, StdinEnds
<1>6. Checked'
  BY <1>1, <1>2 DEF Checked, Confidential
<1>7. (Able' /\ ~HostDone) => enclave' # "exit1"
  <2>1. Able' => ~Confidential
    BY <1>1 DEF Able, Confidential
  <2>2. ~HostDone => host \notin {"ok", "err"}
    BY DEF HostDone
  <2> QED
    BY <1>1, <1>2, <2>1, <2>2, LinesOfPipes DEF IInv, Places, Protocol, Working, Exited, StdinEnds
<1> QED
  BY <1>1, <1>2, <1>4, <1>5, <1>6, <1>7, EnclaveKeeps DEF request

LEMMA HandshakeStep == ASSUME IInv, Handshake PROVE IInv'
<1>1. /\ enclave = "handshake"
      /\ UNCHANGED <<mode, broker, record, key, host, stdinOpen, stdin, faults>>
  BY DEF Handshake, EnclaveAt, request, hostVars
<1>2. /\ Numbers'
      /\ \/ /\ Hardware /\ enclave' = "readResponse"
            /\ ~HostDone /\ stdout' = Append(stdout, Request)
         \/ (~Hardware \/ HostDone) /\ enclave' = "exit1" /\ UNCHANGED stdout
  BY <1>1, GoesEffect DEF Handshake, Emit, Request
<1>3. ~HostDone => host = "readRequest" /\ stdin = <<>> /\ stdout = <<>>
  BY <1>1, LinesOfPipes DEF IInv, Places, Protocol, Working, Exited, HostDone
<1>4. OneLine'
  BY <1>1, <1>2, <1>3, LinesOfPipes DEF IInv, OneLine, Hardware
<1>5. Protocol'
  BY <1>1, <1>2, <1>3, LinesOfPipes
  DEF IInv, Protocol, Working, Confidential, Hardware, Exited, HostDone
<1>6. Checked'
  BY <1>1, <1>2 DEF Checked, Hardware
<1>7. ~(Able' /\ ~HostDone)
  <2>1. ~HostDone => Confidential
    BY <1>3 DEF IInv, Protocol
  <2> QED
    BY <1>1, <2>1 DEF Able, Confidential
<1> QED
  BY <1>1, <1>2, <1>4, <1>5, <1>6, <1>7, EnclaveKeeps DEF request

LEMMA ReadResponseStep == ASSUME IInv, ReadResponse PROVE IInv'
<1>1. /\ enclave = "readResponse"
      /\ UNCHANGED <<mode, broker, record, key, host, stdinOpen, stdout, faults>>
  BY DEF ReadResponse, EnclaveAt, request, hostVars
<1>2. /\ Numbers'
      /\ \/ stdin # <<>> /\ stdin' = Tail(stdin) /\ enclave' \in {"prove", "exit1"}
         \/ StdinEnds /\ enclave' = "exit1" /\ UNCHANGED stdin
  BY <1>1, GoesEffect DEF ReadResponse
<1>3. stdin # <<>> => Tail(stdin) = <<>>
  BY LinesOfPipes DEF IInv, OneLine
<1>4. OneLine'
  BY <1>1, <1>2, <1>3 DEF IInv, OneLine, Hardware
<1>5. Protocol'
  BY <1>1, <1>2, <1>3, LinesOfPipes
  DEF IInv, Protocol, Working, Confidential, Hardware, Exited, StdinEnds
<1>6. Checked'
  BY <1>1, <1>2 DEF IInv, Checked, Confidential, Hardware
<1>7. ~(Able' /\ ~HostDone)
  <2>1. ~HostDone => host \notin {"ok", "err"}
    BY DEF HostDone
  <2>2. ~HostDone => Confidential
    BY <1>1, <2>1 DEF IInv, Places, Protocol, Working
  <2> QED
    BY <1>1, <2>2 DEF Able, Confidential
<1> QED
  BY <1>1, <1>2, <1>4, <1>5, <1>6, <1>7, EnclaveKeeps DEF request

LEMMA ProveStep == ASSUME IInv, Prove PROVE IInv'
<1>1. /\ enclave = "prove"
      /\ UNCHANGED <<mode, broker, record, key, host, stdinOpen, stdin, stdout, faults>>
  BY DEF Prove, EnclaveAt, request, hostVars
<1>2. Numbers' /\ enclave' = IF Proves THEN "output" ELSE "exit1"
  BY <1>1, GoesEffect DEF Prove
<1>3. OneLine'
  BY <1>1 DEF IInv, OneLine, Hardware
<1>4. Protocol'
  BY <1>1, <1>2, LinesOfPipes DEF IInv, Protocol, Working, Confidential, Hardware, Exited
<1>5. Checked'
  <2>1. Proves' <=> Proves
    BY <1>1 DEF Proves, Unseals
  <2> QED
    BY <1>1, <1>2, <2>1 DEF IInv, Checked, Confidential, Hardware
<1>6. (Able' /\ ~HostDone) => enclave' # "exit1"
  <2>1. Able' => Able
    BY <1>1, AbleKept DEF IInv, request
  <2> QED
    BY <1>2, <2>1, AbleProves DEF IInv
<1> QED
  BY <1>1, <1>2, <1>3, <1>4, <1>5, <1>6, EnclaveKeeps DEF request

LEMMA OutputStep == ASSUME IInv, Output PROVE IInv'
<1>1. /\ enclave = "output"
      /\ UNCHANGED <<mode, broker, record, key, host, stdinOpen, stdin, faults>>
  BY DEF Output, EnclaveAt, request, hostVars
<1>2. /\ Numbers'
      /\ \/ ~HostDone /\ stdout' = Append(stdout, Proof(Hardware)) /\ enclave' = "done"
         \/ HostDone /\ enclave' = "exit1" /\ UNCHANGED stdout
  BY <1>1, GoesEffect DEF Output, Emit, Proof
<1>3. ~HostDone => stdin = <<>> /\ stdout = <<>> /\ host \in {"readOutput", "wait"}
  BY <1>1, LinesOfPipes DEF IInv, Places, Protocol, Working, Exited, HostDone
<1>4. Append(<<>>, Proof(Hardware)) = <<Proof(Hardware)>> /\ <<Proof(Hardware)>> # <<>>
  BY Pipe
<1>5. OneLine'
  BY <1>1, <1>2, <1>3, <1>4 DEF IInv, OneLine, Hardware
<1>6. Protocol'
  BY <1>1, <1>2, <1>3, <1>4, LinesOfPipes
  DEF IInv, Protocol, Working, Confidential, Hardware, Exited, HostDone
<1>7. Checked'
  <2>1. Proves' <=> Proves
    BY <1>1 DEF Proves, Unseals
  <2> QED
    BY <1>1, <1>2, <2>1 DEF IInv, Checked, Confidential, Hardware
<1>8. (Able' /\ ~HostDone) => enclave' # "exit1"
  BY <1>2
<1> QED
  BY <1>1, <1>2, <1>5, <1>6, <1>7, <1>8, EnclaveKeeps DEF request

LEMMA ExitStep == ASSUME IInv, Exit PROVE IInv'
<1>1. /\ enclave = "done"
      /\ UNCHANGED <<mode, broker, record, key, host, stdinOpen, stdin, stdout, faults>>
  BY DEF Exit, EnclaveAt, request, hostVars
<1>2. Numbers' /\ enclave' = "exit0"
  BY <1>1, GoesEffect DEF Exit
<1>3. OneLine'
  BY <1>1 DEF IInv, OneLine, Hardware
<1>4. Protocol'
  BY <1>1, <1>2, LinesOfPipes DEF IInv, Protocol, Working, Confidential, Hardware, Exited
<1>5. Checked'
  <2>1. Proves' <=> Proves
    BY <1>1 DEF Proves, Unseals
  <2> QED
    BY <1>1, <1>2, <2>1 DEF IInv, Checked, Confidential, Hardware
<1> QED
  BY <1>1, <1>2, <1>3, <1>4, <1>5, EnclaveKeeps DEF request

LEMMA CrashStep == ASSUME IInv, Crash PROVE IInv'
<1>1. /\ enclave # "none" /\ ~Exited /\ Fault
      /\ enclave' = "exit1" /\ toLog' = 0
      /\ UNCHANGED <<mode, broker, record, key, host, stdinOpen, stderr, stdin, stdout>>
  BY DEF Crash, request, hostVars
<1>2. Numbers'
  <2>1. toLog' \in 0..MaxLog
    BY <1>1, BoundsAssumption
  <2> QED
    BY <1>1, <2>1, NumbersKept DEF IInv
<1>3. OneLine'
  BY <1>1 DEF IInv, OneLine, Hardware
<1>4. Protocol'
  BY <1>1, LinesOfPipes DEF IInv, Protocol, Working, Confidential, Hardware, Exited
<1>5. Checked'
  BY <1>1 DEF Checked
<1>6. ~Able'
  BY <1>1 DEF Able, Fault, IInv, Numbers
<1> QED
  BY <1>1, <1>2, <1>3, <1>4, <1>5, <1>6, EnclaveKeeps DEF request
-----------------------------------------------------------------------------
LEMMA NextIInv == IInv /\ [Next]_vars => IInv'
<1> SUFFICES ASSUME IInv, [Next]_vars PROVE IInv'
  OBVIOUS
<1>1. CASE HostStep
  BY <1>1, SpawnStep, SendPayloadStep, ReadRequestStep, AskBrokerStep, SendResponseStep,
     ReadOutputStep, WaitStep DEF HostStep
<1>2. CASE EnclaveStep
  BY <1>2, LogStep, ReadPayloadStep, HandshakeStep, ReadResponseStep, ProveStep, OutputStep,
     ExitStep DEF EnclaveStep
<1>3. CASE UNCHANGED vars
  <2>1. UNCHANGED <<mode, broker, record, key, host, stdinOpen, enclave, toLog, stderr, stdin, stdout, faults>>
    BY <1>3 DEF vars, request, hostVars, enclaveVars
  <2>2. Places' /\ Flag' /\ OneLine' /\ Protocol'
    BY <2>1 DEF IInv, Places, Flag, OneLine, Protocol, Working, Confidential, Hardware, Exited
  <2>3. Numbers'
    BY <2>1 DEF IInv, Numbers
  <2>4. Checked'
    BY <2>1, CheckedKept DEF IInv, request
  <2>5. Able' => Able
    BY <2>1, AbleKept DEF IInv, request
  <2>6. Succeeding'
    BY <2>1, <2>5 DEF IInv, Succeeding, HostDone
  <2> QED
    BY <2>2, <2>3, <2>4, <2>6 DEF IInv
<1> QED
  BY <1>1, <1>2, <1>3, CrashStep DEF Next

\* The inductive invariant holds in every reachable state of a session.
THEOREM Invariance == Spec => []IInv
  BY InitIInv, NextIInv, PTL DEF Spec

\* The session is well typed; stdin and stdout never hold more than one line
\* each, so that only a payload that is longer than the pipe has to wait.
THEOREM TypeCorrect == Spec => []TypeOK
<1>1. ASSUME IInv PROVE TypeOK
  <2>1. Payload \in Line /\ Response \in Line /\ Request \in Line
    BY DEF Payload, Response, Request, Line
  <2>2. Proof(Hardware) \in Line
    <3>1. Hardware \in BOOLEAN
      BY <1>1 DEF IInv, Places, Mode, Hardware
    <3>2. Required \in Nat
      BY LevelsAssumption, FieldAssumption DEF Level
    <3> QED
      BY <3>1, <3>2 DEF Proof, Line
  <2>3. stdin \in Seq(Line) /\ Len(stdin) <= 1
    <3>1. stdin = <<>> \/ stdin = <<Payload>> \/ stdin = <<Response>>
      BY <1>1 DEF IInv, OneLine
    <3> QED
      BY <2>1, <3>1, PipeOf
  <2>4. stdout \in Seq(Line) /\ Len(stdout) <= 1
    <3>1. stdout = <<>> \/ stdout = <<Request>> \/ stdout = <<Proof(Hardware)>>
      BY <1>1 DEF IInv, OneLine
    <3> QED
      BY <2>1, <2>2, <3>1, PipeOf
  <2> QED
    BY <1>1, <2>3, <2>4 DEF IInv, Places, Flag, Numbers, TypeOK
<1> QED
  BY <1>1, Invariance, PTL

\* Ok of execute_proof and execute_confidential_proof stands for a proof at
\* the required level, made by an enclave that ended well from a record it
\* could open, and with a quote if the session was confidential.
THEOREM OkProof == Spec => []OkIsProof
<1>1. ASSUME IInv, host = "ok" PROVE OkIsProof
  <2>1. enclave = "exit0" /\ stdout = <<Proof(Hardware)>>
    BY <1>1 DEF IInv, Protocol
  <2>2. Head(stdout) = Proof(Hardware)
    BY <2>1, Pipe
  <2>3. Head(stdout).level = Required /\ (Head(stdout).quote <=> Hardware)
    BY <2>2 DEF Proof
  <2>4. Proves /\ (Confidential => Hardware)
    BY <1>1, <2>1 DEF IInv, Checked
  <2>5. record.form # "clear" => record.under = key
    BY <2>4 DEF Proves, Unseals
  <2>6. record.clearance \in Required..(Required + 255)
    <3>1. record.clearance \in Level /\ Required \in Level
      BY <1>1, LevelsAssumption DEF IInv, Places, Record
    <3> QED
      BY <2>4, <3>1, RangeCheckIsExact DEF Proves
  <2> QED
    BY <2>1, <2>3, <2>4, <2>5, <2>6 DEF OkIsProof
<1>2. IInv => OkIsProof
  BY <1>1 DEF OkIsProof
<1> QED
  BY <1>2, Invariance, PTL

\* execute_proof on a sealed record, with the right key and enough clearance,
\* never fails of itself, for any amount of log and whatever the order in which
\* host and enclave run.
THEOREM PlainSucceeds == Spec => []PlainProofSucceeds
<1>1. IInv => PlainProofSucceeds
  BY DEF IInv, Succeeding, Able, PlainProofSucceeds
<1> QED
  BY <1>1, Invariance, PTL
=============================================================================
