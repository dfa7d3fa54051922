----------------------- MODULE CredentialSigningProofs -----------------------
(***************************************************************************)
(* The types and the properties of CredentialSigning, for any number of    *)
(* calls, keys, key types and restarts.                                    *)
(***************************************************************************)
EXTENDS CredentialSigning, TLAPS

\* A registration that is clean has the latest key, which is an Ed25519 one, and
\* no other key is under way; once committed its key is in the document.
CleanCalls ==
    \A r \in Registrars : register[r].clean =>
        /\ register[r].at # "idle"
        /\ register[r].key = latest /\ HasPublicKey(latest)
        /\ NoStaleRegistration
        /\ register[r].at = "committed" => did = latest

\* A confirmed key is in the document and nothing under way can replace it.
Confirmation == confirmed => did = latest /\ HasPublicKey(latest) /\ NoStaleRegistration

\* Vault signs with the key that is the latest when it signs, and as the
\* parameters say if these are the ones of its type.
Sound(p, ks) == p.key = p.during /\ p.form \in SignatureForms(p.asked, ks[p.during])

ProofsAreSound ==
    /\ \A p \in issued : Sound(p, keys)
    /\ \A i \in Issuers : create[i].at = "signed" => Sound(create[i].proof, keys)

IInv == TypeOK /\ CleanCalls /\ Confirmation /\ ProofsAreSound

-----------------------------------------------------------------------------
\* The first key is the only one, and nothing has been done with it.
LEMMA InitIInv == Init => IInv
<1> SUFFICES ASSUME Init PROVE IInv
    OBVIOUS
<1>1. PICK t \in KeyTypes : keys = <<t>>
    BY DEF Init
<1>2. keys \in Seq(KeyTypes) /\ Len(keys) = 1
    BY <1>1
<1>3. TypeOK
  <2>0. did = 0 /\ sent = {} /\ issued = {} /\ restarts = 0 /\ confirmed = FALSE
        /\ backend \in {"local", "vault"}
    BY DEF Init
  <2>1. latest = 1 /\ latest \in 1..MaxKeys /\ 0 \in 0..MaxRestarts
    BY <1>2, KeysAssumption DEF latest
  <2>2. register \in [Registrars -> {NoRegister} \cup Registering]
    BY DEF Init
  <2>3. create \in [Issuers -> {NoCreate} \cup Typed \cup Signed]
    BY DEF Init
  <2> QED
    <3>1. did \in 0..latest /\ restarts \in 0..MaxRestarts
      BY <2>0, <2>1
    <3>2. sent \subseteq Registrars \X (0..latest) /\ issued \subseteq Proof
          /\ confirmed \in BOOLEAN
      BY <2>0, Zenon
    <3> QED
      BY <1>2, <2>0, <2>1, <2>2, <2>3, <3>1, <3>2, Zenon DEF TypeOK
<1>4. CleanCalls /\ Confirmation /\ ProofsAreSound
  <2>1. \A r \in Registrars : register[r] = NoRegister
    BY DEF Init
  <2>2. \A i \in Issuers : create[i] = NoCreate
    BY DEF Init
  <2> QED
    BY <2>1, <2>2 DEF Init, CleanCalls, Confirmation, ProofsAreSound, NoRegister, NoCreate
<1> QED
    BY <1>3, <1>4 DEF IInv

-----------------------------------------------------------------------------
\* A record of a registration that is under way.
LEMMA RegisterType ==
    ASSUME TypeOK, NEW r \in Registrars, register[r].at # "idle"
    PROVE  register[r] \in Registering
BY DEF TypeOK, NoRegister

\* What create_credential holds.
LEMMA CreateTypes ==
    ASSUME TypeOK, NEW i \in Issuers
    PROVE  /\ create[i].at = "typed" => create[i].type \in KeyTypes
           /\ create[i].at = "signed" => create[i].proof \in Proof
BY DEF TypeOK, NoCreate, Typed, Signed

\* No step of a call changes the keys, and the types of the rest follow.
LEMMA RegisterTypes ==
    ASSUME TypeOK, NEW r \in Registrars, Register(r)
    PROVE  TypeOK'
<1> USE DEF TypeOK
<1>1. CASE RegisterRead(r)
  <2>1. latest' = latest /\ latest \in 1..MaxKeys
    BY <1>1 DEF RegisterRead, latest
  <2>2. [at |-> "read", key |-> public_key, clean |-> NoStaleRegistration] \in Registering
    BY <2>1, KeysAssumption DEF Registering, public_key, NoStaleRegistration
  <2>3. register' \in [Registrars -> {NoRegister} \cup Registering]
    BY <1>1, <2>2 DEF RegisterRead
  <2> QED
    BY <1>1, <2>1, <2>3 DEF RegisterRead, Registering, Signed, Proof
<1>4. ASSUME NEW key \in 0..latest, RegisterGiven(r, key) PROVE TypeOK'
  <2>1. latest' = latest
    BY <1>4 DEF RegisterGiven, latest
  <2>2. ASSUME NEW q \in Registrars
        PROVE  [register[q] EXCEPT !.clean = @ /\ key = latest] \in {NoRegister} \cup Registering
    <3>1. CASE register[q] = NoRegister
      <4>1. [NoRegister EXCEPT !.clean = @ /\ key = latest] = NoRegister
        <5>1. NoRegister \in [at : {"idle"}, key : {0}, clean : BOOLEAN] /\ NoRegister.clean = FALSE
          BY DEF NoRegister
        <5> QED
          BY <5>1
      <4> QED
        BY <3>1, <4>1, Zenon
    <3>2. CASE register[q] \in Registering
      BY <3>2 DEF Registering
    <3> QED
      BY <3>1, <3>2
  <2>3. [at |-> "read", key |-> key, clean |-> FALSE] \in Registering
    BY DEF Registering
  <2>4. register' \in [Registrars -> {NoRegister} \cup Registering]
    BY <1>4, <2>2, <2>3 DEF RegisterGiven
  <2>5. confirmed' \in BOOLEAN
    BY <1>4 DEF RegisterGiven
  <2> QED
    BY <1>4, <2>1, <2>4, <2>5 DEF RegisterGiven, Registering, Signed, Proof
<1>2. CASE RegisterSubmit(r)
  <2>1. latest' = latest
    BY <1>2 DEF RegisterSubmit, latest
  <2>2. register[r] \in Registering
    BY <1>2, RegisterType DEF RegisterSubmit
  <2>3. register' \in [Registrars -> {NoRegister} \cup Registering]
    BY <1>2, <2>2 DEF RegisterSubmit, Registering
  <2>4. sent' \subseteq Registrars \X (0..latest)
    BY <1>2, <2>2 DEF RegisterSubmit, Registering
  <2> QED
    BY <1>2, <2>1, <2>3, <2>4 DEF RegisterSubmit, Registering, Signed, Proof
<1>3. CASE RegisterOk(r) \/ RegisterErr(r)
  <2>1. latest' = latest
    BY <1>3 DEF RegisterOk, RegisterErr, latest
  <2>2. register' \in [Registrars -> {NoRegister} \cup Registering]
    BY <1>3 DEF RegisterOk, RegisterErr
  <2>3. confirmed' \in BOOLEAN
    <3>1. CASE RegisterOk(r)
      <4>1. register[r] \in Registering
        BY <3>1, RegisterType DEF RegisterOk
      <4> QED
        BY <3>1, <4>1 DEF RegisterOk, Registering
    <3>2. CASE RegisterErr(r)
      BY <3>2 DEF RegisterErr
    <3> QED
      BY <1>3, <3>1, <3>2
  <2> QED
    BY <1>3, <2>1, <2>2, <2>3 DEF RegisterOk, RegisterErr, Registering, Signed, Proof
<1> QED
    BY <1>1, <1>2, <1>3, <1>4 DEF Register

\* The same of a commit, which copies a key from the orderer to the document.
LEMMA CommitTypes ==
    ASSUME TypeOK, NEW tx \in sent, CommitRegistration(tx)
    PROVE  TypeOK'
<1> USE DEF TypeOK
<1>1. latest' = latest
    BY DEF CommitRegistration, latest
<1>2. tx[1] \in Registrars /\ tx[2] \in 0..latest
    OBVIOUS
<1>3. register' \in [Registrars -> {NoRegister} \cup Registering]
  <2>1. CASE register[tx[1]].at = "sent"
    <3>1. register[tx[1]] \in Registering
      BY <1>2, <2>1, RegisterType
    <3> QED
      BY <1>2, <2>1, <3>1 DEF CommitRegistration, Registering
  <2>2. CASE register[tx[1]].at # "sent"
    <3>1. [register[tx[1]] EXCEPT !.at = register[tx[1]].at] = register[tx[1]]
      BY <1>2 DEF Registering, NoRegister
    <3> QED
      BY <1>2, <2>2, <3>1 DEF CommitRegistration
  <2> QED
    BY <2>1, <2>2
<1>4. did' \in 0..latest
    BY <1>2 DEF CommitRegistration
<1> QED
    BY <1>1, <1>3, <1>4 DEF CommitRegistration, Registering, Signed, Proof

\* The same of create_credential.
LEMMA CreateStepTypes ==
    ASSUME TypeOK, NEW i \in Issuers, Create(i)
    PROVE  TypeOK'
<1> USE DEF TypeOK
<1>1. latest' = latest /\ latest \in 1..MaxKeys
    BY DEF Create, CreateType, CreateSign, CreateReturn, CreateFails, latest
<1>2. CASE CreateType(i)
  <2>1. keys[latest] \in KeyTypes
    BY <1>1, KeysAssumption DEF latest
  <2>2. create' \in [Issuers -> {NoCreate} \cup Typed \cup Signed]
    BY <1>2, <2>1 DEF CreateType, Typed
  <2> QED
    BY <1>1, <1>2, <2>2 DEF CreateType, Registering, Signed, Proof
<1>3. ASSUME NEW form \in Forms, CreateSign(i, form) PROVE TypeOK'
  <2> DEFINE p == [key |-> signing_key, form |-> form, asked |-> create[i].type, during |-> latest]
  <2>1. p \in Proof
    BY <1>1, <1>3, CreateTypes, KeysAssumption DEF CreateSign, Proof, signing_key
  <2>2. create' \in [Issuers -> {NoCreate} \cup Typed \cup Signed]
    BY <1>3, <2>1 DEF CreateSign, Signed
  <2> QED
    BY <1>1, <1>3, <2>2 DEF CreateSign, Registering, Signed, Proof
<1>4. CASE CreateReturn(i)
  <2>1. create[i].proof \in Proof
    BY <1>4, CreateTypes DEF CreateReturn
  <2> QED
    BY <1>1, <1>4, <2>1 DEF CreateReturn, Registering, Signed, Proof
<1>5. CASE CreateFails(i)
    BY <1>1, <1>5 DEF CreateFails, Registering, Signed, Proof
<1> QED
    BY <1>2, <1>3, <1>4, <1>5 DEF Create

\* A new key comes last: the older ones keep their numbers and types.
LEMMA KeysGrow ==
    ASSUME TypeOK, NEW t \in KeyTypes, NewKey(t)
    PROVE  /\ keys' \in Seq(KeyTypes)
           /\ latest' = latest + 1 /\ latest' \in 1..MaxKeys
           /\ 1..latest \subseteq 1..latest'
           /\ \A k \in 1..latest : keys'[k] = keys[k]
<1>1. keys \in Seq(KeyTypes) /\ Len(keys) \in 1..MaxKeys /\ Len(keys) < MaxKeys
    BY DEF TypeOK, NewKey, latest
<1>2. keys' = Append(keys, t)
    BY DEF NewKey
<1>3. keys' \in Seq(KeyTypes) /\ Len(keys') = Len(keys) + 1
      /\ \A k \in 1..Len(keys) : keys'[k] = keys[k]
    BY <1>1, <1>2
<1> QED
    BY <1>1, <1>3, KeysAssumption DEF latest

\* A rotation leaves every record in its type.
LEMMA RotateTypes ==
    ASSUME TypeOK, NEW t \in KeyTypes, RotateVaultKey(t)
    PROVE  TypeOK'
<1>1. /\ keys' \in Seq(KeyTypes) /\ latest' \in 1..MaxKeys
      /\ latest \in Nat /\ latest' = latest + 1 /\ 1..latest \subseteq 1..latest'
      /\ 0..latest \subseteq 0..latest'
  <2>1. NewKey(t)
    BY DEF RotateVaultKey
  <2>2. latest \in 1..MaxKeys
    BY DEF TypeOK
  <2> QED
    BY <2>1, <2>2, KeysGrow, KeysAssumption
<1>2. Proof \subseteq Proof'
    BY <1>1 DEF Proof
<1>3. register' \in [Registrars -> {NoRegister} \cup Registering']
  <2>1. ASSUME NEW r \in Registrars
        PROVE  [register[r] EXCEPT !.clean = FALSE] \in {NoRegister} \cup Registering'
    <3>1. CASE register[r] = NoRegister
      <4>1. [NoRegister EXCEPT !.clean = FALSE] = NoRegister
        <5>1. NoRegister \in [at : {"idle"}, key : {0}, clean : BOOLEAN]
              /\ NoRegister.clean = FALSE
          BY DEF NoRegister
        <5> QED
          BY <5>1
      <4> QED
        BY <3>1, <4>1, Zenon
    <3>2. CASE register[r] \in Registering
      BY <1>1, <3>2 DEF Registering
    <3> QED
      BY <3>1, <3>2 DEF TypeOK
  <2> QED
    BY <2>1 DEF RotateVaultKey
<1>4. create' \in [Issuers -> {NoCreate} \cup Typed \cup Signed']
  <2>1. Signed \subseteq Signed'
    BY <1>2 DEF Signed
  <2> QED
    BY <2>1 DEF RotateVaultKey, TypeOK
<1>5. sent' \subseteq Registrars \X (0..latest')
    BY <1>1 DEF RotateVaultKey, TypeOK
<1> QED
    BY <1>1, <1>2, <1>3, <1>4, <1>5 DEF TypeOK, RotateVaultKey, NewKey

\* A restart ends the calls; with a local signer it also makes a key.
LEMMA RestartTypes ==
    ASSUME TypeOK, Restart
    PROVE  TypeOK'
<1>1. /\ keys' \in Seq(KeyTypes) /\ latest' \in 1..MaxKeys
      /\ 1..latest \subseteq 1..latest' /\ 0..latest \subseteq 0..latest'
  <2>1. latest \in 1..MaxKeys
    BY DEF TypeOK
  <2>2. CASE backend = "local"
    <3>1. NewKey("ed25519") /\ "ed25519" \in KeyTypes
      BY <2>2, KeyTypesAssumption DEF Restart
    <3> QED
      BY <2>1, <3>1, KeysGrow, KeysAssumption
  <2>3. CASE backend # "local"
    <3>1. keys' = keys
      BY <2>3 DEF Restart
    <3> QED
      BY <2>1, <3>1 DEF TypeOK, latest
  <2> QED
    BY <2>2, <2>3
<1>2. Proof \subseteq Proof'
    BY <1>1 DEF Proof
<1>3. sent' \subseteq Registrars \X (0..latest')
    BY <1>1 DEF Restart, TypeOK
<1>4. restarts' \in 0..MaxRestarts
    BY KeysAssumption DEF Restart, TypeOK
<1>5. confirmed' \in BOOLEAN
    BY DEF Restart, NewKey, TypeOK
<1>6. register' \in [Registrars -> {NoRegister} \cup Registering']
    BY DEF Restart
<1>7. create' \in [Issuers -> {NoCreate} \cup Typed \cup Signed']
    BY DEF Restart
<1> QED
    BY <1>1, <1>2, <1>3, <1>4, <1>5, <1>6, <1>7 DEF TypeOK, Restart
-----------------------------------------------------------------------------
\* What the invariant says beyond the types.
Rest == CleanCalls /\ Confirmation /\ ProofsAreSound

\* A registration that reads the key is clean if there is no stale one.
LEMMA RegisterReadRest ==
    ASSUME IInv, NEW r \in Registrars, RegisterRead(r)
    PROVE  Rest'
<1> USE DEF IInv, RegisterRead
<1>1. latest' = latest /\ \A k : HasPublicKey(k)' <=> HasPublicKey(k)
    BY DEF latest, HasPublicKey
<1>2. /\ register'[r] = [at |-> "read", key |-> latest, clean |-> NoStaleRegistration]
      /\ \A q \in Registrars : q # r => register'[q] = register[q]
    BY DEF TypeOK, public_key
<1>3. NoStaleRegistration => NoStaleRegistration'
    BY <1>1, <1>2 DEF NoStaleRegistration
<1>4. CleanCalls'
  <2>1. HasPublicKey(latest)
    BY DEF public_key
  <2> QED
    BY <1>1, <1>2, <1>3, <2>1 DEF CleanCalls
<1>5. Confirmation'
    BY <1>1, <1>3 DEF Confirmation
<1> QED
    BY <1>4, <1>5 DEF Rest, ProofsAreSound

\* A registration of the latest key disturbs nothing; one of another key ends
\* the confirmation, and no call is clean any more.
LEMMA RegisterGivenRest ==
    ASSUME IInv, NEW r \in Registrars, NEW key \in 0..latest, RegisterGiven(r, key)
    PROVE  Rest'
<1> USE DEF IInv, RegisterGiven
<1>1. latest' = latest /\ \A k : HasPublicKey(k)' <=> HasPublicKey(k)
    BY DEF latest, HasPublicKey
<1>2. register'[r] = [at |-> "read", key |-> key, clean |-> FALSE]
    OBVIOUS
<1>3. ASSUME NEW q \in Registrars, q # r
      PROVE  /\ register'[q].at = register[q].at /\ register'[q].key = register[q].key
             /\ register'[q].clean => register[q].clean /\ key = latest
  <2>1. register[q] = NoRegister \/ register[q] \in Registering
    BY DEF TypeOK
  <2>2. register'[q] = [register[q] EXCEPT !.clean = @ /\ key = latest]
    BY <1>3
  <2> QED
    BY <2>1, <2>2 DEF NoRegister, Registering
<1>4. NoStaleRegistration /\ key = latest => NoStaleRegistration'
    BY <1>1, <1>2, <1>3 DEF NoStaleRegistration
<1>5. CleanCalls'
    BY <1>1, <1>2, <1>3, <1>4 DEF CleanCalls
<1>6. Confirmation'
    BY <1>1, <1>4 DEF Confirmation
<1> QED
    BY <1>5, <1>6 DEF Rest, ProofsAreSound

\* What a call sends is the key it has read.
LEMMA RegisterSubmitRest ==
    ASSUME IInv, NEW r \in Registrars, RegisterSubmit(r)
    PROVE  Rest'
<1> USE DEF IInv, RegisterSubmit
<1>1. latest' = latest /\ \A k : HasPublicKey(k)' <=> HasPublicKey(k)
    BY DEF latest, HasPublicKey
<1>2. /\ \/ register'[r] = NoRegister
         \/ /\ register'[r].at = "sent"
            /\ register'[r].key = register[r].key
            /\ register'[r].clean = register[r].clean
      /\ \A q \in Registrars : q # r => register'[q] = register[q]
  <2>1. register[r] \in Registering
    BY RegisterType
  <2> QED
    BY <2>1 DEF TypeOK, Registering
<1>3. sent' = sent \/ sent' = sent \cup {<<r, register[r].key>>}
    OBVIOUS
<1>4. NoStaleRegistration => NoStaleRegistration'
    BY <1>1, <1>2, <1>3 DEF NoStaleRegistration, NoRegister
<1>5. CleanCalls'
    BY <1>1, <1>2, <1>4 DEF CleanCalls, NoRegister
<1>6. Confirmation'
    BY <1>1, <1>4 DEF Confirmation
<1> QED
    BY <1>5, <1>6 DEF Rest, ProofsAreSound

\* Ok of a clean call confirms the key; the others confirm nothing new.
LEMMA RegisterReturnRest ==
    ASSUME IInv, NEW r \in Registrars, RegisterOk(r) \/ RegisterErr(r)
    PROVE  Rest'
<1> USE DEF IInv
<1>1. /\ latest' = latest /\ did' = did /\ sent' = sent
      /\ \A k : HasPublicKey(k)' <=> HasPublicKey(k)
    BY DEF RegisterOk, RegisterErr, latest, HasPublicKey
<1>2. /\ register'[r] = NoRegister
      /\ \A q \in Registrars : q # r => register'[q] = register[q]
    BY DEF RegisterOk, RegisterErr, TypeOK
<1>3. NoStaleRegistration => NoStaleRegistration'
    BY <1>1, <1>2 DEF NoStaleRegistration, NoRegister
<1>4. CleanCalls'
    BY <1>1, <1>2, <1>3 DEF CleanCalls, NoRegister
<1>5. Confirmation'
  <2>1. CASE confirmed
    BY <1>1, <1>3, <2>1 DEF Confirmation
  <2>2. CASE ~confirmed /\ confirmed'
    <3>1. register[r].clean /\ register[r].at = "committed"
      BY <2>2 DEF RegisterOk, RegisterErr
    <3> QED
      BY <1>1, <1>3, <3>1 DEF Confirmation, CleanCalls
  <2> QED
    BY <2>1, <2>2 DEF Confirmation
<1>6. ProofsAreSound'
    BY DEF RegisterOk, RegisterErr, ProofsAreSound
<1> QED
    BY <1>4, <1>5, <1>6 DEF Rest

\* Where nothing is stale, a commit writes the latest key.
LEMMA CommitRest ==
    ASSUME IInv, NEW tx \in sent, CommitRegistration(tx)
    PROVE  Rest'
<1> USE DEF IInv, CommitRegistration
<1>1. latest' = latest /\ \A k : HasPublicKey(k)' <=> HasPublicKey(k)
    BY DEF latest, HasPublicKey
<1>2. tx[1] \in Registrars
    BY DEF TypeOK
<1>3. \A q \in Registrars :
        /\ register'[q].key = register[q].key
        /\ register'[q].clean = register[q].clean
        /\ register'[q].at = "idle" <=> register[q].at = "idle"
        /\ register'[q].at = "read" <=> register[q].at = "read"
  <2>1. \A q \in Registrars : q # tx[1] => register'[q] = register[q]
    BY <1>2 DEF TypeOK
  <2>2. register'[tx[1]] = [register[tx[1]] EXCEPT
                               !.at = IF @ = "sent" THEN "committed" ELSE @]
    BY <1>2 DEF TypeOK
  <2>3. register[tx[1]] = NoRegister \/ register[tx[1]] \in Registering
    BY <1>2 DEF TypeOK
  <2> QED
    BY <2>1, <2>2, <2>3 DEF Registering, NoRegister
<1>4. NoStaleRegistration => NoStaleRegistration' /\ did' = latest
    BY <1>1, <1>3 DEF NoStaleRegistration
<1>5. CleanCalls'
    BY <1>1, <1>3, <1>4 DEF CleanCalls
<1>6. Confirmation'
    BY <1>1, <1>4 DEF Confirmation
<1> QED
    BY <1>5, <1>6 DEF Rest, ProofsAreSound

\* A signature names the latest key; the ledger is not touched.
LEMMA CreateRest ==
    ASSUME IInv, NEW i \in Issuers, Create(i)
    PROVE  Rest'
<1> USE DEF IInv
<1>1. UNCHANGED <<keys, did, sent, register, confirmed>>
    BY DEF Create, CreateType, CreateSign, CreateReturn, CreateFails
<1>2. ProofsAreSound'
  <2>1. CASE CreateType(i)
    BY <2>1 DEF CreateType, ProofsAreSound, TypeOK
  <2>2. ASSUME NEW form \in Forms, CreateSign(i, form) PROVE ProofsAreSound'
    <3>1. Sound([key |-> signing_key, form |-> form,
                 asked |-> create[i].type, during |-> latest], keys)
      BY <2>2 DEF CreateSign, Sound, signing_key
    <3> QED
      BY <1>1, <2>2, <3>1 DEF CreateSign, ProofsAreSound, TypeOK
  <2>3. CASE CreateReturn(i) \/ CreateFails(i)
    BY <2>3 DEF CreateReturn, CreateFails, ProofsAreSound, TypeOK, NoCreate
  <2> QED
    BY <2>1, <2>2, <2>3 DEF Create
<1>3. CleanCalls' /\ Confirmation'
    BY <1>1 DEF CleanCalls, Confirmation, NoStaleRegistration, HasPublicKey, latest
<1> QED
    BY <1>2, <1>3 DEF Rest

\* A rotation ends every confirmation, and older keys keep their types.
LEMMA RotateRest ==
    ASSUME IInv, NEW t \in KeyTypes, RotateVaultKey(t)
    PROVE  Rest'
<1> USE DEF IInv
<1>1. /\ \A r \in Registrars : /\ register'[r].at = register[r].at
                               /\ register'[r].key = register[r].key
                               /\ register'[r].clean = FALSE
      /\ confirmed' = FALSE
  <2>1. \A r \in Registrars : register[r] = NoRegister \/ register[r] \in Registering
    BY DEF TypeOK
  <2> QED
    BY <2>1 DEF RotateVaultKey, NewKey, NoRegister, Registering
<1>3. CleanCalls' /\ Confirmation'
    BY <1>1 DEF CleanCalls, Confirmation
<1>4. ProofsAreSound'
  <2>1. \A k \in 1..latest : keys'[k] = keys[k]
    BY KeysGrow DEF RotateVaultKey
  <2>2. \A p \in Proof : Sound(p, keys) => Sound(p, keys')
    BY <2>1 DEF Sound, Proof
  <2> QED
    BY <2>2, CreateTypes DEF RotateVaultKey, ProofsAreSound, TypeOK
<1> QED
    BY <1>3, <1>4 DEF Rest

\* A restart ends the registrations; what is with the orderer stays there.
LEMMA RestartRest ==
    ASSUME IInv, Restart
    PROVE  Rest'
<1> USE DEF IInv
<1>1. /\ \A r \in Registrars : register'[r] = NoRegister
      /\ \A i \in Issuers : create'[i] = NoCreate
      /\ UNCHANGED <<did, sent, issued>>
    BY DEF Restart
<1>2. /\ \A k \in 1..latest : keys'[k] = keys[k]
      /\ confirmed' => confirmed /\ latest' = latest
  <2>1. CASE backend = "local"
    <3>1. NewKey("ed25519") /\ "ed25519" \in KeyTypes
      BY <2>1, KeyTypesAssumption DEF Restart
    <3> QED
      BY <3>1, KeysGrow DEF NewKey
  <2>2. CASE backend # "local"
    BY <2>2 DEF Restart, latest
  <2> QED
    BY <2>1, <2>2
<1>3. CleanCalls'
    BY <1>1 DEF CleanCalls, NoRegister
<1>4. Confirmation'
  <2>1. latest \in 1..latest
    BY KeysAssumption DEF TypeOK
  <2> QED
    BY <1>1, <1>2, <2>1 DEF Confirmation, NoStaleRegistration, NoRegister, HasPublicKey
<1>5. ProofsAreSound'
  <2>1. \A p \in Proof : Sound(p, keys) => Sound(p, keys')
    BY <1>2 DEF Sound, Proof
  <2> QED
    BY <1>1, <2>1 DEF ProofsAreSound, NoCreate, TypeOK
<1> QED
    BY <1>3, <1>4, <1>5 DEF Rest

-----------------------------------------------------------------------------
\* Every step keeps the invariant.
LEMMA NextIInv == IInv /\ [Next]_vars => IInv'
<1> SUFFICES ASSUME IInv, [Next]_vars PROVE TypeOK' /\ Rest'
    BY DEF IInv, Rest
<1> USE DEF IInv
<1>1. ASSUME NEW r \in Registrars, Register(r) PROVE TypeOK' /\ Rest'
    BY <1>1, RegisterTypes, RegisterReadRest, RegisterGivenRest, RegisterSubmitRest,
       RegisterReturnRest
       DEF Register
<1>2. ASSUME NEW tx \in sent, CommitRegistration(tx) PROVE TypeOK' /\ Rest'
    BY <1>2, CommitTypes, CommitRest
<1>3. ASSUME NEW i \in Issuers, Create(i) PROVE TypeOK' /\ Rest'
    BY <1>3, CreateStepTypes, CreateRest
<1>4. ASSUME NEW t \in KeyTypes, RotateVaultKey(t) PROVE TypeOK' /\ Rest'
    BY <1>4, RotateTypes, RotateRest
<1>5. CASE Restart
    BY <1>5, RestartTypes, RestartRest
<1>6. CASE UNCHANGED vars
  <2>1. TypeOK'
    BY <1>6 DEF vars, TypeOK, latest, Registering, Signed, Proof
  <2>2. Rest'
    BY <1>6 DEF vars, Rest, CleanCalls, Confirmation, ProofsAreSound, NoStaleRegistration,
                HasPublicKey, latest
  <2> QED
    BY <2>1, <2>2
<1> QED
    BY <1>1, <1>2, <1>3, <1>4, <1>5, <1>6 DEF Next

\* The invariant holds in every reachable state.
THEOREM Invariance == Spec => []IInv
BY InitIInv, NextIInv, PTL DEF Spec

\* The state of the issuer, of Vault and of the ledger keeps its types,
\* whatever keys are made and wherever a restart falls.
THEOREM TypeCorrect == Spec => []TypeOK
<1>1. IInv => TypeOK
    BY DEF IInv
<1> QED
    BY <1>1, Invariance, PTL

\* Ok of register_signing_did, for a call that met no registration of another
\* key and no new key, means that the document has the latest key and keeps it.
THEOREM KeyConfirmed == Spec => []ConfirmedKeyIsLatest
<1>1. IInv => ConfirmedKeyIsLatest
    BY DEF IInv, Confirmation, ConfirmedKeyIsLatest
<1> QED
    BY <1>1, Invariance, PTL

\* Then only credentials signed since the key changed verify, and all of these
\* for which the type of the key was read as Ed25519.
THEOREM ProofsVerify == Spec => []ConfirmedProofsVerify
<1>1. IInv => ConfirmedProofsVerify
  <2> SUFFICES ASSUME IInv, confirmed, NEW p \in issued
               PROVE  /\ Verifies(p) => p.during = latest
                      /\ p.during = latest /\ p.asked = "ed25519" => Verifies(p)
    BY DEF ConfirmedProofsVerify
  <2>1. did = latest /\ keys[latest] = "ed25519" /\ p.key = p.during
        /\ p.form \in SignatureForms(p.asked, keys[p.during])
    BY DEF IInv, Confirmation, HasPublicKey, ProofsAreSound, Sound
  <2> QED
    BY <2>1 DEF Verifies, SignatureForms
<1> QED
    BY <1>1, Invariance, PTL
=============================================================================
