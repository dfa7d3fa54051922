----------------------- MODULE AttestationBrokerProofs -----------------------
(***************************************************************************)
(* The properties of AttestationBroker, for any number of requests,        *)
(* enclaves, levels and secrets.                                           *)
(***************************************************************************)
EXTENDS AttestationBroker, TLAPS

\* What a handler has in hand at each of its requests to Vault, when n secrets
\* are drawn and some ciphertexts kept.  Only a genuine enclave gets past the
\* quote, and each of the two that are opened for it is on disk.
WellFormed(c, n, kept) ==
    /\ c.at # "idle" => c.key \in Enclaves
    /\ c.at \in {"datakey", "spared", "seeded", "encrypted"} => c.wallet \in 1..n
    /\ c.at \in {"seeded", "encrypted"} => c.seed \in 1..n /\ c.seed # c.wallet
    /\ c.at \in {"verified", "walletOpen"} =>
           /\ c.key \in Genuine /\ c.ciphertexts \in Ciphertexts(1..n)
           /\ c.ciphertexts.wallet \in kept /\ c.ciphertexts.seed \in kept
    /\ c.at = "walletOpen" => c.wallet = c.ciphertexts.wallet.vault

HandlersOK == \A h \in Calls : WellFormed(call[h], drawn, OnDisk)

\* The secrets that a provisioning call has drawn and not given away yet.
Own(c) ==
    IF c.at \in {"datakey", "spared"} THEN {c.wallet}
    ELSE IF c.at \in {"seeded", "encrypted"} THEN {c.wallet, c.seed}
    ELSE {}

Secrets(d) == {d.wallet.vault, d.seed.vault}

\* Such a secret is known to no other call and is not in a kept ciphertext.
OwnAreFresh ==
    /\ \A g, h \in Calls : g # h => Own(call[g]) \cap Own(call[h]) = {}
    /\ \A h \in Calls, d \in disk : Own(call[h]) \cap Secrets(d) = {}

\* The two secrets of a kept pair differ, and no two pairs have one in common.
DiskIsSeparate ==
    /\ \A d \in disk : d.wallet.vault # d.seed.vault
    /\ \A c, d \in disk : c # d => Secrets(c) \cap Secrets(d) = {}

IInv ==
    /\ TypeOK
    /\ HandlersOK /\ OwnAreFresh /\ DiskIsSeparate
    /\ SessionsAgree /\ SharedOnlyWithGenuine
-----------------------------------------------------------------------------
\* The records of handlers, as TypeOK has them.
Handler == [at : Places, key : Enclaves \cup {None},
            wallet : 1..drawn \cup {None}, spare : 1..drawn \cup {None},
            seed : 1..drawn \cup {None},
            ciphertexts : Ciphertexts(1..drawn) \cup {None}]

\* A handler that is done, or has not begun, has nothing.
LEMMA IdleHandler ==
    /\ NoCall \in Handler /\ NoCall \in Handler'
    /\ NoCall.at = "idle"
    /\ Own(NoCall) = {}
BY DEF NoCall, Handler, Places, Own

\* Nothing is drawn, kept or sent yet.
LEMMA InitIInv == Init => IInv
<1> SUFFICES ASSUME Init PROVE IInv
  OBVIOUS
<1>1. call \in [Calls -> Handler] /\ \A h \in Calls : call[h] = NoCall
  BY IdleHandler DEF Init
<1>2. TypeOK
  <2>1. drawn \in 0..MaxSecrets
    BY SecretsAssumption DEF Init
  <2> QED
    BY <1>1, <2>1 DEF Init, TypeOK, Handler
<1>3. HandlersOK
  BY <1>1, IdleHandler DEF HandlersOK, WellFormed
<1>4. OwnAreFresh /\ DiskIsSeparate
  BY <1>1, IdleHandler DEF Init, OwnAreFresh, DiskIsSeparate
<1>5. SessionsAgree /\ SharedOnlyWithGenuine
  BY DEF Init, SessionsAgree, SharedOnlyWithGenuine, Known
<1> QED
  BY <1>2, <1>3, <1>4, <1>5 DEF IInv

\* A handler keeps what it has in hand when more is drawn or kept.
LEMMA WellFormedGrows ==
    ASSUME NEW c, NEW n, NEW m, NEW kept, NEW more,
           WellFormed(c, n, kept), 1..n \subseteq 1..m, kept \subseteq more
    PROVE  WellFormed(c, m, more)
<1>1. Ciphertexts(1..n) \subseteq Ciphertexts(1..m)
  BY DEF Ciphertexts
<1> QED
  BY <1>1 DEF WellFormed

\* What a handler holds, and what is kept, has been drawn.
LEMMA OwnAreDrawn ==
    ASSUME IInv
    PROVE  /\ drawn \in Nat
           /\ \A h \in Calls : Own(call[h]) \subseteq 1..drawn
           /\ \A d \in disk : Secrets(d) \subseteq 1..drawn
<1>1. drawn \in Nat
  BY SecretsAssumption DEF IInv, TypeOK
<1>2. \A h \in Calls : Own(call[h]) \subseteq 1..drawn
  BY DEF IInv, HandlersOK, WellFormed, Own
<1>3. \A d \in disk : Secrets(d) \subseteq 1..drawn
  BY DEF IInv, TypeOK, Secrets, Ciphertexts
<1> QED
  BY <1>1, <1>2, <1>3

\* A handler goes on to a state in which it has what it needs there, and no
\* secret but those it had and the one that Vault draws in the step: then
\* nothing else is disturbed.
LEMMA HandlerMoves ==
    ASSUME IInv, NEW h \in Calls, NEW state, Goto(h, state),
           drawn' \in 0..MaxSecrets, drawn' \in {drawn, drawn + 1},
           UNCHANGED <<quoted, disk, memory>>,
           state \in Handler', WellFormed(state, drawn', OnDisk'),
           \A x \in Own(state) : x \in Own(call[h]) \/ (drawn' = drawn + 1 /\ x = drawn')
    PROVE  IInv'
<1> USE DEF IInv
<1>1. /\ drawn \in Nat /\ 1..drawn \subseteq 1..drawn'
      /\ \A g \in Calls : Own(call[g]) \subseteq 1..drawn
      /\ \A d \in disk : Secrets(d) \subseteq 1..drawn
  BY OwnAreDrawn
<1>2. /\ call' \in [Calls -> Handler']
      /\ call'[h] = state
      /\ \A g \in Calls : g # h => call'[g] = call[g]
  <2>1. Handler \subseteq Handler'
    BY <1>1 DEF Handler, Ciphertexts
  <2>2. call \in [Calls -> Handler]
    BY DEF TypeOK, Handler
  <2> QED
    BY <2>1, <2>2 DEF Goto
<1>3. TypeOK'
  <2>1. disk' \subseteq Ciphertexts(1..drawn')
    BY <1>1 DEF TypeOK, Ciphertexts
  <2>2. memory' \in [Enclaves -> SUBSET [wallet : 1..drawn', seed : 1..drawn']]
    <3>1. [wallet : 1..drawn, seed : 1..drawn] \subseteq [wallet : 1..drawn', seed : 1..drawn']
      BY <1>1
    <3> QED
      BY <3>1 DEF TypeOK
  <2> QED
    BY <1>2, <2>1, <2>2 DEF TypeOK, Handler
<1>4. HandlersOK'
  <2> SUFFICES ASSUME NEW g \in Calls PROVE WellFormed(call'[g], drawn', OnDisk')
    BY DEF HandlersOK
  <2>1. CASE g = h
    BY <1>2, <2>1
  <2>2. CASE g # h
    <3>1. WellFormed(call[g], drawn, OnDisk)
      BY DEF HandlersOK
    <3> QED
      BY <1>1, <1>2, <2>2, <3>1, WellFormedGrows DEF OnDisk
  <2> QED
    BY <2>1, <2>2
<1>5. OwnAreFresh'
  <2>1. \A x \in Own(state) : x \in Own(call[h]) \/ x \notin 1..drawn
    BY <1>1
  <2>2. ASSUME NEW f \in Calls, NEW g \in Calls, f # g
        PROVE  Own(call'[f]) \cap Own(call'[g]) = {}
    BY <1>1, <1>2, <2>1, <2>2 DEF OwnAreFresh
  <2>3. ASSUME NEW g \in Calls, NEW d \in disk'
        PROVE  Own(call'[g]) \cap Secrets(d) = {}
    BY <1>1, <1>2, <2>1 DEF OwnAreFresh
  <2> QED
    BY <2>2, <2>3 DEF OwnAreFresh, Own, Secrets
<1>6. DiskIsSeparate' /\ SessionsAgree' /\ SharedOnlyWithGenuine'
  BY DEF DiskIsSeparate, Secrets, SessionsAgree, Kept, OnDisk, SharedOnlyWithGenuine, Known
<1> QED
  BY <1>3, <1>4, <1>5, <1>6
-----------------------------------------------------------------------------
\* A handler is what the invariant says of it.
LEMMA HandlerAt ==
    ASSUME IInv, NEW h \in Calls
    PROVE  call[h] \in Handler /\ WellFormed(call[h], drawn, OnDisk) /\ drawn \in 0..MaxSecrets
BY DEF IInv, TypeOK, HandlersOK, Handler

\* Vault draws: the number of the secret is new.
LEMMA DrawEffect ==
    ASSUME IInv, Draw
    PROVE  /\ drawn' \in 0..MaxSecrets /\ drawn' = drawn + 1
           /\ drawn' \in 1..drawn' /\ drawn' \notin 1..drawn /\ 1..drawn \subseteq 1..drawn'
BY SecretsAssumption DEF IInv, TypeOK, Draw

\* A failure of any request ends the handler with nothing kept.
LEMMA FailsPreserves ==
    ASSUME IInv, NEW h \in Calls, Fails(h)
    PROVE  IInv'
<1>1. drawn' = drawn /\ drawn \in 0..MaxSecrets /\ UNCHANGED <<quoted, disk, memory>>
  BY HandlerAt DEF Fails
<1>2. WellFormed(NoCall, drawn', OnDisk')
  BY DEF WellFormed, NoCall
<1> QED
  BY <1>1, <1>2, HandlerMoves, IdleHandler DEF Fails

\* POST /provision: one draw after the other, each new to everybody.
LEMMA ProvisionPreserves ==
    ASSUME IInv, NEW h \in Calls,
           \/ \E e \in Enclaves : ProvisionBegin(h, e)
           \/ ProvisionDatakey(h) \/ ProvisionSpare(h) \/ ProvisionSeed(h)
           \/ ProvisionEncrypt(h)
    PROVE  IInv'
<1>0. call[h] \in Handler /\ WellFormed(call[h], drawn, OnDisk) /\ drawn \in 0..MaxSecrets
  BY HandlerAt
<1>1. ASSUME NEW e \in Enclaves, ProvisionBegin(h, e) PROVE IInv'
  <2> DEFINE state == [NoCall EXCEPT !.at = "provision", !.key = e]
  <2>1. Goto(h, state) /\ UNCHANGED <<drawn, quoted, disk, memory>>
    BY <1>1 DEF ProvisionBegin
  <2>2. state \in Handler' /\ state.at = "provision" /\ state.key = e
    BY <2>1 DEF NoCall, Handler, Places
  <2> HIDE DEF state
  <2>3. WellFormed(state, drawn', OnDisk') /\ Own(state) = {}
    BY <2>2 DEF WellFormed, Own
  <2> QED
    BY <1>0, <2>1, <2>2, <2>3, HandlerMoves
<1>2. CASE ProvisionDatakey(h)
  <2> DEFINE state == [call[h] EXCEPT !.at = "datakey", !.wallet = drawn']
  <2>1. Goto(h, state) /\ Draw /\ UNCHANGED <<quoted, disk, memory>> /\ call[h].at = "provision"
    BY <1>2 DEF ProvisionDatakey, At
  <2>2. /\ drawn' \in 0..MaxSecrets /\ drawn' = drawn + 1
        /\ drawn' \in 1..drawn' /\ 1..drawn \subseteq 1..drawn'
    BY <2>1, DrawEffect
  <2>3. /\ state \in Handler' /\ state.at = "datakey" /\ state.key = call[h].key
        /\ state.wallet = drawn'
    BY <1>0, <2>1, <2>2 DEF Handler, Places, Ciphertexts
  <2> HIDE DEF state
  <2>4. WellFormed(state, drawn', OnDisk') /\ Own(state) = {drawn'}
    BY <1>0, <2>1, <2>2, <2>3 DEF WellFormed, Own
  <2> QED
    BY <2>1, <2>2, <2>3, <2>4, HandlerMoves
<1>3. CASE ProvisionSpare(h)
  <2> DEFINE state == [call[h] EXCEPT !.at = "spared", !.spare = drawn']
  <2>1. Goto(h, state) /\ Draw /\ UNCHANGED <<quoted, disk, memory>> /\ call[h].at = "datakey"
    BY <1>3 DEF ProvisionSpare, At
  <2>2. /\ drawn' \in 0..MaxSecrets /\ drawn' = drawn + 1
        /\ drawn' \in 1..drawn' /\ 1..drawn \subseteq 1..drawn'
    BY <2>1, DrawEffect
  <2>3. /\ state \in Handler' /\ state.at = "spared" /\ state.key = call[h].key
        /\ state.wallet = call[h].wallet
    BY <1>0, <2>1, <2>2 DEF Handler, Places, Ciphertexts
  <2> HIDE DEF state
  <2>4. WellFormed(state, drawn', OnDisk') /\ Own(state) = Own(call[h])
    BY <1>0, <2>1, <2>2, <2>3 DEF WellFormed, Own
  <2> QED
    BY <2>1, <2>2, <2>3, <2>4, HandlerMoves
<1>4. CASE ProvisionSeed(h)
  <2> DEFINE state == [call[h] EXCEPT !.at = "seeded", !.seed = drawn']
  <2>1. Goto(h, state) /\ Draw /\ UNCHANGED <<quoted, disk, memory>> /\ call[h].at = "spared"
    BY <1>4 DEF ProvisionSeed, At
  <2>2. /\ drawn' \in 0..MaxSecrets /\ drawn' = drawn + 1
        /\ drawn' \in 1..drawn' /\ drawn' \notin 1..drawn /\ 1..drawn \subseteq 1..drawn'
    BY <2>1, DrawEffect
  <2>3. /\ state \in Handler' /\ state.at = "seeded" /\ state.key = call[h].key
        /\ state.wallet = call[h].wallet /\ state.seed = drawn'
    BY <1>0, <2>1, <2>2 DEF Handler, Places, Ciphertexts
  <2> HIDE DEF state
  <2>4. WellFormed(state, drawn', OnDisk') /\ Own(state) = Own(call[h]) \cup {drawn'}
    BY <1>0, <2>1, <2>2, <2>3 DEF WellFormed, Own
  <2> QED
    BY <2>1, <2>2, <2>3, <2>4, HandlerMoves
<1>5. CASE ProvisionEncrypt(h)
  <2> DEFINE state == [call[h] EXCEPT !.at = "encrypted"]
  <2>1. Goto(h, state) /\ UNCHANGED <<drawn, quoted, disk, memory>> /\ call[h].at = "seeded"
    BY <1>5 DEF ProvisionEncrypt, At
  <2>2. /\ state \in Handler' /\ state.at = "encrypted" /\ state.key = call[h].key
        /\ state.wallet = call[h].wallet /\ state.seed = call[h].seed
    BY <1>0, <2>1 DEF Handler, Places
  <2> HIDE DEF state
  <2>3. WellFormed(state, drawn', OnDisk') /\ Own(state) = Own(call[h])
    BY <1>0, <2>1, <2>2 DEF WellFormed, Own
  <2> QED
    BY <1>0, <2>1, <2>2, <2>3, HandlerMoves
<1> QED
  BY <1>1, <1>2, <1>3, <1>4, <1>5

\* POST /unwrap, up to the open wallet key.
LEMMA UnwrapPreserves ==
    ASSUME IInv, NEW h \in Calls,
           \/ \E quote \in quoted, e \in Enclaves, level \in Levels, wallet, seed \in OnDisk :
                  UnwrapBegin(h, quote, e, level, [wallet |-> wallet, seed |-> seed])
           \/ UnwrapWallet(h)
    PROVE  IInv'
<1>0. call[h] \in Handler /\ WellFormed(call[h], drawn, OnDisk) /\ drawn \in 0..MaxSecrets
  BY HandlerAt
<1>1. ASSUME NEW quote \in quoted, NEW e \in Enclaves, NEW level \in Levels,
             NEW wallet \in OnDisk, NEW seed \in OnDisk,
             UnwrapBegin(h, quote, e, level, [wallet |-> wallet, seed |-> seed])
      PROVE  IInv'
  <2> DEFINE ciphertexts == [wallet |-> wallet, seed |-> seed]
  <2>0. ciphertexts \in Ciphertexts(1..drawn)
    BY DEF IInv, TypeOK, OnDisk, Ciphertexts
  <2> DEFINE state == [NoCall EXCEPT !.at = "verified", !.key = e, !.ciphertexts = ciphertexts]
  <2>1. Goto(h, state) /\ UNCHANGED <<drawn, quoted, disk, memory>> /\ e \in Genuine
    BY <1>1 DEF UnwrapBegin, verify_sgx_quote
  <2>2. /\ state \in Handler' /\ state.at = "verified" /\ state.key = e
        /\ state.ciphertexts = ciphertexts
    BY <2>0, <2>1 DEF NoCall, Handler, Places
  <2> HIDE DEF state
  <2>3. WellFormed(state, drawn', OnDisk') /\ Own(state) = {}
    BY <2>0, <2>1, <2>2 DEF WellFormed, Own, OnDisk
  <2> QED
    BY <1>0, <2>1, <2>2, <2>3, HandlerMoves
<1>2. CASE UnwrapWallet(h)
  <2> DEFINE state == [call[h] EXCEPT !.at = "walletOpen",
                                      !.wallet = call[h].ciphertexts.wallet.vault]
  <2>1. Goto(h, state) /\ UNCHANGED <<drawn, quoted, disk, memory>> /\ call[h].at = "verified"
    BY <1>2 DEF UnwrapWallet, At
  <2>2. call[h].ciphertexts.wallet.vault \in 1..drawn
    BY <1>0, <2>1 DEF WellFormed, Ciphertexts
  <2>3. /\ state \in Handler' /\ state.at = "walletOpen" /\ state.key = call[h].key
        /\ state.ciphertexts = call[h].ciphertexts
        /\ state.wallet = call[h].ciphertexts.wallet.vault
    BY <1>0, <2>1, <2>2 DEF Handler, Places
  <2> HIDE DEF state
  <2>4. WellFormed(state, drawn', OnDisk') /\ Own(state) = {}
    BY <1>0, <2>1, <2>2, <2>3 DEF WellFormed, Own, OnDisk
  <2> QED
    BY <1>0, <2>1, <2>3, <2>4, HandlerMoves
<1> QED
  BY <1>1, <1>2

\* The answer of /provision: the ciphertexts that are kept and the secrets that
\* are sent are the same pair, and it was nobody's before.
LEMMA ProvisionReturnPreserves ==
    ASSUME IInv, NEW h \in Calls, ProvisionReturn(h)
    PROVE  IInv'
<1> USE DEF IInv
<1> DEFINE k == call[h].key
           w == call[h].wallet
           s == call[h].seed
           d == [wallet |-> [vault |-> w], seed |-> [vault |-> s]]
           pair == [wallet |-> w, seed |-> s]
<1>0. /\ call[h] \in Handler /\ call[h].at = "encrypted"
      /\ k \in Enclaves /\ w \in 1..drawn /\ s \in 1..drawn /\ s # w
  BY HandlerAt DEF ProvisionReturn, At, WellFormed
<1>1. /\ disk' = disk \cup {d}
      /\ memory' = [memory EXCEPT ![k] = @ \cup {pair}]
      /\ call' = [call EXCEPT ![h] = NoCall]
      /\ UNCHANGED <<drawn, quoted>>
  BY DEF ProvisionReturn, ProvisioningDataKeyResponse, Receive, Ciphertext, Wrapped, Goto
<1>2. /\ d \in Ciphertexts(1..drawn)
      /\ Secrets(d) = Own(call[h]) /\ d.wallet.vault = w /\ d.seed.vault = s
      /\ pair \in [wallet : 1..drawn, seed : 1..drawn]
      /\ pair = [wallet |-> d.wallet.vault, seed |-> d.seed.vault]
  BY <1>0 DEF Secrets, Own, Ciphertexts
<1>3. /\ w \in Secrets(d)
      /\ \A c \in disk : Secrets(c) \cap Secrets(d) = {}
      /\ \A g \in Calls : g # h => Own(call[g]) \cap Secrets(d) = {}
  BY <1>2 DEF OwnAreFresh, Secrets
<1>4. Ciphertext(w) \notin OnDisk /\ Ciphertext(s) \notin OnDisk
  <2>1. \A c \in disk : {w, s} \cap Secrets(c) = {}
    BY <1>2, <1>3 DEF Secrets
  <2>2. \A c \in OnDisk : c.vault # w /\ c.vault # s
    BY <2>1 DEF OnDisk, Secrets
  <2> QED
    BY <2>2 DEF Ciphertext
<1>5. /\ memory' \in [Enclaves -> SUBSET [wallet : 1..drawn, seed : 1..drawn]]
      /\ memory'[k] = memory[k] \cup {pair}
      /\ \A e \in Enclaves : e # k => memory'[e] = memory[e]
  BY <1>0, <1>1, <1>2 DEF TypeOK
<1> HIDE DEF d, pair
<1>6. /\ call' \in [Calls -> Handler']
      /\ call'[h] = NoCall
      /\ \A g \in Calls : g # h => call'[g] = call[g]
  <2>1. Handler \subseteq Handler'
    BY <1>1 DEF Handler, Ciphertexts
  <2>2. call \in [Calls -> Handler]
    BY DEF TypeOK, Handler
  <2> QED
    BY <1>1, <2>1, <2>2, IdleHandler
<1>7. TypeOK'
  BY <1>1, <1>2, <1>5, <1>6 DEF TypeOK, Handler
<1>8. HandlersOK'
  <2> SUFFICES ASSUME NEW g \in Calls PROVE WellFormed(call'[g], drawn', OnDisk')
    BY DEF HandlersOK
  <2>1. CASE g = h
    BY <1>6, <2>1, IdleHandler DEF WellFormed
  <2>2. CASE g # h
    <3>1. WellFormed(call[g], drawn, OnDisk)
      BY HandlerAt
    <3> QED
      BY <1>1, <1>6, <2>2, <3>1, WellFormedGrows DEF OnDisk
  <2> QED
    BY <2>1, <2>2
<1>9. OwnAreFresh'
  <2>1. \A g \in Calls : Own(call'[g]) = {} \/ (g # h /\ Own(call'[g]) = Own(call[g]))
    BY <1>6, IdleHandler
  <2>2. ASSUME NEW f \in Calls, NEW g \in Calls, f # g
        PROVE  Own(call'[f]) \cap Own(call'[g]) = {}
    BY <2>1, <2>2 DEF OwnAreFresh
  <2>3. ASSUME NEW g \in Calls, NEW c \in disk'
        PROVE  Own(call'[g]) \cap Secrets(c) = {}
    BY <1>1, <1>3, <2>1 DEF OwnAreFresh
  <2> QED
    BY <2>2, <2>3 DEF OwnAreFresh, Own, Secrets
<1>10. DiskIsSeparate'
  <2>1. \A c \in disk' : c.wallet.vault # c.seed.vault
    BY <1>0, <1>1, <1>2 DEF DiskIsSeparate
  <2>2. ASSUME NEW b \in disk', NEW c \in disk', b # c
        PROVE  Secrets(b) \cap Secrets(c) = {}
    BY <1>1, <1>3, <2>2 DEF DiskIsSeparate
  <2> QED
    BY <2>1, <2>2 DEF DiskIsSeparate, Secrets
<1>11. SessionsAgree'
  <2>1. Kept \subseteq Kept' /\ pair \in Kept'
    BY <1>1, <1>2 DEF Kept
  <2>2. OnDisk \subseteq OnDisk' /\ {Ciphertext(w), Ciphertext(s)} \subseteq OnDisk'
    <3>1. d.wallet = Ciphertext(w) /\ d.seed = Ciphertext(s)
      BY DEF d, Ciphertext
    <3>2. d \in disk' /\ disk \subseteq disk'
      BY <1>1
    <3> QED
      BY <3>1, <3>2 DEF OnDisk
  <2>3. pair.wallet = w /\ pair.seed = s
    BY DEF pair
  <2> SUFFICES ASSUME NEW e \in Enclaves, NEW p \in memory'[e]
               PROVE  /\ {Ciphertext(p.wallet), Ciphertext(p.seed)} \subseteq OnDisk'
                      /\ e \in Genuine \/ p \in Kept'
    BY DEF SessionsAgree, Ciphertext
  <2>4. CASE p = pair
    BY <2>1, <2>2, <2>3, <2>4
  <2>5. CASE p # pair
    BY <1>5, <2>1, <2>2, <2>5 DEF SessionsAgree
  <2> QED
    BY <2>4, <2>5
<1>12. SharedOnlyWithGenuine'
  <2>1. \A e \in Enclaves : Known(e) \cap {w, s} = {}
    BY <1>4 DEF SessionsAgree, Known
  <2>2. \A e \in Enclaves : Known(e)' \subseteq Known(e) \cup (IF e = k THEN {w, s} ELSE {})
    BY <1>5 DEF Known, pair
  <2> SUFFICES ASSUME NEW e \in Enclaves, NEW f \in Enclaves, e # f,
                      Known(e)' \cap Known(f)' # {}
               PROVE  Genuine \cap {e, f} # {}
    BY DEF SharedOnlyWithGenuine, Known
  <2>3. Known(e) \cap Known(f) # {}
    BY <2>1, <2>2
  <2> QED
    BY <2>3 DEF SharedOnlyWithGenuine
<1> QED
  BY <1>7, <1>8, <1>9, <1>10, <1>11, <1>12

\* The answer of /unwrap: secrets that are kept go to a genuine enclave.
LEMMA UnwrapSeedPreserves ==
    ASSUME IInv, NEW h \in Calls, UnwrapSeed(h)
    PROVE  IInv'
<1> USE DEF IInv
<1> DEFINE k == call[h].key
           d == call[h].ciphertexts
           pair == [wallet |-> d.wallet.vault, seed |-> d.seed.vault]
<1>0. /\ k \in Enclaves /\ k \in Genuine /\ call[h].wallet = d.wallet.vault
      /\ d \in Ciphertexts(1..drawn) /\ d.wallet \in OnDisk /\ d.seed \in OnDisk
  BY HandlerAt DEF UnwrapSeed, At, WellFormed
<1>1. /\ memory' = [memory EXCEPT ![k] = @ \cup {pair}]
      /\ Goto(h, NoCall)
      /\ UNCHANGED <<drawn, quoted, disk>>
  BY <1>0 DEF UnwrapSeed, Receive, Wrapped
<1>2. /\ pair \in [wallet : 1..drawn, seed : 1..drawn]
      /\ Ciphertext(pair.wallet) = d.wallet /\ Ciphertext(pair.seed) = d.seed
  BY <1>0 DEF Ciphertexts, Ciphertext
<1>3. /\ memory' \in [Enclaves -> SUBSET [wallet : 1..drawn, seed : 1..drawn]]
      /\ memory'[k] = memory[k] \cup {pair}
      /\ \A e \in Enclaves : e # k => memory'[e] = memory[e]
  BY <1>0, <1>1, <1>2 DEF TypeOK
<1> HIDE DEF pair
<1>4. /\ call' \in [Calls -> Handler]
      /\ call'[h] = NoCall
      /\ \A g \in Calls : g # h => call'[g] = call[g]
  BY <1>1, IdleHandler DEF Goto, TypeOK, Handler
<1>5. TypeOK'
  BY <1>1, <1>3, <1>4 DEF TypeOK, Handler
<1>6. HandlersOK'
  <2> SUFFICES ASSUME NEW g \in Calls PROVE WellFormed(call'[g], drawn', OnDisk')
    BY DEF HandlersOK
  <2>1. WellFormed(call[g], drawn, OnDisk)
    BY HandlerAt
  <2> QED
    BY <1>1, <1>4, <2>1, IdleHandler DEF WellFormed, OnDisk
<1>7. OwnAreFresh'
  <2>1. \A g \in Calls : Own(call'[g]) \subseteq Own(call[g])
    BY <1>4, IdleHandler
  <2>2. ASSUME NEW f \in Calls, NEW g \in Calls, f # g
        PROVE  Own(call'[f]) \cap Own(call'[g]) = {}
    BY <2>1, <2>2 DEF OwnAreFresh
  <2>3. ASSUME NEW g \in Calls, NEW c \in disk'
        PROVE  Own(call'[g]) \cap Secrets(c) = {}
    BY <1>1, <2>1 DEF OwnAreFresh
  <2> QED
    BY <2>2, <2>3 DEF OwnAreFresh, Own, Secrets
<1>8. DiskIsSeparate'
  BY <1>1 DEF DiskIsSeparate, Secrets
<1>9. SessionsAgree'
  <2>1. OnDisk' = OnDisk /\ Kept' = Kept
    BY <1>1 DEF OnDisk, Kept
  <2> SUFFICES ASSUME NEW e \in Enclaves, NEW p \in memory'[e]
               PROVE  /\ {Ciphertext(p.wallet), Ciphertext(p.seed)} \subseteq OnDisk
                      /\ e \in Genuine \/ p \in Kept
    BY <2>1 DEF SessionsAgree, Ciphertext
  <2>2. CASE p = pair /\ e = k
    BY <1>0, <1>2, <2>2
  <2>3. CASE ~(p = pair /\ e = k)
    BY <1>3, <2>3 DEF SessionsAgree
  <2> QED
    BY <2>2, <2>3
<1>10. SharedOnlyWithGenuine'
  <2>1. \A e \in Enclaves : e # k => Known(e)' = Known(e)
    BY <1>3 DEF Known
  <2> SUFFICES ASSUME NEW e \in Enclaves, NEW f \in Enclaves, e # f,
                      Known(e)' \cap Known(f)' # {}
               PROVE  Genuine \cap {e, f} # {}
    BY DEF SharedOnlyWithGenuine, Known
  <2> QED
    BY <1>0, <2>1 DEF SharedOnlyWithGenuine
<1> QED
  BY <1>5, <1>6, <1>7, <1>8, <1>9, <1>10

-----------------------------------------------------------------------------
\* Every step keeps the invariant.
LEMMA NextIInv == IInv /\ [Next]_vars => IInv'
<1> SUFFICES ASSUME IInv, [Next]_vars PROVE IInv'
  OBVIOUS
<1>1. ASSUME NEW h \in Calls, Provision(h) \/ Unwrap(h) \/ Fails(h) PROVE IInv'
  BY <1>1, ProvisionPreserves, ProvisionReturnPreserves, UnwrapPreserves, UnwrapSeedPreserves,
     FailsPreserves DEF Provision, Unwrap
<1>2. ASSUME UNCHANGED <<drawn, call, disk, memory>>, quoted' \subseteq Binding PROVE IInv'
  <2>1. TypeOK'
    BY <1>2 DEF IInv, TypeOK
  <2>2. HandlersOK' /\ OwnAreFresh' /\ DiskIsSeparate'
    BY <1>2 DEF IInv, HandlersOK, WellFormed, OnDisk, OwnAreFresh, Own, DiskIsSeparate, Secrets
  <2>3. SessionsAgree' /\ SharedOnlyWithGenuine'
    BY <1>2 DEF IInv, SessionsAgree, Kept, OnDisk, SharedOnlyWithGenuine, Known
  <2> QED
    BY <2>1, <2>2, <2>3 DEF IInv
<1>3. ASSUME NEW e \in Enclaves, NEW level \in Levels, Quote(e, level) PROVE IInv'
  <2>1. quoted' \subseteq Binding
    BY <1>3 DEF Quote, Binding, IInv, TypeOK
  <2> QED
    BY <1>2, <1>3, <2>1 DEF Quote
<1>4. CASE UNCHANGED vars
  BY <1>2, <1>4 DEF vars, IInv, TypeOK
<1> QED
  BY <1>1, <1>3, <1>4 DEF Next

\* The invariant holds in every reachable state.
THEOREM Invariance == Spec => []IInv
BY InitIInv, NextIInv, PTL DEF Spec

\* Handlers, ciphertexts and the memories of enclaves keep their types: nobody
\* has, or asks for, a secret that Vault has not drawn.
THEOREM TypeCorrect == Spec => []TypeOK
<1>1. IInv => TypeOK
  BY DEF IInv
<1> QED
  BY <1>1, Invariance, PTL

\* /provision and every later /unwrap or /release give an enclave secrets that
\* the device can have unwrapped again, and a mixed pair only to a genuine one.
THEOREM PairsAgree == Spec => []SessionsAgree
<1>1. IInv => SessionsAgree
  BY DEF IInv
<1> QED
  BY <1>1, Invariance, PTL

\* No secret serves twice, however the calls of /provision interleave or fail.
THEOREM PairsAreSeparate == Spec => []SecretsAreSeparate
<1>1. IInv => SecretsAreSeparate
  <2> SUFFICES ASSUME IInv PROVE SecretsAreSeparate
    OBVIOUS
  <2>1. \A p \in Kept : p.wallet # p.seed
    BY DEF IInv, DiskIsSeparate, Kept
  <2>2. ASSUME NEW p \in Kept, NEW q \in Kept, p # q
        PROVE  {p.wallet, p.seed} \cap {q.wallet, q.seed} = {}
    <3>1. PICK c \in disk : p = [wallet |-> c.wallet.vault, seed |-> c.seed.vault]
      BY DEF Kept
    <3>2. PICK d \in disk : q = [wallet |-> d.wallet.vault, seed |-> d.seed.vault]
      BY DEF Kept
    <3>3. c # d
      BY <2>2, <3>1, <3>2
    <3>4. Secrets(c) \cap Secrets(d) = {}
      BY <3>3 DEF IInv, DiskIsSeparate
    <3> QED
      BY <3>1, <3>2, <3>4 DEF Secrets
  <2> QED
    BY <2>1, <2>2 DEF SecretsAreSeparate
<1> QED
  BY <1>1, Invariance, PTL

\* verify_sgx_quote keeps a secret from every enclave that is neither genuine
\* nor the one that was provisioned with it.
THEOREM OnlyGenuineShare == Spec => []SharedOnlyWithGenuine
<1>1. IInv => SharedOnlyWithGenuine
  BY DEF IInv
<1> QED
  BY <1>1, Invariance, PTL
=============================================================================
