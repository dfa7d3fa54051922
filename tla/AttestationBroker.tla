-------------------------- MODULE AttestationBroker --------------------------
(***************************************************************************)
(* The attestation broker (src/dzta-attestation-broker): a device has its  *)
(* wallet key and master seed provisioned, keeps their Vault ciphertexts,  *)
(* and in later sessions has them unwrapped for the enclave of the         *)
(* session.  Handlers run concurrently and are suspended at each request   *)
(* to Vault, any of which may fail.  Vault Transit, the PCCS and the       *)
(* hardware that signs quotes are external.                                *)
(***************************************************************************)
EXTENDS Naturals, FiniteSets

CONSTANTS Calls,        \* requests to the broker
          Enclaves,     \* enclave processes, each with its own RSA key pair
          Genuine,      \* those with the expected MRENCLAVE and MRSIGNER
          Levels,       \* required clearance levels
          MaxSecrets,   \* bound: secrets that Vault's generator draws
          MaxPairs,     \* bound: an enclave with so many pairs asks for no more
          None

ASSUME SecretsAssumption == MaxSecrets \in Nat
ASSUME NoneAssumption == None \notin Nat /\ None \notin Enclaves

VARIABLES drawn,        \* how many secrets Vault has drawn: 1, 2, ... name them
          quoted,       \* what enclaves have bound into quotes
          call,         \* state of each handler
          disk,         \* ciphertexts that the device keeps
          memory        \* enclave -> the secrets it has been sent

vars == <<drawn, quoted, call, disk, memory>>

\* A Vault Transit ciphertext opens to its secret, and to nothing else; a
\* secret wrapped with RSA-OAEP opens in the enclave with the key pair.  This
\* is an enclave that speaks the broker's key format and OAEP hash, which the
\* one of this repository does not (ConfidentialSession): the properties say
\* what such an enclave is given.
Ciphertext(s) == [vault |-> s]
Wrapped(s, e) == [for |-> e, secret |-> s]

\* What a request to unwrap carries: two ciphertexts.
Ciphertexts(S) == [wallet : [vault : S], seed : [vault : S]]

\* report_data: the hash of public key and level.
Binding == [key : Enclaves, level : Levels]

NoCall == [at |-> "idle", key |-> None, wallet |-> None, spare |-> None, seed |-> None,
           ciphertexts |-> None]

Places == {"idle", "provision", "datakey", "spared", "seeded", "encrypted",
           "verified", "walletOpen"}

TypeOK ==
    /\ drawn \in 0..MaxSecrets
    /\ quoted \subseteq Binding
    /\ call \in [Calls -> [at : Places, key : Enclaves \cup {None},
                           wallet : 1..drawn \cup {None}, spare : 1..drawn \cup {None},
                           seed : 1..drawn \cup {None},
                           ciphertexts : Ciphertexts(1..drawn) \cup {None}]]
    /\ disk \subseteq Ciphertexts(1..drawn)
    /\ memory \in [Enclaves -> SUBSET [wallet : 1..drawn, seed : 1..drawn]]

Init ==
    /\ drawn = 0
    /\ quoted = {}
    /\ call = [h \in Calls |-> NoCall]
    /\ disk = {}
    /\ memory = [e \in Enclaves |-> {}]
-----------------------------------------------------------------------------
At(h, place) == call[h].at = place
Goto(h, state) == call' = [call EXCEPT ![h] = state]

\* A Vault request of the handler fails: 500, and nothing is kept.
Fails(h) ==
    /\ ~At(h, "idle")
    /\ Goto(h, NoCall)
    /\ UNCHANGED <<drawn, quoted, disk, memory>>

\* External: Vault draws a new secret, drawn'.
Draw == drawn < MaxSecrets /\ drawn' = drawn + 1

\* POST /provision with the public key of an enclave.
ProvisionBegin(h, e) ==
    /\ At(h, "idle")
    /\ Goto(h, [NoCall EXCEPT !.at = "provision", !.key = e])
    /\ UNCHANGED <<drawn, quoted, disk, memory>>

\* engine.provision_datakey: Vault makes the wallet key ...
ProvisionDatakey(h) ==
    /\ At(h, "provision")
    /\ Draw
    /\ Goto(h, [call[h] EXCEPT !.at = "datakey", !.wallet = drawn'])
    /\ UNCHANGED <<quoted, disk, memory>>

\* ... and a seed, which is encrypted and wrapped too and which the handler
\* does not use.
ProvisionSpare(h) ==
    /\ At(h, "datakey")
    /\ Draw
    /\ Goto(h, [call[h] EXCEPT !.at = "spared", !.spare = drawn'])
    /\ UNCHANGED <<quoted, disk, memory>>

\* Faulty variant of ProvisionSeed: the wallet key serves as the seed.
ProvisionSeedIsWallet(h) ==
    /\ At(h, "spared")
    /\ Goto(h, [call[h] EXCEPT !.at = "seeded", !.seed = call[h].wallet])
    /\ UNCHANGED <<drawn, quoted, disk, memory>>

\* generate_vault_random_seed of the handler.
ProvisionSeed(h) ==
    /\ At(h, "spared")
    /\ Draw
    /\ Goto(h, [call[h] EXCEPT !.at = "seeded", !.seed = drawn'])
    /\ UNCHANGED <<quoted, disk, memory>>

\* encrypt of the seed.
ProvisionEncrypt(h) ==
    /\ At(h, "seeded")
    /\ Goto(h, [call[h] EXCEPT !.at = "encrypted"])
    /\ UNCHANGED <<drawn, quoted, disk, memory>>

\* Faulty variant of ProvisioningDataKeyResponse: the engine's own seed
\* ciphertext goes with the handler's wrapped seed.
ProvisioningDataKeyResponseMixed(c) ==
    [wallet_ciphertext |-> Ciphertext(c.wallet),
     encrypted_wallet_key_for_enclave |-> Wrapped(c.wallet, c.key),
     seed_ciphertext |-> Ciphertext(c.spare),
     encrypted_master_seed_for_enclave |-> Wrapped(c.seed, c.key)]

ProvisioningDataKeyResponse(c) ==
    [wallet_ciphertext |-> Ciphertext(c.wallet),
     encrypted_wallet_key_for_enclave |-> Wrapped(c.wallet, c.key),
     seed_ciphertext |-> Ciphertext(c.seed),
     encrypted_master_seed_for_enclave |-> Wrapped(c.seed, c.key)]

\* External: the enclave opens the two secrets with its private key.
Receive(walletKey, seed) ==
    memory' = [memory EXCEPT ![walletKey.for] =
                   @ \cup {[wallet |-> walletKey.secret, seed |-> seed.secret]}]

\* The answer reaches the device, which keeps the ciphertexts.
ProvisionReturn(h) ==
    /\ At(h, "encrypted")
    /\ LET r == ProvisioningDataKeyResponse(call[h])
       IN  /\ disk' = disk \cup {[wallet |-> r.wallet_ciphertext, seed |-> r.seed_ciphertext]}
           /\ Receive(r.encrypted_wallet_key_for_enclave, r.encrypted_master_seed_for_enclave)
    /\ Goto(h, NoCall)
    /\ UNCHANGED <<drawn, quoted>>
-----------------------------------------------------------------------------
\* External: an enclave, one process per session, binds its key and the level
\* of the session into a quote.
Quote(e, level) ==
    /\ \A quote \in quoted : quote.key # e
    /\ quoted' = quoted \cup {[key |-> e, level |-> level]}
    /\ UNCHANGED <<drawn, call, disk, memory>>

\* Faulty variant of verify_sgx_quote: the measurements are not compared.
verify_sgx_quoteAnyEnclave(quote, e, level) ==
    quote.key = e /\ quote.level = level

\* verify_sgx_quote: signature and collateral are good, the measurements are
\* the expected ones, and the report data binds this key and this level.
verify_sgx_quote(quote, e, level) ==
    /\ quote.key \in Genuine
    /\ quote.key = e /\ quote.level = level

\* POST /unwrap or /release: a session asks for the secrets of two ciphertexts,
\* with a quote that may be of another session.  Nothing ties the ciphertexts to
\* one provisioning or to their roles: one Vault key has encrypted them all.
UnwrapBegin(h, quote, e, level, ciphertexts) ==
    /\ At(h, "idle")
    /\ verify_sgx_quote(quote, e, level)
    /\ Cardinality(memory[e]) < MaxPairs
    /\ Goto(h, [NoCall EXCEPT !.at = "verified", !.key = e, !.ciphertexts = ciphertexts])
    /\ UNCHANGED <<drawn, quoted, disk, memory>>

\* Vault decrypts the wallet key, then the seed; each is wrapped again.
UnwrapWallet(h) ==
    /\ At(h, "verified")
    /\ Goto(h, [call[h] EXCEPT !.at = "walletOpen", !.wallet = call[h].ciphertexts.wallet.vault])
    /\ UNCHANGED <<drawn, quoted, disk, memory>>

UnwrapSeed(h) ==
    /\ At(h, "walletOpen")
    /\ Receive(Wrapped(call[h].wallet, call[h].key),
               Wrapped(call[h].ciphertexts.seed.vault, call[h].key))
    /\ Goto(h, NoCall)
    /\ UNCHANGED <<drawn, quoted, disk>>
-----------------------------------------------------------------------------
Provision(h) ==
    \/ \E e \in Enclaves : ProvisionBegin(h, e)
    \/ ProvisionDatakey(h) \/ ProvisionSpare(h) \/ ProvisionSeed(h)
    \/ ProvisionEncrypt(h)
    \/ ProvisionReturn(h)

\* The ciphertexts that the device has kept, of either role.
OnDisk == {d.wallet : d \in disk} \cup {d.seed : d \in disk}

Unwrap(h) ==
    \/ \E quote \in quoted, e \in Enclaves, level \in Levels, wallet, seed \in OnDisk :
           UnwrapBegin(h, quote, e, level, [wallet |-> wallet, seed |-> seed])
    \/ UnwrapWallet(h)
    \/ UnwrapSeed(h)

Next ==
    \/ \E h \in Calls : Provision(h) \/ Unwrap(h) \/ Fails(h)
    \/ \E e \in Enclaves, level \in Levels : Quote(e, level)

Spec == Init /\ [][Next]_vars
-----------------------------------------------------------------------------
\* The secrets kept on disk, as Vault opens them.
Kept == {[wallet |-> d.wallet.vault, seed |-> d.seed.vault] : d \in disk}

\* Provisioning and later sessions agree: every secret that an enclave has is
\* one that the device can have unwrapped again, though the handler of
\* /provision handles three secrets and two of them are seeds.  Only a genuine
\* enclave can have a wallet key and a seed that do not belong together, which
\* takes an /unwrap of ciphertexts of two roles or of two provisionings.
SessionsAgree ==
    \A e \in Enclaves : \A p \in memory[e] :
        /\ {Ciphertext(p.wallet), Ciphertext(p.seed)} \subseteq OnDisk
        /\ e \in Genuine \/ p \in Kept

\* No secret serves twice: not as wallet key and seed, and not in the pairs of
\* two provisioning calls, however these interleave or fail.
SecretsAreSeparate ==
    /\ \A p \in Kept : p.wallet # p.seed
    /\ \A p, q \in Kept : p # q => {p.wallet, p.seed} \cap {q.wallet, q.seed} = {}

\* The secrets that an enclave has been sent.
Known(e) == UNION {{p.wallet, p.seed} : p \in memory[e]}

\* An enclave that was not given a secret when it was provisioned gets it only
\* if it is genuine: an enclave with other measurements has nothing but what it
\* was provisioned with, so no two enclaves share a secret unless one of them
\* is genuine, in whatever combination ciphertexts are sent to /unwrap.
SharedOnlyWithGenuine ==
    \A e, f \in Enclaves :
        (e # f /\ Known(e) \cap Known(f) # {}) => Genuine \cap {e, f} # {}
=============================================================================
