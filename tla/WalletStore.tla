---------------------------- MODULE WalletStore -----------------------------
(***************************************************************************)
(* The holder's wallet (src/dzta-wallet/src/lib.rs): one Wallet object,    *)
(* shared by concurrent tasks, over an Askar database on disk.  A task is  *)
(* suspended at every await, so a method is a sequence of steps between    *)
(* which other tasks run; the process may stop at any of them.  Reads that *)
(* end in an error leave no trace and are not modelled.                    *)
(***************************************************************************)
EXTENDS Naturals

CONSTANTS Creds,        \* credential ids
          Keys,         \* wallet pass keys
          Seeds,        \* 32-byte values that getrandom may draw
          Tasks,        \* tokio tasks that use the wallet
          None,         \* absent
          MaxRestarts   \* bound: restarts of the process

ASSUME NoneAssumption == None \notin Keys /\ None \notin Seeds
ASSUME RestartsAssumption == MaxRestarts \in Nat

VARIABLES dbKey,        \* disk: the key the database was provisioned with
          records,      \* disk: category "credentials"
          secrets,      \* disk: category "enclave_secrets", id -> wrapped key
          seed,         \* disk: "master_zkp_seed"
          store,        \* memory: askar_store is Some
          passphrase,   \* memory: askar_passphrase
          task,         \* memory: what every task is doing
          drawn,        \* history: seeds that getrandom has returned
          given,        \* history: seeds that callers have been given
          restarts

diskVars == <<dbKey, records, secrets, seed>>
memVars == <<store, passphrase>>
histVars == <<drawn, given, restarts>>
vars == <<diskVars, memVars, task, histVars>>

\* The key a record's value is encrypted with, and its "revoked" tag.
Record == [under : Keys, revoked : BOOLEAN]

Idle == [at |-> "idle", cred |-> None, key |-> None, seed |-> None]

\* Where a task is suspended: in initialize after the database is open, after
\* the store is set; in provision_and_bind_vault; in store_credential; in
\* get_or_create_zkp_secret_seed; in mark_credential_revoked.
Places == {"idle", "opened", "storeSet", "binding", "storing", "sealed", "seeding", "marking"}

TypeOK ==
    /\ dbKey \in Keys \cup {None}
    /\ records \in [Creds -> Record \cup {None}]
    /\ secrets \in [Creds -> Keys \cup {None}]
    /\ seed \in Seeds \cup {None}
    /\ store \in BOOLEAN
    /\ passphrase \in Keys \cup {None}
    /\ task \in [Tasks -> [at : Places, cred : Creds \cup {None},
                           key : Keys \cup {None}, seed : Seeds \cup {None}]]
    /\ drawn \subseteq Seeds
    /\ given \subseteq Seeds
    /\ restarts \in 0..MaxRestarts

Init ==
    /\ dbKey = None
    /\ records = [c \in Creds |-> None]
    /\ secrets = [c \in Creds |-> None]
    /\ seed = None
    /\ store = FALSE
    /\ passphrase = None
    /\ task = [t \in Tasks |-> Idle]
    /\ drawn = {}
    /\ given = {}
    /\ restarts = 0
-----------------------------------------------------------------------------
At(t, place) == task[t].at = place
Goto(t, state) == task' = [task EXCEPT ![t] = state]
Return(t) == Goto(t, Idle)

\* External: Store::open checks the key; Store::provision, which is not asked
\* to recreate, does so too if the database has come to exist meanwhile.
OpenOrProvision(key) == dbKey \in {None, key} /\ dbKey' = key

\* Faulty variant of InitializeOpen: the passphrase is cached before the
\* database has accepted it.
InitializeOpenCaches(t, key, cred) ==
    /\ At(t, "idle")
    /\ passphrase' = key
    /\ \/ /\ OpenOrProvision(key)
          /\ Goto(t, [Idle EXCEPT !.at = "opened", !.key = key, !.cred = cred])
       \/ dbKey \notin {None, key} /\ UNCHANGED <<dbKey, task>>
    /\ UNCHANGED <<records, secrets, seed, store, histVars>>

\* Faulty variant of InitializeOpen: a database that refuses the key is taken
\* for open.
InitializeOpenIgnored(t, key, cred) ==
    /\ At(t, "idle")
    /\ dbKey' = IF dbKey = None THEN key ELSE dbKey
    /\ Goto(t, [Idle EXCEPT !.at = "opened", !.key = key, !.cred = cred])
    /\ UNCHANGED <<records, secrets, seed, memVars, histVars>>

\* initialize(key), called as such or as unlock_with_vault_passkey (cred is
\* None), or by provision_and_bind_vault for cred.
InitializeOpen(t, key, cred) ==
    /\ At(t, "idle")
    /\ OpenOrProvision(key)
    /\ Goto(t, [Idle EXCEPT !.at = "opened", !.key = key, !.cred = cred])
    /\ UNCHANGED <<records, secrets, seed, memVars, histVars>>

InitializeSetStore(t) ==
    /\ At(t, "opened")
    /\ store' = TRUE
    /\ Goto(t, [task[t] EXCEPT !.at = "storeSet"])
    /\ UNCHANGED <<diskVars, passphrase, histVars>>

InitializeSetPassphrase(t) ==
    /\ At(t, "storeSet")
    /\ passphrase' = task[t].key
    /\ IF task[t].cred = None THEN Return(t)
                              ELSE Goto(t, [task[t] EXCEPT !.at = "binding"])
    /\ UNCHANGED <<diskVars, store, histVars>>

\* The ciphertext of the key is inserted; a second insert is an error.
StoreEnclaveVaultCiphertexts(t) ==
    /\ At(t, "binding")
    /\ \/ /\ secrets[task[t].cred] = None
          /\ secrets' = [secrets EXCEPT ![task[t].cred] = task[t].key]
       \/ UNCHANGED secrets
    /\ Return(t)
    /\ UNCHANGED <<dbKey, records, seed, memVars, histVars>>
-----------------------------------------------------------------------------
StoreCredentialBegin(t, cred) ==
    /\ At(t, "idle")
    /\ store
    /\ Goto(t, [Idle EXCEPT !.at = "storing", !.cred = cred])
    /\ UNCHANGED <<diskVars, memVars, histVars>>

\* get_askar_passphrase, an error if it is not cached; encrypt_wallet_record.
StoreCredentialSeal(t) ==
    /\ At(t, "storing")
    /\ IF passphrase = None
       THEN Return(t)
       ELSE Goto(t, [task[t] EXCEPT !.at = "sealed", !.key = passphrase])
    /\ UNCHANGED <<diskVars, memVars, histVars>>

\* Faulty variant of InsertCredential: an upsert.
UpsertCredential(t) ==
    records' = [records EXCEPT ![task[t].cred] = [under |-> task[t].key, revoked |-> FALSE]]

\* Askar's insert refuses an id that exists.
InsertCredential(t) ==
    /\ records[task[t].cred] = None
    /\ records' = [records EXCEPT ![task[t].cred] = [under |-> task[t].key, revoked |-> FALSE]]

\* Ok, or an error of the session, or of its commit after the insert.
StoreCredentialInsert(t) ==
    /\ At(t, "sealed")
    /\ InsertCredential(t) \/ UNCHANGED records
    /\ Return(t)
    /\ UNCHANGED <<dbKey, secrets, seed, memVars, histVars>>

\* mark_credential_revoked fetches the record ...
MarkRevokedFetch(t, cred) ==
    /\ At(t, "idle")
    /\ store
    /\ records[cred] # None
    /\ Goto(t, [Idle EXCEPT !.at = "marking", !.cred = cred, !.key = records[cred].under])
    /\ UNCHANGED <<diskVars, memVars, histVars>>

\* ... and replaces it by the value fetched, with new tags (or fails).
MarkRevokedReplace(t) ==
    /\ At(t, "marking")
    /\ \/ records' = [records EXCEPT ![task[t].cred] = [under |-> task[t].key, revoked |-> TRUE]]
       \/ UNCHANGED records
    /\ Return(t)
    /\ UNCHANGED <<dbKey, secrets, seed, memVars, histVars>>
-----------------------------------------------------------------------------
\* get_or_create_zkp_secret_seed finds the seed ...
SeedFound(t) ==
    /\ At(t, "idle")
    /\ store
    /\ seed # None
    /\ given' = given \cup {seed}
    /\ UNCHANGED <<diskVars, memVars, task, drawn, restarts>>

\* ... or finds none and draws one ...
SeedDraw(t) ==
    /\ At(t, "idle")
    /\ store
    /\ seed = None
    /\ \E s \in Seeds \ drawn :
          /\ drawn' = drawn \cup {s}
          /\ Goto(t, [Idle EXCEPT !.at = "seeding", !.seed = s])
    /\ UNCHANGED <<diskVars, memVars, given, restarts>>

\* Faulty variant of SeedInsert: an upsert.
SeedUpsert(t) ==
    /\ At(t, "seeding")
    /\ seed' = task[t].seed
    /\ given' = given \cup {task[t].seed}
    /\ Return(t)
    /\ UNCHANGED <<dbKey, records, secrets, memVars, drawn, restarts>>

\* ... which it returns once inserted and committed.
SeedInsert(t) ==
    /\ At(t, "seeding")
    /\ seed = None
    /\ seed' = task[t].seed
    /\ given' = given \cup {task[t].seed}
    /\ Return(t)
    /\ UNCHANGED <<dbKey, records, secrets, memVars, drawn, restarts>>

\* Another task's seed is there, the insert fails, or the commit after it does.
SeedInsertFails(t) ==
    /\ At(t, "seeding")
    /\ seed' = seed \/ (seed = None /\ seed' = task[t].seed)
    /\ Return(t)
    /\ UNCHANGED <<dbKey, records, secrets, memVars, histVars>>
-----------------------------------------------------------------------------
\* External: the process stops, at any step of any task; the disk remains.
Restart ==
    /\ restarts < MaxRestarts
    /\ restarts' = restarts + 1
    /\ store' = FALSE
    /\ passphrase' = None
    /\ task' = [t \in Tasks |-> Idle]
    /\ UNCHANGED <<diskVars, drawn, given>>

InitializeStep(t) ==
    \/ \E key \in Keys, cred \in Creds \cup {None} : InitializeOpen(t, key, cred)
    \/ InitializeSetStore(t)
    \/ InitializeSetPassphrase(t)
    \/ StoreEnclaveVaultCiphertexts(t)

CredentialStep(t) ==
    \/ \E cred \in Creds : StoreCredentialBegin(t, cred) \/ MarkRevokedFetch(t, cred)
    \/ StoreCredentialSeal(t)
    \/ StoreCredentialInsert(t)
    \/ MarkRevokedReplace(t)

SeedStep(t) == SeedFound(t) \/ SeedDraw(t) \/ SeedInsert(t) \/ SeedInsertFails(t)

Next ==
    \/ \E t \in Tasks : InitializeStep(t) \/ CredentialStep(t) \/ SeedStep(t)
    \/ Restart

Spec == Init /\ [][Next]_vars
-----------------------------------------------------------------------------
\* get_credential and extract_proofable_fields decrypt with the cached key.
Decrypts(cred) == records[cred].under = passphrase

\* Whatever key was tried, retried or in use when a record was written, an
\* unlocked wallet can decrypt every record that it holds.
RecordsReadable ==
    passphrase # None =>
        \A c \in Creds : records[c] # None => Decrypts(c)

\* All callers of get_or_create_zkp_secret_seed are given the same seed, the
\* one on disk: the nullifiers they derive from it agree.
SeedAgreement == given \subseteq {seed}

\* A record marked as revoked never loses the mark or the record, though
\* store_credential and mark_credential_revoked write what they read earlier.
RevokedTagIsKept ==
    [][\A c \in Creds :
          (records[c] # None /\ records[c].revoked) => records'[c] = records[c]]_vars

\* The ciphertext bound to a credential is of the key that opens the database
\* it is in, also when provisioning was cut short and tried again.
BoundKeyOpensStore ==
    \A c \in Creds : secrets[c] # None => secrets[c] = dbKey
=============================================================================
