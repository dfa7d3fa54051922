------------------------- MODULE WalletStoreProofs --------------------------
(* The wallet's safety properties for any number of tasks, keys and records. *)
EXTENDS WalletStore, TLAPS

-----------------------------------------------------------------------------
(* The inductive invariant: one key, that of the database, is all there is. *)

TaskState == [at : Places, cred : Creds \cup {None}, key : Keys \cup {None},
              seed : Seeds \cup {None}]

\* A task that carries a key has it from the database, directly or through the
\* cached passphrase or a record.
KeyedTasks ==
    \A t \in Tasks : task[t].at \in {"opened", "storeSet", "binding", "sealed", "marking"} =>
        task[t].key \in Keys /\ task[t].key = dbKey

\* A task that works on a credential knows which, one that has drawn a seed
\* has it.
BusyTasks ==
    \A t \in Tasks :
        /\ task[t].at \in {"binding", "storing", "sealed", "marking"} => task[t].cred \in Creds
        /\ task[t].at = "seeding" => task[t].seed \in Seeds

\* The passphrase is cached only after the database has accepted it.
CachedKey == passphrase # None => passphrase = dbKey

\* Every record is sealed with the key of the database.
RecordKeys == \A c \in Creds : records[c] # None => records[c].under = dbKey

IndInv ==
    /\ TypeOK
    /\ KeyedTasks
    /\ BusyTasks
    /\ CachedKey
    /\ RecordKeys
    /\ BoundKeyOpensStore
    /\ SeedAgreement
-----------------------------------------------------------------------------
\* A step of one task leaves the others where they are.
LEMMA GotoEffect ==
    ASSUME TypeOK, NEW t \in Tasks, NEW s \in TaskState, Goto(t, s)
    PROVE  /\ task' \in [Tasks -> TaskState]
           /\ task'[t] = s
           /\ \A u \in Tasks : u # t => task'[u] = task[u]
BY DEF TypeOK, Goto, TaskState

\* What a task is when it has nothing to do.
LEMMA IdleState ==
    /\ Idle \in TaskState
    /\ Idle.at = "idle"
BY DEF Idle, TaskState, Places

\* The invariant holds initially.
LEMMA InitIndInv == Init => IndInv
<1> SUFFICES ASSUME Init PROVE IndInv
  OBVIOUS
<1> USE DEF Init
<1>t. task \in [Tasks -> TaskState]
  BY IdleState
<1>r. 0 \in 0..MaxRestarts
  BY RestartsAssumption
<1>1. TypeOK
  BY <1>t, <1>r DEF TypeOK, TaskState
<1>2. \A t \in Tasks : task[t].at = "idle"
  BY IdleState
<1> QED
  BY <1>1, <1>2 DEF IndInv, KeyedTasks, BusyTasks, CachedKey, RecordKeys,
     BoundKeyOpensStore, SeedAgreement

\* initialize: the database takes its own key only, or its first one, before
\* which nothing has any key.
LEMMA InitializePreserves ==
    ASSUME IndInv, NEW t \in Tasks, InitializeStep(t)
    PROVE  IndInv'
<1> USE DEF IndInv
<1>t. task \in [Tasks -> TaskState]
  BY DEF TypeOK, TaskState
<1>1. ASSUME NEW key \in Keys, NEW cred \in Creds \cup {None}, InitializeOpen(t, key, cred)
      PROVE  IndInv'
  <2> DEFINE s == [Idle EXCEPT !.at = "opened", !.key = key, !.cred = cred]
  <2>1. s \in TaskState /\ s.at = "opened" /\ s.key = key
    BY DEF Idle, TaskState, Places
  <2>2. /\ task' \in [Tasks -> TaskState]
        /\ task'[t] = s
        /\ \A u \in Tasks : u # t => task'[u] = task[u]
    BY <1>1, <2>1, GotoEffect DEF InitializeOpen
  <2>3. /\ dbKey \in {None, key}
        /\ dbKey' = key
        /\ UNCHANGED <<records, secrets, seed, store, passphrase, drawn, given, restarts>>
    BY <1>1 DEF InitializeOpen, OpenOrProvision, memVars, histVars
  <2>4. TypeOK'
    BY <2>2, <2>3 DEF TypeOK, TaskState
  <2>5. KeyedTasks' /\ BusyTasks'
    <3> HIDE DEF s
    <3>1. KeyedTasks'
      <4> SUFFICES ASSUME NEW u \in Tasks,
                          task'[u].at \in {"opened", "storeSet", "binding", "sealed", "marking"}
                   PROVE  task'[u].key \in Keys /\ task'[u].key = dbKey'
        BY DEF KeyedTasks
      <4>1. CASE u = t
        BY <2>1, <2>2, <2>3, <4>1
      <4>2. CASE u # t
        <5>1. task'[u] = task[u] /\ task[u].key \in Keys /\ task[u].key = dbKey
          BY <2>2, <4>2 DEF KeyedTasks
        <5> QED
          BY <2>3, <5>1, NoneAssumption
      <4> QED
        BY <4>1, <4>2
    <3>2. BusyTasks'
      BY <2>1, <2>2 DEF BusyTasks
    <3> QED
      BY <3>1, <3>2
  <2>6. CachedKey' /\ BoundKeyOpensStore'
    BY <2>3 DEF CachedKey, BoundKeyOpensStore
  <2>7. RecordKeys'
    <3>1. \A c \in Creds : records[c] # None => records[c].under \in Keys
      BY DEF TypeOK, Record
    <3> QED
      BY <2>3, <3>1, NoneAssumption DEF RecordKeys
  <2>8. SeedAgreement'
    BY <2>3 DEF SeedAgreement
  <2> QED
    BY <2>4, <2>5, <2>6, <2>7, <2>8
<1>2. CASE InitializeSetStore(t)
  <2> DEFINE s == [task[t] EXCEPT !.at = "storeSet"]
  <2>1. s \in TaskState /\ s.at = "storeSet" /\ s.key = task[t].key
    BY <1>t DEF TaskState, Places
  <2>2. /\ task' \in [Tasks -> TaskState]
        /\ task'[t] = s
        /\ \A u \in Tasks : u # t => task'[u] = task[u]
    BY <1>2, <2>1, GotoEffect DEF InitializeSetStore
  <2>3. /\ task[t].at = "opened"
        /\ store' = TRUE
        /\ UNCHANGED <<dbKey, records, secrets, seed, passphrase, drawn, given, restarts>>
    BY <1>2 DEF InitializeSetStore, At, diskVars, histVars
  <2>4. TypeOK'
    BY <2>2, <2>3 DEF TypeOK, TaskState
  <2>5. KeyedTasks' /\ BusyTasks'
    BY <2>1, <2>2, <2>3 DEF KeyedTasks, BusyTasks
  <2>6. CachedKey' /\ BoundKeyOpensStore' /\ RecordKeys' /\ SeedAgreement'
    BY <2>3 DEF CachedKey, BoundKeyOpensStore, RecordKeys, SeedAgreement
  <2> QED
    BY <2>4, <2>5, <2>6
<1>3. CASE InitializeSetPassphrase(t)
  <2> DEFINE s == IF task[t].cred = None THEN Idle ELSE [task[t] EXCEPT !.at = "binding"]
  <2>1. /\ s \in TaskState
        /\ s.at \in {"idle", "binding"}
        /\ s.at = "binding" => s.key = task[t].key /\ s.cred \in Creds
    BY <1>t, IdleState DEF TaskState, Places
  <2>0. Goto(t, s)
    BY <1>3 DEF InitializeSetPassphrase, Return
  <2>2. /\ task' \in [Tasks -> TaskState]
        /\ task'[t] = s
        /\ \A u \in Tasks : u # t => task'[u] = task[u]
    BY <2>0, <2>1, GotoEffect
  <2>3. /\ task[t].at = "storeSet"
        /\ passphrase' = task[t].key
        /\ UNCHANGED <<dbKey, records, secrets, seed, store, drawn, given, restarts>>
    BY <1>3 DEF InitializeSetPassphrase, At, diskVars, histVars
  <2>4. task[t].key \in Keys /\ task[t].key = dbKey
    BY <2>3 DEF KeyedTasks
  <2>5. TypeOK'
    BY <2>2, <2>3, <2>4 DEF TypeOK, TaskState
  <2>6. KeyedTasks' /\ BusyTasks'
    BY <2>1, <2>2, <2>3, <2>4 DEF KeyedTasks, BusyTasks
  <2>7. CachedKey' /\ BoundKeyOpensStore' /\ RecordKeys' /\ SeedAgreement'
    BY <2>3, <2>4 DEF CachedKey, BoundKeyOpensStore, RecordKeys, SeedAgreement
  <2> QED
    BY <2>5, <2>6, <2>7
<1>4. CASE StoreEnclaveVaultCiphertexts(t)
  <2>2. /\ task' \in [Tasks -> TaskState]
        /\ task'[t] = Idle
        /\ \A u \in Tasks : u # t => task'[u] = task[u]
    BY <1>4, IdleState, GotoEffect DEF StoreEnclaveVaultCiphertexts, Return
  <2>3. /\ task[t].at = "binding"
        /\ \/ secrets' = [secrets EXCEPT ![task[t].cred] = task[t].key]
           \/ UNCHANGED secrets
        /\ UNCHANGED <<dbKey, records, seed, store, passphrase, drawn, given, restarts>>
    BY <1>4 DEF StoreEnclaveVaultCiphertexts, At, memVars, histVars
  <2>4. task[t].key \in Keys /\ task[t].key = dbKey /\ task[t].cred \in Creds
    BY <2>3 DEF KeyedTasks, BusyTasks
  <2>5. TypeOK'
    BY <2>2, <2>3, <2>4 DEF TypeOK, TaskState
  <2>6. KeyedTasks' /\ BusyTasks'
    BY <2>2, <2>3, IdleState DEF KeyedTasks, BusyTasks
  <2>7. CachedKey' /\ RecordKeys' /\ SeedAgreement'
    BY <2>3 DEF CachedKey, RecordKeys, SeedAgreement
  <2>8. BoundKeyOpensStore'
    BY <2>3, <2>4 DEF BoundKeyOpensStore, TypeOK
  <2> QED
    BY <2>5, <2>6, <2>7, <2>8
<1> QED
  BY <1>1, <1>2, <1>3, <1>4 DEF InitializeStep

\* store_credential and mark_credential_revoked write what they hold, which is
\* of the one key.
LEMMA CredentialPreserves ==
    ASSUME IndInv, NEW t \in Tasks, CredentialStep(t)
    PROVE  IndInv'
<1> USE DEF IndInv
<1>t. task \in [Tasks -> TaskState]
  BY DEF TypeOK, TaskState
<1>1. ASSUME NEW cred \in Creds, StoreCredentialBegin(t, cred)
      PROVE  IndInv'
  <2> DEFINE s == [Idle EXCEPT !.at = "storing", !.cred = cred]
  <2>1. s \in TaskState /\ s.at = "storing" /\ s.cred = cred
    BY DEF Idle, TaskState, Places
  <2>2. /\ task' \in [Tasks -> TaskState]
        /\ task'[t] = s
        /\ \A u \in Tasks : u # t => task'[u] = task[u]
    BY <1>1, <2>1, GotoEffect DEF StoreCredentialBegin
  <2>3. UNCHANGED <<dbKey, records, secrets, seed, store, passphrase, drawn, given, restarts>>
    BY <1>1 DEF StoreCredentialBegin, diskVars, memVars, histVars
  <2>4. TypeOK'
    BY <2>2, <2>3 DEF TypeOK, TaskState
  <2>5. KeyedTasks' /\ BusyTasks'
    BY <2>1, <2>2, <2>3 DEF KeyedTasks, BusyTasks
  <2>6. CachedKey' /\ BoundKeyOpensStore' /\ RecordKeys' /\ SeedAgreement'
    BY <2>3 DEF CachedKey, BoundKeyOpensStore, RecordKeys, SeedAgreement
  <2> QED
    BY <2>4, <2>5, <2>6
<1>2. CASE StoreCredentialSeal(t)
  <2> DEFINE s == IF passphrase = None THEN Idle
                  ELSE [task[t] EXCEPT !.at = "sealed", !.key = passphrase]
  <2>1. /\ s \in TaskState
        /\ s.at \in {"idle", "sealed"}
        /\ s.at = "sealed" =>
             s.key = passphrase /\ passphrase # None /\ s.cred = task[t].cred
    BY <1>t, IdleState DEF TaskState, Places, TypeOK
  <2>0. Goto(t, s)
    BY <1>2 DEF StoreCredentialSeal, Return
  <2>2. /\ task' \in [Tasks -> TaskState]
        /\ task'[t] = s
        /\ \A u \in Tasks : u # t => task'[u] = task[u]
    BY <2>0, <2>1, GotoEffect
  <2>3. /\ task[t].at = "storing"
        /\ UNCHANGED <<dbKey, records, secrets, seed, store, passphrase, drawn, given, restarts>>
    BY <1>2 DEF StoreCredentialSeal, At, diskVars, memVars, histVars
  <2>4. TypeOK'
    BY <2>2, <2>3 DEF TypeOK, TaskState
  <2>5. s.at = "sealed" => s.key \in Keys /\ s.key = dbKey /\ s.cred \in Creds
    BY <2>1, <2>3 DEF CachedKey, BusyTasks, TypeOK
  <2>6. KeyedTasks' /\ BusyTasks'
    BY <2>1, <2>2, <2>3, <2>5 DEF KeyedTasks, BusyTasks
  <2>7. CachedKey' /\ BoundKeyOpensStore' /\ RecordKeys' /\ SeedAgreement'
    BY <2>3 DEF CachedKey, BoundKeyOpensStore, RecordKeys, SeedAgreement
  <2> QED
    BY <2>4, <2>6, <2>7
<1>3. CASE StoreCredentialInsert(t) \/ MarkRevokedReplace(t)
  <2>2. /\ task' \in [Tasks -> TaskState]
        /\ task'[t] = Idle
        /\ \A u \in Tasks : u # t => task'[u] = task[u]
    BY <1>3, IdleState, GotoEffect DEF StoreCredentialInsert, MarkRevokedReplace, Return
  <2>3. /\ task[t].at \in {"sealed", "marking"}
        /\ \/ \E r \in BOOLEAN :
                 records' = [records EXCEPT ![task[t].cred] = [under |-> task[t].key, revoked |-> r]]
           \/ UNCHANGED records
        /\ UNCHANGED <<dbKey, secrets, seed, store, passphrase, drawn, given, restarts>>
    BY <1>3 DEF StoreCredentialInsert, InsertCredential, MarkRevokedReplace, At, memVars, histVars
  <2>4. task[t].key \in Keys /\ task[t].key = dbKey /\ task[t].cred \in Creds
    BY <2>3 DEF KeyedTasks, BusyTasks
  <2>5. records' \in [Creds -> Record \cup {None}] /\ RecordKeys'
    <3>1. CASE UNCHANGED records
      BY <2>3, <3>1 DEF TypeOK, RecordKeys
    <3>2. ASSUME NEW r \in BOOLEAN,
                 records' = [records EXCEPT ![task[t].cred] = [under |-> task[t].key, revoked |-> r]]
          PROVE  records' \in [Creds -> Record \cup {None}] /\ RecordKeys'
      <4> DEFINE new == [under |-> task[t].key, revoked |-> r]
      <4>1. new \in Record /\ new.under = dbKey
        BY <2>4 DEF Record
      <4>2. records' = [records EXCEPT ![task[t].cred] = new] /\ dbKey' = dbKey
        BY <2>3, <3>2
      <4> HIDE DEF new
      <4> QED
        BY <2>4, <4>1, <4>2 DEF TypeOK, RecordKeys
    <3> QED
      BY <2>3, <3>1, <3>2
  <2>6. TypeOK'
    BY <2>2, <2>3, <2>5 DEF TypeOK, TaskState
  <2>7. KeyedTasks' /\ BusyTasks'
    BY <2>2, <2>3, IdleState DEF KeyedTasks, BusyTasks
  <2>8. CachedKey' /\ BoundKeyOpensStore' /\ SeedAgreement'
    BY <2>3 DEF CachedKey, BoundKeyOpensStore, SeedAgreement
  <2> QED
    BY <2>5, <2>6, <2>7, <2>8
<1>4. ASSUME NEW cred \in Creds, MarkRevokedFetch(t, cred)
      PROVE  IndInv'
  <2> DEFINE s == [Idle EXCEPT !.at = "marking", !.cred = cred, !.key = records[cred].under]
  <2>0. records[cred].under \in Keys /\ records[cred].under = dbKey
    BY <1>4 DEF MarkRevokedFetch, TypeOK, Record, RecordKeys
  <2>1. s \in TaskState /\ s.at = "marking" /\ s.cred = cred /\ s.key = records[cred].under
    BY <2>0 DEF Idle, TaskState, Places
  <2>2. /\ task' \in [Tasks -> TaskState]
        /\ task'[t] = s
        /\ \A u \in Tasks : u # t => task'[u] = task[u]
    BY <1>4, <2>1, GotoEffect DEF MarkRevokedFetch
  <2>3. UNCHANGED <<dbKey, records, secrets, seed, store, passphrase, drawn, given, restarts>>
    BY <1>4 DEF MarkRevokedFetch, diskVars, memVars, histVars
  <2>4. TypeOK'
    BY <2>2, <2>3 DEF TypeOK, TaskState
  <2>5. KeyedTasks' /\ BusyTasks'
    BY <2>0, <2>1, <2>2, <2>3 DEF KeyedTasks, BusyTasks
  <2>6. CachedKey' /\ BoundKeyOpensStore' /\ RecordKeys' /\ SeedAgreement'
    BY <2>3 DEF CachedKey, BoundKeyOpensStore, RecordKeys, SeedAgreement
  <2> QED
    BY <2>4, <2>5, <2>6
<1> QED
  BY <1>1, <1>2, <1>3, <1>4 DEF CredentialStep

\* get_or_create_zkp_secret_seed: a seed is given only when it is the one on
\* disk, and none has been given before the first is there.
LEMMA SeedPreserves ==
    ASSUME IndInv, NEW t \in Tasks, SeedStep(t)
    PROVE  IndInv'
<1> USE DEF IndInv
<1>1. /\ UNCHANGED <<dbKey, records, secrets, store, passphrase, restarts>>
      /\ CachedKey' /\ BoundKeyOpensStore' /\ RecordKeys'
  BY DEF SeedStep, SeedFound, SeedDraw, SeedInsert, SeedInsertFails, diskVars, memVars,
     histVars, CachedKey, BoundKeyOpensStore, RecordKeys
<1>2. CASE SeedFound(t)
  <2>1. /\ seed # None
        /\ given' = given \cup {seed}
        /\ UNCHANGED <<seed, task, drawn>>
    BY <1>2 DEF SeedFound, diskVars
  <2>2. TypeOK' /\ SeedAgreement'
    BY <1>1, <2>1 DEF TypeOK, SeedAgreement
  <2> QED
    BY <1>1, <2>1, <2>2 DEF KeyedTasks, BusyTasks
<1>3. CASE SeedDraw(t)
  <2> PICK new \in Seeds \ drawn :
              /\ drawn' = drawn \cup {new}
              /\ Goto(t, [Idle EXCEPT !.at = "seeding", !.seed = new])
    BY <1>3 DEF SeedDraw
  <2> DEFINE s == [Idle EXCEPT !.at = "seeding", !.seed = new]
  <2>1. s \in TaskState /\ s.at = "seeding" /\ s.seed = new
    BY DEF Idle, TaskState, Places
  <2>2. /\ task' \in [Tasks -> TaskState]
        /\ task'[t] = s
        /\ \A u \in Tasks : u # t => task'[u] = task[u]
    BY <2>1, GotoEffect
  <2>3. UNCHANGED <<seed, given>>
    BY <1>3 DEF SeedDraw, diskVars
  <2>4. TypeOK' /\ SeedAgreement'
    BY <1>1, <2>2, <2>3 DEF TypeOK, TaskState, SeedAgreement
  <2>5. KeyedTasks' /\ BusyTasks'
    BY <1>1, <2>1, <2>2 DEF KeyedTasks, BusyTasks
  <2> QED
    BY <1>1, <2>4, <2>5
<1>4. CASE SeedInsert(t) \/ SeedInsertFails(t)
  <2>1. /\ task[t].at = "seeding"
        /\ UNCHANGED drawn
        /\ \/ seed = None /\ seed' = task[t].seed /\ given' \in {given, given \cup {seed'}}
           \/ UNCHANGED <<seed, given>>
    BY <1>4 DEF SeedInsert, SeedInsertFails, At, histVars
  <2>2. /\ task' \in [Tasks -> TaskState]
        /\ task'[t] = Idle
        /\ \A u \in Tasks : u # t => task'[u] = task[u]
    BY <1>4, IdleState, GotoEffect DEF SeedInsert, SeedInsertFails, Return
  <2>3. task[t].seed \in Seeds
    BY <2>1 DEF BusyTasks
  <2>4. TypeOK'
    BY <1>1, <2>1, <2>2, <2>3 DEF TypeOK, TaskState
  <2>5. SeedAgreement'
    <3>1. seed = None => given = {}
      BY NoneAssumption DEF TypeOK, SeedAgreement
    <3> QED
      BY <2>1, <3>1 DEF SeedAgreement
  <2>6. KeyedTasks' /\ BusyTasks'
    BY <1>1, <2>2, IdleState DEF KeyedTasks, BusyTasks
  <2> QED
    BY <1>1, <2>4, <2>5, <2>6
<1> QED
  BY <1>2, <1>3, <1>4 DEF SeedStep

\* A restart forgets the memory; what is left on disk agrees by itself.
LEMMA RestartPreserves ==
    ASSUME IndInv, Restart
    PROVE  IndInv'
<1> USE DEF IndInv
<1>1. /\ task' = [t \in Tasks |-> Idle]
      /\ store' = FALSE /\ passphrase' = None
      /\ restarts < MaxRestarts /\ restarts' = restarts + 1
      /\ UNCHANGED <<dbKey, records, secrets, seed, drawn, given>>
  BY DEF Restart, diskVars
<1>2. task' \in [Tasks -> TaskState] /\ \A t \in Tasks : task'[t].at = "idle"
  BY <1>1, IdleState
<1>3. restarts' \in 0..MaxRestarts
  BY <1>1, RestartsAssumption DEF TypeOK
<1>4. TypeOK'
  BY <1>1, <1>2, <1>3 DEF TypeOK, TaskState
<1>5. KeyedTasks' /\ BusyTasks'
  BY <1>2 DEF KeyedTasks, BusyTasks
<1>6. CachedKey' /\ BoundKeyOpensStore' /\ RecordKeys' /\ SeedAgreement'
  BY <1>1 DEF CachedKey, BoundKeyOpensStore, RecordKeys, SeedAgreement
<1> QED
  BY <1>4, <1>5, <1>6

\* The invariant is inductive.
LEMMA NextIndInv == IndInv /\ [Next]_vars => IndInv'
<1> SUFFICES ASSUME IndInv, [Next]_vars PROVE IndInv'
  OBVIOUS
<1>1. CASE UNCHANGED vars
  BY <1>1 DEF vars, diskVars, memVars, histVars, IndInv, TypeOK, KeyedTasks, BusyTasks,
     CachedKey, RecordKeys, BoundKeyOpensStore, SeedAgreement
<1>2. CASE Next
  BY <1>2, InitializePreserves, CredentialPreserves, SeedPreserves, RestartPreserves DEF Next
<1> QED
  BY <1>1, <1>2

LEMMA Invariance == Spec => []IndInv
  BY InitIndInv, NextIndInv, PTL DEF Spec
-----------------------------------------------------------------------------
\* Type correctness of memory, disk and tasks.
THEOREM TypeCorrect == Spec => []TypeOK
  BY Invariance, PTL DEF IndInv

\* An unlocked wallet decrypts every record it holds, whatever keys were tried
\* and wherever initialize was interrupted.
THEOREM Readable == Spec => []RecordsReadable
<1>1. IndInv => RecordsReadable
  BY DEF IndInv, CachedKey, RecordKeys, RecordsReadable, Decrypts
<1> QED
  BY <1>1, Invariance, PTL

\* All callers of get_or_create_zkp_secret_seed get the seed on disk.
THEOREM OneSeed == Spec => []SeedAgreement
  BY Invariance, PTL DEF IndInv

\* The ciphertext that provision_and_bind_vault stores is of the key of its
\* database.
THEOREM BoundKey == Spec => []BoundKeyOpensStore
  BY Invariance, PTL DEF IndInv

\* No step of store_credential or mark_credential_revoked loses a revoked tag.
THEOREM TagIsKept == Spec => RevokedTagIsKept
<1> DEFINE Kept == \A c \in Creds :
                      (records[c] # None /\ records[c].revoked) => records'[c] = records[c]
<1>1. IndInv /\ [Next]_vars => [Kept]_vars
  <2> SUFFICES ASSUME IndInv, Next PROVE Kept
    OBVIOUS
  <2>1. ASSUME NEW t \in Tasks, StoreCredentialInsert(t)
        PROVE  Kept
    BY <2>1 DEF StoreCredentialInsert, InsertCredential, IndInv, TypeOK
  <2>2. ASSUME NEW t \in Tasks, MarkRevokedReplace(t)
        PROVE  Kept
    <3> SUFFICES ASSUME NEW c \in Creds, records[c] # None, records[c].revoked
                 PROVE  records'[c] = records[c]
      OBVIOUS
    <3>1. records[c] \in Record /\ records[c].under = dbKey /\ records[c].revoked = TRUE
      BY DEF IndInv, TypeOK, RecordKeys, Record
    <3>2. records[c] = [under |-> dbKey, revoked |-> TRUE]
      BY <3>1 DEF Record
    <3>3. task[t].key = dbKey
      BY <2>2 DEF MarkRevokedReplace, At, IndInv, KeyedTasks
    <3> QED
      BY <2>2, <3>2, <3>3 DEF MarkRevokedReplace, IndInv, TypeOK
  <2>3. CASE UNCHANGED records
    BY <2>3
  <2> QED
    BY <2>1, <2>2, <2>3 DEF Next, InitializeStep, CredentialStep, SeedStep, InitializeOpen,
       InitializeSetStore, InitializeSetPassphrase, StoreEnclaveVaultCiphertexts,
       StoreCredentialBegin, StoreCredentialSeal, MarkRevokedFetch, SeedFound, SeedDraw,
       SeedInsert, SeedInsertFails, Restart, diskVars
<1> QED
  BY <1>1, Invariance, PTL DEF Spec, RevokedTagIsKept
=============================================================================
