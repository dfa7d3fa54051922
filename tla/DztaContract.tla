---------------------------- MODULE DztaContract ----------------------------
(***************************************************************************)
(* The credential part of the dztac chaincode (src/dztac/main.go) as one   *)
(* atomic step per transaction: the world state under the CRED_ keys and   *)
(* the chaincode events of the committed transactions, in commit order.    *)
(* It is the abstract specification that FabricLedger implements, and the  *)
(* ledger that the revocation pipeline and the status check are built on.  *)
(***************************************************************************)
EXTENDS Naturals, Sequences

CONSTANT Creds          \* the credential ids (UUIDs) that issuers ever draw

VARIABLES meta,         \* world state: credential id -> CredentialMetadata
          events        \* committed "RevokeCredential" events, oldest first

vars == <<meta, events>>

\* CredentialMetadata reduced to what the properties tell apart: whether the
\* key exists and its Revoked flag.
Status == {"absent", "active", "revoked"}

TypeOK ==
    /\ meta \in [Creds -> Status]
    /\ events \in Seq(Creds)

Init ==
    /\ meta = [c \in Creds |-> "absent"]
    /\ events = <<>>

\* A blind PutState with Revoked = false: no existence check.
RecordCredentialMetadata(c) ==
    /\ meta' = [meta EXCEPT ![c] = "active"]
    /\ UNCHANGED events

\* Faulty variant of RevokeCredential: the event is emitted, the flag not set.
RevokeCredentialEventOnly(c) ==
    /\ meta[c] # "absent"
    /\ events' = Append(events, c)
    /\ UNCHANGED meta

\* The metadata is read first (an absent key is an error), rewritten with
\* Revoked = true, and the event for the daemon is emitted - also when the
\* credential was revoked already.
RevokeCredential(c) ==
    /\ meta[c] # "absent"
    /\ meta' = [meta EXCEPT ![c] = "revoked"]
    /\ events' = Append(events, c)

\* Issuer.create_credential draws a new UUID for each record.
Issue(c) ==
    /\ meta[c] = "absent"
    /\ RecordCredentialMetadata(c)

Next == \E c \in Creds : Issue(c) \/ RevokeCredential(c)

Spec == Init /\ [][Next]_vars

IsRevoked(c) == meta[c] = "revoked"

Announced(c) == \E i \in 1..Len(events) : events[i] = c
=============================================================================
