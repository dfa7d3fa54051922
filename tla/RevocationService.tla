------------------------- MODULE RevocationService --------------------------
(***************************************************************************)
(* What ledger, daemon and edge promise together: credentials get revoked  *)
(* for good, the edge blocks only revoked ones, and a block is given up    *)
(* only all at once, when the edge loses its memory.                       *)
(***************************************************************************)
CONSTANT Creds

VARIABLES revoked,      \* revoked on the ledger
          blocked       \* denied at the edge

Init == revoked = {} /\ blocked = {}

Revoke(c) ==
    /\ revoked' = revoked \cup {c}
    /\ UNCHANGED blocked

Block(c) ==
    /\ c \in revoked
    /\ blocked' = blocked \cup {c}
    /\ UNCHANGED revoked

Forget ==
    /\ blocked' = {}
    /\ UNCHANGED revoked

Next == (\E c \in Creds : Revoke(c) \/ Block(c)) \/ Forget

Spec == Init /\ [][Next]_<<revoked, blocked>>
=============================================================================
