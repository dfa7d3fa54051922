---------------------------- MODULE WitnessCheck -----------------------------
(***************************************************************************)
(* The check that the enclave makes before it synthesises a proof, on all  *)
(* pairs of levels of a small field: steps 4 to 7b of main() in            *)
(* src/dzta-gramine-prover/src/main.rs.                                    *)
(***************************************************************************)
EXTENDS RoleCircuit

CONSTANTS Role, Nullifier       \* the witness besides the level

VARIABLES user, req, verdict

witnessVars == <<user, req, verdict>>

WitnessInit ==
    /\ user \in Level
    /\ req \in Level
    /\ verdict = "unknown"

\* compute_commitment, the same product as in the circuit, and is_satisfied.
CheckWitness ==
    /\ verdict = "unknown"
    /\ verdict' = IF Satisfied(user, Role, Nullifier, req, Commitment(Nullifier, user, Role))
                  THEN "satisfied" ELSE "refused"
    /\ UNCHANGED <<user, req>>

WitnessSpec == WitnessInit /\ [][CheckWitness]_witnessVars

\* No wrap-around of the field lets a level below the required one through,
\* and every level from the required one to 255 above it gets a proof.
LevelIsJudgedExactly ==
    verdict # "unknown" => (verdict = "satisfied" <=> user \in req..(req + 255))
=============================================================================
