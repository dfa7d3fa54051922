----------------------------- MODULE RoleCircuit -----------------------------
(***************************************************************************)
(* RoleVerificationCircuit (src/zkp-core-crypto/src/lib.rs): what its      *)
(* constraints say of the witness and the public inputs.  Elements of the  *)
(* scalar field are the numbers 0..FieldOrder-1; a clearance level is a    *)
(* u64, at most MaxLevel, which the field holds without reduction.         *)
(***************************************************************************)
EXTENDS Integers

CONSTANTS FieldOrder, MaxLevel

ASSUME FieldAssumption ==
    /\ FieldOrder \in Nat
    /\ MaxLevel \in Nat
    /\ MaxLevel + 256 < FieldOrder

Level == 0..MaxLevel

\* Faulty variant of FieldSub: subtraction of unsigned integers that stops at 0.
FieldSubSaturating(a, b) == IF b <= a THEN a - b ELSE 0

FieldSub(a, b) == IF b <= a THEN a - b ELSE a - b + FieldOrder

FieldMul(a, b) == (a * b) % FieldOrder

\* le_bits_to_fp of diff_bits[0..8].
Truncated(x) == x % 256

\* The 8-bit range check of user_clearance - req_clearance.
RangeCheck(user, req) == FieldSub(user, req) = Truncated(FieldSub(user, req))

Commitment(nullifier, user, role) == FieldMul(FieldMul(nullifier, user), role)

Satisfied(user, role, nullifier, req, commitment) ==
    /\ RangeCheck(user, req)
    /\ Commitment(nullifier, user, role) = commitment
=============================================================================
