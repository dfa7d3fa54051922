--------------------------- MODULE MCWalletStore ----------------------------
(* A small instance of WalletStore for TLC. *)
EXTENDS WalletStore, TLC

\* Ids, keys, seeds and tasks are interchangeable.
Symmetry ==
    Permutations(Creds) \cup Permutations(Keys) \cup Permutations(Seeds) \cup Permutations(Tasks)
=============================================================================
