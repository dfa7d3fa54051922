----------------------- MODULE MCCredentialLifecycle ------------------------
(* A small instance of CredentialLifecycle for TLC. *)
EXTENDS CredentialLifecycle, TLC

Attr(name, type) == [name |-> name, type |-> type]

MCSchemas == {<<Attr("orgId", "string"), Attr("timestamp", "timestamp")>>}

MCSubjects ==
    [orgId : {Engine!Text}, timestamp : {Engine!Num(0), Engine!Num(1)}]

Symmetry == Permutations(Creds) \cup Permutations(Issuers)
=============================================================================
