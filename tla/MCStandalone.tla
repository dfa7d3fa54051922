---------------------------- MODULE MCStandalone ----------------------------
(***************************************************************************)
(* Four parts that stand alone, in small instances for TLC: the check of   *)
(* the enclave's witness on all pairs of levels, validate_fields on every  *)
(* schema of at most two attributes and every credentialSubject that       *)
(* create_credential builds, the set-up of a FabricClient, and documents   *)
(* on the ledger with their decoding.  A behavior is about one of them.    *)
(***************************************************************************)
EXTENDS WitnessCheck, SchemaCheck, FabricSetup, IdentityRegistry, TLC

VARIABLE part

\* "email" is in no subject; "date" is a type the engine does not know.
Attribute == [name : {"orgId", "clearanceLevel", "timestamp", "email"},
              type : {"string", "integer", "timestamp", "date"}]

\* orgId is a string, clearanceLevel a u64, timestamp an i64.
MCSubjects == [orgId : {Text, Rfc3339},
               clearanceLevel : {Num(n) : n \in 0..(2 * MaxI64 + 1)},
               timestamp : {Num(n) : n \in (-MaxI64 - 1)..MaxI64}]

MCSchemas == UNION {[1..n -> Attribute] : n \in 0..2}
-----------------------------------------------------------------------------
Url(host) == [scheme |-> FALSE, host |-> host]

Peer(host) == [url |-> Url(host), tls_ca_certs |-> "ca", tls_ca_certs_tonic |-> "ca"]
User(cert) == [cert |-> cert, key |-> "key"]
InChannel(b) == [endorsing_peer |-> b, chaincode_query |-> TRUE]

\* Two organizations with a user of the same name, two peers, one channel.
GoodProfile ==
    [peers |-> ("org1-peer1" :> Peer("h1") @@ "org1-peer2" :> Peer("h2")),
     orderers |-> ("orderer1" :> "ca"),
     organizations |->
        ("Org1MSP" :> [mspid |-> "Org1MSP", peers |-> {"org1-peer1"},
                       users |-> ("admin" :> User("cert1") @@ "user" :> User("cert2"))] @@
         "Org2MSP" :> [mspid |-> "Org2MSP", peers |-> {"org1-peer2"},
                       users |-> ("admin" :> User("cert3"))]),
     channels |-> ("dzta" :> [peers |-> ("org1-peer1" :> InChannel(TRUE) @@
                                         "org1-peer2" :> InChannel(FALSE)),
                              orderers |-> {"orderer1"}]),
     organization |-> "Org1MSP"]

Without(map, name) == [n \in DOMAIN map \ {name} |-> map[n]]

\* The target peer is not in the profile.
NoTargetProfile ==
    [GoodProfile EXCEPT
        !.peers = "org1-peer2" :> Peer("h2"),
        !.organizations["Org1MSP"].peers = {},
        !.channels["dzta"].peers = "org1-peer2" :> InChannel(TRUE)]

MCProfiles ==
    {GoodProfile, NoTargetProfile,
     [GoodProfile EXCEPT !.peers["org1-peer1"].tls_ca_certs_tonic = NotFound],
     [GoodProfile EXCEPT !.peers["org1-peer1"].tls_ca_certs_tonic = Unreadable],
     [GoodProfile EXCEPT !.peers["org1-peer1"].url.scheme = TRUE],
     [GoodProfile EXCEPT !.organizations["Org1MSP"].users["admin"].key = Unreadable],
     [GoodProfile EXCEPT !.organizations["Org1MSP"].users["admin"].cert = Empty],
     [GoodProfile EXCEPT !.organizations["Org1MSP"].users = Without(@, "admin")],
     [GoodProfile EXCEPT !.organizations["Org1MSP"].users = Without(Without(@, "admin"), "user")],
     [GoodProfile EXCEPT !.organizations["Org2MSP"].peers = {"org1-peer3"}],
     [GoodProfile EXCEPT !.channels["dzta"].peers = "org1-peer3" :> InChannel(TRUE)],
     [GoodProfile EXCEPT !.channels["dzta"].orderers = {"orderer2"}],
     [GoodProfile EXCEPT !.orderers = Without(@, "orderer1")],
     [GoodProfile EXCEPT !.organization = "Org3MSP"]}

\* The environment names a host that has the first one's names too, or another.
MCUrls == {[scheme |-> TRUE, host |-> "h3"], Url("h2")}

MCNetwork ==
    "h1" :> [ca |-> "ca", names |-> {"h1"}] @@
    "h2" :> [ca |-> "ca", names |-> {"h2"}] @@
    "h3" :> [ca |-> "ca", names |-> {"h1", "h3"}]
-----------------------------------------------------------------------------
WitnessParked == user = 0 /\ req = 0 /\ verdict = "unknown"
SchemaParked == attributes = <<>> /\ subject = <<>> /\ result = "running"
SetupParked ==
    /\ profile = GoodProfile /\ org_name = "Org1MSP" /\ peer_name = TargetPeer
    /\ endpoint = NotFound /\ client = NoClient /\ first = NotFound
    /\ call = NoCall /\ sent = {}

RegistryParked == is_mock = TRUE /\ world = <<>> /\ reply = NoReply

MCInit ==
    \/ part = "witness" /\ WitnessInit /\ SchemaParked /\ SetupParked /\ RegistryParked
    \/ part = "schema" /\ SchemaInit /\ WitnessParked /\ SetupParked /\ RegistryParked
    \/ part = "setup" /\ SetupInit /\ WitnessParked /\ SchemaParked /\ RegistryParked
    \/ part = "registry" /\ RegistryInit /\ WitnessParked /\ SchemaParked /\ SetupParked

MCNext ==
    \/ /\ part = "witness" /\ CheckWitness
       /\ UNCHANGED <<part, schemaVars, setupVars, registryVars>>
    \/ /\ part = "schema" /\ ValidateFields
       /\ UNCHANGED <<part, witnessVars, setupVars, registryVars>>
    \/ /\ part = "setup" /\ SetupNext
       /\ UNCHANGED <<part, witnessVars, schemaVars, registryVars>>
    \/ /\ part = "registry" /\ RegistryNext
       /\ UNCHANGED <<part, witnessVars, schemaVars, setupVars>>

MCSpec == MCInit /\ [][MCNext]_<<part, witnessVars, schemaVars, setupVars, registryVars>>
=============================================================================
