----------------------------- MODULE FabricSetup -----------------------------
(***************************************************************************)
(* How a FabricClient comes by its configuration and how a call comes by   *)
(* its identity and its two connections (src/fabric-client/src/            *)
(* fabric_client.rs).  A call asks one peer for the endorsement through    *)
(* the SDK client and then opens a second connection for the submission.   *)
(* What happens to the transaction is the matter of FabricLedger.  The SDK *)
(* and TLS are external: a handshake needs a CA that vouches for the host  *)
(* and a name that its certificate is for, and fails at any time.  The     *)
(* environment is read when the client is made and again in every call,    *)
(* and may change in between.                                              *)
(***************************************************************************)
EXTENDS ConnectionConfig

CONSTANTS Profiles,     \* the profiles that may be on disk
          Urls,         \* values of FABRIC_PEER_ENDPOINT, a scheme and a host
          Network,      \* host -> the CA of its certificate and the names in it
          Orgs, PeerNames   \* arguments of FabricClient::new

\* A user's entry names a certificate, be it a file that is not there.
ASSUME ProfilesAssumption ==
    \A c \in Profiles : \A o \in DOMAIN c.organizations :
        \A u \in DOMAIN c.organizations[o].users : c.organizations[o].users[u].cert # NotFound

\* A scheme is nobody's name, and no certificate is from a CA that is not there.
ASSUME NetworkAssumption ==
    \A h \in DOMAIN Network :
        "grpcs" \notin Network[h].names /\ Network[h].ca \notin {NotFound, Empty}

VARIABLES profile, org_name, peer_name,
          endpoint,     \* FABRIC_PEER_ENDPOINT, or NotFound
          client,       \* the FabricClient
          first,        \* the user that the HashMap of the profile yields first
          call,         \* the call that is being made
          sent          \* history: what has been sent to whom and as whom

setupVars == <<profile, org_name, peer_name, endpoint, client, first, call, sent>>
inputs == <<profile, org_name, peer_name, endpoint>>

NoClient == [at |-> "none"]
NoCall == [at |-> "idle"]
EmptyUrl == [scheme |-> FALSE, host |-> Empty]
TargetPeer == "org1-peer1"      \* whatever peer_name is

SetupTypeOK ==
    /\ profile \in Profiles /\ org_name \in Orgs /\ peer_name \in PeerNames
    /\ endpoint \in Urls \cup {NotFound}
    /\ \/ client = NoClient \/ client = [at |-> "failed"]
       \/ /\ client.at = "ready"
          /\ client.org_mspid # NotFound
          /\ client.is_mock \in BOOLEAN
          /\ first \in FirstUsers(profile, profile.organization)
    /\ call.at \in {"idle", "connected", "endorsed", "open", "submitted"}
    /\ \A s \in sent : s.cert \notin {Empty, Unreadable, NotFound}

SetupInit ==
    /\ profile \in Profiles /\ org_name \in Orgs /\ peer_name \in PeerNames
    /\ endpoint \in Urls \cup {NotFound}
    /\ client = NoClient
    /\ first = NotFound
    /\ call = NoCall
    /\ sent = {}
-----------------------------------------------------------------------------
\* External: the process, or whoever starts it, sets the variable.
SetEndpoint(e) ==
    /\ endpoint' = e
    /\ UNCHANGED <<profile, org_name, peer_name, client, first, call, sent>>

\* from_file: a profile that is not there or cannot be parsed is left out.
Accepted == validate(profile) /\ get_org_mspid(profile, org_name) # NotFound

\* FabricClient::new.  A peer that the profile does not have leaves the URL
\* empty, and the client is made all the same.
New(user) ==
    /\ client = NoClient
    /\ Accepted
    /\ user \in FirstUsers(profile, profile.organization)
    /\ first' = user
    /\ client' = [at |-> "ready", is_mock |-> FALSE,
                  org_mspid |-> get_org_mspid(profile, org_name),
                  peer_url |-> IF endpoint # NotFound THEN endpoint
                               ELSE IF get_peer_config(profile, peer_name) = NotFound THEN EmptyUrl
                               ELSE get_peer_config(profile, peer_name).url]
    /\ UNCHANGED <<inputs, call, sent>>

NewFails ==
    /\ client = NoClient
    /\ ~Accepted
    /\ client' = [at |-> "failed"]
    /\ UNCHANGED <<inputs, first, call, sent>>

set_mock(b) ==
    /\ client.at = "ready" /\ call = NoCall
    /\ client' = [client EXCEPT !.is_mock = b]
    /\ UNCHANGED <<inputs, first, call, sent>>
-----------------------------------------------------------------------------
\* External: TLS.
Handshake(ca, domain, host) ==
    /\ host \in DOMAIN Network
    /\ Network[host].ca = ca
    /\ domain \in Network[host].names

user_context == get_user_context(profile, first)

\* build_sdk_identity: the certificate of the profile's organization with the
\* MSP of the organization that `new' was given.
CanIdentify == user_context # NotFound /\ Unreadable \notin {user_context.cert, user_context.key}

\* connect_gateway_client, the CA being that of the target peer.
ConnectGateway(kind) ==
    /\ client.at = "ready" /\ call = NoCall
    /\ ~client.is_mock
    /\ CanIdentify
    /\ Handshake(read_peer_tls_cert_bytes(profile, TargetPeer), client.peer_url.host, client.peer_url.host)
    /\ call' = [at |-> "connected", kind |-> kind, submit_host |-> NotFound]
    /\ UNCHANGED <<inputs, client, first, sent>>

Send(what, host) ==
    sent' = sent \cup {[what |-> what, host |-> host, cert |-> user_context.cert,
                        msp |-> client.org_mspid]}

\* query_chaincode: evaluate, and done.
Evaluate ==
    /\ call.at = "connected" /\ call.kind = "query"
    /\ Send("evaluate", client.peer_url.host)
    /\ call' = NoCall
    /\ UNCHANGED <<inputs, client, first>>

SendEndorse ==
    /\ call.at = "connected" /\ call.kind = "invoke"
    /\ Send("endorse", client.peer_url.host)
    /\ call' = [call EXCEPT !.at = "endorsed"]
    /\ UNCHANGED <<inputs, client, first>>

target == get_peer_config(profile, TargetPeer)

\* url.split(':').next(): a URL with a scheme yields the scheme.
TlsDomain == IF target.url.scheme THEN "grpcs" ELSE target.url.host

\* The endpoint of the submission: the variable is read again, and the profile
\* is asked for the target peer.
SubmitUrl == IF endpoint # NotFound THEN endpoint ELSE target.url

\* build_tls_gateway_client.
BuildTlsGateway ==
    /\ call.at = "endorsed"
    /\ target # NotFound
    /\ read_peer_tonic_tls_cert_bytes(profile, TargetPeer) \notin {NotFound, Empty}
    /\ Handshake(read_peer_tonic_tls_cert_bytes(profile, TargetPeer), TlsDomain, SubmitUrl.host)
    /\ call' = [call EXCEPT !.at = "open", !.submit_host = SubmitUrl.host]
    /\ UNCHANGED <<inputs, client, first, sent>>

\* Faulty variant of SendSubmit: the address is looked up once more.
SendSubmitLookup ==
    /\ call.at = "open"
    /\ Send("submit", SubmitUrl.host)
    /\ call' = [call EXCEPT !.at = "submitted"]
    /\ UNCHANGED <<inputs, client, first>>

\* Over the connection that is open.
SendSubmit ==
    /\ call.at = "open"
    /\ Send("submit", call.submit_host)
    /\ call' = [call EXCEPT !.at = "submitted"]
    /\ UNCHANGED <<inputs, client, first>>

\* wait_for_transaction_commit, over the first connection.
PollCommit ==
    /\ call.at = "submitted"
    /\ Send("commit_status", client.peer_url.host)
    /\ call' = NoCall
    /\ UNCHANGED <<inputs, client, first>>

\* A call ends with an error at any point.
CallFails ==
    /\ call # NoCall
    /\ call' = NoCall
    /\ UNCHANGED <<inputs, client, first, sent>>

SetupNext ==
    \/ \E e \in Urls \cup {NotFound} : SetEndpoint(e)
    \/ \E user \in FirstUsers(profile, profile.organization) : New(user)
    \/ NewFails
    \/ \E b \in BOOLEAN : set_mock(b)
    \/ \E kind \in {"query", "invoke"} : ConnectGateway(kind)
    \/ Evaluate \/ SendEndorse \/ BuildTlsGateway \/ SendSubmit \/ PollCommit \/ CallFails

SetupSpec == SetupInit /\ [][SetupNext]_setupVars
-----------------------------------------------------------------------------
\* Whatever the environment says when the client is made, when it connects and
\* when it submits: a request goes to a host that a CA of the profile's entry
\* for the target peer vouches for, and a submission to one that goes by the
\* name that the entry gives the peer.  (Its endorsement may come from another
\* peer.)
SentIsVouchedFor ==
    \A s \in sent :
        /\ s.host \in DOMAIN Network
        /\ IF s.what = "submit"
           THEN /\ Network[s.host].ca = target.tls_ca_certs_tonic
                /\ target.url.host \in Network[s.host].names
           ELSE /\ Network[s.host].ca = target.tls_ca_certs
                /\ s.host \in Network[s.host].names
=============================================================================
