-------------------------- MODULE ConnectionConfig --------------------------
(***************************************************************************)
(* The connection profile of the Fabric client and its accessors           *)
(* (src/fabric-client/src/config.rs).  A profile is a record; its HashMaps *)
(* are functions from names.  A path stands for what is in the file: a     *)
(* certificate, a CA, Empty, or Unreadable.                                *)
(***************************************************************************)
CONSTANTS NotFound,     \* Err(ConfigError), and None of an optional field
          Empty,        \* the empty string, an empty file
          Unreadable    \* a file that cannot be read

Entry(map, name) == IF name \in DOMAIN map THEN map[name] ELSE NotFound

\* An organization without users, or without peers, will do.
validate(c) ==
    /\ c.organization \in DOMAIN c.organizations
    /\ {} \notin {DOMAIN c.peers, DOMAIN c.orderers, DOMAIN c.channels}
    /\ \A o \in DOMAIN c.organizations : c.organizations[o].peers \subseteq DOMAIN c.peers
    /\ \A ch \in DOMAIN c.channels :
          /\ c.channels[ch].orderers \subseteq DOMAIN c.orderers
          /\ DOMAIN c.channels[ch].peers \subseteq DOMAIN c.peers

get_orderer_config(c, name) == Entry(c.orderers, name)
get_peer_config(c, name) == Entry(c.peers, name)
get_channel_config(c, name) == Entry(c.channels, name)
get_org_config(c, name) == Entry(c.organizations, name)

get_org_mspid(c, name) ==
    IF get_org_config(c, name) = NotFound THEN NotFound ELSE get_org_config(c, name).mspid

get_channel_peers(c, name) ==
    IF get_channel_config(c, name) = NotFound THEN NotFound
    ELSE DOMAIN get_channel_config(c, name).peers

get_channel_orderers(c, name) ==
    IF get_channel_config(c, name) = NotFound THEN NotFound
    ELSE get_channel_config(c, name).orderers

\* A peer of a channel is marked as endorsing or not.
get_endorsing_peers(c, name) ==
    IF get_channel_config(c, name) = NotFound THEN NotFound
    ELSE {p \in DOMAIN get_channel_config(c, name).peers :
             get_channel_config(c, name).peers[p].endorsing_peer}

peer_supports_chaincode_query(c, channel, peer) ==
    LET ch == get_channel_config(c, channel)
    IN  IF ch = NotFound \/ peer \notin DOMAIN ch.peers THEN NotFound
        ELSE ch.peers[peer].chaincode_query

\* UserContext::new.
UserContext(cert, key, mspid) ==
    IF Empty \in {cert, key, mspid} THEN NotFound
    ELSE [cert |-> cert, key |-> key, mspid |-> mspid]

get_user_context_by_name(c, org, user) ==
    IF get_org_config(c, org) = NotFound \/ user \notin DOMAIN get_org_config(c, org).users
    THEN NotFound
    ELSE LET u == get_org_config(c, org).users[user]
         IN  UserContext(u.cert, u.key, get_org_config(c, org).mspid)

\* The user of an organization that its HashMap yields first: any of them, but
\* the same one as long as the profile is not loaded again.
FirstUsers(c, org) ==
    IF get_org_config(c, org) = NotFound \/ DOMAIN get_org_config(c, org).users = {}
    THEN {NotFound}
    ELSE DOMAIN get_org_config(c, org).users

get_user_context_for_org(c, org, first) == get_user_context_by_name(c, org, first)

get_user_context(c, first) == get_user_context_for_org(c, c.organization, first)

\* The bytes of a TLS CA file; none if the profile names no file.
read(path) ==
    CASE path = NotFound -> Empty
      [] path = Unreadable -> NotFound
      [] OTHER -> path

read_peer_tls_cert_bytes(c, peer) ==
    IF get_peer_config(c, peer) = NotFound THEN NotFound ELSE read(c.peers[peer].tls_ca_certs)

read_peer_tonic_tls_cert_bytes(c, peer) ==
    IF get_peer_config(c, peer) = NotFound THEN NotFound
    ELSE read(c.peers[peer].tls_ca_certs_tonic)
=============================================================================
