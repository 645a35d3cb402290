------------------------------ MODULE ClientHost ------------------------------
(***************************************************************************)
(* resolve_client_host: the address a request is counted under.  A request *)
(* reaches the broker from a transport peer, with or without the header    *)
(* that CLIENT_IP_HEADER names; the header is believed only if the peer is *)
(* one of TRUSTED_PROXY_HOSTS.                                             *)
(*                                                                         *)
(* Parsing an address, matching it against a CIDR and splitting a header   *)
(* at its commas are left out: a header is the sequence of its hops, empty *)
(* if the request has none.                                                *)
(***************************************************************************)
EXTENDS Naturals, Sequences, SequencesExt

CONSTANTS
    Hosts,            \* addresses
    TrustedProxies,   \* those TRUSTED_PROXY_HOSTS covers
    ClientHosts       \* those that clients send from

NoHeader     == "none"             \* CLIENT_IP_HEADER is not configured
ForwardedFor == "x-forwarded-for"
RealIp       == "x-real-ip"        \* a header that holds one address

\* No client sends from an address that is taken for a proxy: with the default
\* TRUSTED_PROXY_HOSTS, none is in a private network.
ASSUME HostAssumption ==
    /\ TrustedProxies \subseteq Hosts /\ ClientHosts \subseteq Hosts
    /\ TrustedProxies \cap ClientHosts = {}

\* host_matches_trusted_proxy
Trusted(host) == host \in TrustedProxies

LeftmostUntrusted(hops) ==
    {hops[i] : i \in {i \in DOMAIN hops :
        ~Trusted(hops[i]) /\ \A j \in 1 .. (i - 1) : Trusted(hops[j])}}

\* client_ip_from_x_forwarded_for: the last hop that is not a proxy, or none.
RightmostUntrusted(hops) ==
    {hops[i] : i \in {i \in DOMAIN hops :
        ~Trusted(hops[i]) /\ \A j \in (i + 1) .. Len(hops) : Trusted(hops[j])}}

\* What the header says of the client: one host or none.
Named(name, header) ==
    IF name = ForwardedFor THEN RightmostUntrusted(header) ELSE {Head(header)}

\* header_trusted and header_present
HeaderTrusted(name, request) ==
    name # NoHeader /\ request.header # <<>> /\ Trusted(request.peer)

\* resolve_client_host(request).host
ResolveClientHost(name, request) ==
    IF HeaderTrusted(name, request) /\ Named(name, request.header) # {}
    THEN CHOOSE host \in Named(name, request.header) : TRUE
    ELSE request.peer

-----------------------------------------------------------------------------
(* The way to the broker: a client connects to it, or to the first of a    *)
(* path of trusted proxies, with a header of its own making.  What the     *)
(* proxies do to the header is not the broker's code.                      *)

\* Every proxy appends the address it was connected from.
Appended(client, path, forged) ==
    forged \o <<client>> \o SubSeq(path, 1, Len(path) - 1)

\* A proxy that overwrites the header; there is one at most.
Overwritten(client) == <<client>>

Received(name, client, path, forged) ==
    IF path = <<>> THEN [peer |-> client, header |-> forged]
    ELSE [peer   |-> path[Len(path)],
          header |-> IF name = ForwardedFor THEN Appended(client, path, forged)
                     ELSE Overwritten(client)]

\* The paths that a deployment using this header supports.
PathsFor(name, paths) ==
    {path \in paths : /\ name = NoHeader => path = <<>>
                      /\ name = RealIp => Len(path) <= 1}
=============================================================================
