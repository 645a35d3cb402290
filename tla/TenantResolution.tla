--------------------------- MODULE TenantResolution ---------------------------
(***************************************************************************)
(* get_configured_tenant: which ResourceSpace an URL that a user types in  *)
(* stands for, and whether the broker will talk to it.                     *)
(*                                                                         *)
(* Parsing is left out: an URL has a scheme, a host as it is spelled, a    *)
(* port or none, and credentials or not.  Canonical is UTS46 and the       *)
(* compressed form of IP literals.  A pattern of an allowlist stands for   *)
(* the hosts it matches.                                                   *)
(***************************************************************************)
EXTENDS Naturals, Sequences, FiniteSets

CONSTANTS
    Spellings,  \* host names as they may be written
    Hosts,      \* their canonical forms, which are spellings too
    Canonical,  \* per spelling, its host or NoHost
    Ports       \* port numbers

NoHost  == "no host"   \* empty, or no valid IDN
NoPort  == 65536       \* the URL names no port
BadPort == 65537       \* a port that is no port number

ASSUME HostsAssumption ==
    /\ Hosts \subseteq Spellings /\ NoHost \notin Hosts
    /\ Canonical \in [Spellings -> Hosts \cup {NoHost}]
    /\ \A host \in Hosts : Canonical[host] = host

ASSUME PortsAssumption == \A port \in Ports : port \in Nat /\ port < NoPort

Url == [scheme : {"http", "https"}, host : Spellings,
        port : Ports \cup {NoPort, BadPort}, credentials : BOOLEAN]

\* A tenant as the registry names it, and as it is resolved: api is the URL that
\* is called.
Tenant == [base : Url, api : Url]

TenantConfig ==
    [mode : {"fixture", "live"}, dev : BOOLEAN,
     tenants : Seq(Tenant), allowedHosts : SUBSET Hosts]

-----------------------------------------------------------------------------

DefaultPort(scheme) == IF scheme = "https" THEN 443 ELSE 80

EffectivePort(url) == IF url.port = NoPort THEN DefaultPort(url.scheme) ELSE url.port

\* _tenant_identity: scheme, host and effective port, or none.
TenantIdentity(url) ==
    IF Canonical[url.host] = NoHost \/ url.port = BadPort THEN {}
    ELSE {<<url.scheme, Canonical[url.host], EffectivePort(url)>>}

SameTenant(url, other) ==
    TenantIdentity(url) # {} /\ TenantIdentity(url) = TenantIdentity(other)

\* The first record of the registry that is the same tenant, or none.
Registered(cfg, url) ==
    {cfg.tenants[i] : i \in {i \in DOMAIN cfg.tenants :
        /\ SameTenant(url, cfg.tenants[i].base)
        /\ \A j \in 1 .. (i - 1) : ~SameTenant(url, cfg.tenants[j].base)}}

\* _reject_private_tenant_sink: public are the hosts that resolve, now, and to
\* no private address.
SinksPublic(cfg, sinks, public, skipFixture) ==
    \/ skipFixture /\ cfg.mode = "fixture"
    \/ \A url \in sinks : Canonical[url.host] \in public

\* _https_origin
HttpsOrigin(host, port) ==
    [scheme |-> "https", host |-> host,
     port |-> IF port = 443 THEN NoPort ELSE port, credentials |-> FALSE]

\* A tenant that is not registered: https, a port that can be used, nothing
\* embedded, and an allowed host, if the operator names any.
DynamicAllowed(cfg, url, public) ==
    /\ cfg.allowedHosts # {} => Canonical[url.host] \in cfg.allowedHosts
    /\ SinksPublic(cfg, {url}, public, cfg.dev)
    /\ TenantIdentity(url) # {}
    /\ url.scheme = "https" /\ EffectivePort(url) # 0 /\ ~url.credentials

\* get_configured_tenant: the tenant, or none if it raises.
GetConfiguredTenant(cfg, url, public) ==
    IF Registered(cfg, url) # {}
    THEN {tenant \in Registered(cfg, url) :
             SinksPublic(cfg, {tenant.base, tenant.api}, public, TRUE)}
    ELSE IF DynamicAllowed(cfg, url, public)
         THEN LET base == HttpsOrigin(Canonical[url.host], EffectivePort(url))
              IN  {[base |-> base, api |-> base]}
         ELSE {}
=============================================================================
