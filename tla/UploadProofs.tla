------------------------------ MODULE UploadProofs ------------------------------
(***************************************************************************)
(* Proofs about uploads, for any number of uploads, addresses, redirects   *)
(* and registered tenants: types, at most one resource per upload, what is *)
(* linked and reported is saved, and every connection is vetted.           *)
(*                                                                         *)
(* First what a vetted connection rests on: get_configured_tenant, for     *)
(* every registry, allowlist and spelling.  How an URL is spelled makes no *)
(* difference, what it resolves to resolves to itself, and a tenant that   *)
(* nobody registered is safe to call.                                      *)
(***************************************************************************)
EXTENDS Upload, FiniteSetTheorems, TLAPS

\* Spellings of one tenant are the same tenant as the same others.
LEMMA SameTenantIsCongruent ==
    ASSUME NEW typed, NEW other, NEW third, SameTenant(typed, other)
    PROVE  SameTenant(typed, third) <=> SameTenant(other, third)
BY DEF SameTenant

\* So the registry finds the same record for them (_find_configured_tenant).
LEMMA RegisteredAgree ==
    ASSUME NEW cfg \in TenantConfig, NEW typed, NEW other, SameTenant(typed, other)
    PROVE  Registered(cfg, typed) = Registered(cfg, other)
<1>1. \A i \in DOMAIN cfg.tenants :
          SameTenant(typed, cfg.tenants[i].base)
              <=> SameTenant(other, cfg.tenants[i].base)
    BY SameTenantIsCongruent
<1>2. \A i \in DOMAIN cfg.tenants : \A j \in 1 .. (i - 1) :
          SameTenant(typed, cfg.tenants[j].base)
              <=> SameTenant(other, cfg.tenants[j].base)
    BY SameTenantIsCongruent
<1> QED BY <1>1, <1>2, Zenon DEF Registered

\* A tenant found in the registry is the tenant asked for, and the only one.
LEMMA RegisteredIsTheTenant ==
    ASSUME NEW cfg \in TenantConfig, NEW typed, NEW tenant \in Registered(cfg, typed)
    PROVE  /\ tenant \in Tenant /\ SameTenant(typed, tenant.base)
           /\ Registered(cfg, typed) = {tenant}
<1> DEFINE First(i) == /\ SameTenant(typed, cfg.tenants[i].base)
                       /\ \A j \in 1 .. (i - 1) : ~SameTenant(typed, cfg.tenants[j].base)
<1>1. cfg.tenants \in Seq(Tenant)
    BY DEF TenantConfig
<1>2. PICK i \in DOMAIN cfg.tenants : First(i) /\ tenant = cfg.tenants[i]
    BY Zenon DEF Registered
<1>3. ASSUME NEW k \in DOMAIN cfg.tenants, First(k)
      PROVE  k = i
    <2>1. i \in Nat \ {0} /\ k \in Nat \ {0}
        BY <1>1
    <2>2. ~(i < k) /\ ~(k < i)
        BY <1>2, <1>3, <2>1
    <2> QED BY <2>1, <2>2
<1>4. \A other \in Registered(cfg, typed) :
          \E k \in DOMAIN cfg.tenants : First(k) /\ other = cfg.tenants[k]
    BY Zenon DEF Registered
<1>5. Registered(cfg, typed) = {tenant}
    BY <1>2, <1>3, <1>4
<1> QED BY <1>1, <1>2, <1>5

\* Every spelling has a canonical host, or is no host's.
LEMMA CanonicalIsHost ==
    \A spelling \in Spellings : Canonical[spelling] \in Hosts \cup {NoHost}
BY HostsAssumption

\* No URL names the port that stands for none.
LEMMA NoPortIsNone == NoPort \notin Ports
BY PortsAssumption DEF NoPort

\* The canonical URL of an https tenant is the tenant (_https_origin).
LEMMA OriginIsTheTenant ==
    ASSUME NEW typed \in Url, TenantIdentity(typed) # {}, typed.scheme = "https"
    PROVE  LET base == HttpsOrigin(Canonical[typed.host], EffectivePort(typed))
           IN  /\ base \in Url /\ SameTenant(typed, base)
               /\ Canonical[base.host] = Canonical[typed.host]
               /\ EffectivePort(base) = EffectivePort(typed)
<1> DEFINE canonical == Canonical[typed.host]
           base == HttpsOrigin(canonical, EffectivePort(typed))
<1>1. /\ typed.host \in Spellings /\ canonical \in Hosts
      /\ typed.port \in Ports \cup {NoPort} /\ typed.port # BadPort
    <2>1. canonical # NoHost /\ typed.port # BadPort
        BY DEF TenantIdentity
    <2>2. typed.host \in Spellings /\ typed.port \in Ports \cup {NoPort, BadPort}
        BY Zenon DEF Url
    <2>3. Canonical[typed.host] \in Hosts \cup {NoHost}
        BY <2>2, CanonicalIsHost
    <2> QED BY <2>1, <2>2, <2>3
<1>2. canonical \in Spellings /\ Canonical[canonical] = canonical /\ canonical # NoHost
    BY <1>1, HostsAssumption
<1>3. EffectivePort(typed) = IF typed.port = NoPort THEN 443 ELSE typed.port
    BY DEF EffectivePort, DefaultPort
<1>4. base = [scheme |-> "https", host |-> canonical,
              port |-> IF EffectivePort(typed) = 443 THEN NoPort ELSE EffectivePort(typed),
              credentials |-> FALSE]
    BY DEF HttpsOrigin
<1>5. base.port \in Ports \cup {NoPort} /\ base.port # BadPort
    BY <1>1, <1>3, <1>4 DEF NoPort, BadPort
<1>6. EffectivePort(base) = EffectivePort(typed)
    <2>1. EffectivePort(base) = IF base.port = NoPort THEN 443 ELSE base.port
        <3>1. base.scheme = "https"
            BY <1>4
        <3> HIDE DEF base
        <3> QED BY <3>1, Zenon DEF EffectivePort, DefaultPort
    <2>2. base.port = IF EffectivePort(typed) = 443 THEN NoPort ELSE EffectivePort(typed)
        BY <1>4
    <2>3. EffectivePort(typed) # NoPort
        <3>1. NoPort # 443
            BY DEF NoPort
        <3> QED BY <1>1, <1>3, <3>1, NoPortIsNone
    <2> QED BY <2>1, <2>2, <2>3
<1>7. base \in Url
    BY <1>2, <1>4, <1>5 DEF Url
<1>8. base.host = canonical /\ base.scheme = "https"
    BY <1>4
<1> HIDE DEF base
<1>9. TenantIdentity(base) = TenantIdentity(typed)
    BY <1>1, <1>2, <1>5, <1>6, <1>8 DEF TenantIdentity
<1>10. SameTenant(typed, base)
    BY <1>9 DEF SameTenant
<1> QED BY <1>2, <1>6, <1>7, <1>8, <1>10 DEF base

\* However two URLs spell one tenant - case, IDN, a default port written out -
\* get_configured_tenant gives both the same answer, whatever the registry, the
\* allowlists and the environment: no user is shut out, let in or sent elsewhere
\* for a spelling.
THEOREM SpellingsAgree ==
    ASSUME NEW cfg \in TenantConfig, NEW public \in SUBSET Hosts,
           NEW typed \in Url, NEW other \in Url,
           SameTenant(typed, other), typed.credentials = other.credentials
    PROVE  GetConfiguredTenant(cfg, typed, public) = GetConfiguredTenant(cfg, other, public)
<1>1. Registered(cfg, typed) = Registered(cfg, other)
    BY RegisteredAgree
<1>2. /\ TenantIdentity(typed) # {} /\ TenantIdentity(other) # {}
      /\ typed.scheme = other.scheme /\ Canonical[typed.host] = Canonical[other.host]
      /\ EffectivePort(typed) = EffectivePort(other)
    BY DEF SameTenant, TenantIdentity
<1>3. SinksPublic(cfg, {typed}, public, cfg.dev) <=> SinksPublic(cfg, {other}, public, cfg.dev)
    BY <1>2 DEF SinksPublic
<1>4. DynamicAllowed(cfg, typed, public) <=> DynamicAllowed(cfg, other, public)
    BY <1>2, <1>3 DEF DynamicAllowed
<1> QED BY <1>1, <1>2, <1>4, Zenon DEF GetConfiguredTenant

\* What a session is bound to when its user signs in - the tenant's base URL -
\* is resolved to that same tenant again for every later request
\* (require_user_session), as long as configuration and look-ups stay.
THEOREM ResolvedIsStable ==
    ASSUME NEW cfg \in TenantConfig, NEW public \in SUBSET Hosts, NEW typed \in Url,
           NEW tenant \in GetConfiguredTenant(cfg, typed, public)
    PROVE  GetConfiguredTenant(cfg, tenant.base, public) = {tenant}
<1>1. CASE Registered(cfg, typed) # {}
    <2>1. /\ tenant \in Registered(cfg, typed)
          /\ SinksPublic(cfg, {tenant.base, tenant.api}, public, TRUE)
        BY <1>1, Zenon DEF GetConfiguredTenant
    <2>2. SameTenant(typed, tenant.base) /\ Registered(cfg, typed) = {tenant}
        BY <2>1, RegisteredIsTheTenant
    <2>3. Registered(cfg, tenant.base) = {tenant}
        BY <2>2, RegisteredAgree
    <2> QED BY <2>1, <2>3 DEF GetConfiguredTenant
<1>2. CASE Registered(cfg, typed) = {}
    <2> DEFINE base == HttpsOrigin(Canonical[typed.host], EffectivePort(typed))
    <2>1. DynamicAllowed(cfg, typed, public) /\ tenant = [base |-> base, api |-> base]
        BY <1>2 DEF GetConfiguredTenant
    <2>2. TenantIdentity(typed) # {} /\ typed.scheme = "https" /\ EffectivePort(typed) # 0
        BY <2>1 DEF DynamicAllowed
    <2>3. /\ base \in Url /\ SameTenant(typed, base)
          /\ Canonical[base.host] = Canonical[typed.host]
          /\ EffectivePort(base) = EffectivePort(typed)
        BY <2>2, OriginIsTheTenant
    <2>4. base.scheme = "https" /\ ~base.credentials
        BY DEF HttpsOrigin
    <2>5. tenant.base = base /\ HttpsOrigin(Canonical[base.host], EffectivePort(base)) = base
        BY <2>1, <2>3
    <2> HIDE DEF base
    <2>6. Registered(cfg, base) = {}
        BY <1>2, <2>3, RegisteredAgree
    <2>7. SinksPublic(cfg, {base}, public, cfg.dev)
        BY <2>1, <2>3 DEF DynamicAllowed, SinksPublic
    <2>8. TenantIdentity(base) # {}
        BY <2>3 DEF SameTenant
    <2>9. DynamicAllowed(cfg, base, public)
        BY <2>1, <2>2, <2>3, <2>4, <2>7, <2>8 DEF DynamicAllowed
    <2> QED BY <2>1, <2>5, <2>6, <2>9 DEF GetConfiguredTenant
<1> QED BY <1>1, <1>2

\* A tenant that no operator registered is called over https, at the host the
\* user named, without credentials in the URL, and outside development only if
\* that host resolves to nothing private and the allowlist, if any, has it.
THEOREM DynamicTenantsAreSafe ==
    ASSUME NEW cfg \in TenantConfig, NEW public \in SUBSET Hosts, NEW typed \in Url,
           NEW tenant \in GetConfiguredTenant(cfg, typed, public),
           \A i \in DOMAIN cfg.tenants : cfg.tenants[i] # tenant
    PROVE  /\ tenant.api = tenant.base
           /\ SameTenant(typed, tenant.api)
           /\ tenant.api.scheme = "https" /\ ~tenant.api.credentials
           /\ ~cfg.dev => tenant.api.host \in public
           /\ cfg.allowedHosts # {} => tenant.api.host \in cfg.allowedHosts
<1> DEFINE base == HttpsOrigin(Canonical[typed.host], EffectivePort(typed))
<1>1. \A other \in Registered(cfg, typed) :
          \E i \in DOMAIN cfg.tenants : other = cfg.tenants[i]
    BY Zenon DEF Registered
<1>2. tenant \notin Registered(cfg, typed)
    BY <1>1, Zenon
<1>3. DynamicAllowed(cfg, typed, public) /\ tenant = [base |-> base, api |-> base]
    <2>1. Registered(cfg, typed) = {}
        BY <1>2, Zenon DEF GetConfiguredTenant
    <2> QED BY <2>1 DEF GetConfiguredTenant
<1>4. SameTenant(typed, base)
    BY <1>3, OriginIsTheTenant DEF DynamicAllowed
<1>5. tenant.api = base /\ tenant.base = base
    BY <1>3
<1>6. base.host = Canonical[typed.host] /\ base.scheme = "https" /\ ~base.credentials
    BY DEF HttpsOrigin
<1> HIDE DEF base
<1>7. /\ ~cfg.dev => Canonical[typed.host] \in public
      /\ cfg.allowedHosts # {} => Canonical[typed.host] \in cfg.allowedHosts
    BY <1>3 DEF DynamicAllowed, SinksPublic
<1> QED BY <1>4, <1>5, <1>6, <1>7

-----------------------------------------------------------------------------

\* Resources are numbered without a gap, so that the next number is new, and
\* each was created by an upload of its own: the one that is about to create
\* one has none.
NumberedInv ==
    /\ \E n \in Nat : DOMAIN resources = 1 .. n /\ n <= uploads
    /\ step = "create" =>
           \E n \in Nat : DOMAIN resources = 1 .. n /\ n < uploads

\* Once its resource is created an upload knows it, and once it is past storing
\* the file, the file is stored or its loss was tolerated.
SagaInv ==
    /\ step \notin {"idle", "create"} => ref \in DOMAIN resources
    /\ step \in {"render", "preview", "title", "link"} =>
           resources[ref].file \/ ref \in tolerated
    /\ LinkedIsSaved

\* Addresses are held only for the call for which they were looked up, and a
\* download is under way only to where it may go.
ConnectionInv ==
    /\ pinned \cup peer # {} =>
           step \in Calls /\ pinned \cup peer \subseteq PublicAddresses /\ HttpsUrl(Target)
    /\ step = "fetch" => ExportAllowed(url)

UploadInv == TypeOK /\ NumberedInv /\ SagaInv /\ ConnectionInv

-----------------------------------------------------------------------------
(* What the calls do to ResourceSpace. *)

Resource == [file : BOOLEAN, title : BOOLEAN, linked : BOOLEAN]

\* What a call may do, whether or not it is answered: it creates the next
\* resource or changes the upload's own, never stores less, and links only in
\* the last step.
Grown(after) ==
    /\ after \in [DOMAIN after -> Resource]
    /\ IF step = "create" /\ after # resources
       THEN DOMAIN after = DOMAIN resources \cup {New} /\ ~after[New].linked
       ELSE DOMAIN after = DOMAIN resources
    /\ \A r \in DOMAIN resources :
          /\ resources[r].file => after[r].file
          /\ resources[r].linked => after[r].linked
          /\ after[r].linked => resources[r].linked \/ (step = "link" /\ r = ref)

\* The next number is new.
LEMMA NewIsNext ==
    ASSUME NEW n \in Nat, DOMAIN resources = 1 .. n
    PROVE  /\ New = n + 1 /\ Cardinality(DOMAIN resources) = n
           /\ New \notin DOMAIN resources
           /\ DOMAIN resources \cup {New} = 1 .. (n + 1)
<1>1. Cardinality(1 .. n) = n
    BY FS_Interval
<1>2. New = n + 1
    BY <1>1 DEF New
<1> QED BY <1>1, <1>2

\* Nothing is lost by creating a resource.
LEMMA CreateGrows ==
    ASSUME TypeOK, NumberedInv, step = "create"
    PROVE  Grown(Create)
<1>1. PICK n \in Nat : DOMAIN resources = 1 .. n
    BY DEF NumberedInv
<1>2. New \notin DOMAIN resources
    BY <1>1, NewIsNext
<1>3. DOMAIN Create = DOMAIN resources \cup {New}
    BY DEF Create
<1>4. /\ Create[New] = [file |-> FALSE, title |-> FALSE, linked |-> FALSE]
      /\ \A r \in DOMAIN resources : Create[r] = resources[r]
    BY <1>2 DEF Create
<1>5. \A r \in DOMAIN resources : resources[r] \in Resource
    BY DEF TypeOK, Resource
<1>6. \A r \in DOMAIN Create : Create[r] \in Resource
    <2>1. [file |-> FALSE, title |-> FALSE, linked |-> FALSE] \in Resource
        BY DEF Resource
    <2> QED BY <1>3, <1>4, <1>5, <2>1, Zenon
<1>7. Create \in [DOMAIN Create -> Resource]
    <2>1. Create = [r \in DOMAIN resources \cup {New} |-> Create[r]]
        BY DEF Create
    <2> HIDE DEF Create
    <2> QED BY <1>3, <1>6, <2>1, Zenon
<1>8. Create # resources
    BY <1>2, <1>3
<1> QED BY <1>3, <1>4, <1>7, <1>8 DEF Grown

\* Nor by the other calls.
LEMMA EffectGrows ==
    ASSUME TypeOK, NumberedInv, NEW after \in {resources, Effect}
    PROVE  Grown(after)
<1>1. resources \in [DOMAIN resources -> Resource]
    BY DEF TypeOK, Resource
<1>2. CASE after = resources
    BY <1>1, <1>2 DEF Grown
<1>3. CASE step = "create" /\ after = Effect
    BY <1>3, CreateGrows DEF Effect
<1>4. CASE step = "store" /\ after = Effect
    <2>1. after = [resources EXCEPT ![ref].file = TRUE]
        BY <1>4 DEF Effect
    <2> QED BY <1>1, <1>4, <2>1 DEF Grown, Resource
<1>5. CASE step = "title" /\ after = Effect
    <2>1. after = [resources EXCEPT ![ref].title = TRUE]
        BY <1>5 DEF Effect
    <2> QED BY <1>1, <1>5, <2>1 DEF Grown, Resource
<1>6. CASE step = "link" /\ after = Effect
    <2>1. after = [resources EXCEPT ![ref].linked = TRUE]
        BY <1>6 DEF Effect
    <2> QED BY <1>1, <1>6, <2>1 DEF Grown, Resource
<1>7. CASE step \notin {"create", "store", "title", "link"} /\ after = Effect
    <2>1. after = resources
        BY <1>7 DEF Effect
    <2> QED BY <1>2, <2>1
<1> QED BY <1>2, <1>3, <1>4, <1>5, <1>6, <1>7

\* An upload that gives up a call fails, or goes on without a preview.
LEMMA GivingUp ==
    ASSUME GiveUp
    PROVE  /\ pinned' = {} /\ peer' = {}
           /\ step' = "idle" \/ (step = "preview" /\ step' \in {"title", "link"})
BY DEF GiveUp, Fail, GoTo, AfterPreview

-----------------------------------------------------------------------------
(* Types. *)

\* What a session is bound to is an URL.
LEMMA ResolvedIsTenant ==
    ASSUME NEW cfg \in TenantConfig, NEW typed \in Url, NEW public \in SUBSET Hosts,
           NEW tenant \in GetConfiguredTenant(cfg, typed, public)
    PROVE  tenant.api \in Url
<1>1. CASE Registered(cfg, typed) # {}
    <2>1. tenant \in Registered(cfg, typed)
        BY <1>1, Zenon DEF GetConfiguredTenant
    <2>2. tenant \in Tenant
        BY <2>1, RegisteredIsTheTenant
    <2> QED BY <2>2 DEF Tenant
<1>2. CASE Registered(cfg, typed) = {}
    <2> DEFINE base == HttpsOrigin(Canonical[typed.host], EffectivePort(typed))
    <2>1. DynamicAllowed(cfg, typed, public) /\ tenant = [base |-> base, api |-> base]
        BY <1>2 DEF GetConfiguredTenant
    <2>2. base \in Url
        BY <2>1, OriginIsTheTenant DEF DynamicAllowed
    <2> QED BY <2>1, <2>2
<1> QED BY <1>1, <1>2

LEMMA InitInv == Init => UploadInv
<1> SUFFICES ASSUME Init PROVE UploadInv
    OBVIOUS
<1>1. api \in Url
    <2>1. PICK cfg \in Configs, typed \in TypedUrls, public \in SUBSET Hosts :
              \E tenant \in GetConfiguredTenant(cfg, typed, public) : api = tenant.api
        BY Zenon DEF Init
    <2> QED BY <2>1, ResolvedIsTenant, UploadAssumption
<1>2. DOMAIN resources = {} /\ resources = [r \in {} |-> r]
    BY DEF Init
<1>3. TypeOK
    <2>1. resources \in [DOMAIN resources ->
                             [file : BOOLEAN, title : BOOLEAN, linked : BOOLEAN]]
        BY <1>2
    <2>2. /\ step = "idle" /\ pinned = {} /\ peer = {} /\ ref = 0 /\ titled = FALSE
          /\ url \in ExportUrls /\ redirects = 0
          /\ uploads = 0 /\ tolerated = {} /\ replies = {}
        BY DEF Init
    <2>3. redirects \in 0 .. MaxRedirects /\ uploads \in 0 .. MaxUploads
        BY <2>2, UploadAssumption
    <2> QED BY <1>1, <1>2, <2>1, <2>2, <2>3 DEF TypeOK
<1>4. NumberedInv
    <2>1. DOMAIN resources = 1 .. 0
        BY <1>2
    <2> QED BY <2>1 DEF Init, NumberedInv
<1>5. SagaInv /\ ConnectionInv
    BY <1>2 DEF Init, SagaInv, LinkedIsSaved, ConnectionInv
<1> QED BY <1>3, <1>4, <1>5 DEF UploadInv

\* ResourceSpace after a call is of the type it was.
LEMMA GrownType ==
    ASSUME TypeOK, NumberedInv, NEW after, Grown(after)
    PROVE  /\ DOMAIN resources \subseteq DOMAIN after /\ DOMAIN after \subseteq Refs
           /\ after \in [DOMAIN after -> [file : BOOLEAN, title : BOOLEAN, linked : BOOLEAN]]
<1>1. PICK n \in Nat : DOMAIN resources = 1 .. n
    BY DEF NumberedInv
<1>2. New \in Refs
    BY <1>1, NewIsNext DEF Refs
<1> QED BY <1>2 DEF Grown, TypeOK, Resource

LEMMA TypeStep == TypeOK /\ NumberedInv /\ SagaInv /\ [Next]_vars => TypeOK'
<1> SUFFICES ASSUME TypeOK, NumberedInv, SagaInv, [Next]_vars
             PROVE  TypeOK'
    OBVIOUS
<1> USE DEF TypeOK, Calls, GoTo, history
<1>1. CASE Pin
    BY <1>1 DEF Pin, PublicAnswer
<1>2. CASE PinRefused
    BY <1>2, GivingUp DEF PinRefused
<1>3. ASSUME NEW address \in Addresses, Connect(address)
      PROVE  TypeOK'
    BY <1>3 DEF Connect
<1>4. ASSUME NEW address \in Addresses, Unreachable(address)
      PROVE  TypeOK'
    BY <1>4, GivingUp DEF Unreachable
<1>5. CASE Lost
    <2>1. Grown(resources')
        BY <1>5, EffectGrows DEF Lost
    <2> QED BY <1>5, <2>1, GrownType, GivingUp DEF Lost
<1>6. CASE Refused
    BY <1>6 DEF Refused, Fail
<1>7. CASE Created
    <2>1. Grown(resources') /\ New \in DOMAIN resources'
        BY <1>7, CreateGrows DEF Created, Answered, Create
    <2> QED BY <1>7, <2>1, GrownType DEF Created
<1>8. CASE ValidateHop \/ RefuseHop
    BY <1>8 DEF ValidateHop, RefuseHop, Fail
<1>9. CASE FollowRedirect
    BY <1>9, UploadAssumption DEF FollowRedirect
<1>10. CASE Downloaded
    BY <1>10 DEF Downloaded
<1>11. CASE Stored
    <2>1. Grown(resources')
        BY <1>11, EffectGrows DEF Stored
    <2> QED BY <1>11, <2>1, GrownType DEF Stored
<1>12. CASE StoredWithError
    <2>1. Grown(resources') /\ ref \in DOMAIN resources
        BY <1>12, EffectGrows DEF StoredWithError, Answered, SagaInv
    <2> QED BY <1>12, <2>1, GrownType DEF StoredWithError
<1>13. CASE RenderPreview \/ PreviewAnswered
    BY <1>13 DEF RenderPreview, PreviewAnswered, AfterPreview
<1>14. CASE TitleAnswered
    <2>1. Grown(resources')
        BY <1>14, EffectGrows DEF TitleAnswered
    <2> QED BY <1>14, <2>1, GrownType DEF TitleAnswered
<1>15. CASE Linked
    <2>1. Grown(resources') /\ ref \in DOMAIN resources
        BY <1>15, EffectGrows DEF Linked, Answered, SagaInv
    <2> QED BY <1>15, <2>1, GrownType DEF Linked
<1>16. CASE BeginUpload
    BY <1>16, UploadAssumption DEF BeginUpload
<1>17. CASE Kill
    BY <1>17 DEF Kill, Fail
<1>18. CASE UNCHANGED vars
    BY <1>18 DEF vars, saga
<1> QED BY <1>1, <1>2, <1>3, <1>4, <1>5, <1>6, <1>7, <1>8, <1>9, <1>10, <1>11,
           <1>12, <1>13, <1>14, <1>15, <1>16, <1>17, <1>18 DEF Next, Progress

-----------------------------------------------------------------------------
(* Numbers. *)

\* A step that creates no resource and does not begin to leaves the count as it
\* is, and a step that creates one is the last of its upload that may.
LEMMA NumberedKept ==
    ASSUME TypeOK, NumberedInv, uploads' = uploads,
           \/ DOMAIN resources' = DOMAIN resources /\ step' # "create"
           \/ DOMAIN resources' = DOMAIN resources /\ step' = step
           \/ /\ step = "create" /\ step' # "create"
              /\ DOMAIN resources' = DOMAIN resources \cup {New}
    PROVE  NumberedInv'
<1>1. CASE /\ step = "create" /\ step' # "create"
           /\ DOMAIN resources' = DOMAIN resources \cup {New}
    <2>1. PICK n \in Nat : DOMAIN resources = 1 .. n /\ n < uploads
        BY <1>1 DEF NumberedInv
    <2>2. DOMAIN resources' = 1 .. (n + 1)
        BY <1>1, <2>1, NewIsNext
    <2>3. n + 1 \in Nat /\ n + 1 <= uploads'
        BY <2>1 DEF TypeOK
    <2> QED BY <1>1, <2>2, <2>3 DEF NumberedInv
<1>2. CASE DOMAIN resources' = DOMAIN resources /\ (step' # "create" \/ step' = step)
    BY <1>2 DEF NumberedInv
<1> QED BY <1>1, <1>2

LEMMA NumberedStep == TypeOK /\ NumberedInv /\ [Next]_vars => NumberedInv'
<1> SUFFICES ASSUME TypeOK, NumberedInv, [Next]_vars PROVE NumberedInv'
    OBVIOUS
<1> USE DEF GoTo, history
<1>1. CASE Pin
    BY <1>1, NumberedKept DEF Pin
<1>2. CASE PinRefused
    BY <1>2, GivingUp, NumberedKept DEF PinRefused
<1>3. ASSUME NEW address \in Addresses, Connect(address)
      PROVE  NumberedInv'
    BY <1>3, NumberedKept DEF Connect
<1>4. ASSUME NEW address \in Addresses, Unreachable(address)
      PROVE  NumberedInv'
    BY <1>4, GivingUp, NumberedKept DEF Unreachable
<1>5. CASE Lost \/ Stored \/ StoredWithError \/ TitleAnswered \/ Linked
    <2>1. Grown(resources') /\ uploads' = uploads /\ step' # "create"
        BY <1>5, EffectGrows, GivingUp
        DEF Lost, Stored, StoredWithError, TitleAnswered, Linked
    <2>2. \/ DOMAIN resources' = DOMAIN resources
          \/ step = "create" /\ DOMAIN resources' = DOMAIN resources \cup {New}
        BY <2>1 DEF Grown
    <2> QED BY <2>1, <2>2, NumberedKept
<1>6. CASE Created
    <2>1. step = "create" /\ uploads' = uploads /\ step' # "create"
        BY <1>6 DEF Created, Answered
    <2>2. DOMAIN resources' = DOMAIN resources \cup {New}
        BY <1>6 DEF Created, Create
    <2> QED BY <2>1, <2>2, NumberedKept
<1>7. CASE Refused \/ ValidateHop \/ RefuseHop \/ FollowRedirect \/ Downloaded
           \/ RenderPreview \/ PreviewAnswered \/ Kill
    <2>1. resources' = resources /\ uploads' = uploads /\ step' # "create"
        BY <1>7 DEF Refused, ValidateHop, RefuseHop, FollowRedirect, Downloaded,
                    RenderPreview, PreviewAnswered, Kill, Fail, AfterPreview
    <2> QED BY <2>1, NumberedKept
<1>8. CASE BeginUpload
    <2>1. PICK n \in Nat : DOMAIN resources = 1 .. n /\ n <= uploads
        BY DEF NumberedInv
    <2>2. resources' = resources /\ uploads' = uploads + 1
        BY <1>8 DEF BeginUpload
    <2>3. n < uploads' /\ n <= uploads'
        BY <2>1, <2>2 DEF TypeOK
    <2> QED BY <2>1, <2>2, <2>3 DEF NumberedInv
<1>9. CASE UNCHANGED vars
    BY <1>9 DEF vars, saga, NumberedInv
<1> QED BY <1>1, <1>2, <1>3, <1>4, <1>5, <1>6, <1>7, <1>8, <1>9
        DEF Next, Progress

-----------------------------------------------------------------------------
(* What is saved. *)

\* A call keeps what was saved; the last one may link the upload's resource,
\* whose file is stored or tolerated.
LEMMA LinkedIsSavedKept ==
    ASSUME TypeOK, NumberedInv, SagaInv, Grown(resources'), tolerated \subseteq tolerated',
           replies' = replies
    PROVE  LinkedIsSaved'
<1>1. ASSUME NEW r \in DOMAIN resources', resources'[r].linked
      PROVE  resources'[r].file \/ r \in tolerated'
    <2>1. CASE r \in DOMAIN resources
        <3>1. resources[r].linked \/ (step = "link" /\ r = ref)
            BY <1>1, <2>1 DEF Grown
        <3>2. resources[r].file \/ r \in tolerated
            BY <2>1, <3>1 DEF SagaInv, LinkedIsSaved
        <3> QED BY <2>1, <3>2 DEF Grown
    <2>2. CASE r \notin DOMAIN resources
        <3>1. r = New /\ ~resources'[New].linked
            BY <2>2 DEF Grown
        <3> QED BY <1>1, <3>1
    <2> QED BY <2>1, <2>2
<1>2. \A r \in replies' : resources'[r].linked
    <2>1. \A r \in replies : r \in DOMAIN resources /\ resources[r].linked
        BY DEF TypeOK, SagaInv, LinkedIsSaved
    <2> QED BY <2>1 DEF Grown
<1> QED BY <1>1, <1>2 DEF LinkedIsSaved

LEMMA SagaStep == TypeOK /\ NumberedInv /\ SagaInv /\ [Next]_vars => SagaInv'
<1> SUFFICES ASSUME TypeOK, NumberedInv, SagaInv, [Next]_vars PROVE SagaInv'
    OBVIOUS
<1> USE DEF GoTo, history
<1>1. CASE Pin
    BY <1>1 DEF Pin, SagaInv, LinkedIsSaved
<1>2. CASE PinRefused
    <2>1. step' = "idle" \/ (step = "preview" /\ step' \in {"title", "link"})
        BY <1>2, GivingUp DEF PinRefused
    <2> QED BY <1>2, <2>1 DEF PinRefused, SagaInv, LinkedIsSaved
<1>3. ASSUME NEW address \in Addresses, Connect(address)
      PROVE  SagaInv'
    BY <1>3 DEF Connect, SagaInv, LinkedIsSaved
<1>4. ASSUME NEW address \in Addresses, Unreachable(address)
      PROVE  SagaInv'
    <2>1. step' \in {step, "idle"} \/ (step = "preview" /\ step' \in {"title", "link"})
        BY <1>4, GivingUp DEF Unreachable
    <2> QED BY <1>4, <2>1 DEF Unreachable, SagaInv, LinkedIsSaved
<1>5. CASE Lost
    <2>1. Grown(resources') /\ ref' = ref /\ tolerated' = tolerated /\ replies' = replies
        BY <1>5, EffectGrows DEF Lost
    <2>2. step' = "idle" \/ (step = "preview" /\ step' \in {"title", "link"})
        BY <1>5, GivingUp DEF Lost
    <2>3. LinkedIsSaved'
        BY <2>1, LinkedIsSavedKept
    <2> QED BY <2>1, <2>2, <2>3 DEF SagaInv, Grown
<1>6. CASE Created
    <2>1. Grown(resources') /\ tolerated' = tolerated /\ replies' = replies
        BY <1>6, CreateGrows DEF Created, Answered
    <2>2. step' = "validate" /\ ref' \in DOMAIN resources'
        BY <1>6 DEF Created, Create
    <2>3. LinkedIsSaved'
        BY <2>1, LinkedIsSavedKept
    <2> QED BY <2>2, <2>3 DEF SagaInv
<1>7. CASE Stored \/ StoredWithError
    <2>1. /\ Grown(resources') /\ ref' = ref /\ step = "store" /\ step' = "render"
          /\ tolerated \subseteq tolerated' /\ replies' = replies
        BY <1>7, EffectGrows DEF Stored, StoredWithError, Answered
    <2>2. ref' \in DOMAIN resources'
        BY <2>1 DEF SagaInv, Grown
    <2>3. resources'[ref].file \/ ref \in tolerated'
        <3>1. CASE StoredWithError
            BY <3>1 DEF StoredWithError
        <3>2. CASE Stored
            <4>1. resources' = [resources EXCEPT ![ref].file = TRUE]
                BY <2>1, <3>2 DEF Stored, Effect
            <4>2. ref \in DOMAIN resources /\ resources[ref] \in Resource
                BY <2>1 DEF SagaInv, TypeOK, Resource
            <4> QED BY <4>1, <4>2 DEF Resource
        <3> QED BY <1>7, <3>1, <3>2
    <2>4. LinkedIsSaved'
        BY <2>1, LinkedIsSavedKept
    <2> QED BY <2>1, <2>2, <2>3, <2>4 DEF SagaInv
<1>8. CASE TitleAnswered
    <2>1. /\ Grown(resources') /\ ref' = ref /\ tolerated' = tolerated
          /\ replies' = replies /\ step = "title" /\ step' = "link"
        BY <1>8, EffectGrows DEF TitleAnswered, Answered
    <2>2. LinkedIsSaved'
        BY <2>1, LinkedIsSavedKept
    <2> QED BY <2>1, <2>2 DEF SagaInv, Grown
<1>9. CASE Linked
    <2>1. /\ resources' = [resources EXCEPT ![ref].linked = TRUE]
          /\ ref \in DOMAIN resources /\ resources[ref] \in Resource
          /\ step' = "idle" /\ tolerated' = tolerated /\ replies' = replies \cup {ref}
        BY <1>9 DEF Linked, Answered, Effect, SagaInv, TypeOK, Resource
    <2>2. resources[ref].file \/ ref \in tolerated
        BY <1>9 DEF Linked, Answered, SagaInv
    <2>3. /\ DOMAIN resources' = DOMAIN resources
          /\ resources'[ref].linked /\ resources'[ref].file = resources[ref].file
          /\ \A r \in DOMAIN resources \ {ref} : resources'[r] = resources[r]
        BY <2>1 DEF Resource
    <2>4. replies \subseteq DOMAIN resources
        BY DEF TypeOK
    <2> QED BY <2>1, <2>2, <2>3, <2>4 DEF SagaInv, LinkedIsSaved
<1>10. CASE ValidateHop \/ FollowRedirect \/ Downloaded \/ RenderPreview \/ PreviewAnswered
    <2>1. /\ resources' = resources /\ ref' = ref /\ tolerated' = tolerated
          /\ replies' = replies
          /\ step \notin {"idle", "create"}
          /\ \/ step' \in {"validate", "fetch", "store"}
             \/ /\ step \in {"render", "preview"}
                /\ step' \in {"preview", "title", "link"}
        <3>1. CASE ValidateHop
            BY <3>1 DEF ValidateHop
        <3>2. CASE FollowRedirect \/ Downloaded
            BY <3>2 DEF FollowRedirect, Downloaded, Answered
        <3>3. CASE RenderPreview \/ PreviewAnswered
            BY <3>3 DEF RenderPreview, PreviewAnswered, Answered, AfterPreview
        <3> QED BY <1>10, <3>1, <3>2, <3>3
    <2> QED BY <2>1 DEF SagaInv, LinkedIsSaved
<1>11. CASE Refused \/ RefuseHop \/ Kill \/ BeginUpload
    <2>1. /\ resources' = resources /\ tolerated' = tolerated /\ replies' = replies
          /\ step' \in {"idle", "create"}
        BY <1>11 DEF Refused, RefuseHop, Kill, BeginUpload, Fail
    <2> QED BY <2>1 DEF SagaInv, LinkedIsSaved
<1>12. CASE UNCHANGED vars
    BY <1>12 DEF vars, saga, SagaInv, LinkedIsSaved
<1> QED BY <1>1, <1>2, <1>3, <1>4, <1>5, <1>6, <1>7, <1>8, <1>9, <1>10, <1>11, <1>12
        DEF Next, Progress

-----------------------------------------------------------------------------
(* Connections. *)

LEMMA ConnectionStep == TypeOK /\ ConnectionInv /\ [Next]_vars => ConnectionInv'
<1> SUFFICES ASSUME TypeOK, ConnectionInv, [Next]_vars PROVE ConnectionInv'
    OBVIOUS
<1> USE DEF ConnectionInv
<1>1. CASE Pin
    BY <1>1 DEF Pin, PublicAnswer, Target
<1>2. ASSUME NEW address \in Addresses, Connect(address)
      PROVE  ConnectionInv'
    BY <1>2 DEF Connect, Target
<1>3. ASSUME NEW address \in Addresses, Unreachable(address)
      PROVE  ConnectionInv'
    <2>1. CASE pinned = {address}
        BY <1>3, <2>1, GivingUp DEF Unreachable
    <2>2. CASE pinned # {address}
        BY <1>3, <2>2 DEF Unreachable, Target
    <2> QED BY <2>1, <2>2
<1>4. CASE PinRefused \/ Lost
    BY <1>4, GivingUp DEF PinRefused, Lost
<1>5. CASE ValidateHop
    <2>1. pinned' = {} /\ peer' = {} /\ ExportAllowed(url) /\ url' = url
        BY <1>5 DEF ValidateHop, GoTo
    <2> QED BY <2>1 DEF ExportAllowed, HttpsUrl
<1>6. CASE Refused \/ Created \/ RefuseHop \/ FollowRedirect \/ Downloaded \/ Stored
           \/ StoredWithError \/ RenderPreview \/ PreviewAnswered \/ TitleAnswered
           \/ Linked \/ BeginUpload \/ Kill
    <2>1. pinned' = {} /\ peer' = {} /\ step' # "fetch"
        BY <1>6 DEF Refused, Created, RefuseHop, FollowRedirect, Downloaded, Stored,
                    StoredWithError, RenderPreview, PreviewAnswered, TitleAnswered,
                    Linked, BeginUpload, Kill, GoTo, Fail, AfterPreview
    <2> QED BY <2>1
<1>7. CASE UNCHANGED vars
    BY <1>7 DEF vars, saga, Target, ExportAllowed, HttpsUrl
<1> QED BY <1>1, <1>2, <1>3, <1>4, <1>5, <1>6, <1>7 DEF Next, Progress

-----------------------------------------------------------------------------
(* Theorems. *)

\* Every reachable state satisfies the inductive invariant.
THEOREM Invariance == Spec => []UploadInv
<1>1. UploadInv /\ [Next]_vars => UploadInv'
    BY TypeStep, NumberedStep, SagaStep, ConnectionStep DEF UploadInv
<1> QED BY InitInv, <1>1, PTL DEF Spec

\* The saga's state is of its type: an upload refers to a resource that was
\* created, and nothing is recorded of resources that do not exist.
THEOREM TypeCorrect == Spec => []TypeOK
<1>1. UploadInv => TypeOK
    BY DEF UploadInv
<1> QED BY Invariance, <1>1, PTL

\* An upload (upload_to_resourcespace) creates at most one resource, however
\* many addresses its calls try and whatever becomes of the calls.
THEOREM NothingIsCreatedTwice == Spec => []OneResourcePerUpload
<1>1. UploadInv => OneResourcePerUpload
    <2>1. ASSUME UploadInv
          PROVE  OneResourcePerUpload
        <3>1. PICK n \in Nat : DOMAIN resources = 1 .. n /\ n <= uploads
            BY <2>1 DEF UploadInv, NumberedInv
        <3> QED BY <3>1, NewIsNext DEF OneResourcePerUpload
    <2> QED BY <2>1
<1> QED BY Invariance, <1>1, PTL

\* Whatever is lost, refused or killed on the way, what is in the collection has
\* its file, or lost it to a tolerated error, and what the client was told is
\* saved is in the collection.
THEOREM WhatIsLinkedIsSaved == Spec => []LinkedIsSaved
<1>1. UploadInv => LinkedIsSaved
    BY DEF UploadInv, SagaInv
<1> QED BY Invariance, <1>1, PTL

\* Whatever exports and redirects name and whatever look-ups say from one to the
\* next, no connection is tried that was not vetted (pin_request,
\* _validate_export_url).
THEOREM ConnectionsAreVetted == Spec => []EveryConnectionIsVetted
<1>1. UploadInv => EveryConnectionIsVetted
    BY DEF UploadInv, ConnectionInv, EveryConnectionIsVetted, ExportAllowed, HttpsUrl, Target
<1> QED BY Invariance, <1>1, PTL
=============================================================================
