-------------------------------- MODULE Upload --------------------------------
(***************************************************************************)
(* Upload: saving a Canva design to ResourceSpace, a saga of calls to two  *)
(* services that has no way back: create a resource, download the export   *)
(* (over redirects), store the file, then a preview, the title, the link   *)
(* into the collection.                                                    *)
(*                                                                         *)
(* The calls block the event loop, so uploads come one after another.      *)
(* Every call looks its host up, and every answer may differ from the last *)
(* one; it goes on only if all addresses are public, and then connects to  *)
(* these addresses, in turn, until one accepts the connection.  A call may *)
(* be lost after it had its effect.  A client that got no success may ask  *)
(* again: that is a new upload.                                            *)
(***************************************************************************)
EXTENDS TenantResolution

CONSTANTS
    Configs,          \* configurations, as far as tenants go
    TypedUrls,        \* what users may have typed in when they signed in
    ExportUrls,       \* where exports and redirects may point
    ExportHosts,      \* CANVA_UPLOAD_ALLOWED_HOSTS; empty if there is none
    PublicAddresses, PrivateAddresses,
    MaxRedirects,     \* redirects_remaining at the start
    MaxUploads        \* bound on the uploads asked for

Addresses == PublicAddresses \cup PrivateAddresses

ASSUME UploadAssumption ==
    /\ Configs \subseteq TenantConfig
    /\ \A cfg \in Configs : cfg.mode = "live"
    /\ TypedUrls \subseteq Url /\ ExportUrls \subseteq Url
    /\ ExportUrls # {} /\ ExportHosts \subseteq Hosts
    /\ PublicAddresses \cap PrivateAddresses = {}
    /\ MaxRedirects \in Nat /\ MaxUploads \in Nat

VARIABLES
    api,        \* the API URL of the session's tenant
    step,       \* the call that comes next, or "idle"
    pinned,     \* addresses it has looked up and not tried
    peer,       \* the address it is connected to, or none
    ref,        \* the resource created by this upload
    titled,     \* the client gave a title
    url, redirects,  \* the download
    resources,  \* ResourceSpace: what each resource has
    uploads,    \* history: uploads begun
    tolerated,  \* history: resources whose file was answered with an error
    replies     \* history: the resources reported as saved

saga == <<step, pinned, peer, ref, titled, url, redirects>>
history == <<uploads, tolerated, replies>>
vars == <<api, saga, resources, history>>

Refs == Nat \ {0}
Calls == {"create", "fetch", "store", "preview", "title", "link"}

\* Resources are numbered as they are created, and what is recorded of them is
\* about resources that exist.
TypeOK ==
    /\ api \in Url
    /\ step \in Calls \cup {"idle", "validate", "render"}
    /\ pinned \subseteq Addresses /\ peer \subseteq Addresses /\ titled \in BOOLEAN
    /\ url \in ExportUrls /\ redirects \in 0 .. MaxRedirects
    /\ DOMAIN resources \subseteq Refs
    /\ resources \in [DOMAIN resources ->
                         [file : BOOLEAN, title : BOOLEAN, linked : BOOLEAN]]
    /\ ref \in {0} \cup DOMAIN resources /\ uploads \in 0 .. MaxUploads
    /\ tolerated \subseteq DOMAIN resources /\ replies \subseteq DOMAIN resources

\* The user signed in to a tenant that was resolved then, whatever the hosts
\* resolve to now.
Init ==
    /\ \E cfg \in Configs, typed \in TypedUrls, public \in SUBSET Hosts :
          \E tenant \in GetConfiguredTenant(cfg, typed, public) : api = tenant.api
    /\ step = "idle" /\ pinned = {} /\ peer = {} /\ ref = 0 /\ titled = FALSE
    /\ url \in ExportUrls /\ redirects = 0
    /\ resources = [r \in {} |-> r]
    /\ uploads = 0 /\ tolerated = {} /\ replies = {}

-----------------------------------------------------------------------------

\* The next call has no addresses yet and no connection.
GoTo(s) == step' = s /\ pinned' = {} /\ peer' = {}

\* An error is raised: the client gets an error code, and nothing is undone.
Fail == GoTo("idle")

AfterPreview == IF titled THEN "title" ELSE "link"

\* Nothing comes of the present call: without a preview the upload goes on,
\* without anything else it fails.
GiveUp == IF step = "preview" THEN GoTo(AfterPreview) ELSE Fail

BeginUpload ==
    /\ step = "idle" /\ uploads < MaxUploads
    /\ titled' \in BOOLEAN /\ url' \in ExportUrls
    /\ redirects' = MaxRedirects /\ ref' = 0
    /\ GoTo("create")
    /\ uploads' = uploads + 1
    /\ UNCHANGED <<api, resources, tolerated, replies>>

New == Cardinality(DOMAIN resources) + 1
Create ==
    [r \in DOMAIN resources \cup {New} |->
        IF r = New THEN [file |-> FALSE, title |-> FALSE, linked |-> FALSE]
        ELSE resources[r]]

\* What a call does to ResourceSpace if it succeeds there.
Effect ==
    CASE step = "create" -> Create
      [] step = "store"  -> [resources EXCEPT ![ref].file = TRUE]
      [] step = "title"  -> [resources EXCEPT ![ref].title = TRUE]
      [] step = "link"   -> [resources EXCEPT ![ref].linked = TRUE]
      [] OTHER           -> resources

-----------------------------------------------------------------------------
(* Connecting. *)

Target == IF step = "fetch" THEN url ELSE api

PinnedOnceValidated(answer) == answer # {}

\* resolve_pinned_addresses: every address is public, and there is one.
PublicAnswer(answer) == answer # {} /\ answer \subseteq PublicAddresses

HttpsUrl(u) == u.scheme = "https" /\ Canonical[u.host] # NoHost /\ u.port # BadPort

\* pin_request: the host is looked up and the call bound to what is found ...
Pin ==
    /\ step \in Calls /\ pinned = {} /\ peer = {}
    /\ HttpsUrl(Target)
    /\ pinned' \in {answer \in SUBSET Addresses : PublicAnswer(answer)}
    /\ UNCHANGED <<api, step, peer, ref, titled, url, redirects, resources, history>>

\* ... or refused, for its URL or for what the look-up says.
PinRefused ==
    /\ step \in Calls /\ pinned = {} /\ peer = {}
    /\ GiveUp
    /\ UNCHANGED <<api, ref, titled, url, redirects, resources, history>>

Connect(address) ==
    /\ peer = {} /\ address \in pinned
    /\ peer' = {address} /\ pinned' = pinned \ {address}
    /\ UNCHANGED <<api, step, ref, titled, url, redirects, resources, history>>

\* No connection (_first_reachable, _read_export_hop): the next address is
\* tried.
Unreachable(address) ==
    /\ peer = {} /\ address \in pinned
    /\ IF pinned = {address} THEN GiveUp
       ELSE pinned' = pinned \ {address} /\ UNCHANGED <<step, peer>>
    /\ UNCHANGED <<api, ref, titled, url, redirects, resources, history>>

LostRetried ==
    /\ peer # {}
    /\ resources' \in {resources, Effect}
    /\ IF pinned = {} THEN GiveUp ELSE peer' = {} /\ UNCHANGED <<step, pinned>>
    /\ UNCHANGED <<api, ref, titled, url, redirects, history>>

\* Connected, but the call is lost before or after it had its effect, or is
\* answered with an error status: it is not tried again.
Lost ==
    /\ peer # {}
    /\ resources' \in {resources, Effect}
    /\ GiveUp
    /\ UNCHANGED <<api, ref, titled, url, redirects, history>>

\* The call is answered.
Answered(s) == step = s /\ peer # {}

-----------------------------------------------------------------------------
(* The resource. *)

Created ==
    /\ Answered("create")
    /\ resources' = Create /\ ref' = New
    /\ GoTo("validate")
    /\ UNCHANGED <<api, titled, url, redirects, history>>

\* create_resource, upload_multipart or the link is answered with false.
Refused ==
    /\ \E s \in {"create", "store", "link"} : Answered(s)
    /\ Fail
    /\ UNCHANGED <<api, ref, titled, url, redirects, resources, history>>

-----------------------------------------------------------------------------
(* The download. *)

ExportAllowed(u) ==
    HttpsUrl(u) /\ (ExportHosts # {} => Canonical[u.host] \in ExportHosts)

\* _validate_export_url: https, and the host matches the allowlist if there is
\* one ...
ValidateHop ==
    /\ step = "validate" /\ ExportAllowed(url)
    /\ GoTo("fetch")
    /\ UNCHANGED <<api, ref, titled, url, redirects, resources, history>>

\* ... and this first look-up finds no address that is not public, or it does.
RefuseHop ==
    /\ step = "validate"
    /\ Fail
    /\ UNCHANGED <<api, ref, titled, url, redirects, resources, history>>

FollowOneMore ==
    /\ Answered("fetch") /\ redirects >= 0
    /\ url' \in ExportUrls /\ redirects' = redirects - 1
    /\ GoTo("validate")
    /\ UNCHANGED <<api, ref, titled, resources, history>>

FollowUncounted ==
    /\ Answered("fetch") /\ redirects > 0
    /\ url' \in ExportUrls /\ UNCHANGED redirects
    /\ GoTo("validate")
    /\ UNCHANGED <<api, ref, titled, resources, history>>

\* A redirect; what is neither followed nor the whole export within the limit is
\* an error, and Lost.
FollowRedirect ==
    /\ Answered("fetch") /\ redirects > 0
    /\ url' \in ExportUrls /\ redirects' = redirects - 1
    /\ GoTo("validate")
    /\ UNCHANGED <<api, ref, titled, resources, history>>

Downloaded ==
    /\ Answered("fetch")
    /\ GoTo("store")
    /\ UNCHANGED <<api, ref, titled, url, redirects, resources, history>>

-----------------------------------------------------------------------------
(* The rest of the saga. *)

StoredWhateverTheAnswer ==
    /\ Answered("store")
    /\ resources' \in {resources, Effect}
    /\ GoTo("render")
    /\ UNCHANGED <<api, ref, titled, url, redirects, history>>

Stored ==
    /\ Answered("store")
    /\ resources' = Effect
    /\ GoTo("render")
    /\ UNCHANGED <<api, ref, titled, url, redirects, history>>

\* A status of 400 or above with {"error": true}: taken for a file that was
\* stored and has no preview.  ResourceSpace answers 400 when that is so.
StoredWithError ==
    /\ Answered("store")
    /\ \E status \in {"400", "above"} :
          resources' \in IF status = "400" THEN {Effect} ELSE {resources, Effect}
    /\ tolerated' = tolerated \cup {ref}
    /\ GoTo("render")
    /\ UNCHANGED <<api, ref, titled, url, redirects, uploads, replies>>

\* Pillow makes a preview of the export, or cannot.
RenderPreview ==
    /\ step = "render"
    /\ GoTo("preview") \/ GoTo(AfterPreview)
    /\ UNCHANGED <<api, ref, titled, url, redirects, resources, history>>

PreviewAnswered ==
    /\ Answered("preview")
    /\ GoTo(AfterPreview)
    /\ UNCHANGED <<api, ref, titled, url, redirects, resources, history>>

\* The answer to update_field is not looked at.
TitleAnswered ==
    /\ Answered("title")
    /\ resources' \in {resources, Effect}
    /\ GoTo("link")
    /\ UNCHANGED <<api, ref, titled, url, redirects, history>>

Linked ==
    /\ Answered("link")
    /\ resources' = Effect
    /\ replies' = replies \cup {ref}
    /\ GoTo("idle")
    /\ UNCHANGED <<api, ref, titled, url, redirects, uploads, tolerated>>

\* The process dies; ResourceSpace keeps what it has.
Kill ==
    /\ step # "idle"
    /\ Fail
    /\ UNCHANGED <<api, ref, titled, url, redirects, resources, history>>

-----------------------------------------------------------------------------

Progress ==
    \/ Pin \/ PinRefused
    \/ \E address \in Addresses : Connect(address) \/ Unreachable(address)
    \/ Lost \/ Refused
    \/ Created \/ ValidateHop \/ RefuseHop \/ FollowRedirect \/ Downloaded
    \/ Stored \/ StoredWithError \/ RenderPreview \/ PreviewAnswered
    \/ TitleAnswered \/ Linked

Next == Progress \/ BeginUpload \/ Kill

Spec == Init /\ [][Next]_vars

\* Every call has timeouts and the download a limit, so each ends somehow.
FairSpec == Spec /\ WF_vars(Progress)

-----------------------------------------------------------------------------
(* Properties.  PinnedOnceValidated, LostRetried, FollowOneMore,           *)
(* FollowUncounted and StoredWhateverTheAnswer are deliberate mistakes     *)
(* that they are known to catch; nothing uses them.                        *)

\* However many addresses are tried, however calls are lost and processes die,
\* an upload creates at most one resource: a call that may have had its effect
\* is never sent again.
OneResourcePerUpload == Cardinality(DOMAIN resources) <= uploads

\* A collection never shows a resource whose file was not stored, unless
\* ResourceSpace answered the file with an error that is tolerated, whatever
\* went wrong on the way and was not undone; and what a client was told is
\* saved is in the collection.
LinkedIsSaved ==
    /\ \A r \in DOMAIN resources :
          resources[r].linked => resources[r].file \/ r \in tolerated
    /\ \A r \in replies : resources[r].linked

\* Whatever is redirected where, and although every look-up of a host may be
\* answered differently, the broker tries and uses no connection but to public
\* addresses and for https, and to download none but for an allowed host.
EveryConnectionIsVetted ==
    pinned \cup peer # {} =>
        /\ pinned \cup peer \subseteq PublicAddresses
        /\ Target.scheme = "https"
        /\ step = "fetch" /\ ExportHosts # {} => Canonical[url.host] \in ExportHosts

\* An upload ends, also when the export redirects in a circle.
EveryUploadEnds == step # "idle" ~> step = "idle"

\* The comment in _post_multipart_live_api says that the bytes are stored when
\* it tolerates an error, so that a success means a file; but the code
\* tolerates every status from 400, not just 400.
SuccessHasFile == \A r \in replies : resources[r].file
=============================================================================
