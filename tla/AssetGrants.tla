----------------------------- MODULE AssetGrants -----------------------------
(***************************************************************************)
(* AssetService's grants: short-lived signed URLs for previews and         *)
(* downloads.  Creating a grant stores it and hands out a URL that names   *)
(* it, its deadline and an HMAC over both; serving a URL checks deadline   *)
(* and signature, looks the grant up in the store, and only then fetches   *)
(* the bytes from ResourceSpace, while other requests go on.  The          *)
(* uninstall webhook expires the grants of its user.                       *)
(*                                                                         *)
(* A request is three query parameters taken from any URLs handed out:     *)
(* nobody holds a signature that was not.                                  *)
(***************************************************************************)
EXTENDS Naturals, Functions

CONSTANTS
    Grants,        \* the grant ids _random_id may return
    Users,         \* user/tenant pairs
    Secrets,       \* values of the asset signing secret, over restarts
    Requests,      \* asset requests in flight at once
    SignedUrlTtl,  \* SIGNED_URL_TTL_SECONDS
    MaxTime        \* bound on the clock

VARIABLES
    now,
    secret,       \* signing.asset_secret of the running process
    assetGrants,  \* the store's dictionary
    fetching,     \* per request in flight, the grants it fetches: one or none
    urls,         \* history: the URLs handed out
    revoked       \* history: grants whose user has uninstalled since

vars == <<now, secret, assetGrants, fetching, urls, revoked>>

Times     == 1 .. MaxTime
Deadlines == 1 .. (MaxTime + SignedUrlTtl)

\* HMAC-SHA256 over grant id and deadline: assumed injective.
Signature(key, g, expires) == <<key, g, expires>>
Signatures == {Signature(key, g, expires) :
                   key \in Secrets, g \in Grants, expires \in Deadlines}

Url == [grantId : Grants, expires : Deadlines, sig : Signatures]

\* Every stored grant belongs to a user and ends in time, or has been expired
\* by an uninstall; what is fetched or revoked has been handed out.
TypeOK ==
    /\ now \in Times /\ secret \in Secrets
    /\ DOMAIN assetGrants \subseteq Grants
    /\ assetGrants \in [DOMAIN assetGrants ->
                           [user : Users, expiresAt : Deadlines \cup {0}]]
    /\ urls \subseteq Url
    /\ LET handedOut == {u.grantId : u \in urls}
       IN  /\ fetching \in [Requests -> SUBSET handedOut]
           /\ revoked \subseteq handedOut /\ DOMAIN assetGrants \subseteq handedOut

Init ==
    /\ now = 1 /\ secret \in Secrets
    /\ assetGrants = [g \in {} |-> g]
    /\ fetching = [r \in Requests |-> {}]
    /\ urls = {} /\ revoked = {}

-----------------------------------------------------------------------------

PrunedFalsy ==
    Restrict(assetGrants, {g \in DOMAIN assetGrants :
        assetGrants[g].expiresAt = 0 \/ now < assetGrants[g].expiresAt})

\* _prune_expired_grants, and the assetGrants part of _prune_expired.
Pruned ==
    Restrict(assetGrants, {g \in DOMAIN assetGrants : now < assetGrants[g].expiresAt})

NewGrantMillis(user) == [user |-> user, expiresAt |-> now * 1000 + SignedUrlTtl]

NewGrant(user) == [user |-> user, expiresAt |-> now + SignedUrlTtl]

\* create_preview_grant and create_download_grant
CreateGrant(g, user) ==
    /\ \A u \in urls : u.grantId # g
    /\ LET grant == NewGrant(user)
       IN  /\ assetGrants' = [x \in DOMAIN Pruned \cup {g} |->
                                 IF x = g THEN grant ELSE Pruned[x]]
           /\ urls' = urls \cup
                  {[grantId |-> g, expires |-> grant.expiresAt,
                    sig |-> Signature(secret, g, grant.expiresAt)]}
    /\ UNCHANGED <<now, secret, fetching, revoked>>

\* The checks of verify_grant that come before its store transaction.
Signed(url) ==
    /\ now <= url.expires
    /\ url.sig = Signature(secret, url.grantId, url.expires)

Verified(url) == Signed(url) /\ url.grantId \in DOMAIN Pruned

\* The request is verified and starts to fetch from ResourceSpace.
ServeGrant(r, url) ==
    /\ fetching[r] = {} /\ Verified(url)
    /\ assetGrants' = Pruned
    /\ fetching' = [fetching EXCEPT ![r] = {url.grantId}]
    /\ UNCHANGED <<now, secret, urls, revoked>>

\* 410: the signature holds but the grant is gone.
RefuseGrant(url) ==
    /\ Signed(url) /\ ~Verified(url)
    /\ assetGrants' = Pruned
    /\ UNCHANGED <<now, secret, fetching, urls, revoked>>

\* The bytes are sent, or a 404 if the host is refused or unreachable.
FetchEnds(r) ==
    /\ fetching[r] # {}
    /\ fetching' = [fetching EXCEPT ![r] = {}]
    /\ UNCHANGED <<now, secret, assetGrants, urls, revoked>>

\* revoke_tokens_for_user, as far as grants go.
ExpiredFor(user) ==
    [g \in DOMAIN Pruned |->
        IF Pruned[g].user = user THEN [Pruned[g] EXCEPT !.expiresAt = 0]
        ELSE Pruned[g]]

Uninstall(user) ==
    /\ assetGrants' = ExpiredFor(user)
    /\ revoked' = revoked \cup {g \in DOMAIN Pruned : Pruned[g].user = user}
    /\ UNCHANGED <<now, secret, fetching, urls>>

\* Every other store transaction, and the background prune.
Prune ==
    /\ assetGrants' = Pruned
    /\ UNCHANGED <<now, secret, fetching, urls, revoked>>

\* The process stops and starts again, perhaps with another secret.
Restart ==
    /\ secret' \in Secrets
    /\ fetching' = [r \in Requests |-> {}]
    /\ UNCHANGED <<now, assetGrants, urls, revoked>>

Tick ==
    /\ now < MaxTime /\ now' = now + 1
    /\ UNCHANGED <<secret, assetGrants, fetching, urls, revoked>>

\* Requests put together from the URLs handed out.
Presented ==
    [grantId : {u.grantId : u \in urls}, expires : {u.expires : u \in urls},
     sig : {u.sig : u \in urls}]

Next ==
    \/ \E g \in Grants, user \in Users : CreateGrant(g, user)
    \/ \E r \in Requests, url \in Presented : ServeGrant(r, url)
    \/ \E url \in Presented : RefuseGrant(url)
    \/ \E r \in Requests : FetchEnds(r)
    \/ \E user \in Users : Uninstall(user)
    \/ Prune
    \/ Restart
    \/ Tick

Spec == Init /\ [][Next]_vars

-----------------------------------------------------------------------------
(* Properties.  NewGrantMillis and PrunedFalsy (a deadline of 0 taken for  *)
(* no deadline) are deliberate mistakes that they are known to catch;      *)
(* nothing uses them.                                                      *)

\* Whatever was pruned, revoked or restarted, and however its parameters are
\* mixed, a request is served exactly when it is an URL handed out under the
\* present secret, before its deadline (not at it, although the first check
\* of verify_grant still lets it through), and not revoked by an uninstall.
UrlsWorkAsPromised ==
    \A url \in Presented :
        Verified(url) <=>
            /\ url \in urls /\ url.sig = Signature(secret, url.grantId, url.expires)
            /\ now < url.expires
            /\ url.grantId \notin revoked
=============================================================================
