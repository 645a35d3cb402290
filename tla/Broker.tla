-------------------------------- MODULE Broker --------------------------------
(***************************************************************************)
(* The broker: AuthService and AssetService on one store and one event     *)
(* loop, and the uninstall webhook that ends what a user has in both.      *)
(*                                                                         *)
(* Every transaction of AuthService also prunes the asset grants; creating *)
(* and serving a grant prunes nothing but grants.  The routes call store   *)
(* and ResourceSpace without awaiting, so a request that has begun such a  *)
(* call keeps the event loop: only the prune thread, the clock and the end *)
(* of the process come between its steps.  A fetch for a signed URL does   *)
(* await, and everything may happen meanwhile.                             *)
(*                                                                         *)
(* Canva's webhook calls travel over a network that may delay, duplicate   *)
(* and reorder them: a call that was sent can arrive at any time and any   *)
(* number of times, and so can one put together from parts of those sent.  *)
(***************************************************************************)
EXTENDS AuthService, CanvaRequest, FiniteSets

CONSTANTS
    Grants,        \* the grant ids _random_id may return
    Secrets,       \* values of the asset signing secret, over restarts
    Requests,      \* asset requests in flight at once
    SignedUrlTtl,  \* SIGNED_URL_TTL_SECONDS
    Verification,  \* per configuration: the verification mode and the secret
    CanvaSecret,   \* the secret Canva signs with
    Skew,          \* how far Canva's clock is off at most
    MaxUninstalls  \* bound on the webhook calls that are sent

\* validate_config_for_environment accepts nothing else outside development.
ASSUME BrokerAssumption ==
    /\ SignedUrlTtl \in Nat \ {0} /\ Tolerance \in Nat
    /\ Skew \in Nat /\ MaxUninstalls \in Nat
    /\ \A cfg \in Configs :
          ~cfg.dev => /\ Verification[cfg].mode = "required"
                      /\ Verification[cfg].clientSecret # NoSecret

VARIABLES
    secret, assetGrants, fetching, urls, revoked,  \* see AssetGrants
    granting,  \* the content request on the event loop: its pair, or none
    origin,    \* history: per grant, the pair whose request created it
    sent,      \* history: the webhook calls Canva has sent
    endings    \* history: the sessions that webhook calls have ended

grantVars  == <<secret, assetGrants, fetching, urls, revoked>>
brokerVars == <<vars, grantVars, granting, origin, sent, endings>>

AssetService == INSTANCE AssetGrants

Uninstalls == [user : Users, sentAt : (1 - Skew) .. (MaxTime + Skew)]

\* Both components keep their types side by side, at most one request holds
\* the event loop, and what is remembered of grants and sessions is about ones
\* that were created.
BrokerTypeOK ==
    /\ TypeOK /\ AssetService!TypeOK
    /\ granting \subseteq DOMAIN lineage
    /\ \A p, q \in granting : p = q
    /\ granting = {} \/ minting = {}
    /\ DOMAIN origin = {url.grantId : url \in urls}
    /\ origin \in [DOMAIN origin -> DOMAIN lineage]
    /\ sent \subseteq Uninstalls
    /\ endings \subseteq [code : Codes, sentAt : SUBSET Int, signed : BOOLEAN]

BrokerInit ==
    /\ Init /\ AssetService!Init
    /\ granting = {} /\ origin = EmptyDict /\ sent = {} /\ endings = {}

-----------------------------------------------------------------------------

LoopNeverHeld == TRUE

\* A route that does not await keeps the event loop to itself.
LoopFree == granting = {} /\ minting = {}

GrantsPruned ==
    AssetService!Prune /\ UNCHANGED <<granting, origin, sent, endings>>

OAuthRoute == LoopFree /\ OAuthRequest /\ GrantsPruned

\* The token route goes on to its second transaction, or fails there.
TokenRoute ==
    \/ \E m \in minting, p \in Pairs : CreateTokenPair(m, p) /\ GrantsPruned
    \/ \E m \in minting :
          /\ ExchangeAborted(m)
          /\ UNCHANGED <<grantVars, granting, origin, sent, endings>>

PruneThread == PruneOnly /\ GrantsPruned

\* A find or download request with a good bearer token: it goes on to call
\* ResourceSpace, which takes time, ...
BeginContent(p) ==
    /\ LoopFree /\ CanRead(p)
    /\ PruneOnly /\ AssetService!Prune
    /\ granting' = {p}
    /\ UNCHANGED <<origin, sent, endings>>

\* ... and then creates grants for the user of the session it has read, ...
CreateGrant(p, g) ==
    /\ p \in granting
    /\ AssetService!CreateGrant(g, ledgerAccess[p].user)
    /\ origin' = Put(origin, g, p)
    /\ UNCHANGED <<vars, granting, sent, endings>>

\* ... and answers, or fails upstream.
EndContent ==
    /\ granting # {} /\ granting' = {}
    /\ UNCHANGED <<vars, grantVars, origin, sent, endings>>

\* Signed asset URLs.
AssetRoute ==
    /\ LoopFree
    /\ \/ \E r \in Requests, url \in AssetService!Presented :
              AssetService!ServeGrant(r, url)
       \/ \E url \in AssetService!Presented : AssetService!RefuseGrant(url)
       \/ \E r \in Requests : AssetService!FetchEnds(r)
    /\ UNCHANGED <<vars, granting, origin, sent, endings>>

-----------------------------------------------------------------------------
(* The uninstall webhook.                                                  *)

\* A user uninstalls the app, and Canva dates and signs a call.
CanvaSends(user, sentAt) ==
    /\ Cardinality(sent) < MaxUninstalls
    /\ sentAt \in (now - Skew) .. (now + Skew)
    /\ sent' = sent \cup {[user |-> user, sentAt |-> sentAt]}
    /\ UNCHANGED <<vars, grantVars, granting, origin, endings>>

SignatureOf(call) == CalculateSignature(CanvaSecret, call.sentAt, call.user)

\* The calls that may arrive: signatures of calls sent, or none, with any
\* user and any of the timestamps sent.
Arriving ==
    [signatures : {{}} \cup {{SignatureOf(call)} : call \in sent},
     timestamp : {{}, {now}} \cup {{call.sentAt} : call \in sent},
     body : Users]

Accepted(request) ==
    LET verification == Verification[config]
    IN  Verify(verification.mode, verification.clientSecret, request, now)

LiveCodes(user) ==
    {lineage[p].code : p \in Of(PrunedAccess, user) \cup
                             {q \in Of(PrunedRefresh, user) :
                                  refreshTokens[q].revokedAt = NoTime}}

\* canva_user_uninstall: 401 unless the call is verified.
Webhook(request) ==
    /\ LoopFree /\ Accepted(request)
    /\ RevokeTokensForUser(request.body)
    /\ AssetService!Uninstall(request.body)
    /\ endings' = endings \cup
           [code : LiveCodes(request.body),
            sentAt : {request.timestamp},
            signed : {~config.dev}]
    /\ UNCHANGED <<granting, origin, sent>>

-----------------------------------------------------------------------------

BrokerRestart ==
    /\ Restart /\ AssetService!Restart
    /\ granting' = {}
    /\ UNCHANGED <<origin, sent, endings>>

BrokerTick ==
    Tick /\ UNCHANGED <<grantVars, granting, origin, sent, endings>>

BrokerNext ==
    \/ OAuthRoute
    \/ TokenRoute
    \/ PruneThread
    \/ \E p \in Pairs : BeginContent(p)
    \/ \E p \in Pairs, g \in Grants : CreateGrant(p, g)
    \/ EndContent
    \/ AssetRoute
    \/ \E user \in Users, sentAt \in (1 - Skew) .. (MaxTime + Skew) :
           CanvaSends(user, sentAt)
    \/ \E request \in Arriving : Webhook(request)
    \/ BrokerRestart
    \/ BrokerTick

BrokerSpec == BrokerInit /\ [][BrokerNext]_brokerVars

-----------------------------------------------------------------------------
(* Properties.  LoopNeverHeld, SignatureMatchesBody, and AssetService's    *)
(* PrunedFalsy and NewGrantMillis are deliberate mistakes that they are    *)
(* known to catch; nothing uses them.                                      *)

\* The signed URLs keep their promise although they share the store with the
\* OAuth records and are pruned and revoked by AuthService's transactions.
UrlsWorkAsPromised == AssetService!UrlsWorkAsPromised

\* Once a webhook call has ended a session, nothing of it works again: no
\* access token, no refresh token, and no signed URL created on its behalf,
\* also not by a request that was already being answered, whatever is retried,
\* restarted or delivered twice.
EndedSessionsStayEnded ==
    \A ending \in endings : \A p \in Family(ending.code) :
        /\ ~CanRead(p)
        /\ \A client \in Clients : ~CanRotate(p, client)
        /\ \A url \in AssetService!Presented :
              origin[url.grantId] = p => ~AssetService!Verified(url)

Begun(c) ==
    {ledgerAccess[p].expiresAt - TokenTtl : p \in {p \in Family(c) :
        lineage[p].parent = c}}

\* A webhook call that is delayed, duplicated or put together from parts of
\* others ends no session outside development but one of a user for whom Canva
\* did send it, and none begun CANVA_REQUEST_TIMESTAMP_TOLERANCE_SECONDS or more
\* after it was dated: whoever installs again later is left alone.
OnlyRecentUninstallsEndSessions ==
    \A ending \in endings : ending.signed =>
        \E call \in sent :
            /\ call.user = ledgerCodes[ending.code].user
            /\ {call.sentAt} = ending.sentAt
            /\ \A begun \in Begun(ending.code) : begun < call.sentAt + Tolerance
=============================================================================
