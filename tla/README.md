# A TLA+ development of the ResourceSpace authentication broker for Canva

The broker is a FastAPI process between Canva and ResourceSpace. It signs users
in (password, or a browser handoff to ResourceSpace's own login), plays OAuth
provider to Canva with opaque codes and tokens, hands out signed short-lived
URLs for assets, and proxies searches, downloads and uploads. Its only
persistent state is one JSON file. Source paths below are relative to
`src/src/resourcespace_platform/`.

## Inventory

| Component | State | Operations | What makes it correct |
|---|---|---|---|
| OAuth store (`services/auth_service.py`) | codes, access tokens, refresh tokens in the JSON store | authorise, exchange, refresh, read, revoke, uninstall, prune | one live refresh token per sign-in; retries get the same answer; bindings survive; pruning is invisible |
| SSO handoff (`services/auth_service.py`, `routes/oauth.py`) | pending handoff states with tombstones | start, inspect, complete, prune | one code per handoff, never late; caps hold; replay and expiry reported truthfully |
| Asset grants (`services/asset_service.py`, `routes/assets.py`) | grants in the JSON store, fetches in flight | create, verify, serve, expire on uninstall | a URL works until its deadline or its user uninstalls, and only as handed out |
| JSON store (`services/json_store.py`) | the file, its `.tmp`, a lock | read, update | atomic and durable updates under kills and failing file operations |
| Rate limiter (`services/rate_limiter.py`, `trusted_proxy.py`, `http_utils.py`) | a window per key, in memory | resolve the client, consume | bounded bursts and justified refusals per real client, whatever its headers say; an honest Retry-After |
| Field encryption (`services/field_crypto.py`) | the key | seal, open | a changed key refuses old sessions, it never misreads them |
| Application (`main.py`, `dependencies.py`) | the process | start, prune loop | the prune loop outlives its own failures |
| Connection race (`services/asset_service.py`) | attempts in flight | race, cancel, close | one winner, every loser closed, deadline kept |
| Content routes (`routes/content.py`) | continuation token | find, upload, download-url | pages advance, and skip or repeat no more than the library changed |
| Upload (`services/resourcespace/_upload.py`) | steps done upstream, the pinned addresses of a call | create, download, upload, preview, title, link | one resource per upload, none without its file in a collection; every connection to a validated address |
| Uninstall webhook (`routes/webhooks.py`, `services/canva_verifier.py`) | none of its own | verify, end the sessions and URLs of a user | what it ends stays ended; a late or repeated call ends nothing else |
| Tenant resolution (`services/resourcespace/service.py`, `_helpers.py`) | none | resolve what a user typed | spellings agree; what was resolved stays itself; nobody reaches a private host |
| ResourceSpace backends, configuration | none | call, parse | translation only, apart from pinning (Upload) and search (Content routes) |

Components interact through the JSON store: each operation is an
`update(updater)` that loads the file, changes it in memory and replaces the
file, under one lock. Every such update prunes tokens and grants alike, and the
webhook ends both in one. Routes run on the event loop and call store and
ResourceSpace without awaiting, so a request that has begun keeps the loop, except
in the fetch behind a signed URL; the background prune runs in a thread, the
health routes in the thread pool, and these only prune or read. Between two
updates of one request (the two halves of a code exchange; inspecting and
completing a handoff) the process may die.

Hard behaviours: exchange in two transactions, lost token responses and retries,
the grace period, three kinds of deadline with different comparisons, lazy
against background pruning, a webhook racing sign-ins and content requests,
webhook calls delayed, duplicated or put together from others, callbacks racing
each other, look-ups answered differently each time, forwarding headers anybody
can write, kills between file operations, restarts with another configuration.
`PROJECT.json` lists these as hazards, each at its line.

## Modules

| Module | Models |
|---|---|
| `OAuthRecords` | identities, records, configurations and constants shared by the next two |
| `TokenLedger` | abstract: what the token store promises, for a ledger that never forgets |
| `AuthService` | the store: three dictionaries, `minting` (exchanges between their two transactions), and a history of what was ever written |
| `AssetGrants` | signed URLs and their grants |
| `CanvaRequest` | whether a webhook call is Canva's, and recent |
| `Broker` | the composition: `AuthService` and `AssetGrants` on one store and one event loop, content requests, the webhook and the network it comes over |
| `SsoHandoff` | the browser handoff |
| `AtomicStore`, `JsonStore` | abstract: atomic durable updates; detailed: the file protocol |
| `ClientHost` | which client a request is counted under, and the proxies it comes through |
| `RateLimiter`, `RequestGate` | `consume` and the Retry-After header; the rate limit as real clients meet it |
| `RaceConnect` | the fetch of a proxied asset: the race of its addresses and the body of the winner |
| `TenantResolution` | which ResourceSpace a typed URL stands for |
| `Upload` | the saga that saves a design to ResourceSpace, with pinning |
| `Pagination` | paging through a search while the library changes |
| `MCAuthService`, `MCAuthUninstall`, `MCBroker`, `MCRequestGate`, `MCUpload` | instances; the second adds a history of uninstalls |
| `AuthServiceProofs`, `BrokerProofs`, `JsonStoreProofs`, `PaginationProofs`, `RaceConnectProofs`, `RequestGateProofs`, `SsoHandoffProofs`, `UploadProofs` | the theorems and their proofs; those about `ClientHost` are in `RequestGateProofs`, those about `TenantResolution` in `UploadProofs` |

### How states and actions correspond to the code

*AuthService.* `authorizationCodes`, `accessTokens`, `refreshTokens` are the
dictionaries of the same name. Every action applies `PrunedCodes`,
`PrunedAccess` and `PrunedRefresh` first, because every updater calls
`_prune_expired` first. `BeginAuthorization` is the password flow;
`CompleteSsoAuthorization` is the end of the handoff, which takes client and
redirect URI from a state that was validated earlier, possibly by a process with
another configuration. `ExchangeCode` (first transaction) and `CreateTokenPair`
(second) are separate; `ExchangeAborted` and `Restart` are what can come between.
`refresh_access_token` is `RefreshRotates`, `RefreshReplays` or `RefreshRefused`;
`revoke_token` is `RevokeAccessToken` or `RevokeRefreshToken`;
`RevokeTokensForUser` is the uninstall. A user is a user/tenant pair; an access
token and the refresh token minted with it share one identity. The history
variables (`ledger...`, `redeemed`, `lineage`) are written and never read.

*SsoHandoff.* `BeginSso` reads the clock, `StoreHandoff` or `RefuseHandoff` is
the transaction. `InspectActive` is the first look of a callback; then
ResourceSpace decides: `AuthenticationFails`, or `Complete`/`CompletionRefused`.
Missing parameters and states that are not active end the callback without a
change. The code that completion stores is `AuthService`'s.

*AssetGrants.* `CreateGrant`, `ServeGrant`/`RefuseGrant` (the outcome of
`verify_grant`; requests refused before its transaction change nothing),
`FetchEnds`, `Uninstall` (the grants' part of `revoke_tokens_for_user`), `Prune`,
`Restart`.

*Broker.* It shares `now` with `AuthService` and takes `AssetGrants` as
`AssetService`. `OAuthRoute`, `TokenRoute` and `PruneThread` are transactions of
`AuthService` that prune the grants as well. A find or download request is
`BeginContent` (the bearer token is read), any number of `CreateGrant` for the
user it was read for, and `EndContent`; while `granting` holds its session, only
the prune thread, the clock and the end of the process come in, because the
route never awaits (`LoopFree`). `Webhook` is the whole handler:
verification (`CanvaRequest!Verify`) and one transaction over tokens and grants.
`CanvaSends` is Canva, `Arriving` the network: a call may come late, repeatedly,
never, or with the signature of one call and the body or timestamp of another.
`origin`, `sent` and `endings` are history.

*CanvaRequest.* `Verify` is `verify_canva_post_request`; verification mode and
secret come from the configuration.

*JsonStore.* One action per file operation of `_ensure_file`, `_load` and
`_save`; `Raise` is the failure of any of them, `Kill` the end of the process
between any two. The contents are the sequence of updates applied, so a lost
update shows. A kill is the death of the process, not of the machine: nothing is
fsynced, and a power failure is outside the model.

*RateLimiter, RequestGate, ClientHost.* `consume` is called on the event loop and
does not await, so it is one step, `ConsumeAllowed` or `ConsumeRefused` of a
*sender*: the client that really sent the request, and its endpoint. What arrives
is that client's request after a path of trusted proxies, under any header it
chose to forge (`Received`); the key is `resolve_client_host` for the OAuth
routes and the transport peer for the content routes (`KeyOf`). Obedient clients
wait for as long as Retry-After tells them. `Restart` empties the buckets.

*RaceConnect.* An attempt's task is `Start`, `Respond` or `Break`, `Unwind` when
cancelled. `JudgeFailures` and `JudgeBatch` are one round of the `while` loop: by
the time the fetch is woken several tasks may have ended. `Deadline` may come
between the end of a task and the wake-up. `CancelRest`, `Gather` and
`CloseLoser` are the `finally` block, `RefuseLength` to `CloseClient` is
`_race_pinned_fetch`. `Cancel...` cancel the request itself at each `await`, once;
in the gathering, the loop that closes streams is then skipped and the client's
exit closes them. Cancelling during that exit is not modelled. Time is not
modelled; the stagger survives as the order in which attempts start.

*TenantResolution.* `GetConfiguredTenant` is `get_configured_tenant`: the first
registered tenant with the same scheme, host and effective port, or a tenant of
its own if `DynamicAllowed`; `public` is what the look-ups of this moment say.

*Upload.* `api` is the tenant as it was resolved at sign-in. `step` is the call of
`_upload_live_resource` that comes next. Every call is pinned anew: `Pin` looks
its host up and keeps addresses, all of them public (`pin_request`), or
`PinRefused`; `Connect` and `Unreachable` go through them in turn (`peer` is the
one connected to). `Lost` is any other failure of a call, before or after its
effect, including what a download may not be (too long, an error status, a
redirect too many); `Refused` an answer of `false`. `ValidateHop`, `RefuseHop`,
`FollowRedirect` and `Downloaded` are `_download_bytes`, whose validation and
connection are two separate look-ups; `StoredWithError` is the tolerated error
answer. The calls block the event loop, so no two uploads run at once. Refusals
before the first call change nothing and are left out.

*Pagination.* `ListContainers`, `ListAssets`, `ResolvePreviews`/`CountAssets`/
`NoAssets` and `Respond` are one page of `content_resources_find`; `FailPage` is
an upstream error or a lost response. `AddItem` and `RemoveItem` are other users
of ResourceSpace. `page` and `wanted` are sets, since one listing never repeats an
item; `containerOffset` and `assetOffset` are the offsets of the next
continuation. The client keeps its query, so the scope check of the
continuation never refuses it; its limit varies and is at least 1. The fixture
backend differs only in having no clamp and no unsupported rows.

### Assumptions

The clock never goes back, and one reading serves a transaction; Canva's clock is
off by `Skew` at most. `_random_token` never repeats; SHA-256 and HMAC are
injective, and nobody but Canva signs with its secret. One process owns the file.
No client sends from an address in `TRUSTED_PROXY_HOSTS`, the proxies there append
to `X-Forwarded-For` as proxies do, and a header that holds one address is set by
a single proxy. Outside development the webhook is verified with a secret, which
`validate_config_for_environment` enforces.

## Runs

| Run | Shows | Instance |
|---|---|---|
| `auth_rotation` | `PruneUnobservable`, `OneLiveRefreshTokenPerFamily`, `OneChild`, `BindingPreserved`, `DeadFamiliesStayDead`, `ImplementsLedger` | one code, three pairs, two users and clients, two configurations (one without allowlist and encryption), refresh lifetime 3, grace 1, clock to 5 |
| `auth_grace` (violation) | `GraceReplayIdempotent` | one code, two pairs, one user, two keys, clock to 4 |
| `auth_uninstall` (violation) | `UninstallEndsSessions` | the same |
| `broker` | `UrlsWorkAsPromised`, `EndedSessionsStayEnded`, `OnlyRecentUninstallsEndSessions` | two codes, pairs, users, grants and asset secrets, one fetch in flight, one call sent by Canva, skew and tolerance 1, clock to 2 |
| `sso_handoff` | `OneCodePerHandoff`, `NoLateCode`, `CapsRespected`, `TombstonesTellTheTruth`, `EventuallyPurged` | two sources, three states, two callbacks, cap 2 and 1 per source, lifetime 1, retention 2, clock to 4 |
| `json_store` | `AcknowledgedIsDurable`, `ReadsAreNeverUndone`, `ImplementsAtomicStore`, `LockReleased` | two threads, three updates |
| `request_gate` | `BurstBound`, `RefusalsAreJustified`, `RetryAfterSuffices` | an obedient and a forging client, no, one or two proxies, all three kinds of header, limit 2, window 3 half-seconds, clock to 7 |
| `gate_content` (violation) | `PerClientLimit` | the same, one content route behind a proxy |
| `race_connect` | `LosersClosed`, `VerdictIsJust`, `FailuresFallBack`, `WholeBody`, `EveryFetchEnds` | four addresses, limit 2, bodies to 3 |
| `upload` | `OneResourcePerUpload`, `LinkedIsSaved`, `EveryConnectionIsVetted`, `EveryUploadEnds` | two uploads, a typed or registered tenant, three export URLs (one not allowed, one not https), two public addresses and a private one, two redirects |
| `upload_tolerated` (violation) | `SuccessHasFile` | the same |
| `pagination` | `ChangesExplainPages`, `EveryPageAdvances` | every order of at most two folders and three images (one unsupported), limits 1 and 3, clamp 2, two changes |

Every passing run also checks the type invariant of its module.

Why the bounds are enough to be interesting: three pairs make a chain (first,
rotated, rotated again) in which a token is replayed after its child was rotated
too; with a grace of 1 the clock runs past lifetime and grace of every record.
In `broker`, two sign-ins of one user come before and after an uninstall, a call
sent at one tick arrives at the next with the tolerance just passed or not, two
grants are of two users or of two sessions of one, and the secret changes between
handing out a URL and serving it; longer histories are what the proofs are for.
Three handoff states against a cap of two make refusals happen, and the clock
passes `expiresAt` and `purgeAt` of the first. Three updates let a third thread
of work find what a failed second left behind. Seven clock steps hold two whole
windows and an edge between them; two proxies are the least with one that is not
the transport peer. Four attempts allow a batch of failures, a batch of several
outcomes and one that is dropped in the same race. Two public addresses allow a
fallback, and a private one an answer that must be refused. A limit above the
clamp of 2 and a page of one make short, full and container-only pages. 
`MaxTime`, `MaxHandoffs`, `Codes`, `Pairs`, `Grants`, `Requests`, `MaxUninstalls`,
`Updates`, `MaxSize`, `MaxUploads` and `MaxChanges` are bounds of the models, not
of the code. Deadlock is not checked in `race_connect`, `upload` and `pagination`,
which end; `EveryFetchEnds` and `EveryUploadEnds` show that the first two always
get there.

Symmetry is used for codes, pairs, users and grants, which no definition tells
apart, and only in runs without liveness.

### Fairness

`SsoHandoff`: weak fairness of the clock and of the prune loop, which runs every
`STORE_PRUNE_INTERVAL_SECONDS`, catches every exception of its own run and is
started with the process (an interval of 0 turns it off, and then
`EventuallyPurged` is not claimed). `JsonStore`: weak fairness of a thread that
is inside a transaction; each of its steps is a file operation that ends or
raises. `RaceConnect`: weak fairness of `Progress`, which is the event loop
running ready tasks, the two timers (connect deadline, idle timeout) and the
closing of streams; no host is assumed to answer. `Upload`: weak fairness of
`Progress`, since each of its calls has a timeout and ends in one of its ways.
Kills, restarts, requests and failures are never assumed to happen.

### What the violations show

* `auth_grace`: a refresh token rotated shortly before its own `expiresAt` is
  pruned inside the grace period, so the retry of a lost response is refused,
  although the comment in `refresh_access_token` promises the same response.
* `auth_uninstall`: the uninstall leaves authorization codes alone; one issued
  before is exchanged after, and the session the runbook says is revoked goes on.
  `EndedSessionsStayEnded` is about sessions that had begun: those do end.
* `gate_content`: the content routes count under the transport peer, not under
  the client as the OAuth routes do, so behind a proxy one client is refused for
  the requests of another; the operations manual counts per-IP limits among
  their controls.
* `upload_tolerated`: a file that ResourceSpace refuses with `{"error": true}` and
  a status other than 400 is taken for stored, so an empty resource is linked and
  reported as saved; the comment in `_post_multipart_live_api` speaks of 400 only.

Not claimed: that no more handoff states than the cap can be completed at once.
The cap counts states with `expiresAt > now`, completion accepts `now <=
expiresAt`, so in the millisecond of a deadline there can be one more.

## Proofs

All theorems hold for every value of the constants: any clients, users, codes,
keys, proxies, forged headers, hosts and addresses, any lifetimes, limits and
clock skew, and any number of requests. They rest on the assumptions named in the
modules (`TtlAssumption`, `ConfigsAssumption`, `IdentityAssumption`,
`SsoAssumption`, `ThreadAssumption`, `BrokerAssumption`, `RateAssumption`,
`HostAssumption`, `GateAssumption`, `HostsAssumption`, `PortsAssumption`,
`UploadAssumption`, `RaceAssumption`, `PaginationAssumption`), which TLC evaluates
on the instances. None of the properties is inductive; each module has an invariant
that is.

`AuthServiceProofs` proves `TypeCorrect`, `PruneIsUnobservable`, `OneLiveToken`,
`AtMostOneChild`, `BindingIsPreserved`, `DeadStayDead` and `StoreImplementsLedger`,
the refinement of `TokenLedger`. The invariant is `IInv`:

* `TypeOK`;
* `StoreMatchesLedger`: what the store holds is what the ledger holds, and the
  identities of the three dictionaries agree;
* `StoreRetains`: whatever would still count, by the ledger and the clock, is
  still in the store. It is stated with the deadlines themselves, so that time
  passing cannot break it, and with it pruning is invisible;
* `FamilyInv`: a code is outstanding, or in exchange, or has a family, never two
  of these, and a family has one live token; this excludes a second exchange;
* `LineageInv`: the cached reply of a token is its child, and a token without a
  reply has none;
* `BindingInv`: codes in exchange and pairs carry the client and user of their
  code.

Each part is preserved step by step (`TypeStep`, `MatchStep`, `RetainStep`, ...):
one case per action, all read-only requests being the case `PruneOnly`. Refinement
takes the history variables as the ledger's state, so each case shows that an
action which looks only at the pruned store changes the ledger as the ledger allows.

`BrokerProofs` proves first that the broker implements both components
(`ImplementsAuthService`, `ImplementsAssetGrants`), so that all of the above holds
of it too, and then `BrokerTypeCorrect`, `UrlsKeepTheirPromise`, `EndedStayEnded`
and `OnlyRecentEnd`. `Recorded` says what any step may do to the ledgers, read off
the ledger that `AuthService` implements, so the proofs about the broker never
look at a token transaction again. `BrokerInv` is `IInv` with

* `GrantInv`: a grant that counts is in the store with the deadline its URL says,
  an expired one never comes back; preserved by `AssetGrants` alone;
* `OwnerInv`: a grant belongs to the user of the session that asked for it, and
  at most one request holds the event loop;
* `EndInv`: of an ended session there is no usable token, no request on the event
  loop and no working URL. The step that needs the event loop is the webhook: a
  request between its bearer check and its grants would make one for a session
  that has just ended;
* `RecentInv`: no pair is dated in the future, and each ending has its cause.

Four kinds of steps remain: those that begin a request, create a grant or end
sessions, and the `Quiet` rest.

`SsoHandoffProofs` proves `TypeCorrect`, `AtMostOneCode`, `NoCodeIsLate`, `CapsHold`
and `TombstonesAreTrue`. `SsoInv` adds to `TypeOK` and `CapsRespected`:

* `NumberedInv`: a state that is stored is new, so it has bought nothing;
* `StoreInv`: what the store says of a state is what happened to it, and it says so
  until `purgeAt`; a tombstone pruned earlier would turn a replay into a stranger;
* `MintedInv`: a code is bought when the state is marked as used, in time.

Three kinds of steps remain: a start, where the caps leave room for one more
(counted on the pruned store, which is why pruning must not add active states); a
completion, which looks again inside its transaction; and the rest, which at most
prune or let time pass (`Kept`).

`JsonStoreProofs` proves `TypeCorrect`, `AcknowledgedLasts`, `ReadsLast` and
`FileProtocolIsAtomic`, the refinement of `AtomicStore`. `StoreInv` says that the
holder of the lock works on the present contents plus its own update
(`HolderInv`), and that a file still being created holds nothing (`FileInv`).
`ContentsStep` is what everything follows from: only `Replace` changes the contents,
by appending an update that is not in them; a kill or a failure at any other step
is invisible.

`RequestGateProofs` proves first `ClientIsFound`: through any chain of trusted
proxies and under any forged header the resolved host is the client. On it stand
`BurstsAreBounded`, `RefusalsAreDeserved` and `HonouringSuffices`; `GateInv` ties the bucket of a client to the history of its
admissions: it holds the last of them and nobody else's, and a window had passed
since the ones before (`OpenBucket`, `NoBucket`, `Spread`), and what a client was
told covers what is left of the window up to the rounding (`Patience`).

`UploadProofs` proves `SpellingsAgree`, `ResolvedIsStable` and
`DynamicTenantsAreSafe` about the pure function of `TenantResolution`, and of the
saga `TypeCorrect`, `NothingIsCreatedTwice`, `WhatIsLinkedIsSaved` and
`ConnectionsAreVetted`; `UploadInv` adds to the types that resources are numbered
in the order of creation (`NumberedInv`), what each step of the saga knows to be
stored (`SagaInv`), and that what is pinned was validated (`ConnectionInv`).

`RaceConnectProofs` proves `TypeCorrect`, `NoStreamLeaks`, `VerdictsAreJust`,
`RaceFallsBack` and `BodiesAreWhole`, for any number of addresses and any limit.
`RaceInv` has four parts besides the types:

* `RacingInv`: while the race goes on, only transport failures have been judged;
* `StreamsInv`: until the tasks have been gathered the open streams are exactly
  those of the attempts that got a response, afterwards every task has ended, so
  none opens any more, and from the headers on only the winner's is open. That
  the gathering is interrupted by a cancellation is the case that needs it: the
  streams it leaves open are closed by the exit of the client;
* `VerdictInv`: the winner is the lowest acceptable attempt that was judged, and
  the outcome follows from the verdict. What has been judged is judged once
  (`JudgedKept`), and after the race the verdict stands (`VerdictStands`);
* `BodyInv`: nothing has arrived before the body is read, and nothing that has
  arrived was dropped while it is read.

`PaginationProofs` proves `TypeCorrect`, `ChangesExplain` and `PagesAdvance`, for
libraries of any size and any limits. That a finished search left out at most as
much as was removed says nothing about the pages before, so `PagingInv` follows
two sets through them: what is *skipped* (it stayed, was not shown, and lies
behind an offset or in a listing that has come to its end) and what is *repeated*
(shown twice, or shown and ahead of an offset again). `CursorInv` bounds both by
`removed` and `inserted` for the continuation the client holds, which is what a
page that fails goes back to, and `PageInv` for the page being made with its new
offsets, taking what it holds as shown. An insertion pushes one item at most past
any offset and a removal draws one back (`InsertFacts`, `RemoveFacts`); the calls of
a page move offsets only over what goes on the page (`SliceFacts`, `AdvanceFacts`)
or cannot be shown. A preview that goes missing between two calls does no harm,
because its item did not stay. `AdvanceInv` says which offset has moved
whenever there is more to come. The number of changes is bounded in the model only
for the run; the proofs do not use the bound.

Only model-checked are the liveness properties, `EventuallyPurged`, `LockReleased`,
`EveryFetchEnds` and `EveryUploadEnds`: fairness is stated with ENABLED, which the
prover does not handle. The four violations are counterexamples and stay with TLC.

## Plan

More of the system: the handoff in the broker's composition, so that a code of
its own is exchanged by `AuthService`. More proofs: that composition.

## Not modelled

Rendering, logging, CORS and header hardening; parsing of environment variables,
URLs, addresses and headers; the fixture backend; the translation of ResourceSpace
answers, and the time budget of a search, which makes a page fail like any other error; names and
slugs of tenants; `get_stats`, the session and the health routes, which only read;
`verify_canva_get_request` and `consume_pending_sso_state`, which only tests call; the
manual OAuth helper of development, which calls exchange and read in turn. The
verification modes other than `required` are in the operator but in no run, since
only development may use them.
