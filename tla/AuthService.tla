----------------------------- MODULE AuthService -----------------------------
(***************************************************************************)
(* AuthService: OAuth authorization codes with PKCE, access tokens and     *)
(* rotating refresh tokens, kept in the dictionaries of the JSON store.    *)
(*                                                                         *)
(* Every operation is one store transaction (JsonStore holds its lock from *)
(* load to save), except exchange_authorization_code, which is two: one    *)
(* spends the code, the other mints the pair.  Transactions of concurrent  *)
(* requests, of the background prune thread and restarts of the process    *)
(* interleave freely.  One clock reading serves a whole transaction.       *)
(*                                                                         *)
(* The history variables ledgerCodes, ledgerAccess and ledgerRefresh hold  *)
(* the last version of every record ever stored; redeemed and lineage say  *)
(* which codes were presented and where each pair came from.  No operation *)
(* reads them: they state what the store may forget.                       *)
(***************************************************************************)
EXTENDS OAuthRecords

VARIABLES
    now, config,
    authorizationCodes, accessTokens, refreshTokens,  \* the store
    minting,                                          \* exchanges in flight
    ledgerCodes, ledgerAccess, ledgerRefresh, redeemed, lineage

store   == <<authorizationCodes, accessTokens, refreshTokens>>
history == <<ledgerCodes, ledgerAccess, ledgerRefresh, redeemed, lineage>>
vars    == <<now, config, store, minting, history>>

Ledger == INSTANCE TokenLedger WITH
    codes <- ledgerCodes, access <- ledgerAccess, refresh <- ledgerRefresh

\* Every dictionary of the store and of the history holds records of its own
\* shape under identities of its own kind, with dates the clock can reach.
TypeOK ==
    /\ now \in Times /\ config \in Configs
    /\ IsDict(authorizationCodes, Codes, CodeRecord)
    /\ IsDict(accessTokens, Pairs, AccessRecord)
    /\ IsDict(refreshTokens, Pairs, RefreshRecord)
    /\ minting \subseteq Exchange
    /\ IsDict(ledgerCodes, Codes, CodeRecord)
    /\ IsDict(ledgerAccess, Pairs, AccessRecord)
    /\ IsDict(ledgerRefresh, Pairs, RefreshRecord)
    /\ redeemed \subseteq Codes
    /\ IsDict(lineage, Pairs, [code : Codes, parent : Codes \cup Pairs])

Init ==
    /\ now = 1 /\ config \in Configs
    /\ authorizationCodes = EmptyDict /\ accessTokens = EmptyDict
    /\ refreshTokens = EmptyDict /\ minting = {}
    /\ ledgerCodes = EmptyDict /\ ledgerAccess = EmptyDict
    /\ ledgerRefresh = EmptyDict /\ redeemed = {} /\ lineage = EmptyDict

-----------------------------------------------------------------------------
(* _prune_expired, which every transaction runs first: what is left of     *)
(* each dictionary.                                                        *)

PrunedCodesLate ==
    Restrict(authorizationCodes,
        {c \in DOMAIN authorizationCodes : now <= authorizationCodes[c].expiresAt})

PrunedCodes ==
    Restrict(authorizationCodes,
        {c \in DOMAIN authorizationCodes : now < authorizationCodes[c].expiresAt})

PrunedAccess ==
    Restrict(accessTokens,
        {p \in DOMAIN accessTokens : /\ now < accessTokens[p].expiresAt
                                     /\ accessTokens[p].revokedAt = NoTime})

PrunedRefreshNoGrace ==
    Restrict(refreshTokens,
        {p \in DOMAIN refreshTokens : /\ now < refreshTokens[p].expiresAt
                                      /\ refreshTokens[p].revokedAt = NoTime})

PrunedRefresh ==
    Restrict(refreshTokens,
        {p \in DOMAIN refreshTokens :
            /\ now < refreshTokens[p].expiresAt
            /\ \/ refreshTokens[p].revokedAt = NoTime
               \/ now - refreshTokens[p].revokedAt <= RefreshGrace})

\* A transaction that does no more than prune: prune() itself, and every
\* request that is refused or only reads.
PruneOnly ==
    /\ authorizationCodes' = PrunedCodes
    /\ accessTokens' = PrunedAccess
    /\ refreshTokens' = PrunedRefresh
    /\ UNCHANGED <<now, config, minting, history>>

-----------------------------------------------------------------------------
(* Authorization: a code is bound to client, redirect URI and S256         *)
(* challenge.                                                              *)

RedirectUriAllowed(cfg, client, redirectUri) ==
    /\ client \in DOMAIN cfg.clients
    /\ LET allowlist == cfg.clients[client]
       IN  redirectUri \in allowlist \/ (allowlist = {} /\ cfg.dev)

MintAuthorizationCode(c, client, redirectUri, verifier, user) ==
    /\ c \notin DOMAIN ledgerCodes
    /\ LET record == [client |-> client, redirectUri |-> redirectUri,
                      codeChallenge |-> S256(verifier), user |-> user,
                      key |-> config.key, expiresAt |-> now + AuthCodeTtl]
       IN  /\ authorizationCodes' = Put(PrunedCodes, c, record)
           /\ ledgerCodes' = Put(ledgerCodes, c, record)
    /\ accessTokens' = PrunedAccess /\ refreshTokens' = PrunedRefresh
    /\ UNCHANGED <<now, config, minting, ledgerAccess, ledgerRefresh,
                   redeemed, lineage>>

\* POST /oauth/authorise with a password: the request is validated, the user
\* signed in upstream and the code stored, all by one process.
BeginAuthorization(c, client, redirectUri, verifier, user) ==
    /\ RedirectUriAllowed(config, client, redirectUri)
    /\ MintAuthorizationCode(c, client, redirectUri, verifier, user)

\* POST /oauth/sso/callback: client and redirect URI come from the handoff
\* state.  They were validated when it was created, perhaps by a process with
\* another configuration, and are not validated again.
CompleteSsoAuthorization(c, client, redirectUri, verifier, user) ==
    /\ \E cfg \in Configs : RedirectUriAllowed(cfg, client, redirectUri)
    /\ MintAuthorizationCode(c, client, redirectUri, verifier, user)

-----------------------------------------------------------------------------
(* Code exchange.  The first transaction deletes the code before it looks  *)
(* at what the request presents.                                           *)

ExchangeGrantedToAnyClient(record, request) ==
    /\ record.redirectUri = request.redirectUri
    /\ request.verifier # NoVerifier
    /\ S256(request.verifier) = record.codeChallenge
    /\ Opens(config.key, record.key)

ExchangeGranted(record, request) ==
    /\ record.client = request.client
    /\ record.redirectUri = request.redirectUri
    /\ request.verifier # NoVerifier
    /\ S256(request.verifier) = record.codeChallenge
    /\ Opens(config.key, record.key)

ExchangeCode(c, request) ==
    /\ request.client \in DOMAIN config.clients
    /\ c \in DOMAIN PrunedCodes
    /\ authorizationCodes' = Drop(PrunedCodes, c)
    /\ redeemed' = redeemed \cup {c}
    /\ minting' =
           IF ExchangeGranted(authorizationCodes[c], request)
           THEN minting \cup {[code |-> c, client |-> request.client,
                               user |-> authorizationCodes[c].user]}
           ELSE minting
    /\ accessTokens' = PrunedAccess /\ refreshTokens' = PrunedRefresh
    /\ UNCHANGED <<now, config, ledgerCodes, ledgerAccess, ledgerRefresh, lineage>>

\* A client that is not configured is refused before any transaction, here
\* and below.
ExchangeUnknownCode(c) ==
    DOMAIN config.clients # {} /\ c \notin DOMAIN PrunedCodes /\ PruneOnly

\* _write_token_pair_to_state: the records of a fresh pair, as minted now.
NewAccess(client, user) ==
    [client |-> client, user |-> user, key |-> config.key,
     expiresAt |-> now + TokenTtl, revokedAt |-> NoTime]

NewRefresh(client, user) ==
    [client |-> client, user |-> user, key |-> config.key,
     expiresAt |-> now + RefreshTtl, revokedAt |-> NoTime,
     rotationResponse |-> {}]

\* The second transaction of the exchange.
CreateTokenPair(m, p) ==
    /\ m \in minting /\ p \notin DOMAIN lineage
    /\ minting' = minting \ {m}
    /\ accessTokens' = Put(PrunedAccess, p, NewAccess(m.client, m.user))
    /\ refreshTokens' = Put(PrunedRefresh, p, NewRefresh(m.client, m.user))
    /\ ledgerAccess' = Put(ledgerAccess, p, NewAccess(m.client, m.user))
    /\ ledgerRefresh' = Put(ledgerRefresh, p, NewRefresh(m.client, m.user))
    /\ lineage' = Put(lineage, p, [code |-> m.code, parent |-> m.code])
    /\ authorizationCodes' = PrunedCodes
    /\ UNCHANGED <<now, config, ledgerCodes, redeemed>>

\* The second transaction raises (the store file cannot be read or written):
\* the code stays spent.
ExchangeAborted(m) ==
    /\ m \in minting /\ minting' = minting \ {m}
    /\ UNCHANGED <<now, config, store, history>>

-----------------------------------------------------------------------------
(* refresh_access_token                                                    *)

RefreshFound(p, client) ==
    /\ client \in DOMAIN config.clients
    /\ p \in DOMAIN PrunedRefresh
    /\ refreshTokens[p].client = client
    /\ Opens(config.key, refreshTokens[p].key)

CanRotateAgain(p, client) == RefreshFound(p, client)

CanRotateUncached(p, client) ==
    RefreshFound(p, client) /\ refreshTokens[p].rotationResponse = {}

CanRotate(p, client) ==
    RefreshFound(p, client) /\ refreshTokens[p].revokedAt = NoTime

CanReplay(p, client) ==
    /\ RefreshFound(p, client)
    /\ refreshTokens[p].revokedAt # NoTime
    /\ now - refreshTokens[p].revokedAt <= RefreshGrace
    /\ refreshTokens[p].rotationResponse # {}

RotatedKept(dict, p, q) == [dict EXCEPT ![p].rotationResponse = {q}]

Rotated(dict, p, q) ==
    [dict EXCEPT ![p] = [@ EXCEPT !.revokedAt = now, !.rotationResponse = {q}]]

RefreshRotates(p, client, q) ==
    /\ CanRotate(p, client) /\ q \notin DOMAIN lineage
    /\ LET user == refreshTokens[p].user
       IN  /\ accessTokens' = Put(PrunedAccess, q, NewAccess(client, user))
           /\ refreshTokens' = Put(Rotated(PrunedRefresh, p, q), q,
                                   NewRefresh(client, user))
           /\ ledgerAccess' = Put(ledgerAccess, q, NewAccess(client, user))
           /\ ledgerRefresh' = Put(Rotated(ledgerRefresh, p, q), q,
                                   NewRefresh(client, user))
    /\ lineage' = Put(lineage, q, [code |-> lineage[p].code, parent |-> p])
    /\ authorizationCodes' = PrunedCodes
    /\ UNCHANGED <<now, config, minting, ledgerCodes, redeemed>>

\* A grace-period replay is answered from rotationResponse.
RefreshReplays(p, client) == CanReplay(p, client) /\ PruneOnly

RefreshRefused(p, client) ==
    /\ client \in DOMAIN config.clients
    /\ ~CanRotate(p, client) /\ ~CanReplay(p, client)
    /\ PruneOnly

-----------------------------------------------------------------------------
(* Use and revocation                                                      *)

CanRead(p) ==
    /\ p \in DOMAIN PrunedAccess
    /\ accessTokens[p].client \in DOMAIN config.clients
    /\ Opens(config.key, accessTokens[p].key)

\* read_access_token: what it returns is CanRead.
ReadAccessToken(p) == p \in Pairs /\ PruneOnly

RevokedAtMillis(dict, S) ==
    [p \in DOMAIN dict |->
        IF p \in S THEN [dict[p] EXCEPT !.revokedAt = now * 1000] ELSE dict[p]]

RevokedAt(dict, S) ==
    [p \in DOMAIN dict |->
        IF p \in S THEN [dict[p] EXCEPT !.revokedAt = now] ELSE dict[p]]

RevokeAccessToken(p) ==
    /\ p \in DOMAIN PrunedAccess
    /\ accessTokens' = Drop(PrunedAccess, p)
    /\ ledgerAccess' = RevokedAt(ledgerAccess, {p})
    /\ authorizationCodes' = PrunedCodes /\ refreshTokens' = PrunedRefresh
    /\ UNCHANGED <<now, config, minting, ledgerCodes, ledgerRefresh,
                   redeemed, lineage>>

\* Also for a token already rotated or revoked: its grace starts again.
RevokeRefreshToken(p) ==
    /\ p \in DOMAIN PrunedRefresh
    /\ refreshTokens' = RevokedAt(PrunedRefresh, {p})
    /\ ledgerRefresh' = RevokedAt(ledgerRefresh, {p})
    /\ authorizationCodes' = PrunedCodes /\ accessTokens' = PrunedAccess
    /\ UNCHANGED <<now, config, minting, ledgerCodes, ledgerAccess,
                   redeemed, lineage>>

Of(dict, user) == {p \in DOMAIN dict : dict[p].user = user}

\* The uninstall webhook.  Authorization codes are left alone; the asset
\* grants it expires in the same transaction are AssetGrants!Uninstall.
RevokeTokensForUser(user) ==
    /\ accessTokens' = RevokedAt(PrunedAccess, Of(PrunedAccess, user))
    /\ refreshTokens' = RevokedAt(PrunedRefresh, Of(PrunedRefresh, user))
    /\ ledgerAccess' = RevokedAt(ledgerAccess, Of(PrunedAccess, user))
    /\ ledgerRefresh' = RevokedAt(ledgerRefresh, Of(PrunedRefresh, user))
    /\ authorizationCodes' = PrunedCodes
    /\ UNCHANGED <<now, config, minting, ledgerCodes, redeemed, lineage>>

-----------------------------------------------------------------------------

\* Stop or crash, and start again with the same store and a configuration
\* that may have lost a client or changed its encryption key.
Restart ==
    /\ config' \in Configs /\ minting' = {}
    /\ UNCHANGED <<now, store, history>>

Tick ==
    /\ now < MaxTime /\ now' = now + 1
    /\ UNCHANGED <<config, store, minting, history>>

\* The requests of the OAuth routes and of bearer-token checks, each up to the
\* end of its first store transaction.
OAuthRequest ==
    \/ \E c \in Codes, client \in Clients, redirectUri \in RedirectUris,
         verifier \in Verifiers, user \in Users :
           BeginAuthorization(c, client, redirectUri, verifier, user)
    \/ \E c \in Codes, client \in Clients, redirectUri \in RedirectUris,
         verifier \in Verifiers, user \in Users :
           CompleteSsoAuthorization(c, client, redirectUri, verifier, user)
    \/ \E c \in Codes, request \in TokenRequest : ExchangeCode(c, request)
    \/ \E c \in Codes : ExchangeUnknownCode(c)
    \/ \E p \in Pairs, client \in Clients, q \in Pairs :
           RefreshRotates(p, client, q)
    \/ \E p \in Pairs, client \in Clients : RefreshReplays(p, client)
    \/ \E p \in Pairs, client \in Clients : RefreshRefused(p, client)
    \/ \E p \in Pairs : ReadAccessToken(p)
    \/ \E p \in Pairs : RevokeAccessToken(p)
    \/ \E p \in Pairs : RevokeRefreshToken(p)

Next ==
    \/ OAuthRequest
    \/ \E m \in minting, p \in Pairs : CreateTokenPair(m, p)
    \/ \E m \in minting : ExchangeAborted(m)
    \/ \E user \in Users : RevokeTokensForUser(user)
    \/ PruneOnly
    \/ Restart
    \/ Tick

Spec == Init /\ [][Next]_vars

-----------------------------------------------------------------------------
(* Properties.  The definitions PrunedCodesLate, PrunedRefreshNoGrace,     *)
(* ExchangeGrantedToAnyClient, CanRotateAgain, CanRotateUncached,          *)
(* RotatedKept and RevokedAtMillis above are deliberate mistakes that      *)
(* these properties are known to catch; nothing uses them.                 *)

\* Pruning is unobservable: whatever mixture of lazy and background pruning
\* has happened, the store grants a code, an access token or a refresh token
\* exactly when a ledger that never forgets would, and replays exactly when
\* that ledger would.  So no record is dropped while it still matters, and
\* none is kept to be honoured after its time.
PruneUnobservable ==
    /\ \A c \in Codes : c \in DOMAIN PrunedCodes <=> Ledger!CodeUsable(c)
    /\ \A p \in Pairs :
          /\ CanRead(p) <=> Ledger!AccessUsable(p)
          /\ \A client \in Clients :
                /\ CanRotate(p, client) <=> Ledger!RefreshRotates(p, client)
                /\ CanReplay(p, client) <=> Ledger!RefreshReplays(p, client)

Family(c) == {p \in DOMAIN lineage : lineage[p].code = c}
LiveRefreshTokens(c) ==
    {p \in Family(c) : ledgerRefresh[p].revokedAt = NoTime}
FamilyDead(c) == Family(c) # {} /\ LiveRefreshTokens(c) = {}

\* However requests, retries, aborted exchanges and restarts interleave, the
\* pairs descending from one authorization code hold at most one refresh
\* token that has been neither rotated nor revoked, and none at all while the
\* code could still be exchanged or its exchange is in flight.
OneLiveRefreshTokenPerFamily ==
    \A c \in Codes :
        /\ \A p, q \in LiveRefreshTokens(c) : p = q
        /\ \/ c \in DOMAIN authorizationCodes
           \/ \E m \in minting : m.code = c
           => Family(c) = {}

\* A code or a refresh token is answered with at most one pair, and the
\* reply cached for grace-period replays is that very pair.
OneChild ==
    /\ \A p, q \in DOMAIN lineage :
          lineage[p].parent = lineage[q].parent => p = q
    /\ \A p \in DOMAIN ledgerRefresh :
          ledgerRefresh[p].rotationResponse
              = {q \in DOMAIN lineage : lineage[q].parent = p}

\* Every pair, however many rotations and restarts later, belongs to the
\* client and the user its authorization code was issued to.
BindingPreserved ==
    \A p \in DOMAIN lineage :
        LET code == ledgerCodes[lineage[p].code]
        IN  /\ ledgerAccess[p].client = code.client
            /\ ledgerAccess[p].user = code.user
            /\ ledgerRefresh[p].client = code.client
            /\ ledgerRefresh[p].user = code.user

\* Once every refresh token of a family is rotated or revoked (an uninstall,
\* or /oauth/revoke of the last one), the family never grows again and none
\* of its dead access tokens comes back.
DeadFamiliesStayDead ==
    [][\A c \in Codes : FamilyDead(c) =>
          /\ FamilyDead(c)' /\ Family(c)' = Family(c)
          /\ \A p \in Family(c) :
                ledgerAccess[p].revokedAt # NoTime => ~CanRead(p)']_vars

\* The store, which forgets, implements the ledger, which does not: every
\* transaction changes what has been issued, spent, rotated and revoked in a
\* way that TokenLedger allows on timestamps alone.
ImplementsLedger == Ledger!Spec
=============================================================================
