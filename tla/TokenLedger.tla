----------------------------- MODULE TokenLedger -----------------------------
(***************************************************************************)
(* What the OAuth store promises, stated for a ledger that never forgets:  *)
(* every code and every token pair ever issued stays on record with its    *)
(* deadlines, and a request is granted or refused by looking at that       *)
(* record and at the clock.  Nothing is ever pruned here.  AuthService,    *)
(* whose store drops records eagerly and lazily, is shown to implement     *)
(* this module.                                                            *)
(***************************************************************************)
EXTENDS OAuthRecords

VARIABLES
    now, config,
    codes,     \* every code issued, by identity
    redeemed,  \* the codes presented to the token endpoint so far
    minting,   \* exchanges whose code is spent and whose pair is not minted
    access,    \* every access token issued
    refresh,   \* every refresh token issued
    lineage    \* for every pair, the code and the code or pair it came from

vars == <<now, config, codes, redeemed, minting, access, refresh, lineage>>

CodeUsable(c) ==
    c \in DOMAIN codes \ redeemed /\ now < codes[c].expiresAt

AccessUsable(p) ==
    /\ p \in DOMAIN access
    /\ now < access[p].expiresAt /\ access[p].revokedAt = NoTime
    /\ access[p].client \in DOMAIN config.clients
    /\ Opens(config.key, access[p].key)

\* A rotated or revoked refresh token is remembered through its grace period.
RefreshKnown(p) ==
    /\ p \in DOMAIN refresh
    /\ now < refresh[p].expiresAt
    /\ \/ refresh[p].revokedAt = NoTime
       \/ now - refresh[p].revokedAt <= RefreshGrace

RefreshGrants(p, client) ==
    /\ RefreshKnown(p)
    /\ refresh[p].client = client /\ client \in DOMAIN config.clients
    /\ Opens(config.key, refresh[p].key)

RefreshRotates(p, client) ==
    RefreshGrants(p, client) /\ refresh[p].revokedAt = NoTime

RefreshReplays(p, client) ==
    /\ RefreshGrants(p, client)
    /\ refresh[p].revokedAt # NoTime /\ refresh[p].rotationResponse # {}

-----------------------------------------------------------------------------

Init ==
    /\ now = 1 /\ config \in Configs
    /\ codes = EmptyDict /\ redeemed = {} /\ minting = {}
    /\ access = EmptyDict /\ refresh = EmptyDict /\ lineage = EmptyDict

Issue(c, client, redirectUri, challenge, user) ==
    /\ c \notin DOMAIN codes
    /\ \E cfg \in Configs : client \in DOMAIN cfg.clients
    /\ codes' = Put(codes, c,
           [client |-> client, redirectUri |-> redirectUri,
            codeChallenge |-> challenge, user |-> user,
            key |-> config.key, expiresAt |-> now + AuthCodeTtl])
    /\ UNCHANGED <<now, config, redeemed, minting, access, refresh, lineage>>

\* Presenting a code spends it, whether or not it is granted; a grant needs
\* the client, redirect URI and verifier the code is bound to.
Redeem(c) ==
    /\ CodeUsable(c)
    /\ redeemed' = redeemed \cup {c}
    /\ \/ minting' = minting
       \/ /\ codes[c].client \in DOMAIN config.clients
          /\ Opens(config.key, codes[c].key)
          /\ minting' = minting \cup {[code |-> c, client |-> codes[c].client,
                                       user |-> codes[c].user]}
    /\ UNCHANGED <<now, config, codes, access, refresh, lineage>>

WritePair(p, client, user, rest) ==
    /\ access' = Put(access, p,
           [client |-> client, user |-> user, key |-> config.key,
            expiresAt |-> now + TokenTtl, revokedAt |-> NoTime])
    /\ refresh' = Put(rest, p,
           [client |-> client, user |-> user, key |-> config.key,
            expiresAt |-> now + RefreshTtl, revokedAt |-> NoTime,
            rotationResponse |-> {}])

Mint(m, p) ==
    /\ m \in minting /\ p \notin DOMAIN lineage
    /\ minting' = minting \ {m}
    /\ WritePair(p, m.client, m.user, refresh)
    /\ lineage' = Put(lineage, p, [code |-> m.code, parent |-> m.code])
    /\ UNCHANGED <<now, config, codes, redeemed>>

\* The token response is lost: its code is spent and buys nothing.
Abandon(lost) ==
    /\ lost \subseteq minting /\ minting' = minting \ lost
    /\ UNCHANGED <<now, codes, redeemed, access, refresh, lineage>>

Rotate(p, q) ==
    /\ RefreshRotates(p, refresh[p].client) /\ q \notin DOMAIN lineage
    /\ WritePair(q, refresh[p].client, refresh[p].user,
           [refresh EXCEPT ![p] =
               [@ EXCEPT !.revokedAt = now, !.rotationResponse = {q}]])
    /\ lineage' = Put(lineage, q, [code |-> lineage[p].code, parent |-> p])
    /\ UNCHANGED <<now, config, codes, redeemed, minting>>

\* Revocation of the access tokens in A and of the refresh tokens in R:
\* /oauth/revoke names one token, an uninstall names those of a user.
Revoke(A, R) ==
    /\ \A p \in A : p \in DOMAIN access
                    /\ now < access[p].expiresAt /\ access[p].revokedAt = NoTime
    /\ \A p \in R : RefreshKnown(p)
    /\ access' = [p \in DOMAIN access |->
           IF p \in A THEN [access[p] EXCEPT !.revokedAt = now] ELSE access[p]]
    /\ refresh' = [p \in DOMAIN refresh |->
           IF p \in R THEN [refresh[p] EXCEPT !.revokedAt = now] ELSE refresh[p]]
    /\ UNCHANGED <<now, config, codes, redeemed, minting, lineage>>

RevokeUser(user) ==
    Revoke({p \in DOMAIN access : access[p].user = user
                /\ now < access[p].expiresAt /\ access[p].revokedAt = NoTime},
           {p \in DOMAIN refresh : refresh[p].user = user /\ RefreshKnown(p)})

Tick ==
    /\ now < MaxTime /\ now' = now + 1
    /\ UNCHANGED <<config, codes, redeemed, minting, access, refresh, lineage>>

Next ==
    \/ \E c \in Codes, client \in Clients, redirectUri \in RedirectUris,
         verifier \in Verifiers, user \in Users :
           Issue(c, client, redirectUri, S256(verifier), user)
    \/ \E c \in Codes : Redeem(c)
    \/ \E m \in minting, p \in Pairs : Mint(m, p)
    \/ \E lost \in SUBSET minting :
           Abandon(lost) /\ config' \in Configs
    \/ \E p \in DOMAIN refresh, q \in Pairs : Rotate(p, q)
    \/ \E p \in DOMAIN access : Revoke({p}, {})
    \/ \E p \in DOMAIN refresh : Revoke({}, {p})
    \/ \E user \in Users : RevokeUser(user)
    \/ Tick

Spec == Init /\ [][Next]_vars
=============================================================================
