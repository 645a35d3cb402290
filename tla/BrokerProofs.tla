------------------------------ MODULE BrokerProofs ------------------------------
(***************************************************************************)
(* Theorems about the broker, for any clients, users, lifetimes, clocks    *)
(* skews and any number of requests and webhook calls: it implements both  *)
(* of its components, signed URLs work as promised, and a webhook call     *)
(* ends what it should, for good, and nothing else.                        *)
(***************************************************************************)
EXTENDS Broker, AuthServiceProofs

\* The clock and the ledgers, which no transaction rewrites: dates, users and
\* origins stay, nothing is revived, and a new pair is dated now and continues
\* an exchange or a refresh token that can still be used.
Recorded ==
    /\ now <= now'
    /\ \A c \in DOMAIN ledgerCodes :
          c \in DOMAIN ledgerCodes' /\ ledgerCodes'[c] = ledgerCodes[c]
    /\ \A p \in DOMAIN lineage :
          /\ p \in DOMAIN lineage' /\ lineage'[p] = lineage[p]
          /\ ledgerAccess'[p].user = ledgerAccess[p].user
          /\ ledgerAccess'[p].expiresAt = ledgerAccess[p].expiresAt
          /\ ledgerRefresh'[p].expiresAt = ledgerRefresh[p].expiresAt
          /\ ledgerAccess[p].revokedAt # NoTime => ledgerAccess'[p].revokedAt # NoTime
          /\ ledgerRefresh[p].revokedAt # NoTime => ledgerRefresh'[p].revokedAt # NoTime
    /\ \A q \in DOMAIN lineage' \ DOMAIN lineage :
          /\ ledgerAccess'[q].expiresAt = now + TokenTtl
          /\ \/ \E m \in minting : lineage'[q].code = m.code
             \/ \E p \in DOMAIN lineage :
                   /\ lineage'[q].code = lineage[p].code
                   /\ ledgerRefresh[p].revokedAt = NoTime
                   /\ now < ledgerRefresh[p].expiresAt

\* Every transaction of AuthService does so: read off the ledger it implements.
LEMMA RecordedStep ==
    ASSUME IInv, [Next]_vars
    PROVE  Recorded
<1> USE DEF Recorded, NoTime, Ledger!NoTime
<1>1. /\ now \in Nat \ {0}
      /\ DOMAIN ledgerAccess = DOMAIN lineage /\ DOMAIN ledgerRefresh = DOMAIN lineage
      /\ ledgerAccess \in [DOMAIN lineage -> AccessRecord]
      /\ ledgerRefresh \in [DOMAIN lineage -> RefreshRecord]
    BY DEF IInv, TypeOK, StoreMatchesLedger, IsDict, Times
<1>2. [Ledger!Next]_(Ledger!vars)
    BY LedgerStep
<1>3. ASSUME NEW c \in Codes, NEW client \in Clients, NEW redirectUri \in RedirectUris,
             NEW verifier \in Verifiers, NEW user \in Users,
             Ledger!Issue(c, client, redirectUri, Ledger!S256(verifier), user)
      PROVE  Recorded
    BY <1>1, <1>3 DEF Ledger!Issue, Ledger!Put
<1>4. ASSUME NEW c \in Codes, Ledger!Redeem(c)
      PROVE  Recorded
    BY <1>1, <1>4 DEF Ledger!Redeem
<1>5. ASSUME NEW m \in minting, NEW p \in Pairs, Ledger!Mint(m, p)
      PROVE  Recorded
    BY <1>1, <1>5 DEF Ledger!Mint, Ledger!WritePair, Ledger!Put
<1>6. ASSUME NEW lost \in SUBSET minting, Ledger!Abandon(lost)
      PROVE  Recorded
    BY <1>1, <1>6 DEF Ledger!Abandon
<1>7. ASSUME NEW p \in DOMAIN ledgerRefresh, NEW q \in Pairs, Ledger!Rotate(p, q)
      PROVE  Recorded
    <2> DEFINE rest == [ledgerRefresh EXCEPT ![p] =
                           [@ EXCEPT !.revokedAt = now, !.rotationResponse = {q}]]
    <2>1. /\ ledgerRefresh[p].revokedAt = NoTime /\ now < ledgerRefresh[p].expiresAt
          /\ q \notin DOMAIN lineage
        BY <1>7 DEF Ledger!Rotate, Ledger!RefreshRotates, Ledger!RefreshGrants,
                    Ledger!RefreshKnown
    <2>2. /\ DOMAIN rest = DOMAIN lineage
          /\ \A x \in DOMAIN lineage :
                /\ rest[x].expiresAt = ledgerRefresh[x].expiresAt
                /\ ledgerRefresh[x].revokedAt # NoTime => rest[x].revokedAt # NoTime
        BY <1>1, <2>1 DEF RefreshRecord
    <2>3. /\ lineage' = Ledger!Put(lineage, q, [code |-> lineage[p].code, parent |-> p])
          /\ now' = now /\ ledgerCodes' = ledgerCodes
          /\ Ledger!WritePair(q, ledgerRefresh[p].client, ledgerRefresh[p].user, rest)
        BY <1>7 DEF Ledger!Rotate
    <2> HIDE DEF rest
    <2>4. /\ DOMAIN lineage' = DOMAIN lineage \cup {q} /\ lineage'[q].code = lineage[p].code
          /\ \A x \in DOMAIN lineage : lineage'[x] = lineage[x]
        BY <2>1, <2>3 DEF Ledger!Put
    <2>5. /\ ledgerAccess'[q].expiresAt = now + TokenTtl
          /\ \A x \in DOMAIN lineage : ledgerAccess'[x] = ledgerAccess[x]
        BY <1>1, <2>1, <2>3 DEF Ledger!WritePair, Ledger!Put
    <2>6. \A x \in DOMAIN lineage : ledgerRefresh'[x] = rest[x]
        BY <1>1, <2>1, <2>2, <2>3 DEF Ledger!WritePair, Ledger!Put
    <2>7. p \in DOMAIN lineage
        BY <1>1
    <2> QED BY <1>1, <2>1, <2>2, <2>3, <2>4, <2>5, <2>6, <2>7
<1>8. ASSUME NEW A, NEW R, Ledger!Revoke(A, R)
      PROVE  Recorded
    <2>1. \A p \in DOMAIN lineage :
              /\ ledgerAccess'[p] \in {ledgerAccess[p],
                                       [ledgerAccess[p] EXCEPT !.revokedAt = now]}
              /\ ledgerRefresh'[p] \in {ledgerRefresh[p],
                                        [ledgerRefresh[p] EXCEPT !.revokedAt = now]}
        BY <1>1, <1>8 DEF Ledger!Revoke
    <2>2. lineage' = lineage /\ now' = now /\ ledgerCodes' = ledgerCodes
        BY <1>8 DEF Ledger!Revoke
    <2> QED BY <1>1, <2>1, <2>2 DEF AccessRecord, RefreshRecord
<1>9. CASE Ledger!Tick
    BY <1>1, <1>9 DEF Ledger!Tick
<1>10. CASE UNCHANGED Ledger!vars
    BY <1>1, <1>10 DEF Ledger!vars
<1> QED BY <1>2, <1>3, <1>4, <1>5, <1>6, <1>7, <1>8, <1>9, <1>10
        DEF Ledger!Next, Ledger!RevokeUser

-----------------------------------------------------------------------------
(* The broker's steps are steps of its components. *)

LEMMA AuthServiceStep == [BrokerNext]_brokerVars => [Next]_vars
<1> SUFFICES ASSUME BrokerNext PROVE [Next]_vars
    BY DEF brokerVars
<1>1. CASE OAuthRoute
    BY <1>1 DEF OAuthRoute, Next
<1>2. CASE TokenRoute
    BY <1>2 DEF TokenRoute, Next
<1>3. CASE PruneThread
    BY <1>3 DEF PruneThread, Next
<1>4. ASSUME NEW p \in Pairs, BeginContent(p)
      PROVE  [Next]_vars
    BY <1>4 DEF BeginContent, Next
<1>5. ASSUME NEW request \in Arriving, Webhook(request)
      PROVE  [Next]_vars
    <2>1. request.body \in Users /\ RevokeTokensForUser(request.body)
        BY <1>5 DEF Arriving, Webhook
    <2> QED BY <2>1 DEF Next
<1>6. CASE BrokerRestart \/ BrokerTick
    BY <1>6 DEF BrokerRestart, BrokerTick, Next
<1>7. CASE \/ \E p \in Pairs, g \in Grants : CreateGrant(p, g)
           \/ EndContent \/ AssetRoute
           \/ \E user \in Users, sentAt \in (1 - Skew) .. (MaxTime + Skew) :
                  CanvaSends(user, sentAt)
    BY <1>7 DEF CreateGrant, EndContent, AssetRoute, CanvaSends
<1> QED BY <1>1, <1>2, <1>3, <1>4, <1>5, <1>6, <1>7 DEF BrokerNext

\* All that is proved of AuthService holds in the broker: its routes, which
\* also serve content, assets and webhook calls, only restrict when its
\* transactions come.
THEOREM ImplementsAuthService == BrokerSpec => Spec
<1>1. BrokerInit => Init
    BY DEF BrokerInit
<1> QED BY <1>1, AuthServiceStep, PTL DEF BrokerSpec, Spec

LEMMA AuthInvariance == BrokerSpec => []IInv
BY ImplementsAuthService, Invariance, PTL

-----------------------------------------------------------------------------
(* Signed URLs. *)

HandedOut == {url.grantId : url \in urls}

\* A grant is handed out once, its URL is signed with both its parameters, and
\* the store holds it, with that deadline, for as long as it counts, unless an
\* uninstall has expired it.
GrantInv ==
    /\ AssetService!TypeOK
    /\ \A u, v \in urls : u.grantId = v.grantId => u = v
    /\ \A u \in urls : \E key \in Secrets :
          u.sig = AssetService!Signature(key, u.grantId, u.expires)
    /\ \A u \in urls :
          u.grantId \in DOMAIN assetGrants =>
              assetGrants[u.grantId].expiresAt
                  = IF u.grantId \in revoked THEN 0 ELSE u.expires
    /\ \A u \in urls :
          now < u.expires /\ u.grantId \notin revoked => u.grantId \in DOMAIN assetGrants

\* What pruning leaves is unchanged (_prune_expired_grants).
LEMMA PrunedGrants ==
    /\ DOMAIN AssetService!Pruned =
           {g \in DOMAIN assetGrants : now < assetGrants[g].expiresAt}
    /\ \A g \in DOMAIN AssetService!Pruned : AssetService!Pruned[g] = assetGrants[g]
BY DEF AssetService!Pruned, AssetService!Restrict

\* Pruning loses nothing that counts.
LEMMA GrantsPrunedKept ==
    ASSUME GrantInv, assetGrants' = AssetService!Pruned,
           UNCHANGED <<now, secret, urls, revoked>>,
           fetching' \in [Requests -> SUBSET HandedOut]
    PROVE  GrantInv'
<1>1. /\ DOMAIN assetGrants' = {g \in DOMAIN assetGrants : now < assetGrants[g].expiresAt}
      /\ \A g \in DOMAIN assetGrants' : assetGrants'[g] = assetGrants[g]
    BY PrunedGrants
<1>2. assetGrants' = [g \in DOMAIN assetGrants' |-> assetGrants'[g]]
    BY DEF AssetService!Pruned, AssetService!Restrict
<1>3. AssetService!TypeOK'
    BY <1>1, <1>2 DEF GrantInv, AssetService!TypeOK, HandedOut
<1>4. \A u \in urls : now < u.expires /\ u.grantId \notin revoked
          => u.grantId \in DOMAIN assetGrants'
    BY <1>1 DEF GrantInv
<1> QED BY <1>1, <1>3, <1>4 DEF GrantInv

\* A request that is served fetches a grant that was handed out.
LEMMA PresentedHandedOut ==
    ASSUME NEW url \in AssetService!Presented
    PROVE  url.grantId \in HandedOut
BY DEF AssetService!Presented, HandedOut

LEMMA GrantStep == GrantInv /\ [AssetService!Next]_(AssetService!vars) => GrantInv'
<1> SUFFICES ASSUME GrantInv, [AssetService!Next]_(AssetService!vars)
             PROVE  GrantInv'
    OBVIOUS
<1>t. /\ now \in Nat \ {0} /\ secret \in Secrets
      /\ DOMAIN assetGrants \subseteq HandedOut /\ HandedOut \subseteq Grants
      /\ revoked \subseteq HandedOut /\ fetching \in [Requests -> SUBSET HandedOut]
      /\ \A g \in DOMAIN assetGrants :
            assetGrants[g] \in [user : Users, expiresAt : AssetService!Deadlines \cup {0}]
    BY DEF GrantInv, AssetService!TypeOK, HandedOut, AssetService!Times, AssetService!Url
<1>1. ASSUME NEW g \in Grants, NEW user \in Users, AssetService!CreateGrant(g, user)
      PROVE  GrantInv'
    <2> DEFINE grant == AssetService!NewGrant(user)
               url == [grantId |-> g, expires |-> now + SignedUrlTtl,
                       sig |-> AssetService!Signature(secret, g, now + SignedUrlTtl)]
    <2>1. /\ now' = now /\ secret' = secret /\ fetching' = fetching /\ revoked' = revoked
          /\ urls' = urls \cup {url} /\ g \notin HandedOut
        BY <1>1 DEF AssetService!CreateGrant, AssetService!NewGrant, HandedOut
    <2>2. /\ DOMAIN assetGrants' = DOMAIN AssetService!Pruned \cup {g}
          /\ assetGrants' = [x \in DOMAIN assetGrants' |-> assetGrants'[x]]
          /\ assetGrants'[g] = [user |-> user, expiresAt |-> now + SignedUrlTtl]
          /\ \A x \in DOMAIN AssetService!Pruned : assetGrants'[x] = assetGrants[x]
        BY <1>1, <1>t, <2>1, PrunedGrants
        DEF AssetService!CreateGrant, AssetService!NewGrant
    <2>3. /\ now + SignedUrlTtl \in AssetService!Deadlines
          /\ AssetService!Signature(secret, g, now + SignedUrlTtl) \in AssetService!Signatures
        BY <1>t, BrokerAssumption, TtlAssumption
        DEF AssetService!Deadlines, AssetService!Signatures, GrantInv, AssetService!TypeOK,
            AssetService!Times
    <2>4. /\ url.grantId = g /\ url.expires = now + SignedUrlTtl
          /\ url.sig = AssetService!Signature(secret, url.grantId, url.expires)
          /\ url \in AssetService!Url
        BY <2>3 DEF AssetService!Url
    <2> HIDE DEF url
    <2>5. HandedOut' = HandedOut \cup {g}
        BY <2>1, <2>4 DEF HandedOut
    <2>6. AssetService!TypeOK'
        <3>1. urls' \subseteq AssetService!Url
            BY <2>1, <2>4 DEF GrantInv, AssetService!TypeOK
        <3>2. \A x \in DOMAIN assetGrants' :
                  assetGrants'[x] \in [user : Users, expiresAt : AssetService!Deadlines \cup {0}]
            BY <1>t, <2>2, <2>3, PrunedGrants
        <3>3. DOMAIN assetGrants' \subseteq HandedOut'
            BY <1>t, <2>2, <2>5, PrunedGrants
        <3>4. fetching' \in [Requests -> SUBSET HandedOut'] /\ revoked' \subseteq HandedOut'
            BY <1>t, <2>1, <2>5
        <3>5. HandedOut' \subseteq Grants
            BY <1>t, <2>5
        <3>6. now' \in AssetService!Times /\ secret' \in Secrets
            BY <2>1 DEF GrantInv, AssetService!TypeOK
        <3> QED BY <2>2, <3>1, <3>2, <3>3, <3>4, <3>5, <3>6
            DEF AssetService!TypeOK, HandedOut
    <2>7. \A u \in urls : u.grantId # g /\ u.grantId \in HandedOut
        BY <2>1 DEF HandedOut
    <2>8. \A u, v \in urls' : u.grantId = v.grantId => u = v
        BY <2>1, <2>4, <2>7 DEF GrantInv
    <2>9. \A u \in urls' : \E key \in Secrets :
              u.sig = AssetService!Signature(key, u.grantId, u.expires)
        BY <1>t, <2>1, <2>4 DEF GrantInv
    <2>10. \A u \in urls' : u.grantId \in DOMAIN assetGrants' =>
               assetGrants'[u.grantId].expiresAt
                   = IF u.grantId \in revoked' THEN 0 ELSE u.expires
        BY <1>t, <2>1, <2>2, <2>4, <2>7, PrunedGrants DEF GrantInv
    <2>11. \A u \in urls' : now' < u.expires /\ u.grantId \notin revoked'
               => u.grantId \in DOMAIN assetGrants'
        BY <1>t, <2>1, <2>2, <2>4, <2>7, PrunedGrants DEF GrantInv
    <2> QED BY <2>6, <2>8, <2>9, <2>10, <2>11 DEF GrantInv
<1>2. ASSUME NEW r \in Requests, NEW url \in AssetService!Presented,
             AssetService!ServeGrant(r, url)
      PROVE  GrantInv'
    <2>1. fetching' \in [Requests -> SUBSET HandedOut]
        BY <1>2, <1>t, PresentedHandedOut DEF AssetService!ServeGrant
    <2> QED BY <1>2, <2>1, GrantsPrunedKept DEF AssetService!ServeGrant
<1>3. ASSUME NEW url \in AssetService!Presented, AssetService!RefuseGrant(url)
      PROVE  GrantInv'
    BY <1>3, <1>t, GrantsPrunedKept DEF AssetService!RefuseGrant
<1>4. ASSUME NEW r \in Requests, AssetService!FetchEnds(r)
      PROVE  GrantInv'
    <2>1. fetching' \in [Requests -> SUBSET HandedOut]
        BY <1>4, <1>t DEF AssetService!FetchEnds
    <2> QED BY <1>4, <2>1 DEF AssetService!FetchEnds, GrantInv, AssetService!TypeOK, HandedOut
<1>5. ASSUME NEW user \in Users, AssetService!Uninstall(user)
      PROVE  GrantInv'
    <2> DEFINE ended == {g \in DOMAIN AssetService!Pruned : AssetService!Pruned[g].user = user}
    <2>1. /\ now' = now /\ secret' = secret /\ fetching' = fetching /\ urls' = urls
          /\ revoked' = revoked \cup ended
        BY <1>5 DEF AssetService!Uninstall
    <2>2. /\ DOMAIN assetGrants' = DOMAIN AssetService!Pruned
          /\ assetGrants' = [x \in DOMAIN assetGrants' |-> assetGrants'[x]]
          /\ \A x \in DOMAIN AssetService!Pruned :
                assetGrants'[x] = IF x \in ended THEN [assetGrants[x] EXCEPT !.expiresAt = 0]
                                  ELSE assetGrants[x]
        BY <1>5, PrunedGrants DEF AssetService!Uninstall, AssetService!ExpiredFor
    <2>3. ended \subseteq DOMAIN AssetService!Pruned
        OBVIOUS
    <2> HIDE DEF ended
    <2>4. AssetService!TypeOK'
        <3>1. \A x \in DOMAIN assetGrants' :
                  assetGrants'[x] \in [user : Users, expiresAt : AssetService!Deadlines \cup {0}]
            BY <1>t, <2>2, PrunedGrants
        <3>2. DOMAIN assetGrants' \subseteq HandedOut' /\ revoked' \subseteq HandedOut'
            BY <1>t, <2>1, <2>2, <2>3, PrunedGrants DEF HandedOut
        <3> QED BY <2>1, <2>2, <3>1, <3>2, <1>t DEF GrantInv, AssetService!TypeOK, HandedOut
    <2>5. \A u \in urls : u.grantId \in DOMAIN assetGrants' =>
              assetGrants'[u.grantId].expiresAt
                  = IF u.grantId \in revoked' THEN 0 ELSE u.expires
        <3>1. ASSUME NEW u \in urls, u.grantId \in DOMAIN assetGrants'
              PROVE  assetGrants'[u.grantId].expiresAt
                         = IF u.grantId \in revoked' THEN 0 ELSE u.expires
            <4>1. /\ u.grantId \in DOMAIN assetGrants
                  /\ assetGrants[u.grantId].expiresAt
                         = IF u.grantId \in revoked THEN 0 ELSE u.expires
                BY <2>2, <3>1, PrunedGrants DEF GrantInv
            <4>2. assetGrants[u.grantId] \in
                      [user : Users, expiresAt : AssetService!Deadlines \cup {0}]
                BY <1>t, <4>1
            <4> QED BY <2>1, <2>2, <3>1, <4>1, <4>2
        <3> QED BY <3>1
    <2>6. \A u \in urls : now < u.expires /\ u.grantId \notin revoked'
              => u.grantId \in DOMAIN assetGrants'
        BY <2>1, <2>2, PrunedGrants DEF GrantInv
    <2> QED BY <2>1, <2>4, <2>5, <2>6 DEF GrantInv
<1>6. CASE AssetService!Prune
    BY <1>6, <1>t, GrantsPrunedKept DEF AssetService!Prune
<1>7. CASE AssetService!Restart
    <2>1. fetching' \in [Requests -> SUBSET HandedOut]
        BY <1>7 DEF AssetService!Restart
    <2> QED BY <1>7, <2>1 DEF AssetService!Restart, GrantInv, AssetService!TypeOK, HandedOut
<1>8. CASE AssetService!Tick
    <2>1. now' \in AssetService!Times /\ now < now'
        BY <1>8, <1>t, TtlAssumption DEF AssetService!Tick, AssetService!Times
    <2>2. \A u \in urls : now' < u.expires => now < u.expires
        BY <1>8, <1>t, TtlAssumption
        DEF AssetService!Tick, GrantInv, AssetService!TypeOK, AssetService!Url,
            AssetService!Deadlines
    <2> QED BY <1>8, <2>1, <2>2 DEF AssetService!Tick, GrantInv, AssetService!TypeOK
<1>9. CASE UNCHANGED AssetService!vars
    BY <1>9 DEF AssetService!vars, GrantInv, AssetService!TypeOK
<1> QED BY <1>1, <1>2, <1>3, <1>4, <1>5, <1>6, <1>7, <1>8, <1>9 DEF AssetService!Next

-----------------------------------------------------------------------------
(* Sessions that have ended. *)

\* Neither token of the pair can be used any more.
Ended(p) ==
    /\ ledgerAccess[p].expiresAt <= now \/ ledgerAccess[p].revokedAt # NoTime
    /\ ledgerRefresh[p].expiresAt <= now \/ ledgerRefresh[p].revokedAt # NoTime

EndedFamily(c) == Family(c) # {} /\ \A p \in Family(c) : Ended(p)

LEMMA HistoryTypes ==
    ASSUME IInv
    PROVE  /\ now \in Nat \ {0}
           /\ DOMAIN ledgerAccess = DOMAIN lineage /\ DOMAIN ledgerRefresh = DOMAIN lineage
           /\ \A p \in DOMAIN lineage :
                 /\ p \in Pairs /\ lineage[p].code \in Codes
                 /\ ledgerAccess[p] \in AccessRecord /\ ledgerRefresh[p] \in RefreshRecord
                 /\ ledgerAccess[p].expiresAt \in Nat /\ ledgerRefresh[p].expiresAt \in Nat
           /\ \A c \in DOMAIN ledgerCodes : c \in Codes
<1>1. Deadlines \subseteq Nat
    BY DEF Deadlines
<1>2. \A p \in DOMAIN ledgerAccess : ledgerAccess[p] \in AccessRecord
    BY DEF IInv, TypeOK, IsDict
<1>3. \A p \in DOMAIN ledgerRefresh : ledgerRefresh[p] \in RefreshRecord
    BY DEF IInv, TypeOK, IsDict
<1>4. \A p \in DOMAIN lineage : p \in Pairs /\ lineage[p].code \in Codes
    BY DEF IInv, TypeOK, IsDict
<1>5. /\ now \in Nat \ {0} /\ \A c \in DOMAIN ledgerCodes : c \in Codes
      /\ DOMAIN ledgerAccess = DOMAIN lineage /\ DOMAIN ledgerRefresh = DOMAIN lineage
    BY DEF IInv, TypeOK, IsDict, Times, StoreMatchesLedger
<1> QED BY <1>1, <1>2, <1>3, <1>4, <1>5 DEF AccessRecord, RefreshRecord

\* What the store answers of a pair that has ended: it cannot be read or
\* rotated.
LEMMA EndedIsRefused ==
    ASSUME IInv, NEW p \in DOMAIN lineage, Ended(p)
    PROVE  ~CanRead(p) /\ \A client \in Clients : ~CanRotate(p, client)
<1>1. /\ p \in DOMAIN accessTokens => accessTokens[p] = ledgerAccess[p]
      /\ p \in DOMAIN refreshTokens => refreshTokens[p] = ledgerRefresh[p]
    BY DEF IInv, StoreMatchesLedger
<1>2. /\ now \in Nat /\ ledgerAccess[p].expiresAt \in Nat
      /\ ledgerRefresh[p].expiresAt \in Nat
    BY HistoryTypes
<1>3. p \notin DOMAIN PrunedAccess
    BY <1>1, <1>2, PrunedFacts DEF Ended
<1>4. p \in DOMAIN PrunedRefresh => refreshTokens[p].revokedAt # NoTime
    BY <1>1, <1>2, PrunedFacts DEF Ended
<1> QED BY <1>3, <1>4 DEF CanRead, CanRotate, RefreshFound

\* A family that has ended stays as it is: nothing in it can be continued.
LEMMA EndedFamilyStays ==
    ASSUME IInv, IInv', Recorded, NEW c, EndedFamily(c)
    PROVE  EndedFamily(c)' /\ Family(c)' = Family(c)
<1>1. now \in Nat /\ now' \in Nat /\ now <= now'
    BY HistoryTypes DEF Recorded, IInv, TypeOK, Times
<1>2. ASSUME NEW q \in DOMAIN lineage' \ DOMAIN lineage
      PROVE  lineage'[q].code # c
    <2>1. \A m \in minting : m.code # c
        BY DEF EndedFamily, Family, IInv, FamilyInv
    <2>2. ASSUME NEW p \in DOMAIN lineage, lineage[p].code = c
          PROVE  ~(ledgerRefresh[p].revokedAt = NoTime /\ now < ledgerRefresh[p].expiresAt)
        <3>1. Ended(p)
            BY <2>2 DEF EndedFamily, Family
        <3>2. ledgerRefresh[p].expiresAt \in Nat
            BY HistoryTypes
        <3> QED BY <1>1, <3>1, <3>2 DEF Ended
    <2> QED BY <2>1, <2>2 DEF Recorded
<1>3. Family(c)' = Family(c)
    BY <1>2 DEF Recorded, Family
<1>4. ASSUME NEW p \in Family(c)
      PROVE  Ended(p)'
    <2>1. p \in DOMAIN lineage /\ Ended(p)
        BY DEF EndedFamily, Family
    <2>2. ledgerAccess[p].expiresAt \in Nat /\ ledgerRefresh[p].expiresAt \in Nat
        BY <2>1, HistoryTypes
    <2>3. /\ ledgerAccess'[p].expiresAt = ledgerAccess[p].expiresAt
          /\ ledgerRefresh'[p].expiresAt = ledgerRefresh[p].expiresAt
          /\ ledgerAccess[p].revokedAt # NoTime => ledgerAccess'[p].revokedAt # NoTime
          /\ ledgerRefresh[p].revokedAt # NoTime => ledgerRefresh'[p].revokedAt # NoTime
        BY <2>1 DEF Recorded
    <2> QED BY <1>1, <2>1, <2>2, <2>3 DEF Ended
<1> QED BY <1>3, <1>4 DEF EndedFamily

\* A webhook call (revoke_tokens_for_user) ends the families of its user in which
\* anything was left to use: all of their pairs are the user's.
LEMMA UninstallEnds ==
    ASSUME IInv, NEW user \in Users, RevokeTokensForUser(user), NEW c \in LiveCodes(user)
    PROVE  /\ c \in Codes /\ ledgerCodes[c].user = user
           /\ \A p \in Family(c) : ledgerAccess[p].user = user
           /\ EndedFamily(c)' /\ Family(c)' = Family(c)
<1>1. PICK q \in DOMAIN lineage :
          lineage[q].code = c /\ (ledgerAccess[q].user = user \/ ledgerRefresh[q].user = user)
    <2>1. PICK q \in Of(PrunedAccess, user) \cup Of(PrunedRefresh, user) : lineage[q].code = c
        BY DEF LiveCodes
    <2>2. CASE q \in Of(PrunedAccess, user)
        BY <2>1, <2>2, PrunedFacts DEF Of, IInv, StoreMatchesLedger
    <2>3. CASE q \in Of(PrunedRefresh, user)
        BY <2>1, <2>3, PrunedFacts DEF Of, IInv, StoreMatchesLedger
    <2> QED BY <2>1, <2>2, <2>3
<1>2. c \in Codes /\ ledgerCodes[c].user = user
    BY <1>1, HistoryTypes DEF IInv, BindingInv, BindingPreserved
<1>3. \A p \in Family(c) : ledgerAccess[p].user = user /\ ledgerRefresh[p].user = user
    BY <1>2 DEF IInv, BindingInv, BindingPreserved, Family
<1>4. /\ lineage' = lineage /\ now' = now
      /\ ledgerAccess' = RevokedAt(ledgerAccess, Of(PrunedAccess, user))
      /\ ledgerRefresh' = RevokedAt(ledgerRefresh, Of(PrunedRefresh, user))
    BY DEF RevokeTokensForUser
<1>5. Family(c)' = Family(c) /\ Family(c) # {}
    BY <1>1, <1>4 DEF Family
<1>6. ASSUME NEW p \in Family(c)
      PROVE  Ended(p)'
    <2>1. /\ p \in DOMAIN lineage /\ now \in Nat \ {0}
          /\ DOMAIN ledgerAccess = DOMAIN lineage /\ DOMAIN ledgerRefresh = DOMAIN lineage
          /\ ledgerAccess[p] \in AccessRecord /\ ledgerRefresh[p] \in RefreshRecord
          /\ ledgerAccess[p].expiresAt \in Nat /\ ledgerRefresh[p].expiresAt \in Nat
        BY HistoryTypes DEF Family
    <2>2. ledgerAccess'[p].expiresAt <= now' \/ ledgerAccess'[p].revokedAt # NoTime
        <3>1. CASE p \in Of(PrunedAccess, user)
            <4>1. ledgerAccess'[p].revokedAt = now
                BY <1>4, <2>1, <3>1 DEF RevokedAt, AccessRecord
            <4> QED BY <2>1, <4>1 DEF NoTime
        <3>2. CASE p \notin Of(PrunedAccess, user)
            <4>1. ledgerAccess'[p] = ledgerAccess[p]
                BY <1>4, <2>1, <3>2 DEF RevokedAt
            <4>2. ~(now < ledgerAccess[p].expiresAt /\ ledgerAccess[p].revokedAt = NoTime)
                BY <1>3, <2>1, <3>2, PrunedFacts
                DEF Of, IInv, StoreMatchesLedger, StoreRetains
            <4> QED BY <1>4, <2>1, <4>1, <4>2
        <3> QED BY <3>1, <3>2
    <2>3. ledgerRefresh'[p].expiresAt <= now' \/ ledgerRefresh'[p].revokedAt # NoTime
        <3>1. CASE p \in Of(PrunedRefresh, user)
            <4>1. ledgerRefresh'[p].revokedAt = now
                BY <1>4, <2>1, <3>1 DEF RevokedAt, RefreshRecord
            <4> QED BY <2>1, <4>1 DEF NoTime
        <3>2. CASE p \notin Of(PrunedRefresh, user)
            <4>1. ledgerRefresh'[p] = ledgerRefresh[p]
                BY <1>4, <2>1, <3>2 DEF RevokedAt
            <4>2. ~(now < ledgerRefresh[p].expiresAt /\ ledgerRefresh[p].revokedAt = NoTime)
                BY <1>3, <2>1, <3>2, PrunedFacts
                DEF Of, IInv, StoreMatchesLedger, StoreRetains
            <4> QED BY <1>4, <2>1, <4>1, <4>2
        <3> QED BY <3>1, <3>2
    <2> QED BY <2>2, <2>3 DEF Ended
<1> QED BY <1>2, <1>3, <1>5, <1>6 DEF EndedFamily

-----------------------------------------------------------------------------
(* The inductive invariant of the composition. *)

\* A grant belongs to the user of the session whose request created it, and at
\* most one request holds the event loop.
OwnerInv ==
    /\ granting \subseteq DOMAIN lineage /\ \A p, q \in granting : p = q
    /\ granting = {} \/ minting = {}
    /\ DOMAIN origin = HandedOut /\ origin \in [DOMAIN origin -> DOMAIN lineage]
    /\ \A g \in DOMAIN assetGrants : assetGrants[g].user = ledgerAccess[origin[g]].user

\* Of a session that a webhook call has ended, neither a token nor a request nor
\* a signed URL is left.
EndInv ==
    \A ending \in endings :
        /\ EndedFamily(ending.code)
        /\ granting \cap Family(ending.code) = {}
        /\ \A url \in urls :
              origin[url.grantId] \in Family(ending.code)
                  => url.grantId \in revoked \/ url.expires <= now

\* No pair is dated in the future.
RecentInv ==
    /\ \A p \in DOMAIN lineage : ledgerAccess[p].expiresAt <= now + TokenTtl
    /\ \A ending \in endings : ending.code \in DOMAIN ledgerCodes
    /\ OnlyRecentUninstallsEndSessions

LogTypes ==
    /\ sent \subseteq Uninstalls
    /\ endings \subseteq [code : Codes, sentAt : SUBSET Int, signed : BOOLEAN]

BrokerInv == IInv /\ GrantInv /\ OwnerInv /\ LogTypes /\ EndInv /\ RecentInv

LEMMA BrokerInitInv == BrokerInit => BrokerInv
<1> SUFFICES ASSUME BrokerInit PROVE BrokerInv
    OBVIOUS
<1>1. Init /\ AssetService!Init
    BY DEF BrokerInit
<1>2. /\ urls = {} /\ granting = {} /\ origin = EmptyDict /\ sent = {} /\ endings = {}
      /\ DOMAIN assetGrants = {} /\ lineage = EmptyDict
    BY <1>1 DEF BrokerInit, AssetService!Init, Init
<1>3. IInv
    BY <1>1, TtlAssumption, ConfigsAssumption
    DEF Init, IInv, TypeOK, StoreMatchesLedger, StoreRetains, FamilyInv, LineageInv,
        BindingInv, BindingPreserved, EmptyDict, IsDict, Times
<1>4. GrantInv
    BY <1>1, <1>2, TtlAssumption
    DEF AssetService!Init, GrantInv, AssetService!TypeOK, AssetService!Times
<1>5. OwnerInv
    BY <1>2 DEF OwnerInv, HandedOut, EmptyDict
<1>6. LogTypes /\ EndInv /\ RecentInv
    BY <1>2 DEF LogTypes, EndInv, RecentInv, OnlyRecentUninstallsEndSessions, EmptyDict
<1> QED BY <1>3, <1>4, <1>5, <1>6 DEF BrokerInv

\* What a step does that neither creates grants nor ends sessions.
Quiet ==
    /\ urls' = urls /\ origin' = origin /\ endings' = endings /\ sent \subseteq sent'
    /\ granting' \subseteq granting /\ (granting' = {} \/ minting' = {})
    /\ revoked \subseteq revoked' /\ DOMAIN assetGrants' \subseteq DOMAIN assetGrants
    /\ \A g \in DOMAIN assetGrants' : assetGrants'[g].user = assetGrants[g].user

\* Such a step keeps who owns what, ...
LEMMA OwnerKept ==
    ASSUME IInv, GrantInv, OwnerInv, Recorded, urls' = urls, origin' = origin,
           granting' \subseteq DOMAIN lineage, \A p, q \in granting' : p = q,
           granting' = {} \/ minting' = {},
           DOMAIN assetGrants' \subseteq DOMAIN assetGrants,
           \A g \in DOMAIN assetGrants' : assetGrants'[g].user = assetGrants[g].user
    PROVE  OwnerInv'
<1>1. DOMAIN lineage \subseteq DOMAIN lineage'
    BY DEF Recorded
<1>2. origin' \in [DOMAIN origin' -> DOMAIN lineage']
    BY <1>1 DEF OwnerInv
<1>3. DOMAIN origin' = HandedOut'
    BY DEF OwnerInv, HandedOut
<1>4. \A g \in DOMAIN assetGrants' :
          origin[g] \in DOMAIN lineage /\ assetGrants[g].user = ledgerAccess[origin[g]].user
    BY DEF OwnerInv, GrantInv, AssetService!TypeOK, HandedOut
<1>5. \A g \in DOMAIN assetGrants' :
          assetGrants'[g].user = ledgerAccess'[origin'[g]].user
    BY <1>4 DEF Recorded
<1> QED BY <1>1, <1>2, <1>3, <1>5 DEF OwnerInv

\* ... the end of what has ended ...
LEMMA EndKept ==
    ASSUME IInv, IInv', GrantInv, OwnerInv, EndInv, Recorded,
           NEW ending \in endings,
           granting' \cap Family(ending.code) = {}, revoked \subseteq revoked',
           \A url \in urls' :
               \/ url \in urls /\ origin'[url.grantId] = origin[url.grantId]
               \/ origin'[url.grantId] \notin Family(ending.code)
    PROVE  /\ EndedFamily(ending.code)'
           /\ granting' \cap Family(ending.code)' = {}
           /\ \A url \in urls' :
                 origin'[url.grantId] \in Family(ending.code)'
                     => url.grantId \in revoked' \/ url.expires <= now'
<1>1. EndedFamily(ending.code)' /\ Family(ending.code)' = Family(ending.code)
    BY EndedFamilyStays DEF EndInv
<1>2. now \in Nat /\ now' \in Nat /\ now <= now'
    BY HistoryTypes DEF Recorded, IInv, TypeOK, Times
<1>3. \A url \in urls : url.expires \in Nat
    BY DEF GrantInv, AssetService!TypeOK, AssetService!Url, AssetService!Deadlines
<1>4. ASSUME NEW url \in urls', origin'[url.grantId] \in Family(ending.code)
      PROVE  url.grantId \in revoked' \/ url.expires <= now'
    <2>1. url \in urls /\ origin[url.grantId] \in Family(ending.code)
        BY <1>4
    <2>2. url.grantId \in revoked \/ url.expires <= now
        BY <2>1 DEF EndInv
    <2> QED BY <1>2, <1>3, <2>1, <2>2
<1> QED BY <1>1, <1>4

\* ... and what was recorded of why and when.
LEMMA RecentKept ==
    ASSUME IInv, IInv', EndInv, RecentInv, Recorded, NEW ending \in endings, sent \subseteq sent'
    PROVE  /\ ending.code \in DOMAIN ledgerCodes'
           /\ ending.signed =>
                 \E call \in sent' :
                    /\ call.user = ledgerCodes'[ending.code].user
                    /\ {call.sentAt} = ending.sentAt
                    /\ \A begun \in Begun(ending.code)' : begun < call.sentAt + Tolerance
<1>1. ending.code \in DOMAIN ledgerCodes'
      /\ ledgerCodes'[ending.code] = ledgerCodes[ending.code]
    BY DEF Recorded, RecentInv
<1>2. Family(ending.code)' = Family(ending.code)
    BY EndedFamilyStays DEF EndInv
<1>3. Begun(ending.code)' = Begun(ending.code)
    <2>1. \A p \in Family(ending.code) :
              /\ lineage'[p] = lineage[p]
              /\ ledgerAccess'[p].expiresAt = ledgerAccess[p].expiresAt
        BY DEF Recorded, Family
    <2> QED BY <1>2, <2>1 DEF Begun
<1> QED BY <1>1, <1>3 DEF RecentInv, OnlyRecentUninstallsEndSessions

LEMMA DatesKept ==
    ASSUME IInv, IInv', RecentInv, Recorded
    PROVE  \A p \in DOMAIN lineage' : ledgerAccess'[p].expiresAt <= now' + TokenTtl
<1>1. now \in Nat /\ now' \in Nat /\ now <= now' /\ TokenTtl \in Nat
    BY HistoryTypes, TtlAssumption DEF Recorded, IInv, TypeOK, Times
<1>2. \A p \in DOMAIN lineage : ledgerAccess[p].expiresAt \in Nat
    BY HistoryTypes
<1> QED BY <1>1, <1>2 DEF Recorded, RecentInv

LEMMA QuietStep ==
    ASSUME IInv, IInv', GrantInv, OwnerInv, EndInv, RecentInv, Recorded, Quiet
    PROVE  OwnerInv' /\ EndInv' /\ RecentInv'
<1>1. OwnerInv'
    BY OwnerKept DEF Quiet, OwnerInv
<1>2. EndInv'
    <2>1. ASSUME NEW ending \in endings
          PROVE  /\ granting' \cap Family(ending.code) = {} /\ revoked \subseteq revoked'
                 /\ \A url \in urls' : url \in urls /\ origin'[url.grantId] = origin[url.grantId]
        BY DEF Quiet, EndInv
    <2> QED BY <2>1, EndKept DEF Quiet, EndInv
<1>3. RecentInv'
    BY RecentKept, DatesKept DEF Quiet, RecentInv, OnlyRecentUninstallsEndSessions
<1> QED BY <1>1, <1>2, <1>3

\* All steps but three are quiet.
LEMMA QuietActions ==
    ASSUME OwnerInv, BrokerNext
    PROVE  \/ Quiet
           \/ \E p \in Pairs : BeginContent(p)
           \/ \E p \in Pairs, g \in Grants : CreateGrant(p, g)
           \/ \E request \in Arriving : Webhook(request)
<1> USE DEF grantVars
<1>1. GrantsPruned /\ (granting = {} \/ minting' = {}) => Quiet
    BY PrunedGrants DEF GrantsPruned, AssetService!Prune, Quiet
<1>2. CASE OAuthRoute
    BY <1>1, <1>2 DEF OAuthRoute, LoopFree
<1>3. CASE TokenRoute
    <2>1. granting = {}
        BY <1>3 DEF TokenRoute, OwnerInv
    <2>2. CASE \E m \in minting, p \in Pairs : CreateTokenPair(m, p) /\ GrantsPruned
        BY <1>1, <2>1, <2>2
    <2>3. CASE \E m \in minting :
                   /\ ExchangeAborted(m)
                   /\ UNCHANGED <<grantVars, granting, origin, sent, endings>>
        BY <2>1, <2>3 DEF Quiet
    <2> QED BY <1>3, <2>2, <2>3 DEF TokenRoute
<1>4. CASE PruneThread
    BY <1>1, <1>4 DEF PruneThread, PruneOnly, OwnerInv
<1>5. CASE EndContent
    BY <1>5 DEF EndContent, Quiet
<1>6. CASE AssetRoute
    <2>1. /\ urls' = urls /\ revoked' = revoked
          /\ assetGrants' = assetGrants \/ assetGrants' = AssetService!Pruned
        BY <1>6 DEF AssetRoute, AssetService!ServeGrant, AssetService!RefuseGrant,
                    AssetService!FetchEnds
    <2> QED BY <1>6, <2>1, PrunedGrants DEF AssetRoute, LoopFree, Quiet
<1>7. ASSUME NEW user \in Users, NEW sentAt \in (1 - Skew) .. (MaxTime + Skew),
             CanvaSends(user, sentAt)
      PROVE  Quiet
    BY <1>7 DEF CanvaSends, Quiet, vars, OwnerInv
<1>8. CASE BrokerRestart
    BY <1>8 DEF BrokerRestart, AssetService!Restart, Quiet
<1>9. CASE BrokerTick
    BY <1>9 DEF BrokerTick, Tick, Quiet, OwnerInv
<1> QED BY <1>2, <1>3, <1>4, <1>5, <1>6, <1>7, <1>8, <1>9 DEF BrokerNext

\* A request may only begin for a session that has not ended.
LEMMA BeginStep ==
    ASSUME IInv, IInv', GrantInv, OwnerInv, EndInv, RecentInv, Recorded,
           NEW p \in Pairs, BeginContent(p)
    PROVE  OwnerInv' /\ EndInv' /\ RecentInv'
<1>1. /\ CanRead(p) /\ granting' = {p} /\ minting' = {}
      /\ urls' = urls /\ origin' = origin /\ endings' = endings /\ sent' = sent
      /\ revoked' = revoked /\ assetGrants' = AssetService!Pruned
    BY DEF BeginContent, LoopFree, PruneOnly, AssetService!Prune
<1>2. p \in DOMAIN lineage
    BY <1>1, PrunedFacts DEF CanRead, IInv, StoreMatchesLedger
<1>3. OwnerInv'
    BY <1>1, <1>2, PrunedGrants, OwnerKept
<1>4. EndInv'
    <2>1. ASSUME NEW ending \in endings
          PROVE  granting' \cap Family(ending.code) = {}
        <3>1. p \notin Family(ending.code)
            BY <1>1, <1>2, EndedIsRefused DEF EndInv, EndedFamily
        <3> QED BY <1>1, <3>1
    <2> QED BY <1>1, <2>1, EndKept DEF EndInv
<1>5. RecentInv'
    BY <1>1, RecentKept, DatesKept DEF RecentInv, OnlyRecentUninstallsEndSessions
<1> QED BY <1>3, <1>4, <1>5

\* A grant is created for the session of the request that holds the loop.
LEMMA CreateStep ==
    ASSUME IInv, IInv', GrantInv, OwnerInv, EndInv, RecentInv, Recorded,
           NEW p \in Pairs, NEW g \in Grants, CreateGrant(p, g)
    PROVE  OwnerInv' /\ EndInv' /\ RecentInv'
<1>1. /\ p \in granting /\ AssetService!CreateGrant(g, ledgerAccess[p].user)
      /\ origin' = Put(origin, g, p) /\ granting' = granting /\ endings' = endings
      /\ sent' = sent /\ minting' = minting /\ now' = now
      /\ lineage' = lineage /\ ledgerAccess' = ledgerAccess
    BY DEF CreateGrant, vars, history
<1>2. /\ revoked' = revoked /\ g \notin HandedOut
      /\ \E url : url.grantId = g /\ urls' = urls \cup {url}
      /\ DOMAIN assetGrants' = DOMAIN AssetService!Pruned \cup {g}
      /\ assetGrants'[g].user = ledgerAccess[p].user
      /\ \A x \in DOMAIN assetGrants' \ {g} : assetGrants'[x] = assetGrants[x]
    BY <1>1, PrunedGrants DEF AssetService!CreateGrant, AssetService!NewGrant, HandedOut
<1>3. /\ HandedOut' = HandedOut \cup {g}
      /\ \A url \in urls' : url \in urls \/ url.grantId = g
      /\ \A url \in urls : url.grantId # g
    BY <1>2 DEF HandedOut
<1>4. p \in DOMAIN lineage /\ DOMAIN origin = HandedOut
    BY <1>1 DEF OwnerInv
<1>5. /\ DOMAIN origin' = HandedOut' /\ origin'[g] = p
      /\ \A x \in HandedOut : origin'[x] = origin[x]
      /\ origin' = [x \in DOMAIN origin' |-> origin'[x]]
    BY <1>1, <1>2, <1>3, <1>4 DEF Put
<1>6. OwnerInv'
    <2>1. \A x \in DOMAIN origin' : origin'[x] \in DOMAIN lineage'
        BY <1>1, <1>3, <1>4, <1>5 DEF OwnerInv
    <2>2. \A x \in DOMAIN assetGrants' :
              assetGrants'[x].user = ledgerAccess'[origin'[x]].user
        <3>1. ASSUME NEW x \in DOMAIN assetGrants', x # g
              PROVE  assetGrants'[x].user = ledgerAccess'[origin'[x]].user
            <4>1. x \in DOMAIN assetGrants /\ x \in HandedOut
                BY <1>2, <3>1, PrunedGrants DEF GrantInv, AssetService!TypeOK, HandedOut
            <4> QED BY <1>1, <1>2, <1>5, <3>1, <4>1 DEF OwnerInv
        <3>2. assetGrants'[g].user = ledgerAccess'[origin'[g]].user
            BY <1>1, <1>2, <1>5
        <3> QED BY <3>1, <3>2
    <2> QED BY <1>1, <1>5, <2>1, <2>2 DEF OwnerInv
<1>7. EndInv'
    <2>1. ASSUME NEW ending \in endings
          PROVE  \A url \in urls' :
                     \/ url \in urls /\ origin'[url.grantId] = origin[url.grantId]
                     \/ origin'[url.grantId] \notin Family(ending.code)
        <3>1. p \notin Family(ending.code)
            BY <1>1 DEF EndInv
        <3> QED BY <1>3, <1>5, <3>1 DEF HandedOut
    <2>2. \A ending \in endings : granting' \cap Family(ending.code) = {}
        BY <1>1 DEF EndInv
    <2> QED BY <1>1, <1>2, <2>1, <2>2, EndKept DEF EndInv
<1>8. RecentInv'
    BY <1>1, RecentKept, DatesKept DEF RecentInv, OnlyRecentUninstallsEndSessions
<1> QED BY <1>6, <1>7, <1>8

\* Outside development a webhook call is accepted only if Canva has sent one for
\* this user with this date, and less than Tolerance ago
\* (verify_canva_post_request).
LEMMA AcceptedWasSent ==
    ASSUME IInv, LogTypes, NEW request \in Arriving, Accepted(request), ~config.dev
    PROVE  \E call \in sent : /\ call.user = request.body
                             /\ {call.sentAt} = request.timestamp
                             /\ now < call.sentAt + Tolerance
<1> DEFINE verification == Verification[config]
<1>1. now \in Nat /\ config \in Configs /\ Tolerance \in Nat
    BY HistoryTypes, BrokerAssumption DEF IInv, TypeOK
<1>2. verification.mode = "required"
    BY <1>1, BrokerAssumption
<1>3. /\ IsValidTimestamp(request.timestamp, now)
      /\ SignatureMatches(verification.clientSecret, request)
    BY <1>2 DEF Accepted, Verify
<1>4. PICK timestamp \in request.timestamp :
          <<verification.clientSecret, timestamp, request.body>> \in request.signatures
    BY <1>3 DEF SignatureMatches, CalculateSignature
<1>5. /\ request.signatures \in {{}} \cup {{SignatureOf(call)} : call \in sent}
      /\ request.timestamp \in {{}, {now}} \cup {{call.sentAt} : call \in sent}
    BY DEF Arriving
<1>6. PICK call \in sent : call.sentAt = timestamp /\ call.user = request.body
    BY <1>4, <1>5 DEF SignatureOf, CalculateSignature
<1>7. request.timestamp = {call.sentAt}
    BY <1>4, <1>5, <1>6
<1>8. call.sentAt \in Int
    BY <1>6, BrokerAssumption, TtlAssumption DEF LogTypes, Uninstalls
<1>9. now < call.sentAt + Tolerance
    BY <1>1, <1>3, <1>7, <1>8 DEF IsValidTimestamp, Abs
<1> QED BY <1>6, <1>7, <1>9

\* A webhook call ends families, and every signed URL of theirs with them.
LEMMA WebhookStep ==
    ASSUME IInv, IInv', GrantInv, OwnerInv, EndInv, RecentInv, LogTypes, Recorded,
           NEW request \in Arriving, Webhook(request)
    PROVE  OwnerInv' /\ EndInv' /\ RecentInv'
<1> DEFINE user == request.body
<1>1. user \in Users
    BY DEF Arriving
<1>2. /\ granting = {} /\ granting' = {} /\ Accepted(request) /\ origin' = origin
      /\ sent' = sent /\ RevokeTokensForUser(user) /\ AssetService!Uninstall(user)
      /\ endings' = endings \cup [code : LiveCodes(user), sentAt : {request.timestamp},
                                 signed : {~config.dev}]
    BY DEF Webhook, LoopFree
<1> HIDE DEF user
<1>3. /\ urls' = urls /\ now' = now
      /\ revoked' = revoked \cup
             {g \in DOMAIN AssetService!Pruned : AssetService!Pruned[g].user = user}
      /\ DOMAIN assetGrants' = DOMAIN AssetService!Pruned
      /\ \A g \in DOMAIN assetGrants' :
            assetGrants'[g] \in {AssetService!Pruned[g],
                                [AssetService!Pruned[g] EXCEPT !.expiresAt = 0]}
    BY <1>2 DEF AssetService!Uninstall, AssetService!ExpiredFor
<1>4. /\ DOMAIN assetGrants' \subseteq DOMAIN assetGrants
      /\ \A g \in DOMAIN assetGrants' : assetGrants'[g].user = assetGrants[g].user
    <2>1. \A g \in DOMAIN assetGrants :
              assetGrants[g] \in [user : Users, expiresAt : AssetService!Deadlines \cup {0}]
        BY DEF GrantInv, AssetService!TypeOK
    <2> QED BY <1>3, <2>1, PrunedGrants
<1>5. OwnerInv'
    BY <1>2, <1>3, <1>4, OwnerKept
<1>6. ASSUME NEW ending \in endings' \ endings
      PROVE  /\ ending.code \in LiveCodes(user) /\ ending.sentAt = request.timestamp
             /\ ending.signed = ~config.dev
    BY <1>2
<1>7. EndInv'
    <2>1. ASSUME NEW ending \in endings
          PROVE  /\ EndedFamily(ending.code)'
                 /\ granting' \cap Family(ending.code)' = {}
                 /\ \A url \in urls' :
                       origin'[url.grantId] \in Family(ending.code)'
                           => url.grantId \in revoked' \/ url.expires <= now'
        BY <1>2, <1>3, EndKept
    <2>2. ASSUME NEW ending \in endings' \ endings
          PROVE  /\ EndedFamily(ending.code)'
                 /\ granting' \cap Family(ending.code)' = {}
                 /\ \A url \in urls' :
                       origin'[url.grantId] \in Family(ending.code)'
                           => url.grantId \in revoked' \/ url.expires <= now'
        <3>1. /\ EndedFamily(ending.code)' /\ Family(ending.code)' = Family(ending.code)
              /\ \A p \in Family(ending.code) : ledgerAccess[p].user = user
            BY <1>1, <1>2, <1>6, UninstallEnds
        <3>2. ASSUME NEW url \in urls, origin[url.grantId] \in Family(ending.code),
                     url.grantId \notin revoked, ~(url.expires <= now)
              PROVE  url.grantId \in revoked'
            <4>1. now \in Nat /\ url.expires \in Nat
                BY HistoryTypes
                DEF GrantInv, AssetService!TypeOK, AssetService!Url, AssetService!Deadlines
            <4>2. /\ url.grantId \in DOMAIN assetGrants
                  /\ assetGrants[url.grantId].expiresAt = url.expires
                BY <3>2, <4>1 DEF GrantInv
            <4>3. /\ url.grantId \in DOMAIN AssetService!Pruned
                  /\ AssetService!Pruned[url.grantId] = assetGrants[url.grantId]
                BY <3>2, <4>1, <4>2, PrunedGrants
            <4>4. assetGrants[url.grantId].user = user
                BY <3>1, <3>2, <4>2 DEF OwnerInv
            <4> QED BY <1>3, <4>3, <4>4
        <3> QED BY <1>2, <1>3, <3>1, <3>2
    <2> QED BY <2>1, <2>2 DEF EndInv
<1>8. RecentInv'
    <2>1. ASSUME NEW ending \in endings' \ endings
          PROVE  /\ ending.code \in DOMAIN ledgerCodes'
                 /\ ending.signed =>
                       \E call \in sent' :
                          /\ call.user = ledgerCodes'[ending.code].user
                          /\ {call.sentAt} = ending.sentAt
                          /\ \A begun \in Begun(ending.code)' : begun < call.sentAt + Tolerance
        <3>1. /\ ledgerCodes[ending.code].user = user
              /\ Family(ending.code)' = Family(ending.code) /\ EndedFamily(ending.code)'
            BY <1>1, <1>2, <1>6, UninstallEnds
        <3>2. ending.code \in DOMAIN ledgerCodes
            <4>1. PICK p \in DOMAIN lineage : lineage[p].code = ending.code
                BY <3>1 DEF EndedFamily, Family
            <4> QED BY <4>1 DEF IInv, FamilyInv, StoreMatchesLedger
        <3>3. /\ ending.code \in DOMAIN ledgerCodes'
              /\ ledgerCodes'[ending.code].user = user
            BY <3>1, <3>2 DEF Recorded
        <3>4. now \in Nat /\ TokenTtl \in Nat /\ Tolerance \in Nat
            BY HistoryTypes, TtlAssumption, BrokerAssumption
        <3>5. \A begun \in Begun(ending.code)' : begun \in Int /\ begun <= now
            <4>1. \A p \in Family(ending.code) :
                      /\ ledgerAccess[p].expiresAt \in Nat
                      /\ ledgerAccess'[p].expiresAt = ledgerAccess[p].expiresAt
                      /\ ledgerAccess[p].expiresAt <= now + TokenTtl
                BY HistoryTypes DEF Recorded, RecentInv, Family
            <4> QED BY <3>1, <3>4, <4>1 DEF Begun
        <3>6. CASE ~config.dev
            <4>1. PICK call \in sent : /\ call.user = user /\ {call.sentAt} = request.timestamp
                                      /\ now < call.sentAt + Tolerance
                BY <1>2, <3>6, AcceptedWasSent DEF user
            <4>2. call.sentAt \in Int
                BY <4>1, BrokerAssumption, TtlAssumption DEF LogTypes, Uninstalls
            <4>3. \A begun \in Begun(ending.code)' : begun < call.sentAt + Tolerance
                BY <3>4, <3>5, <4>1, <4>2
            <4> QED BY <1>2, <1>6, <3>3, <4>1, <4>3
        <3> QED BY <1>6, <3>3, <3>6
    <2>2. ASSUME NEW ending \in endings
          PROVE  /\ ending.code \in DOMAIN ledgerCodes'
                 /\ ending.signed =>
                       \E call \in sent' :
                          /\ call.user = ledgerCodes'[ending.code].user
                          /\ {call.sentAt} = ending.sentAt
                          /\ \A begun \in Begun(ending.code)' : begun < call.sentAt + Tolerance
        BY <1>2, RecentKept
    <2> QED BY <2>1, <2>2, DatesKept DEF RecentInv, OnlyRecentUninstallsEndSessions
<1> QED BY <1>5, <1>7, <1>8

LEMMA LogStep ==
    ASSUME IInv, LogTypes, [BrokerNext]_brokerVars
    PROVE  LogTypes'
<1>1. ASSUME NEW user \in Users, NEW sentAt \in (1 - Skew) .. (MaxTime + Skew),
             CanvaSends(user, sentAt)
      PROVE  LogTypes'
    BY <1>1 DEF CanvaSends, LogTypes, Uninstalls
<1>2. ASSUME NEW request \in Arriving, Webhook(request)
      PROVE  LogTypes'
    <2>1. request.body \in Users /\ RevokeTokensForUser(request.body)
        BY <1>2 DEF Webhook, Arriving
    <2>2. LiveCodes(request.body) \subseteq Codes
        BY <2>1, UninstallEnds
    <2>3. request.timestamp \in SUBSET Int
        <3>1. \A call \in sent : call.sentAt \in Int
            BY BrokerAssumption, TtlAssumption DEF LogTypes, Uninstalls
        <3>2. now \in Int
            BY HistoryTypes
        <3> QED BY <3>1, <3>2 DEF Arriving
    <2>4. config.dev \in BOOLEAN
        BY ConfigsAssumption DEF IInv, TypeOK, Configurations
    <2>5. /\ sent' = sent
          /\ endings' = endings \cup [code : LiveCodes(request.body),
                                     sentAt : {request.timestamp}, signed : {~config.dev}]
        BY <1>2 DEF Webhook
    <2> QED BY <2>2, <2>3, <2>4, <2>5 DEF LogTypes
<1>3. CASE sent' = sent /\ endings' = endings
    BY <1>3 DEF LogTypes
<1>4. CASE UNCHANGED brokerVars
    BY <1>4, <1>3 DEF brokerVars
<1>5. CASE \/ OAuthRoute \/ TokenRoute \/ PruneThread \/ EndContent \/ AssetRoute
           \/ \E p \in Pairs : BeginContent(p)
           \/ \E p \in Pairs, g \in Grants : CreateGrant(p, g)
           \/ BrokerRestart \/ BrokerTick
    BY <1>5, <1>3 DEF OAuthRoute, TokenRoute, PruneThread, EndContent, AssetRoute, BeginContent,
                CreateGrant, BrokerRestart, BrokerTick, GrantsPruned
<1> QED BY <1>1, <1>2, <1>4, <1>5 DEF BrokerNext

-----------------------------------------------------------------------------
(* The theorems. *)

\* The broker's steps are steps of AssetService: a grant is created for a user
\* there is, and every other transaction prunes.
LEMMA AssetServiceStep ==
    ASSUME IInv, OwnerInv, [BrokerNext]_brokerVars
    PROVE  [AssetService!Next]_(AssetService!vars)
<1> USE DEF AssetService!Next
<1>1. CASE OAuthRoute \/ PruneThread
    BY <1>1 DEF OAuthRoute, PruneThread, GrantsPruned
<1>2. CASE TokenRoute
    <2>1. CASE \E m \in minting, p \in Pairs : CreateTokenPair(m, p) /\ GrantsPruned
        BY <2>1 DEF GrantsPruned
    <2>2. CASE \E m \in minting :
                   /\ ExchangeAborted(m)
                   /\ UNCHANGED <<grantVars, granting, origin, sent, endings>>
        BY <2>2 DEF ExchangeAborted, grantVars, AssetService!vars
    <2> QED BY <1>2, <2>1, <2>2 DEF TokenRoute
<1>3. ASSUME NEW p \in Pairs, BeginContent(p)
      PROVE  AssetService!Next
    BY <1>3 DEF BeginContent
<1>4. ASSUME NEW p \in Pairs, NEW g \in Grants, CreateGrant(p, g)
      PROVE  AssetService!Next
    <2>1. ledgerAccess[p].user \in Users
        BY <1>4, HistoryTypes DEF CreateGrant, OwnerInv, AccessRecord
    <2> QED BY <1>4, <2>1 DEF CreateGrant
<1>5. CASE EndContent
    BY <1>5 DEF EndContent, vars, grantVars, AssetService!vars
<1>6. CASE AssetRoute
    BY <1>6 DEF AssetRoute
<1>7. ASSUME NEW user \in Users, NEW sentAt \in (1 - Skew) .. (MaxTime + Skew),
             CanvaSends(user, sentAt)
      PROVE  UNCHANGED AssetService!vars
    BY <1>7 DEF CanvaSends, vars, grantVars, AssetService!vars
<1>8. ASSUME NEW request \in Arriving, Webhook(request)
      PROVE  AssetService!Next
    BY <1>8 DEF Webhook, Arriving
<1>9. CASE BrokerRestart
    BY <1>9 DEF BrokerRestart
<1>10. CASE BrokerTick
    BY <1>10 DEF BrokerTick, Tick, grantVars, AssetService!Tick
<1>11. CASE UNCHANGED brokerVars
    BY <1>11 DEF brokerVars, vars, grantVars, AssetService!vars
<1> QED BY <1>1, <1>2, <1>3, <1>4, <1>5, <1>6, <1>7, <1>8, <1>9, <1>10, <1>11
        DEF BrokerNext

LEMMA BrokerStep == BrokerInv /\ IInv' /\ [BrokerNext]_brokerVars => BrokerInv'
<1> SUFFICES ASSUME BrokerInv, IInv', [BrokerNext]_brokerVars
             PROVE  BrokerInv'
    OBVIOUS
<1>1. IInv /\ GrantInv /\ OwnerInv /\ LogTypes /\ EndInv /\ RecentInv
    BY DEF BrokerInv
<1>2. Recorded
    BY <1>1, AuthServiceStep, RecordedStep
<1>3. GrantInv'
    BY <1>1, AssetServiceStep, GrantStep
<1>4. LogTypes'
    BY <1>1, LogStep
<1>5. OwnerInv' /\ EndInv' /\ RecentInv'
    <2>1. ASSUME NEW p \in Pairs, BeginContent(p)
          PROVE  OwnerInv' /\ EndInv' /\ RecentInv'
        BY <1>1, <1>2, <2>1, BeginStep
    <2>2. ASSUME NEW p \in Pairs, NEW g \in Grants, CreateGrant(p, g)
          PROVE  OwnerInv' /\ EndInv' /\ RecentInv'
        BY <1>1, <1>2, <2>2, CreateStep
    <2>3. ASSUME NEW request \in Arriving, Webhook(request)
          PROVE  OwnerInv' /\ EndInv' /\ RecentInv'
        BY <1>1, <1>2, <2>3, WebhookStep
    <2>4. CASE Quiet
        BY <1>1, <1>2, <2>4, QuietStep
    <2>5. CASE UNCHANGED brokerVars
        <3>1. Quiet
            BY <1>1, <2>5 DEF brokerVars, grantVars, vars, Quiet, OwnerInv
        <3> QED BY <2>4, <3>1
    <2> QED BY <1>1, <2>1, <2>2, <2>3, <2>4, <2>5, QuietActions
<1> QED BY <1>3, <1>4, <1>5 DEF BrokerInv

\* The invariant holds in every reachable state.
THEOREM BrokerInvariance == BrokerSpec => []BrokerInv
BY BrokerInitInv, BrokerStep, AuthInvariance, PTL DEF BrokerSpec

\* The grants of the broker behave as AssetService says on its own: the OAuth
\* transactions, the webhook and the content requests call it in no other way.
THEOREM ImplementsAssetGrants == BrokerSpec => AssetService!Spec
<1>1. BrokerInit => AssetService!Init
    BY DEF BrokerInit
<1>2. BrokerInv /\ [BrokerNext]_brokerVars => [AssetService!Next]_(AssetService!vars)
    BY AssetServiceStep DEF BrokerInv
<1> QED BY <1>1, <1>2, BrokerInvariance, PTL DEF BrokerSpec, AssetService!Spec

\* Every step of every route leaves tokens, grants, requests and the record of
\* webhook calls well-formed.
THEOREM BrokerTypeCorrect == BrokerSpec => []BrokerTypeOK
<1>1. BrokerInv => BrokerTypeOK
    BY DEF BrokerInv, BrokerTypeOK, IInv, GrantInv, OwnerInv, LogTypes, HandedOut
<1> QED BY <1>1, BrokerInvariance, PTL

\* What verify_grant answers, from what is stored and what was handed out.
LEMMA VerifiedUrls == GrantInv => UrlsWorkAsPromised
<1> SUFFICES ASSUME GrantInv, NEW url \in AssetService!Presented
             PROVE  AssetService!Verified(url) <=>
                        /\ url \in urls
                        /\ url.sig = AssetService!Signature(secret, url.grantId, url.expires)
                        /\ now < url.expires
                        /\ url.grantId \notin revoked
    BY DEF UrlsWorkAsPromised, AssetService!UrlsWorkAsPromised
<1>1. /\ now \in Nat
      /\ \A u \in urls : u.expires \in Nat /\ u \in AssetService!Url
      /\ \A g \in DOMAIN assetGrants : assetGrants[g].expiresAt \in Nat
    BY DEF GrantInv, AssetService!TypeOK, AssetService!Times, AssetService!Url,
           AssetService!Deadlines
<1>2. ASSUME AssetService!Verified(url)
      PROVE  /\ url \in urls
             /\ url.sig = AssetService!Signature(secret, url.grantId, url.expires)
             /\ now < url.expires
             /\ url.grantId \notin revoked
    <2>1. /\ url.sig = AssetService!Signature(secret, url.grantId, url.expires)
          /\ url.grantId \in DOMAIN assetGrants
          /\ now < assetGrants[url.grantId].expiresAt
        BY <1>2, PrunedGrants DEF AssetService!Verified, AssetService!Signed
    <2>2. PICK u \in urls : u.sig = url.sig
        BY DEF AssetService!Presented
    <2>3. u.grantId = url.grantId /\ u.expires = url.expires
        BY <2>1, <2>2 DEF GrantInv, AssetService!Signature
    <2>4. url = u
        BY <1>1, <2>2, <2>3 DEF AssetService!Presented, AssetService!Url
    <2>5. assetGrants[url.grantId].expiresAt
              = IF url.grantId \in revoked THEN 0 ELSE url.expires
        BY <2>1, <2>4 DEF GrantInv
    <2> QED BY <1>1, <2>1, <2>4, <2>5
<1>3. ASSUME url \in urls, now < url.expires, url.grantId \notin revoked,
             url.sig = AssetService!Signature(secret, url.grantId, url.expires)
      PROVE  AssetService!Verified(url)
    <2>1. url.grantId \in DOMAIN assetGrants
          /\ assetGrants[url.grantId].expiresAt = url.expires
        BY <1>3 DEF GrantInv
    <2>2. now <= url.expires
        BY <1>1, <1>3
    <2> QED BY <1>3, <2>1, <2>2, PrunedGrants DEF AssetService!Verified, AssetService!Signed
<1> QED BY <1>2, <1>3

\* A signed URL works exactly as handed out, until its deadline or an uninstall,
\* whatever the other routes do to the store it shares.
THEOREM UrlsKeepTheirPromise == BrokerSpec => []UrlsWorkAsPromised
<1>1. BrokerInv => UrlsWorkAsPromised
    BY VerifiedUrls DEF BrokerInv
<1> QED BY <1>1, BrokerInvariance, PTL

\* Nothing of a session that a webhook call has ended works again.
THEOREM EndedStayEnded == BrokerSpec => []EndedSessionsStayEnded
<1>1. BrokerInv => EndedSessionsStayEnded
    <2> SUFFICES ASSUME BrokerInv, NEW ending \in endings, NEW p \in Family(ending.code)
                 PROVE  /\ ~CanRead(p)
                        /\ \A client \in Clients : ~CanRotate(p, client)
                        /\ \A url \in AssetService!Presented :
                              origin[url.grantId] = p => ~AssetService!Verified(url)
        BY DEF EndedSessionsStayEnded
    <2>1. p \in DOMAIN lineage /\ Ended(p)
        BY DEF BrokerInv, EndInv, EndedFamily, Family
    <2>2. ~CanRead(p) /\ \A client \in Clients : ~CanRotate(p, client)
        BY <2>1, EndedIsRefused DEF BrokerInv
    <2>3. ASSUME NEW url \in AssetService!Presented, origin[url.grantId] = p,
                 AssetService!Verified(url)
          PROVE  FALSE
        <3>1. url \in urls /\ now < url.expires /\ url.grantId \notin revoked
            BY <2>3, VerifiedUrls DEF BrokerInv, UrlsWorkAsPromised,
               AssetService!UrlsWorkAsPromised
        <3>2. url.expires <= now
            BY <2>3, <3>1 DEF BrokerInv, EndInv
        <3>3. now \in Nat /\ url.expires \in Nat
            BY <3>1, HistoryTypes DEF BrokerInv, GrantInv, AssetService!TypeOK,
               AssetService!Url, AssetService!Deadlines
        <3> QED BY <3>1, <3>2, <3>3
    <2> QED BY <2>2, <2>3
<1> QED BY <1>1, BrokerInvariance, PTL

\* A delayed, duplicated or patched-up webhook call ends nothing that it should
\* not, for any clock skew and any tolerance.
THEOREM OnlyRecentEnd == BrokerSpec => []OnlyRecentUninstallsEndSessions
<1>1. BrokerInv => OnlyRecentUninstallsEndSessions
    BY DEF BrokerInv, RecentInv
<1> QED BY <1>1, BrokerInvariance, PTL
=============================================================================
