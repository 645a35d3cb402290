-------------------------- MODULE AuthServiceProofs --------------------------
(***************************************************************************)
(* Theorems about AuthService, for any clients, users, lifetimes, grace    *)
(* period and configurations.                                              *)
(***************************************************************************)
EXTENDS AuthService, TLAPS

-----------------------------------------------------------------------------
(* Dictionaries                                                            *)

\* Storing a record of the right shape keeps a dictionary well formed.
LEMMA PutDict ==
    ASSUME NEW dict, NEW ids, NEW records, IsDict(dict, ids, records),
           NEW id \in ids, NEW record \in records
    PROVE  IsDict(Put(dict, id, record), ids, records)
BY DEF IsDict, Put

\* Pruning keeps a dictionary well formed.
LEMMA RestrictDict ==
    ASSUME NEW dict, NEW ids, NEW records, IsDict(dict, ids, records),
           NEW S \in SUBSET DOMAIN dict
    PROVE  IsDict(Restrict(dict, S), ids, records)
BY DEF IsDict, Restrict

\* Deleting a record keeps a dictionary well formed.
LEMMA DropDict ==
    ASSUME NEW dict, NEW ids, NEW records, IsDict(dict, ids, records), NEW id
    PROVE  IsDict(Drop(dict, id), ids, records)
BY DEF IsDict, Drop, Restrict

\* The clock and the lifetimes keep every deadline within Deadlines.
LEMMA DeadlineType ==
    ASSUME NEW t \in Times
    PROVE  /\ t + AuthCodeTtl \in Deadlines
           /\ t + TokenTtl \in Deadlines
           /\ t + RefreshTtl \in Deadlines
BY TtlAssumption DEF Times, Deadlines

\* Setting revokedAt keeps both token dictionaries well formed.
LEMMA RevokedDict ==
    ASSUME NEW dict, NEW S, now \in Times
    PROVE  /\ IsDict(dict, Pairs, AccessRecord)
                => IsDict(RevokedAt(dict, S), Pairs, AccessRecord)
           /\ IsDict(dict, Pairs, RefreshRecord)
                => IsDict(RevokedAt(dict, S), Pairs, RefreshRecord)
BY DEF IsDict, RevokedAt, AccessRecord, RefreshRecord

\* So does marking a refresh token as rotated.
LEMMA RotatedDict ==
    ASSUME NEW dict, NEW p, NEW q \in Pairs, now \in Times,
           IsDict(dict, Pairs, RefreshRecord)
    PROVE  IsDict(Rotated(dict, p, q), Pairs, RefreshRecord)
BY DEF IsDict, Rotated, RefreshRecord

\* What _prune_expired leaves is well formed.
LEMMA PrunedTypes ==
    ASSUME TypeOK
    PROVE  /\ IsDict(PrunedCodes, Codes, CodeRecord)
           /\ IsDict(PrunedAccess, Pairs, AccessRecord)
           /\ IsDict(PrunedRefresh, Pairs, RefreshRecord)
BY RestrictDict DEF TypeOK, PrunedCodes, PrunedAccess, PrunedRefresh

\* A fresh pair is recorded with records of the right shape.
LEMMA NewPairType ==
    ASSUME TypeOK, NEW client \in Clients, NEW user \in Users
    PROVE  /\ NewAccess(client, user) \in AccessRecord
           /\ NewRefresh(client, user) \in RefreshRecord
<1>1. config.key \in Keys \cup {NoKey}
  BY ConfigsAssumption DEF TypeOK, Configurations
<1> QED
  BY <1>1, DeadlineType
  DEF TypeOK, NewAccess, NewRefresh, AccessRecord, RefreshRecord

\* What is left in each dictionary after pruning is unchanged.
LEMMA PrunedFacts ==
    /\ DOMAIN PrunedCodes =
           {c \in DOMAIN authorizationCodes : now < authorizationCodes[c].expiresAt}
    /\ \A c \in DOMAIN PrunedCodes : PrunedCodes[c] = authorizationCodes[c]
    /\ DOMAIN PrunedAccess =
           {p \in DOMAIN accessTokens : /\ now < accessTokens[p].expiresAt
                                        /\ accessTokens[p].revokedAt = NoTime}
    /\ \A p \in DOMAIN PrunedAccess : PrunedAccess[p] = accessTokens[p]
    /\ DOMAIN PrunedRefresh =
           {p \in DOMAIN refreshTokens :
               /\ now < refreshTokens[p].expiresAt
               /\ \/ refreshTokens[p].revokedAt = NoTime
                  \/ now - refreshTokens[p].revokedAt <= RefreshGrace}
    /\ \A p \in DOMAIN PrunedRefresh : PrunedRefresh[p] = refreshTokens[p]
BY DEF PrunedCodes, PrunedAccess, PrunedRefresh, Restrict

-----------------------------------------------------------------------------
(* The parts of the inductive invariant                                    *)

\* What is in the store is what was last written: no dictionary holds a
\* record the history does not know, or an older version of one.
StoreMatchesLedger ==
    /\ DOMAIN ledgerAccess = DOMAIN lineage
    /\ DOMAIN ledgerRefresh = DOMAIN lineage
    /\ redeemed \subseteq DOMAIN ledgerCodes
    /\ \A c \in DOMAIN authorizationCodes :
          /\ c \in DOMAIN ledgerCodes /\ c \notin redeemed
          /\ authorizationCodes[c] = ledgerCodes[c]
    /\ \A p \in DOMAIN accessTokens :
          p \in DOMAIN lineage /\ accessTokens[p] = ledgerAccess[p]
    /\ \A p \in DOMAIN refreshTokens :
          p \in DOMAIN lineage /\ refreshTokens[p] = ledgerRefresh[p]

\* The store still holds everything that counts: a code that could be
\* exchanged, an access token that could be used, a refresh token that could
\* be rotated or replayed.
StoreRetains ==
    /\ \A c \in DOMAIN ledgerCodes :
          c \notin redeemed /\ now < ledgerCodes[c].expiresAt
              => c \in DOMAIN authorizationCodes
    /\ \A p \in DOMAIN ledgerAccess :
          now < ledgerAccess[p].expiresAt /\ ledgerAccess[p].revokedAt = NoTime
              => p \in DOMAIN accessTokens
    /\ \A p \in DOMAIN ledgerRefresh :
          /\ now < ledgerRefresh[p].expiresAt
          /\ \/ ledgerRefresh[p].revokedAt = NoTime
             \/ now - ledgerRefresh[p].revokedAt <= RefreshGrace
          => p \in DOMAIN refreshTokens

\* A code is either outstanding, in exchange, or the root of a family, and a
\* family has at most one refresh token neither rotated nor revoked.
FamilyInv ==
    /\ \A m \in minting : m.code \in redeemed
    /\ \A m, n \in minting : m.code = n.code => m = n
    /\ \A p \in DOMAIN lineage :
          /\ lineage[p].code \in redeemed
          /\ \A m \in minting : m.code # lineage[p].code
    /\ \A p, q \in DOMAIN lineage :
          /\ lineage[p].code = lineage[q].code
          /\ ledgerRefresh[p].revokedAt = NoTime
          /\ ledgerRefresh[q].revokedAt = NoTime
          => p = q

\* Where pairs come from: a code or a refresh token has at most one child, and
\* an unrotated one has none.
LineageInv ==
    /\ \A p \in DOMAIN lineage :
          lineage[p].parent \in Codes => lineage[p].parent = lineage[p].code
    /\ \A p \in DOMAIN lineage :
          lineage[p].parent \in Pairs => lineage[p].parent \in DOMAIN lineage
    /\ \A p, q \in DOMAIN lineage :
          lineage[p].parent = lineage[q].parent => p = q
    /\ \A p \in DOMAIN lineage :
          /\ ledgerRefresh[p].revokedAt = NoTime
                => ledgerRefresh[p].rotationResponse = {}
          /\ ledgerRefresh[p].rotationResponse
                = {q \in DOMAIN lineage : lineage[q].parent = p}

\* Exchanges and pairs carry the client and user of their code.
BindingInv ==
    /\ \A m \in minting : /\ m.client = ledgerCodes[m.code].client
                          /\ m.user = ledgerCodes[m.code].user
    /\ BindingPreserved

IInv == /\ TypeOK /\ StoreMatchesLedger /\ StoreRetains
        /\ FamilyInv /\ LineageInv /\ BindingInv

-----------------------------------------------------------------------------

\* No operation stores a record of the wrong shape.
LEMMA TypeStep ==
    ASSUME TypeOK, StoreMatchesLedger, [Next]_vars
    PROVE  TypeOK'
<1> USE DEF store, history
<1>k. config.key \in Keys \cup {NoKey}
  BY ConfigsAssumption DEF TypeOK, Configurations
<1>p. PruneOnly => TypeOK'
  BY PrunedTypes DEF PruneOnly, TypeOK
<1>1. ASSUME NEW c \in Codes, NEW client \in Clients,
             NEW redirectUri \in RedirectUris, NEW verifier \in Verifiers,
             NEW user \in Users,
             MintAuthorizationCode(c, client, redirectUri, verifier, user)
      PROVE TypeOK'
  <2> DEFINE record ==
        [client |-> client, redirectUri |-> redirectUri,
         codeChallenge |-> S256(verifier), user |-> user,
         key |-> config.key, expiresAt |-> now + AuthCodeTtl]
  <2>1. record \in CodeRecord
    BY <1>k, DeadlineType DEF TypeOK, CodeRecord
  <2> HIDE DEF record
  <2>2. /\ authorizationCodes' = Put(PrunedCodes, c, record)
        /\ ledgerCodes' = Put(ledgerCodes, c, record)
    BY <1>1 DEF MintAuthorizationCode, record
  <2>3. /\ IsDict(authorizationCodes, Codes, CodeRecord)'
        /\ IsDict(ledgerCodes, Codes, CodeRecord)'
    BY <2>1, <2>2, PutDict, PrunedTypes DEF TypeOK
  <2> QED BY <1>1, <2>3, PrunedTypes DEF MintAuthorizationCode, TypeOK
<1>2. ASSUME NEW c \in Codes, NEW request \in TokenRequest,
             ExchangeCode(c, request)
      PROVE TypeOK'
  <2>1. IsDict(authorizationCodes, Codes, CodeRecord)'
    BY <1>2, DropDict, PrunedTypes DEF ExchangeCode
  <2>2. authorizationCodes[c].user \in Users
    BY <1>2 DEF ExchangeCode, PrunedCodes, Restrict, TypeOK, IsDict, CodeRecord
  <2>3. (minting \subseteq Exchange)'
    BY <1>2, <2>2 DEF ExchangeCode, TypeOK, Exchange, TokenRequest
  <2> QED BY <1>2, <2>1, <2>3, PrunedTypes DEF ExchangeCode, TypeOK
<1>3. ASSUME NEW m \in minting, NEW p \in Pairs, CreateTokenPair(m, p)
      PROVE TypeOK'
  <2>1. m \in Exchange
    BY DEF TypeOK
  <2>2. /\ NewAccess(m.client, m.user) \in AccessRecord
        /\ NewRefresh(m.client, m.user) \in RefreshRecord
    BY <2>1, NewPairType DEF Exchange
  <2>3. /\ IsDict(accessTokens, Pairs, AccessRecord)'
        /\ IsDict(ledgerAccess, Pairs, AccessRecord)'
    BY <1>3, <2>2, PutDict, PrunedTypes DEF CreateTokenPair, TypeOK
  <2>4. /\ IsDict(refreshTokens, Pairs, RefreshRecord)'
        /\ IsDict(ledgerRefresh, Pairs, RefreshRecord)'
    BY <1>3, <2>2, PutDict, PrunedTypes DEF CreateTokenPair, TypeOK
  <2>5. IsDict(lineage, Pairs, [code : Codes, parent : Codes \cup Pairs])'
    BY <1>3, <2>1, PutDict DEF CreateTokenPair, TypeOK, Exchange
  <2> QED
    BY <1>3, <2>3, <2>4, <2>5, PrunedTypes DEF CreateTokenPair, TypeOK
<1>4. ASSUME NEW p \in Pairs, NEW client \in Clients, NEW q \in Pairs,
             RefreshRotates(p, client, q)
      PROVE TypeOK'
  <2>1. refreshTokens[p].user \in Users
    BY <1>4 DEF RefreshRotates, CanRotate, RefreshFound, PrunedRefresh,
                Restrict, TypeOK, IsDict, RefreshRecord
  <2>2. /\ NewAccess(client, refreshTokens[p].user) \in AccessRecord
        /\ NewRefresh(client, refreshTokens[p].user) \in RefreshRecord
    BY <2>1, NewPairType
  <2>3. /\ IsDict(accessTokens, Pairs, AccessRecord)'
        /\ IsDict(ledgerAccess, Pairs, AccessRecord)'
    BY <1>4, <2>2, PutDict, PrunedTypes DEF RefreshRotates, TypeOK
  <2>4. /\ IsDict(Rotated(PrunedRefresh, p, q), Pairs, RefreshRecord)
        /\ IsDict(Rotated(ledgerRefresh, p, q), Pairs, RefreshRecord)
    BY RotatedDict, PrunedTypes DEF TypeOK
  <2>5. /\ IsDict(refreshTokens, Pairs, RefreshRecord)'
        /\ IsDict(ledgerRefresh, Pairs, RefreshRecord)'
    BY <1>4, <2>2, <2>4, PutDict DEF RefreshRotates
  <2>6. lineage[p].code \in Codes
    BY <1>4 DEF RefreshRotates, CanRotate, RefreshFound, PrunedRefresh,
                Restrict, StoreMatchesLedger, TypeOK, IsDict
  <2>7. IsDict(lineage, Pairs, [code : Codes, parent : Codes \cup Pairs])'
    BY <1>4, <2>6, PutDict DEF RefreshRotates, TypeOK
  <2> QED
    BY <1>4, <2>3, <2>5, <2>7, PrunedTypes DEF RefreshRotates, TypeOK
<1>5. ASSUME NEW p \in Pairs, RevokeAccessToken(p) PROVE TypeOK'
  <2>1. /\ IsDict(accessTokens, Pairs, AccessRecord)'
        /\ IsDict(ledgerAccess, Pairs, AccessRecord)'
    BY <1>5, DropDict, RevokedDict, PrunedTypes
    DEF RevokeAccessToken, TypeOK
  <2> QED BY <1>5, <2>1, PrunedTypes DEF RevokeAccessToken, TypeOK
<1>6. ASSUME NEW p \in Pairs, RevokeRefreshToken(p) PROVE TypeOK'
  <2>1. /\ IsDict(refreshTokens, Pairs, RefreshRecord)'
        /\ IsDict(ledgerRefresh, Pairs, RefreshRecord)'
    BY <1>6, RevokedDict, PrunedTypes DEF RevokeRefreshToken, TypeOK
  <2> QED BY <1>6, <2>1, PrunedTypes DEF RevokeRefreshToken, TypeOK
<1>7. ASSUME NEW user \in Users, RevokeTokensForUser(user) PROVE TypeOK'
  <2>1. /\ IsDict(accessTokens, Pairs, AccessRecord)'
        /\ IsDict(ledgerAccess, Pairs, AccessRecord)'
        /\ IsDict(refreshTokens, Pairs, RefreshRecord)'
        /\ IsDict(ledgerRefresh, Pairs, RefreshRecord)'
    BY <1>7, RevokedDict, PrunedTypes DEF RevokeTokensForUser, TypeOK
  <2> QED BY <1>7, <2>1, PrunedTypes DEF RevokeTokensForUser, TypeOK
<1>8. CASE Tick
  <2>1. now' \in Times
    BY <1>8, TtlAssumption DEF Tick, TypeOK, Times
  <2> QED BY <1>8, <2>1 DEF Tick, TypeOK
<1>9. CASE Restart
  BY <1>9 DEF Restart, TypeOK
<1>10. ASSUME NEW m \in minting, ExchangeAborted(m) PROVE TypeOK'
  BY <1>10 DEF ExchangeAborted, TypeOK
<1>11. CASE UNCHANGED vars
  BY <1>11 DEF vars, TypeOK
<1> QED
  BY <1>p, <1>1, <1>2, <1>3, <1>4, <1>5, <1>6, <1>7, <1>8, <1>9, <1>10, <1>11
  DEF Next, OAuthRequest, BeginAuthorization, CompleteSsoAuthorization, ExchangeUnknownCode,
      RefreshReplays, RefreshRefused, ReadAccessToken

\* The history follows every write to the store.
LEMMA MatchStep ==
    ASSUME TypeOK, StoreMatchesLedger, [Next]_vars
    PROVE  StoreMatchesLedger'
<1> USE PrunedFacts DEF store, history
<1>p. PruneOnly => StoreMatchesLedger'
  BY DEF PruneOnly, StoreMatchesLedger
<1>1. ASSUME NEW c \in Codes, NEW client \in Clients,
             NEW redirectUri \in RedirectUris, NEW verifier \in Verifiers,
             NEW user \in Users,
             MintAuthorizationCode(c, client, redirectUri, verifier, user)
      PROVE StoreMatchesLedger'
  BY <1>1 DEF MintAuthorizationCode, Put, StoreMatchesLedger
<1>2. ASSUME NEW c \in Codes, NEW request \in TokenRequest,
             ExchangeCode(c, request)
      PROVE StoreMatchesLedger'
  BY <1>2 DEF ExchangeCode, Drop, Restrict, StoreMatchesLedger
<1>3. ASSUME NEW m \in minting, NEW p \in Pairs, CreateTokenPair(m, p)
      PROVE StoreMatchesLedger'
  BY <1>3 DEF CreateTokenPair, Put, StoreMatchesLedger
<1>4. ASSUME NEW p \in Pairs, NEW client \in Clients, NEW q \in Pairs,
             RefreshRotates(p, client, q)
      PROVE StoreMatchesLedger'
  <2>1. p \in DOMAIN PrunedRefresh
    BY <1>4 DEF RefreshRotates, CanRotate, RefreshFound
  <2>2. /\ DOMAIN Rotated(PrunedRefresh, p, q) = DOMAIN PrunedRefresh
        /\ DOMAIN Rotated(ledgerRefresh, p, q) = DOMAIN ledgerRefresh
        /\ \A x \in DOMAIN PrunedRefresh :
              Rotated(PrunedRefresh, p, q)[x] = Rotated(ledgerRefresh, p, q)[x]
    BY DEF Rotated, StoreMatchesLedger
  <2> QED BY <1>4, <2>1, <2>2 DEF RefreshRotates, Put, StoreMatchesLedger
<1>5. ASSUME NEW p \in Pairs, RevokeAccessToken(p) PROVE StoreMatchesLedger'
  BY <1>5 DEF RevokeAccessToken, RevokedAt, Drop, Restrict, StoreMatchesLedger
<1>6. ASSUME NEW p \in Pairs, RevokeRefreshToken(p) PROVE StoreMatchesLedger'
  BY <1>6 DEF RevokeRefreshToken, RevokedAt, StoreMatchesLedger
<1>7. ASSUME NEW user \in Users, RevokeTokensForUser(user)
      PROVE StoreMatchesLedger'
  BY <1>7 DEF RevokeTokensForUser, RevokedAt, Of, StoreMatchesLedger
<1>8. CASE Tick
  BY <1>8 DEF Tick, StoreMatchesLedger
<1>9. CASE Restart
  BY <1>9 DEF Restart, StoreMatchesLedger
<1>10. ASSUME NEW m \in minting, ExchangeAborted(m) PROVE StoreMatchesLedger'
  BY <1>10 DEF ExchangeAborted, StoreMatchesLedger
<1>11. CASE UNCHANGED vars
  BY <1>11 DEF vars, StoreMatchesLedger
<1> QED
  BY <1>p, <1>1, <1>2, <1>3, <1>4, <1>5, <1>6, <1>7, <1>8, <1>9, <1>10, <1>11
  DEF Next, OAuthRequest, BeginAuthorization, CompleteSsoAuthorization, ExchangeUnknownCode,
      RefreshReplays, RefreshRefused, ReadAccessToken

\* Pruning drops nothing that counts, and time only makes things stop
\* counting.
LEMMA RetainStep ==
    ASSUME TypeOK, StoreMatchesLedger, StoreRetains, [Next]_vars
    PROVE  StoreRetains'
<1> USE PrunedFacts DEF store, history
<1>p. PruneOnly => StoreRetains'
  BY DEF PruneOnly, StoreMatchesLedger, StoreRetains
<1>1. ASSUME NEW c \in Codes, NEW client \in Clients,
             NEW redirectUri \in RedirectUris, NEW verifier \in Verifiers,
             NEW user \in Users,
             MintAuthorizationCode(c, client, redirectUri, verifier, user)
      PROVE StoreRetains'
  BY <1>1 DEF MintAuthorizationCode, Put, StoreMatchesLedger, StoreRetains
<1>2. ASSUME NEW c \in Codes, NEW request \in TokenRequest,
             ExchangeCode(c, request)
      PROVE StoreRetains'
  BY <1>2 DEF ExchangeCode, Drop, Restrict, StoreMatchesLedger, StoreRetains
<1>3. ASSUME NEW m \in minting, NEW p \in Pairs, CreateTokenPair(m, p)
      PROVE StoreRetains'
  BY <1>3 DEF CreateTokenPair, NewAccess, NewRefresh, Put, StoreMatchesLedger, StoreRetains
<1>4. ASSUME NEW p \in Pairs, NEW client \in Clients, NEW q \in Pairs,
             RefreshRotates(p, client, q)
      PROVE StoreRetains'
  <2>1. p \in DOMAIN PrunedRefresh /\ p \in DOMAIN ledgerRefresh /\ p # q
    BY <1>4 DEF RefreshRotates, CanRotate, RefreshFound, StoreMatchesLedger
  <2>2. /\ DOMAIN Rotated(PrunedRefresh, p, q) = DOMAIN PrunedRefresh
        /\ DOMAIN Rotated(ledgerRefresh, p, q) = DOMAIN ledgerRefresh
        /\ \A x \in DOMAIN ledgerRefresh \ {p} :
              Rotated(ledgerRefresh, p, q)[x] = ledgerRefresh[x]
    BY DEF Rotated
  <2> QED
    BY <1>4, <2>1, <2>2 DEF RefreshRotates, Put, StoreMatchesLedger, StoreRetains
<1>5. ASSUME NEW p \in Pairs, RevokeAccessToken(p) PROVE StoreRetains'
  <2>1. now # NoTime
    BY DEF TypeOK, Times, NoTime
  <2> QED
    BY <1>5, <2>1 DEF RevokeAccessToken, RevokedAt, Drop, Restrict,
                      StoreMatchesLedger, StoreRetains
<1>6. ASSUME NEW p \in Pairs, RevokeRefreshToken(p) PROVE StoreRetains'
  BY <1>6 DEF RevokeRefreshToken, RevokedAt, StoreMatchesLedger, StoreRetains
<1>7. ASSUME NEW user \in Users, RevokeTokensForUser(user) PROVE StoreRetains'
  BY <1>7 DEF RevokeTokensForUser, RevokedAt, Of, StoreMatchesLedger, StoreRetains
<1>8. CASE Tick
  <2>1. /\ \A c \in DOMAIN ledgerCodes : ledgerCodes[c].expiresAt \in Nat
        /\ \A p \in DOMAIN ledgerAccess : ledgerAccess[p].expiresAt \in Nat
        /\ \A p \in DOMAIN ledgerRefresh : /\ ledgerRefresh[p].expiresAt \in Nat
                                           /\ ledgerRefresh[p].revokedAt \in Nat
    BY TtlAssumption
    DEF TypeOK, IsDict, CodeRecord, AccessRecord, RefreshRecord, Deadlines,
        Times, NoTime
  <2>2. now \in Nat
    BY DEF TypeOK, Times
  <2> QED BY <1>8, <2>1, <2>2, TtlAssumption DEF Tick, StoreRetains
<1>9. CASE Restart
  BY <1>9 DEF Restart, StoreMatchesLedger, StoreRetains
<1>10. ASSUME NEW m \in minting, ExchangeAborted(m) PROVE StoreRetains'
  BY <1>10 DEF ExchangeAborted, StoreMatchesLedger, StoreRetains
<1>11. CASE UNCHANGED vars
  BY <1>11 DEF vars, StoreMatchesLedger, StoreRetains
<1> QED
  BY <1>p, <1>1, <1>2, <1>3, <1>4, <1>5, <1>6, <1>7, <1>8, <1>9, <1>10, <1>11
  DEF Next, OAuthRequest, BeginAuthorization, CompleteSsoAuthorization, ExchangeUnknownCode,
      RefreshReplays, RefreshRefused, ReadAccessToken

\* Setting revokedAt changes nothing else and never makes a revoked token
\* live again.
LEMMA RevokeNeverRevives ==
    ASSUME NEW dict, NEW S, now \in Times, IsDict(dict, Pairs, RefreshRecord)
    PROVE  /\ DOMAIN RevokedAt(dict, S) = DOMAIN dict
           /\ \A p \in DOMAIN dict :
                 /\ RevokedAt(dict, S)[p].revokedAt = NoTime
                       => dict[p].revokedAt = NoTime
                 /\ RevokedAt(dict, S)[p].rotationResponse
                       = dict[p].rotationResponse
                 /\ RevokedAt(dict, S)[p].client = dict[p].client
                 /\ RevokedAt(dict, S)[p].user = dict[p].user
BY DEF IsDict, RevokedAt, RefreshRecord, Times, NoTime

\* A step that mints nothing and only revokes keeps the family invariant.
LEMMA FamilyKept ==
    ASSUME StoreMatchesLedger, FamilyInv,
           UNCHANGED <<minting, redeemed, lineage>>,
           \A p \in DOMAIN ledgerRefresh :
               ledgerRefresh'[p].revokedAt = NoTime
                   => ledgerRefresh[p].revokedAt = NoTime
    PROVE  FamilyInv'
BY DEF FamilyInv, StoreMatchesLedger

\* Codes are spent once, and rotation retires the one live refresh token of a
\* family as it creates the next.
LEMMA FamilyStep ==
    ASSUME TypeOK, StoreMatchesLedger, FamilyInv, [Next]_vars
    PROVE  FamilyInv'
<1> USE PrunedFacts DEF store, history
<1>p. PruneOnly => FamilyInv'
  BY DEF PruneOnly, StoreMatchesLedger, FamilyInv
<1>1. ASSUME NEW c \in Codes, NEW client \in Clients,
             NEW redirectUri \in RedirectUris, NEW verifier \in Verifiers,
             NEW user \in Users,
             MintAuthorizationCode(c, client, redirectUri, verifier, user)
      PROVE FamilyInv'
  BY <1>1 DEF MintAuthorizationCode, Put, StoreMatchesLedger, FamilyInv
<1>2. ASSUME NEW c \in Codes, NEW request \in TokenRequest,
             ExchangeCode(c, request)
      PROVE FamilyInv'
  BY <1>2 DEF ExchangeCode, Drop, Restrict, StoreMatchesLedger, FamilyInv
<1>3. ASSUME NEW m \in minting, NEW p \in Pairs, CreateTokenPair(m, p)
      PROVE FamilyInv'
  BY <1>3 DEF CreateTokenPair, NewAccess, NewRefresh, Put, StoreMatchesLedger, FamilyInv
<1>4. ASSUME NEW p \in Pairs, NEW client \in Clients, NEW q \in Pairs,
             RefreshRotates(p, client, q)
      PROVE FamilyInv'
  <2>1. p \in DOMAIN PrunedRefresh /\ p \in DOMAIN ledgerRefresh /\ p # q
    BY <1>4 DEF RefreshRotates, CanRotate, RefreshFound, StoreMatchesLedger
  <2>2. /\ now # NoTime
        /\ ledgerRefresh[p].revokedAt = NoTime
    BY <1>4, <2>1 DEF RefreshRotates, CanRotate, StoreMatchesLedger, TypeOK,
                      Times, NoTime
  <2>3. /\ DOMAIN Rotated(ledgerRefresh, p, q) = DOMAIN ledgerRefresh
        /\ Rotated(ledgerRefresh, p, q)[p].revokedAt = now
        /\ \A x \in DOMAIN ledgerRefresh \ {p} :
              Rotated(ledgerRefresh, p, q)[x] = ledgerRefresh[x]
    BY <2>1 DEF Rotated, TypeOK, IsDict, RefreshRecord
  <2> QED
    BY <1>4, <2>1, <2>2, <2>3
    DEF RefreshRotates, Put, StoreMatchesLedger, FamilyInv
<1>5. ASSUME NEW p \in Pairs, RevokeAccessToken(p) PROVE FamilyInv'
  BY <1>5 DEF RevokeAccessToken, RevokedAt, Drop, Restrict, StoreMatchesLedger, FamilyInv
<1>6. ASSUME NEW p \in Pairs, RevokeRefreshToken(p) PROVE FamilyInv'
  <2>1. /\ DOMAIN ledgerRefresh' = DOMAIN ledgerRefresh
        /\ \A x \in DOMAIN ledgerRefresh :
              ledgerRefresh'[x].revokedAt = NoTime
                  => ledgerRefresh[x].revokedAt = NoTime
    BY <1>6, RevokeNeverRevives DEF RevokeRefreshToken, TypeOK
  <2>2. UNCHANGED <<minting, redeemed, lineage>>
    BY <1>6 DEF RevokeRefreshToken
  <2> QED BY <2>1, <2>2, FamilyKept
<1>7. ASSUME NEW user \in Users, RevokeTokensForUser(user) PROVE FamilyInv'
  <2>1. /\ DOMAIN ledgerRefresh' = DOMAIN ledgerRefresh
        /\ \A x \in DOMAIN ledgerRefresh :
              ledgerRefresh'[x].revokedAt = NoTime
                  => ledgerRefresh[x].revokedAt = NoTime
    BY <1>7, RevokeNeverRevives DEF RevokeTokensForUser, TypeOK
  <2>2. UNCHANGED <<minting, redeemed, lineage>>
    BY <1>7 DEF RevokeTokensForUser
  <2> QED BY <2>1, <2>2, FamilyKept
<1>8. CASE Tick
  BY <1>8 DEF Tick, StoreMatchesLedger, FamilyInv
<1>9. CASE Restart
  BY <1>9 DEF Restart, StoreMatchesLedger, FamilyInv
<1>10. ASSUME NEW m \in minting, ExchangeAborted(m) PROVE FamilyInv'
  BY <1>10 DEF ExchangeAborted, StoreMatchesLedger, FamilyInv
<1>11. CASE UNCHANGED vars
  BY <1>11 DEF vars, StoreMatchesLedger, FamilyInv
<1> QED
  BY <1>p, <1>1, <1>2, <1>3, <1>4, <1>5, <1>6, <1>7, <1>8, <1>9, <1>10, <1>11
  DEF Next, OAuthRequest, BeginAuthorization, CompleteSsoAuthorization, ExchangeUnknownCode,
      RefreshReplays, RefreshRefused, ReadAccessToken

\* A step that mints nothing and only revokes keeps the lineage invariant.
LEMMA LineageKept ==
    ASSUME StoreMatchesLedger, LineageInv, UNCHANGED lineage,
           \A p \in DOMAIN ledgerRefresh :
               /\ ledgerRefresh'[p].revokedAt = NoTime
                     => ledgerRefresh[p].revokedAt = NoTime
               /\ ledgerRefresh'[p].rotationResponse
                     = ledgerRefresh[p].rotationResponse
    PROVE  LineageInv'
BY DEF LineageInv, StoreMatchesLedger

\* A minted pair is the first child of its code or refresh token, and the
\* rotated token caches exactly that child.
LEMMA LineageStep ==
    ASSUME TypeOK, StoreMatchesLedger, FamilyInv, LineageInv, [Next]_vars
    PROVE  LineageInv'
<1> USE PrunedFacts DEF store, history
<1>p. PruneOnly => LineageInv'
  BY DEF PruneOnly, StoreMatchesLedger, LineageInv
<1>1. ASSUME NEW c \in Codes, NEW client \in Clients,
             NEW redirectUri \in RedirectUris, NEW verifier \in Verifiers,
             NEW user \in Users,
             MintAuthorizationCode(c, client, redirectUri, verifier, user)
      PROVE LineageInv'
  BY <1>1 DEF MintAuthorizationCode, Put, StoreMatchesLedger, LineageInv
<1>2. ASSUME NEW c \in Codes, NEW request \in TokenRequest,
             ExchangeCode(c, request)
      PROVE LineageInv'
  BY <1>2 DEF ExchangeCode, Drop, Restrict, StoreMatchesLedger, LineageInv
<1>3. ASSUME NEW m \in minting, NEW p \in Pairs, CreateTokenPair(m, p)
      PROVE LineageInv'
  <2>1. /\ m.code \in Codes /\ m.code \notin Pairs
        /\ \A x \in DOMAIN lineage : lineage[x].parent # m.code
    BY IdentityAssumption DEF TypeOK, Exchange, FamilyInv, LineageInv
  <2>2. \A x \in DOMAIN lineage : lineage[x].parent # p
    BY <1>3, IdentityAssumption
    DEF CreateTokenPair, LineageInv, TypeOK, IsDict
  <2>3. /\ DOMAIN lineage' = DOMAIN lineage \cup {p}
        /\ lineage'[p] = [code |-> m.code, parent |-> m.code]
        /\ \A x \in DOMAIN lineage : lineage'[x] = lineage[x]
        /\ ledgerRefresh'[p].rotationResponse = {}
        /\ \A x \in DOMAIN lineage : ledgerRefresh'[x] = ledgerRefresh[x]
    BY <1>3 DEF CreateTokenPair, Put, NewRefresh, StoreMatchesLedger
  <2>4. \A x \in DOMAIN lineage :
            {y \in DOMAIN lineage' : lineage'[y].parent = x}
                = {y \in DOMAIN lineage : lineage[y].parent = x}
    BY <2>1, <2>3 DEF TypeOK, IsDict
  <2>5. {y \in DOMAIN lineage' : lineage'[y].parent = p} = {}
    BY <2>1, <2>2, <2>3
  <2> QED BY <1>3, <2>1, <2>2, <2>3, <2>4, <2>5 DEF LineageInv, CreateTokenPair
<1>4. ASSUME NEW p \in Pairs, NEW client \in Clients, NEW q \in Pairs,
             RefreshRotates(p, client, q)
      PROVE LineageInv'
  <2>1. p \in DOMAIN PrunedRefresh /\ p \in DOMAIN ledgerRefresh /\ p # q
    BY <1>4 DEF RefreshRotates, CanRotate, RefreshFound, StoreMatchesLedger
  <2>2. /\ p \in DOMAIN lineage /\ now # NoTime
        /\ ledgerRefresh[p].revokedAt = NoTime
        /\ q \notin DOMAIN lineage
    BY <1>4, <2>1 DEF RefreshRotates, CanRotate, StoreMatchesLedger, TypeOK,
                      Times, NoTime
  <2>3. \A x \in DOMAIN lineage : lineage[x].parent # p /\ lineage[x].parent # q
    BY <2>2, IdentityAssumption DEF LineageInv
  <2>4. /\ DOMAIN Rotated(ledgerRefresh, p, q) = DOMAIN ledgerRefresh
        /\ Rotated(ledgerRefresh, p, q)[p].revokedAt = now
        /\ Rotated(ledgerRefresh, p, q)[p].rotationResponse = {q}
        /\ \A x \in DOMAIN ledgerRefresh \ {p} :
              Rotated(ledgerRefresh, p, q)[x] = ledgerRefresh[x]
    BY <2>1 DEF Rotated, TypeOK, IsDict, RefreshRecord
  <2>5. /\ DOMAIN lineage' = DOMAIN lineage \cup {q}
        /\ lineage'[q] = [code |-> lineage[p].code, parent |-> p]
        /\ \A x \in DOMAIN lineage : lineage'[x] = lineage[x]
        /\ ledgerRefresh'[q].rotationResponse = {}
        /\ ledgerRefresh'[p].revokedAt # NoTime
        /\ ledgerRefresh'[p].rotationResponse = {q}
        /\ \A x \in DOMAIN lineage \ {p} : ledgerRefresh'[x] = ledgerRefresh[x]
    BY <1>4, <2>2, <2>4 DEF RefreshRotates, Put, NewRefresh, StoreMatchesLedger
  <2>6. \A x \in DOMAIN lineage \ {p} :
            {y \in DOMAIN lineage' : lineage'[y].parent = x}
                = {y \in DOMAIN lineage : lineage[y].parent = x}
    BY <2>5
  <2>7. /\ {y \in DOMAIN lineage' : lineage'[y].parent = p} = {q}
        /\ {y \in DOMAIN lineage' : lineage'[y].parent = q} = {}
    BY <2>1, <2>3, <2>5
  <2>8. p \in Pairs /\ p \notin Codes
    BY IdentityAssumption
  <2> QED BY <2>2, <2>3, <2>5, <2>6, <2>7, <2>8 DEF LineageInv
<1>5. ASSUME NEW p \in Pairs, RevokeAccessToken(p) PROVE LineageInv'
  BY <1>5 DEF RevokeAccessToken, RevokedAt, Drop, Restrict, StoreMatchesLedger, LineageInv
<1>6. ASSUME NEW p \in Pairs, RevokeRefreshToken(p) PROVE LineageInv'
  <2>1. /\ DOMAIN ledgerRefresh' = DOMAIN ledgerRefresh
        /\ \A x \in DOMAIN ledgerRefresh :
              /\ ledgerRefresh'[x].revokedAt = NoTime
                    => ledgerRefresh[x].revokedAt = NoTime
              /\ ledgerRefresh'[x].rotationResponse
                    = ledgerRefresh[x].rotationResponse
    BY <1>6, RevokeNeverRevives DEF RevokeRefreshToken, TypeOK
  <2>2. UNCHANGED lineage
    BY <1>6 DEF RevokeRefreshToken
  <2> QED BY <2>1, <2>2, LineageKept
<1>7. ASSUME NEW user \in Users, RevokeTokensForUser(user) PROVE LineageInv'
  <2>1. /\ DOMAIN ledgerRefresh' = DOMAIN ledgerRefresh
        /\ \A x \in DOMAIN ledgerRefresh :
              /\ ledgerRefresh'[x].revokedAt = NoTime
                    => ledgerRefresh[x].revokedAt = NoTime
              /\ ledgerRefresh'[x].rotationResponse
                    = ledgerRefresh[x].rotationResponse
    BY <1>7, RevokeNeverRevives DEF RevokeTokensForUser, TypeOK
  <2>2. UNCHANGED lineage
    BY <1>7 DEF RevokeTokensForUser
  <2> QED BY <2>1, <2>2, LineageKept
<1>8. CASE Tick
  BY <1>8 DEF Tick, StoreMatchesLedger, LineageInv
<1>9. CASE Restart
  BY <1>9 DEF Restart, StoreMatchesLedger, LineageInv
<1>10. ASSUME NEW m \in minting, ExchangeAborted(m) PROVE LineageInv'
  BY <1>10 DEF ExchangeAborted, StoreMatchesLedger, LineageInv
<1>11. CASE UNCHANGED vars
  BY <1>11 DEF vars, StoreMatchesLedger, LineageInv
<1> QED
  BY <1>p, <1>1, <1>2, <1>3, <1>4, <1>5, <1>6, <1>7, <1>8, <1>9, <1>10, <1>11
  DEF Next, OAuthRequest, BeginAuthorization, CompleteSsoAuthorization, ExchangeUnknownCode,
      RefreshReplays, RefreshRefused, ReadAccessToken

\* Revoking an access token leaves its owner alone.
LEMMA RevokeKeepsOwner ==
    ASSUME NEW dict, NEW S, IsDict(dict, Pairs, AccessRecord)
    PROVE  \A p \in DOMAIN dict :
              /\ RevokedAt(dict, S)[p].client = dict[p].client
              /\ RevokedAt(dict, S)[p].user = dict[p].user
BY DEF IsDict, RevokedAt, AccessRecord

\* A step that mints nothing and changes no owner keeps the bindings.
LEMMA BindingKept ==
    ASSUME StoreMatchesLedger, BindingInv,
           UNCHANGED <<lineage, minting, ledgerCodes>>,
           \A p \in DOMAIN ledgerAccess :
              /\ ledgerAccess'[p].client = ledgerAccess[p].client
              /\ ledgerAccess'[p].user = ledgerAccess[p].user,
           \A p \in DOMAIN ledgerRefresh :
              /\ ledgerRefresh'[p].client = ledgerRefresh[p].client
              /\ ledgerRefresh'[p].user = ledgerRefresh[p].user
    PROVE  BindingInv'
BY DEF BindingInv, BindingPreserved, StoreMatchesLedger

\* The client and user of a code travel with every pair that descends from it.
LEMMA BindingStep ==
    ASSUME TypeOK, StoreMatchesLedger, FamilyInv, BindingInv, [Next]_vars
    PROVE  BindingInv'
<1> USE PrunedFacts DEF store, history
<1>p. PruneOnly => BindingInv'
  BY DEF PruneOnly, StoreMatchesLedger, FamilyInv, BindingInv, BindingPreserved
<1>1. ASSUME NEW c \in Codes, NEW client \in Clients,
             NEW redirectUri \in RedirectUris, NEW verifier \in Verifiers,
             NEW user \in Users,
             MintAuthorizationCode(c, client, redirectUri, verifier, user)
      PROVE BindingInv'
  <2>1. \A x \in DOMAIN ledgerCodes : ledgerCodes'[x] = ledgerCodes[x]
    BY <1>1 DEF MintAuthorizationCode, Put
  <2>2. UNCHANGED <<minting, ledgerAccess, ledgerRefresh, lineage>>
    BY <1>1 DEF MintAuthorizationCode
  <2> QED
    BY <2>1, <2>2
    DEF StoreMatchesLedger, FamilyInv, BindingInv, BindingPreserved
<1>2. ASSUME NEW c \in Codes, NEW request \in TokenRequest,
             ExchangeCode(c, request)
      PROVE BindingInv'
  <2> DEFINE new == [code |-> c, client |-> request.client,
                     user |-> authorizationCodes[c].user]
  <2>1. authorizationCodes[c] = ledgerCodes[c]
    BY <1>2 DEF ExchangeCode, StoreMatchesLedger
  <2>2. minting' \in {minting, minting \cup {new}}
    BY <1>2 DEF ExchangeCode
  <2>3. minting' # minting => request.client = ledgerCodes[c].client
    BY <1>2, <2>1 DEF ExchangeCode, ExchangeGranted
  <2>4. UNCHANGED <<ledgerCodes, ledgerAccess, ledgerRefresh, lineage>>
    BY <1>2 DEF ExchangeCode
  <2> QED BY <2>1, <2>2, <2>3, <2>4 DEF BindingInv, BindingPreserved
<1>3. ASSUME NEW m \in minting, NEW p \in Pairs, CreateTokenPair(m, p)
      PROVE BindingInv'
  <2>1. /\ DOMAIN lineage' = DOMAIN lineage \cup {p}
        /\ lineage'[p].code = m.code
        /\ \A x \in DOMAIN lineage : lineage'[x] = lineage[x]
        /\ ledgerAccess'[p].client = m.client /\ ledgerAccess'[p].user = m.user
        /\ ledgerRefresh'[p].client = m.client /\ ledgerRefresh'[p].user = m.user
        /\ p \notin DOMAIN lineage
        /\ \A x \in DOMAIN lineage : /\ ledgerAccess'[x] = ledgerAccess[x]
                                     /\ ledgerRefresh'[x] = ledgerRefresh[x]
    BY <1>3
    DEF CreateTokenPair, Put, NewAccess, NewRefresh, StoreMatchesLedger
  <2>2. UNCHANGED ledgerCodes /\ minting' \subseteq minting
    BY <1>3 DEF CreateTokenPair
  <2> QED BY <2>1, <2>2 DEF BindingInv, BindingPreserved
<1>4. ASSUME NEW p \in Pairs, NEW client \in Clients, NEW q \in Pairs,
             RefreshRotates(p, client, q)
      PROVE BindingInv'
  <2>1. p \in DOMAIN PrunedRefresh /\ p \in DOMAIN ledgerRefresh /\ p # q
    BY <1>4 DEF RefreshRotates, CanRotate, RefreshFound, StoreMatchesLedger
  <2>2. /\ refreshTokens[p].user = ledgerRefresh[p].user
        /\ client = ledgerRefresh[p].client
        /\ p \in DOMAIN lineage /\ q \notin DOMAIN lineage
    BY <1>4, <2>1
    DEF RefreshRotates, CanRotate, RefreshFound, StoreMatchesLedger
  <2>3. /\ DOMAIN Rotated(ledgerRefresh, p, q) = DOMAIN ledgerRefresh
        /\ \A x \in DOMAIN ledgerRefresh :
              /\ Rotated(ledgerRefresh, p, q)[x].client = ledgerRefresh[x].client
              /\ Rotated(ledgerRefresh, p, q)[x].user = ledgerRefresh[x].user
    BY DEF Rotated, TypeOK, IsDict, RefreshRecord
  <2>4. /\ DOMAIN lineage' = DOMAIN lineage \cup {q}
        /\ lineage'[q].code = lineage[p].code
        /\ \A x \in DOMAIN lineage : lineage'[x] = lineage[x]
        /\ ledgerAccess'[q].client = client
        /\ ledgerAccess'[q].user = refreshTokens[p].user
        /\ ledgerRefresh'[q].client = client
        /\ ledgerRefresh'[q].user = refreshTokens[p].user
        /\ \A x \in DOMAIN lineage :
              /\ ledgerAccess'[x] = ledgerAccess[x]
              /\ ledgerRefresh'[x].client = ledgerRefresh[x].client
              /\ ledgerRefresh'[x].user = ledgerRefresh[x].user
    BY <1>4, <2>2, <2>3
    DEF RefreshRotates, Put, NewAccess, NewRefresh, StoreMatchesLedger
  <2>5. UNCHANGED <<minting, ledgerCodes>>
    BY <1>4 DEF RefreshRotates
  <2> QED BY <2>2, <2>4, <2>5 DEF BindingInv, BindingPreserved
<1>5. ASSUME NEW p \in Pairs, RevokeAccessToken(p) PROVE BindingInv'
  <2>1. /\ \A x \in DOMAIN ledgerAccess :
              /\ ledgerAccess'[x].client = ledgerAccess[x].client
              /\ ledgerAccess'[x].user = ledgerAccess[x].user
        /\ \A x \in DOMAIN ledgerRefresh :
              /\ ledgerRefresh'[x].client = ledgerRefresh[x].client
              /\ ledgerRefresh'[x].user = ledgerRefresh[x].user
    BY <1>5, RevokeKeepsOwner, RevokeNeverRevives DEF RevokeAccessToken, TypeOK
  <2>2. UNCHANGED <<lineage, minting, ledgerCodes>>
    BY <1>5 DEF RevokeAccessToken
  <2> QED BY <2>1, <2>2, BindingKept
<1>6. ASSUME NEW p \in Pairs, RevokeRefreshToken(p) PROVE BindingInv'
  <2>1. /\ \A x \in DOMAIN ledgerAccess :
              /\ ledgerAccess'[x].client = ledgerAccess[x].client
              /\ ledgerAccess'[x].user = ledgerAccess[x].user
        /\ \A x \in DOMAIN ledgerRefresh :
              /\ ledgerRefresh'[x].client = ledgerRefresh[x].client
              /\ ledgerRefresh'[x].user = ledgerRefresh[x].user
    BY <1>6, RevokeKeepsOwner, RevokeNeverRevives DEF RevokeRefreshToken, TypeOK
  <2>2. UNCHANGED <<lineage, minting, ledgerCodes>>
    BY <1>6 DEF RevokeRefreshToken
  <2> QED BY <2>1, <2>2, BindingKept
<1>7. ASSUME NEW user \in Users, RevokeTokensForUser(user) PROVE BindingInv'
  <2>1. /\ \A x \in DOMAIN ledgerAccess :
              /\ ledgerAccess'[x].client = ledgerAccess[x].client
              /\ ledgerAccess'[x].user = ledgerAccess[x].user
        /\ \A x \in DOMAIN ledgerRefresh :
              /\ ledgerRefresh'[x].client = ledgerRefresh[x].client
              /\ ledgerRefresh'[x].user = ledgerRefresh[x].user
    BY <1>7, RevokeKeepsOwner, RevokeNeverRevives DEF RevokeTokensForUser, TypeOK
  <2>2. UNCHANGED <<lineage, minting, ledgerCodes>>
    BY <1>7 DEF RevokeTokensForUser
  <2> QED BY <2>1, <2>2, BindingKept
<1>8. CASE Tick
  BY <1>8 DEF Tick, StoreMatchesLedger, FamilyInv, BindingInv, BindingPreserved
<1>9. CASE Restart
  BY <1>9 DEF Restart, StoreMatchesLedger, FamilyInv, BindingInv, BindingPreserved
<1>10. ASSUME NEW m \in minting, ExchangeAborted(m) PROVE BindingInv'
  BY <1>10 DEF ExchangeAborted, StoreMatchesLedger, FamilyInv, BindingInv, BindingPreserved
<1>11. CASE UNCHANGED vars
  BY <1>11 DEF vars, StoreMatchesLedger, FamilyInv, BindingInv, BindingPreserved
<1> QED
  BY <1>p, <1>1, <1>2, <1>3, <1>4, <1>5, <1>6, <1>7, <1>8, <1>9, <1>10, <1>11
  DEF Next, OAuthRequest, BeginAuthorization, CompleteSsoAuthorization, ExchangeUnknownCode,
      RefreshReplays, RefreshRefused, ReadAccessToken

-----------------------------------------------------------------------------
(* Theorems                                                                *)

\* The parts of the invariant hold together: each needs some of the others.
THEOREM Invariance == Spec => []IInv
<1>1. Init => IInv
  BY TtlAssumption, ConfigsAssumption
  DEF Init, IInv, TypeOK, StoreMatchesLedger, StoreRetains, FamilyInv,
      LineageInv, BindingInv, BindingPreserved, EmptyDict, IsDict, Times
<1>2. IInv /\ [Next]_vars => IInv'
  BY TypeStep, MatchStep, RetainStep, FamilyStep, LineageStep, BindingStep
  DEF IInv
<1> QED
  BY <1>1, <1>2, PTL DEF Spec

\* Every reachable state is well typed: no operation stores a record of the
\* wrong shape, under an identity of the wrong kind, or with a date outside
\* the clock's reach.
THEOREM TypeCorrect == Spec => []TypeOK
BY Invariance, PTL DEF IInv

\* Pruning is unobservable for every choice of lifetimes and grace period:
\* the store answers as a ledger that never forgets.
THEOREM PruneIsUnobservable == Spec => []PruneUnobservable
<1>1. IInv => PruneUnobservable
  <2> SUFFICES ASSUME IInv PROVE PruneUnobservable
    OBVIOUS
  <2> USE PrunedFacts DEF IInv, NoTime, Ledger!NoTime, NoKey, Ledger!NoKey
  <2>1. \A c \in Codes : c \in DOMAIN PrunedCodes <=> Ledger!CodeUsable(c)
    BY DEF Ledger!CodeUsable, StoreMatchesLedger, StoreRetains
  <2>2. ASSUME NEW p \in Pairs
        PROVE  /\ p \in DOMAIN PrunedAccess
                    => accessTokens[p] = ledgerAccess[p]
               /\ p \in DOMAIN PrunedAccess <=>
                    /\ p \in DOMAIN ledgerAccess
                    /\ now < ledgerAccess[p].expiresAt
                    /\ ledgerAccess[p].revokedAt = NoTime
               /\ p \in DOMAIN PrunedRefresh
                    => refreshTokens[p] = ledgerRefresh[p]
               /\ p \in DOMAIN PrunedRefresh <=> Ledger!RefreshKnown(p)
    BY DEF Ledger!RefreshKnown, StoreMatchesLedger, StoreRetains
  <2> HIDE PrunedFacts
  <2>3. ASSUME NEW p \in Pairs PROVE CanRead(p) <=> Ledger!AccessUsable(p)
    BY <2>2 DEF CanRead, Ledger!AccessUsable, Ledger!Opens, Opens
  <2>4. ASSUME NEW p \in Pairs, NEW client \in Clients
        PROVE  RefreshFound(p, client) <=> Ledger!RefreshGrants(p, client)
    BY <2>2 DEF RefreshFound, Ledger!RefreshGrants, Opens, Ledger!Opens
  <2>5. ASSUME NEW p \in Pairs, NEW client \in Clients
        PROVE  CanRotate(p, client) <=> Ledger!RefreshRotates(p, client)
    BY <2>2, <2>4 DEF CanRotate, RefreshFound, Ledger!RefreshRotates
  <2>6. ASSUME NEW p \in Pairs, NEW client \in Clients
        PROVE  CanReplay(p, client) <=> Ledger!RefreshReplays(p, client)
    <3>1. RefreshFound(p, client) /\ refreshTokens[p].revokedAt # NoTime
            => now - refreshTokens[p].revokedAt <= RefreshGrace
      BY <2>2 DEF RefreshFound, Ledger!RefreshKnown
    <3> QED
      BY <2>2, <2>4, <3>1 DEF CanReplay, RefreshFound, Ledger!RefreshReplays
  <2> QED BY <2>1, <2>3, <2>5, <2>6 DEF PruneUnobservable
<1> QED BY <1>1, Invariance, PTL

\* However requests, retries, aborted exchanges, uninstalls and restarts
\* interleave, a sign-in never has two refresh tokens that can be rotated.
THEOREM OneLiveToken == Spec => []OneLiveRefreshTokenPerFamily
<1>1. IInv => OneLiveRefreshTokenPerFamily
  BY DEF IInv, FamilyInv, StoreMatchesLedger, OneLiveRefreshTokenPerFamily,
         LiveRefreshTokens, Family
<1> QED BY <1>1, Invariance, PTL

\* A code or refresh token is answered with at most one pair, and a replay
\* returns that pair.
THEOREM AtMostOneChild == Spec => []OneChild
<1>1. IInv => OneChild
  BY DEF IInv, LineageInv, StoreMatchesLedger, OneChild
<1> QED BY <1>1, Invariance, PTL

\* Rotation, restarts and configuration changes never move a session to
\* another client or user.
THEOREM BindingIsPreserved == Spec => []BindingPreserved
<1>1. IInv => BindingPreserved
  BY DEF IInv, BindingInv
<1> QED BY <1>1, Invariance, PTL

\* Every step of the store is a step of the ledger, or leaves it alone.
LEMMA LedgerStep ==
    ASSUME IInv, [Next]_vars
    PROVE  [Ledger!Next]_(Ledger!vars)
<1> USE PrunedFacts DEF store, history, IInv, NoTime, Ledger!NoTime, NoKey, Ledger!NoKey
<1>p. PruneOnly => UNCHANGED Ledger!vars
  BY DEF PruneOnly, Ledger!vars
<1>u. \A p \in Pairs :
        /\ p \in DOMAIN PrunedAccess <=>
             /\ p \in DOMAIN ledgerAccess
             /\ now < ledgerAccess[p].expiresAt
             /\ ledgerAccess[p].revokedAt = NoTime
        /\ p \in DOMAIN PrunedAccess => accessTokens[p] = ledgerAccess[p]
        /\ p \in DOMAIN PrunedRefresh <=> Ledger!RefreshKnown(p)
        /\ p \in DOMAIN PrunedRefresh => refreshTokens[p] = ledgerRefresh[p]
  BY DEF Ledger!RefreshKnown, StoreMatchesLedger, StoreRetains
<1>1. ASSUME NEW c \in Codes, NEW client \in Clients,
             NEW redirectUri \in RedirectUris, NEW verifier \in Verifiers,
             NEW user \in Users,
             \E cfg \in Configs : client \in DOMAIN cfg.clients,
             MintAuthorizationCode(c, client, redirectUri, verifier, user)
      PROVE Ledger!Next
  <2>1. Ledger!Issue(c, client, redirectUri, Ledger!S256(verifier), user)
    BY <1>1 DEF MintAuthorizationCode, Ledger!Issue,
                Ledger!Put, Put, S256, Ledger!S256
  <2> QED BY <2>1 DEF Ledger!Next
<1>2. ASSUME NEW c \in Codes, NEW request \in TokenRequest,
             ExchangeCode(c, request)
      PROVE Ledger!Next
  <2>1. /\ Ledger!CodeUsable(c) /\ authorizationCodes[c] = ledgerCodes[c]
    BY <1>2 DEF ExchangeCode, StoreMatchesLedger, Ledger!CodeUsable
  <2>2. Ledger!Redeem(c)
    BY <1>2, <2>1
    DEF ExchangeCode, ExchangeGranted, Opens, Ledger!Opens, Ledger!Redeem
  <2> QED BY <2>2 DEF Ledger!Next
<1>3. ASSUME NEW m \in minting, NEW p \in Pairs, CreateTokenPair(m, p)
      PROVE Ledger!Next
  <2>1. Ledger!Mint(m, p)
    BY <1>3 DEF CreateTokenPair, NewAccess, NewRefresh, Put, Ledger!Put,
                Ledger!Mint, Ledger!WritePair
  <2> QED BY <2>1 DEF Ledger!Next
<1>4. ASSUME NEW p \in Pairs, NEW client \in Clients, NEW q \in Pairs,
             RefreshRotates(p, client, q)
      PROVE Ledger!Next
  <2>1. /\ p \in DOMAIN PrunedRefresh /\ refreshTokens[p] = ledgerRefresh[p]
        /\ client = ledgerRefresh[p].client /\ p \in DOMAIN ledgerRefresh
        /\ Ledger!RefreshKnown(p)
    BY <1>4, <1>u DEF RefreshRotates, CanRotate, RefreshFound, StoreMatchesLedger
  <2>2. Ledger!RefreshRotates(p, ledgerRefresh[p].client)
    BY <1>4, <2>1 DEF RefreshRotates, CanRotate, RefreshFound, Opens,
       Ledger!Opens, Ledger!RefreshRotates, Ledger!RefreshGrants
  <2>3. Ledger!Rotate(p, q)
    BY <1>4, <2>1, <2>2 DEF RefreshRotates, Rotated, NewAccess, NewRefresh,
       Put, Ledger!Put, Ledger!Rotate, Ledger!WritePair
  <2> QED BY <2>1, <2>3 DEF Ledger!Next
<1>5. ASSUME NEW p \in Pairs, RevokeAccessToken(p) PROVE Ledger!Next
  <2>1. p \in DOMAIN ledgerAccess /\ ledgerRefresh' = ledgerRefresh
    BY <1>5, <1>u DEF RevokeAccessToken
  <2>2. ledgerRefresh = [x \in DOMAIN ledgerRefresh |-> ledgerRefresh[x]]
    BY DEF TypeOK, IsDict
  <2>3. Ledger!Revoke({p}, {})
    BY <1>5, <1>u, <2>1, <2>2 DEF RevokeAccessToken, RevokedAt, Ledger!Revoke
  <2> QED BY <2>1, <2>3 DEF Ledger!Next
<1>6. ASSUME NEW p \in Pairs, RevokeRefreshToken(p) PROVE Ledger!Next
  <2>1. p \in DOMAIN ledgerRefresh /\ Ledger!RefreshKnown(p)
    BY <1>6, <1>u DEF RevokeRefreshToken, StoreMatchesLedger
  <2>2. ledgerAccess = [x \in DOMAIN ledgerAccess |-> ledgerAccess[x]]
    BY DEF TypeOK, IsDict
  <2>3. Ledger!Revoke({}, {p})
    BY <1>6, <2>1, <2>2 DEF RevokeRefreshToken, RevokedAt, Ledger!Revoke
  <2> QED BY <2>1, <2>3 DEF Ledger!Next
<1>7. ASSUME NEW user \in Users, RevokeTokensForUser(user) PROVE Ledger!Next
  <2>1. /\ Of(PrunedAccess, user) =
             {p \in DOMAIN ledgerAccess : ledgerAccess[p].user = user
                 /\ now < ledgerAccess[p].expiresAt
                 /\ ledgerAccess[p].revokedAt = NoTime}
        /\ Of(PrunedRefresh, user) =
             {p \in DOMAIN ledgerRefresh :
                 ledgerRefresh[p].user = user /\ Ledger!RefreshKnown(p)}
    <3>1. /\ DOMAIN ledgerAccess \subseteq Pairs /\ DOMAIN ledgerRefresh \subseteq Pairs
          /\ DOMAIN PrunedAccess \subseteq Pairs /\ DOMAIN PrunedRefresh \subseteq Pairs
      BY DEF TypeOK, IsDict
    <3>2. DOMAIN PrunedRefresh \subseteq DOMAIN ledgerRefresh
      BY DEF StoreMatchesLedger
    <3>3. /\ \A p \in DOMAIN PrunedAccess : PrunedAccess[p] = ledgerAccess[p]
          /\ \A p \in DOMAIN PrunedRefresh : PrunedRefresh[p] = ledgerRefresh[p]
      BY DEF StoreMatchesLedger
    <3> HIDE PrunedFacts
    <3> QED BY <1>u, <3>1, <3>2, <3>3 DEF Of
  <2>2. Ledger!RevokeUser(user)
    BY <1>7, <2>1 DEF RevokeTokensForUser, RevokedAt, Ledger!RevokeUser,
                      Ledger!Revoke
  <2> QED BY <2>2 DEF Ledger!Next
<1>8. CASE Tick
  BY <1>8 DEF Tick, Ledger!Tick, Ledger!Next
<1>9. CASE Restart
  <2>1. Ledger!Abandon(minting) /\ config' \in Configs
    BY <1>9 DEF Restart, Ledger!Abandon
  <2> QED BY <2>1 DEF Ledger!Next
<1>10. ASSUME NEW m \in minting, ExchangeAborted(m) PROVE Ledger!Next
  <2>1. Ledger!Abandon({m}) /\ config' \in Configs
    BY <1>10 DEF ExchangeAborted, Ledger!Abandon, TypeOK
  <2> QED BY <2>1 DEF Ledger!Next
<1>11. CASE UNCHANGED vars
  BY <1>11 DEF vars, Ledger!vars
<1>12. ASSUME NEW c \in Codes, NEW client \in Clients,
              NEW redirectUri \in RedirectUris, NEW verifier \in Verifiers,
              NEW user \in Users,
              \/ BeginAuthorization(c, client, redirectUri, verifier, user)
              \/ CompleteSsoAuthorization(c, client, redirectUri, verifier, user)
       PROVE Ledger!Next
  <2>1. /\ \E cfg \in Configs : client \in DOMAIN cfg.clients
        /\ MintAuthorizationCode(c, client, redirectUri, verifier, user)
    BY <1>12 DEF BeginAuthorization, CompleteSsoAuthorization,
                 RedirectUriAllowed, TypeOK
  <2> QED BY <1>1, <2>1
<1> QED
  BY <1>p, <1>2, <1>3, <1>4, <1>5, <1>6, <1>7, <1>8, <1>9, <1>10, <1>11, <1>12
  DEF Next, OAuthRequest, ExchangeUnknownCode, RefreshReplays, RefreshRefused, ReadAccessToken

\* The pruning store implements the ledger that never forgets, for every
\* choice of lifetimes, grace period and configurations.
THEOREM StoreImplementsLedger == Spec => ImplementsLedger
<1>1. Init => Ledger!Init
  BY DEF Init, Ledger!Init, EmptyDict, Ledger!EmptyDict
<1> QED
  BY <1>1, LedgerStep, Invariance, PTL DEF Spec, ImplementsLedger, Ledger!Spec

\* What a step may do to the families: nothing is forgotten or revived, and a
\* new pair continues an exchange or a live refresh token.
Growth ==
    /\ \A p \in DOMAIN lineage :
          /\ p \in DOMAIN lineage' /\ lineage'[p] = lineage[p]
          /\ ledgerAccess'[p].revokedAt = NoTime
                => ledgerAccess[p].revokedAt = NoTime
          /\ ledgerRefresh'[p].revokedAt = NoTime
                => ledgerRefresh[p].revokedAt = NoTime
    /\ \A q \in DOMAIN lineage' \ DOMAIN lineage :
          \/ \E m \in minting : lineage'[q].code = m.code
          \/ \E p \in DOMAIN lineage : /\ lineage'[q].code = lineage[p].code
                                       /\ ledgerRefresh[p].revokedAt = NoTime

\* The same for access tokens.
LEMMA RevokeAccessNeverRevives ==
    ASSUME NEW dict, NEW S, now \in Times, IsDict(dict, Pairs, AccessRecord)
    PROVE  \A p \in DOMAIN dict : RevokedAt(dict, S)[p].revokedAt = NoTime
                                    => dict[p].revokedAt = NoTime
BY DEF IsDict, RevokedAt, AccessRecord, Times, NoTime

\* Every step grows the families that way.
LEMMA GrowthStep ==
    ASSUME TypeOK, StoreMatchesLedger, [Next]_vars
    PROVE  Growth
<1> USE PrunedFacts DEF store, history
<1>p. PruneOnly => Growth
  BY DEF PruneOnly, StoreMatchesLedger, Growth
<1>1. ASSUME NEW c \in Codes, NEW client \in Clients,
             NEW redirectUri \in RedirectUris, NEW verifier \in Verifiers,
             NEW user \in Users,
             MintAuthorizationCode(c, client, redirectUri, verifier, user)
      PROVE Growth
  BY <1>1 DEF MintAuthorizationCode, Put, StoreMatchesLedger, Growth
<1>2. ASSUME NEW c \in Codes, NEW request \in TokenRequest,
             ExchangeCode(c, request)
      PROVE Growth
  BY <1>2 DEF ExchangeCode, Drop, Restrict, StoreMatchesLedger, Growth
<1>3. ASSUME NEW m \in minting, NEW p \in Pairs, CreateTokenPair(m, p)
      PROVE Growth
  BY <1>3 DEF CreateTokenPair, NewAccess, NewRefresh, Put, StoreMatchesLedger, Growth
<1>4. ASSUME NEW p \in Pairs, NEW client \in Clients, NEW q \in Pairs,
             RefreshRotates(p, client, q)
      PROVE Growth
  <2>1. /\ p \in DOMAIN ledgerRefresh
        /\ ledgerRefresh[p].revokedAt = NoTime /\ q \notin DOMAIN lineage
    BY <1>4 DEF RefreshRotates, CanRotate, RefreshFound, StoreMatchesLedger
  <2>2. /\ DOMAIN Rotated(ledgerRefresh, p, q) = DOMAIN ledgerRefresh
        /\ \A x \in DOMAIN ledgerRefresh \ {p} :
              Rotated(ledgerRefresh, p, q)[x] = ledgerRefresh[x]
    BY DEF Rotated
  <2>3. /\ DOMAIN lineage' = DOMAIN lineage \cup {q}
        /\ lineage'[q].code = lineage[p].code
        /\ \A x \in DOMAIN lineage :
              /\ lineage'[x] = lineage[x] /\ ledgerAccess'[x] = ledgerAccess[x]
              /\ x # p => ledgerRefresh'[x] = ledgerRefresh[x]
    BY <1>4, <2>1, <2>2 DEF RefreshRotates, Put, StoreMatchesLedger
  <2> QED BY <2>1, <2>3 DEF Growth, StoreMatchesLedger
<1>5. ASSUME NEW p \in Pairs, RevokeAccessToken(p) PROVE Growth
  <2>1. UNCHANGED lineage
    BY <1>5 DEF RevokeAccessToken
  <2>2. \A x \in DOMAIN lineage :
            /\ ledgerAccess'[x].revokedAt = NoTime
                  => ledgerAccess[x].revokedAt = NoTime
            /\ ledgerRefresh'[x].revokedAt = NoTime
                  => ledgerRefresh[x].revokedAt = NoTime
    BY <1>5, RevokeNeverRevives, RevokeAccessNeverRevives
    DEF RevokeAccessToken, TypeOK, StoreMatchesLedger
  <2> QED BY <2>1, <2>2 DEF Growth
<1>6. ASSUME NEW p \in Pairs, RevokeRefreshToken(p) PROVE Growth
  <2>1. UNCHANGED lineage
    BY <1>6 DEF RevokeRefreshToken
  <2>2. \A x \in DOMAIN lineage :
            /\ ledgerAccess'[x].revokedAt = NoTime
                  => ledgerAccess[x].revokedAt = NoTime
            /\ ledgerRefresh'[x].revokedAt = NoTime
                  => ledgerRefresh[x].revokedAt = NoTime
    BY <1>6, RevokeNeverRevives, RevokeAccessNeverRevives
    DEF RevokeRefreshToken, TypeOK, StoreMatchesLedger
  <2> QED BY <2>1, <2>2 DEF Growth
<1>7. ASSUME NEW user \in Users, RevokeTokensForUser(user) PROVE Growth
  <2>1. UNCHANGED lineage
    BY <1>7 DEF RevokeTokensForUser
  <2>2. \A x \in DOMAIN lineage :
            /\ ledgerAccess'[x].revokedAt = NoTime
                  => ledgerAccess[x].revokedAt = NoTime
            /\ ledgerRefresh'[x].revokedAt = NoTime
                  => ledgerRefresh[x].revokedAt = NoTime
    BY <1>7, RevokeNeverRevives, RevokeAccessNeverRevives
    DEF RevokeTokensForUser, TypeOK, StoreMatchesLedger
  <2> QED BY <2>1, <2>2 DEF Growth
<1>8. CASE Tick
  BY <1>8 DEF Tick, StoreMatchesLedger, Growth
<1>9. CASE Restart
  BY <1>9 DEF Restart, StoreMatchesLedger, Growth
<1>10. ASSUME NEW m \in minting, ExchangeAborted(m) PROVE Growth
  BY <1>10 DEF ExchangeAborted, StoreMatchesLedger, Growth
<1>11. CASE UNCHANGED vars
  BY <1>11 DEF vars, StoreMatchesLedger, Growth
<1> QED
  BY <1>p, <1>1, <1>2, <1>3, <1>4, <1>5, <1>6, <1>7, <1>8, <1>9, <1>10, <1>11
  DEF Next, OAuthRequest, BeginAuthorization, CompleteSsoAuthorization, ExchangeUnknownCode,
      RefreshReplays, RefreshRefused, ReadAccessToken

\* After an uninstall, or once its last refresh token is rotated away or
\* revoked, a sign-in can never be continued, and revoked access tokens stay
\* refused.
THEOREM DeadStayDead == Spec => DeadFamiliesStayDead
<1> DEFINE Kept(c) ==
      FamilyDead(c) =>
          /\ FamilyDead(c)' /\ Family(c)' = Family(c)
          /\ \A p \in Family(c) :
                ledgerAccess[p].revokedAt # NoTime => ~CanRead(p)'
<1>1. IInv /\ IInv' /\ [Next]_vars => \A c \in Codes : Kept(c)
  <2> SUFFICES ASSUME IInv, IInv', [Next]_vars, NEW c \in Codes, FamilyDead(c)
               PROVE  /\ FamilyDead(c)' /\ Family(c)' = Family(c)
                      /\ \A p \in Family(c) :
                            ledgerAccess[p].revokedAt # NoTime => ~CanRead(p)'
    OBVIOUS
  <2>1. Growth
    BY GrowthStep DEF IInv
  <2>2. Family(c)' = Family(c)
    <3>1. /\ \A m \in minting : m.code # c
          /\ \A p \in DOMAIN lineage :
                lineage[p].code = c => ledgerRefresh[p].revokedAt # NoTime
      BY DEF FamilyDead, Family, LiveRefreshTokens, IInv, FamilyInv
    <3> QED BY <2>1, <3>1 DEF Growth, Family
  <2>3. FamilyDead(c)'
    BY <2>1, <2>2 DEF Growth, FamilyDead, Family, LiveRefreshTokens
  <2>4. ASSUME NEW p \in Family(c), ledgerAccess[p].revokedAt # NoTime
        PROVE  ~CanRead(p)'
    <3>1. ledgerAccess'[p].revokedAt # NoTime
      BY <2>1, <2>4 DEF Growth, Family
    <3>2. p \in DOMAIN accessTokens' => accessTokens'[p] = ledgerAccess'[p]
      BY DEF IInv, StoreMatchesLedger
    <3> QED BY <3>1, <3>2 DEF CanRead, PrunedAccess, Restrict
  <2> QED BY <2>2, <2>3, <2>4
<1>2. IInv /\ IInv' /\ [Next]_vars => [\A c \in Codes : Kept(c)]_vars
  BY <1>1
<1> QED
  BY <1>2, Invariance, PTL DEF Spec, DeadFamiliesStayDead
=============================================================================
