---------------------------- MODULE OAuthRecords ----------------------------
(***************************************************************************)
(* The data of the OAuth broker: the identities it hands out, the records  *)
(* it keeps about them, and the constants of its configuration.  Shared by *)
(* the store that the code implements (AuthService) and by the             *)
(* specification of what that store promises (TokenLedger).                *)
(*                                                                         *)
(* A session is reduced to the user it belongs to (one member of Users is  *)
(* one user/tenant pair) and to the key its secrets were sealed with.      *)
(* Scope, integration and the creation dates decide nothing and are left   *)
(* out.  An access token and the refresh token minted with it share one    *)
(* identity of Pairs.                                                      *)
(***************************************************************************)
EXTENDS Naturals, Functions

CONSTANTS
    Clients,       \* OAuth client ids
    RedirectUris,
    Verifiers,     \* PKCE code verifiers the clients know
    Users,         \* user/tenant pairs
    Codes,         \* the authorization codes _random_token may return
    Pairs,         \* the access/refresh pairs _random_token may return
    Keys,          \* values of STORAGE_ENCRYPTION_KEY
    Configs,       \* the configurations the process may be started with
    AuthCodeTtl,   \* AUTH_CODE_TTL_SECONDS
    TokenTtl,      \* TOKEN_TTL_SECONDS
    RefreshTtl,    \* OAUTH_REFRESH_TOKEN_TTL_SECONDS
    RefreshGrace,  \* OAUTH_REFRESH_GRACE_SECONDS
    MaxTime        \* bound on the clock

NoTime     == 0             \* Python's None in revokedAt
NoKey      == "plaintext"   \* NullFieldCipher: no STORAGE_ENCRYPTION_KEY
NoVerifier == "no verifier" \* code_verifier absent from the request

ASSUME TtlAssumption ==
    /\ AuthCodeTtl \in Nat \ {0} /\ TokenTtl \in Nat \ {0}
    /\ RefreshTtl \in Nat \ {0}  /\ RefreshGrace \in Nat
    /\ MaxTime \in Nat \ {0}

\* clients maps a configured client to its redirect allowlist; dev is
\* APP_ENV being development or test.
Configurations ==
    [clients : UNION {[S -> SUBSET RedirectUris] : S \in SUBSET Clients},
     key : Keys \cup {NoKey}, dev : BOOLEAN]

ASSUME ConfigsAssumption == Configs # {} /\ Configs \subseteq Configurations

ASSUME IdentityAssumption == Codes \cap Pairs = {}

Times     == 1 .. MaxTime
Deadlines == 1 .. (MaxTime + AuthCodeTtl + TokenTtl + RefreshTtl)

\* SHA-256 followed by base64url: assumed injective.
S256(verifier) == <<"sha256", verifier>>

\* Whether a cipher with this key opens a field sealed with sealedWith:
\* plaintext passes through every cipher, ciphertext needs its own key.
Opens(key, sealedWith) == sealedWith \in {NoKey, key}

CodeRecord ==
    [client : Clients, redirectUri : RedirectUris,
     codeChallenge : {S256(v) : v \in Verifiers},
     user : Users, key : Keys \cup {NoKey}, expiresAt : Deadlines]

AccessRecord ==
    [client : Clients, user : Users, key : Keys \cup {NoKey},
     expiresAt : Deadlines, revokedAt : Times \cup {NoTime}]

\* rotationResponse is the cached reply: the pair it names, or nothing.
RefreshRecord ==
    [client : Clients, user : Users, key : Keys \cup {NoKey},
     expiresAt : Deadlines, revokedAt : Times \cup {NoTime},
     rotationResponse : SUBSET Pairs]

\* What exchange_authorization_code hands from its first store transaction
\* to its second.
Exchange == [code : Codes, client : Clients, user : Users]

TokenRequest ==
    [client : Clients, redirectUri : RedirectUris,
     verifier : Verifiers \cup {NoVerifier}]

\* The dictionaries of the store: functions with a changing domain.
IsDict(dict, ids, records) ==
    DOMAIN dict \subseteq ids /\ dict \in [DOMAIN dict -> records]
EmptyDict == [x \in {} |-> x]
Put(dict, id, record) ==
    [x \in DOMAIN dict \cup {id} |-> IF x = id THEN record ELSE dict[x]]
Drop(dict, id) == Restrict(dict, DOMAIN dict \ {id})
=============================================================================
