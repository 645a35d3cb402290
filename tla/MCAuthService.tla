---------------------------- MODULE MCAuthService ----------------------------
(* AuthService on a small instance.                                        *)
EXTENDS AuthService, TLC

CONSTANTS canva, other, appUri, otherUri, key1, key2

\* The usual deployment, and one that has lost a client and had its
\* encryption key replaced.
BothClients == canva :> {appUri} @@ other :> {otherUri}
MCConfigs ==
    { [clients |-> BothClients, key |-> key1, dev |-> FALSE],
      [clients |-> canva :> {appUri}, key |-> key2, dev |-> FALSE] }

\* The usual deployment, and a development one: one client, no allowlist and
\* no encryption.
MCConfigsDev ==
    { [clients |-> BothClients, key |-> key1, dev |-> FALSE],
      [clients |-> canva :> {}, key |-> NoKey, dev |-> TRUE] }

MCSymmetry ==
    Permutations(Codes) \cup Permutations(Pairs) \cup Permutations(Users)

-----------------------------------------------------------------------------

\* The comment on refresh_access_token says that replays within
\* OAUTH_REFRESH_GRACE_SECONDS "return the same token response (idempotent)".
GraceReplayIdempotent ==
    \A p \in DOMAIN ledgerRefresh :
        LET record == ledgerRefresh[p]
        IN  /\ record.rotationResponse # {}
            /\ now - record.revokedAt <= RefreshGrace
            /\ record.client \in DOMAIN config.clients
            /\ Opens(config.key, record.key)
            => CanReplay(p, record.client)
=============================================================================
