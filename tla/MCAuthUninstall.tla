--------------------------- MODULE MCAuthUninstall ---------------------------
(* AuthService with a history of uninstalls: what survives one.            *)
EXTENDS MCAuthService

\* The codes of a user that were outstanding, or already exchanged, when that
\* user uninstalled the app.
VARIABLE cutoff

CutoffInit == Init /\ cutoff = {}
CutoffNext ==
    \/ \E user \in Users :
          /\ RevokeTokensForUser(user)
          /\ cutoff' = cutoff \cup
                 {c \in DOMAIN ledgerCodes : ledgerCodes[c].user = user}
    \/ Next /\ UNCHANGED cutoff
CutoffSpec == CutoffInit /\ [][CutoffNext]_<<vars, cutoff>>

\* docs/DEPLOYMENT-RUNBOOK.md says that the uninstall webhook "revokes local
\* OAuth sessions": no access token works that descends from a sign-in made
\* before the uninstall.
UninstallEndsSessions ==
    \A p \in DOMAIN lineage : lineage[p].code \in cutoff => ~CanRead(p)
=============================================================================
