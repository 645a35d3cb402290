------------------------------- MODULE MCBroker -------------------------------
(* Broker with two users of one client, in production.                     *)
EXTENDS Broker, TLC

CONSTANTS canva, appUri, key1, clientSecret

Production == [clients |-> canva :> {appUri}, key |-> key1, dev |-> FALSE]

MCConfigs == {Production}

MCVerification ==
    Production :> [mode |-> "required", clientSecret |-> clientSecret]

MCSymmetry ==
    Permutations(Codes) \cup Permutations(Pairs) \cup Permutations(Users)
        \cup Permutations(Grants)
=============================================================================
