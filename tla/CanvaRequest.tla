----------------------------- MODULE CanvaRequest -----------------------------
(***************************************************************************)
(* verify_canva_post_request: whether a server-to-server call was signed   *)
(* by Canva, recently.  A call carries a list of signatures, a timestamp   *)
(* or none, and a body; the path is the same for every call and left out.  *)
(*                                                                         *)
(* Parsing the two headers and the shape of a digest are left out: what is *)
(* no signature matches nothing.                                           *)
(***************************************************************************)
EXTENDS Integers

CONSTANTS
    Tolerance  \* CANVA_REQUEST_TIMESTAMP_TOLERANCE_SECONDS

NoSecret == "no secret"  \* CANVA_CLIENT_SECRET absent or not base64

\* HMAC-SHA256 under the client secret: assumed injective.
CalculateSignature(clientSecret, timestamp, body) == <<clientSecret, timestamp, body>>

\* Whether the request is looked at at all, under this verification mode.
ShouldVerify(mode, request) ==
    CASE mode = "off"      -> FALSE
      [] mode = "required" -> TRUE
      [] OTHER             -> request.signatures # {}

Abs(n) == IF n < 0 THEN 0 - n ELSE n

IsValidTimestamp(sent, received) ==
    \A timestamp \in sent : Abs(timestamp - received) < Tolerance

SignatureMatchesBody(clientSecret, request) ==
    \E signature \in request.signatures :
        signature[1] = clientSecret /\ signature[3] = request.body

\* One of the signatures is enough, while Canva replaces its secret.
SignatureMatches(clientSecret, request) ==
    \E timestamp \in request.timestamp :
        CalculateSignature(clientSecret, timestamp, request.body)
            \in request.signatures

\* The result is "ok"; "skipped" is no success for the webhook.
Verify(mode, clientSecret, request, received) ==
    \/ mode = "off"
    \/ /\ ShouldVerify(mode, request)
       /\ clientSecret # NoSecret
       /\ request.signatures # {} /\ request.timestamp # {}
       /\ IsValidTimestamp(request.timestamp, received)
       /\ SignatureMatches(clientSecret, request)
=============================================================================
