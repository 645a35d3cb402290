----------------------------- MODULE RequestGate -----------------------------
(***************************************************************************)
(* The rate limit as clients meet it: requests reach the broker directly   *)
(* or through reverse proxies, carrying whatever forwarding header their   *)
(* sender put in; the OAuth routes count them under the host that          *)
(* resolve_client_host finds, the content routes under the transport peer. *)
(*                                                                         *)
(* What the limit promises is stated for the client that really sent a     *)
(* request, which the broker does not know.  The clients in Obedient       *)
(* honour Retry-After; the others send whenever they like.                 *)
(***************************************************************************)
EXTENDS RateLimiter, ClientHost

CONSTANTS
    OauthEndpoints,    \* the routes that count by client_host
    ContentEndpoints,  \* the routes that count by request.client.host
    Obedient,          \* clients that honour Retry-After
    HeaderNames,       \* CLIENT_IP_HEADER, over deployments
    Paths,             \* the proxies a request may pass, in order
    Forgeries          \* what clients put in the header

Endpoints == OauthEndpoints \cup ContentEndpoints

ASSUME GateAssumption ==
    /\ Obedient \subseteq ClientHosts
    /\ HeaderNames \subseteq {NoHeader, ForwardedFor, RealIp}
    /\ Paths \subseteq Seq(TrustedProxies) /\ Forgeries \subseteq Seq(Hosts)

VARIABLES
    clientIpHeader,  \* CLIENT_IP_HEADER of this deployment
    notBefore,       \* per sender: when it was told to come back
    refusals,        \* history: refusals of each sender since it was admitted
    admitted         \* history: when each sender was admitted since the start

history == <<notBefore, refusals, admitted>>
vars    == <<now, buckets, clientIpHeader, history>>

\* Who sends what: a client to an endpoint.
Senders      == [client : ClientHosts, endpoint : Endpoints]
OauthSenders == [client : ClientHosts, endpoint : OauthEndpoints]
Keys    == [endpoint : Endpoints, host : Hosts]
Times   == 1 .. MaxTime

\* A bucket never counts more requests than it may admit, no window ends later
\* than one started now would, and no client is told to wait for more than a
\* window, rounded up.
TypeOK ==
    /\ now \in Times /\ clientIpHeader \in HeaderNames
    /\ DOMAIN buckets \subseteq Keys
    /\ buckets \in [DOMAIN buckets ->
                       [count : 1 .. Limit, resetAt : 1 .. now + Window]]
    /\ notBefore \in [Senders -> 1 .. (now + Window + Second)]
    /\ refusals \in [Senders -> Nat]
    /\ admitted \in [Senders -> Seq(Times)]

Init ==
    /\ now = 1 /\ clientIpHeader \in HeaderNames
    /\ buckets = NoBuckets
    /\ notBefore = [s \in Senders |-> 1]
    /\ refusals = [s \in Senders |-> 0]
    /\ admitted = [s \in Senders |-> <<>>]

-----------------------------------------------------------------------------

\* The requests of a client as they may arrive.
Arriving(client) ==
    {Received(clientIpHeader, client, path, forged) :
        path \in PathsFor(clientIpHeader, Paths), forged \in Forgeries}

\* What the route counts the request under.
KeyOf(endpoint, request) ==
    [endpoint |-> endpoint,
     host |-> IF endpoint \in OauthEndpoints
              THEN ResolveClientHost(clientIpHeader, request) ELSE request.peer]

Sends(s) == s.client \in Obedient => notBefore[s] <= now

\* A sender's request is admitted ...
ConsumeAllowed(s, request) ==
    /\ Sends(s) /\ Admit(KeyOf(s.endpoint, request))
    /\ notBefore' = [notBefore EXCEPT ![s] = 1]
    /\ refusals' = [refusals EXCEPT ![s] = 0]
    /\ admitted' = [admitted EXCEPT ![s] = Append(@, now)]
    /\ UNCHANGED <<now, clientIpHeader>>

\* ... or answered with 429 and Retry-After.
ConsumeRefused(s, request) ==
    LET key == KeyOf(s.endpoint, request)
    IN  /\ Sends(s) /\ Refuse(key)
        /\ notBefore' = [notBefore EXCEPT ![s] = now + RetryAfter(key) * Second]
        /\ refusals' = IF s.client \in Obedient
                       THEN [refusals EXCEPT ![s] = @ + 1] ELSE refusals
        /\ UNCHANGED <<now, clientIpHeader, admitted>>

\* The buckets live in memory: a restart forgets them, and the clients of an
\* earlier process are nobody's history.
Restart ==
    /\ buckets' = NoBuckets
    /\ admitted' = [s \in Senders |-> <<>>]
    /\ UNCHANGED <<now, clientIpHeader, notBefore, refusals>>

Tick ==
    /\ now < MaxTime /\ now' = now + 1
    /\ UNCHANGED <<buckets, clientIpHeader, history>>

Next ==
    \/ \E s \in Senders : \E request \in Arriving(s.client) : ConsumeAllowed(s, request)
    \/ \E s \in Senders : \E request \in Arriving(s.client) : ConsumeRefused(s, request)
    \/ Restart
    \/ Tick

Spec == Init /\ [][Next]_vars

-----------------------------------------------------------------------------
(* Properties.  SweptEarly, AdmitsOneMore, RetryAfterFloor and             *)
(* LeftmostUntrusted are deliberate mistakes that they are known to catch; *)
(* nothing uses them.                                                      *)

\* However a client's requests straddle two windows, whichever way they come
\* and whatever headers they forge, and whatever other keys sweep meanwhile,
\* no interval as long as a window sees 2 * Limit admissions of that client at
\* one OAuth route: the burst at the edge of two windows is bounded.
BurstBound ==
    \A s \in OauthSenders : \A i \in 1 .. Len(admitted[s]) :
        i + 2 * Limit - 1 <= Len(admitted[s])
            => admitted[s][i + 2 * Limit - 1] - admitted[s][i] >= Window

\* A sender has used up the limit itself within the last window.
UsedUp(s) ==
    LET n == Len(admitted[s])
    IN  n >= Limit /\ now - admitted[s][n - Limit + 1] < Window

Refused(s, request) == ~Admits(KeyOf(s.endpoint, request))

\* A client is refused by an OAuth route only when it has used up the limit
\* itself: no sweep, no restart, no proxy it shares and no header that another
\* client forges charges it for requests that are not its own.
RefusalsAreJustified ==
    \A s \in OauthSenders : \A request \in Arriving(s.client) :
        Refused(s, request) => UsedUp(s)

\* Retry-After rounds down, so a client that honours it may come back too
\* early, but never more than once, whoever shares its proxy: an OAuth route
\* refuses it at most twice in a row.
RetryAfterSuffices ==
    \A s \in OauthSenders : s.client \in Obedient => refusals[s] <= 2

\* docs/OPERATIONS.md counts per-IP rate limits among the controls of the
\* content routes; but behind a proxy their requests are all counted under
\* the proxy, so a client is refused for the requests of another.
PerClientLimit ==
    \A s \in Senders : \A request \in Arriving(s.client) :
        s.endpoint \in ContentEndpoints /\ Refused(s, request) => UsedUp(s)
=============================================================================
