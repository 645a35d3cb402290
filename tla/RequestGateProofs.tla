-------------------------- MODULE RequestGateProofs --------------------------
(***************************************************************************)
(* Proofs about RequestGate, for any clients, proxies, forged headers,     *)
(* limits and windows.                                                     *)
(*                                                                         *)
(* The inductive invariant relates, for every client of an OAuth route,    *)
(* the bucket it is counted in to the history of its admissions: the       *)
(* bucket holds its last admissions and nobody else's, and the window      *)
(* before that had ended when it was opened.  It needs to know who a       *)
(* request is counted as: first, whatever header it forges and whatever    *)
(* supported path of proxies it takes, resolve_client_host finds the       *)
(* client.                                                                 *)
(***************************************************************************)
EXTENDS RequestGate, TLAPS

\* Of hops that end with a client and the proxies behind it, the client is the
\* rightmost that is no proxy, whatever comes before it
\* (client_ip_from_x_forwarded_for).
LEMMA ClientIsRightmost ==
    ASSUME NEW client \in ClientHosts, NEW proxies \in Seq(TrustedProxies),
           NEW forged \in Seq(Hosts)
    PROVE  RightmostUntrusted(forged \o <<client>> \o proxies) = {client}
<1> DEFINE hops == forged \o <<client>> \o proxies
           n    == Len(forged) + 1
<1>1. /\ Len(hops) = n + Len(proxies) /\ DOMAIN hops = 1 .. Len(hops)
      /\ n \in DOMAIN hops /\ hops[n] = client
    OBVIOUS
<1>2. \A j \in (n + 1) .. Len(hops) : Trusted(hops[j])
    BY DEF Trusted
<1>3. ~Trusted(client)
    BY HostAssumption DEF Trusted
<1>4. ASSUME NEW i \in DOMAIN hops, ~Trusted(hops[i]),
             \A j \in (i + 1) .. Len(hops) : Trusted(hops[j])
      PROVE  i = n
    <2>1. ~(i < n)
        BY <1>1, <1>3, <1>4
    <2>2. ~(i > n)
        BY <1>1, <1>2, <1>4
    <2> QED BY <1>1, <2>1, <2>2
<1> HIDE DEF hops, n
<1>5. RightmostUntrusted(hops) = {client}
    BY <1>1, <1>2, <1>3, <1>4 DEF RightmostUntrusted
<1> QED BY <1>5 DEF hops

\* Whatever a client puts into the header, and whatever supported path of
\* trusted proxies its request takes, resolve_client_host finds the client: no
\* client is counted as another, and none escapes its own count.
THEOREM ClientIsFound ==
    ASSUME NEW name \in {NoHeader, ForwardedFor, RealIp},
           NEW paths \in SUBSET Seq(TrustedProxies), NEW path \in PathsFor(name, paths),
           NEW client \in ClientHosts, NEW forged \in Seq(Hosts)
    PROVE  ResolveClientHost(name, Received(name, client, path, forged)) = client
<1> DEFINE request == Received(name, client, path, forged)
<1>1. path \in Seq(TrustedProxies)
    BY DEF PathsFor
<1>2. CASE path = <<>>
    BY <1>2, HostAssumption
    DEF Received, ResolveClientHost, HeaderTrusted, Trusted
<1>3. CASE path # <<>> /\ name = ForwardedFor
    <2> DEFINE proxies == SubSeq(path, 1, Len(path) - 1)
    <2>1. proxies \in Seq(TrustedProxies)
        BY <1>1, <1>3
    <2>2. request.header = forged \o <<client>> \o proxies
        BY <1>3 DEF Received, Appended
    <2> HIDE DEF proxies
    <2>3. Named(name, request.header) = {client}
        BY <1>3, <2>1, <2>2, ClientIsRightmost DEF Named
    <2>4. request.header # <<>>
        BY <2>1, <2>2
    <2>5. Trusted(request.peer)
        BY <1>1, <1>3 DEF Received, Trusted
    <2> QED BY <1>3, <2>3, <2>4, <2>5
        DEF ResolveClientHost, HeaderTrusted, ForwardedFor, NoHeader
<1>4. CASE path # <<>> /\ name = RealIp
    <2>1. request = [peer |-> path[Len(path)], header |-> <<client>>]
        BY <1>4 DEF Received, Overwritten, RealIp, ForwardedFor
    <2>2. Trusted(request.peer)
        BY <1>1, <1>4, <2>1 DEF Trusted
    <2>3. Named(name, request.header) = {client}
        BY <1>4, <2>1 DEF Named, RealIp, ForwardedFor
    <2> HIDE DEF request
    <2>4. request.header # <<>> /\ name # NoHeader
        BY <1>4, <2>1 DEF RealIp, NoHeader
    <2>5. ResolveClientHost(name, request) = client
        BY <2>2, <2>3, <2>4 DEF ResolveClientHost, HeaderTrusted
    <2> QED BY <2>5 DEF request
<1>5. CASE path # <<>> /\ name = NoHeader
    BY <1>5 DEF PathsFor
<1> QED BY <1>2, <1>3, <1>4, <1>5

-----------------------------------------------------------------------------

Key(s) == [endpoint |-> s.endpoint, host |-> s.client]

\* Admissions are recorded in their order.
Ordered(s) ==
    /\ \A i, j \in 1 .. Len(admitted[s]) : i <= j => admitted[s][i] <= admitted[s][j]
    /\ \A i \in 1 .. Len(admitted[s]) : admitted[s][i] <= now

\* An open bucket holds the last admissions, the first of them opened it, and
\* Limit admissions before that a window had passed.
OpenBucket(s) ==
    LET n == Len(admitted[s])
        bucket == buckets[Key(s)]
    IN  ~Opens(Key(s)) =>
            /\ bucket.count <= n
            /\ admitted[s][n - bucket.count + 1] = bucket.resetAt - Window
            /\ bucket.count + Limit <= n =>
                  admitted[s][n - bucket.count - Limit + 1] <= bucket.resetAt - 2 * Window

\* Without one, Limit admissions ago is a window ago.
NoBucket(s) ==
    LET n == Len(admitted[s])
    IN  Opens(Key(s)) /\ Limit <= n => admitted[s][n - Limit + 1] <= now - Window

Spread(s) ==
    \A i \in 1 .. Len(admitted[s]) :
        i + 2 * Limit - 1 <= Len(admitted[s])
            => admitted[s][i + 2 * Limit - 1] - admitted[s][i] >= Window

\* A client that honours Retry-After comes back at most a second too early, and
\* after a second refusal not too early.
Patience(s) ==
    s.client \in Obedient =>
        /\ refusals[s] <= 2
        /\ refusals[s] = 1 /\ ~Opens(Key(s)) =>
              buckets[Key(s)].resetAt < notBefore[s] + Second
        /\ refusals[s] = 2 /\ ~Opens(Key(s)) =>
              buckets[Key(s)].resetAt <= notBefore[s]

SenderInv(s) ==
    Ordered(s) /\ OpenBucket(s) /\ NoBucket(s) /\ Spread(s) /\ Patience(s)

GateInv == TypeOK /\ \A s \in OauthSenders : SenderInv(s)

-----------------------------------------------------------------------------
(* Constants and keys.                                                     *)

LEMMA LimitType == Limit \in Nat \ {0}
BY RateAssumption DEF Limit

\* What an OAuth route counts a client's request under is the client.
LEMMA KeyIsSender ==
    ASSUME TypeOK, NEW s \in OauthSenders, NEW request \in Arriving(s.client)
    PROVE  KeyOf(s.endpoint, request) = Key(s)
<1>1. s.endpoint \in OauthEndpoints /\ s.client \in ClientHosts
    BY DEF OauthSenders
<1>2. PICK path \in PathsFor(clientIpHeader, Paths), forged \in Forgeries :
          request = Received(clientIpHeader, s.client, path, forged)
    BY DEF Arriving
<1>3. clientIpHeader \in {NoHeader, ForwardedFor, RealIp}
    BY GateAssumption DEF TypeOK
<1>4. ResolveClientHost(clientIpHeader, request) = s.client
    BY <1>1, <1>2, <1>3, GateAssumption, ClientIsFound
<1> QED BY <1>1, <1>4 DEF KeyOf, Key

\* Every request is counted under a key.
LEMMA KeyType ==
    ASSUME TypeOK, NEW s \in Senders, NEW request \in Arriving(s.client)
    PROVE  KeyOf(s.endpoint, request) \in Keys
<1>1. s.endpoint \in Endpoints /\ s.client \in ClientHosts
    BY DEF Senders
<1>2. PICK path \in PathsFor(clientIpHeader, Paths), forged \in Forgeries :
          request = Received(clientIpHeader, s.client, path, forged)
    BY DEF Arriving
<1>3. clientIpHeader \in {NoHeader, ForwardedFor, RealIp}
    BY GateAssumption DEF TypeOK
<1>4. ResolveClientHost(clientIpHeader, request) = s.client
    BY <1>1, <1>2, <1>3, GateAssumption, ClientIsFound
<1>5. request.peer \in Hosts
    <2>1. path \in Seq(TrustedProxies)
        BY GateAssumption DEF PathsFor
    <2>2. CASE path = <<>>
        BY <1>1, <1>2, <2>2, HostAssumption DEF Received
    <2>3. CASE path # <<>>
        <3>1. path[Len(path)] \in TrustedProxies
            BY <2>1, <2>3
        <3> QED BY <1>2, <2>3, <3>1, HostAssumption DEF Received
    <2> QED BY <2>2, <2>3
<1> QED BY <1>1, <1>4, <1>5, HostAssumption DEF KeyOf, Keys

\* Nobody else is counted under an OAuth route's key of a client.
LEMMA KeyIsExclusive ==
    ASSUME TypeOK, NEW s \in OauthSenders,
           NEW t \in Senders, NEW request \in Arriving(t.client),
           KeyOf(t.endpoint, request) = Key(s)
    PROVE  t = s
<1>1. t.endpoint = s.endpoint
    BY DEF KeyOf, Key
<1>2. t \in OauthSenders
    BY <1>1 DEF Senders, OauthSenders
<1>3. Key(t) = Key(s)
    BY <1>2, KeyIsSender
<1>4. t.client = s.client
    BY <1>3 DEF Key
<1> QED BY <1>1, <1>4 DEF Senders, OauthSenders

LEMMA KeyInKeys == \A s \in OauthSenders : Key(s) \in Keys /\ s \in Senders
BY HostAssumption DEF OauthSenders, Senders, Key, Keys, Endpoints

-----------------------------------------------------------------------------
(* Retry-After, rounded down to seconds.                                   *)

LEMMA Rounded ==
    ASSUME NEW d \in Nat
    PROVE  /\ d \div Second \in Nat
           /\ (d \div Second) * Second <= d
           /\ d < (d \div Second) * Second + Second
<1>1. Second \in Nat \ {0}
    BY RateAssumption
<1> QED BY <1>1

\* A client that is refused is told to wait for what is left of the window, give
\* or take a second.
LEMMA RetryAfterType ==
    ASSUME TypeOK, NEW k \in Keys, Refuse(k)
    PROVE  /\ RetryAfter(k) \in Nat \ {0}
           /\ RetryAfter(k) * Second \in 1 .. Window + Second
           /\ buckets[k].resetAt < now + RetryAfter(k) * Second + Second
           /\ buckets[k].resetAt < now + Second
                 => buckets[k].resetAt <= now + RetryAfter(k) * Second
<1> DEFINE left == buckets[k].resetAt - now
           seconds == left \div Second
<1>1. Second \in Nat \ {0} /\ Window \in Nat /\ now \in Nat
    BY RateAssumption DEF TypeOK, Times
<1>2. buckets[k].resetAt \in Nat /\ left \in 1 .. Window
    <2>1. k \in DOMAIN buckets /\ ~(buckets[k].resetAt <= now)
        BY DEF Refuse, Admits, Opens
    <2>2. buckets[k] \in [count : 1 .. Limit, resetAt : 1 .. now + Window]
        BY <2>1 DEF TypeOK
    <2> QED BY <1>1, <2>1, <2>2
<1>3. /\ seconds \in Nat
      /\ seconds * Second <= left /\ left < seconds * Second + Second
    BY <1>2, Rounded
<1>4. RetryAfter(k) = IF seconds = 0 THEN 1 ELSE seconds
    BY DEF RetryAfter
<1> HIDE DEF seconds
<1>5. CASE seconds = 0
    BY <1>1, <1>2, <1>3, <1>4, <1>5
<1>6. CASE seconds # 0
    <2>1. seconds * Second \in Nat /\ seconds * Second >= Second
        BY <1>1, <1>3, <1>6
    <2> QED BY <1>1, <1>2, <1>3, <1>4, <1>6, <2>1
<1> QED BY <1>5, <1>6

-----------------------------------------------------------------------------
(* What consume does to buckets.                                           *)

LEMMA OwnBucket ==
    ASSUME TypeOK, NEW k \in Keys, now' = now
    PROVE  /\ Admit(k) /\ Opens(k) =>
                 buckets'[k] = [count |-> 1, resetAt |-> now + Window]
           /\ Admit(k) /\ ~Opens(k) =>
                 buckets'[k] = [count |-> buckets[k].count + 1,
                                resetAt |-> buckets[k].resetAt]
           /\ Refuse(k) => ~Opens(k) /\ buckets'[k] = buckets[k]
           /\ Admit(k) \/ Refuse(k) => ~Opens(k)'
<1> USE RateAssumption
<1>1. ASSUME Admit(k), Opens(k)
      PROVE  buckets'[k] = [count |-> 1, resetAt |-> now + Window] /\ ~Opens(k)'
    BY <1>1 DEF Admit, Counted, Opens, TypeOK, Times
<1>2. ASSUME Admit(k), ~Opens(k)
      PROVE  /\ buckets'[k] = [count |-> buckets[k].count + 1,
                               resetAt |-> buckets[k].resetAt]
             /\ ~Opens(k)'
    <2>1. buckets[k] \in [count : 1 .. Limit, resetAt : 1 .. now + Window]
        BY <1>2 DEF TypeOK, Opens
    <2> QED BY <1>2, <2>1 DEF Admit, Counted, Opens, TypeOK, Times
<1>3. ASSUME Refuse(k)
      PROVE  ~Opens(k) /\ buckets'[k] = buckets[k] /\ ~Opens(k)'
    BY <1>3 DEF Refuse, Admits, Opens, Swept, Restrict
<1> QED BY <1>1, <1>2, <1>3

\* A sweep only drops what was closed.
LEMMA OthersUntouched ==
    ASSUME TypeOK, NEW k \in Keys, NEW x \in Keys, x # k, now' = now,
           Admit(k) \/ Refuse(k)
    PROVE  /\ Opens(x)' <=> Opens(x)
           /\ ~Opens(x) => buckets'[x] = buckets[x]
<1> USE RateAssumption
<1>1. /\ x \in DOMAIN buckets' <=> x \in DOMAIN buckets /\ buckets[x].resetAt > now
      /\ x \in DOMAIN buckets' => buckets'[x] = buckets[x]
    BY DEF Admit, Refuse, Swept, Restrict
<1>2. x \in DOMAIN buckets => buckets[x].resetAt \in Int /\ now \in Int
    BY DEF TypeOK, Times
<1> QED BY <1>1, <1>2 DEF Opens

-----------------------------------------------------------------------------
(* The steps.                                                              *)

LEMMA TypeStep == TypeOK /\ [Next]_vars => TypeOK'
<1> SUFFICES ASSUME TypeOK, [Next]_vars PROVE TypeOK'
    OBVIOUS
<1> USE RateAssumption, LimitType
<1>1. ASSUME NEW s \in Senders, NEW request \in Arriving(s.client),
             ConsumeAllowed(s, request)
      PROVE  TypeOK'
    <2> DEFINE k == KeyOf(s.endpoint, request)
    <2>1. k \in Keys
        BY KeyType
    <2> HIDE DEF k
    <2>2. Admit(k) /\ now' = now /\ clientIpHeader' = clientIpHeader
        BY <1>1 DEF ConsumeAllowed, k
    <2>3. Counted(k) \in [count : 1 .. Limit, resetAt : 1 .. now + Window]
        <3>1. CASE Opens(k)
            BY <3>1 DEF Counted, TypeOK, Times
        <3>2. CASE ~Opens(k)
            <4>1. buckets[k] \in [count : 1 .. Limit, resetAt : 1 .. now + Window]
                BY <3>2 DEF TypeOK, Opens
            <4>2. buckets[k].count < Limit
                BY <2>2, <3>2, <4>1 DEF Admit, Admits, Limit
            <4> QED BY <3>2, <4>1, <4>2 DEF Counted
        <3> QED BY <3>1, <3>2
    <2>4. /\ DOMAIN buckets' \subseteq Keys
          /\ buckets' \in [DOMAIN buckets' ->
                               [count : 1 .. Limit, resetAt : 1 .. now + Window]]
        BY <2>1, <2>2, <2>3 DEF Admit, Swept, Restrict, TypeOK
    <2>5. notBefore' \in [Senders -> 1 .. (now + Window + Second)]
        BY <1>1 DEF ConsumeAllowed, TypeOK, Times
    <2>6. refusals' \in [Senders -> Nat]
        BY <1>1 DEF ConsumeAllowed, TypeOK
    <2>7. admitted' \in [Senders -> Seq(Times)]
        <3>1. Append(admitted[s], now) \in Seq(Times)
            BY DEF TypeOK
        <3> QED BY <1>1, <3>1 DEF ConsumeAllowed, TypeOK
    <2> QED BY <2>2, <2>4, <2>5, <2>6, <2>7 DEF TypeOK
<1>2. ASSUME NEW s \in Senders, NEW request \in Arriving(s.client),
             ConsumeRefused(s, request)
      PROVE  TypeOK'
    <2> DEFINE k == KeyOf(s.endpoint, request)
    <2>1. k \in Keys
        BY KeyType
    <2> HIDE DEF k
    <2>2. Refuse(k) /\ now' = now /\ clientIpHeader' = clientIpHeader
        BY <1>2 DEF ConsumeRefused, k
    <2>3. /\ DOMAIN buckets' \subseteq Keys
          /\ buckets' \in [DOMAIN buckets' ->
                               [count : 1 .. Limit, resetAt : 1 .. now + Window]]
        BY <2>2 DEF Refuse, Swept, Restrict, TypeOK
    <2>4. now + RetryAfter(k) * Second \in 1 .. (now + Window + Second)
        <3> DEFINE wait == RetryAfter(k) * Second
        <3>1. wait \in 1 .. Window + Second
            BY <2>1, <2>2, RetryAfterType
        <3> HIDE DEF wait
        <3>2. now + wait \in 1 .. (now + Window + Second)
            BY <3>1 DEF TypeOK, Times
        <3> QED BY <3>2 DEF wait
    <2>5. notBefore' \in [Senders -> 1 .. (now + Window + Second)]
        BY <1>2, <2>4 DEF ConsumeRefused, TypeOK, k
    <2>6. refusals' \in [Senders -> Nat] /\ admitted' = admitted
        BY <1>2 DEF ConsumeRefused, TypeOK
    <2> QED BY <2>2, <2>3, <2>5, <2>6 DEF TypeOK
<1>3. CASE Restart
    <2>1. DOMAIN NoBuckets = {}
        BY DEF NoBuckets
    <2>2. admitted' \in [Senders -> Seq(Times)]
        BY <1>3 DEF Restart
    <2> QED BY <1>3, <2>1, <2>2 DEF Restart, TypeOK, NoBuckets
<1>4. CASE Tick
    <2>1. now \in Times /\ now' = now + 1 /\ now' \in Times
        BY <1>4 DEF Tick, TypeOK, Times
    <2>2. buckets' \in [DOMAIN buckets' ->
                           [count : 1 .. Limit, resetAt : 1 .. now' + Window]]
        <3>1. buckets \in [DOMAIN buckets ->
                             [count : 1 .. Limit, resetAt : 1 .. now + Window]]
            BY DEF TypeOK
        <3>2. 1 .. now + Window \subseteq 1 .. now' + Window
            BY <2>1 DEF Times
        <3>3. buckets' = buckets
            BY <1>4 DEF Tick
        <3> QED BY <3>1, <3>2, <3>3
    <2>3. notBefore' \in [Senders -> 1 .. (now' + Window + Second)]
        <3>1. 1 .. (now + Window + Second) \subseteq 1 .. (now' + Window + Second)
            BY <2>1 DEF Times
        <3> QED BY <1>4, <3>1 DEF Tick, TypeOK, history
    <2> QED BY <1>4, <2>1, <2>2, <2>3 DEF Tick, TypeOK, history
<1>5. CASE UNCHANGED vars
    BY <1>5 DEF TypeOK, vars, history
<1> QED BY <1>1, <1>2, <1>3, <1>4, <1>5 DEF Next

\* What neither moves the clock nor touches a client's bucket and history keeps
\* what is known of it.
LEMMA Unaffected ==
    ASSUME NEW s \in OauthSenders, SenderInv(s), now' = now,
           admitted'[s] = admitted[s], refusals'[s] = refusals[s],
           notBefore'[s] = notBefore[s],
           Opens(Key(s))' <=> Opens(Key(s)),
           ~Opens(Key(s)) => buckets'[Key(s)] = buckets[Key(s)]
    PROVE  SenderInv(s)'
<1>1. Ordered(s)' /\ Spread(s)'
    BY DEF SenderInv, Ordered, Spread
<1>2. OpenBucket(s)'
    BY DEF SenderInv, OpenBucket
<1>3. NoBucket(s)' /\ Patience(s)'
    BY DEF SenderInv, NoBucket, Patience
<1> QED BY <1>1, <1>2, <1>3 DEF SenderInv

\* A client is admitted: its history and its bucket grow together.
LEMMA AdmittedStep ==
    ASSUME TypeOK, NEW s \in OauthSenders, SenderInv(s),
           NEW request \in Arriving(s.client), ConsumeAllowed(s, request)
    PROVE  SenderInv(s)'
<1> DEFINE k == Key(s)
           n == Len(admitted[s])
           a == admitted[s]
           b == admitted'[s]
<1>1. k \in Keys /\ s \in Senders
    BY KeyInKeys
<1>2. Admit(k) /\ now' = now
    BY KeyIsSender DEF ConsumeAllowed
<1>3. b = Append(a, now) /\ refusals'[s] = 0
    BY <1>1 DEF ConsumeAllowed, TypeOK
<1>4. /\ a \in Seq(Times) /\ now \in Times /\ n \in Nat /\ now \in Nat
      /\ \A i \in 1 .. n : a[i] \in Nat
    <2>1. a \in Seq(Times) /\ now \in Times
        BY <1>1 DEF TypeOK
    <2>2. \A i \in 1 .. n : a[i] \in Times
        BY <2>1
    <2> QED BY <2>1, <2>2 DEF Times
<1>5. /\ Len(b) = n + 1 /\ b[n + 1] = now
      /\ \A i \in 1 .. n : b[i] = a[i]
    BY <1>3, <1>4
<1>6. Limit \in Nat \ {0} /\ Window \in Nat \ {0}
    BY LimitType, RateAssumption
<1>7. /\ \A i, j \in 1 .. n : i <= j => a[i] <= a[j]
      /\ \A i \in 1 .. n : a[i] <= now
    BY DEF SenderInv, Ordered
<1>8. \A i \in 1 .. n : i + 2 * Limit - 1 <= n => a[i + 2 * Limit - 1] - a[i] >= Window
    BY DEF SenderInv, Spread
<1>9. ~Opens(k)'
    BY <1>1, <1>2, OwnBucket
<1>10. Patience(s)' /\ NoBucket(s)'
    BY <1>3, <1>9 DEF Patience, NoBucket
<1>11. Ordered(s)'
    <2> HIDE DEF a, b, n, k
    <2>1. ASSUME NEW i \in 1 .. n + 1, NEW j \in 1 .. n + 1, i <= j
          PROVE  b[i] <= b[j] /\ b[i] <= now
        <3>1. CASE i \in 1 .. n /\ j \in 1 .. n
            BY <1>5, <1>7, <2>1, <3>1
        <3>2. CASE i \in 1 .. n /\ j = n + 1
            BY <1>5, <1>7, <3>2
        <3>3. CASE i = n + 1 /\ j = n + 1
            BY <1>4, <1>5, <3>3
        <3> QED BY <1>4, <2>1, <3>1, <3>2, <3>3
    <2>2. 1 .. Len(b) = 1 .. n + 1
        BY <1>5
    <2>3. /\ \A i, j \in 1 .. Len(b) : i <= j => b[i] <= b[j]
          /\ \A i \in 1 .. Len(b) : b[i] <= now
        <3>1. \A i \in 1 .. n + 1 : i <= i
            BY <1>4
        <3> QED BY <2>1, <2>2, <3>1
    <2> QED BY <1>2, <2>3 DEF Ordered, b
<1>12. ASSUME \A i \in 1 .. n : i + 2 * Limit - 1 = n + 1 => now - a[i] >= Window
       PROVE  Spread(s)'
    <2> HIDE DEF a, b, n, k
    <2>1. ASSUME NEW i \in 1 .. n + 1, i + 2 * Limit - 1 <= n + 1
          PROVE  b[i + 2 * Limit - 1] - b[i] >= Window
        <3>1. i \in 1 .. n \/ (i = n + 1 /\ i + 2 * Limit - 1 > n + 1)
            BY <1>4, <1>6
        <3>2. CASE i \in 1 .. n /\ i + 2 * Limit - 1 \in 1 .. n
            BY <1>5, <1>8, <3>2
        <3>3. CASE i \in 1 .. n /\ i + 2 * Limit - 1 = n + 1
            BY <1>5, <1>12, <3>3
        <3>4. i + 2 * Limit - 1 \in 1 .. n \/ i + 2 * Limit - 1 = n + 1
            BY <1>4, <1>6, <2>1
        <3> QED BY <1>4, <1>6, <2>1, <3>1, <3>2, <3>3, <3>4
    <2> QED BY <1>5, <2>1 DEF Spread, b
<1>13. CASE Opens(k)
    <2>1. buckets'[k] = [count |-> 1, resetAt |-> now + Window]
        BY <1>1, <1>2, <1>13, OwnBucket
    <2>2. Limit <= n => a[n - Limit + 1] <= now - Window
        BY <1>13 DEF SenderInv, NoBucket
    <2> HIDE DEF a, b, n, k
    <2>3. OpenBucket(s)'
        <3>1. (n + 1) - 1 + 1 = n + 1 /\ (n + 1) - 1 - Limit + 1 = n - Limit + 1
            BY <1>4, <1>6
        <3>2. now = (now + Window) - Window /\ now - Window = (now + Window) - 2 * Window
            BY <1>4, <1>6
        <3>3. 1 <= n + 1 /\ b[(n + 1) - 1 + 1] = (now + Window) - Window
            BY <1>4, <1>5, <3>1, <3>2
        <3>4. ASSUME 1 + Limit <= n + 1
              PROVE  b[(n + 1) - 1 - Limit + 1] <= (now + Window) - 2 * Window
            <4>1. n - Limit + 1 \in 1 .. n /\ Limit <= n
                BY <1>4, <1>6, <3>4
            <4>2. b[n - Limit + 1] <= now - Window
                BY <1>5, <2>2, <4>1
            <4> QED BY <3>1, <3>2, <4>2
        <3> QED BY <1>5, <2>1, <3>3, <3>4 DEF OpenBucket, b, k
    <2>4. ASSUME NEW i \in 1 .. n, i + 2 * Limit - 1 = n + 1
          PROVE  now - a[i] >= Window
        <3>1. n - Limit + 1 \in 1 .. n /\ i <= n - Limit + 1 /\ Limit <= n
            BY <1>4, <1>6, <2>4
        <3>2. a[i] <= a[n - Limit + 1] /\ a[n - Limit + 1] <= now - Window
            BY <1>7, <2>2, <3>1
        <3>3. a[i] \in Nat /\ a[n - Limit + 1] \in Nat
            BY <1>4, <3>1
        <3> QED BY <1>4, <1>6, <3>2, <3>3
    <2> QED BY <1>10, <1>11, <1>12, <2>3, <2>4 DEF SenderInv
<1>14. CASE ~Opens(k)
    <2> DEFINE c == buckets[k].count
               r == buckets[k].resetAt
    <2>1. buckets'[k] = [count |-> c + 1, resetAt |-> r]
        BY <1>1, <1>2, <1>14, OwnBucket
    <2>2. c \in 1 .. Limit /\ r \in 1 .. now + Window
        <3>1. buckets[k] \in [count : 1 .. Limit, resetAt : 1 .. now + Window]
            BY <1>14 DEF TypeOK, Opens
        <3> QED BY <3>1
    <2>3. c < Limit
        BY <1>2, <1>14, <2>2 DEF Admit, Admits, Limit
    <2>4. /\ c <= n /\ a[n - c + 1] = r - Window
          /\ c + Limit <= n => a[n - c - Limit + 1] <= r - 2 * Window
        BY <1>14 DEF SenderInv, OpenBucket
    <2> HIDE DEF a, b, n, k, c, r
    <2>5. OpenBucket(s)'
        <3>1. /\ (n + 1) - (c + 1) + 1 = n - c + 1 /\ n - c + 1 \in 1 .. n
              /\ (n + 1) - (c + 1) - Limit + 1 = n - c - Limit + 1
            BY <1>4, <1>6, <2>2, <2>4
        <3>2. c + 1 <= n + 1 /\ b[(n + 1) - (c + 1) + 1] = r - Window
            BY <1>4, <1>5, <2>2, <2>4, <3>1
        <3>3. ASSUME (c + 1) + Limit <= n + 1
              PROVE  b[(n + 1) - (c + 1) - Limit + 1] <= r - 2 * Window
            <4>1. n - c - Limit + 1 \in 1 .. n /\ c + Limit <= n
                BY <1>4, <1>6, <2>2, <3>3
            <4> QED BY <1>5, <2>4, <3>1, <4>1
        <3> QED BY <1>5, <2>1, <3>2, <3>3 DEF OpenBucket, b, k
    <2>6. ASSUME NEW i \in 1 .. n, i + 2 * Limit - 1 = n + 1
          PROVE  now - a[i] >= Window
        <3>1. /\ c + Limit <= n
              /\ n - c - Limit + 1 \in 1 .. n /\ i <= n - c - Limit + 1
            BY <1>4, <1>6, <2>2, <2>3, <2>6
        <3>2. a[i] <= a[n - c - Limit + 1] /\ a[n - c - Limit + 1] <= r - 2 * Window
            BY <1>7, <2>4, <3>1
        <3>3. a[i] \in Nat /\ a[n - c - Limit + 1] \in Nat
            BY <1>4, <3>1
        <3> QED BY <1>4, <1>6, <2>2, <3>2, <3>3
    <2> QED BY <1>10, <1>11, <1>12, <2>5, <2>6 DEF SenderInv
<1> QED BY <1>13, <1>14

\* A client is refused: it learns when its bucket ends, give or take a second.
LEMMA RefusedStep ==
    ASSUME TypeOK, NEW s \in OauthSenders, SenderInv(s),
           NEW request \in Arriving(s.client), ConsumeRefused(s, request)
    PROVE  SenderInv(s)'
<1> DEFINE k == Key(s)
           wait == RetryAfter(k) * Second
<1>1. k \in Keys /\ s \in Senders
    BY KeyInKeys
<1>2. Refuse(k) /\ now' = now /\ admitted' = admitted /\ Sends(s)
    BY KeyIsSender DEF ConsumeRefused
<1>3. /\ notBefore'[s] = now + wait
      /\ s.client \in Obedient => refusals'[s] = refusals[s] + 1
    <2>1. KeyOf(s.endpoint, request) = k
        BY KeyIsSender
    <2> QED BY <1>1, <2>1 DEF ConsumeRefused, TypeOK
<1>4. ~Opens(k) /\ ~Opens(k)' /\ buckets'[k] = buckets[k]
    BY <1>1, <1>2, OwnBucket
<1>5. Ordered(s)' /\ Spread(s)' /\ NoBucket(s)' /\ OpenBucket(s)'
    <2>1. Ordered(s)' /\ Spread(s)'
        BY <1>2 DEF SenderInv, Ordered, Spread
    <2>2. NoBucket(s)'
        BY <1>4 DEF NoBucket
    <2>3. OpenBucket(s)'
        BY <1>2, <1>4 DEF SenderInv, OpenBucket
    <2> QED BY <2>1, <2>2, <2>3
<1>6. Patience(s)'
    <2> SUFFICES ASSUME s.client \in Obedient
                 PROVE  /\ refusals'[s] <= 2
                        /\ refusals'[s] = 1 =>
                              buckets[k].resetAt < now + wait + Second
                        /\ refusals'[s] = 2 => buckets[k].resetAt <= now + wait
        BY <1>2, <1>3, <1>4 DEF Patience
    <2>1. /\ buckets[k].resetAt < now + wait + Second
          /\ buckets[k].resetAt < now + Second => buckets[k].resetAt <= now + wait
        BY <1>1, <1>2, RetryAfterType
    <2>2. notBefore[s] <= now /\ notBefore[s] \in Nat /\ refusals[s] \in Nat
        BY <1>1, <1>2 DEF Sends, TypeOK
    <2>3. /\ buckets[k].resetAt \in Nat /\ now \in Nat /\ Second \in Nat
          /\ buckets[k].resetAt > now
        <3>1. k \in DOMAIN buckets /\ ~(buckets[k].resetAt <= now)
            BY <1>4 DEF Opens
        <3>2. buckets[k] \in [count : 1 .. Limit, resetAt : 1 .. now + Window]
            BY <3>1 DEF TypeOK
        <3> QED BY <3>1, <3>2, RateAssumption DEF TypeOK, Times
    <2>4. /\ refusals[s] <= 2
          /\ refusals[s] = 1 => buckets[k].resetAt < notBefore[s] + Second
          /\ refusals[s] = 2 => buckets[k].resetAt <= notBefore[s]
        BY <1>4 DEF SenderInv, Patience
    <2> HIDE DEF k, wait
    <2>5. refusals[s] # 2
        BY <2>2, <2>3, <2>4
    <2>6. refusals[s] = 1 => buckets[k].resetAt <= now + wait
        BY <2>1, <2>2, <2>3, <2>4
    <2> QED BY <1>3, <2>1, <2>2, <2>4, <2>5, <2>6
<1> QED BY <1>5, <1>6 DEF SenderInv

\* Time passes: buckets close, and a bucket that closes has been open for a
\* window.
LEMMA TickStep ==
    ASSUME TypeOK, NEW s \in OauthSenders, SenderInv(s), Tick
    PROVE  SenderInv(s)'
<1> DEFINE k == Key(s)
           n == Len(admitted[s])
           a == admitted[s]
<1>1. /\ now' = now + 1 /\ buckets' = buckets
      /\ admitted' = admitted /\ notBefore' = notBefore /\ refusals' = refusals
    BY DEF Tick, history
<1>2. /\ a \in Seq(Times) /\ now \in Nat /\ n \in Nat
      /\ \A i \in 1 .. n : a[i] \in Nat
    <2>1. a \in Seq(Times) /\ now \in Times
        BY KeyInKeys DEF TypeOK
    <2>2. \A i \in 1 .. n : a[i] \in Times
        BY <2>1
    <2> QED BY <2>1, <2>2 DEF Times
<1>3. Limit \in Nat \ {0} /\ Window \in Nat \ {0}
    BY LimitType, RateAssumption
<1>4. /\ \A i, j \in 1 .. n : i <= j => a[i] <= a[j]
      /\ \A i \in 1 .. n : a[i] <= now
    BY DEF SenderInv, Ordered
<1>5. Ordered(s)' /\ Spread(s)'
    BY <1>1, <1>2, <1>4 DEF SenderInv, Ordered, Spread
<1>6. k \in DOMAIN buckets =>
          buckets[k].count \in 1 .. Limit /\ buckets[k].resetAt \in 1 .. now + Window
    <2>1. k \in DOMAIN buckets =>
              buckets[k] \in [count : 1 .. Limit, resetAt : 1 .. now + Window]
        BY DEF TypeOK
    <2> QED BY <2>1
<1>7. Opens(k) => Opens(k)'
    BY <1>1, <1>2, <1>6 DEF Opens
<1>8. OpenBucket(s)' /\ Patience(s)'
    BY <1>1, <1>7 DEF SenderInv, OpenBucket, Patience
<1>9. ASSUME Opens(k)', Limit <= n
      PROVE  a[n - Limit + 1] <= (now + 1) - Window
    <2>1. n - Limit + 1 \in 1 .. n
        BY <1>2, <1>3, <1>9
    <2>2. CASE Opens(k)
        <3>1. a[n - Limit + 1] <= now - Window
            BY <1>9, <2>2 DEF SenderInv, NoBucket
        <3> QED BY <1>2, <1>3, <2>1, <3>1
    <2>3. CASE ~Opens(k)
        <3> DEFINE c == buckets[k].count
                   r == buckets[k].resetAt
        <3>1. c <= n /\ a[n - c + 1] = r - Window
            BY <2>3 DEF SenderInv, OpenBucket
        <3>2. k \in DOMAIN buckets /\ r <= now + 1
            BY <1>1, <1>9, <2>3 DEF Opens
        <3>3. c \in 1 .. Limit /\ r \in Nat
            BY <1>2, <1>3, <1>6, <3>2
        <3> HIDE DEF c, r, a, n
        <3>4. n - c + 1 \in 1 .. n /\ n - Limit + 1 <= n - c + 1
            BY <1>2, <1>3, <3>1, <3>3
        <3>5. a[n - Limit + 1] <= a[n - c + 1]
            BY <1>4, <2>1, <3>4
        <3>6. a[n - Limit + 1] \in Nat
            BY <1>2, <2>1
        <3> QED BY <1>2, <1>3, <3>1, <3>2, <3>3, <3>5, <3>6
    <2> QED BY <2>2, <2>3
<1>10. NoBucket(s)'
    BY <1>1, <1>9 DEF NoBucket
<1> QED BY <1>5, <1>8, <1>10 DEF SenderInv

\* A restart forgets the buckets, and the history is about the new process.
LEMMA RestartStep ==
    ASSUME TypeOK, NEW s \in OauthSenders, SenderInv(s), Restart
    PROVE  SenderInv(s)'
<1>1. admitted'[s] = <<>> /\ refusals' = refusals
    BY KeyInKeys DEF Restart
<1>2. Opens(Key(s))'
    BY DEF Restart, NoBuckets, Opens
<1>3. Limit \in Nat \ {0}
    BY LimitType
<1> QED BY <1>1, <1>2, <1>3
    DEF SenderInv, Ordered, OpenBucket, NoBucket, Spread, Patience

LEMMA SenderStep ==
    ASSUME TypeOK, NEW s \in OauthSenders, SenderInv(s), [Next]_vars
    PROVE  SenderInv(s)'
<1> s \in Senders /\ Key(s) \in Keys
    BY KeyInKeys
<1>1. ASSUME NEW t \in Senders, NEW request \in Arriving(t.client),
             ConsumeAllowed(t, request)
      PROVE  SenderInv(s)'
    <2>1. CASE t = s
        BY <1>1, <2>1, AdmittedStep
    <2>2. CASE t # s
        <3>1. KeyOf(t.endpoint, request) # Key(s)
            BY <2>2, KeyIsExclusive
        <3>2. KeyOf(t.endpoint, request) \in Keys
            BY KeyType
        <3>3. Admit(KeyOf(t.endpoint, request)) /\ now' = now
            BY <1>1 DEF ConsumeAllowed
        <3>4. /\ Opens(Key(s))' <=> Opens(Key(s))
              /\ ~Opens(Key(s)) => buckets'[Key(s)] = buckets[Key(s)]
            BY <3>1, <3>2, <3>3, OthersUntouched
        <3>5. /\ admitted'[s] = admitted[s] /\ refusals'[s] = refusals[s]
              /\ notBefore'[s] = notBefore[s]
            BY <1>1, <2>2 DEF ConsumeAllowed, TypeOK
        <3> QED BY <3>3, <3>4, <3>5, Unaffected
    <2> QED BY <2>1, <2>2
<1>2. ASSUME NEW t \in Senders, NEW request \in Arriving(t.client),
             ConsumeRefused(t, request)
      PROVE  SenderInv(s)'
    <2>1. CASE t = s
        BY <1>2, <2>1, RefusedStep
    <2>2. CASE t # s
        <3>1. KeyOf(t.endpoint, request) # Key(s)
            BY <2>2, KeyIsExclusive
        <3>2. KeyOf(t.endpoint, request) \in Keys
            BY KeyType
        <3>3. Refuse(KeyOf(t.endpoint, request)) /\ now' = now
            BY <1>2 DEF ConsumeRefused
        <3>4. /\ Opens(Key(s))' <=> Opens(Key(s))
              /\ ~Opens(Key(s)) => buckets'[Key(s)] = buckets[Key(s)]
            BY <3>1, <3>2, <3>3, OthersUntouched
        <3>5. /\ admitted'[s] = admitted[s] /\ refusals'[s] = refusals[s]
              /\ notBefore'[s] = notBefore[s]
            BY <1>2, <2>2 DEF ConsumeRefused, TypeOK
        <3> QED BY <3>3, <3>4, <3>5, Unaffected
    <2> QED BY <2>1, <2>2
<1>3. CASE Restart
    BY <1>3, RestartStep
<1>4. CASE Tick
    BY <1>4, TickStep
<1>5. CASE UNCHANGED vars
    <2>1. UNCHANGED <<now, buckets, notBefore, refusals, admitted>>
        BY <1>5 DEF vars, history
    <2>2. Opens(Key(s))' <=> Opens(Key(s))
        BY <2>1 DEF Opens
    <2> QED BY <2>1, <2>2, Unaffected
<1> QED BY <1>1, <1>2, <1>3, <1>4, <1>5 DEF Next

-----------------------------------------------------------------------------
(* The theorems.                                                           *)

\* GateInv is an invariant: the bucket of a client holds its last admissions
\* and those of nobody else.
THEOREM Invariance == Spec => []GateInv
<1>1. Init => GateInv
    <2> SUFFICES ASSUME Init PROVE GateInv
        OBVIOUS
    <2>1. TypeOK
        <3>1. now \in Times /\ 1 \in 1 .. (now + Window + Second)
            BY RateAssumption DEF Init, Times
        <3> QED BY <3>1 DEF Init, TypeOK, NoBuckets
    <2>2. ASSUME NEW s \in OauthSenders PROVE SenderInv(s)
        <3>1. admitted[s] = <<>> /\ refusals[s] = 0
            BY KeyInKeys DEF Init
        <3>2. Opens(Key(s))
            BY DEF Init, NoBuckets, Opens
        <3> QED BY <3>1, <3>2, LimitType
            DEF SenderInv, Ordered, OpenBucket, NoBucket, Spread, Patience
    <2> QED BY <2>1, <2>2 DEF GateInv
<1>2. GateInv /\ [Next]_vars => GateInv'
    <2> SUFFICES ASSUME GateInv, [Next]_vars PROVE GateInv'
        OBVIOUS
    <2>1. TypeOK'
        BY TypeStep DEF GateInv
    <2>2. OauthSenders' = OauthSenders
        BY DEF OauthSenders
    <2>3. \A s \in OauthSenders : SenderInv(s)'
        BY SenderStep DEF GateInv
    <2> QED BY <2>1, <2>3 DEF GateInv
<1> QED BY <1>1, <1>2, PTL DEF Spec

\* Buckets count from 1 to the limit, end within a window, and no client is told
\* to wait for more than a window and a second.
THEOREM TypeCorrect == Spec => []TypeOK
<1>1. GateInv => TypeOK
    BY DEF GateInv
<1> QED BY <1>1, Invariance, PTL

\* The burst at the edge of two windows is bounded, for any limit and window.
THEOREM BurstsAreBounded == Spec => []BurstBound
<1>1. GateInv => BurstBound
    BY DEF GateInv, SenderInv, Spread, BurstBound
<1> QED BY <1>1, Invariance, PTL

\* A client is refused only when it has used up the limit itself, whatever other
\* clients send, forge or share with it.
THEOREM RefusalsAreDeserved == Spec => []RefusalsAreJustified
<1>1. GateInv => RefusalsAreJustified
    <2> SUFFICES ASSUME GateInv, NEW s \in OauthSenders,
                        NEW request \in Arriving(s.client), Refused(s, request)
                 PROVE  UsedUp(s)
        BY DEF RefusalsAreJustified
    <2> DEFINE k == Key(s)
               n == Len(admitted[s])
               c == buckets[k].count
               r == buckets[k].resetAt
    <2>1. ~Opens(k) /\ ~(c < MaxRequests)
        BY KeyIsSender DEF GateInv, Refused, Admits
    <2>2. k \in DOMAIN buckets /\ ~(r <= now)
        BY <2>1 DEF Opens
    <2>3. c \in 1 .. Limit /\ r \in Nat /\ now \in Nat
        <3>1. buckets[k] \in [count : 1 .. Limit, resetAt : 1 .. now + Window]
            BY <2>2 DEF GateInv, TypeOK
        <3>2. now \in Nat /\ Window \in Nat
            BY RateAssumption DEF GateInv, TypeOK, Times
        <3> QED BY <3>1, <3>2
    <2>4. c = Limit
        BY <2>1, <2>3, RateAssumption DEF Limit
    <2>5. c <= n /\ admitted[s][n - c + 1] = r - Window
        BY <2>1 DEF GateInv, SenderInv, OpenBucket
    <2>6. Window \in Nat
        BY RateAssumption
    <2> HIDE DEF k, c, r, n
    <2>7. now - (r - Window) < Window /\ Limit <= n
        BY <2>2, <2>3, <2>4, <2>5, <2>6
    <2> QED BY <2>4, <2>5, <2>7 DEF UsedUp, n
<1> QED BY <1>1, Invariance, PTL

\* A client that honours Retry-After is refused at most twice in a row.
THEOREM HonouringSuffices == Spec => []RetryAfterSuffices
<1>1. GateInv => RetryAfterSuffices
    BY DEF GateInv, SenderInv, Patience, RetryAfterSuffices
<1> QED BY <1>1, Invariance, PTL
=============================================================================
