----------------------------- MODULE SsoHandoff -----------------------------
(***************************************************************************)
(* The browser SSO handoff: /oauth/authorise with auth_method=sso creates  *)
(* a pending handoff state, ResourceSpace posts it back to                 *)
(* /oauth/sso/callback, and the callback turns it into an authorization    *)
(* code.  Between creation and callback anything can happen: the state     *)
(* expires, is replayed, two callbacks for it run at once, the background  *)
(* prune runs, the process restarts.                                       *)
(*                                                                         *)
(* A callback takes two steps: it inspects the state without changing it   *)
(* and asks ResourceSpace to confirm the session key; then, on its answer, *)
(* it completes in one store transaction.  A start takes two as well: its  *)
(* deadlines are computed before the store lock is taken.                  *)
(***************************************************************************)
EXTENDS Naturals, FiniteSets, Functions

CONSTANTS
    MaxHandoffs,     \* bound on the handoff states created
    Sources,         \* client hosts that start sign-ins
    Callbacks,       \* callback requests in flight at once
    PendingTtl,      \* SSO_PENDING_TTL_SECONDS
    ReplayRetention, \* SSO_REPLAY_RETENTION_SECONDS
    MaxPending,      \* _MAX_PENDING_SSO_STATES (2000)
    SourceFloor,     \* least value of the per-source cap (10)
    SourceShare,     \* sources that may share MaxPending (10)
    MaxRequests,     \* RATE_LIMIT_MAX_REQUESTS
    RateWindow,      \* RATE_LIMIT_WINDOW_MS, in seconds
    MaxTime          \* bound on the clock

ASSUME SsoAssumption ==
    /\ MaxHandoffs \in Nat
    /\ PendingTtl \in Nat \ {0} /\ ReplayRetention \in Nat
    /\ MaxPending \in Nat \ {0} /\ SourceFloor \in Nat \ {0}
    /\ SourceShare \in Nat \ {0} /\ MaxRequests \in Nat
    /\ RateWindow \in Nat \ {0} /\ MaxTime \in Nat \ {0}

NoTime   == 0       \* None in usedAt
Nothing  == 0       \* an idle callback

\* _random_token never repeats itself, and nothing compares two handoff
\* states, so they are numbered in the order of their creation.
HandoffStates == 1 .. MaxHandoffs

VARIABLES
    now,
    pendingSsoStates,  \* the store's dictionary
    starting,          \* per source, when its request read the clock
    callback,          \* per callback, the state it inspected, or Nothing
    issued,            \* history: every handoff state ever stored
    usedAt,            \* history: when each was completed
    minted             \* history: how many codes each has bought

vars == <<now, pendingSsoStates, starting, callback, issued, usedAt, minted>>

Times     == 1 .. MaxTime
Deadlines == 1 .. (MaxTime + PendingTtl + ReplayRetention)

PendingRecord ==
    [initiatorKey : Sources, expiresAt : Deadlines, purgeAt : Deadlines,
     usedAt : Times \cup {NoTime}]

\* The dictionary, the history and every request in flight have their shape,
\* and the store holds no handoff state that was never issued.
TypeOK ==
    /\ now \in Times
    /\ DOMAIN pendingSsoStates \subseteq DOMAIN issued
    /\ pendingSsoStates \in [DOMAIN pendingSsoStates -> PendingRecord]
    /\ starting \in [Sources -> Times \cup {NoTime}]
    /\ callback \in [Callbacks -> HandoffStates \cup {Nothing}]
    /\ DOMAIN issued \subseteq HandoffStates
    /\ issued \in [DOMAIN issued -> PendingRecord]
    /\ usedAt \in [HandoffStates -> Times \cup {NoTime}]
    /\ minted \in [HandoffStates -> Nat]

Init ==
    /\ now = 1
    /\ pendingSsoStates = [s \in {} |-> s]
    /\ starting = [source \in Sources |-> NoTime]
    /\ callback = [b \in Callbacks |-> Nothing]
    /\ issued = [s \in {} |-> s]
    /\ usedAt = [s \in HandoffStates |-> NoTime]
    /\ minted = [s \in HandoffStates |-> 0]

-----------------------------------------------------------------------------

PrunedOnExpiry ==
    Restrict(pendingSsoStates, {s \in DOMAIN pendingSsoStates :
                                    now < pendingSsoStates[s].expiresAt})

\* The pendingSsoStates part of _prune_expired.
Pruned ==
    Restrict(pendingSsoStates, {s \in DOMAIN pendingSsoStates :
                                    now < pendingSsoStates[s].purgeAt})

PruneNothing == FALSE /\ UNCHANGED vars

\* The background prune thread.
Prune ==
    /\ pendingSsoStates' = Pruned
    /\ UNCHANGED <<now, starting, callback, issued, usedAt, minted>>

\* _is_active_pending_sso_state: what the caps count.
IsActive(record) == record.usedAt = NoTime /\ now < record.expiresAt

\* _max_pending_sso_states_per_source
PerSourceLimit ==
    LET fromRate == (MaxRequests * PendingTtl) \div RateWindow
        share    == MaxPending \div SourceShare
        least    == IF fromRate < share THEN fromRate ELSE share
    IN  IF least < SourceFloor THEN SourceFloor ELSE least

Active(dict) == {s \in DOMAIN dict : IsActive(dict[s])}
ActiveFrom(dict, source) ==
    {s \in Active(dict) : dict[s].initiatorKey = source}

HasRoomOffByOne(source) ==
    /\ Cardinality(ActiveFrom(Pruned, source)) <= PerSourceLimit
    /\ Cardinality(Active(Pruned)) <= MaxPending

HasRoom(source) ==
    /\ Cardinality(ActiveFrom(Pruned, source)) < PerSourceLimit
    /\ Cardinality(Active(Pruned)) < MaxPending

\* begin_sso_authorization reads the clock ...
BeginSso(source) ==
    /\ starting[source] = NoTime
    /\ starting' = [starting EXCEPT ![source] = now]
    /\ UNCHANGED <<now, pendingSsoStates, callback, issued, usedAt, minted>>

\* ... and stores the handoff state under the lock, with deadlines counted
\* from that reading.
StoreHandoff(source, s) ==
    /\ starting[source] # NoTime /\ HasRoom(source)
    /\ s = Cardinality(DOMAIN issued) + 1
    /\ LET expiresAt == starting[source] + PendingTtl
           record == [initiatorKey |-> source, expiresAt |-> expiresAt,
                      purgeAt |-> expiresAt + ReplayRetention,
                      usedAt |-> NoTime]
           Add(dict) == [x \in DOMAIN dict \cup {s} |->
                            IF x = s THEN record ELSE dict[x]]
       IN  pendingSsoStates' = Add(Pruned) /\ issued' = Add(issued)
    /\ starting' = [starting EXCEPT ![source] = NoTime]
    /\ UNCHANGED <<now, callback, usedAt, minted>>

\* SSO_CAPACITY: the updater raises, so the pruned store is not saved.
RefuseHandoff(source) ==
    /\ starting[source] # NoTime /\ ~HasRoom(source)
    /\ starting' = [starting EXCEPT ![source] = NoTime]
    /\ UNCHANGED <<now, pendingSsoStates, callback, issued, usedAt, minted>>

-----------------------------------------------------------------------------

\* _classify_pending_sso_record
Classify(dict, s) ==
    IF s \notin DOMAIN dict               THEN "invalid"
    ELSE IF dict[s].usedAt # NoTime       THEN "replayed"
    ELSE IF now > dict[s].expiresAt       THEN "expired"
    ELSE "active"

\* The callback looks the state up (read does not prune) and goes on only
\* with an active one, a username and a session key: from here on it waits
\* for ResourceSpace to confirm the session key.
InspectActive(b, s) ==
    /\ callback[b] = Nothing
    /\ Classify(pendingSsoStates, s) = "active"
    /\ callback' = [callback EXCEPT ![b] = s]
    /\ UNCHANGED <<now, pendingSsoStates, starting, issued, usedAt, minted>>

\* ResourceSpace refuses the session key, is unreachable or times out: the
\* handoff state stays usable.
AuthenticationFails(b) ==
    /\ callback[b] # Nothing
    /\ callback' = [callback EXCEPT ![b] = Nothing]
    /\ UNCHANGED <<now, pendingSsoStates, starting, issued, usedAt, minted>>

CompletesIfUnused(s) == s \in DOMAIN Pruned /\ Pruned[s].usedAt = NoTime

\* complete_sso_authorization classifies again inside its transaction.
Completes(s) == Classify(Pruned, s) = "active"

CompletedUnmarked(s) == Pruned

CompletedMillis(s) == [Pruned EXCEPT ![s].usedAt = now * 1000]

Completed(s) == [Pruned EXCEPT ![s].usedAt = now]

Complete(b) ==
    LET s == callback[b]
    IN  /\ s # Nothing /\ Completes(s)
        /\ pendingSsoStates' = Completed(s)
        /\ usedAt' = [usedAt EXCEPT ![s] = now]
        /\ minted' = [minted EXCEPT ![s] = @ + 1]
        /\ callback' = [callback EXCEPT ![b] = Nothing]
        /\ UNCHANGED <<now, starting, issued>>

CompletionRefused(b) ==
    /\ callback[b] # Nothing /\ ~Completes(callback[b])
    /\ pendingSsoStates' = Pruned
    /\ callback' = [callback EXCEPT ![b] = Nothing]
    /\ UNCHANGED <<now, starting, issued, usedAt, minted>>

-----------------------------------------------------------------------------

\* The process stops and starts again: requests in flight are lost.
Restart ==
    /\ starting' = [source \in Sources |-> NoTime]
    /\ callback' = [b \in Callbacks |-> Nothing]
    /\ UNCHANGED <<now, pendingSsoStates, issued, usedAt, minted>>

Tick ==
    /\ now < MaxTime /\ now' = now + 1
    /\ UNCHANGED <<pendingSsoStates, starting, callback, issued, usedAt, minted>>

Next ==
    \/ \E source \in Sources : BeginSso(source)
    \/ \E source \in Sources, s \in HandoffStates : StoreHandoff(source, s)
    \/ \E source \in Sources : RefuseHandoff(source)
    \/ \E b \in Callbacks, s \in HandoffStates : InspectActive(b, s)
    \/ \E b \in Callbacks : AuthenticationFails(b)
    \/ \E b \in Callbacks : Complete(b)
    \/ \E b \in Callbacks : CompletionRefused(b)
    \/ Prune
    \/ Restart
    \/ Tick

Spec == Init /\ [][Next]_vars

\* Time passes, and the prune loop runs every STORE_PRUNE_INTERVAL_SECONDS: it
\* survives the exceptions of its own runs and is started with the process.
FairSpec == Spec /\ WF_vars(Tick) /\ WF_vars(Prune)

-----------------------------------------------------------------------------
(* Properties.  PrunedOnExpiry, PruneNothing, HasRoomOffByOne,             *)
(* CompletesIfUnused, CompletedUnmarked and CompletedMillis are            *)
(* deliberate mistakes that they are known to catch; nothing uses them.    *)

\* The docstring of complete_sso_authorization: concurrent callbacks cannot
\* mint multiple codes.  However many callbacks inspected the state while it
\* was active, it buys at most one code.
OneCodePerHandoff == \A s \in HandoffStates : minted[s] <= 1

\* No code is minted after the deadline computed when the sign-in started,
\* however long the callback waited for ResourceSpace.
NoLateCode ==
    \A s \in DOMAIN issued : usedAt[s] # NoTime => usedAt[s] <= issued[s].expiresAt

\* At no time are more handoff states active than _MAX_PENDING_SSO_STATES,
\* nor more from one source than its share, although requests in flight
\* computed their deadlines before the cap was checked.
CapsRespected ==
    /\ Cardinality(Active(pendingSsoStates)) <= MaxPending
    /\ \A source \in Sources :
          Cardinality(ActiveFrom(pendingSsoStates, source)) <= PerSourceLimit

\* A tombstone tells the truth until purgeAt: a completed handoff state is
\* reported as replayed and a lapsed one as expired, never as unknown, and
\* neither is ever reported as active again.
TombstonesTellTheTruth ==
    \A s \in DOMAIN issued :
        LET answer == Classify(pendingSsoStates, s)
            truth  == IF usedAt[s] # NoTime THEN "replayed"
                      ELSE IF now > issued[s].expiresAt THEN "expired"
                      ELSE "active"
        IN  IF now < issued[s].purgeAt THEN answer = truth
            ELSE answer \in {truth, "invalid"}

\* The store is cleaned: a stored handoff state is eventually gone once the
\* clock has passed its purgeAt.
EventuallyPurged ==
    \A s \in HandoffStates :
        (s \in DOMAIN pendingSsoStates /\ now >= issued[s].purgeAt)
            ~> s \notin DOMAIN pendingSsoStates
=============================================================================
