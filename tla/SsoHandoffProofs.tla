--------------------------- MODULE SsoHandoffProofs ---------------------------
(***************************************************************************)
(* Proofs about SsoHandoff, for any number of sources, callbacks and       *)
(* handoff states, any caps and any lifetimes: one code per handoff, never *)
(* late, caps that hold, and tombstones that tell the truth.               *)
(***************************************************************************)
EXTENDS SsoHandoff, FiniteSetTheorems, TLAPS

\* Handoff states are numbered as they are created, and one that is still to be
\* created has bought nothing.
NumberedInv ==
    /\ \E n \in Nat : DOMAIN issued = 1 .. n
    /\ \A s \in HandoffStates \ DOMAIN issued : usedAt[s] = NoTime /\ minted[s] = 0

\* What the store has agrees with the history, and what it must still have to
\* tell a replay from a stranger is there.
StoreInv ==
    /\ \A s \in DOMAIN pendingSsoStates :
          /\ pendingSsoStates[s].usedAt = usedAt[s]
          /\ pendingSsoStates[s].expiresAt = issued[s].expiresAt
          /\ pendingSsoStates[s].purgeAt = issued[s].purgeAt
    /\ \A s \in DOMAIN issued : now < issued[s].purgeAt => s \in DOMAIN pendingSsoStates

\* A code is bought when the state is marked as used.
MintedInv ==
    /\ \A s \in HandoffStates : minted[s] = IF usedAt[s] = NoTime THEN 0 ELSE 1
    /\ NoLateCode

SsoInv == TypeOK /\ NumberedInv /\ StoreInv /\ MintedInv /\ CapsRespected

-----------------------------------------------------------------------------

\* What pruning leaves is unchanged (_prune_expired).
LEMMA PrunedFacts ==
    /\ DOMAIN Pruned = {s \in DOMAIN pendingSsoStates : now < pendingSsoStates[s].purgeAt}
    /\ \A s \in DOMAIN Pruned : Pruned[s] = pendingSsoStates[s]
BY DEF Pruned, Restrict

LEMMA TypeFacts ==
    ASSUME TypeOK
    PROVE  /\ now \in Nat \ {0}
           /\ DOMAIN pendingSsoStates \subseteq DOMAIN issued
           /\ DOMAIN issued \subseteq HandoffStates /\ IsFiniteSet(HandoffStates)
           /\ \A s \in DOMAIN issued : /\ issued[s].expiresAt \in Nat
                                      /\ issued[s].purgeAt \in Nat
           /\ \A s \in DOMAIN pendingSsoStates : pendingSsoStates[s] \in PendingRecord
<1>1. IsFiniteSet(HandoffStates)
    BY SsoAssumption, FS_Interval DEF HandoffStates
<1> QED BY <1>1 DEF TypeOK, Times, PendingRecord, Deadlines

\* _max_pending_sso_states_per_source
LEMMA LimitType == PerSourceLimit \in Nat \ {0}
<1> DEFINE fromRate == (MaxRequests * PendingTtl) \div RateWindow
           share    == MaxPending \div SourceShare
<1>1. MaxRequests * PendingTtl \in Nat
    BY SsoAssumption
<1>2. fromRate \in Nat
    BY <1>1, SsoAssumption
<1>3. share \in Nat
    BY SsoAssumption
<1> HIDE DEF fromRate, share
<1>4. PerSourceLimit = LET least == IF fromRate < share THEN fromRate ELSE share
                       IN  IF least < SourceFloor THEN SourceFloor ELSE least
    BY DEF PerSourceLimit, fromRate, share
<1> QED BY <1>2, <1>3, <1>4, SsoAssumption

LEMMA ActiveFinite ==
    ASSUME TypeOK, NEW S \in SUBSET DOMAIN issued
    PROVE  IsFiniteSet(S) /\ Cardinality(S) \in Nat
BY TypeFacts, FS_Subset, FS_CardinalityType

\* Caps hold on if nothing becomes active.
LEMMA CapsKept ==
    ASSUME TypeOK, CapsRespected,
           Active(pendingSsoStates)' \subseteq Active(pendingSsoStates),
           \A s \in Active(pendingSsoStates)' :
               pendingSsoStates'[s].initiatorKey = pendingSsoStates[s].initiatorKey
    PROVE  CapsRespected'
<1>1. Active(pendingSsoStates) \subseteq DOMAIN issued
    BY TypeFacts DEF Active
<1>2. Cardinality(Active(pendingSsoStates)') <= MaxPending
    <2>1. Cardinality(Active(pendingSsoStates)') <= Cardinality(Active(pendingSsoStates))
        BY <1>1, ActiveFinite, FS_Subset
    <2>2. /\ Cardinality(Active(pendingSsoStates)) \in Nat
          /\ Cardinality(Active(pendingSsoStates)') \in Nat
        BY <1>1, ActiveFinite
    <2> QED BY <2>1, <2>2, SsoAssumption DEF CapsRespected
<1>3. ASSUME NEW source \in Sources
      PROVE  Cardinality(ActiveFrom(pendingSsoStates, source)') <= PerSourceLimit
    <2> DEFINE before == ActiveFrom(pendingSsoStates, source)
               after  == ActiveFrom(pendingSsoStates, source)'
    <2>1. after \subseteq before /\ before \subseteq DOMAIN issued
        BY <1>1 DEF ActiveFrom
    <2>2. Cardinality(before) <= PerSourceLimit
        BY DEF CapsRespected
    <2> HIDE DEF before, after
    <2>3. Cardinality(after) <= Cardinality(before)
        BY <2>1, ActiveFinite, FS_Subset
    <2>4. Cardinality(before) \in Nat /\ Cardinality(after) \in Nat
        BY <2>1, ActiveFinite
    <2>5. Cardinality(after) <= PerSourceLimit
        BY <2>2, <2>3, <2>4, LimitType
    <2> QED BY <2>5 DEF after
<1> QED BY <1>2, <1>3 DEF CapsRespected

-----------------------------------------------------------------------------

LEMMA InitInv == Init => SsoInv
<1> SUFFICES ASSUME Init PROVE SsoInv
    OBVIOUS
<1>1. DOMAIN issued = 1 .. 0 /\ DOMAIN pendingSsoStates = {}
    BY DEF Init
<1>2. TypeOK
    BY <1>1, SsoAssumption DEF Init, TypeOK, Times, NoTime, Nothing
<1>3. NumberedInv /\ StoreInv /\ MintedInv
    BY <1>1 DEF Init, NumberedInv, StoreInv, MintedInv, NoLateCode
<1>4. CapsRespected
    <2>1. /\ Active(pendingSsoStates) = {}
          /\ \A source \in Sources : ActiveFrom(pendingSsoStates, source) = {}
        BY <1>1 DEF Active, ActiveFrom
    <2> QED BY <2>1, FS_EmptySet, SsoAssumption, LimitType DEF CapsRespected
<1> QED BY <1>2, <1>3, <1>4 DEF SsoInv

\* A step that at most lets time pass and prunes what has lapsed.
Kept ==
    /\ issued' = issued /\ usedAt' = usedAt /\ minted' = minted /\ now <= now'
    /\ DOMAIN pendingSsoStates' \subseteq DOMAIN pendingSsoStates
    /\ \A s \in DOMAIN pendingSsoStates' : pendingSsoStates'[s] = pendingSsoStates[s]
    /\ \A s \in DOMAIN pendingSsoStates :
          now < pendingSsoStates[s].purgeAt => s \in DOMAIN pendingSsoStates'

LEMMA KeptStep ==
    ASSUME SsoInv, TypeOK', Kept
    PROVE  SsoInv'
<1>1. TypeOK /\ now \in Nat /\ now' \in Nat
    BY TypeFacts DEF SsoInv, TypeOK, Times
<1>2. NumberedInv' /\ MintedInv'
    BY DEF SsoInv, NumberedInv, MintedInv, NoLateCode, Kept
<1>3. StoreInv'
    <2>1. \A s \in DOMAIN issued : now' < issued[s].purgeAt => now < issued[s].purgeAt
        BY <1>1, TypeFacts DEF Kept
    <2> QED BY <2>1 DEF SsoInv, StoreInv, Kept
<1>4. Active(pendingSsoStates)' \subseteq Active(pendingSsoStates)
    <2>1. \A s \in DOMAIN pendingSsoStates : pendingSsoStates[s].expiresAt \in Nat
        BY <1>1, TypeFacts DEF PendingRecord, Deadlines
    <2> QED BY <1>1, <2>1 DEF Active, IsActive, Kept
<1>5. CapsRespected'
    BY <1>1, <1>4, CapsKept DEF SsoInv, Kept, Active
<1> QED BY <1>2, <1>3, <1>5 DEF SsoInv

-----------------------------------------------------------------------------

\* Every step keeps the store, the history and the requests in shape.
LEMMA TypeStep ==
    ASSUME TypeOK, [Next]_vars
    PROVE  TypeOK'
<1>1. DOMAIN Pruned \subseteq DOMAIN issued /\ Pruned \in [DOMAIN Pruned -> PendingRecord]
    <2>1. DOMAIN Pruned \subseteq DOMAIN pendingSsoStates
        BY PrunedFacts
    <2>2. \A s \in DOMAIN Pruned : Pruned[s] \in PendingRecord
        BY <2>1, PrunedFacts, TypeFacts
    <2>3. Pruned = [s \in DOMAIN Pruned |-> Pruned[s]]
        BY DEF Pruned, Restrict
    <2> QED BY <2>1, <2>2, <2>3, TypeFacts
<1>2. ASSUME NEW source \in Sources, NEW s \in HandoffStates, StoreHandoff(source, s)
      PROVE  TypeOK'
    <2> DEFINE record == [initiatorKey |-> source, expiresAt |-> starting[source] + PendingTtl,
                          purgeAt |-> starting[source] + PendingTtl + ReplayRetention,
                          usedAt |-> NoTime]
    <2>1. starting[source] \in Times
        BY <1>2 DEF StoreHandoff, TypeOK
    <2>2. /\ starting[source] + PendingTtl \in Deadlines
          /\ starting[source] + PendingTtl + ReplayRetention \in Deadlines
        BY <2>1, SsoAssumption DEF Times, Deadlines
    <2>3. record \in PendingRecord
        BY <2>2 DEF PendingRecord
    <2>4. /\ pendingSsoStates' = [x \in DOMAIN Pruned \cup {s} |-> IF x = s THEN record ELSE Pruned[x]]
          /\ issued' = [x \in DOMAIN issued \cup {s} |-> IF x = s THEN record ELSE issued[x]]
          /\ starting' = [starting EXCEPT ![source] = NoTime]
          /\ UNCHANGED <<now, callback, usedAt, minted>>
        BY <1>2 DEF StoreHandoff
    <2> HIDE DEF record
    <2>5. issued' \in [DOMAIN issued' -> PendingRecord] /\ DOMAIN issued' \subseteq HandoffStates
        BY <2>3, <2>4 DEF TypeOK
    <2>6. /\ DOMAIN pendingSsoStates' \subseteq DOMAIN issued'
          /\ pendingSsoStates' \in [DOMAIN pendingSsoStates' -> PendingRecord]
        BY <1>1, <2>3, <2>4
    <2> QED BY <2>4, <2>5, <2>6 DEF TypeOK
<1>3. ASSUME NEW b \in Callbacks, Complete(b)
      PROVE  TypeOK'
    <2> DEFINE s == callback[b]
    <2>1. s \in HandoffStates /\ s \in DOMAIN Pruned /\ now \in Times
        BY <1>3 DEF Complete, Completes, Classify, TypeOK
    <2>2. /\ pendingSsoStates' = [Pruned EXCEPT ![s].usedAt = now]
          /\ usedAt' = [usedAt EXCEPT ![s] = now]
          /\ minted' = [minted EXCEPT ![s] = @ + 1]
          /\ callback' = [callback EXCEPT ![b] = Nothing]
          /\ UNCHANGED <<now, starting, issued>>
        BY <1>3 DEF Complete, Completed
    <2> HIDE DEF s
    <2>3. /\ DOMAIN pendingSsoStates' = DOMAIN Pruned
          /\ pendingSsoStates' \in [DOMAIN Pruned -> PendingRecord]
        BY <1>1, <2>1, <2>2 DEF PendingRecord
    <2>4. minted' \in [HandoffStates -> Nat] /\ usedAt' \in [HandoffStates -> Times \cup {NoTime}]
        BY <2>1, <2>2 DEF TypeOK
    <2>5. callback' \in [Callbacks -> HandoffStates \cup {Nothing}]
        BY <2>2 DEF TypeOK
    <2> QED BY <1>1, <2>2, <2>3, <2>4, <2>5 DEF TypeOK
<1>4. ASSUME NEW source \in Sources, BeginSso(source) \/ RefuseHandoff(source)
      PROVE  TypeOK'
    BY <1>4 DEF BeginSso, RefuseHandoff, TypeOK
<1>5. ASSUME NEW b \in Callbacks,
             \/ \E s \in HandoffStates : InspectActive(b, s)
             \/ AuthenticationFails(b)
      PROVE  TypeOK'
    BY <1>5 DEF InspectActive, AuthenticationFails, TypeOK
<1>6. ASSUME NEW b \in Callbacks, CompletionRefused(b)
      PROVE  TypeOK'
    BY <1>1, <1>6 DEF CompletionRefused, TypeOK
<1>7. CASE Prune
    BY <1>1, <1>7 DEF Prune, TypeOK
<1>8. CASE Restart
    BY <1>8 DEF Restart, TypeOK
<1>9. CASE Tick
    BY <1>9, SsoAssumption DEF Tick, TypeOK, Times
<1>10. CASE UNCHANGED vars
    BY <1>10 DEF vars, TypeOK
<1> QED BY <1>2, <1>3, <1>4, <1>5, <1>6, <1>7, <1>8, <1>9, <1>10 DEF Next

\* A start: the state is new, so it has bought nothing, and there was room for
\* one more active state when it was stored (begin_sso_authorization).
LEMMA StoreStep ==
    ASSUME SsoInv, TypeOK', NEW source \in Sources, NEW s \in HandoffStates,
           StoreHandoff(source, s)
    PROVE  SsoInv'
<1> DEFINE record == [initiatorKey |-> source, expiresAt |-> starting[source] + PendingTtl,
                      purgeAt |-> starting[source] + PendingTtl + ReplayRetention,
                      usedAt |-> NoTime]
<1>1. /\ pendingSsoStates' = [x \in DOMAIN Pruned \cup {s} |-> IF x = s THEN record ELSE Pruned[x]]
      /\ issued' = [x \in DOMAIN issued \cup {s} |-> IF x = s THEN record ELSE issued[x]]
      /\ UNCHANGED <<now, usedAt, minted>>
      /\ HasRoom(source)
      /\ s = Cardinality(DOMAIN issued) + 1
    BY DEF StoreHandoff
<1>2. record.usedAt = NoTime /\ record.initiatorKey = source
    OBVIOUS
<1> HIDE DEF record
<1>3. PICK n \in Nat : DOMAIN issued = 1 .. n
    BY DEF SsoInv, NumberedInv
<1>4. s = n + 1
    <2>1. Cardinality(1 .. n) = n
        BY <1>3, FS_Interval
    <2> QED BY <1>1, <1>3, <2>1
<1>5. s \notin DOMAIN issued /\ s \notin DOMAIN Pruned
    BY <1>3, <1>4, PrunedFacts, TypeFacts DEF SsoInv
<1>6. NumberedInv'
    <2>1. DOMAIN issued' = 1 .. (n + 1)
        BY <1>1, <1>3, <1>4
    <2> QED BY <1>1, <2>1 DEF SsoInv, NumberedInv
<1>7. StoreInv'
    <2>1. usedAt[s] = NoTime
        BY <1>5 DEF SsoInv, NumberedInv
    <2>2. ASSUME NEW x \in DOMAIN pendingSsoStates'
          PROVE  /\ pendingSsoStates'[x].usedAt = usedAt[x]
                 /\ pendingSsoStates'[x].expiresAt = issued'[x].expiresAt
                 /\ pendingSsoStates'[x].purgeAt = issued'[x].purgeAt
        <3>1. CASE x = s
            BY <1>1, <1>2, <2>1, <3>1
        <3>2. CASE x # s
            <4>1. x \in DOMAIN Pruned /\ x \in DOMAIN pendingSsoStates /\ x \in DOMAIN issued
                BY <1>1, <2>2, <3>2, PrunedFacts, TypeFacts DEF SsoInv
            <4>2. pendingSsoStates'[x] = pendingSsoStates[x] /\ issued'[x] = issued[x]
                BY <1>1, <3>2, <4>1, PrunedFacts
            <4> QED BY <4>1, <4>2 DEF SsoInv, StoreInv
        <3> QED BY <3>1, <3>2
    <2>3. ASSUME NEW x \in DOMAIN issued', now < issued'[x].purgeAt
          PROVE  x \in DOMAIN pendingSsoStates'
        <3>1. CASE x = s
            BY <1>1, <3>1
        <3>2. CASE x # s
            <4>1. x \in DOMAIN issued /\ issued'[x] = issued[x]
                BY <1>1, <2>3, <3>2
            <4>2. x \in DOMAIN pendingSsoStates /\ now < pendingSsoStates[x].purgeAt
                BY <2>3, <4>1 DEF SsoInv, StoreInv
            <4> QED BY <1>1, <4>2, PrunedFacts
        <3> QED BY <3>1, <3>2
    <2> QED BY <1>1, <2>2, <2>3 DEF StoreInv
<1>8. MintedInv'
    <2>1. usedAt[s] = NoTime
        BY <1>5 DEF SsoInv, NumberedInv
    <2> QED BY <1>1, <2>1 DEF SsoInv, MintedInv, NoLateCode
<1>9. CapsRespected'
    <2>1. /\ Active(pendingSsoStates)' \subseteq Active(Pruned) \cup {s}
          /\ Active(Pruned) \subseteq DOMAIN issued
        BY <1>1, PrunedFacts, TypeFacts DEF Active, IsActive, SsoInv
    <2>2. ASSUME NEW S, NEW T, S \subseteq DOMAIN issued, T \subseteq S \cup {s}
          PROVE  /\ IsFiniteSet(S) /\ Cardinality(S) \in Nat
                 /\ Cardinality(T) \in Nat /\ Cardinality(T) <= Cardinality(S) + 1
        <3>1. IsFiniteSet(S) /\ Cardinality(S) \in Nat
            BY <2>2, ActiveFinite DEF SsoInv
        <3>2. s \notin S
            BY <1>5, <2>2
        <3>3. IsFiniteSet(S \cup {s}) /\ Cardinality(S \cup {s}) = Cardinality(S) + 1
            BY <3>1, <3>2, FS_AddElement
        <3>4. IsFiniteSet(T) /\ Cardinality(T) <= Cardinality(S \cup {s})
            BY <2>2, <3>3, FS_Subset
        <3> QED BY <3>1, <3>3, <3>4, FS_CardinalityType
    <2>3. Cardinality(Active(pendingSsoStates)') <= MaxPending
        <3>1. Cardinality(Active(Pruned)) < MaxPending
            BY <1>1 DEF HasRoom
        <3>2. /\ Cardinality(Active(Pruned)) \in Nat
              /\ Cardinality(Active(pendingSsoStates)') \in Nat
              /\ Cardinality(Active(pendingSsoStates)') <= Cardinality(Active(Pruned)) + 1
            BY <2>1, <2>2
        <3> QED BY <3>1, <3>2, SsoAssumption
    <2>4. ASSUME NEW other \in Sources
          PROVE  Cardinality(ActiveFrom(pendingSsoStates, other)') <= PerSourceLimit
        <3> DEFINE before == ActiveFrom(Pruned, other)
                   after  == ActiveFrom(pendingSsoStates, other)'
        <3>1. before \subseteq DOMAIN issued
            BY <2>1 DEF ActiveFrom
        <3>2. CASE other = source
            <4>1. after \subseteq before \cup {s}
                BY <1>1, <2>1 DEF ActiveFrom, Active, IsActive
            <4>2. Cardinality(before) < PerSourceLimit
                BY <1>1, <3>2 DEF HasRoom
            <4> HIDE DEF before, after
            <4>3. /\ Cardinality(before) \in Nat /\ Cardinality(after) \in Nat
                  /\ Cardinality(after) <= Cardinality(before) + 1
                BY <2>2, <3>1, <4>1
            <4>4. Cardinality(after) <= PerSourceLimit
                BY <4>2, <4>3, LimitType
            <4> QED BY <4>4 DEF after
        <3>3. CASE other # source
            <4> DEFINE earlier == ActiveFrom(pendingSsoStates, other)
            <4>1. after \subseteq earlier
                BY <1>1, <1>2, <3>3, PrunedFacts DEF ActiveFrom, Active, IsActive
            <4>2. earlier \subseteq DOMAIN issued
                BY TypeFacts DEF SsoInv, ActiveFrom, Active
            <4>3. Cardinality(earlier) <= PerSourceLimit
                BY DEF SsoInv, CapsRespected
            <4> HIDE DEF earlier, after
            <4>4. Cardinality(after) <= Cardinality(earlier)
                BY <4>1, <4>2, ActiveFinite, FS_Subset DEF SsoInv
            <4>5. Cardinality(earlier) \in Nat /\ Cardinality(after) \in Nat
                BY <4>1, <4>2, ActiveFinite DEF SsoInv
            <4>6. Cardinality(after) <= PerSourceLimit
                BY <4>3, <4>4, <4>5, LimitType
            <4> QED BY <4>6 DEF after
        <3> QED BY <3>2, <3>3
    <2> QED BY <2>3, <2>4 DEF CapsRespected
<1> QED BY <1>6, <1>7, <1>8, <1>9 DEF SsoInv

\* A completion: the second look at the state, in the transaction, finds it
\* unused and in time (complete_sso_authorization).
LEMMA CompleteStep ==
    ASSUME SsoInv, TypeOK', NEW b \in Callbacks, Complete(b)
    PROVE  SsoInv'
<1> DEFINE s == callback[b]
<1>1. /\ pendingSsoStates' = [Pruned EXCEPT ![s].usedAt = now]
      /\ usedAt' = [usedAt EXCEPT ![s] = now]
      /\ minted' = [minted EXCEPT ![s] = @ + 1]
      /\ UNCHANGED <<now, issued>>
    BY DEF Complete, Completed
<1>2. s \in DOMAIN Pruned /\ Pruned[s].usedAt = NoTime /\ ~(now > Pruned[s].expiresAt)
    BY DEF Complete, Completes, Classify
<1> HIDE DEF s
<1>3. /\ s \in DOMAIN pendingSsoStates /\ Pruned[s] = pendingSsoStates[s]
      /\ s \in DOMAIN issued /\ s \in HandoffStates
    BY <1>2, PrunedFacts, TypeFacts DEF SsoInv
<1>4. usedAt[s] = NoTime /\ minted[s] = 0 /\ ~(now > issued[s].expiresAt)
    BY <1>2, <1>3 DEF SsoInv, StoreInv, MintedInv
<1>5. now \in Nat \ {0} /\ issued[s].expiresAt \in Nat
    BY <1>3, TypeFacts DEF SsoInv
<1>6. usedAt \in [HandoffStates -> Times \cup {NoTime}] /\ minted \in [HandoffStates -> Nat]
    BY DEF SsoInv, TypeOK
<1>7. /\ DOMAIN pendingSsoStates' = DOMAIN Pruned
      /\ \A x \in DOMAIN Pruned \ {s} : pendingSsoStates'[x] = pendingSsoStates[x]
      /\ pendingSsoStates'[s] = [pendingSsoStates[s] EXCEPT !.usedAt = now]
      /\ pendingSsoStates[s] \in PendingRecord
    <2>1. \A x \in DOMAIN Pruned : Pruned[x] = pendingSsoStates[x]
        BY PrunedFacts
    <2>2. Pruned = [x \in DOMAIN Pruned |-> Pruned[x]]
        BY DEF Pruned, Restrict
    <2>3. pendingSsoStates[s] \in PendingRecord
        BY <1>3, TypeFacts DEF SsoInv
    <2> QED BY <1>1, <1>2, <2>1, <2>2, <2>3
<1>8. /\ pendingSsoStates'[s].usedAt = now
      /\ pendingSsoStates'[s].expiresAt = pendingSsoStates[s].expiresAt
      /\ pendingSsoStates'[s].purgeAt = pendingSsoStates[s].purgeAt
    BY <1>7 DEF PendingRecord
<1>9. /\ usedAt'[s] = now /\ minted'[s] = 1
      /\ \A x \in HandoffStates \ {s} : usedAt'[x] = usedAt[x] /\ minted'[x] = minted[x]
    BY <1>1, <1>3, <1>4, <1>6
<1>10. NumberedInv'
    BY <1>1, <1>3, <1>9 DEF SsoInv, NumberedInv
<1>11. StoreInv'
    <2>1. ASSUME NEW x \in DOMAIN pendingSsoStates'
          PROVE  /\ pendingSsoStates'[x].usedAt = usedAt'[x]
                 /\ pendingSsoStates'[x].expiresAt = issued[x].expiresAt
                 /\ pendingSsoStates'[x].purgeAt = issued[x].purgeAt
        <3>1. x \in DOMAIN pendingSsoStates /\ x \in HandoffStates
            BY <1>7, PrunedFacts, TypeFacts DEF SsoInv
        <3>2. CASE x = s
            BY <1>8, <1>9, <3>1, <3>2 DEF SsoInv, StoreInv
        <3>3. CASE x # s
            BY <1>7, <1>9, <3>1, <3>3 DEF SsoInv, StoreInv
        <3> QED BY <3>2, <3>3
    <2>2. \A x \in DOMAIN issued : now < issued[x].purgeAt => x \in DOMAIN Pruned
        BY PrunedFacts DEF SsoInv, StoreInv
    <2> QED BY <1>1, <1>7, <2>1, <2>2 DEF StoreInv
<1>12. MintedInv'
    <2>1. \A x \in HandoffStates : minted'[x] = IF usedAt'[x] = NoTime THEN 0 ELSE 1
        BY <1>5, <1>9 DEF SsoInv, MintedInv, NoTime
    <2>2. NoLateCode'
        <3> SUFFICES ASSUME NEW x \in DOMAIN issued, usedAt'[x] # NoTime
                     PROVE  usedAt'[x] <= issued[x].expiresAt
            BY <1>1 DEF NoLateCode
        <3>1. CASE x = s
            BY <1>4, <1>5, <1>9, <3>1
        <3>2. CASE x # s
            <4>1. x \in HandoffStates
                BY TypeFacts DEF SsoInv
            <4> QED BY <1>9, <3>2, <4>1 DEF SsoInv, MintedInv, NoLateCode
        <3> QED BY <3>1, <3>2
    <2> QED BY <2>1, <2>2 DEF MintedInv
<1>13. CapsRespected'
    <2>1. s \notin Active(pendingSsoStates)'
        BY <1>5, <1>8 DEF Active, IsActive, NoTime
    <2>2. ASSUME NEW x \in Active(pendingSsoStates)'
          PROVE  /\ x \in Active(pendingSsoStates)
                 /\ pendingSsoStates'[x] = pendingSsoStates[x]
        <3>1. x \in DOMAIN Pruned \ {s}
            BY <1>7, <2>1, <2>2 DEF Active
        <3>2. pendingSsoStates'[x] = pendingSsoStates[x] /\ x \in DOMAIN pendingSsoStates
            BY <1>7, <3>1, PrunedFacts
        <3> QED BY <1>1, <2>2, <3>2 DEF Active, IsActive
    <2>3. /\ Active(pendingSsoStates)' \subseteq Active(pendingSsoStates)
          /\ \A x \in Active(pendingSsoStates)' :
                pendingSsoStates'[x].initiatorKey = pendingSsoStates[x].initiatorKey
        BY <2>2
    <2> QED BY <2>3, CapsKept DEF SsoInv
<1> QED BY <1>10, <1>11, <1>12, <1>13 DEF SsoInv

\* Every other step at most prunes or lets time pass.
LEMMA QuietStep ==
    ASSUME SsoInv, [Next]_vars,
           ~ \E source \in Sources, s \in HandoffStates : StoreHandoff(source, s),
           ~ \E b \in Callbacks : Complete(b)
    PROVE  Kept
<1>1. now \in Nat
    BY TypeFacts DEF SsoInv
<1>2. ASSUME pendingSsoStates' = Pruned, UNCHANGED <<now, issued, usedAt, minted>>
      PROVE  Kept
    BY <1>1, <1>2, PrunedFacts DEF Kept
<1>3. ASSUME UNCHANGED <<now, pendingSsoStates, issued, usedAt, minted>>
      PROVE  Kept
    BY <1>1, <1>3 DEF Kept
<1>4. CASE \E source \in Sources : BeginSso(source) \/ RefuseHandoff(source)
    BY <1>3, <1>4 DEF BeginSso, RefuseHandoff
<1>5. CASE \E b \in Callbacks : \/ \E s \in HandoffStates : InspectActive(b, s)
                               \/ AuthenticationFails(b)
    BY <1>3, <1>5 DEF InspectActive, AuthenticationFails
<1>6. CASE \E b \in Callbacks : CompletionRefused(b)
    BY <1>2, <1>6 DEF CompletionRefused
<1>7. CASE Prune
    BY <1>2, <1>7 DEF Prune
<1>8. CASE Restart \/ UNCHANGED vars
    BY <1>3, <1>8 DEF Restart, vars
<1>9. CASE Tick
    BY <1>1, <1>9 DEF Tick, Kept
<1> QED BY <1>4, <1>5, <1>6, <1>7, <1>8, <1>9 DEF Next

-----------------------------------------------------------------------------

\* The inductive invariant of the handoff.
THEOREM Invariance == Spec => []SsoInv
<1>1. SsoInv /\ [Next]_vars => SsoInv'
    <2> SUFFICES ASSUME SsoInv, [Next]_vars PROVE SsoInv'
        OBVIOUS
    <2>1. TypeOK'
        BY TypeStep DEF SsoInv
    <2>2. CASE \E source \in Sources, s \in HandoffStates : StoreHandoff(source, s)
        BY <2>1, <2>2, StoreStep
    <2>3. CASE \E b \in Callbacks : Complete(b)
        BY <2>1, <2>3, CompleteStep
    <2>4. CASE /\ ~ \E source \in Sources, s \in HandoffStates : StoreHandoff(source, s)
               /\ ~ \E b \in Callbacks : Complete(b)
        BY <2>1, <2>4, QuietStep, KeptStep
    <2> QED BY <2>2, <2>3, <2>4
<1> QED BY InitInv, <1>1, PTL DEF Spec

\* However many handoff states, callbacks and prunes, the store and every
\* request in flight keep their shape.
THEOREM TypeCorrect == Spec => []TypeOK
BY Invariance, PTL DEF SsoInv

\* However many callbacks for one handoff state wait for ResourceSpace at
\* once, complete_sso_authorization mints at most one code for it.
THEOREM AtMostOneCode == Spec => []OneCodePerHandoff
<1>1. SsoInv => OneCodePerHandoff
    BY DEF SsoInv, MintedInv, OneCodePerHandoff
<1> QED BY Invariance, <1>1, PTL

\* A callback that ResourceSpace held up past the deadline mints nothing.
THEOREM NoCodeIsLate == Spec => []NoLateCode
<1>1. SsoInv => NoLateCode
    BY DEF SsoInv, MintedInv
<1> QED BY Invariance, <1>1, PTL

\* The caps of begin_sso_authorization hold for any caps and any number of
\* sources, although a start reads the clock before it takes the lock.
THEOREM CapsHold == Spec => []CapsRespected
<1>1. SsoInv => CapsRespected
    BY DEF SsoInv
<1> QED BY Invariance, <1>1, PTL

\* Until its purgeAt, a completed handoff state is reported as replayed and a
\* lapsed one as expired, whatever was pruned meanwhile.
THEOREM TombstonesAreTrue == Spec => []TombstonesTellTheTruth
<1>1. SsoInv => TombstonesTellTheTruth
    <2> SUFFICES ASSUME SsoInv, NEW s \in DOMAIN issued
                 PROVE  LET answer == Classify(pendingSsoStates, s)
                            truth  == IF usedAt[s] # NoTime THEN "replayed"
                                      ELSE IF now > issued[s].expiresAt THEN "expired"
                                      ELSE "active"
                        IN  IF now < issued[s].purgeAt THEN answer = truth
                            ELSE answer \in {truth, "invalid"}
        BY DEF TombstonesTellTheTruth
    <2>1. CASE s \in DOMAIN pendingSsoStates
        BY <2>1 DEF Classify, SsoInv, StoreInv
    <2>2. CASE s \notin DOMAIN pendingSsoStates
        BY <2>2 DEF Classify, SsoInv, StoreInv
    <2> QED BY <2>1, <2>2
<1> QED BY Invariance, <1>1, PTL
=============================================================================
