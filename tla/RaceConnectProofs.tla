-------------------------- MODULE RaceConnectProofs --------------------------
(***************************************************************************)
(* Proofs about RaceConnect, for any number of addresses and any limit:    *)
(* whatever the order in which attempts end and are judged and wherever    *)
(* the deadline or a cancellation falls, no stream leaks, the right        *)
(* response wins, and what is returned is whole.                           *)
(***************************************************************************)
EXTENDS RaceConnect, WellFoundedInduction, TLAPS

Responded == {i \in Attempts : attempt[i] \in {"accepted", "rejected"}}

\* While the race goes on nothing was judged but transport failures, and no task
\* was cancelled.
RacingInv ==
    phase = "racing" =>
        /\ winner = NoOne /\ ~unexpected /\ ~expired /\ ~cancelled
        /\ \A i \in Attempts : attempt[i] \notin {"cancelling", "cancelled"}
        /\ \A i \in Attempts \ pending : attempt[i] = "failed"

\* Until tasks are gathered every response stream is open; afterwards none
\* opens any more, and only losers' are closed.
StreamsInv ==
    /\ phase \in {"racing", "gathering", "interrupted"} => open = Responded
    /\ phase \notin {"racing", "gathering", "interrupted"} => AllEnded
    /\ phase = "closing" /\ winner # NoOne => winner \in open
    /\ phase \in {"headers", "body", "ending"} => winner # NoOne /\ open = {winner}
    /\ phase = "leaving" /\ ~cancelled => open = {}
    /\ phase = "over" => open = {}

\* The verdict is what was judged, and the outcome follows from it.
VerdictInv ==
    /\ winner = IF Judged("accepted") = {} THEN NoOne ELSE Lowest(Judged("accepted"))
    /\ unexpected <=> Judged("unexpected") # {}
    /\ phase \in {"racing", "gathering", "interrupted", "closing", "headers", "body"} =>
           outcome = "none yet"
    /\ phase = "interrupted" => cancelled
    /\ phase = "ending" => outcome # "error"
    /\ phase \in {"leaving", "over"} /\ outcome # "cancelled" =>
           (outcome = "error" <=> unexpected /\ winner = NoOne)

\* Nothing arrives before the body is read, and what arrives is kept.
BodyInv ==
    /\ phase \in {"racing", "gathering", "interrupted", "closing", "headers"} =>
           received = 0
    /\ phase = "body" => kept = received

RaceInv ==
    /\ TypeOK /\ RacingInv /\ StreamsInv /\ VerdictInv /\ FailuresFallBack
    /\ BodyInv /\ WholeBody

-----------------------------------------------------------------------------

\* The limits are numbers.
LEMMA BoundFacts == MaxBytes \in Nat /\ MaxSize \in Nat /\ 0 <= MaxBytes /\ 0 <= MaxSize
BY RaceAssumption

\* Every set of attempts has a lowest one.
LEMMA LowestFacts ==
    ASSUME NEW S, S \subseteq Attempts, S # {}
    PROVE  Lowest(S) \in S /\ \A j \in S : Lowest(S) <= j
<1>1. S \subseteq Nat
    BY RaceAssumption DEF Attempts
<1>2. PICK i \in S : \A j \in S : ~ (<<j, i>> \in OpToRel(<, Nat))
    BY <1>1, WFMin, NatLessThanWellFounded
<1>3. \A j \in S : i <= j
    <2> SUFFICES ASSUME NEW j \in S PROVE i <= j
        OBVIOUS
    <2>1. ~ (j < i)
        BY <1>1, <1>2 DEF OpToRel
    <2> QED BY <1>1, <2>1
<1> QED BY <1>3 DEF Lowest

\* What has been judged is not judged again: later steps change neither the ends
\* of attempts that ended nor, outside of a race, what is pending.
LEMMA JudgedKept ==
    ASSUME pending' = pending,
           \A i \in Attempts \ pending : attempt'[i] = attempt[i]
    PROVE  \A r : Judged(r)' = Judged(r)
BY DEF Judged

\* So choosing the lowest of some attempts is not choosing none.
LEMMA NoOneIsNoAttempt ==
    ASSUME NEW S, S \subseteq Attempts, S # {}
    PROVE  Lowest(S) # NoOne
BY LowestFacts, RaceAssumption

\* The winner is an attempt that was judged acceptable.
LEMMA WinnerFacts ==
    ASSUME VerdictInv, winner # NoOne
    PROVE  winner \in Attempts \ pending /\ attempt[winner] = "accepted"
BY LowestFacts DEF VerdictInv, Judged

\* The race begins with nothing judged, open or read.
LEMMA InitInv == Init => RaceInv
<1> SUFFICES ASSUME Init PROVE RaceInv
    OBVIOUS
<1>1. TypeOK
    <2>1. size \in 0 .. MaxSize /\ received \in 0 .. size /\ kept \in 0 .. received
        <3>1. size = 0 /\ received = 0 /\ kept = 0
            BY DEF Init
        <3> QED BY <3>1, BoundFacts
    <2> QED BY <2>1 DEF Init, TypeOK, Ends
<1>2. \A r : Judged(r) = {}
    BY DEF Init, Judged
<1>3. Responded = {}
    BY DEF Init, Responded
<1>4. RacingInv /\ StreamsInv
    BY <1>3 DEF Init, RacingInv, StreamsInv
<1>5. VerdictInv /\ FailuresFallBack
    BY <1>2 DEF Init, VerdictInv, FailuresFallBack
<1>6. BodyInv /\ WholeBody
    BY BoundFacts DEF Init, BodyInv, WholeBody
<1> QED BY <1>1, <1>4, <1>5, <1>6 DEF RaceInv

AttemptMoves(i) == Start(i) \/ Respond(i) \/ Break(i) \/ Unwind(i)

\* Steps of the attempts: none touches what has been judged.
LEMMA AttemptStep ==
    ASSUME RaceInv, NEW i \in Attempts, AttemptMoves(i)
    PROVE  RaceInv'
<1> USE DEF RaceInv
<1>0. TypeOK
    OBVIOUS
<1>1. /\ UNCHANGED <<pending, winner, unexpected, reading, phase, outcome, expired, cancelled>>
      /\ attempt[i] \in {"queued", "connecting", "cancelling"}
    BY DEF AttemptMoves, Start, Respond, Break, Unwind
<1> DEFINE r == attempt'[i]
<1>2. /\ r \in Ends \cup {"connecting"}
      /\ open' = IF r \in {"accepted", "rejected"} THEN open \cup {i} ELSE open
      /\ r = "cancelled" => attempt[i] = "cancelling"
    <2>1. CASE Start(i)
        BY <1>0, <2>1 DEF Start, TypeOK
    <2>2. CASE Respond(i)
        BY <1>0, <2>2 DEF Respond, TypeOK, Ends
    <2>3. CASE Break(i)
        BY <1>0, <2>3 DEF Break, TypeOK, Ends
    <2>4. CASE Unwind(i)
        BY <1>0, <2>4 DEF Unwind, TypeOK, Ends
    <2> QED BY <2>1, <2>2, <2>3, <2>4 DEF AttemptMoves
<1>3. /\ attempt' \in [Attempts -> Ends \cup {"queued", "connecting", "cancelling"}]
      /\ \A j \in Attempts \ {i} : attempt'[j] = attempt[j]
    <2>1. CASE Start(i)
        BY <1>0, <2>1 DEF Start, TypeOK
    <2>2. CASE Respond(i)
        BY <1>0, <2>2 DEF Respond, TypeOK, Ends
    <2>3. CASE Break(i)
        BY <1>0, <2>3 DEF Break, TypeOK, Ends
    <2>4. CASE Unwind(i)
        BY <1>0, <2>4 DEF Unwind, TypeOK, Ends
    <2> QED BY <2>1, <2>2, <2>3, <2>4 DEF AttemptMoves
<1> HIDE DEF r
<1>4. ~ Ended(i) /\ i \in pending /\ i \notin open
    <2>1. ~ Ended(i)
        BY <1>1 DEF Ended, Ends
    <2>2. i \in pending
        BY <1>0, <2>1 DEF TypeOK
    <2>3. i \notin open
        BY <1>0, <1>1 DEF TypeOK
    <2> QED BY <2>1, <2>2, <2>3
<1>5. TypeOK'
    <2>1. open' \subseteq {j \in Attempts : attempt'[j] \in {"accepted", "rejected"}}
        BY <1>0, <1>2, <1>3, <1>4 DEF TypeOK, r
    <2>2. pending' \subseteq Attempts /\ \A j \in Attempts \ pending' : Ended(j)'
        BY <1>0, <1>1, <1>3, <1>4 DEF TypeOK, Ended
    <2>3. /\ size' = size /\ received' = received /\ kept' = kept /\ winner' = winner
          /\ unexpected' = unexpected /\ phase' = phase /\ outcome' = outcome
          /\ expired' = expired /\ cancelled' = cancelled
        BY <1>1 DEF reading
    <2> QED BY <1>0, <1>3, <2>1, <2>2, <2>3 DEF TypeOK
<1>6. \A v : Judged(v)' = Judged(v)
    BY <1>1, <1>3, <1>4, JudgedKept
<1>7. RacingInv'
    <2> SUFFICES ASSUME phase = "racing" PROVE RacingInv'
        BY <1>1 DEF RacingInv
    <2>1. r # "cancelled"
        BY <1>2 DEF RacingInv
    <2>2. r \notin {"cancelling", "cancelled"}
        BY <1>2, <2>1 DEF Ends
    <2> QED BY <1>1, <1>3, <1>4, <2>2 DEF RacingInv, r
<1>8. StreamsInv'
    <2>1. Responded' = IF r \in {"accepted", "rejected"} THEN Responded \cup {i} ELSE Responded
        BY <1>1, <1>3 DEF Responded, r
    <2>2. ~ AllEnded
        BY <1>4 DEF AllEnded
    <2> QED BY <1>1, <1>2, <2>1, <2>2 DEF StreamsInv
<1>9. VerdictInv' /\ FailuresFallBack' /\ BodyInv' /\ WholeBody'
    BY <1>1, <1>6 DEF VerdictInv, FailuresFallBack, BodyInv, WholeBody, reading
<1> QED BY <1>5, <1>7, <1>8, <1>9

\* The finally block of the race: what has ended has ended, the rest will.
LEMMA CancelRestFacts ==
    ASSUME TypeOK, CancelRest
    PROVE  /\ attempt' \in [Attempts -> Ends \cup {"cancelling"}]
           /\ \A i \in Attempts : Ended(i) => attempt'[i] = attempt[i]
           /\ Responded' = Responded
BY DEF TypeOK, CancelRest, Ended, Ends, Responded

\* What ended but was not judged when the deadline or a cancellation comes stays open
\* until it is closed as a loser.
LEMMA DeadlineStep ==
    ASSUME RaceInv, Deadline \/ CancelRace
    PROVE  RaceInv'
<1> USE DEF RaceInv
<1>1. /\ phase = "racing" /\ phase' = "gathering" /\ CancelRest
      /\ UNCHANGED <<open, pending, winner, unexpected, reading, outcome>>
      /\ expired' \in BOOLEAN /\ cancelled' \in BOOLEAN /\ (expired' \/ cancelled')
    BY DEF Deadline, CancelRace, TypeOK
<1>2. TypeOK'
    BY <1>1, CancelRestFacts DEF TypeOK, reading, Ended, Ends
<1>3. \A r : Judged(r)' = Judged(r)
    BY <1>1, CancelRestFacts, JudgedKept DEF TypeOK
<1>4. RacingInv' /\ StreamsInv' /\ FailuresFallBack' /\ BodyInv' /\ WholeBody'
    BY <1>1, CancelRestFacts DEF RacingInv, StreamsInv, FailuresFallBack, BodyInv, WholeBody,
       reading
<1>5. VerdictInv'
    BY <1>1, <1>3 DEF VerdictInv
<1> QED BY <1>2, <1>4, <1>5

\* A batch of transport failures adds nothing to the verdict.
LEMMA FailuresStep ==
    ASSUME RaceInv, JudgeFailures
    PROVE  RaceInv'
<1> USE DEF RaceInv
<1>1. /\ phase = "racing" /\ pending' = pending \ Batch
      /\ UNCHANGED <<attempt, open, winner, unexpected, reading, phase, outcome, expired, cancelled>>
      /\ \A i \in Batch : attempt[i] = "failed"
    BY DEF JudgeFailures, Decided, InBatch
<1>2. TypeOK'
    BY <1>1 DEF TypeOK, Batch, reading, Ended
<1>3. \A r \in {"accepted", "unexpected"} : Judged(r)' = Judged(r)
    BY <1>1 DEF Judged, Batch, RacingInv
<1>4. RacingInv' /\ StreamsInv' /\ FailuresFallBack' /\ BodyInv' /\ WholeBody'
    BY <1>1 DEF RacingInv, StreamsInv, FailuresFallBack, BodyInv, WholeBody, reading,
       Responded, AllEnded, Ended
<1>5. VerdictInv'
    BY <1>1, <1>3 DEF VerdictInv
<1> QED BY <1>2, <1>4, <1>5

\* The batch that ends the race: before it nothing but failures was judged, so
\* the verdict on all that was judged is the verdict on this batch.
LEMMA BatchStep ==
    ASSUME RaceInv, JudgeBatch
    PROVE  RaceInv'
<1> USE DEF RaceInv
<1>1. /\ phase = "racing" /\ phase' = "gathering" /\ CancelRest /\ Batch # {} /\ Decided
      /\ pending' = pending \ Batch /\ winner' = Chosen
      /\ unexpected' = (InBatch("unexpected") # {})
      /\ UNCHANGED <<open, reading, outcome, expired, cancelled>>
    BY DEF JudgeBatch
<1>2. Batch \subseteq Attempts /\ \A i \in Batch : Ended(i) /\ attempt'[i] = attempt[i]
    BY <1>1, CancelRestFacts DEF Batch, TypeOK
<1>3. \A r \in {"accepted", "rejected", "unexpected"} : Judged(r)' = InBatch(r)
    <2>1. \A i \in Attempts \ pending : attempt[i] = "failed" /\ attempt'[i] = attempt[i]
        BY <1>1, CancelRestFacts DEF RacingInv, TypeOK
    <2>2. Attempts \ pending' = (Attempts \ pending) \cup Batch
        BY <1>1, <1>2
    <2> QED BY <1>2, <2>1, <2>2 DEF Judged, InBatch
<1>4. winner' \in Attempts \cup {NoOne}
    <2>1. InBatch("accepted") \subseteq Attempts
        BY <1>2 DEF InBatch
    <2> QED BY <1>1, <2>1, LowestFacts DEF Chosen
<1>5. TypeOK'
    BY <1>1, <1>2, <1>4, CancelRestFacts DEF TypeOK, reading, Ended, Ends
<1>6. VerdictInv'
    BY <1>1, <1>3 DEF VerdictInv, Chosen
<1>7. FailuresFallBack'
    <2> SUFFICES ASSUME winner' = NoOne, pending' # {}
                 PROVE  Judged("rejected")' # {} \/ Judged("unexpected")' # {}
        BY DEF FailuresFallBack
    <2>1. InBatch("accepted") = {}
        BY <1>1, <1>2, NoOneIsNoAttempt DEF Chosen, InBatch
    <2>2. Batch # pending
        BY <1>1
    <2>3. PICK i \in Batch : attempt[i] # "failed"
        BY <1>1, <2>2 DEF Decided, InBatch
    <2>4. attempt[i] \in {"rejected", "unexpected"}
        BY <1>1, <1>2, <2>1, <2>3 DEF InBatch, Ended, Ends, RacingInv
    <2>5. i \in InBatch("rejected") \/ i \in InBatch("unexpected")
        BY <2>4 DEF InBatch
    <2> QED BY <1>3, <2>5
<1>8. RacingInv' /\ StreamsInv' /\ BodyInv' /\ WholeBody'
    BY <1>1, CancelRestFacts DEF RacingInv, StreamsInv, BodyInv, WholeBody, reading
<1> QED BY <1>5, <1>6, <1>7, <1>8

\* After the race the verdict stands: a step that judges nothing and moves no
\* attempt has only to keep the streams, the outcome and the body in order.
LEMMA VerdictStands ==
    ASSUME RaceInv, phase # "racing", phase' # "racing",
           UNCHANGED <<attempt, pending, winner, unexpected, expired>>,
           cancelled => cancelled',
           open' \subseteq open,
           size' \in 0 .. MaxSize, received' \in 0 .. size', kept' \in 0 .. received',
           phase' \in {"gathering", "interrupted", "closing", "headers", "body", "ending",
                       "leaving", "over"},
           outcome' \in {"none yet", "body", "nothing", "error", "cancelled"},
           cancelled' \in BOOLEAN
    PROVE  /\ TypeOK' /\ RacingInv' /\ FailuresFallBack'
           /\ \A r : Judged(r)' = Judged(r)
           /\ Responded' = Responded /\ AllEnded' = AllEnded
<1> USE DEF RaceInv
<1>1. \A r : Judged(r)' = Judged(r)
    BY JudgedKept
<1>2. TypeOK'
    BY DEF TypeOK, Ended
<1>3. RacingInv' /\ FailuresFallBack'
    BY <1>1 DEF RacingInv, FailuresFallBack
<1> QED BY <1>1, <1>2, <1>3 DEF Responded, AllEnded, Ended

Closing ==
    \/ Gather \/ CloseLoser \/ ReturnWinner \/ EndWithoutWinner
    \/ CancelGather \/ LeaveInterrupted

\* Tasks are gathered and losers closed, or the request is cancelled meanwhile.
LEMMA ClosingStep ==
    ASSUME RaceInv, Closing
    PROVE  RaceInv'
<1> USE DEF RaceInv, Closing, Gather, CloseLoser, ReturnWinner, EndWithoutWinner,
            CancelGather, LeaveInterrupted
<1>1. /\ UNCHANGED <<attempt, pending, winner, unexpected, expired, reading>>
      /\ phase \in {"gathering", "interrupted", "closing"}
      /\ phase' \in {"interrupted", "closing", "headers", "leaving"}
      /\ cancelled => cancelled'
      /\ open' \subseteq open
      /\ outcome' \in {"none yet", "body", "nothing", "error", "cancelled"}
      /\ cancelled' \in BOOLEAN
    BY DEF race, TypeOK
<1>2. /\ TypeOK' /\ RacingInv' /\ FailuresFallBack'
      /\ \A r : Judged(r)' = Judged(r)
      /\ Responded' = Responded /\ AllEnded' = AllEnded
    BY <1>1, VerdictStands DEF reading, TypeOK
<1>3. StreamsInv'
    <2>1. winner # NoOne => winner \in Responded
        BY WinnerFacts DEF Responded
    <2>2. NoOne \notin open
        BY RaceAssumption DEF TypeOK
    <2>3. CASE Gather
        BY <1>2, <2>1, <2>3 DEF StreamsInv, race
    <2>4. CASE CloseLoser
        <3>1. Lowest(Losers) # winner
            BY <2>4, LowestFacts DEF Losers, TypeOK
        <3> QED BY <1>2, <2>4, <3>1 DEF StreamsInv
    <2>5. CASE ReturnWinner
        BY <1>2, <2>5 DEF StreamsInv, Losers, race
    <2>6. CASE EndWithoutWinner
        BY <1>2, <2>2, <2>6 DEF StreamsInv, Losers, race
    <2>7. CASE CancelGather
        BY <1>2, <2>7 DEF StreamsInv, race
    <2>8. CASE LeaveInterrupted
        BY <1>2, <2>8 DEF StreamsInv, VerdictInv, race
    <2> QED BY <2>3, <2>4, <2>5, <2>6, <2>7, <2>8
<1>4. VerdictInv'
    BY <1>1, <1>2 DEF VerdictInv
<1>5. BodyInv'
    BY <1>1 DEF BodyInv, reading
<1>6. WholeBody'
    BY <1>1 DEF WholeBody, reading, VerdictInv
<1> QED BY <1>2, <1>3, <1>4, <1>5, <1>6

Reading ==
    RefuseLength \/ AcceptLength \/ ReadChunk \/ ReadTooMuch \/ ReadEnd \/ ReadFails
        \/ CancelReading

\* The body is read: of the streams only the winner's is open.
LEMMA ReadingStep ==
    ASSUME RaceInv, Reading
    PROVE  RaceInv'
<1> USE DEF RaceInv, Reading, RefuseLength, AcceptLength, ReadChunk, ReadTooMuch, ReadEnd,
            ReadFails, CancelReading
<1>1. /\ UNCHANGED <<attempt, pending, winner, unexpected, expired, open>>
      /\ phase \in {"headers", "body"} /\ phase' \in {"body", "ending"}
      /\ cancelled => cancelled'
      /\ outcome' \in {"none yet", "body", "nothing", "cancelled"}
      /\ cancelled' \in BOOLEAN
    BY DEF race, TypeOK, VerdictInv
<1>2. size' \in 0 .. MaxSize /\ received' \in 0 .. size' /\ kept' \in 0 .. received'
    <2>1. CASE AcceptLength
        <3>1. size' \in 0 .. MaxSize /\ received' = 0 /\ kept' = kept /\ kept \in 0 .. 0
            BY <2>1 DEF TypeOK, BodyInv
        <3> QED BY <3>1, BoundFacts
    <2>2. CASE ReadChunk \/ ReadTooMuch
        <3>1. /\ received' \in received + 1 .. size /\ size' = size /\ kept' \in {kept, received'}
              /\ size \in 0 .. MaxSize /\ received \in 0 .. size /\ kept \in 0 .. received
            BY <2>2 DEF TypeOK
        <3> QED BY <3>1, BoundFacts
    <2>3. CASE reading' = reading
        BY <2>3 DEF TypeOK, reading
    <2> QED BY <2>1, <2>2, <2>3
<1>3. /\ TypeOK' /\ RacingInv' /\ FailuresFallBack'
      /\ \A r : Judged(r)' = Judged(r)
      /\ Responded' = Responded /\ AllEnded' = AllEnded
    BY <1>1, <1>2, VerdictStands
<1>4. StreamsInv'
    BY <1>1, <1>3 DEF StreamsInv
<1>5. VerdictInv'
    <2>1. phase' = "body" => outcome' = "none yet"
        BY DEF VerdictInv
    <2> QED BY <1>1, <1>3, <2>1 DEF VerdictInv
<1>6. BodyInv'
    <2>1. CASE AcceptLength
        <3>1. received = 0 /\ kept \in 0 .. received /\ UNCHANGED <<received, kept>>
            BY <2>1 DEF BodyInv, TypeOK
        <3>2. kept = received
            BY <3>1
        <3> QED BY <2>1, <3>1, <3>2 DEF BodyInv
    <2>2. CASE ~AcceptLength
        BY <2>2 DEF BodyInv
    <2> QED BY <2>1, <2>2
<1>7. WholeBody'
    <2>1. winner # NoOne
        BY <1>1 DEF StreamsInv
    <2>2. CASE AcceptLength
        BY <2>2 DEF WholeBody, VerdictInv
    <2>3. CASE ReadChunk \/ ReadTooMuch
        BY <2>3, <1>2, BoundFacts DEF WholeBody, VerdictInv, TypeOK
    <2>4. CASE ReadEnd
        BY <2>1, <2>4 DEF WholeBody, BodyInv, reading, race
    <2>5. CASE reading' = reading /\ outcome' # "body"
        BY <2>5 DEF WholeBody, reading
    <2> QED BY <2>2, <2>3, <2>4, <2>5
<1> QED BY <1>3, <1>4, <1>5, <1>6, <1>7

Leaving == CloseWinner \/ CloseClient \/ CancelClosing

\* What is still open is closed, or left to the client by a cancellation.
LEMMA LeavingStep ==
    ASSUME RaceInv, Leaving
    PROVE  RaceInv'
<1> USE DEF RaceInv, Leaving, CloseWinner, CloseClient, CancelClosing
<1>1. /\ UNCHANGED <<attempt, pending, winner, unexpected, expired, reading>>
      /\ phase \in {"closing", "ending", "leaving"} /\ phase' \in {"leaving", "over"}
      /\ cancelled => cancelled'
      /\ open' \subseteq open
      /\ outcome' \in {outcome, "cancelled"}
      /\ cancelled' \in BOOLEAN
    BY DEF race, TypeOK
<1>2. /\ TypeOK' /\ RacingInv' /\ FailuresFallBack'
      /\ \A r : Judged(r)' = Judged(r)
      /\ Responded' = Responded /\ AllEnded' = AllEnded
    BY <1>1, VerdictStands DEF reading, TypeOK
<1>3. StreamsInv'
    BY <1>1, <1>2 DEF StreamsInv
<1>4. VerdictInv'
    <2>1. CASE CloseWinner
        BY <1>1, <1>2, <2>1 DEF VerdictInv, StreamsInv
    <2>2. CASE CloseClient
        BY <1>1, <1>2, <2>2 DEF VerdictInv
    <2>3. CASE CancelClosing
        BY <1>1, <1>2, <2>3 DEF VerdictInv
    <2> QED BY <2>1, <2>2, <2>3
<1>5. BodyInv' /\ WholeBody'
    BY <1>1 DEF BodyInv, WholeBody, reading
<1> QED BY <1>2, <1>3, <1>4, <1>5

-----------------------------------------------------------------------------

\* The inductive invariant of the fetch.
THEOREM Invariance == Spec => []RaceInv
<1>1. RaceInv /\ [Next]_vars => RaceInv'
    <2> SUFFICES ASSUME RaceInv, [Next]_vars PROVE RaceInv'
        OBVIOUS
    <2>1. CASE \E i \in Attempts : AttemptMoves(i)
        BY <2>1, AttemptStep
    <2>2. CASE Deadline \/ CancelRace
        BY <2>2, DeadlineStep
    <2>3. CASE JudgeFailures
        BY <2>3, FailuresStep
    <2>4. CASE JudgeBatch
        BY <2>4, BatchStep
    <2>5. CASE Closing
        BY <2>5, ClosingStep
    <2>6. CASE Reading
        BY <2>6, ReadingStep
    <2>7. CASE Leaving
        BY <2>7, LeavingStep
    <2>8. CASE UNCHANGED vars
        <3>1. /\ UNCHANGED <<attempt, open, phase, pending, winner, unexpected>>
              /\ UNCHANGED <<size, received, kept, outcome, expired, cancelled>>
            BY <2>8 DEF vars, race, reading
        <3>2. \A r : Judged(r)' = Judged(r)
            BY <3>1, JudgedKept
        <3>3. TypeOK' /\ RacingInv'
            BY <3>1 DEF RaceInv, TypeOK, RacingInv, Ended
        <3>4. StreamsInv'
            BY <3>1 DEF RaceInv, StreamsInv, Responded, AllEnded, Ended
        <3>5. VerdictInv' /\ FailuresFallBack'
            BY <3>1, <3>2 DEF RaceInv, VerdictInv, FailuresFallBack
        <3>6. BodyInv' /\ WholeBody'
            BY <3>1 DEF RaceInv, BodyInv, WholeBody
        <3> QED BY <3>3, <3>4, <3>5, <3>6 DEF RaceInv
    <2> QED BY <2>1, <2>2, <2>3, <2>4, <2>5, <2>6, <2>7, <2>8
            DEF Next, Progress, Environment, AttemptMoves, Closing, Reading, Leaving
<1> QED BY InitInv, <1>1, PTL DEF Spec

\* Attempts, streams and what has been read keep their shape.
THEOREM TypeCorrect == Spec => []TypeOK
<1>1. RaceInv => TypeOK
    BY DEF RaceInv
<1> QED BY Invariance, <1>1, PTL

\* Whatever the deadline dropped or a cancellation interrupted, no stream but
\* the winner's is open while its body is read, and none when the fetch is over.
THEOREM NoStreamLeaks == Spec => []LosersClosed
<1>1. RaceInv => LosersClosed
    BY DEF RaceInv, StreamsInv, LosersClosed
<1> QED BY Invariance, <1>1, PTL

\* In any order of ends, batches and interruptions the lowest acceptable
\* response that was judged wins, and an unexpected error surfaces exactly
\* when there is none.
THEOREM VerdictsAreJust == Spec => []VerdictIsJust
<1>1. RaceInv => VerdictIsJust
    <2> SUFFICES ASSUME RaceInv, phase = "over", outcome # "cancelled"
                 PROVE  outcome = "error" <=> Judged("unexpected") # {} /\ Judged("accepted") = {}
        BY DEF RaceInv, VerdictInv, VerdictIsJust
    <2>1. winner = NoOne <=> Judged("accepted") = {}
        BY NoOneIsNoAttempt DEF RaceInv, VerdictInv, Judged
    <2> QED BY <2>1 DEF RaceInv, VerdictInv
<1> QED BY Invariance, <1>1, PTL

\* However many addresses fail to connect, the race goes on to the others.
THEOREM RaceFallsBack == Spec => []FailuresFallBack
<1>1. RaceInv => FailuresFallBack
    BY DEF RaceInv
<1> QED BY Invariance, <1>1, PTL

\* For any limit, chunks and announced length: a body is returned whole and
\* within the limit, and memory never holds more.
THEOREM BodiesAreWhole == Spec => []WholeBody
<1>1. RaceInv => WholeBody
    BY DEF RaceInv
<1> QED BY Invariance, <1>1, PTL
=============================================================================
