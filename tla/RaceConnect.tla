----------------------------- MODULE RaceConnect -----------------------------
(***************************************************************************)
(* RaceConnect: fetching the bytes of a proxied asset.  The validated      *)
(* addresses of the host are raced (_race_pinned_connection), then the     *)
(* body of the winner is read (_race_pinned_fetch).                        *)
(*                                                                         *)
(* Attempts are tasks of their own; the fetch is woken when one has ended, *)
(* and by then others may have ended too: they are judged as one batch.    *)
(* The deadline may fire between the end of an attempt and that wake-up,   *)
(* and the batch is then never judged.  Time itself is left out: the       *)
(* stagger is the order in which attempts start, a timeout may fire        *)
(* whenever the code is waiting under it.                                  *)
(***************************************************************************)
EXTENDS Naturals

CONSTANTS
    N,         \* how many addresses were pinned
    NoOne,     \* no attempt
    MaxBytes,  \* asset_proxy_max_bytes
    MaxSize    \* bound on the size of a body

Attempts == 0 .. N - 1

ASSUME RaceAssumption ==
    /\ N \in Nat \ {0} /\ MaxBytes \in Nat /\ MaxSize \in Nat
    /\ NoOne \notin Attempts

VARIABLES
    attempt,     \* what has become of each attempt's task
    open,        \* the attempts whose response stream is open
    phase,       \* where the fetch is
    pending,     \* the attempts whose end has not been judged
    winner,
    unexpected,  \* an error that is no transport failure was captured
    size,        \* the length of the body the winner will send
    received,    \* how much of it has arrived
    kept,        \* how much of it is in memory
    outcome,     \* what the fetch returns or raises
    expired,     \* history: the connect deadline fired
    cancelled    \* history: the request itself was cancelled

race == <<attempt, open, pending, winner, unexpected>>
reading == <<size, received, kept>>
vars == <<race, reading, phase, outcome, expired, cancelled>>

Ends == {"accepted", "rejected", "failed", "unexpected", "cancelled"}
Ended(i) == attempt[i] \in Ends
Lowest(S) == CHOOSE i \in S : \A j \in S : i <= j

\* Only an attempt that got a response has an open stream, nothing is judged
\* before it ended, and no more is kept than has arrived.
TypeOK ==
    /\ attempt \in [Attempts -> Ends \cup {"queued", "connecting", "cancelling"}]
    /\ open \subseteq {i \in Attempts : attempt[i] \in {"accepted", "rejected"}}
    /\ pending \subseteq Attempts /\ \A i \in Attempts \ pending : Ended(i)
    /\ winner \in Attempts \cup {NoOne} /\ unexpected \in BOOLEAN
    /\ size \in 0 .. MaxSize /\ received \in 0 .. size /\ kept \in 0 .. received
    /\ phase \in {"racing", "gathering", "interrupted", "closing", "headers",
                  "body", "ending", "leaving", "over"}
    /\ outcome \in {"none yet", "body", "nothing", "error", "cancelled"}
    /\ expired \in BOOLEAN /\ cancelled \in BOOLEAN

Init ==
    /\ attempt = [i \in Attempts |-> "queued"]
    /\ open = {} /\ pending = Attempts /\ winner = NoOne /\ unexpected = FALSE
    /\ phase = "racing" /\ outcome = "none yet"
    /\ size = 0 /\ received = 0 /\ kept = 0
    /\ expired = FALSE /\ cancelled = FALSE

-----------------------------------------------------------------------------
(* The attempts. *)

\* An attempt begins to connect; the stagger keeps them in order.
Start(i) ==
    /\ attempt[i] = "queued" /\ \A j \in 0 .. i - 1 : attempt[j] # "queued"
    /\ attempt' = [attempt EXCEPT ![i] = "connecting"]
    /\ UNCHANGED <<open, pending, winner, unexpected, reading, phase, outcome,
                   expired, cancelled>>

\* Response headers arrive: below 400 they are acceptable.
Respond(i) ==
    /\ attempt[i] = "connecting"
    /\ \E r \in {"accepted", "rejected"} : attempt' = [attempt EXCEPT ![i] = r]
    /\ open' = open \cup {i}
    /\ UNCHANGED <<pending, winner, unexpected, reading, phase, outcome,
                   expired, cancelled>>

\* The attempt raises; its stream was never opened.
Break(i) ==
    /\ attempt[i] = "connecting"
    /\ \E r \in {"failed", "unexpected"} : attempt' = [attempt EXCEPT ![i] = r]
    /\ UNCHANGED <<open, pending, winner, unexpected, reading, phase, outcome,
                   expired, cancelled>>

\* A cancelled attempt unwinds.
Unwind(i) ==
    /\ attempt[i] = "cancelling"
    /\ attempt' = [attempt EXCEPT ![i] = "cancelled"]
    /\ UNCHANGED <<open, pending, winner, unexpected, reading, phase, outcome,
                   expired, cancelled>>

-----------------------------------------------------------------------------
(* The race. *)

BatchOfAll == pending
Batch == {i \in pending : Ended(i)}
InBatch(r) == {i \in Batch : attempt[i] = r}

DecidedAtOnce == TRUE

\* Something other than transport failures came in, or nothing is left.
Decided == InBatch("failed") # Batch \/ Batch = pending

ChosenUnlessRejected ==
    IF InBatch("accepted") = {} \/ InBatch("rejected") # {} THEN NoOne
    ELSE Lowest(InBatch("accepted"))

\* An acceptable response beats a bad one or an error of the same batch.
Chosen ==
    IF InBatch("accepted") = {} THEN NoOne ELSE Lowest(InBatch("accepted"))

CancelNone == attempt' = attempt

\* The finally block: tasks that have not ended are cancelled.
CancelRest ==
    attempt' = [i \in Attempts |-> IF Ended(i) THEN attempt[i] ELSE "cancelling"]

\* A batch of transport failures: the other addresses are tried.
JudgeFailures ==
    /\ phase = "racing" /\ Batch # {} /\ ~Decided
    /\ pending' = pending \ Batch
    /\ UNCHANGED <<attempt, open, winner, unexpected, reading, phase, outcome,
                   expired, cancelled>>

\* The batch that ends the race: its lowest acceptable response wins.
JudgeBatch ==
    /\ phase = "racing" /\ Batch # {} /\ Decided
    /\ pending' = pending \ Batch
    /\ winner' = Chosen
    /\ unexpected' = (InBatch("unexpected") # {})
    /\ CancelRest
    /\ phase' = "gathering"
    /\ UNCHANGED <<open, reading, outcome, expired, cancelled>>

\* The connect deadline; what ended since the last batch is not judged.
Deadline ==
    /\ phase = "racing"
    /\ CancelRest
    /\ phase' = "gathering" /\ expired' = TRUE
    /\ UNCHANGED <<open, pending, winner, unexpected, reading, outcome, cancelled>>

AllEnded == \A i \in Attempts : Ended(i)

\* Every task has ended, cancelled ones included.
Gather ==
    /\ phase = "gathering" /\ AllEnded
    /\ phase' = "closing"
    /\ UNCHANGED <<race, reading, outcome, expired, cancelled>>

LosersJudged == (open \ {winner}) \ pending

\* Whatever is open and did not win, judged or not.
Losers == open \ {winner}

CloseLoser ==
    /\ phase = "closing" /\ Losers # {}
    /\ open' = open \ {Lowest(Losers)}
    /\ UNCHANGED <<attempt, pending, winner, unexpected, reading, phase, outcome,
                   expired, cancelled>>

\* The race returns its winner ...
ReturnWinner ==
    /\ phase = "closing" /\ Losers = {} /\ winner # NoOne
    /\ phase' = "headers"
    /\ UNCHANGED <<race, reading, outcome, expired, cancelled>>

\* ... or ends without one: cancelled, raising what was captured, or None.
EndWithoutWinner ==
    /\ phase = "closing" /\ Losers = {} /\ winner = NoOne
    /\ outcome' = IF cancelled THEN "cancelled"
                  ELSE IF unexpected THEN "error" ELSE "nothing"
    /\ phase' = "leaving"
    /\ UNCHANGED <<race, reading, expired, cancelled>>

-----------------------------------------------------------------------------
(* The body of the winner. *)

\* The content-length says more than is allowed.
RefuseLength ==
    /\ phase = "headers"
    /\ phase' = "ending" /\ outcome' = "nothing"
    /\ UNCHANGED <<race, reading, expired, cancelled>>

\* It is small enough, absent or no number; what follows may be any length.
AcceptLength ==
    /\ phase = "headers"
    /\ size' \in 0 .. MaxSize
    /\ phase' = "body"
    /\ UNCHANGED <<race, received, kept, outcome, expired, cancelled>>

\* A chunk is kept while the total is within the limit.
ReadChunk ==
    /\ phase = "body"
    /\ received' \in received + 1 .. size
    /\ received' <= MaxBytes
    /\ kept' = received'
    /\ UNCHANGED <<race, size, phase, outcome, expired, cancelled>>

\* The chunk that exceeds it ends the fetch without a result.
ReadTooMuch ==
    /\ phase = "body"
    /\ received' \in received + 1 .. size
    /\ received' > MaxBytes
    /\ phase' = "ending" /\ outcome' = "nothing"
    /\ UNCHANGED <<race, size, kept, expired, cancelled>>

ReadEnd ==
    /\ phase = "body" /\ received = size
    /\ phase' = "ending" /\ outcome' = "body"
    /\ UNCHANGED <<race, reading, expired, cancelled>>

ReadFailsShort ==
    /\ phase = "body"
    /\ phase' = "ending" /\ outcome' = "body"
    /\ UNCHANGED <<race, reading, expired, cancelled>>

\* The connection breaks, or is idle for too long.
ReadFails ==
    /\ phase = "body"
    /\ phase' = "ending" /\ outcome' = "nothing"
    /\ UNCHANGED <<race, reading, expired, cancelled>>

CloseWinner ==
    /\ phase = "ending"
    /\ open' = open \ {winner}
    /\ phase' = "leaving"
    /\ UNCHANGED <<attempt, pending, winner, unexpected, reading, outcome,
                   expired, cancelled>>

\* The client context ends and closes every connection it still has.
CloseClient ==
    /\ phase = "leaving"
    /\ open' = {} /\ phase' = "over"
    /\ UNCHANGED <<attempt, pending, winner, unexpected, reading, outcome,
                   expired, cancelled>>

-----------------------------------------------------------------------------
(* The request that wants the asset is cancelled, at whatever it awaits. *)

CancelRace ==
    /\ phase = "racing" /\ ~cancelled
    /\ CancelRest
    /\ phase' = "gathering" /\ cancelled' = TRUE
    /\ UNCHANGED <<open, pending, winner, unexpected, reading, outcome, expired>>

\* The tasks are still gathered, but the loop that closes streams is skipped.
CancelGather ==
    /\ phase = "gathering" /\ ~cancelled
    /\ phase' = "interrupted" /\ cancelled' = TRUE
    /\ UNCHANGED <<race, reading, outcome, expired>>

LeaveInterrupted ==
    /\ phase = "interrupted" /\ AllEnded
    /\ phase' = "leaving" /\ outcome' = "cancelled"
    /\ UNCHANGED <<race, reading, expired, cancelled>>

CancelClosing ==
    /\ phase \in {"closing", "ending"} /\ (phase = "closing" => Losers # {})
    /\ ~cancelled
    /\ phase' = "leaving" /\ outcome' = "cancelled" /\ cancelled' = TRUE
    /\ UNCHANGED <<race, reading, expired>>

CancelReading ==
    /\ phase = "body" /\ ~cancelled
    /\ phase' = "ending" /\ outcome' = "cancelled" /\ cancelled' = TRUE
    /\ UNCHANGED <<race, reading, expired>>

-----------------------------------------------------------------------------

\* What the event loop, the timers and the closing of streams bring about.
Progress ==
    \/ \E i \in Attempts : Start(i) \/ Unwind(i)
    \/ JudgeFailures \/ JudgeBatch \/ Deadline
    \/ Gather \/ CloseLoser \/ ReturnWinner \/ EndWithoutWinner
    \/ RefuseLength \/ AcceptLength \/ ReadChunk \/ ReadTooMuch \/ ReadEnd
    \/ ReadFails \/ CloseWinner \/ CloseClient \/ LeaveInterrupted

\* What the host and the requesting side may or may not do.
Environment ==
    \/ \E i \in Attempts : Respond(i) \/ Break(i)
    \/ CancelRace \/ CancelGather \/ CancelClosing \/ CancelReading

Next == Progress \/ Environment

Spec == Init /\ [][Next]_vars

\* The loop runs ready tasks, the deadline and the idle timeout are timers, and
\* closing a stream ends; nothing is assumed of the host or the request.
FairSpec == Spec /\ WF_vars(Progress)

-----------------------------------------------------------------------------
(* Properties.  BatchOfAll, DecidedAtOnce, CancelNone,                     *)
(* ChosenUnlessRejected, LosersJudged and ReadFailsShort are deliberate    *)
(* mistakes that they are known to catch; nothing uses them.               *)

Judged(r) == {i \in Attempts \ pending : attempt[i] = r}

\* While the body is read the winner's stream is the only one open, and a race
\* without a winner leaves none: also streams of attempts that ended in the
\* batch the deadline dropped, or between the last batch and the cancelling,
\* are closed.  Only a request cancelled in the middle of closing leaves that
\* to the client, which leaves nothing.
LosersClosed ==
    /\ phase \in {"headers", "body"} => open = {winner}
    /\ phase = "leaving" /\ ~cancelled => open = {}
    /\ phase = "over" => open = {}

\* In whatever order attempts end and are judged, an acceptable response that
\* was judged wins, the lowest of them, whatever came in with it; a winner is
\* never cancelled; and an unexpected error that was judged is neither lost nor
\* raised over a response that won: it surfaces exactly when there is none.
VerdictIsJust ==
    /\ winner = IF Judged("accepted") = {} THEN NoOne ELSE Lowest(Judged("accepted"))
    /\ phase = "over" /\ outcome # "cancelled" =>
          (outcome = "error" <=> Judged("unexpected") # {} /\ Judged("accepted") = {})

\* Transport failures never end the race while another address may still
\* answer: without deadline and cancellation, a race that has no winner has
\* seen an error status, an unexpected error, or the failure of every address.
FailuresFallBack ==
    phase # "racing" /\ winner = NoOne /\ ~expired /\ ~cancelled =>
        (Judged("rejected") \cup Judged("unexpected")) # {} \/ pending = {}

\* What is returned is the whole body of the winner within the limit, however
\* it was cut into chunks and whatever its length was announced to be, and
\* memory never holds more than the limit.
WholeBody ==
    /\ kept <= MaxBytes
    /\ outcome = "body" => winner # NoOne /\ kept = size

\* A fetch ends, also when every address is a black hole.
EveryFetchEnds == <>(phase = "over")
=============================================================================
