----------------------------- MODULE JsonStore -----------------------------
(***************************************************************************)
(* JsonStore: a JSON file rewritten whole by every update, through a       *)
(* temporary file and os.replace, under one in-process lock.  Threads are  *)
(* the event loop, the prune thread and the threadpool.  The process may   *)
(* be killed between any two file operations, every file operation may     *)
(* fail, and a file being written is torn until the write ends.            *)
(*                                                                         *)
(* The contents of the store are the sequence of the updates applied to    *)
(* it: an update that works on stale contents loses what came before.      *)
(***************************************************************************)
EXTENDS Naturals, Sequences, SequencesExt

CONSTANTS
    Threads,
    Updates,                  \* the transactions, each submitted once
    RequireSecurePermissions  \* outside development and test

NoThread == "nobody"

ASSUME ThreadAssumption == NoThread \notin Threads

Absent   == [kind |-> "absent", log |-> <<>>]
Torn     == [kind |-> "torn", log |-> <<>>]
Json(s)  == [kind |-> "json", log |-> s]

VARIABLES
    file,      \* the store file
    tmp,       \* the .tmp file beside it
    process,   \* "down", "creating", "restricting" (its start), "up"
    lock,      \* the thread that holds the lock
    pc,        \* per thread: "idle", "load", "write", "writing", "replace", "return"
    state,     \* per thread: the state its transaction works on
    update,    \* per thread: the update it runs
    submitted, \* the updates submitted so far
    acked,     \* history: the updates whose caller got a result
    seen       \* history: what the last read returned

vars == <<file, tmp, process, lock, pc, state, update, submitted, acked, seen>>

Steps == {"idle", "load", "write", "writing", "replace", "return"}
Files == {Absent, Torn} \cup [kind : {"json"}, log : Seq(Updates)]

\* The variables have their shape, a dead process holds no lock, and only the
\* holder of the lock is inside a transaction.
TypeOK ==
    /\ file \in Files /\ tmp \in Files
    /\ process \in {"down", "creating", "restricting", "up"}
    /\ lock \in Threads \cup {NoThread}
    /\ process # "up" => lock = NoThread
    /\ pc \in [Threads -> Steps]
    /\ \A t \in Threads : pc[t] # "idle" => lock = t
    /\ state \in [Threads -> Seq(Updates)]
    /\ update \in [Threads -> Updates]
    /\ submitted \subseteq Updates /\ acked \subseteq submitted
    /\ seen \in Seq(Updates)

\* json.loads of the file, where it parses: otherwise read() falls back to
\* the initial state, and update() raises.
Contents(f) == f.log

Init ==
    /\ file = Absent /\ tmp = Absent /\ process = "down" /\ lock = NoThread
    /\ pc = [t \in Threads |-> "idle"] /\ state = [t \in Threads |-> <<>>]
    /\ update \in [Threads -> Updates]
    /\ submitted = {} /\ acked = {} /\ seen = <<>>

inMemory == <<lock, pc, state, update, submitted>>
history  == <<acked, seen>>

-----------------------------------------------------------------------------
(* Process start: _ensure_file creates the store file with a plain write   *)
(* and restricts its permissions.                                          *)

StartCreates ==
    /\ process = "down" /\ file = Absent
    /\ file' = Torn /\ process' = "creating"
    /\ UNCHANGED <<tmp, inMemory, history>>

InitialStateWritten ==
    /\ process = "creating"
    /\ file' = Json(<<>>) /\ process' = "restricting"
    /\ UNCHANGED <<tmp, inMemory, history>>

StartFindsFile ==
    /\ process = "down" /\ file # Absent
    /\ process' = "restricting"
    /\ UNCHANGED <<file, tmp, inMemory, history>>

Started ==
    /\ process = "restricting" /\ process' = "up"
    /\ UNCHANGED <<file, tmp, inMemory, history>>

RefusesToStart ==
    /\ process = "restricting" /\ RequireSecurePermissions
    /\ process' = "down"
    /\ UNCHANGED <<file, tmp, inMemory, history>>

KillKeepsLock ==
    /\ process # "down" /\ process' = "down"
    /\ pc' = [t \in Threads |-> "idle"]
    /\ UNCHANGED <<file, tmp, lock, state, update, submitted, history>>

\* The process is killed: memory is lost, files stay as they are.
Kill ==
    /\ process # "down" /\ process' = "down"
    /\ lock' = NoThread /\ pc' = [t \in Threads |-> "idle"]
    /\ UNCHANGED <<file, tmp, state, update, submitted, history>>

-----------------------------------------------------------------------------
(* update(), and update_strict(), which is the same                        *)

AcquireUnguarded(t, u) ==
    /\ process = "up" /\ pc[t] = "idle" /\ u \notin submitted
    /\ lock' = t /\ pc' = [pc EXCEPT ![t] = "load"]
    /\ update' = [update EXCEPT ![t] = u]
    /\ submitted' = submitted \cup {u}
    /\ UNCHANGED <<file, tmp, process, state, history>>

Acquire(t, u) ==
    /\ process = "up" /\ lock = NoThread /\ pc[t] = "idle" /\ u \notin submitted
    /\ lock' = t /\ pc' = [pc EXCEPT ![t] = "load"]
    /\ update' = [update EXCEPT ![t] = u]
    /\ submitted' = submitted \cup {u}
    /\ UNCHANGED <<file, tmp, process, state, history>>

\* The strict load needs a file that parses; the updater then changes the
\* loaded state in memory.
Load(t) ==
    /\ pc[t] = "load" /\ file.kind = "json"
    /\ state' = [state EXCEPT ![t] = Append(Contents(file), update[t])]
    /\ pc' = [pc EXCEPT ![t] = "write"]
    /\ UNCHANGED <<file, tmp, process, lock, update, submitted, history>>

SaveInPlace(t) ==
    /\ pc[t] = "write"
    /\ file' = Torn /\ pc' = [pc EXCEPT ![t] = "writing"]
    /\ UNCHANGED <<tmp, process, lock, state, update, submitted, history>>

SaveBegins(t) ==
    /\ pc[t] = "write"
    /\ tmp' = Torn /\ pc' = [pc EXCEPT ![t] = "writing"]
    /\ UNCHANGED <<file, process, lock, state, update, submitted, history>>

SaveWritten(t) ==
    /\ pc[t] = "writing"
    /\ tmp' = Json(state[t]) /\ pc' = [pc EXCEPT ![t] = "replace"]
    /\ UNCHANGED <<file, process, lock, state, update, submitted, history>>

Replace(t) ==
    /\ pc[t] = "replace"
    /\ file' = tmp /\ tmp' = Absent
    /\ pc' = [pc EXCEPT ![t] = "return"]
    /\ UNCHANGED <<process, lock, state, update, submitted, history>>

Return(t) ==
    /\ pc[t] = "return"
    /\ lock' = NoThread /\ pc' = [pc EXCEPT ![t] = "idle"]
    /\ acked' = acked \cup {update[t]}
    /\ UNCHANGED <<file, tmp, process, state, update, submitted, seen>>

RaiseKeepsLock(t) ==
    /\ pc[t] \in {"load", "write", "writing", "replace"}
    /\ pc' = [pc EXCEPT ![t] = "idle"]
    /\ UNCHANGED <<file, tmp, process, lock, state, update, submitted, history>>

\* Any step up to os.replace raises: the file does not parse, the updater
\* refuses, the disk is full, permissions cannot be set.  The with statement
\* releases the lock.
Raise(t) ==
    /\ pc[t] \in {"load", "write", "writing", "replace"}
    /\ lock' = NoThread /\ pc' = [pc EXCEPT ![t] = "idle"]
    /\ UNCHANGED <<file, tmp, process, state, update, submitted, history>>

ReadTmp ==
    /\ process = "up" /\ lock = NoThread
    /\ seen' = Contents(IF tmp = Absent THEN file ELSE tmp)
    /\ UNCHANGED <<file, tmp, process, inMemory, acked>>

\* read(): one step, since the lock keeps every writer out meanwhile.
Read ==
    /\ process = "up" /\ lock = NoThread
    /\ seen' = Contents(file)
    /\ UNCHANGED <<file, tmp, process, inMemory, acked>>

Step(t) ==
    \/ Load(t) \/ SaveBegins(t) \/ SaveWritten(t) \/ Replace(t) \/ Return(t)
    \/ Raise(t)

Next ==
    \/ StartCreates \/ InitialStateWritten \/ StartFindsFile \/ Started
    \/ RefusesToStart \/ Kill \/ Read
    \/ \E t \in Threads, u \in Updates : Acquire(t, u)
    \/ \E t \in Threads : Load(t)
    \/ \E t \in Threads : SaveBegins(t)
    \/ \E t \in Threads : SaveWritten(t)
    \/ \E t \in Threads : Replace(t)
    \/ \E t \in Threads : Return(t)
    \/ \E t \in Threads : Raise(t)

Spec == Init /\ [][Next]_vars

\* A thread inside a transaction keeps running: every step is a file
\* operation that ends or raises.
FairSpec == Spec /\ \A t \in Threads : WF_vars(Step(t))

-----------------------------------------------------------------------------
(* Properties.  KillKeepsLock, AcquireUnguarded, SaveInPlace,              *)
(* RaiseKeepsLock and ReadTmp are deliberate mistakes that they are known  *)
(* to catch; nothing uses them.                                            *)

\* An acknowledged update is in the store file at every moment, whatever was
\* killed or failed since, so a torn store file (which blocks every later
\* update) can only be one that never held an acknowledged update.
AcknowledgedIsDurable == acked \subseteq Range(Contents(file))

\* What a reader has been shown is never taken back: no crash, failed write
\* or concurrent update undoes it.
ReadsAreNeverUndone == IsPrefix(seen, Contents(file))

\* The file protocol implements atomic, durable updates.
Atomic == INSTANCE AtomicStore WITH log <- Contents(file)
ImplementsAtomicStore == Atomic!Spec

\* The lock is always released, whichever step fails.
LockReleased == lock # NoThread ~> lock = NoThread
=============================================================================
