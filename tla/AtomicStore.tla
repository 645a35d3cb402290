----------------------------- MODULE AtomicStore -----------------------------
(***************************************************************************)
(* What JsonStore promises its callers: updates take effect one at a time  *)
(* and for good, an update is acknowledged only after it took effect, and  *)
(* what a reader has seen is never taken back.                             *)
(***************************************************************************)
EXTENDS Naturals, Sequences, SequencesExt

CONSTANT Updates  \* the transactions callers submit, each once

VARIABLES
    log,    \* the updates that took effect, in order
    acked,  \* the updates whose caller got a result
    seen    \* what the last read returned

Init == log = <<>> /\ acked = {} /\ seen = <<>>

Commit(u) ==
    /\ u \notin Range(log) /\ log' = Append(log, u)
    /\ UNCHANGED <<acked, seen>>

Acknowledge(u) ==
    /\ u \in Range(log) /\ acked' = acked \cup {u}
    /\ UNCHANGED <<log, seen>>

Read == seen' = log /\ UNCHANGED <<log, acked>>

Next == (\E u \in Updates : Commit(u) \/ Acknowledge(u)) \/ Read

Spec == Init /\ [][Next]_<<log, acked, seen>>
=============================================================================
