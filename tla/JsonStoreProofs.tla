--------------------------- MODULE JsonStoreProofs ---------------------------
(***************************************************************************)
(* Proofs about JsonStore, for any threads and updates: the file protocol  *)
(* implements AtomicStore, whatever is killed, fails or is left torn.      *)
(***************************************************************************)
EXTENDS JsonStore, SequenceTheorems, TLAPS

Saving == {"write", "writing", "replace"}

\* The holder of the lock works on the contents of the file plus its own
\* update, because nobody else has written since it loaded them.
HolderInv ==
    \A t \in Threads :
        /\ pc[t] \in Saving => state[t] = Append(Contents(file), update[t])
        /\ pc[t] \in Saving \cup {"load"} =>
              update[t] \in submitted /\ update[t] \notin Range(Contents(file))
        /\ pc[t] = "replace" => tmp = Json(state[t])
        /\ pc[t] = "return" => update[t] \in Range(Contents(file))

\* A file that is still being created holds nothing, and only what was
\* submitted is in the file.
FileInv ==
    /\ process = "creating" => file = Torn
    /\ Range(Contents(file)) \subseteq submitted

StoreInv == TypeOK /\ HolderInv /\ FileInv /\ AcknowledgedIsDurable /\ ReadsAreNeverUndone

-----------------------------------------------------------------------------

\* Appending an update keeps what was there and adds it at the end.
LEMMA AppendFacts ==
    ASSUME NEW S, NEW s \in Seq(S), NEW x \in S
    PROVE  /\ Append(s, x) \in Seq(S)
           /\ Range(Append(s, x)) = Range(s) \cup {x}
           /\ \A r \in Seq(S) : IsPrefix(r, s) => IsPrefix(r, Append(s, x))
<1>1. /\ Append(s, x) \in Seq(S) /\ Len(Append(s, x)) = Len(s) + 1
      /\ \A i \in 1 .. Len(s) : Append(s, x)[i] = s[i]
      /\ Append(s, x)[Len(s) + 1] = x
    BY AppendProperties
<1>2. DOMAIN s = 1 .. Len(s) /\ DOMAIN Append(s, x) = 1 .. (Len(s) + 1) /\ Len(s) \in Nat
    BY <1>1
<1>3. Range(Append(s, x)) = Range(s) \cup {x}
    BY <1>1, <1>2 DEF Range
<1>4. ASSUME NEW r \in Seq(S), IsPrefix(r, s)
      PROVE  IsPrefix(r, Append(s, x))
    <2>1. Len(r) \in Nat /\ Len(r) <= Len(s) /\ SubSeq(r, 1, Len(r)) = SubSeq(s, 1, Len(r))
        BY <1>4 DEF IsPrefix
    <2>2. SubSeq(Append(s, x), 1, Len(r)) = SubSeq(s, 1, Len(r))
        BY <1>1, <1>2, <2>1
    <2> QED BY <1>1, <1>2, <2>1, <2>2 DEF IsPrefix
<1> QED BY <1>1, <1>3, <1>4

\* Whatever kind of file it is, its contents are updates; an absent or torn
\* one has none.
LEMMA ContentsType ==
    ASSUME TypeOK
    PROVE  /\ Contents(file) \in Seq(Updates)
           /\ file \in {Absent, Torn} => Contents(file) = <<>>
           /\ \A s \in Seq(Updates) : Json(s) \in Files
<1>1. ASSUME NEW f \in Files
      PROVE  f.log \in Seq(Updates)
    <2>1. <<>> \in Seq(Updates)
        OBVIOUS
    <2>2. CASE f \in {Absent, Torn}
        <3>1. f.log = <<>>
            BY <2>2 DEF Absent, Torn
        <3> QED BY <2>1, <3>1
    <2>3. CASE f \in [kind : {"json"}, log : Seq(Updates)]
        BY <2>3
    <2> QED BY <2>2, <2>3 DEF Files
<1>2. file \in {Absent, Torn} => Contents(file) = <<>>
    BY DEF Contents, Absent, Torn
<1>3. \A s \in Seq(Updates) : Json(s) \in Files
    BY DEF Json, Files
<1> QED BY <1>1, <1>2, <1>3 DEF TypeOK, Contents

\* The lock: two threads are never in a transaction at once, and none is
\* while the process starts.
LEMMA LockFacts ==
    ASSUME TypeOK
    PROVE  /\ \A t \in Threads : pc[t] # "idle" =>
                  /\ process = "up" /\ lock = t
                  /\ \A other \in Threads \ {t} : pc[other] = "idle"
           /\ lock = NoThread => \A t \in Threads : pc[t] = "idle"
BY ThreadAssumption DEF TypeOK

-----------------------------------------------------------------------------

\* No step takes a variable out of its shape, a dead process out of its lock,
\* or a thread into a transaction without the lock.
LEMMA TypeStep ==
    ASSUME StoreInv, [Next]_vars
    PROVE  TypeOK'
<1> USE ContentsType DEF StoreInv
<1>1. CASE StartCreates \/ StartFindsFile \/ Started \/ RefusesToStart \/ Read
    BY <1>1, LockFacts DEF StartCreates, StartFindsFile, Started, RefusesToStart, Read,
       inMemory, history, TypeOK, Files
<1>2. CASE InitialStateWritten
    <2>1. Json(<<>>) \in Files
        <3>1. <<>> \in Seq(Updates)
            OBVIOUS
        <3> QED BY <3>1 DEF Json, Files
    <2> QED BY <1>2, <2>1 DEF InitialStateWritten, inMemory, history, TypeOK
<1>3. CASE Kill
    BY <1>3 DEF Kill, history, TypeOK, Steps
<1>4. ASSUME NEW t \in Threads, NEW u \in Updates, Acquire(t, u)
      PROVE  TypeOK'
    BY <1>4, LockFacts DEF Acquire, history, TypeOK, Steps
<1>5. ASSUME NEW t \in Threads, Load(t)
      PROVE  TypeOK'
    <2>1. Append(Contents(file), update[t]) \in Seq(Updates)
        BY AppendFacts DEF TypeOK
    <2> QED BY <1>5, <2>1 DEF Load, history, TypeOK, Steps
<1>6. ASSUME NEW t \in Threads, SaveBegins(t) \/ SaveWritten(t) \/ Replace(t)
      PROVE  TypeOK'
    <2>1. Json(state[t]) \in Files
        BY DEF TypeOK
    <2> QED BY <1>6, <2>1 DEF SaveBegins, SaveWritten, Replace, history, TypeOK, Steps, Files
<1>7. ASSUME NEW t \in Threads, Return(t)
      PROVE  TypeOK'
    <2>1. pc[t] = "return" /\ acked' = acked \cup {update[t]} /\ submitted' = submitted
        BY <1>7 DEF Return
    <2>2. acked' \subseteq submitted'
        BY <2>1 DEF TypeOK, HolderInv, FileInv
    <2> QED BY <1>7, <2>2, LockFacts DEF Return, TypeOK, Steps
<1>8. ASSUME NEW t \in Threads, Raise(t)
      PROVE  TypeOK'
    BY <1>8, LockFacts DEF Raise, history, TypeOK, Steps
<1>9. CASE UNCHANGED vars
    BY <1>9 DEF vars, TypeOK, inMemory, history
<1> QED BY <1>1, <1>2, <1>3, <1>4, <1>5, <1>6, <1>7, <1>8, <1>9 DEF Next

\* What the lock is for: the contents change only when os.replace puts the
\* update of the holder at their end; every other step leaves them alone.
LEMMA ContentsStep ==
    ASSUME StoreInv, [Next]_vars
    PROVE  \/ /\ Contents(file)' = Contents(file)
              /\ \A t \in Threads : ~Replace(t)
           \/ \E t \in Threads :
                 /\ Replace(t)
                 /\ Contents(file)' = Append(Contents(file), update[t])
                 /\ update[t] \in Updates \cap submitted
                 /\ update[t] \notin Range(Contents(file))
                 /\ UNCHANGED <<update, submitted, acked, seen>>
<1> USE DEF StoreInv
<1>1. ASSUME NEW t \in Threads, Replace(t)
      PROVE  /\ Contents(file)' = Append(Contents(file), update[t])
             /\ update[t] \in Updates \cap submitted
             /\ update[t] \notin Range(Contents(file))
             /\ UNCHANGED <<update, submitted, acked, seen>>
    <2>1. pc[t] = "replace" /\ file' = tmp
        BY <1>1 DEF Replace
    <2>2. tmp = Json(Append(Contents(file), update[t]))
        BY <2>1 DEF HolderInv, Saving
    <2>3. Contents(file)' = Append(Contents(file), update[t])
        BY <2>1, <2>2 DEF Contents, Json
    <2> QED BY <1>1, <2>1, <2>3 DEF Replace, HolderInv, Saving, TypeOK, history
<1>2. ASSUME \A t \in Threads : ~Replace(t)
      PROVE  Contents(file)' = Contents(file)
    <2>1. CASE StartCreates
        BY <2>1 DEF StartCreates, Contents, Absent, Torn
    <2>2. CASE InitialStateWritten
        BY <2>2 DEF InitialStateWritten, FileInv, Contents, Torn, Json
    <2>3. CASE file' = file
        BY <2>3 DEF Contents
    <2> QED BY <1>2, <2>1, <2>2, <2>3
        DEF Next, StartFindsFile, Started, RefusesToStart, Kill, Read, Acquire, Load,
            SaveBegins, SaveWritten, Return, Raise, vars
<1> QED BY <1>1, <1>2

\* The holder of the lock keeps working on the contents it loaded.
LEMMA HolderStep ==
    ASSUME StoreInv, TypeOK', [Next]_vars
    PROVE  HolderInv'
<1> USE DEF StoreInv
<1> SUFFICES ASSUME NEW h \in Threads, pc'[h] # "idle"
             PROVE  /\ pc'[h] \in Saving => state'[h] = Append(Contents(file)', update'[h])
                    /\ pc'[h] \in Saving \cup {"load"} =>
                          /\ update'[h] \in submitted'
                          /\ update'[h] \notin Range(Contents(file)')
                    /\ pc'[h] = "replace" => tmp' = Json(state'[h])
                    /\ pc'[h] = "return" => update'[h] \in Range(Contents(file)')
    BY DEF HolderInv, Saving
<1>1. process' = "up" /\ lock' = h
    BY ThreadAssumption DEF TypeOK
<1>2. CASE UNCHANGED <<pc, state, update, submitted, tmp>> /\ Contents(file)' = Contents(file)
    BY <1>2 DEF HolderInv
<1>3. CASE StartCreates \/ StartFindsFile \/ Started \/ RefusesToStart \/ Read \/ UNCHANGED vars
    BY <1>2, <1>3, LockFacts DEF StartCreates, StartFindsFile, Started, RefusesToStart, Read,
       inMemory, vars, Contents
<1>4. CASE InitialStateWritten
    BY <1>1, <1>4 DEF InitialStateWritten
<1>5. CASE Kill
    BY <1>5 DEF Kill
<1> DEFINE Goal == /\ pc'[h] \in Saving => state'[h] = Append(Contents(file)', update'[h])
                   /\ pc'[h] \in Saving \cup {"load"} =>
                         /\ update'[h] \in submitted'
                         /\ update'[h] \notin Range(Contents(file)')
                   /\ pc'[h] = "replace" => tmp' = Json(state'[h])
                   /\ pc'[h] = "return" => update'[h] \in Range(Contents(file)')
<1>6. ASSUME NEW t \in Threads, NEW u \in Updates, Acquire(t, u)
      PROVE  Goal
    <2>1. /\ h = t /\ pc'[h] = "load" /\ update'[h] = u /\ file' = file
          /\ u \notin submitted /\ u \in submitted'
        BY <1>1, <1>6 DEF Acquire, TypeOK
    <2> QED BY <2>1 DEF FileInv, Contents, Saving
<1>7. ASSUME NEW t \in Threads, Load(t)
      PROVE  Goal
    <2>1. h = t /\ pc[h] = "load"
        BY <1>1, <1>7 DEF Load, TypeOK
    <2>2. /\ pc'[h] = "write" /\ state'[h] = Append(Contents(file), update[h])
          /\ UNCHANGED <<file, update, submitted>>
        BY <1>7, <2>1 DEF Load, TypeOK
    <2> QED BY <2>1, <2>2 DEF HolderInv, Contents, Saving
<1>8. ASSUME NEW t \in Threads, SaveBegins(t) \/ SaveWritten(t)
      PROVE  Goal
    <2>1. h = t /\ pc[h] \in {"write", "writing"}
        BY <1>1, <1>8 DEF SaveBegins, SaveWritten, TypeOK
    <2>2. /\ pc'[h] \in {"writing", "replace"}
          /\ pc'[h] = "replace" => tmp' = Json(state[h])
          /\ UNCHANGED <<file, state, update, submitted>>
        BY <1>8, <2>1 DEF SaveBegins, SaveWritten, TypeOK
    <2> QED BY <2>1, <2>2 DEF HolderInv, Contents, Saving
<1>9. ASSUME NEW t \in Threads, Replace(t)
      PROVE  Goal
    <2>1. h = t /\ pc'[h] = "return"
        BY <1>1, <1>9 DEF Replace, TypeOK
    <2>2. Contents(file)' = Append(Contents(file), update[h]) /\ update'[h] = update[h]
        <3>1. pc[h] = "replace" /\ file' = tmp /\ update' = update
            BY <1>9, <2>1 DEF Replace
        <3> QED BY <3>1 DEF HolderInv, Saving, Contents, Json
    <2>3. update[h] \in Range(Append(Contents(file), update[h]))
        BY ContentsType, AppendFacts DEF TypeOK
    <2> QED BY <2>1, <2>2, <2>3 DEF Saving
<1>10. ASSUME NEW t \in Threads, Return(t) \/ Raise(t)
       PROVE  FALSE
    BY <1>1, <1>10, ThreadAssumption DEF Return, Raise
<1> QED BY <1>3, <1>4, <1>5, <1>6, <1>7, <1>8, <1>9, <1>10 DEF Next

\* Only the first process writes the file in place, before it holds anything,
\* and only the caller of a transaction puts its update there.
LEMMA FileStep ==
    ASSUME StoreInv, [Next]_vars
    PROVE  FileInv'
<1> USE DEF StoreInv
<1>1. submitted \subseteq submitted'
    BY DEF Next, StartCreates, InitialStateWritten, StartFindsFile, Started, RefusesToStart,
       Kill, Read, Acquire, Load, SaveBegins, SaveWritten, Replace, Return, Raise, vars, inMemory
<1>2. (Range(Contents(file)) \subseteq submitted)'
    <2>1. CASE Contents(file)' = Contents(file)
        BY <1>1, <2>1 DEF FileInv
    <2>2. CASE \E t \in Threads :
                  /\ Contents(file)' = Append(Contents(file), update[t])
                  /\ update[t] \in Updates \cap submitted
        <3>1. PICK t \in Threads :
                  /\ Contents(file)' = Append(Contents(file), update[t])
                  /\ update[t] \in Updates \cap submitted
            BY <2>2
        <3>2. Range(Append(Contents(file), update[t])) = Range(Contents(file)) \cup {update[t]}
            BY <3>1, ContentsType, AppendFacts
        <3> QED BY <1>1, <3>1, <3>2 DEF FileInv
    <2> QED BY <2>1, <2>2, ContentsStep
<1>3. (process = "creating" => file = Torn)'
    <2>1. CASE process' = "creating" /\ process = "creating"
        <3>1. \A t \in Threads : pc[t] = "idle"
            BY <2>1, LockFacts
        <3> QED BY <2>1, <3>1
            DEF Next, FileInv, StartCreates, InitialStateWritten, StartFindsFile, Started,
                RefusesToStart, Kill, Read, Acquire, Load, SaveBegins, SaveWritten, Replace,
                Return, Raise, vars
    <2>2. CASE process' = "creating" /\ process # "creating"
        BY <2>2 DEF Next, StartCreates, InitialStateWritten, StartFindsFile, Started,
           RefusesToStart, Kill, Read, Acquire, Load, SaveBegins, SaveWritten, Replace,
           Return, Raise, vars
    <2> QED BY <2>1, <2>2
<1> QED BY <1>2, <1>3 DEF FileInv

\* An acknowledgement comes after os.replace, and what is in the file stays.
LEMMA DurableStep ==
    ASSUME StoreInv, [Next]_vars
    PROVE  AcknowledgedIsDurable' /\ ReadsAreNeverUndone'
<1> USE DEF StoreInv
<1>1. CASE \E t \in Threads : Replace(t)
    <2>1. PICK t \in Threads :
              /\ Contents(file)' = Append(Contents(file), update[t])
              /\ update[t] \in Updates /\ UNCHANGED <<acked, seen>>
        BY <1>1, ContentsStep
    <2>2. /\ Range(Contents(file)') = Range(Contents(file)) \cup {update[t]}
          /\ IsPrefix(seen, Contents(file)')
        BY <2>1, ContentsType, AppendFacts DEF TypeOK, ReadsAreNeverUndone
    <2> QED BY <2>1, <2>2 DEF AcknowledgedIsDurable, ReadsAreNeverUndone
<1>2. CASE \A t \in Threads : ~Replace(t)
    <2>1. Contents(file)' = Contents(file)
        BY <1>2, ContentsStep
    <2>2. \/ acked' = acked
          \/ \E t \in Threads : acked' = acked \cup {update[t]} /\ pc[t] = "return"
        BY <1>2 DEF Next, StartCreates, InitialStateWritten, StartFindsFile, Started,
           RefusesToStart, Kill, Read, Acquire, Load, SaveBegins, SaveWritten, Return, Raise,
           vars, history
    <2>3. seen' = seen \/ seen' = Contents(file)
        BY <1>2 DEF Next, StartCreates, InitialStateWritten, StartFindsFile, Started,
           RefusesToStart, Kill, Read, Acquire, Load, SaveBegins, SaveWritten, Return, Raise,
           vars, history
    <2>4. IsPrefix(Contents(file), Contents(file))
        BY ContentsType DEF IsPrefix
    <2>5. AcknowledgedIsDurable'
        BY <2>1, <2>2 DEF AcknowledgedIsDurable, HolderInv
    <2> QED BY <2>1, <2>3, <2>4, <2>5 DEF ReadsAreNeverUndone
<1> QED BY <1>1, <1>2

LEMMA InitInv == Init => StoreInv
<1> SUFFICES ASSUME Init PROVE StoreInv
    OBVIOUS
<1>1. TypeOK
    BY DEF Init, TypeOK, Files, Steps
<1>2. HolderInv
    BY DEF Init, HolderInv, Saving
<1>3. Contents(file) = <<>> /\ Range(<<>>) = {} /\ IsPrefix(<<>>, <<>>)
    BY DEF Init, Contents, Absent, Range, IsPrefix
<1> QED BY <1>1, <1>2, <1>3
    DEF Init, StoreInv, FileInv, AcknowledgedIsDurable, ReadsAreNeverUndone

-----------------------------------------------------------------------------

\* The inductive invariant of the file protocol.
THEOREM Invariance == Spec => []StoreInv
<1>1. StoreInv /\ [Next]_vars => StoreInv'
    <2> SUFFICES ASSUME StoreInv, [Next]_vars PROVE StoreInv'
        OBVIOUS
    <2>1. TypeOK'
        BY TypeStep
    <2> QED BY <2>1, HolderStep, FileStep, DurableStep DEF StoreInv
<1> QED BY InitInv, <1>1, PTL DEF Spec

\* The lock is held by the one thread that is in a transaction, and by none
\* once the process is gone.
THEOREM TypeCorrect == Spec => []TypeOK
<1>1. StoreInv => TypeOK
    BY DEF StoreInv
<1> QED BY Invariance, <1>1, PTL

\* What update returned from is in the store file, whatever is killed, fails
\* or is left torn afterwards.
THEOREM AcknowledgedLasts == Spec => []AcknowledgedIsDurable
<1>1. StoreInv => AcknowledgedIsDurable
    BY DEF StoreInv
<1> QED BY Invariance, <1>1, PTL

\* What read returned stays in the store file, in its order.
THEOREM ReadsLast == Spec => []ReadsAreNeverUndone
<1>1. StoreInv => ReadsAreNeverUndone
    BY DEF StoreInv
<1> QED BY Invariance, <1>1, PTL

\* The temporary file, the replace and the lock make update atomic: only
\* os.replace commits, only the return acknowledges, and every other step,
\* failure, kill and restart is invisible.
THEOREM FileProtocolIsAtomic == Spec => ImplementsAtomicStore
<1>1. Init => Atomic!Init
    BY DEF Init, Atomic!Init, Contents, Absent
<1>2. StoreInv /\ [Next]_vars => [Atomic!Next]_<<Contents(file), acked, seen>>
    <2> SUFFICES ASSUME StoreInv, [Next]_vars
                 PROVE  \/ Atomic!Next
                        \/ UNCHANGED <<Contents(file), acked, seen>>
        OBVIOUS
    <2>1. CASE \E t \in Threads : Replace(t)
        <3>1. PICK t \in Threads :
                  /\ Contents(file)' = Append(Contents(file), update[t])
                  /\ update[t] \in Updates /\ update[t] \notin Range(Contents(file))
                  /\ UNCHANGED <<acked, seen>>
            BY <2>1, ContentsStep
        <3>2. Atomic!Commit(update[t])
            BY <3>1 DEF Atomic!Commit, Atomic!Range, Range
        <3> QED BY <3>1, <3>2 DEF Atomic!Next
    <2>2. CASE \A t \in Threads : ~Replace(t)
        <3>1. Contents(file)' = Contents(file)
            BY <2>2, ContentsStep
        <3>2. ASSUME NEW t \in Threads, Return(t)
              PROVE  Atomic!Acknowledge(update[t]) /\ update[t] \in Updates
            BY <3>1, <3>2 DEF Return, Atomic!Acknowledge, Atomic!Range, Range, StoreInv,
               HolderInv, TypeOK
        <3>3. CASE Read
            BY <3>1, <3>3 DEF Read, Atomic!Read, Atomic!Next
        <3>4. CASE ~Read /\ \A t \in Threads : ~Return(t)
            <4>1. UNCHANGED <<acked, seen>>
                BY <2>2, <3>4 DEF Next, StartCreates, InitialStateWritten, StartFindsFile,
                   Started, RefusesToStart, Kill, Acquire, Load, SaveBegins, SaveWritten, Raise,
                   vars, history
            <4> QED BY <3>1, <4>1
        <3> QED BY <3>2, <3>3, <3>4 DEF Atomic!Next
    <2> QED BY <2>1, <2>2
<1> QED BY Invariance, <1>1, <1>2, PTL DEF Spec, ImplementsAtomicStore, Atomic!Spec
=============================================================================
