--------------------------- MODULE PaginationProofs ---------------------------
(***************************************************************************)
(* Proofs about Pagination, for libraries of any size, any limits and any  *)
(* number of changes: what a finished search left out and what it showed   *)
(* twice is explained by the changes of the library, and every             *)
(* continuation leads further.                                             *)
(***************************************************************************)
EXTENDS Pagination, FiniteSetTheorems, SequenceTheorems, TLAPS

\* The items of a listing up to an offset, and those after it.
Within(s, offset) == {s[i] : i \in {j \in DOMAIN s : j <= offset}}
Beyond(s, offset) == {s[i] : i \in {j \in DOMAIN s : j > offset}}

Past(fs, is, co, ao) == Within(fs, co) \cup Within(is, ao)
Ahead(fs, is, co, ao) == Beyond(fs, co) \cup Beyond(is, ao)

CursorPast == Past(folders, images, cursor.containerOffset, cursor.assetOffset)
CursorAhead == Ahead(folders, images, cursor.containerOffset, cursor.assetOffset)
PagePast == Past(folders, images, containerOffset, assetOffset)
PageAhead == Ahead(folders, images, containerOffset, assetOffset)

Once == {x \in Items : shown[x] > 0}
Twice == {x \in Items : shown[x] > 1}

\* What the page being made shows unless it goes away.
OnPage == IF step = "previews" THEN page \cup wanted ELSE page

\* What has been left behind for good: it was there all the time, was not shown,
\* and lies behind the offsets or in a listing that came to its end.
Skipped(past, once, foldersEnd, imagesEnd) ==
    {x \in stayed \ once :
        /\ Shows(x)
        /\ x \in past \/ (foldersEnd /\ x \in Folders) \/ (imagesEnd /\ x \in Images)}

\* What has been shown twice, or was shown and lies ahead of the offsets again.
Repeated(ahead, once, twice) == twice \cup (once \cap ahead)

\* The same, of the continuation and of the page being made with its new offsets.
CursorSkipped == Skipped(CursorPast, Once, FALSE, FALSE)
CursorRepeated == Repeated(CursorAhead, Once, Twice)
PageSkipped == Skipped(PagePast, Once \cup OnPage, ~ moreFolders,
                       step # "assets" /\ total <= assetOffset)
PageRepeated == Repeated(PageAhead, Once \cup OnPage, Twice \cup (Once \cap OnPage))

Few(S, n) == IsFiniteSet(S) /\ Cardinality(S) <= n

\* A listing never repeats an item, and what stayed is listed.
LibraryInv ==
    /\ IsInjective(folders) /\ IsInjective(images)
    /\ stayed \subseteq ToSet(folders) \cup ToSet(images)

\* While a search goes on, the continuation has skipped no more than was removed
\* and repeats no more than was added, and so does the page being made.
CursorInv ==
    step # "ended" => Few(CursorSkipped, removed) /\ Few(CursorRepeated, inserted)
PageInv ==
    step \in {"assets", "previews", "respond"} =>
        Few(PageSkipped, removed) /\ Few(PageRepeated, inserted)

\* Before assets are listed the page holds containers only.
LocalsInv ==
    /\ step \in {"containers", "assets"} => wanted = {} /\ total = 0
    /\ step = "assets" => page \subseteq Folders /\ assetOffset = cursor.assetOffset

\* A page that does not end the search has moved one of the offsets.
AdvanceInv ==
    step \in {"assets", "previews", "respond"} =>
        /\ containerOffset >= cursor.containerOffset
        /\ assetOffset >= cursor.assetOffset
        /\ moreFolders \/ remaining = 0 => containerOffset > cursor.containerOffset
        /\ step # "assets" /\ assetOffset < total =>
              containerOffset + assetOffset
                  > cursor.containerOffset + cursor.assetOffset

EndInv == step = "ended" => ChangesExplainPages

PagingInv ==
    /\ TypeOK /\ LibraryInv /\ CursorInv /\ PageInv /\ LocalsInv /\ AdvanceInv
    /\ EndInv

-----------------------------------------------------------------------------
(* Lemmas about sets that are counted and listings that are sliced and     *)
(* changed.                                                                *)

LEMMA FewOfFewer ==
    ASSUME NEW S, NEW T, NEW n \in Nat, Few(S, n), T \subseteq S
    PROVE  Few(T, n)
<1>1. IsFiniteSet(T) /\ Cardinality(T) <= Cardinality(S)
    BY FS_Subset DEF Few
<1>2. Cardinality(T) \in Nat /\ Cardinality(S) \in Nat /\ Cardinality(S) <= n
    BY <1>1, FS_CardinalityType DEF Few
<1> QED BY <1>1, <1>2 DEF Few

LEMMA FewAndOne ==
    ASSUME NEW S, NEW T, NEW n \in Nat, Few(S, n), NEW y, T \subseteq S \cup {y}
    PROVE  Few(T, n + 1)
<1>1. /\ IsFiniteSet(S \cup {y})
      /\ Cardinality(S \cup {y}) =
             IF y \in S THEN Cardinality(S) ELSE Cardinality(S) + 1
    BY FS_AddElement DEF Few
<1>2. Cardinality(S) \in Nat /\ Cardinality(S) <= n
    BY FS_CardinalityType DEF Few
<1>3. Few(S \cup {y}, n + 1)
    <2>1. Cardinality(S \cup {y}) <= n + 1
        BY <1>1, <1>2
    <2> QED BY <1>1, <2>1 DEF Few
<1> QED BY <1>3, FewOfFewer

\* The items of a listing: none after its end, and each before or after any offset.
LEMMA ListingFacts ==
    ASSUME NEW T, NEW s \in Seq(T)
    PROVE  /\ ToSet(s) \subseteq T
           /\ \A o : Within(s, o) \subseteq ToSet(s) /\ Beyond(s, o) \subseteq ToSet(s)
           /\ \A o \in Nat : Len(s) <= o => Within(s, o) = ToSet(s)
           /\ \A o, p \in Nat : o <= p => Beyond(s, p) \subseteq Beyond(s, o)
<1>1. Len(s) \in Nat /\ DOMAIN s = 1 .. Len(s) /\ \A i \in DOMAIN s : s[i] \in T
    BY LenProperties
<1>2. /\ ToSet(s) \subseteq T
      /\ \A o : Within(s, o) \subseteq ToSet(s) /\ Beyond(s, o) \subseteq ToSet(s)
    BY <1>1 DEF ToSet, Within, Beyond
<1>3. \A o \in Nat : Len(s) <= o => Within(s, o) = ToSet(s)
    BY <1>1 DEF ToSet, Within
<1>4. \A o, p \in Nat : o <= p => Beyond(s, p) \subseteq Beyond(s, o)
    BY <1>1 DEF Beyond
<1> QED BY <1>2, <1>3, <1>4

LEMMA LeastFacts ==
    ASSUME NEW a \in Nat, NEW b \in Nat
    PROVE  /\ Least(a, b) \in Nat /\ Least(a, b) <= a /\ Least(a, b) <= b
           /\ Least(a, b) = a \/ Least(a, b) = b
BY DEF Least

LEMMA SliceIs ==
    ASSUME NEW T, NEW s \in Seq(T), NEW o \in Nat, NEW n \in Nat
    PROVE  /\ Slice(s, o, n) \in Seq(T)
           /\ Len(Slice(s, o, n)) \in Nat /\ Len(Slice(s, o, n)) <= n
           /\ o < Len(s) => Len(Slice(s, o, n)) = Least(n, Len(s) - o)
           /\ Len(s) <= o => Len(Slice(s, o, n)) = 0
           /\ \A i \in 1 .. Len(Slice(s, o, n)) :
                 o + i \in DOMAIN s /\ Slice(s, o, n)[i] = s[o + i]
<1>1. Len(s) \in Nat /\ DOMAIN s = 1 .. Len(s) /\ \A i \in DOMAIN s : s[i] \in T
    BY LenProperties
<1>length. Len(s) \in Nat
    BY <1>1
<1> DEFINE last == Least(o + n, Len(s))
<1>2. last \in Nat /\ last <= o + n /\ last <= Len(s) /\ (last = o + n \/ last = Len(s))
    <2>1. o + n \in Nat
        OBVIOUS
    <2> QED BY <1>1, <2>1, LeastFacts
<1> HIDE DEF last
<1>3. \A i \in o + 1 .. last : s[i] \in T
    <2> SUFFICES ASSUME NEW i \in o + 1 .. last PROVE s[i] \in T
        OBVIOUS
    <2>1. i \in 1 .. Len(s)
        BY <1>length, <1>2
    <2> QED BY <1>1, <2>1
<1>4. /\ SubSeq(s, o + 1, last) \in Seq(T)
      /\ Len(SubSeq(s, o + 1, last)) = IF o + 1 <= last THEN last - (o + 1) + 1 ELSE 0
      /\ \A i \in 1 .. last - (o + 1) + 1 :
            SubSeq(s, o + 1, last)[i] = s[o + 1 + i - 1]
    BY <1>2, <1>3, SubSeqProperties
<1>5. Slice(s, o, n) = SubSeq(s, o + 1, last)
    BY DEF Slice, last
<1> DEFINE len == Len(Slice(s, o, n))
<1>6. len = IF o + 1 <= last THEN last - o ELSE 0
    <2>1. len = IF o + 1 <= last THEN last - (o + 1) + 1 ELSE 0
        BY <1>4, <1>5
    <2> HIDE DEF len
    <2> QED BY <1>2, <2>1
<1>7. ASSUME NEW i \in 1 .. len
      PROVE  o + i \in DOMAIN s /\ Slice(s, o, n)[i] = s[o + i]
    <2> HIDE DEF len
    <2>1. i \in 1 .. last - (o + 1) + 1 /\ o + 1 + i - 1 = o + i /\ o + i \in 1 .. Len(s)
        BY <1>length, <1>2, <1>6
    <2> QED BY <1>1, <1>4, <1>5, <2>1
<1>8. len \in Nat /\ len <= n /\ (Len(s) <= o => len = 0)
    <2> HIDE DEF len
    <2> QED BY <1>length, <1>2, <1>6
<1>9. o < Len(s) => len = Least(n, Len(s) - o)
    <2> SUFFICES ASSUME o < Len(s) PROVE len = Least(n, Len(s) - o)
        OBVIOUS
    <2>1. last = IF o + n < Len(s) THEN o + n ELSE Len(s)
        BY DEF last, Least
    <2> HIDE DEF len
    <2> QED BY <1>length, <1>6, <2>1 DEF Least
<1> QED BY <1>4, <1>5, <1>7, <1>8, <1>9

\* A slice is what lies between its offset and the next one.
LEMMA SliceFacts ==
    ASSUME NEW T, NEW s \in Seq(T), NEW o \in Nat, NEW n \in Nat,
           NEW sliced, sliced = Slice(s, o, n)
    PROVE  /\ ToSet(sliced) \subseteq Beyond(s, o)
           /\ Within(s, o + Len(sliced)) \subseteq Within(s, o) \cup ToSet(sliced)
           /\ IsInjective(s) => ToSet(sliced) \cap Beyond(s, o + Len(sliced)) = {}
           /\ n # 0 /\ Len(sliced) = 0 => Len(s) <= o
           /\ o + Len(sliced) < Len(s) => Len(sliced) = n
<1>1. Len(s) \in Nat /\ DOMAIN s = 1 .. Len(s)
    BY LenProperties
<1> DEFINE len == Len(sliced)
<1>2. /\ sliced \in Seq(T) /\ len \in Nat /\ len <= n
      /\ o < Len(s) => len = Least(n, Len(s) - o)
      /\ Len(s) <= o => len = 0
      /\ \A i \in 1 .. len : o + i \in DOMAIN s /\ sliced[i] = s[o + i]
    BY SliceIs
<1>3. DOMAIN sliced = 1 .. len
    BY <1>2, LenProperties
<1> HIDE DEF len
<1>4. ToSet(sliced) = {s[o + i] : i \in 1 .. len}
    BY <1>2, <1>3 DEF ToSet
<1>5. ToSet(sliced) \subseteq Beyond(s, o)
    <2>1. \A i \in 1 .. len : o + i \in DOMAIN s /\ o + i > o
        BY <1>2
    <2> QED BY <1>4, <2>1 DEF Beyond
<1>6. Within(s, o + len) \subseteq Within(s, o) \cup ToSet(sliced)
    <2> SUFFICES ASSUME NEW i \in DOMAIN s, i <= o + len
                 PROVE  s[i] \in Within(s, o) \cup ToSet(sliced)
        BY DEF Within
    <2>1. CASE i <= o
        BY <2>1 DEF Within
    <2>2. CASE o < i
        <3>1. i - o \in 1 .. len /\ o + (i - o) = i
            BY <1>1, <1>2, <2>2
        <3>2. s[o + (i - o)] \in ToSet(sliced)
            BY <1>4, <3>1
        <3> QED BY <3>1, <3>2
    <2> QED BY <1>1, <2>1, <2>2
<1>7. ASSUME IsInjective(s) PROVE ToSet(sliced) \cap Beyond(s, o + len) = {}
    <2> SUFFICES ASSUME NEW i \in 1 .. len, NEW j \in DOMAIN s, j > o + len,
                        s[o + i] = s[j]
                 PROVE  FALSE
        BY <1>4 DEF Beyond
    <2>1. o + i = j
        BY <1>2, <1>7 DEF IsInjective
    <2> QED BY <1>1, <1>2, <2>1
<1>length. /\ Len(s) \in Nat /\ len \in Nat
           /\ o < Len(s) => len = Least(n, Len(s) - o)
           /\ Len(s) <= o => len = 0
    BY <1>1, <1>2
<1>8. n # 0 /\ len = 0 => Len(s) <= o
    BY <1>length DEF Least
<1>9. o + len < Len(s) => len = n
    BY <1>length DEF Least
<1> QED BY <1>5, <1>6, <1>7, <1>8, <1>9 DEF len

\* An item added to a listing pushes at most one item past any offset.
LEMMA InsertFacts ==
    ASSUME NEW T, NEW s \in Seq(T), NEW e \in T \ ToSet(s), NEW at \in 1 .. Len(s) + 1,
           NEW t, t = InsertAt(s, at, e)
    PROVE  /\ t \in Seq(T)
           /\ ToSet(s) \subseteq ToSet(t)
           /\ IsInjective(s) => IsInjective(t)
           /\ \A o \in Nat : Within(t, o) \subseteq Within(s, o) \cup {e}
           /\ \A o \in Nat : \E y : Beyond(t, o) \subseteq Beyond(s, o) \cup {y}
<1>1. DOMAIN s = 1 .. Len(s) /\ \A i \in DOMAIN s : s[i] \in T
    BY LenProperties
<1>2. Len(s) \in Nat /\ at \in Nat /\ 1 <= at /\ at <= Len(s) + 1
    BY LenProperties
<1> DEFINE front == SubSeq(s, 1, at - 1)
           back == SubSeq(s, at, Len(s))
<1>3. /\ front \in Seq(T) /\ Len(front) = at - 1
      /\ \A i \in 1 .. at - 1 : front[i] = s[i]
    <2>1. at - 1 \in Int /\ 1 .. at - 1 \subseteq 1 .. Len(s) /\ (1 <= at - 1 \/ at - 1 = 0)
        BY <1>2
    <2>2. /\ front \in Seq(T) /\ Len(front) = IF 1 <= at - 1 THEN at - 1 - 1 + 1 ELSE 0
          /\ \A i \in 1 .. at - 1 - 1 + 1 : front[i] = s[1 + i - 1]
        BY <1>1, <2>1, SubSeqProperties
    <2> HIDE DEF front
    <2> QED BY <1>2, <2>1, <2>2
<1>4. /\ back \in Seq(T) /\ Len(back) = Len(s) - at + 1
      /\ \A i \in 1 .. Len(s) - at + 1 : back[i] = s[at + i - 1]
    <2>1. at .. Len(s) \subseteq 1 .. Len(s)
        BY <1>2
    <2>2. /\ back \in Seq(T) /\ Len(back) = IF at <= Len(s) THEN Len(s) - at + 1 ELSE 0
          /\ \A i \in 1 .. Len(s) - at + 1 : back[i] = s[at + i - 1]
        BY <1>1, <1>2, <2>1, SubSeqProperties
    <2> HIDE DEF back
    <2> QED BY <1>2, <2>2
<1>5. <<e>> \in Seq(T) /\ Len(<<e>>) = 1 /\ <<e>>[1] = e
    OBVIOUS
<1> DEFINE both == front \o <<e>>
<1>6. /\ both \in Seq(T) /\ Len(both) = at - 1 + 1
      /\ \A i \in 1 .. at - 1 + 1 :
            both[i] = IF i <= at - 1 THEN front[i] ELSE <<e>>[i - (at - 1)]
    <2> HIDE DEF front
    <2> QED BY <1>3, <1>5, ConcatProperties
<1>7. t = both \o back
    BY DEF InsertAt
<1>8. /\ t \in Seq(T) /\ Len(t) = at - 1 + 1 + (Len(s) - at + 1)
      /\ \A i \in 1 .. at - 1 + 1 + (Len(s) - at + 1) :
            t[i] = IF i <= at - 1 + 1 THEN both[i] ELSE back[i - (at - 1 + 1)]
    <2> HIDE DEF both, back
    <2> QED BY <1>4, <1>6, <1>7, ConcatProperties
<1> HIDE DEF both, back, front
<1>9. Len(t) = Len(s) + 1 /\ DOMAIN t = 1 .. Len(s) + 1
    <2>1. at - 1 + 1 + (Len(s) - at + 1) = Len(s) + 1
        BY <1>2
    <2> QED BY <1>8, <2>1, LenProperties
<1>10. ASSUME NEW i \in 1 .. Len(s) + 1
       PROVE  /\ i < at => i \in 1 .. Len(s) /\ t[i] = s[i]
              /\ i = at => t[i] = e
              /\ i > at => i - 1 \in 1 .. Len(s) /\ t[i] = s[i - 1]
    <2>1. i \in 1 .. at - 1 + 1 + (Len(s) - at + 1)
        BY <1>2
    <2>2. CASE i < at
        <3>1. /\ i \in 1 .. at - 1 /\ i <= at - 1 /\ i <= at - 1 + 1
              /\ i \in 1 .. at - 1 + 1 /\ i \in 1 .. Len(s)
            BY <1>2, <2>2
        <3>2. t[i] = s[i]
            BY <1>3, <1>6, <1>8, <2>1, <3>1
        <3> QED BY <1>2, <2>2, <3>1, <3>2
    <2>3. CASE i = at
        <3>1. i <= at - 1 + 1 /\ ~ (i <= at - 1) /\ i - (at - 1) = 1 /\ i \in 1 .. at - 1 + 1
            BY <1>2, <2>3
        <3>2. t[i] = e
            BY <1>5, <1>6, <1>8, <2>1, <3>1
        <3> QED BY <1>2, <2>3, <3>2
    <2>4. CASE i > at
        <3>1. /\ ~ (i <= at - 1 + 1) /\ i - (at - 1 + 1) \in 1 .. Len(s) - at + 1
              /\ at + (i - (at - 1 + 1)) - 1 = i - 1 /\ i - 1 \in 1 .. Len(s)
            BY <1>2, <2>4
        <3>2. t[i] = s[i - 1]
            BY <1>4, <1>8, <2>1, <3>1
        <3> QED BY <1>2, <2>4, <3>1, <3>2
    <2> QED BY <1>2, <2>2, <2>3, <2>4
<1>11. ToSet(s) \subseteq ToSet(t)
    <2> SUFFICES ASSUME NEW i \in 1 .. Len(s) PROVE \E j \in 1 .. Len(s) + 1 : t[j] = s[i]
        BY <1>1, <1>9 DEF ToSet
    <2>1. CASE i < at
        <3>1. i \in 1 .. Len(s) + 1
            BY <1>2
        <3>2. t[i] = s[i]
            BY <1>10, <2>1, <3>1
        <3> QED BY <3>1, <3>2
    <2>2. CASE at <= i
        <3>1. i + 1 \in 1 .. Len(s) + 1 /\ i + 1 > at /\ i + 1 - 1 = i
            BY <1>2, <2>2
        <3>2. t[i + 1] = s[i]
            BY <1>10, <3>1
        <3> QED BY <3>1, <3>2
    <2> QED BY <1>2, <2>1, <2>2
<1>12. ASSUME IsInjective(s) PROVE IsInjective(t)
    <2> SUFFICES ASSUME NEW i \in 1 .. Len(s) + 1, NEW j \in 1 .. Len(s) + 1, i < j,
                        t[i] = t[j]
                 PROVE  FALSE
        BY <1>9 DEF IsInjective
    <2>1. \A k \in 1 .. Len(s) : s[k] # e
        BY <1>1 DEF ToSet
    <2>2. \A k, l \in 1 .. Len(s) : s[k] = s[l] => k = l
        BY <1>1, <1>12 DEF IsInjective
    <2>3. CASE j < at
        <3>1. i < at
            BY <1>2, <2>3
        <3> QED BY <1>10, <2>2, <2>3, <3>1
    <2>4. CASE j = at
        BY <1>10, <2>1, <2>4
    <2>5. CASE j > at /\ i < at
        <3>1. i # j - 1
            BY <1>2, <2>5
        <3> QED BY <1>10, <2>2, <2>5, <3>1
    <2>6. CASE j > at /\ i = at
        BY <1>10, <2>1, <2>6
    <2>7. CASE j > at /\ i > at
        <3>1. i - 1 # j - 1
            BY <1>2, <2>7
        <3> QED BY <1>10, <2>2, <2>7, <3>1
    <2> QED BY <1>2, <2>3, <2>4, <2>5, <2>6, <2>7
<1>13. ASSUME NEW o \in Nat PROVE Within(t, o) \subseteq Within(s, o) \cup {e}
    <2> SUFFICES ASSUME NEW i \in 1 .. Len(s) + 1, i <= o
                 PROVE  t[i] \in Within(s, o) \cup {e}
        BY <1>9 DEF Within
    <2>1. CASE i < at
        BY <1>1, <1>10, <2>1 DEF Within
    <2>2. CASE i = at
        BY <1>10, <2>2
    <2>3. CASE i > at
        <3>1. i - 1 <= o
            BY <1>2
        <3> QED BY <1>1, <1>10, <2>3, <3>1 DEF Within
    <2> QED BY <1>2, <2>1, <2>2, <2>3
<1>14. ASSUME NEW o \in Nat PROVE \E y : Beyond(t, o) \subseteq Beyond(s, o) \cup {y}
    <2>1. CASE o < at
        <3>1. ASSUME NEW i \in 1 .. Len(s) + 1, i > o
              PROVE  t[i] \in Beyond(s, o) \cup {e}
            <4>1. CASE i < at
                BY <1>1, <1>10, <3>1, <4>1 DEF Beyond
            <4>2. CASE i = at
                BY <1>10, <4>2
            <4>3. CASE i > at
                <5>1. i - 1 > o
                    BY <1>2, <2>1, <4>3
                <5> QED BY <1>1, <1>10, <4>3, <5>1 DEF Beyond
            <4> QED BY <1>2, <4>1, <4>2, <4>3
        <3>2. Beyond(t, o) \subseteq Beyond(s, o) \cup {e}
            BY <1>9, <3>1 DEF Beyond
        <3> QED BY <3>2
    <2>2. CASE at <= o
        <3>1. ASSUME NEW i \in 1 .. Len(s) + 1, i > o
              PROVE  t[i] \in Beyond(s, o) \cup {s[o]}
            <4>1. i > at /\ (i - 1 = o \/ i - 1 > o)
                BY <1>2, <2>2, <3>1
            <4>2. i - 1 \in 1 .. Len(s) /\ t[i] = s[i - 1]
                BY <1>10, <4>1
            <4> QED BY <1>1, <4>1, <4>2 DEF Beyond
        <3>2. Beyond(t, o) \subseteq Beyond(s, o) \cup {s[o]}
            BY <1>9, <3>1 DEF Beyond
        <3> QED BY <3>2
    <2> QED BY <1>2, <2>1, <2>2
<1> QED BY <1>8, <1>11, <1>12, <1>13, <1>14

\* An item taken out of a listing draws at most one item back over any offset.
LEMMA RemoveFacts ==
    ASSUME NEW T, NEW s \in Seq(T), NEW at \in DOMAIN s, NEW t, t = RemoveAt(s, at)
    PROVE  /\ t \in Seq(T)
           /\ ToSet(s) \ {s[at]} \subseteq ToSet(t)
           /\ IsInjective(s) => IsInjective(t)
           /\ \A o \in Nat : \E y : Within(t, o) \subseteq Within(s, o) \cup {y}
           /\ \A o \in Nat : Beyond(t, o) \subseteq Beyond(s, o)
<1>1. DOMAIN s = 1 .. Len(s) /\ \A i \in DOMAIN s : s[i] \in T
    BY LenProperties
<1>2. Len(s) \in Nat /\ at \in Nat /\ 1 <= at /\ at <= Len(s)
    BY LenProperties
<1> DEFINE front == SubSeq(s, 1, at - 1)
           back == SubSeq(s, at + 1, Len(s))
<1>3. /\ front \in Seq(T) /\ Len(front) = at - 1
      /\ \A i \in 1 .. at - 1 : front[i] = s[i]
    <2>1. at - 1 \in Int /\ 1 .. at - 1 \subseteq 1 .. Len(s) /\ (1 <= at - 1 \/ at - 1 = 0)
        BY <1>2
    <2>2. /\ front \in Seq(T) /\ Len(front) = IF 1 <= at - 1 THEN at - 1 - 1 + 1 ELSE 0
          /\ \A i \in 1 .. at - 1 - 1 + 1 : front[i] = s[1 + i - 1]
        BY <1>1, <2>1, SubSeqProperties
    <2> HIDE DEF front
    <2> QED BY <1>2, <2>1, <2>2
<1>4. /\ back \in Seq(T) /\ Len(back) = Len(s) - at
      /\ \A i \in 1 .. Len(s) - at : back[i] = s[at + i]
    <2>1. at + 1 .. Len(s) \subseteq 1 .. Len(s) /\ at + 1 \in Int
        BY <1>2
    <2>2. /\ back \in Seq(T)
          /\ Len(back) = IF at + 1 <= Len(s) THEN Len(s) - (at + 1) + 1 ELSE 0
          /\ \A i \in 1 .. Len(s) - (at + 1) + 1 : back[i] = s[at + 1 + i - 1]
        BY <1>1, <1>2, <2>1, SubSeqProperties
    <2> HIDE DEF back
    <2> QED BY <1>2, <2>2
<1>5. t = front \o back
    BY DEF RemoveAt
<1>6. /\ t \in Seq(T) /\ Len(t) = at - 1 + (Len(s) - at)
      /\ \A i \in 1 .. at - 1 + (Len(s) - at) :
            t[i] = IF i <= at - 1 THEN front[i] ELSE back[i - (at - 1)]
    <2> HIDE DEF front, back
    <2>0. front \in Seq(T) /\ back \in Seq(T)
        BY <1>3, <1>4
    <2>1. /\ front \o back \in Seq(T) /\ Len(front \o back) = Len(front) + Len(back)
          /\ \A i \in 1 .. Len(front) + Len(back) :
                (front \o back)[i] = IF i <= Len(front) THEN front[i]
                                     ELSE back[i - Len(front)]
        BY <2>0, ConcatProperties, Zenon
    <2>2. Len(front) = at - 1 /\ Len(back) = Len(s) - at
        BY <1>3, <1>4
    <2> QED BY <1>5, <2>1, <2>2
<1> HIDE DEF front, back
<1>7. Len(t) = Len(s) - 1 /\ DOMAIN t = 1 .. Len(s) - 1
    <2>1. at - 1 + (Len(s) - at) = Len(s) - 1
        BY <1>2
    <2> QED BY <1>6, <2>1, LenProperties
<1>8. ASSUME NEW i \in 1 .. Len(s) - 1
      PROVE  /\ i \in 1 .. Len(s) /\ i + 1 \in 1 .. Len(s)
             /\ i < at => t[i] = s[i]
             /\ i >= at => t[i] = s[i + 1]
    <2>1. i \in 1 .. at - 1 + (Len(s) - at) /\ i \in 1 .. Len(s) /\ i + 1 \in 1 .. Len(s)
        BY <1>2
    <2>2. CASE i < at
        <3>1. i \in 1 .. at - 1 /\ i <= at - 1
            BY <1>2, <2>2
        <3>2. t[i] = s[i]
            BY <1>3, <1>6, <2>1, <3>1
        <3> QED BY <1>2, <2>1, <2>2, <3>2
    <2>3. CASE i >= at
        <3>1. ~ (i <= at - 1) /\ i - (at - 1) \in 1 .. Len(s) - at /\ at + (i - (at - 1)) = i + 1
            BY <1>2, <2>3
        <3>2. t[i] = s[i + 1]
            BY <1>4, <1>6, <2>1, <3>1
        <3> QED BY <1>2, <2>1, <2>3, <3>2
    <2> QED BY <1>2, <2>2, <2>3
<1>9. ToSet(s) \ {s[at]} \subseteq ToSet(t)
    <2> SUFFICES ASSUME NEW i \in 1 .. Len(s), i # at
                 PROVE  \E j \in 1 .. Len(s) - 1 : t[j] = s[i]
        BY <1>1, <1>7 DEF ToSet
    <2>1. CASE i < at
        <3>1. i \in 1 .. Len(s) - 1
            BY <1>2, <2>1
        <3>2. t[i] = s[i]
            BY <1>8, <2>1, <3>1
        <3> QED BY <3>1, <3>2
    <2>2. CASE i > at
        <3>1. i - 1 \in 1 .. Len(s) - 1 /\ i - 1 >= at /\ i - 1 + 1 = i
            BY <1>2, <2>2
        <3>2. t[i - 1] = s[i]
            BY <1>8, <3>1
        <3> QED BY <3>1, <3>2
    <2> QED BY <1>2, <2>1, <2>2
<1>10. ASSUME IsInjective(s) PROVE IsInjective(t)
    <2> SUFFICES ASSUME NEW i \in 1 .. Len(s) - 1, NEW j \in 1 .. Len(s) - 1, i < j,
                        t[i] = t[j]
                 PROVE  FALSE
        BY <1>2, <1>7 DEF IsInjective
    <2>1. \A k, l \in 1 .. Len(s) : s[k] = s[l] => k = l
        BY <1>1, <1>10 DEF IsInjective
    <2>2. i # j /\ i + 1 # j + 1 /\ i # j + 1 /\ (j < at => i < at)
        BY <1>2
    <2>3. CASE j < at
        BY <1>8, <2>1, <2>2, <2>3
    <2>4. CASE j >= at /\ i < at
        BY <1>8, <2>1, <2>2, <2>4
    <2>5. CASE j >= at /\ i >= at
        BY <1>8, <2>1, <2>2, <2>5
    <2> QED BY <1>2, <2>3, <2>4, <2>5
<1>11. ASSUME NEW o \in Nat PROVE \E y : Within(t, o) \subseteq Within(s, o) \cup {y}
    <2>1. ASSUME NEW i \in 1 .. Len(s) - 1, i <= o
          PROVE  t[i] \in Within(s, o) \cup {s[o + 1]}
        <3>1. CASE i < at
            BY <1>1, <1>8, <2>1, <3>1 DEF Within
        <3>2. CASE i >= at
            <4>1. i + 1 = o + 1 \/ i + 1 <= o
                BY <1>2, <2>1
            <4> QED BY <1>1, <1>8, <3>2, <4>1 DEF Within
        <3> QED BY <1>2, <3>1, <3>2
    <2>2. Within(t, o) \subseteq Within(s, o) \cup {s[o + 1]}
        BY <1>7, <2>1 DEF Within
    <2> QED BY <2>2
<1>12. ASSUME NEW o \in Nat PROVE Beyond(t, o) \subseteq Beyond(s, o)
    <2>1. ASSUME NEW i \in 1 .. Len(s) - 1, i > o
          PROVE  t[i] \in Beyond(s, o)
        <3>1. i + 1 > o
            BY <2>1
        <3>2. CASE i < at
            BY <1>1, <1>8, <2>1, <3>2 DEF Beyond
        <3>3. CASE i >= at
            BY <1>1, <1>8, <3>1, <3>3 DEF Beyond
        <3> QED BY <1>2, <3>2, <3>3
    <2> QED BY <1>7, <2>1 DEF Beyond
<1> QED BY <1>6, <1>9, <1>10, <1>11, <1>12
\* The new offset lies past every row that was scanned, or past all there are.
LEMMA AdvanceFacts ==
    ASSUME NEW T, NEW s \in Seq(T), IsInjective(s), NEW o \in Nat,
           NEW n \in Nat, n # 0, NEW all \in Nat, Len(s) <= all,
           NEW rows, rows = Slice(s, o, n), NEW next, next = Advance(o, rows, all)
    PROVE  /\ rows \in Seq(T)
           /\ next \in Nat /\ o <= next /\ (next < all => o < next)
           /\ ToSet(rows) \subseteq Beyond(s, o) /\ Beyond(s, next) \subseteq Beyond(s, o)
           /\ ToSet(rows) \cap Beyond(s, next) = {}
           /\ Within(s, next) \subseteq Within(s, o) \cup ToSet(rows)
<1>1. rows \in Seq(T) /\ Len(rows) \in Nat /\ Len(s) \in Nat
    BY SliceIs, LenProperties
<1>2. rows = <<>> <=> Len(rows) = 0
    BY <1>1, EmptySeq
<1>3. /\ ToSet(rows) \subseteq Beyond(s, o)
      /\ Within(s, o + Len(rows)) \subseteq Within(s, o) \cup ToSet(rows)
      /\ ToSet(rows) \cap Beyond(s, o + Len(rows)) = {}
      /\ Len(rows) = 0 => Len(s) <= o
    <2>1. ToSet(rows) \subseteq Beyond(s, o)
        BY SliceFacts
    <2>2. Within(s, o + Len(rows)) \subseteq Within(s, o) \cup ToSet(rows)
        BY SliceFacts
    <2>3. ToSet(rows) \cap Beyond(s, o + Len(rows)) = {}
        BY SliceFacts
    <2>4. Len(rows) = 0 => Len(s) <= o
        BY SliceFacts
    <2> QED BY <2>1, <2>2, <2>3, <2>4
<1>4. next \in Nat /\ o <= next /\ (next < all => o < next)
    BY <1>1, <1>2 DEF Advance
<1>5. Beyond(s, next) \subseteq Beyond(s, o)
    BY <1>4, ListingFacts
<1>6. CASE rows = <<>>
    <2>1. ToSet(rows) = {}
        BY <1>6 DEF ToSet
    <2>2. Len(s) <= o /\ Len(s) <= next
        BY <1>1, <1>2, <1>3, <1>4, <1>6
    <2>3. Within(s, next) = Within(s, o)
        BY <1>4, <2>2, ListingFacts
    <2> QED BY <1>1, <1>3, <1>4, <1>5, <2>1, <2>3
<1>7. CASE rows # <<>>
    <2>1. next = o + Len(rows)
        BY <1>7 DEF Advance
    <2> QED BY <1>1, <1>3, <1>4, <1>5, <2>1
<1> QED BY <1>6, <1>7

\* A sequence has no more items than its length.
LEMMA RowsFew ==
    ASSUME NEW T, NEW s \in Seq(T)
    PROVE  Few(ToSet(s), Len(s))
<1>1. Len(s) \in Nat /\ DOMAIN s = 1 .. Len(s) /\ s \in [1 .. Len(s) -> T]
    BY LenProperties
<1>2. IsFiniteSet(1 .. Len(s)) /\ Cardinality(1 .. Len(s)) = Len(s)
    BY <1>1, FS_Interval
<1>3. s \in Surjection(1 .. Len(s), ToSet(s))
    BY <1>1 DEF Surjection, ToSet
<1> QED BY <1>2, <1>3, FS_Surjection DEF Few

-----------------------------------------------------------------------------
(* The steps of a search. *)

\* The parts that most steps leave alone.
LEMMA CursorKept ==
    ASSUME UNCHANGED <<folders, images, stayed, types, cursor, shown>>
    PROVE  /\ Once' = Once /\ Twice' = Twice
           /\ CursorSkipped' = CursorSkipped /\ CursorRepeated' = CursorRepeated
BY DEF Once, Twice, CursorSkipped, CursorRepeated, CursorPast, CursorAhead, Skipped,
       Repeated, Shows

\* A folder that stayed is in the listing of folders, an image in that of images.
LEMMA StayedListed ==
    ASSUME TypeOK, LibraryInv
    PROVE  /\ stayed \cap Folders \subseteq ToSet(folders)
           /\ stayed \cap Images \subseteq ToSet(images)
<1>1. ToSet(folders) \subseteq Folders /\ ToSet(images) \subseteq Images
    BY ListingFacts DEF TypeOK
<1> QED BY <1>1, PaginationAssumption DEF LibraryInv

LEMMA InitPaging == Init => PagingInv
<1> SUFFICES ASSUME Init PROVE PagingInv
    OBVIOUS
<1>1. ASSUME NEW S, IsFiniteSet(S), NEW s \in SetToAllKPermutations(S)
      PROVE  s \in Seq(S) /\ IsInjective(s)
    <2>1. PICK T \in SUBSET S : s \in SetToSeqs(T)
        BY DEF SetToAllKPermutations
    <2>2. Cardinality(T) \in Nat
        BY <1>1, FS_Subset, FS_CardinalityType
    <2>3. /\ s \in [1 .. Cardinality(T) -> S]
          /\ \A i, j \in 1 .. Cardinality(T) : i # j => s[i] # s[j]
        BY <2>1 DEF SetToSeqs
    <2>4. s \in Seq(S)
        BY <2>2, <2>3
    <2> QED BY <2>3, <2>4 DEF IsInjective
<1>2. /\ folders \in Seq(Folders) /\ IsInjective(folders)
      /\ images \in Seq(Images) /\ IsInjective(images)
    BY <1>1, PaginationAssumption DEF Init
<1>3. stayed \subseteq Items
    BY <1>2, ListingFacts DEF Init, Items
<1>4. TypeOK
    <2>1. cursor \in [containerOffset : Nat, assetOffset : Nat]
        BY DEF Init
    <2>2. shown \in [Items -> Nat]
        BY DEF Init
    <2>3. types \subseteq {"CONTAINER", "IMAGE"} /\ step = "containers"
        BY DEF Init
    <2>4. Cardinality({}) <= 0
        BY FS_EmptySet
    <2>5. /\ page = {} /\ wanted = {} /\ remaining = 0 /\ moreFolders = FALSE /\ total = 0
          /\ containerOffset = 0 /\ assetOffset = 0 /\ inserted = 0 /\ removed = 0
        BY DEF Init
    <2> QED BY <1>2, <1>3, <2>1, <2>2, <2>3, <2>4, <2>5 DEF TypeOK
<1>5. LibraryInv
    BY <1>2 DEF Init, LibraryInv
<1>6. CursorSkipped = {} /\ CursorRepeated = {}
    <2>1. CursorPast = {}
        <3>1. DOMAIN folders \subseteq Nat \ {0} /\ DOMAIN images \subseteq Nat \ {0}
            BY <1>2, LenProperties
        <3>2. Within(folders, 0) = {} /\ Within(images, 0) = {}
            BY <3>1 DEF Within
        <3> QED BY <3>2 DEF CursorPast, Past, Init
    <2>2. Once = {} /\ Twice = {}
        BY DEF Once, Twice, Init
    <2> QED BY <2>1, <2>2 DEF CursorSkipped, CursorRepeated, Skipped, Repeated
<1>7. CursorInv
    BY <1>6, FS_EmptySet DEF CursorInv, Few, Init
<1>8. PageInv /\ LocalsInv /\ AdvanceInv /\ EndInv
    BY DEF Init, PageInv, LocalsInv, AdvanceInv, EndInv
<1> QED BY <1>4, <1>5, <1>7, <1>8 DEF PagingInv

\* The parts of the invariant that a step of the search cannot disturb.
LEMMA SearchKeeps ==
    ASSUME PagingInv, UNCHANGED <<library, types, cursor, shown>>, step # "ended"
    PROVE  LibraryInv' /\ CursorInv'
<1>1. LibraryInv'
    BY DEF PagingInv, LibraryInv, library
<1>2. CursorSkipped' = CursorSkipped /\ CursorRepeated' = CursorRepeated
    BY CursorKept DEF library
<1>3. inserted' = inserted /\ removed' = removed
    BY DEF library
<1>4. Few(CursorSkipped, removed) /\ Few(CursorRepeated, inserted)
    BY DEF PagingInv, CursorInv
<1>5. CursorInv'
    BY <1>2, <1>3, <1>4 DEF CursorInv
<1> QED BY <1>1, <1>5

LEMMA ListContainersKeeps ==
    ASSUME PagingInv, NEW limit \in Limits, ListContainers(limit)
    PROVE  PagingInv'
<1> DEFINE listed == IF "CONTAINER" \in types THEN folders ELSE <<>>
           sliced == Slice(listed, cursor.containerOffset, limit)
<1>1. TypeOK /\ LibraryInv /\ CursorInv /\ LocalsInv
    BY DEF PagingInv
<1>2. /\ step = "containers" /\ step' = "assets"
      /\ page' = ToSet(sliced) /\ remaining' = limit - Len(sliced)
      /\ containerOffset' = cursor.containerOffset + Len(sliced)
      /\ moreFolders' = (containerOffset' < Len(listed))
      /\ assetOffset' = cursor.assetOffset
      /\ UNCHANGED <<library, types, cursor, wanted, total, shown>>
    BY DEF ListContainers
<1>3. limit \in Nat /\ limit # 0
    BY PaginationAssumption
<1>4. cursor.containerOffset \in Nat /\ cursor.assetOffset \in Nat
    BY <1>1 DEF TypeOK
<1>5. /\ listed \in Seq(Folders) /\ IsInjective(listed)
      /\ listed = IF "CONTAINER" \in types THEN folders ELSE <<>>
    <2>1. <<>> \in Seq(Folders) /\ IsInjective(<<>>)
        BY DEF IsInjective
    <2> QED BY <1>1, <2>1 DEF TypeOK, LibraryInv
<1> HIDE DEF listed
<1>6. sliced \in Seq(Folders) /\ Len(sliced) \in Nat /\ Len(sliced) <= limit
    BY <1>3, <1>4, <1>5, SliceIs
<1>listing. listed \in Seq(Folders) /\ IsInjective(listed)
    BY <1>5
<1>7a. ToSet(sliced) \subseteq Beyond(listed, cursor.containerOffset)
    BY <1>3, <1>4, <1>listing, SliceFacts
<1>7b. Within(listed, cursor.containerOffset + Len(sliced))
           \subseteq Within(listed, cursor.containerOffset) \cup ToSet(sliced)
    BY <1>3, <1>4, <1>listing, SliceFacts
<1>8. ToSet(sliced) \cap Beyond(listed, cursor.containerOffset + Len(sliced)) = {}
    BY <1>3, <1>4, <1>listing, SliceFacts
<1>9. /\ Len(sliced) = 0 => Len(listed) <= cursor.containerOffset
      /\ cursor.containerOffset + Len(sliced) < Len(listed) => Len(sliced) = limit
    BY <1>3, <1>4, <1>5, SliceFacts
<1> HIDE DEF sliced
<1>10. ToSet(sliced) \subseteq Folders /\ page' \subseteq Folders
    BY <1>2, <1>6, ListingFacts
<1>11. containerOffset' \in Nat /\ remaining' \in Nat
    BY <1>2, <1>3, <1>4, <1>6
<1>12. TypeOK'
    <2>1. page' \subseteq Items /\ moreFolders' \in BOOLEAN /\ assetOffset' \in Nat
        BY <1>2, <1>4, <1>10 DEF Items
    <2>2. wanted' = {} /\ Cardinality({}) <= remaining'
        <3>1. wanted' = {} /\ Cardinality({}) = 0
            BY <1>1, <1>2, FS_EmptySet DEF LocalsInv
        <3> QED BY <1>11, <3>1
    <2>3. wanted' \subseteq Supported /\ Cardinality(wanted') <= remaining'
        BY <2>2
    <2> QED BY <1>1, <1>2, <1>11, <2>1, <2>3 DEF TypeOK, library
<1>13. LibraryInv' /\ CursorInv'
    BY <1>2, SearchKeeps
<1>14. PageInv'
    <2>1. Once' = Once /\ Twice' = Twice /\ OnPage' = page'
        BY <1>2, CursorKept DEF library, OnPage
    <2>2. folders' = folders /\ images' = images /\ stayed' = stayed /\ types' = types
        BY <1>2 DEF library
    <2>3. \A x \in Folders : Shows(x) => listed = folders
        BY <1>5 DEF Shows
    <2>4. page' \subseteq Beyond(folders, cursor.containerOffset)
        <3>1. CASE listed = folders
            BY <1>2, <1>7a, <3>1
        <3>2. CASE listed = <<>>
            <4>1. Beyond(<<>>, cursor.containerOffset) = {}
                BY DEF Beyond
            <4> QED BY <1>2, <1>7a, <3>2, <4>1
        <3> QED BY <1>5, <3>1, <3>2
    <2>5. page' \cap Beyond(folders, containerOffset') = {}
        <3>1. CASE listed = folders
            BY <1>2, <1>8, <3>1
        <3>2. CASE listed = <<>>
            <4>1. Beyond(<<>>, cursor.containerOffset) = {}
                BY DEF Beyond
            <4> QED BY <1>2, <1>7a, <3>2, <4>1
        <3> QED BY <1>5, <3>1, <3>2
    <2>6. Beyond(folders, containerOffset') \subseteq Beyond(folders, cursor.containerOffset)
        <3>1. cursor.containerOffset <= containerOffset'
            BY <1>2, <1>4, <1>6
        <3> QED BY <1>1, <1>4, <1>11, <3>1, ListingFacts DEF TypeOK
    <2>7. page' \cap Beyond(images, cursor.assetOffset) = {}
        <3>1. Beyond(images, cursor.assetOffset) \subseteq Images
            BY <1>1, ListingFacts DEF TypeOK
        <3> QED BY <1>10, <3>1, PaginationAssumption
    <2>8. PageRepeated' \subseteq CursorRepeated
        <3>1. PageAhead' = Beyond(folders, containerOffset')
                              \cup Beyond(images, cursor.assetOffset)
            BY <1>2, <2>2 DEF PageAhead, Ahead
        <3>2. CursorAhead = Beyond(folders, cursor.containerOffset)
                              \cup Beyond(images, cursor.assetOffset)
            BY DEF CursorAhead, Ahead
        <3>3. PageRepeated' = (Twice \cup (Once \cap page'))
                                \cup ((Once \cup page') \cap PageAhead')
            BY <2>1 DEF PageRepeated, Repeated
        <3> QED BY <2>4, <2>5, <2>6, <2>7, <3>1, <3>2, <3>3 DEF CursorRepeated, Repeated
    <2>9. PageSkipped' \subseteq CursorSkipped
        <3> SUFFICES ASSUME NEW x \in stayed \ (Once \cup page'), Shows(x),
                            \/ x \in PagePast'
                            \/ ~ moreFolders' /\ x \in Folders
                     PROVE  x \in CursorPast
            BY <1>2, <2>1, <2>2 DEF PageSkipped, CursorSkipped, Skipped, Shows
        <3>1. PagePast' = Within(folders, containerOffset')
                             \cup Within(images, cursor.assetOffset)
            BY <1>2, <2>2 DEF PagePast, Past
        <3>2. CursorPast = Within(folders, cursor.containerOffset)
                             \cup Within(images, cursor.assetOffset)
            BY DEF CursorPast, Past
        <3>3. ASSUME x \in Within(folders, containerOffset')
              PROVE  x \in Within(folders, cursor.containerOffset)
            <4>1. x \in Folders
                BY <1>1, <3>3, ListingFacts DEF TypeOK
            <4> QED BY <1>2, <1>7b, <2>3, <3>3, <4>1
        <3>4. ASSUME ~ moreFolders', x \in Folders
              PROVE  x \in Within(folders, containerOffset')
            <4>1. listed = folders /\ x \in ToSet(folders)
                BY <1>1, <2>3, <3>4, StayedListed
            <4>2. Len(folders) \in Nat /\ folders \in Seq(Folders)
                BY <1>1, LenProperties DEF TypeOK
            <4>3. Len(folders) <= containerOffset'
                <5>1. ~ (containerOffset' < Len(folders))
                    BY <1>2, <3>4, <4>1
                <5> QED BY <1>11, <4>2, <5>1
            <4>4. Within(folders, containerOffset') = ToSet(folders)
                BY <1>11, <4>2, <4>3, ListingFacts
            <4> QED BY <4>1, <4>4
        <3> QED BY <3>1, <3>2, <3>3, <3>4
    <2>10. Few(CursorSkipped, removed) /\ Few(CursorRepeated, inserted)
        BY <1>1, <1>2 DEF CursorInv
    <2>11. removed' = removed /\ inserted' = inserted /\ removed \in Nat /\ inserted \in Nat
        BY <1>1, <1>2 DEF library, TypeOK
    <2>12. Few(PageSkipped', removed) /\ Few(PageRepeated', inserted)
        BY <2>8, <2>9, <2>10, <2>11, FewOfFewer
    <2> QED BY <2>11, <2>12 DEF PageInv
<1>15. LocalsInv'
    BY <1>1, <1>2, <1>10 DEF LocalsInv
<1>16. AdvanceInv'
    <2>1. moreFolders' => Len(sliced) # 0
        <3>1. Len(listed) \in Nat
            BY <1>5, LenProperties
        <3> QED BY <1>2, <1>3, <1>4, <1>6, <1>9, <3>1
    <2>2. remaining' = 0 => Len(sliced) # 0
        BY <1>2, <1>3, <1>6
    <2>3. /\ containerOffset' >= cursor.containerOffset
          /\ moreFolders' \/ remaining' = 0 => containerOffset' > cursor.containerOffset
        BY <1>2, <1>4, <1>6, <2>1, <2>2
    <2>4. assetOffset' >= cursor.assetOffset
        BY <1>2, <1>4
    <2> QED BY <1>2, <2>3, <2>4 DEF AdvanceInv
<1>17. EndInv'
    BY <1>2 DEF EndInv
<1> QED BY <1>12, <1>13, <1>14, <1>15, <1>16, <1>17 DEF PagingInv

LEMMA ListAssetsKeeps ==
    ASSUME PagingInv, ListAssets
    PROVE  PagingInv'
<1> DEFINE asked == Least(remaining, FindMaxLimit)
           rows == Slice(images, cursor.assetOffset, asked)
<1>1. TypeOK /\ LibraryInv /\ PageInv /\ LocalsInv /\ AdvanceInv
    BY DEF PagingInv
<1>2. /\ step = "assets" /\ remaining > 0
      /\ total' \in Total
      /\ wanted' = ToSet(rows) \cap Supported
      /\ assetOffset' = Advance(cursor.assetOffset, rows, total')
      /\ step' = IF wanted' = {} THEN "respond" ELSE "previews"
      /\ UNCHANGED <<library, types, cursor, page, remaining, moreFolders,
                      containerOffset, shown>>
    BY DEF ListAssets
<1>3. page \subseteq Folders /\ assetOffset = cursor.assetOffset /\ assetOffset \in Nat
    BY <1>1, <1>2 DEF LocalsInv, TypeOK
<1>4. folders \in Seq(Folders) /\ images \in Seq(Images) /\ IsInjective(images)
    BY <1>1 DEF TypeOK, LibraryInv
<1>5. Len(images) \in Nat /\ total' \in Nat /\ Len(images) <= total'
    <2>1. Len(images) \in Nat
        BY <1>4, LenProperties
    <2>2. total' = Len(images) \/ total' = Len(images) + 1
        BY <1>2 DEF Total
    <2> QED BY <2>1, <2>2
<1>6. remaining \in Nat /\ asked \in Nat /\ asked # 0 /\ asked <= remaining
    <2>1. FindMaxLimit \in Nat /\ FindMaxLimit # 0
        BY PaginationAssumption
    <2>2. remaining \in Nat /\ remaining # 0
        BY <1>1, <1>2 DEF TypeOK
    <2> QED BY <2>1, <2>2 DEF Least
<1> HIDE DEF asked
<1> DEFINE next == Advance(assetOffset, rows, total')
<1>7. rows = Slice(images, assetOffset, asked) /\ assetOffset' = next
    BY <1>2, <1>3
<1>8. rows \in Seq(Images) /\ Len(rows) \in Nat /\ Len(rows) <= asked
    BY <1>3, <1>4, <1>6, <1>7, SliceIs
<1> HIDE DEF rows
<1>rows. /\ images \in Seq(Images) /\ IsInjective(images)
         /\ assetOffset \in Nat /\ asked \in Nat /\ asked # 0
         /\ total' \in Nat /\ Len(images) <= total'
         /\ rows = Slice(images, assetOffset, asked)
         /\ next = Advance(assetOffset, rows, total')
    BY <1>3, <1>4, <1>5, <1>6, <1>7
<1> HIDE DEF next
<1>9. next \in Nat /\ assetOffset <= next /\ (next < total' => assetOffset < next)
    <2>1. next \in Nat
        BY <1>rows, AdvanceFacts
    <2>2. assetOffset <= next
        BY <1>rows, AdvanceFacts
    <2>3. next < total' => assetOffset < next
        BY <1>rows, AdvanceFacts
    <2> QED BY <2>1, <2>2, <2>3
<1>10. /\ ToSet(rows) \subseteq Beyond(images, assetOffset)
       /\ Beyond(images, next) \subseteq Beyond(images, assetOffset)
    <2>1. ToSet(rows) \subseteq Beyond(images, assetOffset)
        BY <1>rows, AdvanceFacts
    <2>2. Beyond(images, next) \subseteq Beyond(images, assetOffset)
        BY <1>rows, AdvanceFacts
    <2> QED BY <2>1, <2>2
<1>11. ToSet(rows) \cap Beyond(images, next) = {}
    BY <1>rows, AdvanceFacts
<1>12. Within(images, next) \subseteq Within(images, assetOffset) \cup ToSet(rows)
    BY <1>rows, AdvanceFacts
<1>13. TypeOK'
    <2>1. Few(wanted', remaining)
        <3>1. Few(ToSet(rows), Len(rows)) /\ wanted' \subseteq ToSet(rows)
            BY <1>2, <1>8, RowsFew
        <3>2. Few(wanted', Len(rows))
            BY <1>8, <3>1, FewOfFewer
        <3>3. IsFiniteSet(wanted') /\ Cardinality(wanted') \in Nat
              /\ Cardinality(wanted') <= Len(rows)
            BY <3>2, FS_CardinalityType DEF Few
        <3>4. Cardinality(wanted') <= remaining
            BY <1>6, <1>8, <3>3
        <3> QED BY <3>3, <3>4 DEF Few
    <2>2. wanted' \subseteq Supported
        BY <1>2
    <2>3. assetOffset' \in Nat /\ total' \in Nat
        BY <1>5, <1>7, <1>9
    <2> QED BY <1>1, <1>2, <2>1, <2>2, <2>3 DEF TypeOK, library, Few
<1>14. LibraryInv' /\ CursorInv'
    BY <1>2, SearchKeeps
<1>15. PageInv'
    <2>1. Once' = Once /\ Twice' = Twice
        BY <1>2, CursorKept DEF library
    <2>2. OnPage = page /\ OnPage' = page \cup wanted'
        BY <1>2 DEF OnPage
    <2>3. folders' = folders /\ images' = images /\ stayed' = stayed /\ types' = types
        BY <1>2 DEF library
    <2>4. PageAhead = Beyond(folders, containerOffset) \cup Beyond(images, assetOffset)
        BY DEF PageAhead, Ahead
    <2>5. PageAhead' = Beyond(folders, containerOffset) \cup Beyond(images, next)
        BY <1>2, <1>7, <2>3 DEF PageAhead, Ahead
    <2>6. wanted' \cap PageAhead' = {}
        <3>1. Beyond(folders, containerOffset) \subseteq Folders /\ ToSet(rows) \subseteq Images
            BY <1>4, <1>8, ListingFacts
        <3>2. ToSet(rows) \cap Beyond(folders, containerOffset) = {}
            BY <3>1, PaginationAssumption
        <3> QED BY <1>2, <1>11, <2>5, <3>2
    <2>7. PageRepeated' \subseteq PageRepeated
        <3>1. PageRepeated' = (Twice \cup (Once \cap (page \cup wanted')))
                                \cup ((Once \cup (page \cup wanted')) \cap PageAhead')
            BY <2>1, <2>2 DEF PageRepeated, Repeated
        <3>2. PageRepeated = (Twice \cup (Once \cap page)) \cup ((Once \cup page) \cap PageAhead)
            BY <2>2 DEF PageRepeated, Repeated
        <3>3. wanted' \subseteq PageAhead /\ PageAhead' \subseteq PageAhead
            BY <1>2, <1>10, <2>4, <2>5
        <3> QED BY <2>6, <3>1, <3>2, <3>3
    <2>8. PageSkipped' \subseteq PageSkipped
        <3> SUFFICES ASSUME NEW x \in stayed \ (Once \cup (page \cup wanted')), Shows(x),
                            \/ x \in PagePast'
                            \/ ~ moreFolders /\ x \in Folders
                            \/ total' <= assetOffset' /\ x \in Images
                     PROVE  x \in PagePast \/ (~ moreFolders /\ x \in Folders)
            BY <1>2, <2>1, <2>2, <2>3 DEF PageSkipped, Skipped, Shows
        <3>1. PagePast = Within(folders, containerOffset) \cup Within(images, assetOffset)
            BY DEF PagePast, Past
        <3>2. PagePast' = Within(folders, containerOffset) \cup Within(images, next)
            BY <1>2, <1>7, <2>3 DEF PagePast, Past
        <3>3. ASSUME x \in Within(images, next) PROVE x \in Within(images, assetOffset)
            <4>1. x \in Images /\ x \notin Folders
                BY <1>4, <3>3, ListingFacts, PaginationAssumption
            <4>2. x \in Supported
                BY <4>1 DEF Shows
            <4>3. x \notin ToSet(rows)
                BY <1>2, <4>2
            <4> QED BY <1>12, <3>3, <4>3
        <3>4. ASSUME total' <= assetOffset', x \in Images
              PROVE  x \in Within(images, next)
            <4>1. Len(images) <= next
                BY <1>5, <1>7, <1>9, <3>4
            <4>2. x \in ToSet(images)
                BY <1>1, <3>4, StayedListed
            <4> QED BY <1>4, <1>9, <4>1, <4>2, ListingFacts
        <3> QED BY <3>1, <3>2, <3>3, <3>4
    <2>9. /\ Few(PageSkipped, removed) /\ Few(PageRepeated, inserted)
          /\ removed' = removed /\ inserted' = inserted
          /\ removed \in Nat /\ inserted \in Nat
        BY <1>1, <1>2 DEF PageInv, library, TypeOK
    <2>10. Few(PageSkipped', removed) /\ Few(PageRepeated', inserted)
        BY <2>7, <2>8, <2>9, FewOfFewer
    <2> QED BY <2>9, <2>10 DEF PageInv
<1>16. LocalsInv' /\ EndInv'
    BY <1>2 DEF LocalsInv, EndInv
<1>17. AdvanceInv'
    <2>1. /\ containerOffset \in Nat /\ cursor.containerOffset \in Nat
          /\ containerOffset >= cursor.containerOffset
          /\ moreFolders \/ remaining = 0 => containerOffset > cursor.containerOffset
        BY <1>1, <1>2 DEF AdvanceInv, TypeOK
    <2>2. /\ containerOffset' = containerOffset /\ cursor' = cursor
          /\ moreFolders' = moreFolders /\ remaining' = remaining
        BY <1>2
    <2>3. /\ assetOffset' \in Nat /\ cursor.assetOffset \in Nat
          /\ assetOffset' >= cursor.assetOffset
          /\ assetOffset' < total' => assetOffset' > cursor.assetOffset
        BY <1>3, <1>5, <1>7, <1>9
    <2>4. assetOffset' < total' =>
             containerOffset + assetOffset' > cursor.containerOffset + cursor.assetOffset
        BY <2>1, <2>3
    <2> QED BY <2>1, <2>2, <2>3, <2>4 DEF AdvanceInv
<1> QED BY <1>13, <1>14, <1>15, <1>16, <1>17 DEF PagingInv

LEMMA ResolvePreviewsKeeps ==
    ASSUME PagingInv, ResolvePreviews
    PROVE  PagingInv'
<1>1. TypeOK /\ LibraryInv /\ PageInv /\ AdvanceInv
    BY DEF PagingInv
<1>2. /\ step = "previews" /\ step' = "respond"
      /\ page' = page \cup (wanted \cap ToSet(images))
      /\ UNCHANGED <<library, types, cursor, remaining, moreFolders, wanted, total,
                      containerOffset, assetOffset, shown>>
    BY DEF ResolvePreviews
<1>3. wanted \subseteq Items /\ wanted \subseteq Images
    BY <1>1, PaginationAssumption DEF TypeOK, Items
<1>4. TypeOK'
    BY <1>1, <1>2, <1>3 DEF TypeOK, library
<1>5. LibraryInv' /\ CursorInv'
    BY <1>2, SearchKeeps
<1>6. PageInv'
    <2>1. Once' = Once /\ Twice' = Twice
        BY <1>2, CursorKept DEF library
    <2>2. OnPage = page \cup wanted /\ OnPage' = page \cup (wanted \cap ToSet(images))
        BY <1>2 DEF OnPage
    <2>3. folders' = folders /\ images' = images /\ stayed' = stayed /\ types' = types
        BY <1>2 DEF library
    <2>4. PageAhead' = PageAhead /\ PagePast' = PagePast
        BY <1>2, <2>3 DEF PageAhead, PagePast
    <2>5. PageRepeated' \subseteq PageRepeated
        BY <2>1, <2>2, <2>4 DEF PageRepeated, Repeated
    <2>6. stayed \cap wanted \subseteq ToSet(images)
        BY <1>1, <1>3, StayedListed
    <2>7. PageSkipped' \subseteq PageSkipped
        BY <1>2, <2>1, <2>2, <2>3, <2>4, <2>6 DEF PageSkipped, Skipped, Shows
    <2>8. /\ Few(PageSkipped, removed) /\ Few(PageRepeated, inserted)
          /\ removed' = removed /\ inserted' = inserted
          /\ removed \in Nat /\ inserted \in Nat
        BY <1>1, <1>2 DEF PageInv, library, TypeOK
    <2>9. Few(PageSkipped', removed) /\ Few(PageRepeated', inserted)
        BY <2>5, <2>7, <2>8, FewOfFewer
    <2> QED BY <2>8, <2>9 DEF PageInv
<1>7. LocalsInv' /\ EndInv' /\ AdvanceInv'
    BY <1>1, <1>2 DEF LocalsInv, EndInv, AdvanceInv
<1> QED BY <1>4, <1>5, <1>6, <1>7 DEF PagingInv

LEMMA CountAssetsKeeps ==
    ASSUME PagingInv, CountAssets
    PROVE  PagingInv'
<1>1. TypeOK /\ LibraryInv /\ PageInv /\ LocalsInv /\ AdvanceInv
    BY DEF PagingInv
<1>2. /\ step = "assets" /\ step' = "respond" /\ remaining = 0 /\ total' \in Total
      /\ UNCHANGED <<library, types, cursor, page, remaining, moreFolders, wanted,
                      containerOffset, assetOffset, shown>>
    BY DEF CountAssets
<1>3. assetOffset \in Nat /\ images \in Seq(Images)
    BY <1>1 DEF TypeOK
<1>4. Len(images) \in Nat /\ total' \in Nat /\ Len(images) <= total'
    <2>1. Len(images) \in Nat
        BY <1>3, LenProperties
    <2>2. total' = Len(images) \/ total' = Len(images) + 1
        BY <1>2 DEF Total
    <2> QED BY <2>1, <2>2
<1>5. TypeOK'
    BY <1>1, <1>2, <1>4 DEF TypeOK, library
<1>6. LibraryInv' /\ CursorInv'
    BY <1>2, SearchKeeps
<1>7. PageInv'
    <2>1. Once' = Once /\ Twice' = Twice
        BY <1>2, CursorKept DEF library
    <2>2. OnPage' = OnPage
        BY <1>2 DEF OnPage
    <2>3. folders' = folders /\ images' = images /\ stayed' = stayed /\ types' = types
        BY <1>2 DEF library
    <2>4. PageAhead' = PageAhead /\ PagePast' = PagePast
        BY <1>2, <2>3 DEF PageAhead, PagePast
    <2>5. PageRepeated' \subseteq PageRepeated
        BY <2>1, <2>2, <2>4 DEF PageRepeated, Repeated
    <2>6. total' <= assetOffset => stayed \cap Images \subseteq PagePast
        <3> SUFFICES ASSUME total' <= assetOffset
                     PROVE  stayed \cap Images \subseteq PagePast
            OBVIOUS
        <3>1. Len(images) <= assetOffset
            BY <1>3, <1>4
        <3>2. Within(images, assetOffset) = ToSet(images)
            BY <1>3, <3>1, ListingFacts
        <3> QED BY <1>1, <3>2, StayedListed DEF PagePast, Past
    <2>7. PageSkipped' \subseteq PageSkipped
        BY <1>2, <2>1, <2>2, <2>3, <2>4, <2>6 DEF PageSkipped, Skipped, Shows
    <2>8. /\ Few(PageSkipped, removed) /\ Few(PageRepeated, inserted)
          /\ removed' = removed /\ inserted' = inserted
          /\ removed \in Nat /\ inserted \in Nat
        BY <1>1, <1>2 DEF PageInv, library, TypeOK
    <2>9. Few(PageSkipped', removed) /\ Few(PageRepeated', inserted)
        BY <2>5, <2>7, <2>8, FewOfFewer
    <2> QED BY <2>8, <2>9 DEF PageInv
<1>8. AdvanceInv'
    <2>1. /\ containerOffset \in Nat /\ cursor.containerOffset \in Nat
          /\ containerOffset > cursor.containerOffset
          /\ assetOffset = cursor.assetOffset
        BY <1>1, <1>2 DEF AdvanceInv, LocalsInv, TypeOK
    <2>2. containerOffset + assetOffset > cursor.containerOffset + cursor.assetOffset
        BY <1>3, <2>1
    <2> QED BY <1>1, <1>2, <2>2 DEF AdvanceInv
<1>9. LocalsInv' /\ EndInv'
    BY <1>2 DEF LocalsInv, EndInv
<1> QED BY <1>5, <1>6, <1>7, <1>8, <1>9 DEF PagingInv

LEMMA NoAssetsKeeps ==
    ASSUME PagingInv, NoAssets
    PROVE  PagingInv'
<1>1. TypeOK /\ LibraryInv /\ PageInv /\ LocalsInv /\ AdvanceInv
    BY DEF PagingInv
<1>2. /\ step = "assets" /\ step' = "respond" /\ "IMAGE" \notin types
      /\ UNCHANGED <<library, types, cursor, page, remaining, moreFolders, wanted, total,
                      containerOffset, assetOffset, shown>>
    BY DEF NoAssets, locals
<1>3. TypeOK'
    BY <1>1, <1>2 DEF TypeOK, library
<1>4. LibraryInv' /\ CursorInv'
    BY <1>2, SearchKeeps
<1>5. PageInv'
    <2>1. Once' = Once /\ Twice' = Twice
        BY <1>2, CursorKept DEF library
    <2>2. OnPage' = OnPage
        BY <1>2 DEF OnPage
    <2>3. folders' = folders /\ images' = images /\ stayed' = stayed /\ types' = types
        BY <1>2 DEF library
    <2>4. PageAhead' = PageAhead /\ PagePast' = PagePast
        BY <1>2, <2>3 DEF PageAhead, PagePast
    <2>5. PageRepeated' \subseteq PageRepeated
        BY <2>1, <2>2, <2>4 DEF PageRepeated, Repeated
    <2>6. \A x \in Images : ~ Shows(x)
        BY <1>2, PaginationAssumption DEF Shows
    <2>7. PageSkipped' \subseteq PageSkipped
        BY <1>2, <2>1, <2>2, <2>3, <2>4, <2>6 DEF PageSkipped, Skipped, Shows
    <2>8. /\ Few(PageSkipped, removed) /\ Few(PageRepeated, inserted)
          /\ removed' = removed /\ inserted' = inserted
          /\ removed \in Nat /\ inserted \in Nat
        BY <1>1, <1>2 DEF PageInv, library, TypeOK
    <2>9. Few(PageSkipped', removed) /\ Few(PageRepeated', inserted)
        BY <2>5, <2>7, <2>8, FewOfFewer
    <2> QED BY <2>8, <2>9 DEF PageInv
<1>6. AdvanceInv'
    <2>1. total' = 0 /\ assetOffset' \in Nat
        BY <1>1, <1>2, <1>3 DEF LocalsInv, TypeOK
    <2>2. ~ (assetOffset' < total')
        BY <2>1
    <2> QED BY <1>1, <1>2, <2>2 DEF AdvanceInv
<1>7. LocalsInv' /\ EndInv'
    BY <1>2 DEF LocalsInv, EndInv
<1> QED BY <1>3, <1>4, <1>5, <1>6, <1>7 DEF PagingInv

\* What is reset has its type.
LEMMA ResetTypes ==
    ASSUME Reset
    PROVE  /\ page' = {} /\ remaining' = 0 /\ moreFolders' = FALSE /\ wanted' = {}
           /\ total' = 0 /\ containerOffset' = 0 /\ assetOffset' = 0
           /\ page' \subseteq Items /\ wanted' \subseteq Supported
           /\ Cardinality(wanted') <= remaining'
<1>1. Cardinality({}) = 0
    BY FS_EmptySet
<1> QED BY <1>1 DEF Reset

LEMMA FailPageKeeps ==
    ASSUME PagingInv, FailPage
    PROVE  PagingInv'
<1>1. TypeOK
    BY DEF PagingInv
<1>2. /\ step \in {"assets", "previews", "respond"} /\ step' = "containers" /\ Reset
      /\ UNCHANGED <<library, types, cursor, shown>>
    BY DEF FailPage
<1>3. TypeOK'
    BY <1>1, <1>2, ResetTypes DEF TypeOK, library
<1>4. LibraryInv' /\ CursorInv'
    BY <1>2, SearchKeeps
<1>5. PageInv' /\ LocalsInv' /\ AdvanceInv' /\ EndInv'
    BY <1>2, ResetTypes DEF PageInv, LocalsInv, AdvanceInv, EndInv
<1> QED BY <1>3, <1>4, <1>5 DEF PagingInv

LEMMA RespondKeeps ==
    ASSUME PagingInv, Respond
    PROVE  PagingInv'
<1> DEFINE more == moreFolders \/ assetOffset < total
<1>1. TypeOK /\ LibraryInv /\ PageInv
    BY DEF PagingInv
<1>2. /\ step = "respond"
      /\ shown' = [x \in Items |-> shown[x] + (IF x \in page THEN 1 ELSE 0)]
      /\ cursor' = IF more THEN [containerOffset |-> containerOffset,
                                 assetOffset |-> assetOffset]
                   ELSE cursor
      /\ step' = IF more THEN "containers" ELSE "ended"
      /\ Reset
      /\ UNCHANGED <<library, types>>
    BY DEF Respond
<1>3. shown' \in [Items -> Nat]
    BY <1>1, <1>2 DEF TypeOK
<1>4. TypeOK'
    <2>1. cursor' \in [containerOffset : Nat, assetOffset : Nat]
        BY <1>1, <1>2 DEF TypeOK
    <2> QED BY <1>1, <1>2, <1>3, <2>1, ResetTypes DEF TypeOK, library
<1>5. LibraryInv'
    BY <1>1, <1>2 DEF LibraryInv, library
<1>6. OnPage = page
    BY <1>2 DEF OnPage
<1>7. Once' = Once \cup page /\ Twice' = Twice \cup (Once \cap page)
    <2> SUFFICES ASSUME NEW x \in Items
                 PROVE  /\ shown'[x] > 0 <=> shown[x] > 0 \/ x \in page
                        /\ shown'[x] > 1 <=> shown[x] > 1 \/ (shown[x] > 0 /\ x \in page)
        BY <1>1 DEF Once, Twice, TypeOK
    <2>1. shown[x] \in Nat /\ shown'[x] = shown[x] + (IF x \in page THEN 1 ELSE 0)
        BY <1>1, <1>2 DEF TypeOK
    <2> QED BY <2>1
<1>8. /\ Few(PageSkipped, removed) /\ Few(PageRepeated, inserted)
      /\ removed' = removed /\ inserted' = inserted
      /\ removed \in Nat /\ inserted \in Nat
    BY <1>1, <1>2 DEF PageInv, library, TypeOK
<1>9. folders' = folders /\ images' = images /\ stayed' = stayed /\ types' = types
    BY <1>2 DEF library
<1>10. Twice' \subseteq PageRepeated
    BY <1>6, <1>7 DEF PageRepeated, Repeated
<1>11. CursorInv'
    <2> SUFFICES ASSUME more PROVE CursorInv'
        BY <1>2 DEF CursorInv
    <2>1. cursor'.containerOffset = containerOffset /\ cursor'.assetOffset = assetOffset
        BY <1>2
    <2>2. CursorPast' = PagePast /\ CursorAhead' = PageAhead
        BY <1>9, <2>1 DEF CursorPast, PagePast, CursorAhead, PageAhead
    <2>3. CursorSkipped' \subseteq PageSkipped
        BY <1>6, <1>7, <1>9, <2>2 DEF CursorSkipped, PageSkipped, Skipped, Shows
    <2>4. CursorRepeated' \subseteq PageRepeated
        BY <1>6, <1>7, <2>2 DEF CursorRepeated, PageRepeated, Repeated
    <2>5. Few(CursorSkipped', removed) /\ Few(CursorRepeated', inserted)
        BY <1>8, <2>3, <2>4, FewOfFewer
    <2> QED BY <1>8, <2>5 DEF CursorInv
<1>12. EndInv'
    <2> SUFFICES ASSUME ~ more PROVE ChangesExplainPages'
        BY <1>2 DEF EndInv
    <2> DEFINE missed == {x \in stayed' : Shows(x)' /\ shown'[x] = 0}
    <2>1. missed \subseteq PageSkipped
        <3> SUFFICES ASSUME NEW x \in stayed, Shows(x), shown'[x] = 0
                     PROVE  x \in PageSkipped
            BY <1>9 DEF Shows
        <3>1. x \in Items /\ (x \in Folders \/ x \in Images)
            BY <1>1 DEF TypeOK, Items
        <3>2. x \notin Once \cup page
            BY <1>3, <1>7, <3>1 DEF Once
        <3>3. ~ moreFolders /\ total <= assetOffset
            BY <1>1 DEF TypeOK
        <3> QED BY <1>2, <1>6, <3>1, <3>2, <3>3 DEF PageSkipped, Skipped
    <2>2. Few(missed, removed) /\ Few(Twice', inserted)
        BY <1>8, <1>10, <2>1, FewOfFewer
    <2>3. Twice' = {x \in Items : shown'[x] > 1}
        BY DEF Twice
    <2> QED BY <1>8, <2>2, <2>3 DEF ChangesExplainPages, Few
<1>13. PageInv' /\ LocalsInv' /\ AdvanceInv'
    BY <1>2, ResetTypes DEF PageInv, LocalsInv, AdvanceInv
<1> QED BY <1>4, <1>5, <1>11, <1>12, <1>13 DEF PagingInv

-----------------------------------------------------------------------------
(* Changes of the library. *)

\* An item that is added does not carry anything that stayed behind an offset,
\* and pushes at most one item ahead of it.
LEMMA AddedItem ==
    ASSUME TypeOK, LibraryInv, AddItem
    PROVE  /\ folders' \in Seq(Folders) /\ images' \in Seq(Images)
           /\ LibraryInv'
           /\ \A co, ao \in Nat :
                 stayed \cap Past(folders', images', co, ao) \subseteq Past(folders, images, co, ao)
           /\ \A co, ao \in Nat : \E y :
                 Ahead(folders', images', co, ao) \subseteq Ahead(folders, images, co, ao) \cup {y}
<1>1. folders \in Seq(Folders) /\ images \in Seq(Images) /\ stayed' = stayed
    BY DEF TypeOK, AddItem
<1>2. ToSet(folders) \subseteq Folders /\ ToSet(images) \subseteq Images
    BY <1>1, ListingFacts
<1>3. CASE \E f \in Folders \ ToSet(folders), at \in 1 .. Len(folders) + 1 :
              folders' = InsertAt(folders, at, f) /\ UNCHANGED images
    <2>1. PICK f \in Folders \ ToSet(folders), at \in 1 .. Len(folders) + 1 :
              folders' = InsertAt(folders, at, f) /\ images' = images
        BY <1>3
    <2>2. /\ folders' \in Seq(Folders)
          /\ ToSet(folders) \subseteq ToSet(folders')
          /\ IsInjective(folders) => IsInjective(folders')
        BY <1>1, <2>1, InsertFacts
    <2>3. \A o \in Nat : Within(folders', o) \subseteq Within(folders, o) \cup {f}
        BY <1>1, <2>1, InsertFacts
    <2>4. ASSUME NEW o \in Nat
          PROVE  \E y : Beyond(folders', o) \subseteq Beyond(folders, o) \cup {y}
        <3>1. \A s, t : s \in Seq(Folders) /\ t = InsertAt(s, at, f) /\ f \notin ToSet(s)
                           /\ at \in 1 .. Len(s) + 1 =>
                  \E y : Beyond(t, o) \subseteq Beyond(s, o) \cup {y}
            BY <2>1, InsertFacts
        <3> QED BY <1>1, <2>1, <3>1
    <2>5. f \notin stayed
        BY <1>2, PaginationAssumption DEF LibraryInv
    <2>6. ASSUME NEW co \in Nat, NEW ao \in Nat
          PROVE  stayed \cap Past(folders', images', co, ao) \subseteq Past(folders, images, co, ao)
        BY <2>1, <2>3, <2>5 DEF Past
    <2>7. ASSUME NEW co \in Nat, NEW ao \in Nat
          PROVE  \E y : Ahead(folders', images', co, ao)
                           \subseteq Ahead(folders, images, co, ao) \cup {y}
        <3>1. PICK y : Beyond(folders', co) \subseteq Beyond(folders, co) \cup {y}
            BY <2>4
        <3>2. Ahead(folders', images', co, ao) \subseteq Ahead(folders, images, co, ao) \cup {y}
            BY <2>1, <3>1 DEF Ahead
        <3> QED BY <3>2
    <2>8. LibraryInv'
        BY <1>1, <2>1, <2>2 DEF LibraryInv
    <2> QED BY <1>1, <2>1, <2>2, <2>6, <2>7, <2>8
<1>4. CASE \E i \in Images \ ToSet(images), at \in 1 .. Len(images) + 1 :
              images' = InsertAt(images, at, i) /\ UNCHANGED folders
    <2>1. PICK i \in Images \ ToSet(images), at \in 1 .. Len(images) + 1 :
              images' = InsertAt(images, at, i) /\ folders' = folders
        BY <1>4
    <2>2. /\ images' \in Seq(Images)
          /\ ToSet(images) \subseteq ToSet(images')
          /\ IsInjective(images) => IsInjective(images')
        BY <1>1, <2>1, InsertFacts
    <2>3. \A o \in Nat : Within(images', o) \subseteq Within(images, o) \cup {i}
        BY <1>1, <2>1, InsertFacts
    <2>4. ASSUME NEW o \in Nat
          PROVE  \E y : Beyond(images', o) \subseteq Beyond(images, o) \cup {y}
        <3>1. \A s, t : s \in Seq(Images) /\ t = InsertAt(s, at, i) /\ i \notin ToSet(s)
                           /\ at \in 1 .. Len(s) + 1 =>
                  \E y : Beyond(t, o) \subseteq Beyond(s, o) \cup {y}
            BY <2>1, InsertFacts
        <3> QED BY <1>1, <2>1, <3>1
    <2>5. i \notin stayed
        BY <1>2, PaginationAssumption DEF LibraryInv
    <2>6. ASSUME NEW co \in Nat, NEW ao \in Nat
          PROVE  stayed \cap Past(folders', images', co, ao) \subseteq Past(folders, images, co, ao)
        BY <2>1, <2>3, <2>5 DEF Past
    <2>7. ASSUME NEW co \in Nat, NEW ao \in Nat
          PROVE  \E y : Ahead(folders', images', co, ao)
                           \subseteq Ahead(folders, images, co, ao) \cup {y}
        <3>1. PICK y : Beyond(images', ao) \subseteq Beyond(images, ao) \cup {y}
            BY <2>4
        <3>2. Ahead(folders', images', co, ao) \subseteq Ahead(folders, images, co, ao) \cup {y}
            BY <2>1, <3>1 DEF Ahead
        <3> QED BY <3>2
    <2>8. LibraryInv'
        BY <1>1, <2>1, <2>2 DEF LibraryInv
    <2> QED BY <1>1, <2>1, <2>2, <2>6, <2>7, <2>8
<1> QED BY <1>3, <1>4 DEF AddItem

\* An item that is removed draws at most one item back behind an offset, and
\* pushes none ahead of it.
LEMMA RemovedItem ==
    ASSUME TypeOK, LibraryInv, RemoveItem
    PROVE  /\ folders' \in Seq(Folders) /\ images' \in Seq(Images)
           /\ LibraryInv' /\ stayed' \subseteq stayed
           /\ \A co, ao \in Nat : \E y :
                 Past(folders', images', co, ao) \subseteq Past(folders, images, co, ao) \cup {y}
           /\ \A co, ao \in Nat :
                 Ahead(folders', images', co, ao) \subseteq Ahead(folders, images, co, ao)
<1>1. folders \in Seq(Folders) /\ images \in Seq(Images)
    BY DEF TypeOK
<1>2. CASE \E at \in DOMAIN folders :
              /\ folders' = RemoveAt(folders, at) /\ UNCHANGED images
              /\ stayed' = stayed \ {folders[at]}
    <2>1. PICK at \in DOMAIN folders :
              /\ folders' = RemoveAt(folders, at) /\ images' = images
              /\ stayed' = stayed \ {folders[at]}
        BY <1>2
    <2>2. /\ folders' \in Seq(Folders)
          /\ ToSet(folders) \ {folders[at]} \subseteq ToSet(folders')
          /\ IsInjective(folders) => IsInjective(folders')
        BY <1>1, <2>1, RemoveFacts
    <2>3. \A o \in Nat : \E y : Within(folders', o) \subseteq Within(folders, o) \cup {y}
        BY <1>1, <2>1, RemoveFacts
    <2>4. \A o \in Nat : Beyond(folders', o) \subseteq Beyond(folders, o)
        BY <1>1, <2>1, RemoveFacts
    <2>5. ASSUME NEW co \in Nat, NEW ao \in Nat
          PROVE  \E y : Past(folders', images', co, ao)
                           \subseteq Past(folders, images, co, ao) \cup {y}
        <3>1. PICK y : Within(folders', co) \subseteq Within(folders, co) \cup {y}
            BY <2>3
        <3>2. Past(folders', images', co, ao) \subseteq Past(folders, images, co, ao) \cup {y}
            BY <2>1, <3>1 DEF Past
        <3> QED BY <3>2
    <2>6. ASSUME NEW co \in Nat, NEW ao \in Nat
          PROVE  Ahead(folders', images', co, ao) \subseteq Ahead(folders, images, co, ao)
        BY <2>1, <2>4 DEF Ahead
    <2>7. LibraryInv'
        BY <2>1, <2>2 DEF LibraryInv
    <2> QED BY <1>1, <2>1, <2>2, <2>5, <2>6, <2>7
<1>3. CASE \E at \in DOMAIN images :
              /\ images' = RemoveAt(images, at) /\ UNCHANGED folders
              /\ stayed' = stayed \ {images[at]}
    <2>1. PICK at \in DOMAIN images :
              /\ images' = RemoveAt(images, at) /\ folders' = folders
              /\ stayed' = stayed \ {images[at]}
        BY <1>3
    <2>2. /\ images' \in Seq(Images)
          /\ ToSet(images) \ {images[at]} \subseteq ToSet(images')
          /\ IsInjective(images) => IsInjective(images')
        BY <1>1, <2>1, RemoveFacts
    <2>3. \A o \in Nat : \E y : Within(images', o) \subseteq Within(images, o) \cup {y}
        BY <1>1, <2>1, RemoveFacts
    <2>4. \A o \in Nat : Beyond(images', o) \subseteq Beyond(images, o)
        BY <1>1, <2>1, RemoveFacts
    <2>5. ASSUME NEW co \in Nat, NEW ao \in Nat
          PROVE  \E y : Past(folders', images', co, ao)
                           \subseteq Past(folders, images, co, ao) \cup {y}
        <3>1. PICK y : Within(images', ao) \subseteq Within(images, ao) \cup {y}
            BY <2>3
        <3>2. Past(folders', images', co, ao) \subseteq Past(folders, images, co, ao) \cup {y}
            BY <2>1, <3>1 DEF Past
        <3> QED BY <3>2
    <2>6. ASSUME NEW co \in Nat, NEW ao \in Nat
          PROVE  Ahead(folders', images', co, ao) \subseteq Ahead(folders, images, co, ao)
        BY <2>1, <2>4 DEF Ahead
    <2>7. LibraryInv'
        BY <2>1, <2>2 DEF LibraryInv
    <2> QED BY <1>1, <2>1, <2>2, <2>5, <2>6, <2>7
<1> QED BY <1>2, <1>3 DEF RemoveItem

LEMMA AddItemKeeps ==
    ASSUME PagingInv, AddItem
    PROVE  PagingInv'
<1>1. TypeOK /\ LibraryInv /\ CursorInv /\ PageInv /\ LocalsInv /\ AdvanceInv
    BY DEF PagingInv
<1>2. /\ step # "ended" /\ inserted' = inserted + 1
      /\ UNCHANGED <<stayed, removed, types, cursor, step, page, remaining, moreFolders,
                      wanted, total, containerOffset, assetOffset, shown>>
    BY DEF AddItem, Changing, locals
<1>3. /\ inserted \in Nat /\ removed \in Nat
      /\ cursor.containerOffset \in Nat /\ cursor.assetOffset \in Nat
      /\ containerOffset \in Nat /\ assetOffset \in Nat
    BY <1>1 DEF TypeOK
<1>4. TypeOK'
    BY <1>1, <1>2, AddedItem DEF TypeOK
<1>5. LibraryInv'
    BY <1>1, AddedItem
<1>6. Once' = Once /\ Twice' = Twice /\ OnPage' = OnPage
    BY <1>2 DEF Once, Twice, OnPage
<1>7. CursorInv'
    <2>1. stayed \cap CursorPast' \subseteq CursorPast
        BY <1>1, <1>2, <1>3, AddedItem DEF CursorPast
    <2>2. PICK y : CursorAhead' \subseteq CursorAhead \cup {y}
        BY <1>1, <1>2, <1>3, AddedItem DEF CursorAhead
    <2>3. CursorSkipped' \subseteq CursorSkipped
        BY <1>2, <1>6, <2>1 DEF CursorSkipped, Skipped, Shows
    <2>4. CursorRepeated' \subseteq CursorRepeated \cup {y}
        BY <1>6, <2>2 DEF CursorRepeated, Repeated
    <2>5. Few(CursorSkipped, removed) /\ Few(CursorRepeated, inserted)
        BY <1>1, <1>2 DEF CursorInv
    <2>6. Few(CursorSkipped', removed) /\ Few(CursorRepeated', inserted + 1)
        BY <1>3, <2>3, <2>4, <2>5, FewOfFewer, FewAndOne
    <2> QED BY <1>2, <2>6 DEF CursorInv
<1>8. PageInv'
    <2> SUFFICES ASSUME step \in {"assets", "previews", "respond"} PROVE PageInv'
        BY <1>2 DEF PageInv
    <2>1. stayed \cap PagePast' \subseteq PagePast
        BY <1>1, <1>2, <1>3, AddedItem DEF PagePast
    <2>2. PICK y : PageAhead' \subseteq PageAhead \cup {y}
        BY <1>1, <1>2, <1>3, AddedItem DEF PageAhead
    <2>3. PageSkipped' \subseteq PageSkipped
        BY <1>2, <1>6, <2>1 DEF PageSkipped, Skipped, Shows
    <2>4. PageRepeated' \subseteq PageRepeated \cup {y}
        BY <1>6, <2>2 DEF PageRepeated, Repeated
    <2>5. Few(PageSkipped, removed) /\ Few(PageRepeated, inserted)
        BY <1>1 DEF PageInv
    <2>6. Few(PageSkipped', removed) /\ Few(PageRepeated', inserted + 1)
        BY <1>3, <2>3, <2>4, <2>5, FewOfFewer, FewAndOne
    <2> QED BY <1>2, <2>6 DEF PageInv
<1>9. LocalsInv' /\ AdvanceInv' /\ EndInv'
    BY <1>1, <1>2 DEF LocalsInv, AdvanceInv, EndInv
<1> QED BY <1>4, <1>5, <1>7, <1>8, <1>9 DEF PagingInv

LEMMA RemoveItemKeeps ==
    ASSUME PagingInv, RemoveItem
    PROVE  PagingInv'
<1>1. TypeOK /\ LibraryInv /\ CursorInv /\ PageInv /\ LocalsInv /\ AdvanceInv
    BY DEF PagingInv
<1>2. /\ step # "ended" /\ removed' = removed + 1
      /\ UNCHANGED <<inserted, types, cursor, step, page, remaining, moreFolders,
                      wanted, total, containerOffset, assetOffset, shown>>
    BY DEF RemoveItem, Changing, locals
<1>3. /\ inserted \in Nat /\ removed \in Nat
      /\ cursor.containerOffset \in Nat /\ cursor.assetOffset \in Nat
      /\ containerOffset \in Nat /\ assetOffset \in Nat
    BY <1>1 DEF TypeOK
<1>4. stayed' \subseteq stayed
    BY <1>1, RemovedItem
<1>5. TypeOK'
    BY <1>1, <1>2, <1>4, RemovedItem DEF TypeOK
<1>6. LibraryInv'
    BY <1>1, RemovedItem
<1>7. Once' = Once /\ Twice' = Twice /\ OnPage' = OnPage
    BY <1>2 DEF Once, Twice, OnPage
<1>8. CursorInv'
    <2>1. PICK y : CursorPast' \subseteq CursorPast \cup {y}
        BY <1>1, <1>2, <1>3, RemovedItem DEF CursorPast
    <2>2. CursorAhead' \subseteq CursorAhead
        BY <1>1, <1>2, <1>3, RemovedItem DEF CursorAhead
    <2>3. CursorSkipped' \subseteq CursorSkipped \cup {y}
        BY <1>2, <1>4, <1>7, <2>1 DEF CursorSkipped, Skipped, Shows
    <2>4. CursorRepeated' \subseteq CursorRepeated
        BY <1>7, <2>2 DEF CursorRepeated, Repeated
    <2>5. Few(CursorSkipped, removed) /\ Few(CursorRepeated, inserted)
        BY <1>1, <1>2 DEF CursorInv
    <2>6. Few(CursorSkipped', removed + 1) /\ Few(CursorRepeated', inserted)
        BY <1>3, <2>3, <2>4, <2>5, FewOfFewer, FewAndOne
    <2> QED BY <1>2, <2>6 DEF CursorInv
<1>9. PageInv'
    <2> SUFFICES ASSUME step \in {"assets", "previews", "respond"} PROVE PageInv'
        BY <1>2 DEF PageInv
    <2>1. PICK y : PagePast' \subseteq PagePast \cup {y}
        BY <1>1, <1>2, <1>3, RemovedItem DEF PagePast
    <2>2. PageAhead' \subseteq PageAhead
        BY <1>1, <1>2, <1>3, RemovedItem DEF PageAhead
    <2>3. PageSkipped' \subseteq PageSkipped \cup {y}
        BY <1>2, <1>4, <1>7, <2>1 DEF PageSkipped, Skipped, Shows
    <2>4. PageRepeated' \subseteq PageRepeated
        BY <1>7, <2>2 DEF PageRepeated, Repeated
    <2>5. Few(PageSkipped, removed) /\ Few(PageRepeated, inserted)
        BY <1>1 DEF PageInv
    <2>6. Few(PageSkipped', removed + 1) /\ Few(PageRepeated', inserted)
        BY <1>3, <2>3, <2>4, <2>5, FewOfFewer, FewAndOne
    <2> QED BY <1>2, <2>6 DEF PageInv
<1>10. LocalsInv' /\ AdvanceInv' /\ EndInv'
    BY <1>1, <1>2 DEF LocalsInv, AdvanceInv, EndInv
<1> QED BY <1>5, <1>6, <1>8, <1>9, <1>10 DEF PagingInv

-----------------------------------------------------------------------------
(* The theorems. *)

\* Every step of content_resources_find and every change of the library keep the
\* invariant of the search.
THEOREM Invariance == Spec => []PagingInv
<1>1. Init => PagingInv
    BY InitPaging
<1>2. PagingInv /\ [Next]_vars => PagingInv'
    <2> SUFFICES ASSUME PagingInv, [Next]_vars PROVE PagingInv'
        OBVIOUS
    <2>1. CASE \E limit \in Limits : ListContainers(limit)
        BY <2>1, ListContainersKeeps
    <2>2. CASE ListAssets
        BY <2>2, ListAssetsKeeps
    <2>3. CASE ResolvePreviews
        BY <2>3, ResolvePreviewsKeeps
    <2>4. CASE CountAssets
        BY <2>4, CountAssetsKeeps
    <2>5. CASE NoAssets
        BY <2>5, NoAssetsKeeps
    <2>6. CASE Respond
        BY <2>6, RespondKeeps
    <2>7. CASE FailPage
        BY <2>7, FailPageKeeps
    <2>8. CASE AddItem
        BY <2>8, AddItemKeeps
    <2>9. CASE RemoveItem
        BY <2>9, RemoveItemKeeps
    <2>10. CASE UNCHANGED vars
        <3>1. /\ UNCHANGED <<folders, images, stayed, inserted, removed, types, cursor>>
              /\ UNCHANGED <<step, page, remaining, moreFolders, wanted, total>>
              /\ UNCHANGED <<containerOffset, assetOffset, shown>>
            BY <2>10 DEF vars, library, locals
        <3>2. TypeOK' /\ LibraryInv' /\ LocalsInv' /\ AdvanceInv'
            BY <3>1 DEF PagingInv, TypeOK, LibraryInv, LocalsInv, AdvanceInv
        <3>3. Once' = Once /\ Twice' = Twice /\ OnPage' = OnPage
            BY <3>1 DEF Once, Twice, OnPage
        <3>4. CursorInv'
            BY <3>1, CursorKept DEF PagingInv, CursorInv
        <3>5. PageInv'
            <4>1. PagePast' = PagePast /\ PageAhead' = PageAhead
                BY <3>1 DEF PagePast, PageAhead
            <4>2. PageSkipped' = PageSkipped /\ PageRepeated' = PageRepeated
                BY <3>1, <3>3, <4>1 DEF PageSkipped, PageRepeated, Skipped, Repeated, Shows
            <4> QED BY <3>1, <4>2 DEF PagingInv, PageInv
        <3>6. EndInv'
            BY <3>1 DEF PagingInv, EndInv, ChangesExplainPages, Shows
        <3> QED BY <3>2, <3>4, <3>5, <3>6 DEF PagingInv
    <2> QED BY <2>1, <2>2, <2>3, <2>4, <2>5, <2>6, <2>7, <2>8, <2>9, <2>10 DEF Next
<1> QED BY <1>1, <1>2, PTL DEF Spec

\* Offsets are never negative, and _list_live_assets resolves no more previews
\* than there is room for on the page.
THEOREM TypeCorrect == Spec => []TypeOK
<1>1. PagingInv => TypeOK
    BY DEF PagingInv
<1> QED BY <1>1, Invariance, PTL

\* What content_resources_find left out of a finished search was made up for by a
\* removal, and what it showed again by an insertion.
THEOREM ChangesExplain == Spec => []ChangesExplainPages
<1>1. PagingInv => ChangesExplainPages
    <2> SUFFICES ASSUME PagingInv PROVE ChangesExplainPages
        OBVIOUS
    <2>1. CASE step = "ended"
        BY <2>1 DEF PagingInv, EndInv
    <2>2. CASE step # "ended"
        <3>1. Few(CursorRepeated, inserted) /\ inserted \in Nat
            BY <2>2 DEF PagingInv, CursorInv, TypeOK
        <3>2. Few(Twice, inserted)
            BY <3>1, FewOfFewer DEF CursorRepeated, Repeated
        <3> QED BY <2>2, <3>2 DEF ChangesExplainPages, Few, Twice
    <2> QED BY <2>1, <2>2
<1> QED BY <1>1, Invariance, PTL

\* A continuation that content_resources_find hands out leads further than the one
\* it was asked for, by new_container_offset or by _advance_asset_offset.
THEOREM PagesAdvance == Spec => EveryPageAdvances
<1>1. PagingInv /\ [Next]_vars =>
        [Respond /\ step' # "ended" =>
            cursor'.containerOffset + cursor'.assetOffset
                > cursor.containerOffset + cursor.assetOffset]_vars
    <2> SUFFICES ASSUME PagingInv, Respond, step' # "ended"
                 PROVE  cursor'.containerOffset + cursor'.assetOffset
                            > cursor.containerOffset + cursor.assetOffset
        OBVIOUS
    <2>1. moreFolders \/ assetOffset < total
        BY DEF Respond
    <2>2. cursor'.containerOffset = containerOffset /\ cursor'.assetOffset = assetOffset
        BY <2>1 DEF Respond
    <2>3. /\ containerOffset \in Nat /\ assetOffset \in Nat
          /\ cursor.containerOffset \in Nat /\ cursor.assetOffset \in Nat
        BY DEF PagingInv, TypeOK
    <2>4. /\ assetOffset >= cursor.assetOffset
          /\ moreFolders => containerOffset > cursor.containerOffset
          /\ assetOffset < total =>
                containerOffset + assetOffset > cursor.containerOffset + cursor.assetOffset
        BY DEF PagingInv, AdvanceInv, Respond
    <2>5. containerOffset + assetOffset > cursor.containerOffset + cursor.assetOffset
        BY <2>1, <2>3, <2>4
    <2> QED BY <2>2, <2>5
<1> QED BY <1>1, Invariance, PTL DEF Spec, EveryPageAdvances
=============================================================================
