------------------------------ MODULE Pagination ------------------------------
(***************************************************************************)
(* Pagination: a client pages through a search (/content/resources/find),  *)
(* while other users of ResourceSpace add and remove what it lists.        *)
(*                                                                         *)
(* A page is made of up to three upstream calls: the containers, a listing *)
(* of asset rows, and the previews of the supported ones among them.  The  *)
(* library may change between any two of them.  A continuation is a pair   *)
(* of offsets; the limit may be another one on every page.  A page that    *)
(* fails or is lost is asked for again with the same continuation.  A page *)
(* is the set of its items: one listing never repeats an item.             *)
(***************************************************************************)
EXTENDS Integers, FiniteSets, SequencesExt

CONSTANTS
    Folders, Images,
    Supported,     \* the images Canva can show
    Limits,        \* the limits a client asks for
    FindMaxLimit,  \* _LIVE_FIND_MAX_LIMIT
    MaxChanges     \* bound on the changes of the library

ASSUME PaginationAssumption ==
    /\ IsFiniteSet(Folders) /\ IsFiniteSet(Images) /\ Folders \cap Images = {}
    /\ Supported \subseteq Images
    /\ Limits \subseteq Nat \ {0} /\ FindMaxLimit \in Nat \ {0}
    /\ MaxChanges \in Nat

VARIABLES
    folders, images,  \* the library, in the order of the search
    types,            \* what the client asked for
    cursor,           \* the continuation the client holds
    step,             \* the upstream call that comes next
    page, remaining, moreFolders, wanted, total,       \* its locals,
    containerOffset, assetOffset,                      \* the new offsets
    shown,     \* history: how often the client has been shown an item
    stayed,    \* history: what has been in the library all the time
    inserted, removed  \* history: how often the library changed

library == <<folders, images, stayed, inserted, removed>>
locals == <<page, remaining, moreFolders, wanted, total,
            containerOffset, assetOffset>>
vars == <<library, types, cursor, step, locals, shown>>

Items == Folders \cup Images
Least(a, b) == IF a < b THEN a ELSE b
SliceInclusive(s, from, n) == SubSeq(s, from + 1, Least(from + n + 1, Len(s)))
Slice(s, from, n) == SubSeq(s, from + 1, Least(from + n, Len(s)))

\* Offsets are never negative, and a page holds no more than was asked for.
TypeOK ==
    /\ folders \in Seq(Folders) /\ images \in Seq(Images)
    /\ types \subseteq {"CONTAINER", "IMAGE"}
    /\ cursor \in [containerOffset : Nat, assetOffset : Nat]
    /\ step \in {"containers", "assets", "previews", "respond", "ended"}
    /\ page \subseteq Items /\ remaining \in Nat /\ moreFolders \in BOOLEAN
    /\ wanted \subseteq Supported /\ Cardinality(wanted) <= remaining
    /\ total \in Nat /\ containerOffset \in Nat /\ assetOffset \in Nat
    /\ shown \in [Items -> Nat] /\ stayed \subseteq Items
    /\ inserted \in Nat /\ removed \in Nat

Reset ==
    /\ page' = {} /\ remaining' = 0 /\ moreFolders' = FALSE
    /\ wanted' = {} /\ total' = 0 /\ containerOffset' = 0 /\ assetOffset' = 0

Init ==
    /\ folders \in SetToAllKPermutations(Folders)
    /\ images \in SetToAllKPermutations(Images)
    /\ types \in {{"CONTAINER", "IMAGE"}, {"CONTAINER"}, {"IMAGE"}}
    /\ cursor = [containerOffset |-> 0, assetOffset |-> 0]
    /\ step = "containers"
    /\ page = {} /\ remaining = 0 /\ moreFolders = FALSE
    /\ wanted = {} /\ total = 0 /\ containerOffset = 0 /\ assetOffset = 0
    /\ shown = [x \in Items |-> 0]
    /\ stayed = ToSet(folders) \cup ToSet(images)
    /\ inserted = 0 /\ removed = 0

-----------------------------------------------------------------------------

\* The page begins with the containers that are left, and the next one goes on
\* after them.
ListContainers(limit) ==
    LET listed == IF "CONTAINER" \in types THEN folders ELSE <<>>
        sliced == Slice(listed, cursor.containerOffset, limit)
    IN  /\ step = "containers"
        /\ page' = ToSet(sliced)
        /\ remaining' = limit - Len(sliced)
        /\ containerOffset' = cursor.containerOffset + Len(sliced)
        /\ moreFolders' = (containerOffset' < Len(listed))
        /\ assetOffset' = cursor.assetOffset
        /\ step' = "assets"
        /\ UNCHANGED <<library, types, cursor, wanted, total, shown>>

AdvanceByKept(offset, rows, all) ==
    LET kept == ToSet(rows) \cap Supported
    IN  IF kept = {} THEN (IF offset < all THEN all ELSE offset)
        ELSE offset + Cardinality(kept)

AdvanceByRows(offset, rows, all) == offset + Len(rows)

\* _advance_asset_offset goes past every row that was scanned, kept or not, and
\* past all of them when a page was empty.
Advance(offset, rows, all) ==
    IF rows = <<>> THEN (IF offset < all THEN all ELSE offset)
    ELSE offset + Len(rows)

\* ResourceSpace's total may count a row that it does not list.
Total == {Len(images), Len(images) + 1}

\* What is left of the page is filled with assets: first the rows ...
ListAssets ==
    LET rows == Slice(images, cursor.assetOffset, Least(remaining, FindMaxLimit))
    IN  /\ step = "assets" /\ "IMAGE" \in types /\ remaining > 0
        /\ total' \in Total
        /\ wanted' = ToSet(rows) \cap Supported
        /\ assetOffset' = Advance(cursor.assetOffset, rows, total')
        /\ step' = IF wanted' = {} THEN "respond" ELSE "previews"
        /\ UNCHANGED <<library, types, cursor, page, remaining, moreFolders,
                       containerOffset, shown>>

\* ... then their previews; a row that is gone by now is left out.
ResolvePreviews ==
    /\ step = "previews"
    /\ page' = page \cup (wanted \cap ToSet(images))
    /\ step' = "respond"
    /\ UNCHANGED <<library, types, cursor, remaining, moreFolders, wanted, total,
                   containerOffset, assetOffset, shown>>

\* A page full of containers only asks how many assets there are.
CountAssets ==
    /\ step = "assets" /\ "IMAGE" \in types /\ remaining = 0
    /\ total' \in Total
    /\ step' = "respond"
    /\ UNCHANGED <<library, types, cursor, page, remaining, moreFolders, wanted,
                   containerOffset, assetOffset, shown>>

NoAssets ==
    /\ step = "assets" /\ "IMAGE" \notin types
    /\ step' = "respond"
    /\ UNCHANGED <<library, types, cursor, locals, shown>>

\* The client is shown the page, and gets a continuation if there is more.
Respond ==
    LET more == moreFolders \/ assetOffset < total
    IN  /\ step = "respond"
        /\ shown' = [x \in Items |-> shown[x] + (IF x \in page THEN 1 ELSE 0)]
        /\ cursor' = IF more THEN [containerOffset |-> containerOffset,
                                   assetOffset |-> assetOffset]
                     ELSE cursor
        /\ step' = IF more THEN "containers" ELSE "ended"
        /\ Reset
        /\ UNCHANGED <<library, types>>

\* An upstream call fails, or the response is lost: the client asks again.
FailPage ==
    /\ step \in {"assets", "previews", "respond"}
    /\ step' = "containers"
    /\ Reset
    /\ UNCHANGED <<library, types, cursor, shown>>

-----------------------------------------------------------------------------
(* The library, which other users change. *)

Changing == step # "ended" /\ inserted + removed < MaxChanges

AddItem ==
    /\ Changing
    /\ \/ \E f \in Folders \ ToSet(folders), at \in 1 .. Len(folders) + 1 :
             folders' = InsertAt(folders, at, f) /\ UNCHANGED images
       \/ \E i \in Images \ ToSet(images), at \in 1 .. Len(images) + 1 :
             images' = InsertAt(images, at, i) /\ UNCHANGED folders
    /\ inserted' = inserted + 1
    /\ UNCHANGED <<stayed, removed, types, cursor, step, locals, shown>>

RemoveItem ==
    /\ Changing
    /\ \/ \E at \in DOMAIN folders :
             /\ folders' = RemoveAt(folders, at) /\ UNCHANGED images
             /\ stayed' = stayed \ {folders[at]}
       \/ \E at \in DOMAIN images :
             /\ images' = RemoveAt(images, at) /\ UNCHANGED folders
             /\ stayed' = stayed \ {images[at]}
    /\ removed' = removed + 1
    /\ UNCHANGED <<inserted, types, cursor, step, locals, shown>>

Next ==
    \/ \E limit \in Limits : ListContainers(limit)
    \/ ListAssets \/ ResolvePreviews \/ CountAssets \/ NoAssets \/ Respond
    \/ FailPage
    \/ AddItem \/ RemoveItem

Spec == Init /\ [][Next]_vars

-----------------------------------------------------------------------------
(* Properties.  SliceInclusive, AdvanceByKept and AdvanceByRows are        *)
(* deliberate mistakes that they are known to catch; nothing uses them.    *)

Shows(x) == IF x \in Folders THEN "CONTAINER" \in types
            ELSE "IMAGE" \in types /\ x \in Supported

\* Of what was in the library all the time, a search that has ended left out no
\* more items than were removed meanwhile, and it never shows more items again
\* than were added: in a library at rest every item is shown exactly once,
\* whatever limits, clamping and unsupported formats make of its pages.
ChangesExplainPages ==
    /\ step = "ended" =>
          Cardinality({x \in stayed : Shows(x) /\ shown[x] = 0}) <= removed
    /\ Cardinality({x \in Items : shown[x] > 1}) <= inserted

\* A page that comes with a continuation leads further than the last one, also
\* when it shows nothing, so a search of a library at rest has an end.
EveryPageAdvances ==
    [][Respond /\ step' # "ended" =>
          cursor'.containerOffset + cursor'.assetOffset
              > cursor.containerOffset + cursor.assetOffset]_vars
=============================================================================
