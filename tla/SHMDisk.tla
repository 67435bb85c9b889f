------------------------------- MODULE SHMDisk -------------------------------
(***************************************************************************)
(* The shared-memory overlay of shm.go: a sparse file in /dev/shm and the  *)
(* sorted list of the extents of it that are ahead of the image.           *)
(*                                                                         *)
(* A cell stands for a run of bytes no range boundary falls into.  Each    *)
(* action runs under s.mu.  The writer releases the extents it was given   *)
(* in the order in which they were staged, as WritePipeline shows, and     *)
(* skips the release of a write that failed.                               *)
(***************************************************************************)
EXTENDS Integers, FiniteSets, SequencesExt, Loops

CONSTANTS
    Size,       \* s.size, in cells
    MaxGen,     \* bound: the number of writes staged in a behaviour
    MaxFaults   \* bound: the number of StageWrite calls that fail half way

ASSUME Bounds == Size \in Nat \ {0} /\ MaxGen \in Nat /\ MaxFaults \in Nat

VARIABLES
    extents, nextGen, closed,
    file,       \* what each cell of the file holds: the generation that wrote it,
                \* Hole, or Torn, the bytes of a StageWrite that failed
    staged,     \* the extents StageWrite returned that the writer has yet to process
    faults,     \* how many StageWrite calls failed
    latest,     \* history: the last generation staged in each cell
    released    \* history: the generations that were released

vars == <<extents, nextGen, closed, file, staged, faults, latest, released>>

Hole == 0
Torn == -1

Cells == 0..(Size - 1)
Ranges == {r \in [start : 0..(Size - 1), end : 1..Size] : r.start < r.end}
Within(c, r) == r.start <= c /\ c < r.end

\* ShmExtent.
Extent == {e \in [start : 0..(Size - 1), end : 1..Size, gen : 1..MaxGen] : e.start < e.end}

Init ==
    /\ extents = <<>> /\ nextGen = 1 /\ closed = FALSE
    /\ file = [c \in Cells |-> Hole]
    /\ staged = <<>> /\ faults = 0
    /\ latest = [c \in Cells |-> 0]
    /\ released = {}

-----------------------------------------------------------------------------
(***************************************************************************)
(* The pure functions on extent lists.                                     *)
(***************************************************************************)

\* The order of sort.Slice in coalesceSHM.
Before(e, f) == e.start < f.start \/ (e.start = f.start /\ e.end < f.end)

\* sort.Slice: an extent goes to its rank, the number of extents up to it.  Extents
\* that Before leaves unordered, which the lists it is given never hold, stay in their
\* order.
SortExtents(in) ==
    LET Rank(i) == Cardinality({j \in 1..Len(in) :
                       Before(in[j], in[i]) \/ (j <= i /\ ~Before(in[i], in[j]))})
    IN  [k \in 1..Len(in) |-> in[CHOOSE i \in 1..Len(in) : Rank(i) = k]]

\* The body of coalesceSHM's loop: drop an empty extent, join it with a neighbour of
\* its generation, or append it.
Join(out, e) ==
    IF e.end <= e.start THEN out
    ELSE IF out # <<>> /\ Last(out).end = e.start /\ Last(out).gen = e.gen
    THEN Append(Front(out), [start |-> Last(out).start, end |-> e.end, gen |-> e.gen])
    ELSE Append(out, e)

coalesceSHM(in) == After(Join, <<>>, SortExtents(in))

\* What is left of an extent before and after a range.
LeftOf(e, r) ==
    IF e.start < r.start THEN <<[start |-> e.start, end |-> r.start, gen |-> e.gen]>> ELSE <<>>
RightOf(e, r) ==
    IF e.end > r.end THEN <<[start |-> r.end, end |-> e.end, gen |-> e.gen]>> ELSE <<>>

\* Mutant: inserts the new extent at every overlap.
replaceRangeRepeats(list, new) ==
    LET Step(out, e) ==
            IF e.end <= new.start \/ e.start >= new.end THEN Append(out, e)
            ELSE out \o LeftOf(e, new) \o <<new>> \o RightOf(e, new)
        out == After(Step, <<>>, list)
    IN  coalesceSHM(IF new \in ToSet(out) THEN out ELSE Append(out, new))

\* The body of replaceRangeLocked's loop: keep an extent beside the new one, cut one
\* that overlaps it, and insert the new one once.
Insert(acc, new) == IF acc.inserted THEN <<>> ELSE <<new>>
Replace(acc, e, new) ==
    IF e.end <= new.start
    THEN [out |-> Append(acc.out, e), inserted |-> acc.inserted]
    ELSE IF e.start >= new.end
    THEN [out |-> acc.out \o Insert(acc, new) \o <<e>>, inserted |-> TRUE]
    ELSE [out |-> acc.out \o LeftOf(e, new) \o Insert(acc, new) \o RightOf(e, new),
          inserted |-> TRUE]

replaceRangeLocked(list, new) ==
    LET Step(acc, e) == Replace(acc, e, new)
        acc == After(Step, [out |-> <<>>, inserted |-> FALSE], list)
    IN  coalesceSHM(acc.out \o Insert(acc, new))

\* Mutant: looks only at the extent that holds the first cell of the range.
coversFirstOnly(list, want) ==
    \E i \in 1..Len(list) :
        list[i].start <= want.start /\ want.start < list[i].end /\ list[i].gen = want.gen

\* The body of coversGenerationLocked's loop: walk a cursor to the end of the range.
Walk(acc, e, want) ==
    IF acc.answer # "open" \/ e.end <= acc.cursor THEN acc
    ELSE IF e.start > acc.cursor \/ e.gen # want.gen THEN [cursor |-> acc.cursor, answer |-> "no"]
    ELSE IF e.end >= want.end THEN [cursor |-> acc.cursor, answer |-> "yes"]
    ELSE [cursor |-> e.end, answer |-> "open"]

coversGenerationLocked(list, want) ==
    LET Step(acc, e) == Walk(acc, e, want)
    IN  After(Step, [cursor |-> want.start, answer |-> "open"], list).answer = "yes"

\* The body of removeRangeGenerationLocked's loop: cut a range out of the extents of
\* a generation.
CutOut(out, e, p) ==
    IF e.gen # p.gen \/ e.end <= p.start \/ e.start >= p.end THEN Append(out, e)
    ELSE out \o LeftOf(e, p) \o RightOf(e, p)

removeRangeGenerationLocked(list, p) ==
    LET Step(out, e) == CutOut(out, e, p)
    IN  coalesceSHM(After(Step, <<>>, list))

\* The body of ReadAt's loop: the cells of a request that it reads from the file,
\* stopping at the first extent behind the request.
ReadExtent(acc, e, r) ==
    IF acc.stop \/ e.end <= r.start THEN acc
    ELSE IF e.start >= r.end THEN [cells |-> acc.cells, stop |-> TRUE]
    ELSE [cells |-> acc.cells \cup {c \in Cells : Within(c, r) /\ Within(c, e)}, stop |-> FALSE]

OverlaidCells(list, r) ==
    LET Step(acc, e) == ReadExtent(acc, e, r)
    IN  After(Step, [cells |-> {}, stop |-> FALSE], list).cells

-----------------------------------------------------------------------------
(***************************************************************************)
(* StageWrite, called by FUSE Write().                                     *)
(***************************************************************************)
StageWrite(r) ==
    LET new == [start |-> r.start, end |-> r.end, gen |-> nextGen]
    IN  /\ ~closed /\ nextGen <= MaxGen
        /\ file' = [c \in Cells |-> IF Within(c, r) THEN nextGen ELSE file[c]]
        /\ nextGen' = nextGen + 1
        /\ extents' = replaceRangeLocked(extents, new)
        /\ staged' = Append(staged, new)
        /\ latest' = [c \in Cells |-> IF Within(c, r) THEN nextGen ELSE latest[c]]
        /\ UNCHANGED <<closed, faults, released>>

\* WriteAt fails or is short: the cells before r.end were written, the list
\* of extents is untouched and FUSE Write() answers EIO.
StageWriteFails(r) ==
    /\ ~closed /\ faults < MaxFaults
    /\ file' = [c \in Cells |-> IF Within(c, r) THEN Torn ELSE file[c]]
    /\ faults' = faults + 1
    /\ UNCHANGED <<extents, nextGen, closed, staged, latest, released>>

(***************************************************************************)
(* ReleaseIfCurrent, called by the writer when it has processed a write.   *)
(***************************************************************************)
ReleaseIfCurrent ==
    /\ staged # <<>>
    /\ staged' = Tail(staged)
    /\ LET p == Head(staged)
       IN  IF ~closed /\ coversGenerationLocked(extents, p)
             THEN /\ file' = [c \in Cells |-> IF Within(c, p) THEN Hole ELSE file[c]]
                  /\ extents' = removeRangeGenerationLocked(extents, p)
                  /\ released' = released \cup {p.gen}
             ELSE UNCHANGED <<file, extents, released>>
    /\ UNCHANGED <<nextGen, closed, faults, latest>>

\* The image write failed, or punchLocked did: the extent stays.
KeepStaged ==
    /\ staged # <<>>
    /\ staged' = Tail(staged)
    /\ UNCHANGED <<extents, nextGen, closed, file, faults, latest, released>>

\* Mutant: leaves the list of extents behind.
CloseKeepsExtents ==
    /\ ~closed
    /\ closed' = TRUE
    /\ UNCHANGED <<extents, nextGen, file, staged, faults, latest, released>>

\* Close removes the file and forgets the extents.
Close ==
    /\ ~closed
    /\ closed' = TRUE
    /\ extents' = <<>>
    /\ file' = [c \in Cells |-> Hole]
    /\ UNCHANGED <<nextGen, staged, faults, latest, released>>

Next ==
    \/ \E r \in Ranges : StageWrite(r) \/ StageWriteFails(r)
    \/ ReleaseIfCurrent \/ KeepStaged
    \/ Close

Spec == Init /\ [][Next]_vars

-----------------------------------------------------------------------------
(***************************************************************************)
(* Types, and a closed overlay holds no extent.                            *)
(***************************************************************************)
TypeOK ==
    /\ extents \in Seq(Extent) /\ staged \in Seq(Extent)
    /\ nextGen \in 1..(MaxGen + 1) /\ closed \in BOOLEAN
    /\ file \in [Cells -> {Torn, Hole} \cup 1..MaxGen]
    /\ latest \in [Cells -> 0..MaxGen]
    /\ released \subseteq 1..MaxGen
    /\ faults \in 0..MaxFaults
    /\ closed => extents = <<>>

(***************************************************************************)
(* "Sorted, non-overlapping overlay extents" (the comment on s.extents):   *)
(* every later function relies on it.                                      *)
(***************************************************************************)
SortedDisjoint ==
    \A i, j \in 1..Len(extents) : i < j => extents[i].end <= extents[j].start

(***************************************************************************)
(* Read-your-writes: whatever the overlaps, releases and failures, ReadAt  *)
(* takes a cell from the file exactly when the last write staged there has *)
(* not been released, and then the file holds the bytes of that write --   *)
(* neither a punched hole nor an older write -- unless a StageWrite that   *)
(* failed half way tore the cell.                                          *)
(***************************************************************************)
ReadLatest ==
    ~closed =>
        \A r \in Ranges :
            LET overlaid == OverlaidCells(extents, r)
            IN  /\ overlaid = {c \in Cells : Within(c, r) /\ latest[c] \notin released \cup {0}}
                /\ \A c \in overlaid :
                      file[c] = latest[c] \/ (file[c] = Torn /\ faults > 0)

(***************************************************************************)
(* The list of extents implements the map of Overlay: a cell belongs to    *)
(* the generation of the extent around it.                                 *)
(***************************************************************************)
OwnerOf(c) ==
    LET around == {i \in 1..Len(extents) : Within(c, extents[i])}
    IN  IF around = {} THEN 0 ELSE extents[CHOOSE i \in around : TRUE].gen

Abstract == INSTANCE Overlay WITH owner <- [c \in Cells |-> OwnerOf(c)]

ImplementsOverlay == Abstract!OverlaySpec

-----------------------------------------------------------------------------
(***************************************************************************)
(* The invariants SHMDiskProofs needs beside TypeOK and SortedDisjoint.    *)
(***************************************************************************)

\* Some extent of the list gives the cell to the generation.
Owns(list, c, g) == \E i \in 1..Len(list) : Within(c, list[i]) /\ list[i].gen = g

\* The history and the writer's queue name only generations that StageWrite gave out,
\* and a cell whose last generation the writer still holds lies in that write's range.
StagedInv ==
    /\ \A c \in Cells : latest[c] < nextGen
    /\ \A g \in released : g < nextGen
    /\ \A i \in 1..Len(staged) :
          /\ staged[i].gen < nextGen
          /\ \A c \in Cells : latest[c] = staged[i].gen => Within(c, staged[i])

\* The extents give each cell to the last write staged in it, until that is released.
OwnInv ==
    ~closed => \A c \in Cells, g \in 1..MaxGen :
        Owns(extents, c, g) <=> latest[c] = g /\ g \notin released

\* The file holds that write, unless a StageWrite that failed tore the cell.
FileInv ==
    ~closed => \A c \in Cells :
        latest[c] \notin released \cup {0} =>
            file[c] = latest[c] \/ (file[c] = Torn /\ faults > 0)

IndInv == TypeOK /\ SortedDisjoint /\ StagedInv /\ OwnInv /\ FileInv
=============================================================================
