----------------------------- MODULE StagedDisk -----------------------------
(***************************************************************************)
(* The life of a host write between its acknowledgement and the image: it  *)
(* is staged in the overlay by FUSE Write(), classified by the MPEG-TS     *)
(* scanner, stored in the image by the writer, released from the overlay,  *)
(* and perhaps punched out of the image because the reconciler found it to *)
(* be a recording.  FUSE Read() and the NTFS tracker read the image and    *)
(* the overlay meanwhile.  At shutdown the overlay is discarded.           *)
(*                                                                         *)
(* The overlay is the owner map of Overlay, which SHMDisk implements, and  *)
(* the stages consume the writes in order, as OrderedDelivery promises and *)
(* WritePipeline implements.  A write's number is its overlay generation.  *)
(* A cell's content is the number of the write it comes from, or Hole, or  *)
(* Torn: bytes of a write that failed half-way and has no number.          *)
(***************************************************************************)
EXTENDS Overlay, Classification, FiniteSets

CONSTANTS
    HistoryCapacity,    \* writerHistoryCapacity, the size of Writer.recent
    PunchDepth,         \* room in p.punches and writer.punchIn
    MaxWrites,          \* bound: the number of host writes of a behaviour
    MaxFaults           \* bound: the number of failing image writes and releases, and of
                        \* cells torn, at a time

ASSUME CapacityAssumption ==
    /\ HistoryCapacity \in Nat \ {0} /\ PunchDepth \in Nat \ {0}
    /\ MaxWrites \in Nat /\ MaxFaults \in Nat

VARIABLES
    latest,     \* history: the last write acknowledged in each cell
    log,        \* the range of each acknowledged write
    disk,       \* the image
    done,       \* the last write the writer has finished with
    wpc,        \* "idle", or "release": write done + 1 is in the image, still staged,
                \* or "closed": the program has shut down
    recent,     \* Writer.recent, oldest first
    punches,    \* the punch requests on their way to the writer
    failed,     \* the writes that could not be stored
    stuck,      \* the writes that were finished with and could not be released
    torn,       \* the staged cells overwritten by a write that failed
    reader      \* a read in progress

hostVars   == <<overlayVars, latest, log, torn>>
writerVars == <<disk, done, wpc, recent, failed, stuck>>
vars == <<hostVars, snifVars, writerVars, punches, reader>>

Hole == -1
Torn == -2
Content == {Torn, Hole} \cup 0..MaxWrites

Writes == 1..Len(log)

\* PunchRequest.
PunchRequest == [seq : 1..MaxWrites, start : 0..(Size - 1), end : 1..Size]

\* A read: how far it is, its buffer, and, when it began, what the host had
\* written and how far the writer was.
ReadState == [pc : {"idle", "base", "done"}, data : [Cells -> Content],
              seen : [Cells -> 0..MaxWrites], at : 0..MaxWrites]
NoRead == [pc |-> "idle", data |-> [c \in Cells |-> 0],
           seen |-> [c \in Cells |-> 0], at |-> 0]

Init ==
    /\ OverlayInit
    /\ latest = [c \in Cells |-> 0]
    /\ log = <<>>
    /\ ClassInit
    /\ disk = [c \in Cells |-> 0]
    /\ done = 0 /\ wpc = "idle" /\ recent = <<>> /\ failed = {} /\ stuck = {} /\ torn = {}
    /\ punches = <<>>
    /\ reader = NoRead

MayFail == Cardinality(failed \cup stuck) + Cardinality(torn) < MaxFaults

-----------------------------------------------------------------------------
(***************************************************************************)
(* FUSE Write(): stage the bytes, take the number, submit.                 *)
(* The kernel holds the inode lock over a direct write (Open() does not    *)
(* ask for parallel ones), so generations and numbers advance together.    *)
(***************************************************************************)
HostWrite(r) ==
    /\ wpc # "closed" /\ Len(log) < MaxWrites
    /\ Stage(r)
    /\ log' = Append(log, r)
    /\ latest' = [c \in Cells |-> IF Within(c, r) THEN nextGen ELSE latest[c]]
    /\ torn' = torn \ CellsOf(r)
    /\ UNCHANGED <<snifVars, writerVars, punches, reader>>

\* StageWrite fails or is short: a prefix is in the overlay's file, under the
\* extents of older writes.  Write() answers EIO and takes no number.
StageWriteFails(r) ==
    /\ wpc # "closed" /\ MayFail
    /\ \E end \in (r.start + 1)..(r.end - 1) :
          torn' = torn \cup {c \in Span(r.start, end) : owner[c] # 0}
    /\ UNCHANGED <<overlayVars, latest, log, snifVars, writerVars, punches, reader>>

-----------------------------------------------------------------------------
(***************************************************************************)
(* The sniffer feeds the next write to the scanner.                        *)
(***************************************************************************)
Feed ==
    /\ Len(observed) < Len(log)
    /\ Classify(log[Len(observed) + 1])
    /\ UNCHANGED <<hostVars, writerVars, punches, reader>>

-----------------------------------------------------------------------------
(***************************************************************************)
(* The writer goroutine.  Writes have priority over punches only while the *)
(* drain loop finds them queued: a write that arrives later competes with  *)
(* a punch in the select.                                                  *)
(***************************************************************************)

\* The write at the head of writer.in, once the sniffer has classified it.
NextWrite == done + 1
Ready == wpc = "idle" /\ done < Len(observed)

\* ReleaseIfCurrent, with its early return.
ReleaseIfCurrent(r, gen) ==
    IF Current(r, gen) THEN Release(r, gen) ELSE UNCHANGED overlayVars

\* rememberWrite: the ring holds the last HistoryCapacity writes.
rememberWrite(w) ==
    recent' = IF Len(recent) < HistoryCapacity
                THEN Append(recent, w) ELSE Append(Tail(recent), w)

\* Mutant: forgets the release of MPEG-TS.
DropTSKeepsStaged ==
    /\ Ready /\ observed[NextWrite].ts
    /\ done' = done + 1
    /\ UNCHANGED <<hostVars, snifVars, disk, wpc, recent, failed, stuck, punches, reader>>

\* processWrite of MPEG-TS: not stored, only released.
DropTS ==
    /\ Ready /\ observed[NextWrite].ts
    /\ ReleaseIfCurrent(log[NextWrite], NextWrite)
    /\ done' = done + 1
    /\ UNCHANGED <<latest, log, torn, snifVars, disk, wpc, recent, failed, stuck, punches,
                   reader>>

\* processWrite of anything else: WriteAt stores every byte.
WriteImage ==
    /\ Ready /\ ~observed[NextWrite].ts
    /\ rememberWrite(NextWrite)
    /\ disk' = [c \in Cells |-> IF Within(c, log[NextWrite]) THEN NextWrite ELSE disk[c]]
    /\ wpc' = "release"
    /\ UNCHANGED <<hostVars, snifVars, done, failed, stuck, punches, reader>>

\* Mutant: a short write is released like a complete one.
WriteImageReleasesShort ==
    /\ Ready /\ ~observed[NextWrite].ts
    /\ rememberWrite(NextWrite)
    /\ \E end \in log[NextWrite].start..(log[NextWrite].end - 1) :
          disk' = [c \in Cells |-> IF c \in Span(log[NextWrite].start, end)
                                     THEN NextWrite ELSE disk[c]]
    /\ wpc' = "release"
    /\ UNCHANGED <<hostVars, snifVars, done, failed, stuck, punches, reader>>

\* WriteAt fails or is short: a prefix is stored, the write stays staged.
WriteImageFails ==
    /\ Ready /\ ~observed[NextWrite].ts /\ MayFail
    /\ rememberWrite(NextWrite)
    /\ \E end \in log[NextWrite].start..(log[NextWrite].end - 1) :
          disk' = [c \in Cells |-> IF c \in Span(log[NextWrite].start, end)
                                     THEN NextWrite ELSE disk[c]]
    /\ failed' = failed \cup {NextWrite}
    /\ done' = done + 1
    /\ UNCHANGED <<hostVars, snifVars, wpc, stuck, punches, reader>>

\* The release at the end of processWrite.
ReleaseWritten ==
    /\ wpc = "release"
    /\ ReleaseIfCurrent(log[NextWrite], NextWrite)
    /\ done' = done + 1 /\ wpc' = "idle"
    /\ UNCHANGED <<latest, log, torn, snifVars, disk, recent, failed, stuck, punches, reader>>

\* ReleaseIfCurrent cannot punch the overlay's file: the write stays staged.
ReleaseFails ==
    /\ wpc = "release" \/ (Ready /\ observed[NextWrite].ts)
    /\ MayFail
    /\ stuck' = stuck \cup {NextWrite}
    /\ done' = done + 1 /\ wpc' = "idle"
    /\ UNCHANGED <<hostVars, snifVars, disk, recent, failed, punches, reader>>

\* Mutant: starts one record behind the head of the ring.
hasNewerOverlapSkipsHead(p) ==
    \E i \in 1..(Len(recent) - 1) :
        recent[i] > p.seq /\ CellsOf(log[recent[i]]) \cap CellsOf(p) # {}

\* hasNewerOverlap.
hasNewerOverlap(p) ==
    \E i \in 1..Len(recent) :
        recent[i] > p.seq /\ CellsOf(log[recent[i]]) \cap CellsOf(p) # {}

\* processPunch: skipped, or the hole is punched, or fallocate fails.
ProcessPunch ==
    /\ wpc = "idle" /\ punches # <<>>
    /\ LET p == Head(punches)
           punched == [c \in Cells |-> IF Within(c, p) THEN Hole ELSE disk[c]]
       IN  disk' \in IF hasNewerOverlap(p) THEN {disk} ELSE {disk, punched}
    /\ punches' = Tail(punches)
    /\ UNCHANGED <<hostVars, snifVars, done, wpc, recent, failed, stuck, reader>>

-----------------------------------------------------------------------------
(***************************************************************************)
(* The reconciler asks for the part of a capture that the NTFS tracker     *)
(* takes for file data, when it sees the capture or at any later MFT       *)
(* write.  A request that finds the queue full is dropped.                 *)
(***************************************************************************)
\* Mutant: queues the request whatever the room.
SubmitPunchUnbounded(s, r) ==
    /\ wpc # "closed" /\ s <= Len(observed) /\ CellsOf(r) \subseteq observed[s].captures
    /\ punches' = Append(punches, [seq |-> s, start |-> r.start, end |-> r.end])
    /\ UNCHANGED <<hostVars, snifVars, writerVars, reader>>

\* SubmitPunch.
SubmitPunch(s, r) ==
    /\ wpc # "closed" /\ s <= Len(observed) /\ CellsOf(r) \subseteq observed[s].captures
    /\ Len(punches) < PunchDepth
    /\ punches' = Append(punches, [seq |-> s, start |-> r.start, end |-> r.end])
    /\ UNCHANGED <<hostVars, snifVars, writerVars, reader>>

-----------------------------------------------------------------------------
(***************************************************************************)
(* SHMDisk.ReadAt reads the image first, then takes s.mu and copies the    *)
(* overlay over it.                                                        *)
(***************************************************************************)
ReadBase ==
    /\ wpc # "closed" /\ reader.pc = "idle"
    /\ reader' = [pc |-> "base", data |-> disk, seen |-> latest, at |-> done]
    /\ UNCHANGED <<hostVars, snifVars, writerVars, punches>>

\* What the overlay's file holds in a cell it owns.
Staged(c) == IF c \in torn THEN Torn ELSE owner[c]

ReadOverlay ==
    /\ reader.pc = "base"
    /\ reader' = [reader EXCEPT !.pc = "done",
                     !.data = [c \in Cells |-> IF owner[c] # 0 THEN Staged(c) ELSE reader.data[c]]]
    /\ UNCHANGED <<hostVars, snifVars, writerVars, punches>>

ReadReturns ==
    /\ reader.pc = "done"
    /\ reader' = NoRead
    /\ UNCHANGED <<hostVars, snifVars, writerVars, punches>>

-----------------------------------------------------------------------------
(***************************************************************************)
(* shutdown: FUSE is unmounted, the sniffer has ended, having observed     *)
(* every write, and the writer has ended, having finished with what was    *)
(* forwarded to it; the overlay is discarded with all that it still holds. *)
(***************************************************************************)
Shutdown ==
    /\ wpc = "idle" /\ reader.pc = "idle" /\ Len(observed) = Len(log)
    /\ Discard
    /\ wpc' = "closed"
    /\ UNCHANGED <<latest, log, torn, snifVars, disk, done, recent, failed, stuck, punches, reader>>

-----------------------------------------------------------------------------
Next ==
    \/ \E r \in Ranges : HostWrite(r) \/ StageWriteFails(r)
    \/ Feed
    \/ DropTS \/ WriteImage \/ WriteImageFails \/ ReleaseWritten \/ ReleaseFails
    \/ ProcessPunch
    \/ \E s \in 1..MaxWrites, r \in Ranges : SubmitPunch(s, r)
    \/ ReadBase \/ ReadOverlay \/ ReadReturns
    \/ Shutdown

Spec == Init /\ [][Next]_vars

-----------------------------------------------------------------------------
(***************************************************************************)
(* Types; the writer never gets ahead of the sniffer, nor the sniffer of   *)
(* the host; write numbers and overlay generations agree.                  *)
(***************************************************************************)
TypeOK ==
    /\ owner \in [Cells -> 0..MaxWrites] /\ latest \in [Cells -> 0..MaxWrites]
    /\ log \in Seq(Ranges) /\ nextGen = Len(log) + 1 /\ Len(log) <= MaxWrites
    /\ scanner \in ScannerState
    /\ observed \in Seq(Observation)
    /\ Len(observed) <= Len(log)
    /\ disk \in [Cells -> Content]
    /\ done \in 0..Len(observed)
    /\ wpc \in {"idle", "release", "closed"} /\ (wpc = "release" => done < Len(observed))
    /\ recent \in Seq(Nat) /\ Len(recent) <= HistoryCapacity
    /\ \A i \in 1..Len(recent) : recent[i] \in 1..Len(observed)
    /\ failed \subseteq 1..done /\ stuck \subseteq 1..done /\ torn \subseteq Cells
    /\ punches \in Seq(PunchRequest) /\ \A i \in 1..Len(punches) : punches[i].seq <= Len(observed)
    /\ Len(punches) <= PunchDepth
    /\ reader \in ReadState

\* The scanner put write w into its buffer: w is MPEG-TS, or no stream was
\* detected yet.  It skips any other write, and keeps the bytes it has.
Buffered(w) == observed[w].ts \/ \A v \in 1..w : ~observed[v].ts

\* Write w is the last one the scanner has put into its buffer in cell c.
LastBuffered(c, w, s) ==
    /\ Buffered(w) /\ Within(c, log[w])
    /\ \A v \in (w + 1)..s : ~(Buffered(v) /\ Within(c, log[v]))

(***************************************************************************)
(* The ways in which cell c may lose write w, the last one of the host     *)
(* there.  Expendable: w was taken for MPEG-TS, or its own bytes were      *)
(* captured later, as the beginning of a stream.                           *)
(***************************************************************************)
Expendable(c, w) ==
    /\ w \in 1..Len(observed)
    /\ \/ observed[w].ts
       \/ \E s \in w..Len(observed) : c \in observed[s].captures /\ LastBuffered(c, w, s)

\* Stale: w replaced buffered bytes that were captured afterwards, under a
\* number newer than w, so hasNewerOverlap takes the punch for a newer one.
Stale(c, w) ==
    /\ w \in 1..Len(observed) /\ ~Buffered(w)
    /\ \E s \in (w + 1)..Len(observed) :
          /\ c \in observed[s].captures
          /\ \A v \in (w + 1)..s : ~(Buffered(v) /\ Within(c, log[v]))

\* Forgotten: the ring has wrapped past w, so hasNewerOverlap cannot see it,
\* and a delayed punch of an older capture takes the cell.
Wrapped(w) == Len(recent) = HistoryCapacity /\ \A i \in 1..Len(recent) : recent[i] > w
Forgotten(c, w) ==
    Wrapped(w) /\ \E s \in 1..Len(observed) : s < w /\ c \in observed[s].captures

Excused(c, w) == Expendable(c, w) \/ Stale(c, w) \/ Forgotten(c, w)

\* Discarded: the program ended with w only in the overlay, left in the
\* pipeline or not storable.
Discarded(w) == wpc = "closed" /\ (w > done \/ w \in failed)

\* What a read that nothing disturbs finds in a cell.
View(c) == IF owner[c] # 0 THEN Staged(c) ELSE disk[c]

(***************************************************************************)
(* No acknowledged write is lost: whatever the order of staging, storing,  *)
(* releasing and punching, and after the shutdown, a cell shows the last   *)
(* write the host made there.  This is what "SHM is the authoritative      *)
(* acknowledged-write layer" (main.go) and "Do NOT destroy it"             *)
(* (processPunch) promise.  The exceptions are the ones named above: the   *)
(* write is MPEG-TS; it replaced bytes that the scanner kept and captured  *)
(* later; the ring of recent writes has forgotten it; the overlay was      *)
(* discarded before it was stored.  And a cell is torn, while it is staged *)
(* and no longer, if the host was told that a write there failed.          *)
(***************************************************************************)
HostDataKept ==
    \A c \in Cells : \/ View(c) \in {latest[c], Torn}
                    \/ Excused(c, latest[c]) \/ Discarded(latest[c])

(***************************************************************************)
(* The overlay does not fill up: a cell of a finished write is still       *)
(* staged only if storing or releasing it failed, or if a later write      *)
(* covers a part of it (ReleaseIfCurrent then leaves all of it behind).    *)
(***************************************************************************)
OverlayDrains ==
    \A c \in Cells :
        LET g == owner[c]
        IN  g # 0 /\ g <= done =>
                \/ g \in failed \cup stuck
                \/ \E w \in Writes : w > g /\ CellsOf(log[w]) \cap CellsOf(log[g]) # {}

\* The read has, in cell c, what the host had written when it began or
\* something later.
Fresh(c) == reader.data[c] >= reader.seen[c]

\* The writer finished, since the read began, with a write of cell c that is
\* not older than what the host had written there by then.
FinishedSince(c) ==
    \E w \in (reader.at + 1)..done : w >= reader.seen[c] /\ Within(c, log[w])

\* The read may miss the write: it met the bytes of a failed write, or the
\* write may be lost to any reader.
MayMiss(c) == reader.data[c] = Torn \/ Excused(c, reader.seen[c])

(***************************************************************************)
(* "The STB must see its bytes immediately through FUSE Read()" (Write in  *)
(* fuse.go): a read is fresh in every cell, whatever is written, released  *)
(* and punched while it runs.  ReadAt reads the image before it takes      *)
(* s.mu, so one exception is a cell of a write that the writer finished    *)
(* with between the two.  The others are no race: the losses HostDataKept  *)
(* excepts (MPEG-TS, stale capture, wrapped ring) and a torn cell.         *)
(***************************************************************************)
ReadFresh ==
    reader.pc = "done" => \A c \in Cells : Fresh(c) \/ FinishedSince(c) \/ MayMiss(c)

-----------------------------------------------------------------------------
(***************************************************************************)
(* The inductive invariant.  The overlay holds the last write of a cell    *)
(* until the writer has finished with it; a finished write is in the image *)
(* or expendable; the ring remembers the last writes that were stored, in  *)
(* order; captures are made of host writes, and a punch only names         *)
(* captured cells; a read finds a cell in its buffer or in the overlay,    *)
(* unless the writer finished with it meanwhile.                           *)
(***************************************************************************)
OwnerInv ==
    \A c \in Cells :
        /\ latest[c] <= Len(log)
        /\ latest[c] # 0 => Within(c, log[latest[c]])
        /\ \A w \in Writes : Within(c, log[w]) => w <= latest[c]
        /\ \/ owner[c] = latest[c]
           \/ owner[c] = 0 /\ latest[c] <= done /\ latest[c] \notin failed
           \/ owner[c] = 0 /\ wpc = "closed"

StoredInv ==
    \A c \in Cells, w \in 0..MaxWrites :
        w = latest[c] /\ w <= done /\ w \notin failed => disk[c] = w \/ Excused(c, w)

WrittenInv ==
    wpc = "release" =>
        /\ ~observed[NextWrite].ts
        /\ \A c \in Cells : Within(c, log[NextWrite]) => disk[c] = NextWrite

\* The writes processWrite has gone through the storing of.
Handled == IF wpc = "release" THEN done + 1 ELSE done

RecentInv ==
    /\ \A i \in 1..Len(recent) : recent[i] <= Handled
    /\ \A i, j \in 1..Len(recent) : i < j => recent[i] < recent[j]
    /\ \A w \in 1..Handled :
          ~observed[w].ts => Wrapped(w) \/ \E i \in 1..Len(recent) : recent[i] = w

\* The scanner's buffer, and with it every capture, is made of host writes.
CaptureInv ==
    /\ scanner.haveExpected =>
          \A c \in Span(scanner.bufferStart, scanner.expected) :
             \E n \in 1..Len(observed) : Within(c, log[n])
    /\ \A s \in 1..Len(observed) : \A c \in observed[s].captures :
          observed[s].ts /\ \E n \in 1..s : Within(c, log[n])

PunchInv ==
    \A i \in 1..Len(punches) : \A c \in Cells :
        Within(c, punches[i]) => c \in observed[punches[i].seq].captures

ReadInv ==
    /\ reader.pc = "base" =>
          /\ reader.at <= done
          /\ \A c \in Cells : reader.seen[c] <= latest[c]
          /\ \A c \in Cells : owner[c] # 0 \/ Fresh(c) \/ FinishedSince(c) \/ MayMiss(c)
    /\ ReadFresh

IndInv ==
    /\ TypeOK /\ OwnerInv /\ StoredInv /\ WrittenInv /\ RecentInv /\ CaptureInv /\ PunchInv
    /\ OverlayDrains /\ ReadInv
=============================================================================
