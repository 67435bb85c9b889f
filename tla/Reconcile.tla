------------------------------ MODULE Reconcile ------------------------------
(***************************************************************************)
(* The NTFS tracker and the reconciler that owns it, against a host that   *)
(* goes on writing, one Write() at a time.  Write() stages its bytes, then *)
(* asks the published snapshot whether it touches the MFT; the reconciler  *)
(* gets the writes in order, journals what the sniffer captured of them    *)
(* (here: the range of the write, or nothing) and lets the tracker read    *)
(* the MFT again through the overlay, record by record.  The punches it    *)
(* asks for go to a queue that drops them when it is full.                 *)
(***************************************************************************)
EXTENDS NTFS, FiniteSets

CONSTANTS
    HostWrites,         \* bound: what the host writes, [off, data, captured]
    Disks,              \* bound: the disks the program may be started on
    MaxWrites,          \* bound: the number of host writes of a behaviour
    JournalCapacity,    \* captureHistoryCapacity
    PunchDepth,         \* the capacity of p.punches
    ScanChunk           \* the records of a chunk of ntfsScanChunkSize

ASSUME ReconcileAssumption ==
    /\ HostWrites \subseteq [off : Cells, data : Seq(Content) \ {<<>>}, captured : BOOLEAN]
    /\ \A w \in HostWrites : w.off + Len(w.data) <= Size
    /\ \A d \in Disks :
          /\ d \in [Cells -> Content]
          /\ \A id \in 0..(d[0].real - 1) : Slots(d[0].runs, id) # {}
    /\ MaxWrites \in Nat
    /\ JournalCapacity \in Nat \ {0} /\ PunchDepth \in Nat \ {0}
    /\ ScanChunk \in Nat \ {0}

VARIABLES
    disk,       \* what the overlay shows of each cell
    image,      \* what the backing file may still hold of it
    write,      \* the Write() that has staged its bytes, or NoWrite
    seq,        \* d.seq
    events,     \* the observed writes the reconciler has not taken
    layout,     \* n.mftRuns and n.mftSize
    records,    \* n.records
    dataRanges, \* n.dataRanges
    snapshot,   \* dataSnapshot and mftSnapshot
    rc,         \* where the reconciler is in run() and ObserveMFTWrite
    asks,       \* the punches it is about to submit
    journal,    \* the CaptureJournal
    punches,    \* the punch queue
    captured,   \* history: every capture, in order
    asked,      \* history: the <<number, cell>> pairs a punch was asked for
    blind,      \* history: the records whose last write was asked too early
    unread,     \* history: the records the layout moved and nothing read since
    torn        \* history: the records last read while they were being stored

host == <<disk, write, seq>>
tracker == <<layout, records, dataRanges>>
vars == <<host, image, events, tracker, snapshot, rc, asks, journal, punches,
          captured, asked, blind, unread, torn>>

\* A write and what the sniffer says of it, and what was captured of one.
ObservedWrite == [off : Nat, len : Nat, captured : BOOLEAN, seq : Nat, touches : BOOLEAN]
CaptureRange == [seq : Nat, start : Nat, end : Nat]

NoWrite == [off |-> 0, len |-> 0, captured |-> FALSE, seq |-> 0, touches |-> FALSE]
NoCapture == [seq |-> 0, start |-> 0, end |-> 0]
Idle == [pc |-> "idle", ev |-> NoWrite, ids |-> {}, scan |-> {}, old |-> <<>>]

\* mftRecordCount, and the cell record id is read from.
Mapped(id) == id < layout.size /\ Slots(layout.runs, id) # {}
Slot(id) == Min(Slots(layout.runs, id))
RangeOf(ev) == [start |-> ev.off, end |-> ev.off + ev.len]

\* What reading content as record id makes of the records (refreshRecord and the
\* loop of scanMFTLogicalRange); a record that cannot be parsed is kept as it was.
Refreshed(id, content) ==
    IF ~content.ok THEN records
    ELSE LET others == [i \in DOMAIN records \ {id} |-> records[i]]
         IN IF ~content.inUse THEN others
            ELSE [i \in DOMAIN others \cup {id} |->
                     IF i = id THEN RecordOf(content, id) ELSE others[i]]

\* scanMFT of a disk whose record 0 lies at cell 0 (loadMFTLayout).
ScannedRecords(d) ==
    LET runs == d[0].runs
        At(id) == d[Min(Slots(runs, id))]
    IN [id \in {i \in 0..(d[0].real - 1) : At(i).ok /\ At(i).inUse} |-> RecordOf(At(id), id)]

Init ==
    /\ disk \in Disks /\ image = disk
    /\ write = NoWrite /\ seq = 0 /\ events = <<>>
    /\ layout = [runs |-> disk[0].runs, size |-> disk[0].real]
    /\ records = ScannedRecords(disk)
    /\ dataRanges = rebuildRanges(records)
    /\ snapshot = [data |-> dataRanges, mft |-> buildMFTRanges(layout.runs, layout.size)]
    /\ rc = Idle /\ asks = <<>> /\ punches = <<>>
    /\ journal = [items |-> [i \in 0..(JournalCapacity - 1) |-> NoCapture],
                  head |-> 0, count |-> 0]
    /\ captured = <<>> /\ asked = {} /\ blind = {} /\ torn = {}
    /\ unread = {id \in {0} : Slots(layout.runs, id) # {0}}

-----------------------------------------------------------------------------
(***************************************************************************)
(* The host: the steps of DiskNode.Write.                                  *)
(***************************************************************************)

\* The bytes are in the overlay before the write takes its number.
StageWrite(w) ==
    /\ write = NoWrite /\ seq < MaxWrites
    /\ disk' = [c \in Cells |-> IF c \in w.off..(w.off + Len(w.data) - 1)
                                THEN w.data[c - w.off + 1] ELSE disk[c]]
    /\ write' = [off |-> w.off, len |-> Len(w.data), captured |-> w.captured,
                 seq |-> 0, touches |-> FALSE]
    /\ UNCHANGED <<seq, image, events, tracker, snapshot, rc, asks, journal, punches,
                   captured, asked, blind, unread, torn>>

TouchesMFT(w) == rangesOverlapSnapshot(snapshot.mft, w.off, w.off + w.len)

\* The number, TouchesMFT and SubmitWrite.  A write is asked too early about the
\* records whose cells the tracker took into its layout and has not published.
SubmitWrite ==
    /\ write # NoWrite
    /\ LET touches == TouchesMFT(write)
           written == {id \in 0..(layout.size - 1) :
                          Mapped(id) /\ Slot(id) \in CellsOf(RangeOf(write))}
           observed == [off |-> write.off, len |-> write.len, captured |-> write.captured,
                        seq |-> seq + 1, touches |-> touches]
       IN /\ events' = Append(events, observed)
          /\ blind' = IF touches THEN blind \ written
                      ELSE IF rc.pc = "scan" THEN blind \cup written ELSE blind
    /\ seq' = seq + 1 /\ write' = NoWrite
    /\ UNCHANGED <<disk, image, tracker, snapshot, rc, asks, journal, punches, captured,
                   asked, unread, torn>>

-----------------------------------------------------------------------------
(***************************************************************************)
(* The capture journal, a ring.                                            *)
(***************************************************************************)
Add(j, c) ==
    [items |-> [j.items EXCEPT ![j.head] = c],
     head |-> (j.head + 1) % JournalCapacity,
     count |-> IF j.count < JournalCapacity THEN j.count + 1 ELSE j.count]

\* Mutant: the oldest entry is looked for one slot too far.
RememberedFromHead ==
    [i \in 1..journal.count |-> journal.items[(journal.head + i) % JournalCapacity]]

\* The captures ForOverlap walks through, oldest first.
Remembered ==
    LET first == (journal.head - journal.count + JournalCapacity) % JournalCapacity
    IN [i \in 1..journal.count |-> journal.items[(first + i - 1) % JournalCapacity]]

\* The punches asked for where the captures meet the data ranges.
Meet(c, r) == [seq |-> c.seq, start |-> Larger(c.start, r.start), end |-> Smaller(c.end, r.end)]
Ask(out, c, r) == IF c.end <= r.start \/ c.start >= r.end THEN out ELSE Append(out, Meet(c, r))
ForOverlap(out, captures, r) ==
    LET Step(o, c) == Ask(o, c, r)
    IN After(Step, out, captures)
Matches(captures, ranges) ==
    LET Step(out, r) == ForOverlap(out, captures, r)
    IN After(Step, <<>>, ranges)

-----------------------------------------------------------------------------
(***************************************************************************)
(* The reconciler.                                                         *)
(***************************************************************************)

\* One turn of the loop of run(): the captures of the next write, and whether
\* the tracker has to look at it.
TakeEvent ==
    /\ rc.pc = "idle" /\ asks = <<>> /\ events # <<>>
    /\ events' = Tail(events)
    /\ LET ev == Head(events)
           c == [seq |-> ev.seq, start |-> ev.off, end |-> ev.off + ev.len]
       IN /\ rc' = IF ev.touches THEN [Idle EXCEPT !.pc = "observe", !.ev = ev] ELSE Idle
          /\ IF ev.captured
             THEN /\ journal' = Add(journal, c)
                  /\ captured' = Append(captured, c)
                  /\ asks' = Matches(<<c>>, snapshot.data)
             ELSE UNCHANGED <<journal, captured, asks>>
    /\ UNCHANGED <<host, image, tracker, snapshot, punches, asked, blind, unread, torn>>

\* submitPunch and SubmitPunch: a full queue drops the punch.
SubmitPunch ==
    /\ asks # <<>>
    /\ asks' = Tail(asks)
    /\ punches' = IF Len(punches) < PunchDepth THEN Append(punches, Head(asks)) ELSE punches
    /\ asked' = asked \cup {<<Head(asks).seq, c>> : c \in CellsOf(Head(asks))}
    /\ UNCHANGED <<host, image, events, tracker, snapshot, rc, journal, captured,
                   blind, unread, torn>>

\* runPunches takes the oldest punch to the writer.
TakePunch ==
    /\ punches # <<>>
    /\ punches' = Tail(punches)
    /\ UNCHANGED <<host, image, events, tracker, snapshot, rc, asks, journal, captured,
                   asked, blind, unread, torn>>

\* ReadAt of the record's cell through the overlay.  The image is read first: if the
\* writer stores and releases the cell before the overlay is read, the record has
\* the bytes of the image from before.
ReadRecord(id, content) ==
    \/ /\ content = disk[Slot(id)]
       /\ torn' = torn \ {id} /\ blind' = blind \ {id}
       /\ image' = image
    \/ /\ content = image[Slot(id)] /\ content # disk[Slot(id)]
       /\ torn' = torn \cup {id} /\ blind' = blind
       /\ image' = [image EXCEPT ![Slot(id)] = disk[Slot(id)]]

\* The keys of rangeKey(ids), a slice: its indexes.
rangeKeys(ids) == 0..(Cardinality(ids) - 1)

\* Mutant: the scan begins after the first new record.
NewTailLate(new) ==
    {id \in (layout.size + 1)..(new.size - 1) : Slots(new.runs, id) # {}}

\* The tail that is scanned if the MFT has grown, chunk by chunk: up to the first
\* chunk that has an unmapped record, which cannot be read.
NewTail(new) ==
    LET tail == layout.size..(new.size - 1)
        Chunk(id) == (id - layout.size) \div ScanChunk
        Upto(id) == {i \in tail : i < id \/ Chunk(i) = Chunk(id)}
    IN  {id \in tail : \A i \in Upto(id) : Slots(new.runs, i) # {}}

\* The records that a new layout puts where nothing has read them: those that it
\* moves, and the new ones of a tail that cannot be scanned to its end.
Moved(new) ==
    {id \in 0..(new.size - 1) :
        \/ id < layout.size /\ (id \in unread \/ Slots(new.runs, id) # Slots(layout.runs, id))
        \/ id >= layout.size /\ \E i \in layout.size..(new.size - 1) : Slots(new.runs, i) = {}}

\* The first part of ObserveMFTWrite: the records the write touches, record 0 first.
ObserveMFTWrite ==
    /\ rc.pc = "observe" /\ asks = <<>>
    /\ LET r == RangeOf(rc.ev)
           ids == mftRecordIDs(layout.runs, r.start, r.end)
           Go(all, scan) == [rc EXCEPT !.pc = "scan", !.ids = all, !.scan = scan, !.old = dataRanges]
       IN \/ /\ ~(0 \in ids /\ Mapped(0))
             /\ rc' = Go(ids, {})
             /\ UNCHANGED <<image, layout, records, blind, unread, torn>>
          \/ /\ 0 \in ids /\ Mapped(0)
             /\ \E content \in {disk[Slot(0)], image[Slot(0)]} :
                /\ ReadRecord(0, content)
                /\ records' = Refreshed(0, content)
                /\ layout' = IF content.ok /\ content.inUse /\ content.data
                             THEN [runs |-> content.runs, size |-> content.real] ELSE layout
                /\ unread' = Moved(layout') \ (IF Slots(layout'.runs, 0) = Slots(layout.runs, 0)
                                               THEN {0} ELSE {})
                /\ rc' = Go(IF content.ok
                            THEN ids \cup rangeKeys(mftRecordIDs(layout'.runs, r.start, r.end))
                            ELSE ids,
                            NewTail(layout'))
    /\ UNCHANGED <<host, events, dataRanges, snapshot, asks, journal, punches, captured, asked>>

\* scanMFTLogicalRange of the new tail, one record, and rebuildRanges if it comes to
\* the end of the MFT.
ScanRecord ==
    /\ rc.pc = "scan" /\ rc.scan # {}
    /\ LET id == Min(rc.scan)
       IN \E content \in {disk[Slot(id)], image[Slot(id)]} :
            /\ ReadRecord(id, content)
            /\ records' = Refreshed(id, content)
            /\ unread' = unread \ {id}
            /\ rc' = [rc EXCEPT !.scan = @ \ {id}]
            /\ dataRanges' = IF id = layout.size - 1 THEN rebuildRanges(records') ELSE dataRanges
    /\ UNCHANGED <<host, events, layout, snapshot, asks, journal, punches, captured, asked>>

\* The loop over ids: a record outside of the MFT is forgotten, one that cannot be
\* read is left as it was.
RefreshRecord ==
    /\ rc.pc = "scan" /\ rc.scan = {}
    /\ \E id \in rc.ids \ {0} :
        /\ rc' = [rc EXCEPT !.ids = @ \ {id}]
        /\ IF Mapped(id)
           THEN \E content \in {disk[Slot(id)], image[Slot(id)]} :
                    /\ ReadRecord(id, content)
                    /\ records' = Refreshed(id, content)
                    /\ unread' = unread \ {id}
           ELSE /\ records' = IF id < layout.size THEN records
                              ELSE [i \in DOMAIN records \ {id} |-> records[i]]
                /\ UNCHANGED <<image, blind, unread, torn>>
    /\ UNCHANGED <<host, events, layout, dataRanges, snapshot, asks, journal, punches,
                   captured, asked>>

\* Mutant: what the scan of a new tail found counts as known before.
PublishAfterScan ==
    /\ rc.pc = "scan" /\ rc.scan = {} /\ rc.ids \subseteq {0}
    /\ dataRanges' = rebuildRanges(records)
    /\ snapshot' = [data |-> dataRanges', mft |-> buildMFTRanges(layout.runs, layout.size)]
    /\ asks' = Matches(Remembered, subtractRanges(dataRanges', dataRanges))
    /\ rc' = Idle
    /\ UNCHANGED <<host, image, events, layout, records, journal, punches, captured,
                   asked, blind, unread, torn>>

\* The end of ObserveMFTWrite, and the search of the journal for what is new.
PublishSnapshots ==
    /\ rc.pc = "scan" /\ rc.scan = {} /\ rc.ids \subseteq {0}
    /\ dataRanges' = rebuildRanges(records)
    /\ snapshot' = [data |-> dataRanges', mft |-> buildMFTRanges(layout.runs, layout.size)]
    /\ asks' = Matches(Remembered, subtractRanges(dataRanges', rc.old))
    /\ rc' = Idle
    /\ UNCHANGED <<host, image, events, layout, records, journal, punches, captured,
                   asked, blind, unread, torn>>

Next ==
    \/ (\E w \in HostWrites : StageWrite(w)) \/ SubmitWrite
    \/ TakeEvent \/ SubmitPunch \/ TakePunch
    \/ ObserveMFTWrite \/ ScanRecord \/ RefreshRecord \/ PublishSnapshots

Spec == Init /\ [][Next]_vars

-----------------------------------------------------------------------------
(***************************************************************************)
(* Properties.                                                             *)
(***************************************************************************)

\* Every write of the host has been looked at.
Quiet == rc.pc = "idle" /\ events = <<>> /\ write = NoWrite

\* Record id is known as content has it.
KnownAs(id, content) ==
    IF id = 0 THEN content.data => layout = [runs |-> content.runs, size |-> content.real]
    ELSE IF content.inUse THEN id \in DOMAIN records /\ records[id] = RecordOf(content, id)
    ELSE id \notin DOMAIN records

\* A record that can be read and that nothing below excuses.
Followed(id) ==
    /\ Mapped(id) /\ disk[Slot(id)].ok /\ (id = 0 => disk[Slot(id)].inUse)
    /\ id \notin blind \cup unread \cup torn

(***************************************************************************)
(* Once the reconciler has caught up, the tracker knows every readable     *)
(* record of its MFT as the host last wrote it ("MFT parsing sees bytes    *)
(* which FUSE has already acknowledged", main.go), although the host goes  *)
(* on writing while records are read.  Three kinds of records may be       *)
(* stale: one the host wrote between the scan of a grown MFT and           *)
(* its publication, one that record 0 moved to a cell nothing read since,  *)
(* and one whose read ran across its own store.                            *)
(***************************************************************************)
TrackerCurrent ==
    Quiet => \A id \in 0..(layout.size - 1) : Followed(id) => KnownAs(id, disk[Slot(id)])

(***************************************************************************)
(* What ObserveMFTWrite promises of a write to record 0: "The runlist may  *)
(* have changed, so recompute what the current physical write maps to."    *)
(* A write whose own cells the new layout made part of the MFT leaves none *)
(* of their records unread.                                                *)
(***************************************************************************)
RemapsWrite ==
    rc.pc = "scan" /\ rc.scan = {} /\ rc.ids \subseteq {0} =>
        \A id \in mftRecordIDs(layout.runs, rc.ev.off, rc.ev.off + rc.ev.len) :
            Mapped(id) /\ id # 0 => id \notin unread

(***************************************************************************)
(* A capture that waits in the journal "until an MFT update reveals the    *)
(* corresponding file-data range" (run in reconcile.go) is not missed: a   *)
(* punch was asked for every cell of a remembered capture that the tracker *)
(* knows as file data, whichever came first, whatever was known before.    *)
(***************************************************************************)
CapturesAsked ==
    rc.pc = "idle" /\ asks = <<>> =>
        \A i \in DOMAIN Remembered : LET c == Remembered[i] IN
            \A cell \in CellsOf(c) \cap Cover(dataRanges) : <<c.seq, cell>> \in asked

(***************************************************************************)
(* The journal remembers the latest captures in their order, as many as it *)
(* has room for, however often it has gone round.                          *)
(***************************************************************************)
JournalIsLatest ==
    Remembered = LET n == Len(captured)
                 IN SubSeq(captured, Larger(1, n - JournalCapacity + 1), n)

(***************************************************************************)
(* The data ranges are sorted and apart, so that the searches that stop at *)
(* the first hit are right, and cover just the file data of the records.   *)
(***************************************************************************)
RangesExact ==
    rc.pc = "idle" =>
        /\ snapshot.data = dataRanges
        /\ Cover(dataRanges) = UNION {CellsOf(r) : r \in FileRanges(records)}
        /\ \A i \in 1..(Len(dataRanges) - 1) : dataRanges[i].end < dataRanges[i + 1].start

-----------------------------------------------------------------------------
(***************************************************************************)
(* The invariant ReconcileProofs needs for JournalIsLatest: the types of   *)
(* what goes into the journal, and the slot of the ring each capture is    *)
(* in until the ring has gone round.                                       *)
(***************************************************************************)
JournalType ==
    /\ write \in ObservedWrite /\ seq \in Nat
    /\ events \in Seq(ObservedWrite) /\ captured \in Seq(CaptureRange)
    /\ journal.items \in [0..(JournalCapacity - 1) -> CaptureRange]

JournalInv ==
    /\ JournalType
    /\ journal.head = Len(captured) % JournalCapacity
    /\ journal.count = Smaller(Len(captured), JournalCapacity)
    /\ \A k \in 1..Len(captured) : k > Len(captured) - JournalCapacity =>
          journal.items[(k - 1) % JournalCapacity] = captured[k]

(***************************************************************************)
(* The invariant for RangesExact: what records are read from and hold, the *)
(* tail still to be scanned, and that what is published is what was built  *)
(* last, but for the time the tracker looks at records.                    *)
(***************************************************************************)
TrackerType ==
    /\ disk \in [Cells -> Content] /\ image \in [Cells -> Content]
    /\ layout.runs \in Seq(NTFSRun) /\ layout.size \in Nat
    /\ \A id \in DOMAIN records : records[id].ranges \in Seq(ByteRange)
    /\ snapshot.data \in Seq(ByteRange)

RangesInv ==
    /\ TrackerType
    /\ rc.pc = "scan" => \A id \in rc.scan : id \in Nat \ {0} /\ Slots(layout.runs, id) # {}
    /\ rc.pc # "scan" => /\ snapshot.data = dataRanges /\ dataRanges = rebuildRanges(records)
                          /\ snapshot.mft = buildMFTRanges(layout.runs, layout.size)

(***************************************************************************)
(* The invariant for CapturesAsked, at any time: the punch for a cell of a *)
(* remembered capture in a published range was submitted or is about to    *)
(* be, and while records are read, old is still what is published.         *)
(***************************************************************************)
Due(done, next, n, cell) ==
    \/ <<n, cell>> \in done
    \/ \E i \in 1..Len(next) : next[i].seq = n /\ Within(cell, next[i])

AskedInv ==
    /\ asks \in Seq(CaptureRange)
    /\ rc.pc = "scan" => asks = <<>> /\ rc.old = snapshot.data
    /\ \A k \in 1..Len(captured) : k > Len(captured) - JournalCapacity =>
          \A cell \in CellsOf(captured[k]) \cap Cover(snapshot.data) :
             Due(asked, asks, captured[k].seq, cell)

(***************************************************************************)
(* The invariant for TrackerCurrent, at any time: a record is known as the *)
(* disk has it, or will be read again: its cell is in a write that is not  *)
(* submitted, not taken or not looked at, or the record is still in a list.*)
(***************************************************************************)
Awaited(id) ==
    \/ Slot(id) \in CellsOf(RangeOf(write))
    \/ \E i \in 1..Len(events) : events[i].touches /\ Slot(id) \in CellsOf(RangeOf(events[i]))
    \/ rc.pc = "observe" /\ Slot(id) \in CellsOf(RangeOf(rc.ev))
    \/ rc.pc = "scan" /\ id # 0 /\ id \in rc.scan \cup rc.ids

CurrentInv ==
    /\ rc.pc = "observe" => rc.ev \in ObservedWrite
    /\ \A id \in 0..(layout.size - 1) :
          Followed(id) => KnownAs(id, disk[Slot(id)]) \/ Awaited(id)
=============================================================================
