# TLA+ verification of tssniff

tssniff presents a FUSE file as a USB disk to a set-top box, recognises the
MPEG-TS recordings the box writes, streams them over HTTP and keeps them out of
the backing image. An acknowledged write lives in shared memory until a chain of
goroutines has classified it and either stored or dropped it. This directory
models that chain and the parts around it (the stream hub, the NTFS tracker, the
USB gadget, start and stop), checks them with TLC on small instances, and proves
the main safety properties with TLAPS for every value of the constants.

## 1. Inventory

| Component | State | Operations | Interacts with |
|---|---|---|---|
| FUSE disk node (`fuse.go`) | `seq`, `size` | Write, Read, Flush, Fsync, Getattr, Open | stages in the overlay, submits to the pipeline, asks the NTFS tracker whether a write touches the MFT |
| Overlay (`shm.go`) | extent list, generation counter, a file in /dev/shm | StageWrite, ReadAt, ReleaseIfCurrent, Close | staged by FUSE, released by the writer, read by FUSE and the NTFS tracker, under one mutex |
| Write pipeline (`pipeline.go`) | `p.writes`, reorder map, `nextSeq`, `dispatchedSeq`, barriers, `submitWG` | SubmitWrite with fallback goroutines, dispatch, Sync, CloseWrites, SubmitPunch, runPunches | the one goroutine that feeds the sniffer and empties it into the writer and the reconciler |
| Sniffer and TS scanner (`sniffer.go`, `mpegts.go`) | two channels; buffer, `expected`, `detected` | run, Feed, emit, keepTail, findMPEGTS | says of each write whether it is MPEG-TS and which ranges are captured; broadcasts to the hub |
| Writer (`writer.go`) | two input channels, ring `recent` | processWrite, processPunch, barrier | image file, overlay release |
| Reconciler (`reconcile.go`) | capture journal | run, reconcileCapture, submitPunch | reads observations, asks the NTFS tracker, submits punches |
| NTFS tracker (`ntfs.go`, `mbr.go`) | MFT run list, records, data ranges; published snapshots | NewNTFS, TouchesMFT, ObserveMFTWrite, DataRanges | read by FUSE goroutines through atomic snapshots, written by the reconciler |
| Hub, HTTP (`hub.go`, `httpserver.go`) | bounded queues, client set | Broadcast, dispatch, drain, Register, Unregister, Close | fed by the sniffer, read by HTTP handlers |
| Main (`main.go`) | - | start-up, signal, the eleven steps of shutdown() | everything |
| USB gadget (`usb_gadget.go`) | configfs tree, kept by the kernel across runs | Setup, Teardown | the kernel; the host behind it writes through FUSE |
| Service script (`gadget.sh`) | pid file, mount point, image | start, stop, prepare-fakedisk | starts, signals and kills the program, unmounts after it |

What is hard here:

* **Interleavings.** Every Write() that finds `p.writes` full leaves a goroutine
  behind, and these overtake each other; the dispatcher is at the same time the
  producer and the consumer of the sniffer; a read crosses a store and a release.
* **Delayed effects.** A release, a punch or a barrier acts on a range that newer
  writes may have taken since; each has its own guard (generation, ring of recent
  writes, `dispatchedSeq`).
* **Reads of moving data.** The tracker reads the MFT record by record, through
  the overlay, while the host writes it, and FUSE asks a snapshot of it that may be
  about to be replaced.
* **Full queues.** The hub and the punch queue drop, the journal and the ring of
  recent writes forget, each in its own way.
* **Partial failure.** Image writes fail or are short and are not retried; a
  staging write fails half way; configfs calls and the unmount fail and are ignored.
* **Shutdown and restart.** Six goroutines end by closing each other's channels in
  an order; a killed process leaves its gadget and a dead mount to the next one.

What makes each part correct: the pipeline delivers every write once and in order to
each consumer, syncs and shutdown end, and a sync covers what it should; the overlay
shows the last write of each byte and never drops a newer one for an older release;
writer, overlay and punches together lose no ordinary data and the overlay drains;
readers see acknowledged data; the scanner passes on packets and nothing else, from the
first one that a probe finds; the hub hands each client a subsequence; the tracker's
records are those on the disk and a punch is asked for every capture of known file data;
the program can be started again whatever the last run left. `PROJECT.json` lists the
hazards line by line, with the properties that cover them.

## 2. Modules

```
OrderedDelivery      what the pipeline promises its consumers (abstract)
   ^ refined by
WritePipeline        fuse.go, pipeline.go, sniffer.go, writer.go, reconcile.go,
                     main.go: channels, goroutines, barriers, shutdown

Overlay              what shared memory        Classification   what the scanner
                     promises (abstract)                        promises (abstract)
   ^ refined by SHMDisk (shm.go)                 ^ refined by TSScanner (mpegts.go,
   |  over Loops, loops over a slice             |               sniffer.go)
   +----------------- StagedDisk ----------------+
                     overlay + classification + writer + punches + readers

NTFS                 ntfs.go's functions: run lists, records, ranges
   ^ extended by
Reconcile            ntfs.go, reconcile.go: tracker, journal, punch requests,
                     against a writing host
Hub                  hub.go, httpserver.go
USBGadget            usb_gadget.go's calls and configfs
   ^ extended by
Lifecycle            main.go, gadget.sh: start, stop, kill, restart
```

`StagedDisk` composes three promises: it uses `Overlay`'s owner map, which
`SHMDisk` is proved to implement, classifies writes as `Classification` allows,
which `TSScanner` is proved to implement, and consumes the writes in order, which
`OrderedDelivery` promises and `WritePipeline` is proved to implement. It leaves
open which captures the reconciler asks to punch and when, so what it shows holds
for whatever `Reconcile` does. `DiskCells` has the addresses. The `MC` modules are
the ones TLC runs; the theorems about a module `M` are in `MProofs`
(`WritePipelineProofs`, `SHMDiskProofs`, `TSScannerProofs`, `StagedDiskProofs`,
`HubProofs`, `ReconcileProofs`, `LifecycleProofs`), and `LoopTheorems` has what the
proofs about loops and rings rest on. A loop of the code is the body of its round,
run by `Loops` over a slice (`Loop`) or until nothing changes (`While`).

**WritePipeline.** A write event is its sequence number. A channel is a sequence
with a capacity; a goroutine blocked on a channel is a disabled action. The
variables are the fields and local variables of the code (`seq`, `pending`,
`nextSeq`, `dispatchedSeq`, `writesOpen`, `barriers`), a program counter for the
dispatcher (`dpc`), for each Flush/Fsync (`sync`) and for main (`mpc`), and what
each consumer has processed (`fed`, `written`, `reconciled`, `durable`). The
actions are the steps between two blocking operations: Write() taking its number
and submitting it, each fallback sender, each case of the dispatcher's select and
each blocking send under it, the loop of handleBarrier, the sniffer, the writer,
the reconciler, Sync and its interruption, and shutdown(). One Write() runs at a
time, because Open() asks for direct I/O without parallel direct writes and the
kernel then holds the inode lock; Flush and Fsync run beside it.

**SHMDisk.** The sorted extent list with generations. `replaceRangeLocked`,
`removeRangeGenerationLocked`, `coversGenerationLocked`, `coalesceSHM` and the loop of
ReadAt are translated function by function: each loop is the body of its round
(`Replace`, `CutOut`, `Walk`, `Join`, `ReadExtent`), run over the list by `Loops`;
sort.Slice puts each extent at its rank. The actions are StageWrite, its failure (bytes
overwritten, list not), ReleaseIfCurrent with its early return, a write that stays
staged, and Close. Bytes are cells.

**StagedDisk.** One cell of the disk holds the number of the write its content comes
from, or a hole, or bytes of a write that failed half-way (`Torn`). HostWrite stages;
StageWriteFails leaves a prefix under the extents of older writes and takes no number;
Feed is one step of `Classification`; DropTS, WriteImage, WriteImageFails,
ReleaseWritten and ReleaseFails are processWrite, split where readers can look in
between; SubmitPunch and ProcessPunch are the reconciler's request, which may come at
any time after the capture, and the writer's answer; ReadBase and ReadOverlay are the
two halves of ReadAt, of which only the second holds the mutex; Shutdown discards the
overlay once the sniffer has seen every write, with whatever the writer has not got or
not stored.

**TSScanner.** The scanner's fields byte by byte. Of a byte only matters whether
it is the sync byte and whether it can stand where a packet has its adaptation
field control. The kinds of bytes, the packet size, the number of packets of a probe
and of a chunk are constants. Each path through Feed is an action; the loop of emit
is `While` over `EmitRound`, which passes on a chunk, after a resynchronisation if
need be, or keeps the tail and breaks; a turn that goes on makes the buffer shorter,
so its length is enough turns. The branch of emit that skips one byte
is unreachable: it is entered only with a valid packet at the head. Three history
variables keep the contiguous run the scanner follows, the packets captured of it,
and the buffered cells that other writes replaced since.

**Hub.** Each select of Broadcast, dispatch and drain is a step of its own, so that
the queue next door may move between them. The lock is held by dispatch for its
whole loop; Register and the first half of Unregister take it for one map
operation. A handler and a watcher goroutine per request both unregister.

**NTFS and Reconcile.** One cell is one cluster and one MFT record. A cell's content is
what it decodes to as a record: whether it is well-formed, its flags, its base record,
whether it has a plain unnamed nonresident DATA attribute, and the run list of that,
which may be empty (`Bad` for all that the fixup or the parser refuse). The run list
gives physical cells and StartVCN; the loops of coalesceByteRanges, subtractRanges,
buildMFTRanges and buildDataRanges are their rounds (`Merge`, `Gap`, `Uncovered`,
`MFTRange`, `DataRange`). A record is read only from a cell of the disk (`Slots`), as
ReadAt refuses any other offset; where the code takes AllocatedSize for a RealSize of
zero, the model has the size itself. `Reconcile`'s actions are the two halves of Write()
(staging, then number, TouchesMFT and submission), the reconciler's loop, each submitted
punch, and ObserveMFTWrite split at each record it reads, since the host writes and the
writer stores in between: a read returns what the overlay shows, or, if it ran across
the store, what the image held before. The loop over record numbers visits them in any
order, as a Go map does. The scan of a grown MFT reads chunk by chunk (`ScanChunk`
records each) and ends at the first chunk with an unmapped record; the data ranges are
rebuilt by it only if it comes to the end. A capture is the whole range of one write:
reconcile.go loops over the captures of a write, each on its own, and the properties
relate a capture to ranges and not to its write. The disks the program is started on
have all records of their MFT mapped, since NewNTFS fails on any other. Three history
variables name the records that may be stale (`blind`, `unread`, `torn`): `blind` those
the host wrote while the layout that has them was read but not published, so that
TouchesMFT could not see them.

**USBGadget and Lifecycle.** The gadget is the set of configfs directories there are,
the file the LUN has open and whether it is bound. Setup and Teardown are lists of
calls; each may fail, and the kernel's own refusals (a link that exists, a controller
that is bound) and what RemoveAll can remove are modelled after configfs. main() runs
from the mount to shm.Close(); what happens between CloseWrites and the last Wait is
`WritePipeline`'s and one step here. The script starts, signals, kills and cleans up; a
process that dies leaves the gadget and a dead mount. `FuseMounted` is what `mountpoint
-q` says of the mount point: yes of a live mount, either of a dead one, whose attributes
the kernel may or may not still have. start frees a dead mount only if it sees it and
nobody holds it, and refuses otherwise, since `mkdir -p` fails on it; stop removes the
pid file first, unmounts what it sees, lazily if need be, and ignores an error. stop
does not wait after SIGKILL: the mount is dead from the signal on, and what the script
sees of it is open. A local process other than the gadget may have the disk open.

## 3. Runs

| Run | Expected | Shows |
|---|---|---|
| `pipeline` | pass | Each write is in exactly one place before the sniffer (`AcceptedOnce`), a returned sync covers only dispatched writes (`SyncDispatched`), shutdown's sniffer step is complete (`SnifferSawAll`) and what it loses is what is left in sniffer.out (`LossBounded`), the pipeline refines `OrderedDelivery` (`DeliverySpec`), and the writer catches up and shutdown ends unless the program is stuck in one of three ways (`WrittenUnlessStuck`, `ShutdownEnds`). |
| `fsync_durable` | violation | A successful Fsync does not mean that the writer has the writes it covers. |
| `sync_returns` | violation | A Flush or Fsync can hang although its writes were dispatched. |
| `gridlock` | violation | Dispatcher and sniffer block each other once their queues are full. |
| `shm_overlay` | pass | The extent list stays sorted and disjoint, reads find the last staged write, and the list refines `Overlay`. |
| `staged_disk` | pass | No ordinary data is lost (`HostDataKept`), the overlay drains but for given-up and partly superseded writes (`OverlayDrains`), and a read is fresh (`ReadFresh`), each with the exceptions listed below. |
| `scanner` | pass | The buffer is the end of the followed run and shorter than a probe (`BufferWindow`), chunks are whole packets of what was written (`ChunksValid`), where a probe succeeds the packet is captured, unless it begins inside a captured packet of another phase, and so are those that follow it, however the stream is split (`StreamCaptured`), a write is declared MPEG-TS only in a run with a probe (`DeclaredAfterProbe`), and the scanner refines `Classification`. |
| `stale_capture` | violation | Buffered bytes are captured after they were replaced on disk. |
| `hub` | pass | Clients get messages in order (`InOrder`), the newest is never the one dropped (`NewestKept`) and arrives (`NewestArrives`), channels are closed once (`ClosedOnce`), and a client that is gone leaves no goroutine (`GoneIsForgotten`). |
| `reconcile` | pass | The tracker that has caught up knows the records as they are on disk (`TrackerCurrent`), a punch is asked for every remembered capture of known file data (`CapturesAsked`), the journal is the latest captures (`JournalIsLatest`), and the data ranges are exact, sorted and apart (`RangesExact`). |
| `remap` | violation | Records that a write to record 0 brings along are not read. |
| `lifecycle` | pass | Setup is not stopped by the remains of a killed run (`SetupStartsClean`), an active gadget has this run's disk (`ActiveIsBound`), shutdown panics only after a failed unmount (`PanicOnlyIfHeld`), leaves nothing behind (`CleanEnd`), and a program that was not killed leaves a mount only if a removal failed or another process had the disk open (`DeadMountExplained`). |

**Exceptions.** Where the code falls short of a promise in a way that can be said
exactly, the passing property names the exception, and TLC refutes the property
without it:

* `WrittenUnlessStuck`, `ShutdownEnds`: dispatcher and sniffer wait for each other;
  handleBarrier waits for a `dispatchedSeq` that was set back; the dispatcher has
  ended and the sniffer has a full output channel.
* `LossBounded`: main.go says the reconciler has the complete stream after
  sniffer.Wait(); the writes left in sniffer.out are missing.
* `HostDataKept`: `Expendable`, the write was taken for MPEG-TS, or its bytes were
  captured later as the beginning of a stream; `Stale`, an ordinary write replaced bytes
  that the scanner kept and captured later (finding 4); `Forgotten`, the ring has wrapped
  past the write and an older capture has the cell; `Discarded`, the program ended with the write left in the pipeline or not
  storable; and a cell with bytes of a write that the host was told had failed (`Torn`).
* `OverlayDrains`: a write that failed to be stored or released, or was partly
  superseded.
* `ReadFresh`: a cell of a write that the writer finished with during the read; a cell
  that `Expendable`, `Stale` or `Forgotten` excuses for any reader; a torn cell.
* `StreamCaptured`: a stream that begins inside a captured packet, in another phase.
* `TrackerCurrent`: a record in a cell that the host wrote between the reading of a
  grown MFT and its publication; a record the new layout moved to where nothing
  has read it; a record whose read ran across its store.
* `SetupStartsClean`, `ActiveIsBound`, `CleanEnd`: a call that failed in this run.
* `DeadMountExplained`: a run that a signal killed, which includes SIGTERM before
  signal.Notify.

Where a hazard is in the code as it stands (the overlay's leak, torn cells, the read
outside the lock, MPEG-TS without a probe, the swallowed error of writeFile), the property
states how far it reaches and not that it is absent; its note in `PROJECT.json` says so.

**Bounds.** `MaxWrites`, `MaxGen`, `MaxFaults`, `MaxMessages`, `MaxStarts`, the set
`Syncers`, `HostData`, `HostWrites` and `Disks` bound the behaviours; the
channel depths, `Size`, `HistoryCapacity`, `JournalCapacity`, `PunchDepth`, `ScanChunk`
and the packet sizes are parameters of the program made small.

* Pipeline: four writes over channels of one slot are one more than sniffer.in,
  the sniffer and sniffer.out hold, so that every channel fills, fallback senders
  overtake each other and the stuck states occur; one sync meets them.
* Overlay: three writes on four cells give every relation of two ranges, a split
  in two pieces, and a third write over the pieces. One staging failure.
* Staged disk: three writes on two cells give contiguous, overlapping, covering
  and partly superseding writes, with one failure anywhere, a punch queue of one
  and a concurrent reader. A ring of one entry wraps at the second stored write. A stale
  capture takes a third cell, which continues a stream that the first write began in the
  other two and the second replaced in part; TLC goes into it only for that
  (`ThirdCellContinues`). A failure meets the first two writes, and a read that meets the
  third begins after the first was finished with (`ThirdWriteUndisturbed`): the proofs
  have no such bound. TLC refutes `HostDataKept` and `ReadFresh` within these bounds when
  any one of their exceptions is taken away.
  A read changes only its own state, so TLC checks the state in which it finishes
  and seldom goes on from there (`ReadsLeftWhenDone`).
* Scanner: packets of three bytes, the smallest that can overlap in two phases, of the
  two kinds that make them, and probes of two packets on thirteen bytes (a third kind,
  which fits nowhere in a packet, is left to the proofs). The host writes all pieces of
  one and two bytes, a packet, a stream, a stream that goes over into another phase, and the rest
  of a packet with one more, so that packets and probes are split between writes at
  every place; four writes detect, leave, overwrite and resume a stream.
* Hub: queues of one message overflow at the second; two clients.
* Reconcile: four writes of ten kinds (the MFT grows, moves, gets a hole or an empty run
  list, is damaged; files and extension records are added, changed, freed; two
  recordings) on disks whose MFT has one or three records; a journal of two goes round at the third capture,
  a punch queue of one drops.
* Lifecycle: three starts and two failing calls: a run that fails or is killed on
  the remains of one that failed or was killed.

Deadlock checking is off: the host may stop writing, shutdown ends, and the
pipeline really can block, which is stated as a property.

**Fairness.** `WritePipeline`'s `FairSpec` has weak fairness for each goroutine:
the Go scheduler runs every goroutine that is not blocked. It is per goroutine, not
per case of the select, so nothing is assumed about which ready case is taken.
Fallback senders share one condition, as nothing orders them but each send is
served once there is room. Writes, syncs, interrupts and the request to shut down
are the host's and carry no fairness. `Hub`'s `Spec` has one condition for all
steps of the program's goroutines, which is weaker: as long as one of them can go
on, one does. The number of messages is finite, so this is enough. The next
broadcast, a connection, a disconnection and the end of a write to a slow client
carry none; a write to a client that is gone fails.

## 4. Proofs

All theorems hold for every value of the constants allowed by the named
assumptions of the modules (depths and sizes are positive naturals).

`WritePipelineProofs`: `TypeCorrect`, `SyncsDispatched`, `SnifferComplete`, and
`ImplementsOrderedDelivery`: the whole pipeline implements the abstract
specification. None of these is inductive. `IndInv` adds where each number is:
the sniffer's channels hold consecutive numbers between `nextSeq` and the last
write taken from sniffer.out (`SnifferInv`); writer.in and observed hold the
numbers between what was sent and what was processed (`WriterInv`,
`ReconcilerInv`); the dispatcher sends the number whose turn it is
(`DispatcherInv`); every number not yet dispatched waits somewhere
(`AccountedInv`), so that an empty channel after close means all were dispatched
(`ShutdownInv`); and a barrier in writer.in has its target behind `nextSeq`
(`SyncInv`). One lemma per conjunct shows that it is preserved, one step per action.
The refinement follows: each step of a consumer advances it by exactly one, below
the writes accepted.

`LossIsBounded` needs in addition what the end of each worker implies (`EndInv`):
a worker ends only when its input is closed and empty, and main gets past a wait
only when the worker has ended.

`StagedDiskProofs`: `TypeCorrect`, `HostDataIsKept`, `OverlayIsDrained` and
`ReadsAreFresh`, for every size of the ring and any number of writes. `IndInv`
adds: the overlay has the last write of a cell until the writer has finished with
it (`OwnerInv`); a finished write is in the image, or excused (`StoredInv`,
`WrittenInv`); a captured cell was written by a host write not newer than
the capture, so that a punched cell always has a last write to account for
(`CaptureInv`); the ring has the last stored writes in order, and a
write that is not in it is older than all that are (`RecentInv`); a punch names
captured cells only (`PunchInv`); and a read finds a cell in its buffer or in the
overlay unless the writer finished with it meanwhile (`ReadInv`). The heart of it
is the punch: it erases a cell only if no newer write in the ring overlaps, hence
the last write of the cell is newer than the capture and not stored yet, MPEG-TS or
older than a ring that is full; or it is not newer, and then it is the write whose bytes
were captured, or one that replaced them in between, which is the stale capture.

`WritesAcceptedOnce` (also `WritePipelineProofs`): `AccountedInv` says that a
number waits somewhere; `OnceInv` adds that it waits in one place only, and that no
number behind `nextSeq` waits anywhere. Counting the places of `AcceptedOnce` is then
a case split over where the number is.

`SHMDiskProofs`: `TypesKept`, `ExtentsSortedDisjoint`, `ReadsLatestWrite` and
`RefinesOverlay`, for every size of the disk and any number of writes, releases and
failures. What a loop computes for a list of any length is shown by an invariant of
its rounds. `LoopTheorems` makes that possible without an operator as a parameter:
`LoopExists` takes the body as a function on a set that it stays in, `LoopInduction`
takes the rounds at which the invariant holds as a set, and both rest on the least
element of a set of naturals. The loop invariants: what Join has collected is sorted
and owns the cells of the extents it has seen (`coalesceSHM`); what Replace has
collected owns the new range for the new generation and all else as before, and the
new extent is in it as soon as one behind it was met; CutOut takes from a range just
the cells of one generation; Walk answers yes exactly if that generation owns all of
the range, which is the guard of ReleaseIfCurrent; ReadExtent has read the cells of
the extents it has passed. The invariant of the state is that the extents give a
cell to its last write until that is released (`OwnInv`), that the file has that
write's bytes (`FileInv`), and that the writes in flight have generations given out
before (`StagedInv`): without the last a release of an old write could name the
generation of a new one. `OwnInv` is the refinement mapping: the owner map of
`Overlay` is the last write of a cell, or nobody if it was released.

`HubProofs`: `Ordered`, `NewestIsKept` and `DoneClosedOnce`, for any clients, depths
and number of messages. A message passes from the queue through dispatch, a client's
inbox and drain's hand to its out channel. `IndInv` bounds what may have left each
place by the first message in the place before it (`QueueOrder`, `ClientOrder`),
so that dropping the oldest at either queue keeps the order; the newest message is
in one of the places of each client that was there when it was sent (`NewestInv`),
which needs that there is room after a drop (`DispatchInv`); and a client is
registered, about to be closed by one of two goroutines, or closed (`RegisterInv`).

`LifecycleProofs`: `SetupIsNotStopped`, `ActiveGadgetIsBound`, `NoPanicAfterUnmount`,
`ShutdownIsClean` and `DeadMountHasCause`, for any number of starts and of failing
calls. `IndInv` says what is gone after each step of Teardown and there after each step
of Setup if no call of this run failed (`TeardownInv`, `SetupInv`), that nothing lies
outside of the gadget's directory (`GadgetInv`), who may still write at each step of
shutdown() (`WriteInv`), and between which steps the mount is live and no LUN has a file
of it open (`MountInv`): a Teardown stands between Setup and every unmount. Each part
holds from any gadget an earlier run may have left.

`TSScannerProofs`: `BufferBounded`, `ChunksAreStream`, `NothingMissed`,
`DeclaredOnlyAfterProbe` and `Refinement`, for every packet, probe and chunk size, all
kinds of bytes and any writes. The lemmas first translate the tests on the buffer into
statements about the run of contiguous bytes the scanner follows (`PacketIn`,
`ProbeIn`), which grows at its end and keeps its packets. The invariant of emit's loop
(`EmitInv`) says that the buffer is still the end of the run, that each chunk is a
piece of it made of packets, in order, and that every cell it has passed was taken or
begins no probe although there was room for one; each turn keeps it and makes the
buffer shorter or closes the loop, so that after as many turns as the buffer had bytes
it holds no probe. keepTail drops only cells that have room for a probe and begin
none: this is the argument that one byte short of a probe is the right tail. Between
writes, `IndInv` carries the same statement over all bytes of the run before the
buffer (`TakenInv`), the bytes that follow a captured packet included, and that a
stream was detected only after a probe (`DetectedInv`). The refinement maps each path
through Feed to a step of `Classification`.

`ReconcileProofs`: `PublishedRangesExact`, `JournalRemembersLatest`,
`NoCaptureMissed` and `TrackerFollowsHost`, for every disk, run list and capacity and
any number of writes.

* Ranges: ranks of a total order are different, hence n ranks are all numbers up to
  n, and sorting keeps the ranges; the invariant of Merge is that the ranges so far
  are not empty, apart, begin no later than those to come and cover the same cells.
  `RangesInv` adds the types of what is read and kept, and that what is published is
  what was built last, except while records are read.
* Journal: `JournalInv` ties head and count of the ring to the number of captures and
  says in which slot each of the last ones is. A slot is not overwritten before the
  ring has gone round because two numbers less than a capacity apart have different
  remainders.
* Captures: `AskedInv` holds at any time: the punch for a cell of a remembered capture
  in a published range was submitted or is about to be. A new capture meets all
  published ranges; a new publication meets all remembered captures in what
  subtractRanges leaves, and a cell of a new range is in an old one or in a gap
  (the cursor of `Gap` never passes a cell that no old range covers). That needs
  `old` to be what was published when the tracker began, which the `PublishAfterScan`
  mutant breaks.
* Tracker: `CurrentInv` holds at any time: a record that is not excused is known as the
  disk has it, or will be read again, because its cell is in a write that is not
  submitted, not taken or not looked at, or because it is in one of the reconciler's
  lists (`Awaited`). It rests on two facts about layouts: buildMFTRanges covers the
  cell of every record and the search of rangesOverlapSnapshot finds it, so a write to
  the cell is taken as a reconciliation point once the layout is published
  (`WriteTouchesMFT`); and mftRecordIDsForPhysicalRange is the inverse of
  readMFTLogical (`WriteTouchesRecord`), so the record is among those read again.

Only model-checked: the liveness properties `WrittenUnlessStuck`, `ShutdownEnds`,
`NewestArrives` and `GoneIsForgotten`, since fairness and ENABLED are out of the
prover's reach. All invariants of the passing runs and their three refinements
(`DeliverySpec`, `ImplementsOverlay`, `ImplementsClassification`) are proved. That a
recursive definition exists for lists of any length (`LoopExists`) is proved from the
least element of a set of naturals, as the provers cannot instantiate an induction
theorem.

## 5. Findings

Each is a run that TLC refutes, with the line it contradicts quoted in
`PROJECT.json`.

1. `pipeline.go:278`: a barrier overtakes the writes that are still in the
   sniffer, so Fsync succeeds before they are stored.
2. `pipeline.go:316`: forwarding a sniffed write sets `dispatchedSeq` back, and a
   barrier then waits on `p.writes` for a write that was dispatched already.
3. `pipeline.go:213`: the dispatcher and the sniffer can block each other.
4. `mpegts.go:100`: bytes of the scanner's buffer are captured under the number of
   a later write, so the punch guard does not see what replaced them in between.
5. `ntfs.go:237`: the loop over `rangeKey(newIDs)` runs over indexes.

Beside these, the exceptions listed in section 3 name where passing properties fall
short of a comment of the code: `main.go:367` (the complete observation stream),
`writer.go:352` ("Do NOT destroy it", after a stale capture or once the ring has
wrapped), `fuse.go:190` (bytes visible immediately), `main.go:344` (an unmount that
fails), `main.go:409` (safe to destroy the overlay, with writes left in sniffer.out or
not storable in it), `gadget.sh:266-273` ("forcing FUSE unmount" and "tssniff stopped":
stop does neither to a dead mount that `mountpoint -q` does not see, but the pid file is
gone and start then refuses; in `Lifecycle` this is a SIGTERM that arrives while main()
listens). And `pipeline.go:132` counts on a later attempt for a punch that found its
queue full, but ObserveMFTWrite returns only ranges that were not known before, and a
capture is matched with the known ones once: the space is not reclaimed.

## 6. Not modelled, and the plan

Not modelled:

* The bytes of NTFS structures: boot sector, fixup, attribute headers, the variable
  length encoding of run lists. They are decoded by code without state, and what
  matters to the rest is what they decode to; a record that any of it refuses is
  `Bad`. Widths and overflow of 64-bit offsets are not reached by disks of this size.
* `mbr.go`: a scan of four entries at start-up.
* `gadget.sh prepare-fakedisk`: a chain of external tools on a file the program has
  not opened. Flags (`-no-gadget` included, which the script never passes), logging,
  HTTP headers, the file in /dev/shm that a killed process leaves behind.
* Attributes of the gadget that nothing else depends on.

The plan is done but for what the prover cannot do: the liveness properties stay with
TLC. A next step beyond it would be the decoding of a record's bytes (fixup, attribute
headers, run lists) as functions checked against a reference encoder.
