---------------------------- MODULE WritePipeline ----------------------------
(***************************************************************************)
(* The asynchronous write pipeline of tssniff: FUSE Write() submission     *)
(* (fuse.go), the dispatcher goroutine (pipeline.go), the sniffer          *)
(* goroutine (sniffer.go), the normal input of the writer goroutine        *)
(* (writer.go), the reconciler's input (reconcile.go), Flush/Fsync         *)
(* barriers, and the shutdown sequence of main.go.                         *)
(*                                                                         *)
(* Only the control is modelled here: a write event is its sequence        *)
(* number.  What the writer does to the overlay and the image is in        *)
(* StagedDisk.  A Go channel is a bounded sequence; a goroutine blocked on *)
(* a full or an empty channel is a disabled action.                        *)
(***************************************************************************)
EXTENDS Integers, Sequences, FiniteSets

CONSTANTS
    WriteDepth,     \* pipelineWriteDepth, capacity of p.writes
    SnifferDepth,   \* snifferQueueDepth, capacity of sniffer.in and sniffer.out
    WriterDepth,    \* writerQueueDepth, capacity of writer.in
    ObservedDepth,  \* capacity of p.observed
    BarrierDepth,   \* pipelineBarrierDepth, capacity of p.barriers
    Syncers,        \* the Flush/Fsync requests the host may issue
    MaxWrites       \* bound: the number of host writes of a behaviour

ASSUME DepthAssumption ==
    /\ WriteDepth \in Nat \ {0}
    /\ SnifferDepth \in Nat \ {0}
    /\ WriterDepth \in Nat \ {0}
    /\ ObservedDepth \in Nat \ {0}
    /\ BarrierDepth \in Nat \ {0}

ASSUME MaxWritesAssumption == MaxWrites \in Nat

VARIABLES
    \* FUSE Write() and its fallback senders
    seq,            \* DiskNode.seq
    fuse,           \* "idle", or "submit": Write() holds a number it has not submitted
    fallback,       \* the events of goroutines blocked in p.writes <- ev (submitWG)
    \* p.writes
    writes, writesClosed,
    \* the dispatcher goroutine, WritePipeline.run
    dpc,            \* where it is: see DispatcherPC
    dret,           \* where acceptWrite returns to: the select or handleBarrier
    cur,            \* the event it is sending
    breq,           \* the barrier it is handling
    pending, nextSeq, dispatchedSeq, writesOpen,
    \* the sniffer goroutine
    snIn, snHold, snOut, snDone,
    fed,            \* the last event the scanner was fed
    \* the writer goroutine, normal commands only
    wIn, written, writerDone,
    durable,        \* the last processed write when disk.Sync last returned
    \* the reconciler goroutine
    observed, reconciled, recDone,
    \* Flush and Fsync
    barriers,       \* p.barriers
    sync,           \* the goroutine running pipeline.Sync for each request
    target,         \* TargetSeq of each request
    interrupted,    \* requests whose context was cancelled: answered EINTR
    \* main
    mpc

fuseVars == <<seq, fuse, fallback>>
chanVars == <<writes, writesClosed>>
dispVars == <<dpc, dret, cur, breq, pending, nextSeq, dispatchedSeq, writesOpen>>
snVars   == <<snIn, snHold, snOut, snDone, fed>>
wVars    == <<wIn, written, writerDone, durable>>
recVars  == <<observed, reconciled, recDone>>
syncVars == <<barriers, sync, target, interrupted>>

vars == <<fuseVars, chanVars, dispVars, snVars, wVars, recVars, syncVars, mpc>>

None == 0   \* no event: sequence numbers start at 1

DispatcherPC ==
    {"select", "dispatch", "toWriter", "toObserved", "barrier", "exit", "done"}
SyncPC == {"idle", "wg", "send", "wait", "done"}
MainPC ==
    {"running", "unmounted", "sniffer", "reconciler", "pipeline", "writer", "stopped"}

\* writerCommand: a write by its number, or the barrier of a Sync.
Command == [kind : {"write", "barrier"}, seq : Nat, req : Syncers \cup {None}]

Init ==
    /\ seq = 0 /\ fuse = "idle" /\ fallback = {}
    /\ writes = <<>> /\ writesClosed = FALSE
    /\ dpc = "select" /\ dret = "select" /\ cur = None /\ breq = None
    /\ pending = {} /\ nextSeq = 1 /\ dispatchedSeq = 0 /\ writesOpen = TRUE
    /\ snIn = <<>> /\ snHold = None /\ snOut = <<>> /\ snDone = FALSE /\ fed = 0
    /\ wIn = <<>> /\ written = 0 /\ writerDone = FALSE /\ durable = 0
    /\ observed = <<>> /\ reconciled = 0 /\ recDone = FALSE
    /\ barriers = <<>>
    /\ sync = [c \in Syncers |-> "idle"]
    /\ target = [c \in Syncers |-> 0]
    /\ interrupted = {}
    /\ mpc = "running"

-----------------------------------------------------------------------------
(***************************************************************************)
(* FUSE Write().  The kernel holds the inode lock over a direct write      *)
(* (Open() does not ask for parallel direct writes), so one Write() runs   *)
(* at a time.                                                              *)
(***************************************************************************)

\* Write() takes its number; Flush may read DiskNode.seq before it submits.
WriteTakesSeq ==
    /\ mpc = "running" /\ fuse = "idle" /\ seq < MaxWrites
    /\ seq' = seq + 1
    /\ fuse' = "submit"
    /\ UNCHANGED <<fallback, chanVars, dispVars, snVars, wVars, recVars, syncVars, mpc>>

\* SubmitWrite: the fast path, or a goroutine that blocks in Write()'s place.
SubmitWrite ==
    /\ fuse = "submit"
    /\ fuse' = "idle"
    /\ IF Len(writes) < WriteDepth
         THEN writes' = Append(writes, seq) /\ UNCHANGED fallback
         ELSE fallback' = fallback \cup {seq} /\ UNCHANGED writes
    /\ UNCHANGED <<seq, writesClosed, dispVars, snVars, wVars, recVars, syncVars, mpc>>

\* A fallback sender gets a free slot.  They are served in no fixed order:
\* a sender that has not been scheduled yet is not in the channel's queue.
FallbackSend(n) ==
    /\ n \in fallback
    /\ Len(writes) < WriteDepth
    /\ writes' = Append(writes, n)
    /\ fallback' = fallback \ {n}
    /\ UNCHANGED <<seq, fuse, writesClosed, dispVars, snVars, wVars, recVars, syncVars, mpc>>

-----------------------------------------------------------------------------
(***************************************************************************)
(* The dispatcher goroutine, WritePipeline.run.                            *)
(***************************************************************************)

\* Mutant: dispatches the events in the order in which they arrive.
AcceptWriteUnordered(n, return) ==
    /\ dret' = return /\ dpc' = "dispatch" /\ cur' = n
    /\ UNCHANGED <<breq, pending, nextSeq, dispatchedSeq, writesOpen>>

\* Mutant: drops an early event instead of parking it.
AcceptWriteDropsEarly(n, return) ==
    /\ dret' = return
    /\ IF n = nextSeq THEN dpc' = "dispatch" /\ cur' = n
                      ELSE dpc' = return /\ UNCHANGED cur
    /\ UNCHANGED <<breq, pending, nextSeq, dispatchedSeq, writesOpen>>

\* acceptWrite(n): drop an old number, park an early one, dispatch the next.
AcceptWrite(n, return) ==
    /\ dret' = return
    /\ IF n = nextSeq THEN dpc' = "dispatch" /\ cur' = n
                      ELSE dpc' = return /\ UNCHANGED cur
    /\ pending' = IF n > nextSeq THEN pending \cup {n} ELSE pending
    /\ UNCHANGED <<breq, nextSeq, dispatchedSeq, writesOpen>>

\* The select takes an event from p.writes.
RecvWrite ==
    /\ dpc = "select" /\ writes # <<>>
    /\ writes' = Tail(writes)
    /\ AcceptWrite(Head(writes), "select")
    /\ UNCHANGED <<fuseVars, writesClosed, snVars, wVars, recVars, syncVars, mpc>>

\* The select finds p.writes closed: the loop ends.
RecvClosed ==
    /\ dpc = "select" /\ writes = <<>> /\ writesClosed
    /\ writesOpen' = FALSE
    /\ dpc' = "exit"
    /\ UNCHANGED <<fuseVars, chanVars, dret, cur, breq, pending, nextSeq, dispatchedSeq,
                   snVars, wVars, recVars, syncVars, mpc>>

\* Mutant: does not wait for room in sniffer.in.
DispatchUnbounded ==
    /\ dpc = "dispatch"
    /\ snIn' = Append(snIn, cur)
    /\ dispatchedSeq' = cur
    /\ nextSeq' = nextSeq + 1
    /\ dpc' = dret
    /\ UNCHANGED <<fuseVars, chanVars, dret, cur, breq, pending, writesOpen,
                   snHold, snOut, snDone, fed, wVars, recVars, syncVars, mpc>>

\* Mutant: leaves a released successor in the reorder map.
DispatchKeepsPending ==
    /\ dpc = "dispatch" /\ Len(snIn) < SnifferDepth
    /\ snIn' = Append(snIn, cur)
    /\ dispatchedSeq' = cur
    /\ nextSeq' = nextSeq + 1
    /\ IF nextSeq + 1 \in pending
         THEN cur' = nextSeq + 1 /\ UNCHANGED dpc
         ELSE dpc' = dret /\ UNCHANGED cur
    /\ UNCHANGED <<fuseVars, chanVars, dret, breq, pending, writesOpen,
                   snHold, snOut, snDone, fed, wVars, recVars, syncVars, mpc>>

\* dispatchWrite and the loop of acceptWrite that releases parked successors.
Dispatch ==
    /\ dpc = "dispatch" /\ Len(snIn) < SnifferDepth
    /\ snIn' = Append(snIn, cur)
    /\ dispatchedSeq' = cur
    /\ nextSeq' = nextSeq + 1
    /\ IF nextSeq + 1 \in pending
         THEN /\ cur' = nextSeq + 1
              /\ pending' = pending \ {nextSeq + 1}
              /\ UNCHANGED dpc
         ELSE dpc' = dret /\ UNCHANGED <<cur, pending>>
    /\ UNCHANGED <<fuseVars, chanVars, dret, breq, writesOpen,
                   snHold, snOut, snDone, fed, wVars, recVars, syncVars, mpc>>

\* The select takes a classified write from the sniffer ...
RecvSniffed ==
    /\ dpc = "select" /\ snOut # <<>>
    /\ snOut' = Tail(snOut)
    /\ cur' = Head(snOut)
    /\ dpc' = "toWriter"
    /\ UNCHANGED <<fuseVars, chanVars, dret, breq, pending, nextSeq, dispatchedSeq, writesOpen,
                   snIn, snHold, snDone, fed, wVars, recVars, syncVars, mpc>>

\* ... sends it to the writer ...
ForwardToWriter ==
    /\ dpc = "toWriter" /\ Len(wIn) < WriterDepth
    /\ wIn' = Append(wIn, [kind |-> "write", seq |-> cur, req |-> None])
    /\ dpc' = "toObserved"
    /\ UNCHANGED <<fuseVars, chanVars, dret, cur, breq, pending, nextSeq, dispatchedSeq, writesOpen,
                   snVars, written, writerDone, durable, recVars, syncVars, mpc>>

\* ... and to the reconciler.  This sets dispatchedSeq back to an older number.
ForwardToReconciler ==
    /\ dpc = "toObserved" /\ Len(observed) < ObservedDepth
    /\ observed' = Append(observed, cur)
    /\ dispatchedSeq' = cur
    /\ dpc' = "select"
    /\ UNCHANGED <<fuseVars, chanVars, dret, cur, breq, pending, nextSeq, writesOpen,
                   snVars, wVars, reconciled, recDone, syncVars, mpc>>

\* The select takes a barrier.
RecvBarrier ==
    /\ dpc = "select" /\ barriers # <<>>
    /\ breq' = Head(barriers)
    /\ barriers' = Tail(barriers)
    /\ dpc' = "barrier"
    /\ UNCHANGED <<fuseVars, chanVars, dret, cur, pending, nextSeq, dispatchedSeq, writesOpen,
                   snVars, wVars, recVars, sync, target, interrupted, mpc>>

\* Mutant: passes the barrier on at once.
BarrierNeverWaits == FALSE

\* handleBarrier must go on reading p.writes.
BarrierWaits == writesOpen /\ dispatchedSeq < target[breq]

\* handleBarrier reads p.writes until TargetSeq has been dispatched.
BarrierRecvWrite ==
    /\ dpc = "barrier" /\ BarrierWaits /\ writes # <<>>
    /\ writes' = Tail(writes)
    /\ AcceptWrite(Head(writes), "barrier")
    /\ UNCHANGED <<fuseVars, writesClosed, snVars, wVars, recVars, syncVars, mpc>>

BarrierRecvClosed ==
    /\ dpc = "barrier" /\ BarrierWaits /\ writes = <<>> /\ writesClosed
    /\ writesOpen' = FALSE
    /\ UNCHANGED <<fuseVars, chanVars, dpc, dret, cur, breq, pending, nextSeq, dispatchedSeq,
                   snVars, wVars, recVars, syncVars, mpc>>

\* handleBarrier passes the barrier to the writer and returns to the loop.
SubmitBarrier ==
    /\ dpc = "barrier" /\ ~BarrierWaits /\ Len(wIn) < WriterDepth
    /\ wIn' = Append(wIn, [kind |-> "barrier", seq |-> None, req |-> breq])
    /\ dpc' = IF writesOpen THEN "select" ELSE "exit"
    /\ UNCHANGED <<fuseVars, chanVars, dret, cur, breq, pending, nextSeq, dispatchedSeq, writesOpen,
                   snVars, written, writerDone, durable, recVars, syncVars, mpc>>

\* After the loop: close sniffer.in, writer.in and p.observed.
ExitLoop ==
    /\ dpc = "exit"
    /\ dpc' = "done"
    /\ UNCHANGED <<fuseVars, chanVars, dret, cur, breq, pending, nextSeq, dispatchedSeq, writesOpen,
                   snVars, wVars, recVars, syncVars, mpc>>

\* The three channels the dispatcher closes when it ends.
DispatcherClosed == dpc = "done"

DispatcherNext ==
    \/ RecvWrite \/ RecvClosed \/ Dispatch
    \/ RecvSniffed \/ ForwardToWriter \/ ForwardToReconciler
    \/ RecvBarrier \/ BarrierRecvWrite \/ BarrierRecvClosed \/ SubmitBarrier
    \/ ExitLoop

-----------------------------------------------------------------------------
(***************************************************************************)
(* The sniffer, writer and reconciler goroutines.                          *)
(***************************************************************************)

\* Sniffer.run takes an event and feeds it to the scanner.
Sniff ==
    /\ snHold = None /\ snIn # <<>>
    /\ snHold' = Head(snIn)
    /\ fed' = Head(snIn)
    /\ snIn' = Tail(snIn)
    /\ UNCHANGED <<fuseVars, chanVars, dispVars, snOut, snDone, wVars, recVars, syncVars, mpc>>

\* Sniffer.run sends the classified write on sniffer.out.
SnifferOut ==
    /\ snHold # None /\ Len(snOut) < SnifferDepth
    /\ snOut' = Append(snOut, snHold)
    /\ snHold' = None
    /\ UNCHANGED <<fuseVars, chanVars, dispVars, snIn, snDone, fed, wVars, recVars, syncVars, mpc>>

\* Sniffer.run ends: its input is closed and drained.
SnifferEnds ==
    /\ ~snDone /\ DispatcherClosed /\ snIn = <<>> /\ snHold = None
    /\ snDone' = TRUE
    /\ UNCHANGED <<fuseVars, chanVars, dispVars, snIn, snHold, snOut, fed, wVars, recVars, syncVars, mpc>>

SnifferNext == Sniff \/ SnifferOut \/ SnifferEnds

\* processCommand on a write.
WriterWrites ==
    /\ wIn # <<>> /\ Head(wIn).kind = "write"
    /\ written' = Head(wIn).seq
    /\ wIn' = Tail(wIn)
    /\ UNCHANGED <<fuseVars, chanVars, dispVars, snVars, writerDone, durable, recVars, syncVars, mpc>>

\* processCommand on a barrier: disk.Sync, then the answer to pipeline.Sync.
WriterSyncs ==
    /\ wIn # <<>> /\ Head(wIn).kind = "barrier"
    /\ durable' = written
    /\ sync' = [sync EXCEPT ![Head(wIn).req] = "done"]
    /\ wIn' = Tail(wIn)
    /\ UNCHANGED <<fuseVars, chanVars, dispVars, snVars, written, writerDone, recVars,
                   barriers, target, interrupted, mpc>>

\* Mutant: shutdown() forgets ClosePunches().
PunchesNeverClosed == FALSE

\* ClosePunches() has been called; the punch forwarder never blocks.
PunchesClosed == mpc \in {"pipeline", "writer", "stopped"}

\* Writer.run returns once writer.in and writer.punchIn are closed and drained.
WriterEnds ==
    /\ ~writerDone /\ DispatcherClosed /\ wIn = <<>> /\ PunchesClosed
    /\ writerDone' = TRUE
    /\ UNCHANGED <<fuseVars, chanVars, dispVars, snVars, wIn, written, durable, recVars, syncVars, mpc>>

WriterNext == WriterWrites \/ WriterSyncs \/ WriterEnds

\* Reconciler.run takes an observed write.
Reconcile ==
    /\ observed # <<>>
    /\ reconciled' = Head(observed)
    /\ observed' = Tail(observed)
    /\ UNCHANGED <<fuseVars, chanVars, dispVars, snVars, wVars, recDone, syncVars, mpc>>

\* Mutant: ends with the dispatcher, whatever is left to read.
ReconcilerEndsAtOnce ==
    /\ ~recDone /\ DispatcherClosed
    /\ recDone' = TRUE
    /\ UNCHANGED <<fuseVars, chanVars, dispVars, snVars, wVars, observed, reconciled, syncVars, mpc>>

\* Reconciler.run ends: p.observed is closed and drained.
ReconcilerEnds ==
    /\ ~recDone /\ DispatcherClosed /\ observed = <<>>
    /\ recDone' = TRUE
    /\ UNCHANGED <<fuseVars, chanVars, dispVars, snVars, wVars, observed, reconciled, syncVars, mpc>>

ReconcilerNext == Reconcile \/ ReconcilerEnds

-----------------------------------------------------------------------------
(***************************************************************************)
(* Flush and Fsync: syncWriter reads the target and starts a goroutine     *)
(* that runs pipeline.Sync.                                                *)
(***************************************************************************)
SyncStart(c) ==
    /\ mpc = "running" /\ sync[c] = "idle"
    /\ target' = [target EXCEPT ![c] = seq]
    /\ sync' = [sync EXCEPT ![c] = "wg"]
    /\ UNCHANGED <<fuseVars, chanVars, dispVars, snVars, wVars, recVars, barriers, interrupted, mpc>>

\* submitWG.Wait(): no fallback sender is left.
SyncWaitsSenders(c) ==
    /\ sync[c] = "wg" /\ fallback = {}
    /\ sync' = [sync EXCEPT ![c] = "send"]
    /\ UNCHANGED <<fuseVars, chanVars, dispVars, snVars, wVars, recVars, barriers, target, interrupted, mpc>>

SyncSends(c) ==
    /\ sync[c] = "send" /\ Len(barriers) < BarrierDepth
    /\ barriers' = Append(barriers, c)
    /\ sync' = [sync EXCEPT ![c] = "wait"]
    /\ UNCHANGED <<fuseVars, chanVars, dispVars, snVars, wVars, recVars, target, interrupted, mpc>>

\* ctx.Done(): the request is answered EINTR, its goroutine goes on.
SyncInterrupt(c) ==
    /\ mpc = "running" /\ sync[c] \in {"wg", "send", "wait"} /\ c \notin interrupted
    /\ interrupted' = interrupted \cup {c}
    /\ UNCHANGED <<fuseVars, chanVars, dispVars, snVars, wVars, recVars, barriers, sync, target, mpc>>

SyncNext(c) == SyncWaitsSenders(c) \/ SyncSends(c)

-----------------------------------------------------------------------------
(***************************************************************************)
(* shutdown() of main.go.                                                  *)
(***************************************************************************)

\* server.Unmount() succeeds once no request is being served.
Unmount ==
    /\ mpc = "running" /\ fuse = "idle"
    /\ \A c \in Syncers : sync[c] \in {"idle", "done"} \/ c \in interrupted
    /\ mpc' = "unmounted"
    /\ UNCHANGED <<fuseVars, chanVars, dispVars, snVars, wVars, recVars, syncVars>>

\* Mutant: does not wait for the fallback senders.
CloseWritesAtOnce ==
    /\ mpc = "unmounted"
    /\ writesClosed' = TRUE
    /\ mpc' = "sniffer"
    /\ UNCHANGED <<fuseVars, writes, dispVars, snVars, wVars, recVars, syncVars>>

\* CloseWrites(): wait for the fallback senders, then close p.writes.
CloseWrites ==
    /\ mpc = "unmounted" /\ fallback = {}
    /\ writesClosed' = TRUE
    /\ mpc' = "sniffer"
    /\ UNCHANGED <<fuseVars, writes, dispVars, snVars, wVars, recVars, syncVars>>

\* The waits that follow, in main's order: at each of them, what main waits
\* for and where it goes next.
WaitFor(from, condition, to) ==
    /\ mpc = from /\ condition
    /\ mpc' = to
    /\ UNCHANGED <<fuseVars, chanVars, dispVars, snVars, wVars, recVars, syncVars>>

SnifferWait    == WaitFor("sniffer", snDone, "reconciler")
ReconcilerWait == WaitFor("reconciler", recDone, "pipeline")
PipelineWait   == WaitFor("pipeline", DispatcherClosed, "writer")
WriterWait     == WaitFor("writer", writerDone, "stopped")

\* What is left of shutdown() once Unmount has returned.
ShutdownNext ==
    CloseWrites \/ SnifferWait \/ ReconcilerWait \/ PipelineWait \/ WriterWait

\* shutdown() has returned and every goroutine it waits for has ended.
Stopped == mpc = "stopped" /\ UNCHANGED vars

-----------------------------------------------------------------------------
Next ==
    \/ WriteTakesSeq \/ SubmitWrite
    \/ \E n \in fallback : FallbackSend(n)
    \/ DispatcherNext \/ SnifferNext \/ WriterNext \/ ReconcilerNext
    \/ \E c \in Syncers : SyncStart(c) \/ SyncNext(c) \/ SyncInterrupt(c)
    \/ Unmount \/ ShutdownNext \/ Stopped

Spec == Init /\ [][Next]_vars

(***************************************************************************)
(* Every goroutine that can run eventually does.  The host owes nothing:   *)
(* it need not write, sync, interrupt or ask for the shutdown.             *)
(***************************************************************************)
Fairness ==
    /\ WF_vars(SubmitWrite)
    /\ WF_vars(\E n \in fallback : FallbackSend(n))
    /\ WF_vars(DispatcherNext)
    /\ WF_vars(SnifferNext)
    /\ WF_vars(WriterNext)
    /\ WF_vars(ReconcilerNext)
    /\ \A c \in Syncers : WF_vars(SyncNext(c))
    /\ WF_vars(ShutdownNext)

FairSpec == Spec /\ Fairness

-----------------------------------------------------------------------------
(***************************************************************************)
(* Properties.                                                             *)
(***************************************************************************)

(***************************************************************************)
(* Every variable has its type, no channel ever holds more than its        *)
(* capacity, and handleBarrier runs only with a barrier in hand.           *)
(***************************************************************************)
TypeOK ==
    /\ seq \in Nat /\ fuse \in {"idle", "submit"} /\ fallback \in SUBSET Nat
    /\ writes \in Seq(Nat) /\ Len(writes) <= WriteDepth /\ writesClosed \in BOOLEAN
    /\ dpc \in DispatcherPC /\ dret \in {"select", "barrier"} /\ cur \in Nat
    /\ breq \in Syncers \cup {None}
    /\ pending \in SUBSET Nat /\ nextSeq \in Nat /\ dispatchedSeq \in Nat
    /\ writesOpen \in BOOLEAN
    /\ snIn \in Seq(Nat) /\ Len(snIn) <= SnifferDepth
    /\ snHold \in Nat /\ snDone \in BOOLEAN /\ fed \in Nat
    /\ snOut \in Seq(Nat) /\ Len(snOut) <= SnifferDepth
    /\ wIn \in Seq(Command) /\ Len(wIn) <= WriterDepth
    /\ written \in Nat /\ writerDone \in BOOLEAN /\ durable \in Nat
    /\ observed \in Seq(Nat) /\ Len(observed) <= ObservedDepth
    /\ reconciled \in Nat /\ recDone \in BOOLEAN
    /\ barriers \in Seq(Syncers) /\ Len(barriers) <= BarrierDepth
    /\ sync \in [Syncers -> SyncPC] /\ target \in [Syncers -> Nat]
    /\ interrupted \in SUBSET Syncers
    /\ mpc \in MainPC
    /\ (dpc = "barrier" \/ (dpc = "dispatch" /\ dret = "barrier")) => breq \in Syncers

(***************************************************************************)
(* The pipeline keeps the promise of OrderedDelivery: however the fallback *)
(* senders overtake each other, the sniffer, the writer and the reconciler *)
(* each receive every write once, in the order of FUSE Write().            *)
(***************************************************************************)
Delivery ==
    INSTANCE OrderedDelivery
        WITH accepted <- seq, sniffed <- fed, written <- written, reconciled <- reconciled

DeliverySpec == Delivery!Spec

\* How many of the places before the sniffer hold write n.
Places(n) ==
    (IF fuse = "submit" /\ seq = n THEN 1 ELSE 0) + (IF n \in fallback THEN 1 ELSE 0)
    + Cardinality({i \in 1..Len(writes) : writes[i] = n})
    + (IF n \in pending THEN 1 ELSE 0) + (IF dpc = "dispatch" /\ cur = n THEN 1 ELSE 0)

(***************************************************************************)
(* No acknowledged write is lost or duplicated before it is dispatched: a  *)
(* number that dispatchWrite has not passed to the sniffer is in exactly   *)
(* one of FUSE Write(), a fallback sender, p.writes, the reorder map and   *)
(* the dispatcher's hand, and no other number is in any of them.           *)
(***************************************************************************)
AcceptedOnce ==
    \A n \in 1..(MaxWrites + 1) : Places(n) = IF n \in nextSeq..seq THEN 1 ELSE 0

(***************************************************************************)
(* What handleBarrier does guarantee: when Flush or Fsync returns, every   *)
(* write accepted before it had been handed to the sniffer, even those     *)
(* whose sender was still waiting or overtaken when it was called.         *)
(***************************************************************************)
SyncDispatched == \A c \in Syncers : sync[c] = "done" => nextSeq > target[c]

(***************************************************************************)
(* shutdown()'s steps 3 and 4: once sniffer.Wait() has returned, the       *)
(* sniffer was fed every write Write() acknowledged, and none is left in   *)
(* a fallback sender, in p.writes or in the reorder map.                   *)
(***************************************************************************)
SnifferSawAll ==
    mpc \notin {"running", "unmounted", "sniffer"} =>
        fed = seq /\ fallback = {} /\ writes = <<>> /\ pending = {}

(***************************************************************************)
(* Every acknowledged write is processed by the writer, unless the         *)
(* shutdown begins first.                                                  *)
(***************************************************************************)
EventuallyWritten == \A n \in 1..MaxWrites : seq >= n ~> (written >= n \/ mpc # "running")

\* The ways in which the program can stop without having ended: the dispatcher and
\* the sniffer wait for each other, handleBarrier waits for a dispatchedSeq that was
\* set back, or the dispatcher has ended and left the sniffer with a full channel.
SnifferBlocked == snHold # None /\ Len(snOut) = SnifferDepth
Gridlock == dpc = "dispatch" /\ Len(snIn) = SnifferDepth /\ SnifferBlocked
BarrierHung == dpc = "barrier" /\ BarrierWaits /\ writes = <<>> /\ target[breq] < nextSeq
Stranded == DispatcherClosed /\ SnifferBlocked
Stuck == Gridlock \/ BarrierHung \/ Stranded

(***************************************************************************)
(* The writer catches up with the host (which stops after MaxWrites),      *)
(* unless the shutdown begins first or the program is stuck for good in    *)
(* one of these three ways: whatever the order of senders, barriers and    *)
(* channels, there is no fourth.                                           *)
(***************************************************************************)
WrittenUnlessStuck ==
    written < seq ~> (written = seq \/ mpc # "running" \/ []Stuck)

(***************************************************************************)
(* shutdown() returns once the file system is unmounted, unless the        *)
(* program is stuck for good in one of these ways.                         *)
(***************************************************************************)
ShutdownEnds == mpc = "unmounted" ~> (mpc = "stopped" \/ []Stuck)

(***************************************************************************)
(* When Flush or Fsync succeeds, the writer had processed every write      *)
(* accepted before it when it synced the image.                            *)
(***************************************************************************)
FsyncDurable == \A c \in Syncers : sync[c] = "done" => durable >= target[c]

(***************************************************************************)
(* A Flush or Fsync whose writes have all been dispatched returns, unless  *)
(* the shutdown begins first.                                              *)
(***************************************************************************)
SyncReturns ==
    \A c \in Syncers :
        (sync[c] = "wait" /\ nextSeq > target[c]) ~> (sync[c] = "done" \/ mpc # "running")

(***************************************************************************)
(* "The reconciler now has the complete observation stream" (step 5 of     *)
(* shutdown()) holds but for the writes that are left in sniffer.out when  *)
(* the dispatcher ends: these, and no others, reach neither the reconciler *)
(* nor, by the time shutdown() returns, the writer.                        *)
(***************************************************************************)
LossBounded ==
    mpc \in {"pipeline", "writer", "stopped"} =>
        /\ reconciled + Len(snOut) = seq
        /\ mpc = "stopped" => written = reconciled

-----------------------------------------------------------------------------
(***************************************************************************)
(* The inductive invariant behind the safety properties.                   *)
(***************************************************************************)

\* The last write the dispatcher took from sniffer.out, and the last one it
\* sent to the writer and to the reconciler.
Popped == fed - (IF snHold = None THEN 0 ELSE 1) - Len(snOut)
ToWriter == IF dpc = "toWriter" THEN Popped - 1 ELSE Popped
ToReconciler == IF dpc \in {"toWriter", "toObserved"} THEN Popped - 1 ELSE Popped

\* The sniffer's channels hold consecutive numbers.
SnifferInv ==
    /\ fed + Len(snIn) + 1 = nextSeq
    /\ \A i \in 1..Len(snIn) : snIn[i] = fed + i
    /\ snHold \in {None, fed}
    /\ Popped >= 0
    /\ \A i \in 1..Len(snOut) : snOut[i] = Popped + i

\* The dispatcher sends the write whose turn it is.
DispatcherInv ==
    /\ dispatchedSeq < nextSeq
    /\ dpc = "dispatch" => cur = nextSeq /\ nextSeq <= seq
    /\ dpc \in {"toWriter", "toObserved"} => cur = Popped /\ cur > 0
    /\ nextSeq <= seq + 1

\* writer.in holds the writes between written and ToWriter, in order, with
\* barriers anywhere among them.
WriterInv ==
    /\ written <= ToWriter
    /\ \A i \in 1..Len(wIn) :
          wIn[i].kind = "write" => wIn[i].seq > written /\ wIn[i].seq <= ToWriter
    /\ \A i, j \in 1..Len(wIn) :
          i < j /\ wIn[i].kind = "write" /\ wIn[j].kind = "write" => wIn[i].seq < wIn[j].seq
    /\ \A n \in Nat : written < n /\ n <= ToWriter =>
          \E i \in 1..Len(wIn) : wIn[i].kind = "write" /\ wIn[i].seq = n

ReconcilerInv ==
    /\ reconciled + Len(observed) = ToReconciler
    /\ \A i \in 1..Len(observed) : observed[i] = reconciled + i

\* A write not yet dispatched is somewhere before the dispatcher, and what is
\* there is a number that Write() handed out.
Waiting(n) ==
    \/ fuse = "submit" /\ n = seq
    \/ n \in fallback
    \/ \E i \in 1..Len(writes) : writes[i] = n
    \/ n \in pending
    \/ dpc = "dispatch" /\ n = cur

AccountedInv ==
    /\ \A n \in Nat : nextSeq <= n /\ n <= seq => Waiting(n)
    /\ \A n \in fallback : n <= seq
    /\ \A i \in 1..Len(writes) : writes[i] <= seq
    /\ \A n \in pending : nextSeq < n /\ n <= seq

\* What the closing of p.writes and the end of the dispatcher's loop imply.
ShutdownInv ==
    /\ mpc # "running" => fuse = "idle"
    /\ mpc \in {"running", "unmounted"} => ~writesClosed
    /\ writesClosed => fallback = {} /\ fuse = "idle"
    /\ dpc \in {"exit", "done"} => ~writesOpen
    /\ ~writesOpen => /\ dpc \in {"barrier", "exit", "done"}
                      /\ writesClosed /\ writes = <<>> /\ nextSeq = seq + 1
    /\ snDone => dpc = "done" /\ snIn = <<>>
    /\ mpc \notin {"running", "unmounted", "sniffer"} => snDone

\* A barrier reaches the writer only behind its target.
SyncInv ==
    /\ \A c \in Syncers : target[c] <= seq
    /\ \A i \in 1..Len(barriers) : sync[barriers[i]] # "idle"
    /\ (dpc = "barrier" \/ (dpc = "dispatch" /\ dret = "barrier")) => sync[breq] # "idle"
    /\ \A i \in 1..Len(wIn) : wIn[i].kind = "barrier" =>
          wIn[i].req \in Syncers /\ sync[wIn[i].req] # "idle" /\ nextSeq > target[wIn[i].req]
    /\ \A c \in Syncers : sync[c] = "done" => nextSeq > target[c]

IndInv ==
    /\ TypeOK
    /\ SnifferInv /\ DispatcherInv /\ WriterInv /\ ReconcilerInv
    /\ AccountedInv /\ ShutdownInv /\ SyncInv

\* What the end of the workers implies, on top of IndInv.
EndInv ==
    /\ recDone => DispatcherClosed /\ observed = <<>>
    /\ writerDone => DispatcherClosed /\ wIn = <<>>
    /\ snDone => snHold = None
    /\ mpc \in {"pipeline", "writer", "stopped"} => recDone
    /\ mpc = "stopped" => writerDone

\* No write waits for its dispatch in two places, and none waits after it.
InWrites(n) == \E i \in 1..Len(writes) : writes[i] = n
InHand(n) == dpc = "dispatch" /\ cur = n

OnceInv ==
    /\ fuse = "submit" =>
          nextSeq <= seq /\ seq \notin fallback \cup pending /\ ~InWrites(seq) /\ ~InHand(seq)
    /\ \A n \in fallback : nextSeq <= n /\ n \notin pending /\ ~InWrites(n) /\ ~InHand(n)
    /\ \A i \in 1..Len(writes) :
          nextSeq <= writes[i] /\ writes[i] \notin pending /\ ~InHand(writes[i])
    /\ \A i, j \in 1..Len(writes) : i # j => writes[i] # writes[j]
=============================================================================
