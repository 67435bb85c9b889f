------------------------------ MODULE TSScanner ------------------------------
(***************************************************************************)
(* The MPEG-TS scanner, byte by byte, and the sniffer loop that feeds it   *)
(* the writes of the host and passes on what it says of them.  A cell is a *)
(* byte; of a byte only two things matter, whether it is the sync byte and *)
(* whether it can carry an adaptation field control.  The sync byte cannot *)
(* (0x47 & 0x30 = 0).  A write is never empty: Write() returns early.      *)
(***************************************************************************)
EXTENDS DiskCells, Loops, SequencesExt

CONSTANTS
    PacketSize,             \* tsPacketSize
    AfcOffset,              \* where a packet has its adaptation field control
    ProbePackets,           \* tsProbePackets
    MaxBroadcastPackets,    \* maxBroadcastPackets
    Bytes,                  \* the kinds of bytes; "sync" and "afc" make a packet
    HostData,               \* bound: the contents of the host's writes
    MaxWrites               \* bound: the number of host writes of a behaviour

ASSUME PacketAssumption ==
    /\ PacketSize \in Nat \ {0} /\ AfcOffset \in 1..(PacketSize - 1)
    /\ {"sync", "afc"} \subseteq Bytes
    /\ ProbePackets \in Nat \ {0} /\ MaxBroadcastPackets \in Nat \ {0}
    /\ HostData \subseteq Seq(Bytes) \ {<<>>} /\ MaxWrites \in Nat

VARIABLES
    buffer, bufferStart, expected, haveExpected, detected,  \* TSScanner
    observed,   \* the ObservedWrites sent to the dispatcher
    chunks,     \* the TSChunks of the last write, broadcast to the hub
    run,        \* history: the contiguous run of bytes the scanner follows
    taken,      \* history: where the packets begin that were captured of it
    overwritten \* history: the buffered cells that hold something else by now

vars == <<buffer, bufferStart, expected, haveExpected, detected, observed, chunks,
          run, taken, overwritten>>

Chunk == [start : Cells, end : 1..Size, data : Seq(Bytes)]
EmitState == [buffer : Seq(Bytes), start : 0..Size, out : Seq(Chunk), open : BOOLEAN]

ProbeSize == PacketSize * ProbePackets
TailSize == ProbeSize - 1

\* The last bytes of b, without the first n.
Drop(b, n) == SubSeq(b, n + 1, Len(b))

\* validTSPacket of data[i:].
validTSPacket(data, i) ==
    /\ Len(data) - i >= PacketSize
    /\ data[i + 1] = "sync" /\ data[i + AfcOffset + 1] = "afc"

\* The tests of one offset in findMPEGTS.
Probe(data, i) ==
    \A packet \in 0..(ProbePackets - 1) : validTSPacket(data, i + packet * PacketSize)

\* findMPEGTS: the offsets where a probe succeeds; the code takes the first.
Probes(data) == {i \in 0..(Len(data) - ProbeSize) : Probe(data, i)}
findMPEGTS(data) == Min(Probes(data))

\* Mutant: keeps one byte less than a probe may need.
keepTailShort(b) == Drop(b, Max({0, Len(b) - (TailSize - 1)}))

\* keepTail.
keepTail(b) == Drop(b, Max({0, Len(b) - TailSize}))

Init ==
    /\ buffer = <<>> /\ bufferStart = 0 /\ expected = 0
    /\ haveExpected = FALSE /\ detected = FALSE
    /\ observed = <<>> /\ chunks = <<>>
    /\ run = [start |-> 0, bytes |-> <<>>] /\ taken = {} /\ overwritten = {}

-----------------------------------------------------------------------------
(***************************************************************************)
(* emit: chunks of whole packets, as long as there is one at the head of   *)
(* the buffer; where there is none, it looks for the next probe.           *)
(***************************************************************************)

\* Mutant: a chunk of as many packets as there are, valid or not.
LeadingUnchecked(b) == Min({MaxBroadcastPackets, Len(b) \div PacketSize})

\* The packets of the next chunk: the valid ones at the head of b.
Leading(b) ==
    CHOOSE n \in 0..MaxBroadcastPackets :
        /\ \A i \in 0..(n - 1) : validTSPacket(b, i * PacketSize)
        /\ n < MaxBroadcastPackets => ~validTSPacket(b, n * PacketSize)

\* One chunk.
EmitChunk(st) ==
    LET n == Leading(st.buffer) * PacketSize
    IN  [buffer |-> Drop(st.buffer, n), start |-> st.start + n, open |-> TRUE,
         out |-> Append(st.out, [start |-> st.start, end |-> st.start + n,
                                 data |-> SubSeq(st.buffer, 1, n)])]

\* Mutant: drops one packet after the other instead of looking for the next probe.
ResyncByPacket(st) ==
    LET heads == {i \in 0..(Len(st.buffer) - PacketSize) : i % PacketSize = 0}
        idx == Min({i \in heads : validTSPacket(st.buffer, i)} \cup {Len(st.buffer)})
    IN  [buffer |-> Drop(st.buffer, idx), start |-> st.start + idx, out |-> st.out, open |-> TRUE]

\* The bytes before the next probe are dropped.
Resync(st) ==
    LET idx == findMPEGTS(st.buffer)
    IN  [buffer |-> Drop(st.buffer, idx), start |-> st.start + idx, out |-> st.out, open |-> TRUE]

\* No probe: the tail is kept, and the loop is left.
Break(st) ==
    LET kept == keepTail(st.buffer)
    IN  [buffer |-> kept, start |-> st.start + (Len(st.buffer) - Len(kept)),
         out |-> st.out, open |-> FALSE]

\* One turn of the loop.
EmitRound(st) ==
    IF ~st.open \/ Len(st.buffer) < PacketSize THEN st
    ELSE IF validTSPacket(st.buffer, 0) THEN EmitChunk(st)
    ELSE IF Probes(st.buffer) # {} THEN EmitChunk(Resync(st))
    ELSE Break(st)

\* Each turn but the last makes the buffer b shorter.
emit(b, start) ==
    While(EmitRound, [buffer |-> b, start |-> start, out |-> <<>>, open |-> TRUE], Len(b))[Len(b)]

-----------------------------------------------------------------------------
(***************************************************************************)
(* Feed, and what the sniffer does with the result.                        *)
(***************************************************************************)

\* The cells of the buffer, and the cells of chunks.
Buffered == Span(bufferStart, bufferStart + Len(buffer))
CellsOfChunks(cs) == UNION {Span(cs[i].start, cs[i].end) : i \in 1..Len(cs)}
Packets(cs) ==
    {c \in CellsOfChunks(cs) : \E i \in 1..Len(cs) :
        Within(c, cs[i]) /\ (c - cs[i].start) % PacketSize = 0}

\* The write belongs to the stream: emit from b, which begins at start.
IsTS(b, start, end) ==
    LET st == emit(b, start)
    IN  /\ buffer' = st.buffer /\ bufferStart' = st.start
        /\ expected' = end /\ haveExpected' = TRUE /\ detected' = TRUE
        /\ chunks' = st.out
        /\ observed' = Append(observed, [ts |-> TRUE, captures |-> CellsOfChunks(st.out)])

\* It does not: no chunks and no captures.
IsNotTS == chunks' = <<>> /\ observed' = Append(observed, [ts |-> FALSE, captures |-> {}])

\* History: the scanner goes on with its run, or begins another.
Continued(data) ==
    /\ run' = [run EXCEPT !.bytes = @ \o data]
    /\ taken' = taken \cup Packets(chunks')
    /\ overwritten' = overwritten \cap Buffered'

Restarted(off, data) ==
    /\ run' = [start |-> off, bytes |-> data]
    /\ taken' = Packets(chunks')
    /\ overwritten' = {}

\* Detected, and the write continues the stream: no probe.
FeedStream(off, data) ==
    /\ detected /\ off = expected
    /\ IsTS(buffer \o data, bufferStart, off + Len(data))
    /\ Continued(data)

\* Mutant: one valid packet is enough for another extent.
FeedSegmentUnprobed(off, data) ==
    /\ detected /\ off # expected /\ validTSPacket(data, 0)
    /\ IsTS(data, off, off + Len(data))
    /\ Restarted(off, data)

\* Mutant: the bytes left of the last extent stay in the buffer.
FeedSegmentKeepsBuffer(off, data) ==
    /\ detected /\ off # expected /\ Probes(data) # {}
    /\ IsTS(buffer \o Drop(data, findMPEGTS(data)), bufferStart, off + Len(data))
    /\ Restarted(off, data)

\* Detected, and another extent of the stream begins.
FeedSegment(off, data) ==
    /\ detected /\ off # expected /\ Probes(data) # {}
    /\ LET idx == findMPEGTS(data)
       IN  IsTS(Drop(data, idx), off + idx, off + Len(data))
    /\ Restarted(off, data)

\* Mutant: a write that is not MPEG-TS moves the end of the stream.
FeedOtherExpects(off, data) ==
    /\ detected /\ off # expected /\ Probes(data) = {}
    /\ IsNotTS
    /\ expected' = off + Len(data)
    /\ UNCHANGED <<buffer, bufferStart, haveExpected, detected, run, taken, overwritten>>

\* Detected, and the write is something else: the scanner ignores it.
FeedOther(off, data) ==
    /\ detected /\ off # expected /\ Probes(data) = {}
    /\ IsNotTS
    /\ overwritten' = overwritten \cup (Buffered \cap Span(off, off + Len(data)))
    /\ UNCHANGED <<buffer, bufferStart, expected, haveExpected, detected, run, taken>>

\* Not detected: the write continues the candidate or is a new one.
Candidate(off, data) ==
    IF haveExpected /\ off = expected
      THEN [bytes |-> buffer \o data, start |-> bufferStart]
      ELSE [bytes |-> data, start |-> off]

History(off, data) ==
    IF haveExpected /\ off = expected THEN Continued(data) ELSE Restarted(off, data)

FeedDetects(off, data) ==
    /\ ~detected
    /\ LET b == Candidate(off, data)
       IN  /\ Probes(b.bytes) # {}
           /\ LET idx == findMPEGTS(b.bytes)
              IN  IsTS(Drop(b.bytes, idx), b.start + idx, off + Len(data))
    /\ History(off, data)

FeedUndetected(off, data) ==
    /\ ~detected
    /\ LET b == Candidate(off, data)
       IN  /\ Probes(b.bytes) = {}
           /\ buffer' = keepTail(b.bytes)
           /\ bufferStart' = b.start + (Len(b.bytes) - Len(buffer'))
    /\ expected' = off + Len(data) /\ haveExpected' = TRUE
    /\ IsNotTS
    /\ History(off, data)
    /\ UNCHANGED detected

\* The next write of the host.
Next ==
    /\ Len(observed) < MaxWrites
    /\ \E data \in HostData : \E off \in 0..(Size - Len(data)) :
          \/ FeedStream(off, data) \/ FeedSegment(off, data) \/ FeedOther(off, data)
          \/ FeedDetects(off, data) \/ FeedUndetected(off, data)

Spec == Init /\ [][Next]_vars

-----------------------------------------------------------------------------
\* The byte that the run has in cell c, and a packet of the run that begins there.
RunEnd == run.start + Len(run.bytes)
PacketAt(c) ==
    /\ run.start <= c /\ c + PacketSize <= RunEnd
    /\ run.bytes[c - run.start + 1] = "sync"
    /\ run.bytes[c - run.start + AfcOffset + 1] = "afc"
ProbeAt(c) == \A k \in 0..(ProbePackets - 1) : PacketAt(c + k * PacketSize)

(***************************************************************************)
(* The types, and the scanner's buffer is the end of the run it follows,   *)
(* at the right address, and too short to hold a probe: TSScanner says "it *)
(* stays below the detection window".  It bounds the sniffer's memory.     *)
(***************************************************************************)
BufferWindow ==
    /\ buffer \in Seq(Bytes) /\ haveExpected \in BOOLEAN /\ detected \in BOOLEAN
    /\ Len(buffer) <= TailSize
    /\ run.start <= bufferStart /\ expected = RunEnd
    /\ bufferStart + Len(buffer) = RunEnd
    /\ buffer = Drop(run.bytes, bufferStart - run.start)

(***************************************************************************)
(* What the hub and the reconciler get are whole packets of the stream:    *)
(* the bytes that the host wrote where the chunk says, in chunks of at     *)
(* most MaxBroadcastPackets packets, one after the other.                  *)
(***************************************************************************)
ChunksValid ==
    \A i \in 1..Len(chunks) :
        LET ch == chunks[i]
        IN  /\ Len(ch.data) = ch.end - ch.start /\ ch.data # <<>>
            /\ Len(ch.data) <= MaxBroadcastPackets * PacketSize
            /\ ch.data = SubSeq(run.bytes, ch.start - run.start + 1, ch.end - run.start)
            /\ \A c \in Span(ch.start, ch.end) :
                  (c - ch.start) % PacketSize = 0 => PacketAt(c)
            /\ i > 1 => chunks[i - 1].end <= ch.start

\* A captured packet, a valid one, holds cell c but begins before it.
OffPhase(c) == \E p \in taken : p < c /\ c < p + PacketSize /\ PacketAt(p)

(***************************************************************************)
(* What is captured of a stream, however the host splits it into writes.   *)
(* Where ProbePackets packets follow each other in the run, the first one  *)
(* is captured, with one exception: emit goes packet by packet, so a       *)
(* stream that begins inside a captured packet, in another phase, is       *)
(* passed over until a packet of the first phase is missing.  And after a  *)
(* captured packet the next one is captured, without a probe.              *)
(***************************************************************************)
StreamCaptured ==
    /\ \A c \in Cells : ProbeAt(c) => c \in taken \/ OffPhase(c)
    /\ \A p \in taken : PacketAt(p + PacketSize) => p + PacketSize \in taken

(***************************************************************************)
(* "Require 10 consecutive packets before declaring MPEG-TS" (mpegts.go):  *)
(* a write that is declared MPEG-TS, and so never stored, belongs to a run *)
(* with a successful probe, although the write itself may have no packet.  *)
(***************************************************************************)
DeclaredAfterProbe ==
    observed # <<>> /\ Last(observed).ts => \E c \in Cells : ProbeAt(c)

(***************************************************************************)
(* PunchRequest (types.go) names its capture "to prevent a newer physical  *)
(* write from being destroyed by a delayed punch": when a write continues  *)
(* the stream, the bytes of earlier writes that are captured with it are   *)
(* still the last ones the host wrote there.                               *)
(***************************************************************************)
CaptureIsCurrent ==
    [][\A data \in HostData, off \in Cells :
          FeedStream(off, data) => CellsOfChunks(chunks') \cap overwritten = {}]_vars

(***************************************************************************)
(* The scanner does what Classification, on which StagedDisk builds, says. *)
(***************************************************************************)
Abstract == INSTANCE Classification WITH
    scanner <- [detected |-> detected, haveExpected |-> haveExpected,
                expected |-> expected, bufferStart |-> bufferStart]

ImplementsClassification == Abstract!ClassSpec

-----------------------------------------------------------------------------
(***************************************************************************)
(* The inductive invariant behind these properties.                        *)
(***************************************************************************)
TypeInv ==
    /\ bufferStart \in Nat /\ expected \in Nat /\ chunks \in Seq(Chunk)
    /\ observed \in Seq([ts : BOOLEAN, captures : SUBSET Cells])
    /\ run \in [start : Nat, bytes : Seq(Bytes)] /\ RunEnd <= Size

\* A probe has succeeded in the run once the stream is detected.
DetectedInv ==
    /\ detected => haveExpected /\ \E c \in Cells : ProbeAt(c)
    /\ observed # <<>> /\ Last(observed).ts => detected

\* The bytes before the buffer were captured, or there was room for a probe and none.
\* What follows a captured packet was captured, or is no packet, or is still in the
\* buffer, which does not hold all of it.
TakenInv ==
    /\ taken \subseteq Cells /\ (~detected => taken = {})
    /\ \A p \in taken : PacketAt(p)
    /\ \A c \in run.start..(bufferStart - 1) :
          \/ \E p \in taken : p <= c /\ c < p + PacketSize
          \/ c + ProbeSize <= RunEnd /\ ~ProbeAt(c)
    /\ \A p \in taken :
          \/ p + PacketSize \in taken
          \/ p + 2 * PacketSize <= RunEnd /\ ~PacketAt(p + PacketSize)
          \/ p + PacketSize = bufferStart /\ Len(buffer) < PacketSize

IndInv == TypeInv /\ BufferWindow /\ ChunksValid /\ DetectedInv /\ TakenInv
=============================================================================
