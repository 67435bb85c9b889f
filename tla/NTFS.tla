-------------------------------- MODULE NTFS --------------------------------
(***************************************************************************)
(* The functions of the NTFS tracker that change no state: what a record   *)
(* of the MFT says, where the MFT lies, and the algebra of byte ranges.    *)
(* A cluster and an MFT record are one cell each and the partition begins  *)
(* at cell 0, so offsets, LCNs and record numbers count cells.             *)
(***************************************************************************)
EXTENDS DiskCells, Loops, SequencesExt, FiniteSetsExt

CONSTANT FirstUser      \* ntfsFirstUserRecord

ASSUME FirstUserAssumption == FirstUser \in Nat \ {0}

NTFSRun == [lcn : Cells \cup {-1}, len : 1..Size]       \* lcn -1: sparse
ByteRange == [start : 0..Size, end : 0..Size]

(***************************************************************************)
(* What a cell holds, read as an MFT record after the fixup.  Bad stands   *)
(* for all that applyNTFSFixup or parseNTFSRecord refuse.  data says that  *)
(* there is a plain unnamed nonresident DATA attribute, and runs, which    *)
(* may be empty, vcn and real are its own; the code skips every other one. *)
(***************************************************************************)
Content == [ok : BOOLEAN, inUse : BOOLEAN, isDir : BOOLEAN, base : Nat, data : BOOLEAN,
            runs : Seq(NTFSRun), vcn : Nat, real : Nat]
Bad == [ok |-> FALSE, inUse |-> FALSE, isDir |-> FALSE, base |-> 0, data |-> FALSE,
        runs |-> <<>>, vcn |-> 0, real |-> 0]

Cover(ranges) == UNION {CellsOf(r) : r \in Range(ranges)}
Larger(a, b) == IF a > b THEN a ELSE b
Smaller(a, b) == IF a < b THEN a ELSE b

-----------------------------------------------------------------------------
(***************************************************************************)
(* Ranges.                                                                 *)
(***************************************************************************)
RangeBefore(a, b) == a.start < b.start \/ (a.start = b.start /\ a.end < b.end)

\* sort.Slice: a range goes to its rank, the number of ranges up to it.
SortRanges(in) ==
    LET Rank(i) == Cardinality({j \in 1..Len(in) :
                       RangeBefore(in[j], in[i]) \/ (in[j] = in[i] /\ j <= i)})
    IN  [k \in 1..Len(in) |-> in[CHOOSE i \in 1..Len(in) : Rank(i) = k]]

\* Mutant: a range inside the last one cuts the last one short.
MergeShortens(out, r) ==
    IF r.end <= r.start THEN out
    ELSE IF out # <<>> /\ r.start <= Last(out).end
         THEN [out EXCEPT ![Len(out)].end = r.end]
         ELSE Append(out, r)

\* One turn of the loop of coalesceByteRanges.
Merge(out, r) ==
    IF r.end <= r.start THEN out
    ELSE IF out # <<>> /\ r.start <= Last(out).end
         THEN [out EXCEPT ![Len(out)].end = Larger(@, r.end)]
         ELSE Append(out, r)

coalesceByteRanges(in) == After(Merge, <<>>, SortRanges(in))

\* One turn of the search for the gaps in nr that the old ranges leave: cursor is
\* where the next one may begin.
Gap(nr, g, or) ==
    IF or.start >= nr.end \/ or.end <= g.cursor \/ g.cursor >= nr.end THEN g
    ELSE [cursor |-> or.end,
          out |-> IF or.start > g.cursor
                  THEN Append(g.out, [start |-> g.cursor, end |-> Smaller(or.start, nr.end)])
                  ELSE g.out]

\* The gaps in nr, after those in out.
Gaps(nr, old, out) ==
    LET Step(g, or) == Gap(nr, g, or)
        last == After(Step, [cursor |-> nr.start, out |-> out], old)
    IN IF last.cursor < nr.end
       THEN Append(last.out, [start |-> last.cursor, end |-> nr.end])
       ELSE last.out

\* One turn of the loop over the new ranges; s.j is the old range the search begins at.
Uncovered(old, s, nr) ==
    LET left == {i \in s.j..Len(old) : old[i].end > nr.start}
        j == IF left = {} THEN Len(old) + 1 ELSE Min(left)
    IN IF nr.end <= nr.start THEN s
       ELSE [j |-> j, out |-> Gaps(nr, SubSeq(old, j, Len(old)), s.out)]

\* subtractRanges of two sorted lists.
subtractRanges(new, old) ==
    LET Step(s, nr) == Uncovered(old, s, nr)
    IN coalesceByteRanges(After(Step, [j |-> 1, out |-> <<>>], new).out)

\* rangesOverlapSnapshot: the search for the first range that ends after start.
rangesOverlapSnapshot(ranges, start, end) ==
    LET after == {i \in DOMAIN ranges : ranges[i].end > start}
    IN start < end /\ after # {} /\ ranges[Min(after)].start < end

-----------------------------------------------------------------------------
(***************************************************************************)
(* Run lists.                                                              *)
(***************************************************************************)

\* The StartVCN parseNTFSRunlist gives run i of a list that begins at 0.
AddRun(vcn, run) == vcn + run.len
StartVCN(runs, i) == Loop(AddRun, 0, runs)[i - 1]

\* readMFTLogical: the cells that logical cell id of the MFT may be read from; none if
\* it is unmapped or mapped to no cell of the disk.
Slots(runs, id) ==
    LET Holds(i) == LET first == StartVCN(runs, i)
                    IN runs[i].lcn >= 0 /\ id >= first /\ id < first + runs[i].len
    IN Cells \cap {runs[i].lcn + (id - StartVCN(runs, i)) : i \in {k \in DOMAIN runs : Holds(k)}}

\* mftRecordIDsForPhysicalRange.
mftRecordIDs(runs, start, end) ==
    UNION {LET run == runs[i]
               from == Larger(start, run.lcn)
               to == Smaller(end, run.lcn + run.len)
           IN IF run.lcn < 0 THEN {}
              ELSE {StartVCN(runs, i) + (c - run.lcn) : c \in from..(to - 1)} :
           i \in DOMAIN runs}

\* One turn of the loop of buildMFTRanges: remaining is what the MFT has behind the run.
MFTRange(s, run) ==
    LET n == Smaller(run.len, s.remaining)
    IN [remaining |-> s.remaining - n,
        out |-> IF n > 0 /\ run.lcn >= 0
                THEN Append(s.out, [start |-> run.lcn, end |-> run.lcn + n])
                ELSE s.out]

\* buildMFTRanges: the runs up to the size of the MFT.
buildMFTRanges(runs, size) ==
    coalesceByteRanges(After(MFTRange, [remaining |-> size, out |-> <<>>], runs).out)

-----------------------------------------------------------------------------
(***************************************************************************)
(* Records.                                                                *)
(***************************************************************************)

\* One turn of the loop of buildDataRanges over the runs of a record; vcn is the
\* StartVCN of the run.
DataRange(content, s, run) ==
    LET length == Smaller(run.len, content.real - s.vcn)
    IN [vcn |-> s.vcn + run.len,
        out |-> IF run.lcn < 0 \/ s.vcn >= content.real \/ run.lcn + length > Size
                THEN s.out
                ELSE Append(s.out, [start |-> run.lcn, end |-> run.lcn + length])]

\* buildDataRanges of a record that belongs to base.
buildDataRanges(content, base) ==
    LET Step(s, run) == DataRange(content, s, run)
    IN IF base < FirstUser \/ content.isDir THEN <<>>
       ELSE After(Step, [vcn |-> content.vcn, out |-> <<>>], content.runs).out

\* parseNTFSRecord and buildDataRanges: what the tracker keeps of record id.
RecordOf(content, id) ==
    LET base == IF content.base = 0 THEN id ELSE content.base
    IN [base |-> base, isDir |-> content.isDir,
        ranges |-> buildDataRanges(content, base)]

\* rebuildRanges: the data ranges of the records whose base record is an active file.
ActiveFiles(records) ==
    {id \in DOMAIN records :
        id = records[id].base /\ id >= FirstUser /\ ~records[id].isDir}
FileRanges(records) ==
    UNION {Range(records[id].ranges) :
           id \in {i \in DOMAIN records : records[i].base \in ActiveFiles(records)}}
rebuildRanges(records) == coalesceByteRanges(SetToSeq(FileRanges(records)))
=============================================================================
