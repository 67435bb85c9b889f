--------------------------- MODULE ReconcileProofs ---------------------------
(***************************************************************************)
(* Reconcile, for every disk, layout and capacity and any number of        *)
(* writes: the data ranges are sorted, apart and just the file data of the *)
(* records; the capture journal remembers the latest captures in their     *)
(* order; no remembered capture is missed when a range becomes known; and  *)
(* the tracker keeps up with the host's writes to the MFT.                 *)
(***************************************************************************)
EXTENDS Reconcile, LoopTheorems, SequenceTheorems, FiniteSetTheorems, TLAPS

-----------------------------------------------------------------------------
(***************************************************************************)
(* Lists of ranges: sorting and merging.                                   *)
(***************************************************************************)

\* Sorted by where the ranges begin; not empty and apart; what they cover.
Sorted(s) == \A i, j \in 1..Len(s) : i < j => s[i].start <= s[j].start
Proper(s) == \A i \in 1..Len(s) : s[i].start < s[i].end
Apart(s) == \A i, j \in 1..Len(s) : i < j => s[i].end < s[j].start
Covers(s, k, c) == \E i \in 1..k : Within(c, s[i])

LEMMA RangeFields ==
  ASSUME NEW r \in ByteRange
  PROVE  r.start \in Int /\ r.end \in Int /\ 0 <= r.start /\ r.end <= Size
  BY SizeAssumption DEF ByteRange

\* What a range covers, as a list and as a set.
LEMMA CoverOf ==
  ASSUME NEW s \in Seq(ByteRange), NEW c \in Cells
  PROVE  c \in Cover(s) <=> Covers(s, Len(s), c)
  <1>1. DOMAIN s = 1..Len(s)
    OBVIOUS
  <1>2. \A r : c \in CellsOf(r) <=> Within(c, r)
    BY DEF CellsOf, Span, Within
  <1>3. \A r : r \in Range(s) <=> \E i \in 1..Len(s) : r = s[i]
    BY <1>1, Zenon DEF Range
  <1> QED BY <1>2, <1>3, Zenon DEF Cover, Covers

\* Ranges that may end behind the disk, as those of buildMFTRanges.
NatRange == [start : Nat, end : Nat]

LEMMA NatRangeFields ==
  ASSUME NEW r \in NatRange
  PROVE  r.start \in Int /\ r.end \in Int /\ 0 <= r.start
  BY DEF NatRange

\* The places of a list whose ranges sort up to that of place i.
UpTo(in, i) ==
    {j \in 1..Len(in) : RangeBefore(in[j], in[i]) \/ (in[j] = in[i] /\ j <= i)}

\* Sorting by rank: the order is total, so that ranks are different, and n different
\* ranks among n are all of them.
LEMMA RankOrder ==
  ASSUME NEW in \in Seq(NatRange), NEW i \in 1..Len(in), NEW j \in 1..Len(in), i # j
  PROVE  /\ i \in UpTo(in, i)
         /\ j \in UpTo(in, i) \/ i \in UpTo(in, j)
         /\ j \in UpTo(in, i) => /\ i \notin UpTo(in, j)
                                 /\ UpTo(in, j) \subseteq UpTo(in, i)
  <1>1. \A k \in 1..Len(in) : in[k] \in NatRange
    OBVIOUS
  <1>2. \A r \in NatRange : /\ r.start \in Int /\ r.end \in Int
                             /\ r = [start |-> r.start, end |-> r.end]
    BY DEF NatRange
  <1>3. \A a, b \in NatRange : RangeBefore(a, b) \/ RangeBefore(b, a) \/ a = b
    <2> SUFFICES ASSUME NEW a \in NatRange, NEW b \in NatRange,
                        ~RangeBefore(a, b), ~RangeBefore(b, a)
                 PROVE  a = b
      OBVIOUS
    <2>1. a.start = b.start /\ a.end = b.end
      BY <1>2 DEF RangeBefore
    <2> QED BY <1>2, <2>1
  <1>4. \A a, b \in NatRange : RangeBefore(a, b) => ~RangeBefore(b, a) /\ a # b
    BY <1>2 DEF RangeBefore
  <1>5. \A a, b, c \in NatRange : RangeBefore(a, b) /\ RangeBefore(b, c) => RangeBefore(a, c)
    BY <1>2 DEF RangeBefore
  <1>6. Len(in) \in Nat /\ i \in Int /\ j \in Int
    OBVIOUS
  <1> HIDE DEF RangeBefore
  <1>7. i \in UpTo(in, i)
    BY DEF UpTo
  <1>8. j \in UpTo(in, i) \/ i \in UpTo(in, j)
    BY <1>1, <1>3, <1>6 DEF UpTo
  <1>9. ASSUME j \in UpTo(in, i) PROVE i \notin UpTo(in, j)
    BY <1>1, <1>4, <1>6, <1>9 DEF UpTo
  <1>10. ASSUME j \in UpTo(in, i), NEW k \in UpTo(in, j) PROVE k \in UpTo(in, i)
    BY <1>1, <1>5, <1>6, <1>10 DEF UpTo
  <1> QED BY <1>7, <1>8, <1>9, <1>10

LEMMA Ranks ==
  ASSUME NEW in \in Seq(NatRange)
  PROVE  LET rank == [i \in 1..Len(in) |-> Cardinality(UpTo(in, i))]
         IN  /\ \A k \in 1..Len(in) : \E i \in 1..Len(in) : rank[i] = k
             /\ \A i, j \in 1..Len(in) : rank[i] < rank[j] => i \in UpTo(in, j)
             /\ \A i \in 1..Len(in) : rank[i] \in 1..Len(in)
             /\ \A i, j \in 1..Len(in) : i # j => rank[i] # rank[j]
  <1> DEFINE n == Len(in)
             rank == [i \in 1..n |-> Cardinality(UpTo(in, i))]
  <1>1. n \in Nat
    OBVIOUS
  <1>2. IsFiniteSet(1..n) /\ Cardinality(1..n) = n
    <2>1. 1 \in Int /\ n \in Int
      BY <1>1
    <2>2. IsFiniteSet(1..n) /\ Cardinality(1..n) = IF 1 > n THEN 0 ELSE n - 1 + 1
      BY <2>1, FS_Interval
    <2> QED BY <1>1, <2>2
  <1>3. ASSUME NEW i \in 1..n
        PROVE  /\ IsFiniteSet(UpTo(in, i)) /\ rank[i] = Cardinality(UpTo(in, i))
               /\ rank[i] \in Nat /\ rank[i] \in 1..n
    <2>1. UpTo(in, i) \in SUBSET (1..n) /\ i \in UpTo(in, i)
      BY DEF UpTo
    <2> DEFINE U == UpTo(in, i)
    <2> HIDE DEF U
    <2>2. IsFiniteSet(U) /\ Cardinality(U) <= Cardinality(1..n)
      BY <1>2, <2>1, FS_Subset DEF U
    <2>3. Cardinality(U) \in Nat
      BY <2>2, FS_CardinalityType
    <2>4. Cardinality(U) # 0
      BY <2>1, <2>2, FS_EmptySet DEF U
    <2>5. Cardinality(U) \in 1..n
      BY <1>1, <1>2, <2>2, <2>3, <2>4
    <2> QED BY <2>2, <2>3, <2>5 DEF U
  <1>4. ASSUME NEW i \in 1..n, NEW j \in 1..n, i # j, i \in UpTo(in, j)
        PROVE  rank[i] < rank[j]
    <2>1. UpTo(in, i) \in SUBSET UpTo(in, j) /\ j \notin UpTo(in, i) /\ j \in UpTo(in, j)
      BY <1>4, RankOrder
    <2> DEFINE U == UpTo(in, i)
               V == UpTo(in, j)
    <2> HIDE DEF U, V
    <2>2. IsFiniteSet(V) /\ U \in SUBSET V /\ U # V
      BY <1>3, <2>1 DEF U, V
    <2>3. Cardinality(U) <= Cardinality(V) /\ Cardinality(V) # Cardinality(U)
      BY <2>2, FS_Subset
    <2>4. rank[i] = Cardinality(U) /\ rank[j] = Cardinality(V) /\ rank[i] \in Nat /\ rank[j] \in Nat
      BY <1>3 DEF U, V
    <2> HIDE DEF rank
    <2> QED BY <2>3, <2>4
  <1>5. \A i \in 1..n : rank[i] \in 1..n
    BY <1>3
  <1>6. rank \in [1..n -> 1..n]
    BY <1>5
  <1> HIDE DEF rank
  <1>7. \A i, j \in 1..n : i # j => i \in UpTo(in, j) \/ j \in UpTo(in, i)
    BY RankOrder
  <1>8. \A i, j \in 1..n : i # j => rank[i] # rank[j]
    BY <1>4, <1>5, <1>7
  <1>9. rank \in Injection(1..n, 1..n)
    <2>1. DOMAIN rank = 1..n
      BY <1>6
    <2>2. IsInjective(rank)
      BY <1>8, <2>1, Zenon DEF IsInjective
    <2> QED BY <1>6, <2>2, Zenon DEF Injection
  <1>10. rank \in Surjection(1..n, 1..n)
    BY <1>2, <1>9, FS_Injection
  <1>11. \A k \in 1..n : \E i \in 1..n : rank[i] = k
    BY <1>10, Zenon DEF Surjection
  <1>12. ASSUME NEW i \in 1..n, NEW j \in 1..n, rank[i] < rank[j] PROVE i \in UpTo(in, j)
    <2>1. i # j
      BY <1>5, <1>12
    <2>2. CASE j \in UpTo(in, i)
      <3>1. rank[j] < rank[i]
        BY <1>4, <2>1, <2>2
      <3> QED BY <1>5, <1>12, <3>1
    <2> QED BY <1>7, <2>1, <2>2
  <1> QED BY <1>5, <1>8, <1>11, <1>12 DEF rank

\* sort.Slice: the same ranges, sorted.
LEMMA SortFacts ==
  ASSUME NEW in \in Seq(NatRange)
  PROVE  /\ SortRanges(in) \in Seq(NatRange) /\ Len(SortRanges(in)) = Len(in)
         /\ Sorted(SortRanges(in))
         /\ \A c : Covers(SortRanges(in), Len(in), c) <=> Covers(in, Len(in), c)
  <1> DEFINE n == Len(in)
             rank == [i \in 1..n |-> Cardinality(UpTo(in, i))]
             at == [k \in 1..n |-> CHOOSE i \in 1..n : rank[i] = k]
             s == SortRanges(in)
  <1>1. n \in Nat /\ \A i \in 1..n : in[i] \in NatRange
    OBVIOUS
  <1>2. /\ \A k \in 1..n : \E i \in 1..n : rank[i] = k
        /\ \A i, j \in 1..n : rank[i] < rank[j] => i \in UpTo(in, j)
        /\ \A i \in 1..n : rank[i] \in 1..n
        /\ \A i, j \in 1..n : i # j => rank[i] # rank[j]
    BY Ranks
  <1>3. \A i \in 1..n : rank[i] = Cardinality(UpTo(in, i))
    OBVIOUS
  <1>4. \A k \in 1..n : at[k] \in 1..n /\ rank[at[k]] = k
    <2> HIDE DEF rank
    <2> QED BY <1>2
  <1>5. s = [k \in 1..n |-> in[at[k]]]
    <2>1. s = [k \in 1..n |-> in[CHOOSE i \in 1..n : Cardinality(UpTo(in, i)) = k]]
      BY DEF SortRanges, UpTo
    <2>2. \A k \in 1..n : at[k] = CHOOSE i \in 1..n : Cardinality(UpTo(in, i)) = k
      <3>1. ASSUME NEW k \in 1..n
            PROVE  at[k] = CHOOSE i \in 1..n : Cardinality(UpTo(in, i)) = k
        <4>1. at[k] = CHOOSE i \in 1..n : rank[i] = k
          OBVIOUS
        <4>2. \A i \in 1..n : (rank[i] = k) <=> (Cardinality(UpTo(in, i)) = k)
          OBVIOUS
        <4> HIDE DEF rank
        <4> QED BY <4>1, <4>2
      <3> QED BY <3>1
    <2>3. \A k \in 1..n : in[at[k]] = in[CHOOSE i \in 1..n : Cardinality(UpTo(in, i)) = k]
      <3> HIDE DEF at, n
      <3> QED BY <2>2, Zenon
    <2> HIDE DEF at, s, n
    <2> QED BY <2>1, <2>3, Zenon
  <1> HIDE DEF at, rank, s, n
  <1>6. \A k \in 1..n : s[k] = in[at[k]] /\ s[k] \in NatRange
    BY <1>1, <1>4, <1>5
  <1>7. s \in Seq(NatRange) /\ Len(s) = n
    <2>1. s \in [1..n -> NatRange]
      BY <1>5, <1>6
    <2> QED BY <1>1, <2>1
  <1>8. ASSUME NEW k \in 1..n, NEW m \in 1..n, k < m PROVE s[k].start <= s[m].start
    <2>1. at[k] \in UpTo(in, at[m])
      BY <1>2, <1>4, <1>8
    <2>2. RangeBefore(in[at[k]], in[at[m]]) \/ in[at[k]] = in[at[m]]
      BY <2>1 DEF UpTo
    <2>3. RangeBefore(s[k], s[m]) \/ s[k] = s[m]
      BY <1>6, <2>2
    <2>4. s[k].start \in Int /\ s[m].start \in Int
      BY <1>6, NatRangeFields
    <2> QED BY <2>3, <2>4 DEF RangeBefore
  <1>9. Sorted(s)
    BY <1>7, <1>8 DEF Sorted
  <1>10. ASSUME NEW c, Covers(s, n, c) PROVE Covers(in, n, c)
    BY <1>4, <1>6, <1>10 DEF Covers
  <1>11. ASSUME NEW c, Covers(in, n, c) PROVE Covers(s, n, c)
    <2>1. PICK i \in 1..n : Within(c, in[i])
      BY <1>11 DEF Covers
    <2>2. \E k \in 1..n : at[k] = i
      <3>1. rank[i] \in 1..n /\ at[rank[i]] \in 1..n /\ rank[at[rank[i]]] = rank[i]
        BY <1>2, <1>4
      <3> QED BY <1>2, <3>1
    <2> QED BY <1>6, <2>1, <2>2 DEF Covers
  <1> QED BY <1>7, <1>9, <1>10, <1>11 DEF s, n


\* The rounds of coalesceByteRanges.
MergeLoop(s) == Loop(Merge, <<>>, s)

LEMMA MergeType ==
  ASSUME NEW out \in Seq(NatRange), NEW r \in NatRange
  PROVE  /\ Merge(out, r) \in Seq(NatRange)
         /\ out # <<>> => Len(out) \in 1..Len(out) /\ Last(out) = out[Len(out)]
  <1>1. out # <<>> => Len(out) \in 1..Len(out) /\ Last(out) = out[Len(out)]
    BY DEF Last
  <1>2. CASE r.end <= r.start
    <2>1. Merge(out, r) = out
      BY <1>2 DEF Merge
    <2> QED BY <1>1, <2>1, Zenon
  <1>3. CASE ~(r.end <= r.start) /\ out # <<>> /\ r.start <= Last(out).end
    <2> DEFINE n == Len(out)
               e == [out[n] EXCEPT !.end = Larger(@, r.end)]
    <2>1. n \in 1..n /\ out[n] \in NatRange
      BY <1>1, <1>3
    <2>2. e \in NatRange
      BY <2>1 DEF NatRange, Larger
    <2>3. Merge(out, r) = [out EXCEPT ![n] = e]
      BY <1>3 DEF Merge
    <2> HIDE DEF e
    <2>4. [out EXCEPT ![n] = e] \in Seq(NatRange)
      BY <2>1, <2>2
    <2> HIDE DEF n
    <2> QED BY <1>1, <2>3, <2>4, Zenon
  <1>4. CASE ~(r.end <= r.start) /\ ~(out # <<>> /\ r.start <= Last(out).end)
    <2>1. Merge(out, r) = Append(out, r)
      BY <1>4 DEF Merge
    <2> QED BY <1>1, <2>1
  <1> QED BY <1>1, <1>2, <1>3, <1>4

LEMMA MergeRounds ==
  ASSUME NEW s \in Seq(NatRange)
  PROVE  /\ MergeLoop(s)[0] = <<>>
         /\ \A i \in 1..Len(s) : MergeLoop(s)[i] = Merge(MergeLoop(s)[i - 1], s[i])
  <1> DEFINE n == Len(s)
             f == MergeLoop(s)
             S == Seq(NatRange)
             b == <<>>
             st == [i \in 1..n |-> [x \in S |-> Merge(x, s[i])]]
  <1>1. n \in Nat /\ \A i \in 1..n : s[i] \in NatRange
    OBVIOUS
  <1>0. b \in S
    OBVIOUS
  <1>2. \A i \in 1..n : i - 1 \in 0..n /\ i \in 0..n
    BY <1>1
  <1>3. \A i \in 1..n : \A x \in S : Merge(x, s[i]) \in S
    BY <1>1, MergeType
  <1> HIDE DEF S, n, b
  <1>4. st \in [1..n -> [S -> S]]
    BY <1>3
  <1>5. \A i \in 1..n : \A x \in S : st[i][x] = Merge(x, s[i])
    OBVIOUS
  <1> HIDE DEF st
  <1>6. PICK h : h \in Rounds(n, S, b, st)
    BY <1>0, <1>1, <1>4, LoopExists DEF Bodies
  <1>7. h \in [0..n -> S] /\ h[0] = b /\ \A i \in 1..n : h[i] = st[i][h[i - 1]]
    BY <1>6 DEF Rounds
  <1>8. h = [i \in 0..n |-> IF i = 0 THEN b ELSE Merge(h[i - 1], s[i])]
    <2>1. \A i \in 1..n : h[i - 1] \in S
      BY <1>2, <1>7
    <2>2. \A i \in 1..n : h[i] = Merge(h[i - 1], s[i])
      BY <1>5, <1>7, <2>1
    <2>3. \A i \in 0..n : i # 0 => i \in 1..n
      BY <1>1
    <2>4. \A i \in 0..n : h[i] = IF i = 0 THEN b ELSE Merge(h[i - 1], s[i])
      BY <1>7, <2>2, <2>3, Zenon
    <2> QED BY <1>7, <2>4
  <1>9. f = [i \in 0..n |-> IF i = 0 THEN b ELSE Merge(f[i - 1], s[i])]
    BY <1>8, Zenon DEF MergeLoop, Loop, n, b
  <1>10. 0 \in 0..n /\ \A i \in 1..n : i # 0
    BY <1>1
  <1> HIDE DEF f
  <1>11. f[0] = b /\ \A i \in 1..n : f[i] = Merge(f[i - 1], s[i])
    BY <1>2, <1>9, <1>10, Zenon
  <1> QED BY <1>11 DEF b, n, f

\* After k rounds: the ranges so far are not empty, apart, begin no later than those
\* still to come, and cover what the first k cover.
MergeInv(out, s, k) ==
    /\ out \in Seq(NatRange) /\ Proper(out) /\ Apart(out)
    /\ \A i \in 1..Len(out), m \in (k + 1)..Len(s) : out[i].start <= s[m].start
    /\ \A c \in Int : Covers(out, Len(out), c) <=> Covers(s, k, c)

LEMMA CoversNext ==
  ASSUME NEW s, NEW k \in Nat \ {0}, NEW c
  PROVE  Covers(s, k, c) <=> Covers(s, k - 1, c) \/ Within(c, s[k])
  <1>1. 1..k = (1..(k - 1)) \cup {k}
    OBVIOUS
  <1> QED BY <1>1 DEF Covers

LEMMA MergeStep ==
  ASSUME NEW s \in Seq(NatRange), Sorted(s), NEW k \in 1..Len(s),
         NEW out, MergeInv(out, s, k - 1)
  PROVE  MergeInv(Merge(out, s[k]), s, k)
  <1> DEFINE r == s[k]
             n == Len(out)
             res == Merge(out, r)
  <1>1. /\ out \in Seq(NatRange) /\ n \in Nat /\ r \in NatRange /\ Proper(out) /\ Apart(out)
        /\ k \in Nat \ {0} /\ Len(s) \in Nat
    BY DEF MergeInv
  <1>2. /\ \A i \in 1..n : out[i] \in NatRange /\ out[i].start < out[i].end
        /\ \A i, j \in 1..n : i < j => out[i].end < out[j].start
        /\ \A i \in 1..n : out[i].start <= r.start
        /\ \A c \in Int : Covers(out, n, c) <=> Covers(s, k - 1, c)
    <2>1. k \in ((k - 1) + 1)..Len(s)
      BY <1>1
    <2>2. \A i \in 1..n : out[i].start <= r.start
      BY <2>1 DEF MergeInv
    <2> QED BY <1>1, <2>2 DEF MergeInv, Proper, Apart
  <1>3. \A m \in (k + 1)..Len(s) : s[m] \in NatRange /\ r.start <= s[m].start /\ m \in ((k - 1) + 1)..Len(s)
    BY <1>1 DEF Sorted
  <1>4. \A i \in 1..n, m \in (k + 1)..Len(s) : out[i].start <= s[m].start
    BY <1>3 DEF MergeInv
  <1>5. res \in Seq(NatRange) /\ (out # <<>> => n \in 1..n /\ Last(out) = out[n])
    BY <1>1, MergeType
  <1>6. \A c \in Int : Covers(s, k, c) <=> Covers(out, n, c) \/ Within(c, r)
    BY <1>1, <1>2, CoversNext
  <1>7. r.start \in Int /\ r.end \in Int /\ \A i \in 1..n : out[i].start \in Int /\ out[i].end \in Int
    BY <1>1, <1>2, NatRangeFields
  <1> HIDE DEF r, n
  <1>8. CASE r.end <= r.start
    <2>1. res = out
      BY <1>8 DEF Merge
    <2>2. \A c \in Int : ~Within(c, r)
      BY <1>7, <1>8 DEF Within
    <2>3. \A c \in Int : Covers(out, n, c) <=> Covers(s, k, c)
      BY <1>6, <2>2
    <2>4. MergeInv(out, s, k)
      BY <1>1, <1>4, <2>3, Zenon DEF MergeInv, n
    <2> QED BY <2>1, <2>4, Zenon DEF res, r
  <1>9. CASE ~(r.end <= r.start) /\ out # <<>> /\ r.start <= Last(out).end
    <2> DEFINE last == [out[n] EXCEPT !.end = Larger(@, r.end)]
    <2>1. n \in 1..n /\ out[n] \in NatRange /\ Last(out) = out[n]
      BY <1>2, <1>5, <1>9
    <2>2. res = [out EXCEPT ![n] = last]
      BY <1>9 DEF Merge, n
    <2>3. /\ last.start = out[n].start /\ last.end = Larger(out[n].end, r.end)
          /\ last.end \in Int /\ last.end >= out[n].end
          /\ last.end >= r.end /\ (last.end = out[n].end \/ last.end = r.end)
      BY <1>7, <2>1 DEF Larger, NatRange
    <2> HIDE DEF last
    <2>4. /\ Len(res) = n /\ res[n] = last /\ \A i \in 1..n : i # n => res[i] = out[i]
      BY <1>1, <2>1, <2>2 DEF n
    <2> HIDE DEF res
    <2>5. \A i \in 1..n : res[i].start = out[i].start /\ res[i].end \in Int /\ res[i].end >= out[i].end
      BY <1>7, <2>1, <2>3, <2>4
    <2>6. Proper(res)
      <3>1. \A i \in 1..n : res[i].start < res[i].end
        BY <1>2, <1>7, <2>5
      <3> QED BY <2>4, <3>1, Zenon DEF Proper
    <2>7. ASSUME NEW i \in 1..n, NEW j \in 1..n, i < j PROVE res[i].end < res[j].start
      <3>1. i # n
        BY <1>1, <2>7
      <3> QED BY <1>2, <2>4, <2>5, <2>7, <3>1
    <2>8. Apart(res)
      BY <2>4, <2>7 DEF Apart
    <2>9. \A c \in Int : Within(c, last) <=> Within(c, out[n]) \/ Within(c, r)
      BY <1>2, <1>7, <1>9, <2>1, <2>3 DEF Within
    <2>10. ASSUME NEW c \in Int PROVE Covers(res, n, c) <=> Covers(s, k, c)
      <3>1. Covers(res, n, c) <=> \E i \in 1..n : IF i = n THEN Within(c, last) ELSE Within(c, out[i])
        BY <2>4, Zenon DEF Covers
      <3>2. Covers(out, n, c) <=> \E i \in 1..n : Within(c, out[i])
        BY DEF Covers
      <3> QED BY <1>6, <2>1, <2>9, <3>1, <3>2
    <2>11. \A i \in 1..n, m \in (k + 1)..Len(s) : res[i].start <= s[m].start
      BY <1>4, <2>5
    <2>12. MergeInv(res, s, k)
      BY <1>5, <2>4, <2>6, <2>8, <2>10, <2>11, Zenon DEF MergeInv
    <2> QED BY <2>12 DEF res, r
  <1>10. CASE ~(r.end <= r.start) /\ ~(out # <<>> /\ r.start <= Last(out).end)
    <2>1. res = Append(out, r)
      BY <1>10 DEF Merge
    <2>2. Len(res) = n + 1 /\ res[n + 1] = r /\ \A i \in 1..n : res[i] = out[i]
      BY <1>1, <2>1 DEF n
    <2> HIDE DEF res
    <2>3. \A i \in 1..n : out[i].end < r.start
      <3> SUFFICES ASSUME NEW i \in 1..n PROVE out[i].end < r.start
        OBVIOUS
      <3>1. out # <<>>
        BY DEF n
      <3>2. n \in 1..n /\ out[n].end < r.start
        BY <1>5, <1>7, <1>10, <3>1
      <3>3. CASE i = n
        BY <3>2, <3>3
      <3>4. CASE i < n
        <4>1. out[i].end < out[n].start /\ out[n].start < out[n].end
          BY <1>2, <3>2, <3>4
        <4> QED BY <1>7, <3>2, <4>1
      <3> QED BY <1>1, <3>3, <3>4
    <2>4. \A i \in 1..(n + 1) : i \in 1..n \/ i = n + 1
      BY <1>1
    <2>5. Proper(res)
      <3>1. r.start < r.end
        BY <1>7, <1>10
      <3>2. \A i \in 1..(n + 1) : res[i].start < res[i].end
        BY <1>2, <2>2, <2>4, <3>1
      <3> QED BY <2>2, <3>2 DEF Proper
    <2>6. ASSUME NEW i \in 1..(n + 1), NEW j \in 1..(n + 1), i < j PROVE res[i].end < res[j].start
      <3>1. i \in 1..n
        BY <1>1, <2>6
      <3>2. CASE j = n + 1
        BY <2>2, <2>3, <3>1, <3>2
      <3>3. CASE j \in 1..n
        BY <1>2, <2>2, <2>6, <3>1, <3>3
      <3> QED BY <2>4, <3>2, <3>3
    <2>7. Apart(res)
      BY <2>2, <2>6 DEF Apart
    <2>8. ASSUME NEW c \in Int PROVE Covers(res, n + 1, c) <=> Covers(s, k, c)
      <3>1. n + 1 \in Nat \ {0} /\ (n + 1) - 1 = n
        BY <1>1
      <3>2. Covers(res, n + 1, c) <=> Covers(res, n, c) \/ Within(c, r)
        BY <2>2, <3>1, CoversNext
      <3>3. Covers(res, n, c) <=> Covers(out, n, c)
        BY <2>2 DEF Covers
      <3> QED BY <1>6, <3>2, <3>3
    <2>9. ASSUME NEW i \in 1..(n + 1), NEW m \in (k + 1)..Len(s) PROVE res[i].start <= s[m].start
      BY <1>3, <1>4, <2>2, <2>4
    <2> QED BY <1>5, <2>2, <2>5, <2>7, <2>8, <2>9 DEF MergeInv, res, r
  <1> QED BY <1>8, <1>9, <1>10 DEF r

\* coalesceByteRanges: the same cells, in ranges that are not empty, sorted and apart.
LEMMA CoalesceRanges ==
  ASSUME NEW in \in Seq(NatRange)
  PROVE  LET out == coalesceByteRanges(in)
         IN  /\ out \in Seq(NatRange) /\ Proper(out) /\ Apart(out)
             /\ \A c \in Int : Covers(out, Len(out), c) <=> Covers(in, Len(in), c)
  <1> DEFINE s == SortRanges(in)
             n == Len(s)
             f == MergeLoop(s)
             T == {k \in 0..n : MergeInv(f[k], s, k)}
  <1>1. /\ s \in Seq(NatRange) /\ n = Len(in) /\ Sorted(s)
        /\ \A c : Covers(s, Len(in), c) <=> Covers(in, Len(in), c)
    BY SortFacts
  <1>2. coalesceByteRanges(in) = f[n]
    BY DEF coalesceByteRanges, After, MergeLoop
  <1> HIDE DEF s
  <1>3. f[0] = <<>> /\ \A i \in 1..n : f[i] = Merge(f[i - 1], s[i])
    BY <1>1, MergeRounds
  <1>0. n \in Nat
    BY <1>1
  <1> HIDE DEF f
  <1>4. MergeInv(<<>>, s, 0)
    <2>1. Len(<<>>) = 0 /\ <<>> \in Seq(NatRange) /\ \A i \in 1..0 : FALSE
      OBVIOUS
    <2>2. Proper(<<>>) /\ Apart(<<>>)
      BY <2>1 DEF Proper, Apart
    <2> QED BY <2>1, <2>2 DEF MergeInv, Covers
  <1>5. ASSUME NEW i \in 1..n, i - 1 \in T PROVE i \in T
    <2>1. MergeInv(f[i - 1], s, i - 1)
      BY <1>5
    <2>2. MergeInv(Merge(f[i - 1], s[i]), s, i)
      BY <1>1, <2>1, MergeStep
    <2> QED BY <1>0, <1>3, <2>2
  <1>6. 0 \in T
    BY <1>0, <1>3, <1>4
  <1>7. \A i \in 0..n : i \in T
    <2> HIDE DEF T, n
    <2> QED BY <1>0, <1>5, <1>6, LoopInduction
  <1>8. MergeInv(f[n], s, n)
    BY <1>0, <1>7
  <1> HIDE DEF T, n
  <1> QED BY <1>1, <1>2, <1>8 DEF MergeInv

\* Ranges of the disk stay inside of it, since they cover the same cells.
LEMMA Coalesce ==
  ASSUME NEW in \in Seq(ByteRange)
  PROVE  LET out == coalesceByteRanges(in)
         IN  /\ out \in Seq(ByteRange) /\ Proper(out) /\ Apart(out)
             /\ \A c \in Int : Covers(out, Len(out), c) <=> Covers(in, Len(in), c)
  <1> DEFINE out == coalesceByteRanges(in)
             n == Len(out)
  <1>1. Len(in) \in Nat /\ \A i \in 1..Len(in) : in[i] \in ByteRange
    OBVIOUS
  <1>2. in \in Seq(NatRange)
    <2>1. \A r \in ByteRange : r \in NatRange
      BY SizeAssumption DEF ByteRange, NatRange
    <2>2. in \in [1..Len(in) -> NatRange]
      BY <1>1, <2>1
    <2> QED BY <1>1, <2>2
  <1>3. /\ out \in Seq(NatRange) /\ Proper(out) /\ Apart(out)
        /\ \A c \in Int : Covers(out, n, c) <=> Covers(in, Len(in), c)
    BY <1>2, CoalesceRanges
  <1> HIDE DEF out
  <1>4. n \in Nat /\ \A i \in 1..n : out[i] \in NatRange
    BY <1>3
  <1>5. ASSUME NEW i \in 1..n PROVE out[i] \in ByteRange
    <2> DEFINE r == out[i]
               c == r.end - 1
    <2>1. r \in NatRange /\ r.start < r.end /\ r.start \in Nat /\ r.end \in Nat
      BY <1>3, <1>4 DEF Proper, NatRange
    <2>2. c \in Int /\ Within(c, r)
      BY <2>1 DEF Within
    <2>3. Covers(in, Len(in), c)
      BY <1>3, <2>2 DEF Covers
    <2>4. PICK j \in 1..Len(in) : Within(c, in[j])
      BY <2>3 DEF Covers
    <2>5. in[j].end \in Int /\ in[j].end <= Size
      BY <1>1, RangeFields
    <2>6. r.end <= Size
      <3>1. c < in[j].end
        BY <2>4 DEF Within
      <3> HIDE DEF r
      <3> QED BY <2>1, <2>5, <3>1, SizeAssumption
    <2>7. r.start \in 0..Size /\ r.end \in 0..Size
      BY <2>1, <2>6, SizeAssumption
    <2>8. r = [start |-> r.start, end |-> r.end]
      BY <2>1 DEF NatRange
    <2> HIDE DEF r
    <2> QED BY <2>7, <2>8 DEF ByteRange, r
  <1>6. out \in Seq(ByteRange)
    <2>1. out \in [1..n -> ByteRange]
      BY <1>3, <1>5
    <2> QED BY <1>4, <2>1
  <1> QED BY <1>3, <1>6 DEF out


-----------------------------------------------------------------------------
(***************************************************************************)
(* The data ranges of the records.                                         *)
(***************************************************************************)

LEMMA ByteRangeFinite == IsFiniteSet(ByteRange)
  <1> DEFINE I == 0..Size
             f == [p \in I \X I |-> [start |-> p[1], end |-> p[2]]]
  <1>1. IsFiniteSet(I)
    BY SizeAssumption, FS_Interval
  <1> HIDE DEF I
  <1>2. IsFiniteSet(I \X I)
    BY <1>1, FS_Product
  <1>3. ByteRange = [start : I, end : I]
    BY DEF ByteRange, I
  <1>4. f \in [I \X I -> ByteRange]
    BY <1>3
  <1>5. ASSUME NEW r \in ByteRange PROVE \E p \in I \X I : f[p] = r
    <2>1. r.start \in I /\ r.end \in I /\ r = [start |-> r.start, end |-> r.end]
      BY <1>3
    <2>2. <<r.start, r.end>> \in I \X I
      BY <2>1
    <2>3. f[<<r.start, r.end>>] = r
      BY <2>1, <2>2
    <2> QED BY <2>2, <2>3
  <1> HIDE DEF f
  <1>6. f \in Surjection(I \X I, ByteRange)
    BY <1>4, <1>5 DEF Surjection
  <1> QED BY <1>2, <1>6, FS_Surjection

\* SetToSeq of a set of ranges: a list of them, each of them.
LEMMA ListOfRanges ==
  ASSUME NEW S \in SUBSET ByteRange
  PROVE  /\ SetToSeq(S) \in Seq(ByteRange)
         /\ Range(SetToSeq(S)) = S
  <1> DEFINE n == Cardinality(S)
             s == SetToSeq(S)
  <1>1. IsFiniteSet(S) /\ n \in Nat /\ ExistsBijection(1..n, S)
    BY ByteRangeFinite, FS_Subset, FS_CardinalityType
  <1>2. \E f \in [1..n -> S] : IsInjective(f)
    BY <1>1 DEF ExistsBijection, Bijection, Injection
  <1> HIDE DEF n
  <1>3. s \in [1..n -> S] /\ IsInjective(s)
    BY <1>2 DEF SetToSeq, n
  <1> HIDE DEF s
  <1>4. s \in Injection(1..n, S)
    BY <1>3 DEF Injection
  <1>5. Cardinality(1..n) = n
    <2>1. 1 \in Int /\ n \in Int
      BY <1>1
    <2>2. Cardinality(1..n) = IF 1 > n THEN 0 ELSE n - 1 + 1
      BY <2>1, FS_Interval
    <2> QED BY <1>1, <2>2
  <1>6. s \in Surjection(1..n, S)
    BY <1>1, <1>4, <1>5, FS_Injection DEF n
  <1>7. Range(s) = S
    BY <1>3, <1>6 DEF Surjection, Range
  <1>8. s \in Seq(ByteRange)
    <2>1. s \in [1..n -> ByteRange]
      BY <1>3
    <2> QED BY <1>1, <2>1
  <1> QED BY <1>7, <1>8 DEF s

\* What rebuildRanges makes of a set of ranges.
LEMMA RebuiltRanges ==
  ASSUME NEW recs, FileRanges(recs) \in SUBSET ByteRange
  PROVE  LET out == rebuildRanges(recs)
         IN  /\ out \in Seq(ByteRange) /\ Proper(out) /\ Apart(out)
             /\ Cover(out) = UNION {CellsOf(r) : r \in FileRanges(recs)}
  <1> DEFINE F == FileRanges(recs)
             in == SetToSeq(F)
             out == rebuildRanges(recs)
  <1>1. in \in Seq(ByteRange) /\ Range(in) = F
    BY ListOfRanges
  <1>2. out = coalesceByteRanges(in)
    BY DEF rebuildRanges
  <1> HIDE DEF F, in, out
  <1>3. /\ out \in Seq(ByteRange) /\ Proper(out) /\ Apart(out)
        /\ \A c \in Int : Covers(out, Len(out), c) <=> Covers(in, Len(in), c)
    BY <1>1, <1>2, Coalesce
  <1>4. Cells \subseteq Int
    BY DEF Cells
  <1>5. \A c \in Cells : c \in Cover(out) <=> c \in Cover(in)
    BY <1>1, <1>3, <1>4, CoverOf
  <1>6. Cover(out) \subseteq Cells /\ Cover(in) \subseteq Cells
    BY DEF Cover, CellsOf, Span
  <1>7. Cover(out) = Cover(in)
    BY <1>5, <1>6
  <1> QED BY <1>1, <1>3, <1>7 DEF Cover, F, out

\* buildDataRanges, a round: the number of the run, and the ranges so far.
DataStates == [vcn : Nat, out : Seq(ByteRange)]

LEMMA DataRangeType ==
  ASSUME NEW content \in Content, NEW s \in DataStates, NEW run \in NTFSRun
  PROVE  DataRange(content, s, run) \in DataStates
  <1> DEFINE length == Smaller(run.len, content.real - s.vcn)
             r == [start |-> run.lcn, end |-> run.lcn + length]
             res == DataRange(content, s, run)
             skip == run.lcn < 0 \/ s.vcn >= content.real \/ run.lcn + length > Size
  <1>1. /\ run.lcn \in Cells \cup {-1} /\ run.len \in 1..Size /\ content.real \in Nat
        /\ s.vcn \in Nat /\ s.out \in Seq(ByteRange) /\ Size \in Nat
    BY SizeAssumption DEF NTFSRun, Content, DataStates
  <1>2. length \in Int /\ run.lcn \in Int /\ (s.vcn < content.real => length > 0)
    BY <1>1 DEF Smaller, Cells
  <1>3. res = [vcn |-> s.vcn + run.len, out |-> IF skip THEN s.out ELSE Append(s.out, r)]
    BY DEF DataRange
  <1>4. ASSUME ~skip PROVE r \in ByteRange
    <2> HIDE DEF length
    <2>1. run.lcn \in 0..Size /\ run.lcn + length \in 0..Size
      BY <1>1, <1>2, <1>4
    <2> QED BY <2>1 DEF ByteRange
  <1> HIDE DEF r, skip, res
  <1>5. (IF skip THEN s.out ELSE Append(s.out, r)) \in Seq(ByteRange)
    BY <1>1, <1>4
  <1>6. s.vcn + run.len \in Nat
    BY <1>1
  <1> QED BY <1>3, <1>5, <1>6 DEF DataStates, res

\* The rounds of buildDataRanges.
DataLoop(content) ==
    LET Step(s, run) == DataRange(content, s, run)
    IN  Loop(Step, [vcn |-> content.vcn, out |-> <<>>], content.runs)

LEMMA DataRounds ==
  ASSUME NEW content \in Content
  PROVE  DataLoop(content)[Len(content.runs)] \in DataStates
  <1> DEFINE s == content.runs
             n == Len(s)
             f == DataLoop(content)
             S == DataStates
             b == [vcn |-> content.vcn, out |-> <<>>]
             st == [i \in 1..n |-> [x \in S |-> DataRange(content, x, s[i])]]
  <1>1. n \in Nat /\ \A i \in 1..n : s[i] \in NTFSRun
    BY DEF Content
  <1>0. b \in S
    BY DEF DataStates, Content
  <1>2. \A i \in 1..n : i - 1 \in 0..n /\ i \in 0..n
    BY <1>1
  <1>3. \A i \in 1..n : \A x \in S : DataRange(content, x, s[i]) \in S
    BY <1>1, DataRangeType
  <1> HIDE DEF S, n, b
  <1>4. st \in [1..n -> [S -> S]]
    BY <1>3
  <1>5. \A i \in 1..n : \A x \in S : st[i][x] = DataRange(content, x, s[i])
    OBVIOUS
  <1> HIDE DEF st
  <1>6. PICK h : h \in Rounds(n, S, b, st)
    BY <1>0, <1>1, <1>4, LoopExists DEF Bodies
  <1>7. h \in [0..n -> S] /\ h[0] = b /\ \A i \in 1..n : h[i] = st[i][h[i - 1]]
    BY <1>6 DEF Rounds
  <1>8. h = [i \in 0..n |-> IF i = 0 THEN b ELSE DataRange(content, h[i - 1], s[i])]
    <2>1. \A i \in 1..n : h[i - 1] \in S
      BY <1>2, <1>7
    <2>2. \A i \in 1..n : h[i] = DataRange(content, h[i - 1], s[i])
      BY <1>5, <1>7, <2>1
    <2>3. \A i \in 0..n : i # 0 => i \in 1..n
      BY <1>1
    <2>4. \A i \in 0..n : h[i] = IF i = 0 THEN b ELSE DataRange(content, h[i - 1], s[i])
      BY <1>7, <2>2, <2>3, Zenon
    <2> QED BY <1>7, <2>4
  <1>9. f = [i \in 0..n |-> IF i = 0 THEN b ELSE DataRange(content, f[i - 1], s[i])]
    BY <1>8, Zenon DEF DataLoop, Loop, n, b
  <1>10. 0 \in 0..n /\ \A i \in 1..n : i # 0
    BY <1>1
  <1> HIDE DEF f
  <1>11. f[0] = b /\ \A i \in 1..n : f[i] = DataRange(content, f[i - 1], s[i])
    BY <1>2, <1>9, <1>10, Zenon
  <1> DEFINE T == {k \in 0..n : f[k] \in S}
  <1>12. 0 \in T
    BY <1>0, <1>1, <1>11
  <1>13. \A i \in 1..n : i - 1 \in T => i \in T
    BY <1>2, <1>3, <1>11
  <1>14. \A i \in 0..n : i \in T
    <2> HIDE DEF T
    <2> QED BY <1>1, <1>12, <1>13, LoopInduction
  <1>15. f[n] \in S
    BY <1>1, <1>14
  <1> QED BY <1>15 DEF n, S, f

LEMMA RecordRanges ==
  ASSUME NEW content \in Content, NEW id
  PROVE  RecordOf(content, id).ranges \in Seq(ByteRange)
  <1>1. \A base : buildDataRanges(content, base) \in Seq(ByteRange)
    <2> TAKE base
    <2>1. CASE base < FirstUser \/ content.isDir
      <3>1. buildDataRanges(content, base) = <<>>
        BY <2>1, Zenon DEF buildDataRanges
      <3>2. <<>> \in Seq(ByteRange)
        OBVIOUS
      <3> QED BY <3>1, <3>2
    <2>2. CASE ~(base < FirstUser \/ content.isDir)
      <3>1. buildDataRanges(content, base) = DataLoop(content)[Len(content.runs)].out
        BY <2>2, Zenon DEF buildDataRanges, DataLoop, After
      <3> QED BY <3>1, DataRounds DEF DataStates
    <2> QED BY <2>1, <2>2
  <1> QED BY <1>1 DEF RecordOf


-----------------------------------------------------------------------------
(***************************************************************************)
(* Reading records.                                                        *)
(***************************************************************************)

LEMMA LeastOf ==
  ASSUME NEW T \in SUBSET Nat, T # {}
  PROVE  Min(T) \in T /\ \A x \in T : Min(T) <= x
  <1>1. PICK m \in T : \A x \in T : m <= x
    BY LeastElement
  <1> QED BY <1>1 DEF Min

\* The cell of a record that is mapped.
LEMMA SlotFacts ==
  ASSUME NEW runs, NEW id, Slots(runs, id) # {}
  PROVE  Min(Slots(runs, id)) \in Slots(runs, id) /\ Min(Slots(runs, id)) \in Cells
  <1>1. Slots(runs, id) \subseteq Cells
    BY DEF Slots
  <1>2. Cells \subseteq Nat
    BY DEF Cells
  <1> DEFINE T == Slots(runs, id)
  <1> HIDE DEF T
  <1>3. T \in SUBSET Nat /\ T # {}
    BY <1>1, <1>2 DEF T
  <1>4. Min(T) \in T
    BY <1>3, LeastOf
  <1> QED BY <1>1, <1>4 DEF T

LEMMA ReadContent ==
  ASSUME TrackerType, NEW id, Slots(layout.runs, id) # {},
         NEW content \in {disk[Slot(id)], image[Slot(id)]}
  PROVE  content \in Content /\ Slot(id) \in Cells
  <1>1. Slot(id) \in Cells
    BY SlotFacts DEF Slot
  <1> QED BY <1>1 DEF TrackerType

LEMMA ReadKeepsImage ==
  ASSUME TrackerType, NEW id, NEW content, ReadRecord(id, content)
  PROVE  image' \in [Cells -> Content]
  <1>1. CASE image' = image
    BY <1>1 DEF TrackerType
  <1>2. CASE image' = [image EXCEPT ![Slot(id)] = disk[Slot(id)]]
    <2> DEFINE c == Slot(id)
    <2> HIDE DEF c
    <2>1. image' = [image EXCEPT ![c] = disk[c]]
      BY <1>2 DEF c
    <2> QED BY <2>1 DEF TrackerType
  <1> QED BY <1>1, <1>2 DEF ReadRecord

LEMMA RefreshKeepsRanges ==
  ASSUME TrackerType, NEW id, NEW content \in Content, records' = Refreshed(id, content)
  PROVE  \A i \in DOMAIN records' : records'[i].ranges \in Seq(ByteRange)
  <1> DEFINE others == [i \in DOMAIN records \ {id} |-> records[i]]
  <1>1. \A i \in DOMAIN records : records[i].ranges \in Seq(ByteRange)
    BY DEF TrackerType
  <1>2. RecordOf(content, id).ranges \in Seq(ByteRange)
    BY RecordRanges
  <1>3. CASE ~content.ok
    BY <1>1, <1>3 DEF Refreshed
  <1>4. CASE content.ok /\ ~content.inUse
    <2>1. records' = others
      BY <1>4 DEF Refreshed
    <2> QED BY <1>1, <2>1
  <1>5. CASE content.ok /\ content.inUse
    <2>1. records' = [i \in DOMAIN others \cup {id} |->
                        IF i = id THEN RecordOf(content, id) ELSE others[i]]
      BY <1>5 DEF Refreshed
    <2>2. records' = [i \in DOMAIN records \cup {id} |->
                        IF i = id THEN RecordOf(content, id) ELSE records[i]]
      BY <2>1
    <2> HIDE DEF RecordOf
    <2> QED BY <1>1, <1>2, <2>2
  <1> QED BY <1>3, <1>4, <1>5

LEMMA FileRangesType ==
  ASSUME NEW recs, \A i \in DOMAIN recs : recs[i].ranges \in Seq(ByteRange)
  PROVE  FileRanges(recs) \in SUBSET ByteRange
  <1>1. \A s \in Seq(ByteRange) : Range(s) \subseteq ByteRange
    BY DEF Range
  <1> QED BY <1>1 DEF FileRanges

\* What ObserveMFTWrite does: it reads record 0 or it does not.
LEMMA ObserveCases ==
  ASSUME ObserveMFTWrite
  PROVE  LET r == RangeOf(rc.ev)
             ids == mftRecordIDs(layout.runs, r.start, r.end)
         IN  /\ rc.pc = "observe" /\ asks = <<>> /\ rc'.pc = "scan" /\ rc'.old = dataRanges
             /\ UNCHANGED <<disk, write, seq, events, dataRanges, snapshot, asks, journal,
                           punches, captured, asked>>
             /\ \/ /\ ~(0 \in ids /\ Mapped(0)) /\ rc'.ids = ids /\ rc'.scan = {}
                   /\ UNCHANGED <<image, layout, records, blind, unread, torn>>
                \/ /\ 0 \in ids /\ Mapped(0)
                   /\ \E content \in {disk[Slot(0)], image[Slot(0)]} :
                      /\ ReadRecord(0, content) /\ records' = Refreshed(0, content)
                      /\ layout' = IF content.ok /\ content.inUse /\ content.data
                                   THEN [runs |-> content.runs, size |-> content.real] ELSE layout
                      /\ unread' = Moved(layout') \ (IF Slots(layout'.runs, 0) = Slots(layout.runs, 0)
                                                     THEN {0} ELSE {})
                      /\ ids \subseteq rc'.ids /\ rc'.scan = NewTail(layout')
  <1> DEFINE r == RangeOf(rc.ev)
             ids == mftRecordIDs(layout.runs, r.start, r.end)
             all(content) == IF content.ok
                             THEN ids \cup rangeKeys(mftRecordIDs(layout'.runs, r.start, r.end))
                             ELSE ids
             Go(a, scan) == [rc EXCEPT !.pc = "scan", !.ids = a, !.scan = scan, !.old = dataRanges]
  <1>1. \A a, scan : /\ Go(a, scan).pc = "scan" /\ Go(a, scan).ids = a
                     /\ Go(a, scan).scan = scan /\ Go(a, scan).old = dataRanges
    OBVIOUS
  <1>2. \A content : ids \subseteq all(content)
    BY DEF all
  <1>3. /\ rc.pc = "observe" /\ asks = <<>>
        /\ UNCHANGED <<disk, write, seq, events, dataRanges, snapshot, asks, journal,
                      punches, captured, asked>>
    BY Zenon DEF ObserveMFTWrite, host
  <1>4. \/ /\ ~(0 \in ids /\ Mapped(0)) /\ rc' = Go(ids, {})
           /\ UNCHANGED <<image, layout, records, blind, unread, torn>>
        \/ /\ 0 \in ids /\ Mapped(0)
           /\ \E content \in {disk[Slot(0)], image[Slot(0)]} :
                /\ ReadRecord(0, content) /\ records' = Refreshed(0, content)
                /\ layout' = IF content.ok /\ content.inUse /\ content.data
                             THEN [runs |-> content.runs, size |-> content.real] ELSE layout
                /\ unread' = Moved(layout') \ (IF Slots(layout'.runs, 0) = Slots(layout.runs, 0)
                                               THEN {0} ELSE {})
                /\ rc' = Go(all(content), NewTail(layout'))
    BY Zenon DEF ObserveMFTWrite
  <1> HIDE DEF ids, all, Go
  <1>5. /\ rc'.pc = "scan" /\ rc'.old = dataRanges
        /\ \/ /\ ~(0 \in ids /\ Mapped(0)) /\ rc'.ids = ids /\ rc'.scan = {}
              /\ UNCHANGED <<image, layout, records, blind, unread, torn>>
           \/ /\ 0 \in ids /\ Mapped(0)
              /\ \E content \in {disk[Slot(0)], image[Slot(0)]} :
                 /\ ReadRecord(0, content) /\ records' = Refreshed(0, content)
                 /\ layout' = IF content.ok /\ content.inUse /\ content.data
                              THEN [runs |-> content.runs, size |-> content.real] ELSE layout
                 /\ unread' = Moved(layout') \ (IF Slots(layout'.runs, 0) = Slots(layout.runs, 0)
                                                THEN {0} ELSE {})
                 /\ ids \subseteq rc'.ids /\ rc'.scan = NewTail(layout')
    <2>1. CASE /\ ~(0 \in ids /\ Mapped(0)) /\ rc' = Go(ids, {})
               /\ UNCHANGED <<image, layout, records, blind, unread, torn>>
      <3>1. rc'.pc = "scan" /\ rc'.ids = ids /\ rc'.scan = {} /\ rc'.old = dataRanges
        BY <1>1, <2>1, Zenon
      <3> QED BY <2>1, <3>1, Zenon
    <2>2. ASSUME 0 \in ids, Mapped(0), NEW content \in {disk[Slot(0)], image[Slot(0)]},
                 ReadRecord(0, content), records' = Refreshed(0, content),
                 layout' = IF content.ok /\ content.inUse /\ content.data
                           THEN [runs |-> content.runs, size |-> content.real] ELSE layout,
                 unread' = Moved(layout') \ (IF Slots(layout'.runs, 0) = Slots(layout.runs, 0)
                                             THEN {0} ELSE {}),
                 rc' = Go(all(content), NewTail(layout'))
          PROVE  /\ rc'.pc = "scan" /\ rc'.old = dataRanges
                 /\ ids \subseteq rc'.ids /\ rc'.scan = NewTail(layout')
      <3> DEFINE a == all(content)
                 t == NewTail(layout')
      <3>1. rc' = Go(a, t)
        BY <2>2, Zenon
      <3>2. ids \subseteq a
        BY <1>2, Zenon
      <3> HIDE DEF a, t
      <3>3. rc'.pc = "scan" /\ rc'.old = dataRanges /\ rc'.ids = a /\ rc'.scan = t
        BY <1>1, <3>1, Zenon
      <3> QED BY <3>2, <3>3, Zenon DEF t
    <2> QED BY <1>4, <2>1, <2>2, Zenon
  <1> QED BY <1>3, <1>5, Zenon DEF ids

LEMMA InitRanges ==
  Init => RangesInv
  <1> SUFFICES ASSUME Init PROVE RangesInv
    OBVIOUS
  <1>1. /\ disk \in Disks /\ image = disk /\ rc.pc = "idle"
        /\ layout.runs = disk[0].runs /\ layout.size = disk[0].real
        /\ records = ScannedRecords(disk) /\ dataRanges = rebuildRanges(records)
        /\ snapshot.data = dataRanges
        /\ snapshot.mft = buildMFTRanges(layout.runs, layout.size)
    BY DEF Init, Idle
  <1>2. /\ disk \in [Cells -> Content]
        /\ \A id \in 0..(disk[0].real - 1) : Slots(disk[0].runs, id) # {}
    BY <1>1, ReconcileAssumption
  <1>3. disk[0] \in Content
    BY <1>2, SizeAssumption DEF Cells
  <1>4. ASSUME NEW id \in DOMAIN records PROVE records[id].ranges \in Seq(ByteRange)
    <2> DEFINE content == disk[Min(Slots(disk[0].runs, id))]
    <2>1. id \in 0..(disk[0].real - 1) /\ records[id] = RecordOf(content, id)
      BY <1>1, <1>4 DEF ScannedRecords
    <2>2. content \in Content
      BY <1>2, <2>1, SlotFacts
    <2> HIDE DEF content
    <2> QED BY <2>1, <2>2, RecordRanges
  <1>5. snapshot.data \in Seq(ByteRange)
    BY <1>1, <1>4, FileRangesType, RebuiltRanges
  <1>6. TrackerType
    BY <1>1, <1>2, <1>3, <1>4, <1>5 DEF TrackerType, Content
  <1> QED BY <1>1, <1>6 DEF RangesInv

LEMMA StepRanges ==
  ASSUME RangesInv, [Next]_vars
  PROVE  RangesInv'
  <1>1. TrackerType
    BY DEF RangesInv
  <1>2. ASSUME UNCHANGED <<disk, image, layout, records, dataRanges, snapshot>>,
               rc'.pc = "scan" => rc.pc = "scan" /\ rc'.scan = rc.scan,
               rc'.pc # "scan" => rc.pc # "scan"
        PROVE  RangesInv'
    <2>1. TrackerType'
      BY <1>1, <1>2 DEF TrackerType
    <2> QED BY <1>2, <2>1 DEF RangesInv
  <1>3. ASSUME NEW w \in HostWrites, StageWrite(w) PROVE RangesInv'
    <2>1. UNCHANGED <<image, layout, records, dataRanges, snapshot, rc>>
      BY <1>3 DEF StageWrite, tracker
    <2>2. w.off \in Nat /\ w.data \in Seq(Content)
      BY ReconcileAssumption DEF Cells
    <2>3. disk' = [c \in Cells |-> IF c \in w.off..(w.off + Len(w.data) - 1)
                                   THEN w.data[c - w.off + 1] ELSE disk[c]]
      BY <1>3 DEF StageWrite
    <2>4. ASSUME NEW c \in Cells, c \in w.off..(w.off + Len(w.data) - 1)
          PROVE  w.data[c - w.off + 1] \in Content
      <3>1. (c - w.off) + 1 \in 1..Len(w.data) /\ c - w.off + 1 = (c - w.off) + 1
        BY <2>2, <2>4
      <3> QED BY <2>2, <3>1
    <2>5. \A c \in Cells : disk[c] \in Content
      BY <1>1 DEF TrackerType
    <2>6. disk' \in [Cells -> Content]
      BY <2>3, <2>4, <2>5
    <2>7. TrackerType'
      BY <1>1, <2>1, <2>6 DEF TrackerType
    <2> QED BY <2>1, <2>7 DEF RangesInv
  <1>4. CASE SubmitWrite
    <2>1. UNCHANGED <<disk, image, layout, records, dataRanges, snapshot, rc>>
      BY <1>4 DEF SubmitWrite, tracker
    <2> QED BY <1>2, <2>1
  <1>5. CASE TakeEvent
    <2>1. UNCHANGED <<disk, image, layout, records, dataRanges, snapshot>>
      BY <1>5 DEF TakeEvent, tracker, host
    <2>2. rc.pc = "idle" /\ rc'.pc \in {"idle", "observe"}
      BY <1>5 DEF TakeEvent, Idle
    <2> QED BY <1>2, <2>1, <2>2
  <1>6. CASE SubmitPunch
    BY <1>2, <1>6 DEF SubmitPunch, tracker, host
  <1>7. CASE TakePunch
    BY <1>2, <1>7 DEF TakePunch, tracker, host
  <1>8. CASE ObserveMFTWrite
    <2>1. UNCHANGED <<disk, dataRanges, snapshot>>
      BY <1>8, Zenon DEF ObserveMFTWrite, host
    <2>2. CASE rc'.scan = {} /\ rc'.pc = "scan" /\ UNCHANGED <<image, layout, records>>
      <3>1. TrackerType'
        BY <1>1, <2>1, <2>2 DEF TrackerType
      <3> QED BY <2>2, <3>1 DEF RangesInv
    <2>3. ASSUME NEW content \in {disk[Slot(0)], image[Slot(0)]}, Mapped(0),
                 ReadRecord(0, content), records' = Refreshed(0, content),
                 layout' = IF content.ok /\ content.inUse /\ content.data
                           THEN [runs |-> content.runs, size |-> content.real] ELSE layout,
                 rc'.pc = "scan", rc'.scan = NewTail(layout')
          PROVE  RangesInv'
      <3>1. 0 < layout.size /\ Slots(layout.runs, 0) # {}
        BY <2>3 DEF Mapped
      <3>2. content \in Content
        BY <1>1, <2>3, <3>1, ReadContent
      <3>3. image' \in [Cells -> Content]
        BY <1>1, <2>3, ReadKeepsImage
      <3>4. \A i \in DOMAIN records' : records'[i].ranges \in Seq(ByteRange)
        BY <1>1, <2>3, <3>2, RefreshKeepsRanges
      <3>5. layout'.runs \in Seq(NTFSRun) /\ layout'.size \in Nat
        BY <1>1, <2>3, <3>2 DEF TrackerType, Content
      <3>6. TrackerType'
        BY <1>1, <2>1, <3>3, <3>4, <3>5 DEF TrackerType
      <3>7. ASSUME NEW id \in rc'.scan PROVE id \in Nat \ {0} /\ Slots(layout'.runs, id) # {}
        <4>1. id \in layout.size..(layout'.size - 1) /\ Slots(layout'.runs, id) # {}
          BY <2>3, <3>7, Zenon DEF NewTail
        <4>2. layout.size \in Nat
          BY <1>1 DEF TrackerType
        <4> QED BY <3>1, <4>1, <4>2
      <3> QED BY <2>3, <3>6, <3>7 DEF RangesInv
    <2>4. CASE UNCHANGED <<image, layout, records>> /\ rc'.pc = "scan" /\ rc'.scan = {}
      BY <2>2, <2>4
    <2> QED BY <1>8, <2>3, <2>4, ObserveCases
  <1>9. CASE ScanRecord
    <2> DEFINE id == Min(rc.scan)
    <2>1. /\ rc.pc = "scan" /\ rc.scan # {} /\ rc'.pc = "scan" /\ rc'.scan = rc.scan \ {id}
          /\ UNCHANGED <<disk, layout, snapshot>>
      BY <1>9 DEF ScanRecord, host
    <2>2. PICK content \in {disk[Slot(id)], image[Slot(id)]} :
             ReadRecord(id, content) /\ records' = Refreshed(id, content)
      BY <1>9 DEF ScanRecord
    <2>3. rc.scan \subseteq Nat /\ \A i \in rc.scan : i \in Nat \ {0} /\ Slots(layout.runs, i) # {}
      BY <2>1 DEF RangesInv
    <2>4. id \in rc.scan
      BY <2>1, <2>3, LeastOf
    <2> HIDE DEF id
    <2>5. content \in Content /\ image' \in [Cells -> Content]
      BY <1>1, <2>2, <2>3, <2>4, ReadContent, ReadKeepsImage
    <2>6. \A i \in DOMAIN records' : records'[i].ranges \in Seq(ByteRange)
      BY <1>1, <2>2, <2>5, RefreshKeepsRanges
    <2>7. TrackerType'
      BY <1>1, <2>1, <2>5, <2>6 DEF TrackerType
    <2> QED BY <2>1, <2>3, <2>7 DEF RangesInv
  <1>10. CASE RefreshRecord
    <2>1. /\ rc.pc = "scan" /\ rc.scan = {} /\ rc'.pc = "scan" /\ rc'.scan = rc.scan
          /\ UNCHANGED <<disk, layout, snapshot>>
      BY <1>10 DEF RefreshRecord, host
    <2>2. PICK id \in rc.ids \ {0} :
            IF Mapped(id)
            THEN \E content \in {disk[Slot(id)], image[Slot(id)]} :
                    ReadRecord(id, content) /\ records' = Refreshed(id, content)
            ELSE /\ records' = IF id < layout.size THEN records
                               ELSE [i \in DOMAIN records \ {id} |-> records[i]]
                 /\ image' = image
      BY <1>10, Zenon DEF RefreshRecord
    <2>3. CASE Mapped(id)
      <3>1. PICK content \in {disk[Slot(id)], image[Slot(id)]} :
               ReadRecord(id, content) /\ records' = Refreshed(id, content)
        BY <2>2, <2>3
      <3>2. content \in Content /\ image' \in [Cells -> Content]
        BY <1>1, <2>3, <3>1, ReadContent, ReadKeepsImage DEF Mapped
      <3>3. \A i \in DOMAIN records' : records'[i].ranges \in Seq(ByteRange)
        BY <1>1, <3>1, <3>2, RefreshKeepsRanges
      <3>4. TrackerType'
        BY <1>1, <2>1, <3>2, <3>3 DEF TrackerType
      <3> QED BY <2>1, <3>4 DEF RangesInv
    <2>4. CASE ~Mapped(id)
      <3>1. \A i \in DOMAIN records : records[i].ranges \in Seq(ByteRange)
        BY <1>1 DEF TrackerType
      <3>2. \A i \in DOMAIN records' : records'[i].ranges \in Seq(ByteRange)
        <4>1. CASE records' = records
          BY <3>1, <4>1
        <4>2. CASE records' = [i \in DOMAIN records \ {id} |-> records[i]]
          BY <3>1, <4>2
        <4> QED BY <2>2, <2>4, <4>1, <4>2
      <3>3. TrackerType'
        BY <1>1, <2>1, <2>2, <2>4, <3>2 DEF TrackerType
      <3> QED BY <2>1, <3>3 DEF RangesInv
    <2> QED BY <2>3, <2>4
  <1>11. CASE PublishSnapshots
    <2>1. /\ UNCHANGED <<disk, image, layout, records>> /\ rc'.pc = "idle"
          /\ dataRanges' = rebuildRanges(records) /\ snapshot'.data = dataRanges'
          /\ snapshot'.mft = buildMFTRanges(layout.runs, layout.size)
      BY <1>11 DEF PublishSnapshots, host, Idle
    <2>2. snapshot'.data \in Seq(ByteRange)
      BY <1>1, <2>1, FileRangesType, RebuiltRanges DEF TrackerType
    <2>3. TrackerType'
      BY <1>1, <2>1, <2>2 DEF TrackerType
    <2> QED BY <2>1, <2>3 DEF RangesInv
  <1>12. CASE UNCHANGED vars
    BY <1>2, <1>12 DEF vars, host, tracker
  <1> QED BY <1>3, <1>4, <1>5, <1>6, <1>7, <1>8, <1>9, <1>10, <1>11, <1>12 DEF Next

LEMMA RangesInductive == Spec => []RangesInv
  <1>1. RangesInv /\ [Next]_vars => RangesInv'
    BY StepRanges
  <1> QED BY InitRanges, <1>1, PTL DEF Spec

\* Between two observations the published data ranges are sorted, apart and just the file
\* data of the records: coalesceByteRanges keeps the cells and merges what touches.
THEOREM PublishedRangesExact == Spec => []RangesExact
  <1>1. RangesInv => RangesExact
    <2> SUFFICES ASSUME RangesInv, rc.pc = "idle"
                 PROVE  /\ snapshot.data = dataRanges
                        /\ Cover(dataRanges) = UNION {CellsOf(r) : r \in FileRanges(records)}
                        /\ \A i \in 1..(Len(dataRanges) - 1) : dataRanges[i].end < dataRanges[i + 1].start
      BY DEF RangesExact
    <2>1. snapshot.data = dataRanges /\ dataRanges = rebuildRanges(records) /\ TrackerType
      BY DEF RangesInv
    <2>2. FileRanges(records) \in SUBSET ByteRange
      BY <2>1, FileRangesType DEF TrackerType
    <2>3. /\ dataRanges \in Seq(ByteRange) /\ Apart(dataRanges)
          /\ Cover(dataRanges) = UNION {CellsOf(r) : r \in FileRanges(records)}
      BY <2>1, <2>2, RebuiltRanges
    <2>4. ASSUME NEW i \in 1..(Len(dataRanges) - 1) PROVE dataRanges[i].end < dataRanges[i + 1].start
      <3>1. i \in 1..Len(dataRanges) /\ i + 1 \in 1..Len(dataRanges) /\ i < i + 1
        BY <2>3
      <3> QED BY <2>3, <3>1 DEF Apart
    <2> QED BY <2>1, <2>3, <2>4
  <1> QED BY <1>1, RangesInductive, PTL

-----------------------------------------------------------------------------
(***************************************************************************)
(* What is asked for: every cell where a capture meets a range.            *)
(***************************************************************************)

\* A punch for a cell of capture number n is in the list.
Asks(out, n, c) == \E i \in 1..Len(out) : out[i].seq = n /\ Within(c, out[i])

LEMMA AskFacts ==
  ASSUME NEW out \in Seq(CaptureRange), NEW c \in CaptureRange, NEW r \in ByteRange
  PROVE  /\ Ask(out, c, r) \in Seq(CaptureRange)
         /\ \A n, x : Asks(out, n, x) => Asks(Ask(out, c, r), n, x)
         /\ \A x \in Int : Within(x, c) /\ Within(x, r) => Asks(Ask(out, c, r), c.seq, x)
  <1> DEFINE res == Ask(out, c, r)
             m == Meet(c, r)
  <1>1. /\ c.start \in Nat /\ c.end \in Nat /\ c.seq \in Nat
        /\ r.start \in Nat /\ r.end \in Nat
    BY SizeAssumption DEF CaptureRange, ByteRange
  <1>2. m \in CaptureRange /\ m.seq = c.seq
    BY <1>1 DEF Meet, CaptureRange, Larger, Smaller
  <1>3. \A x \in Int : Within(x, c) /\ Within(x, r) => Within(x, m)
    BY <1>1 DEF Within, Meet, Larger, Smaller
  <1> HIDE DEF m
  <1>4. CASE c.end <= r.start \/ c.start >= r.end
    <2>1. res = out
      BY <1>4 DEF Ask
    <2>2. \A x \in Int : ~(Within(x, c) /\ Within(x, r))
      BY <1>1, <1>4 DEF Within
    <2> QED BY <2>1, <2>2, Zenon
  <1>5. CASE ~(c.end <= r.start \/ c.start >= r.end)
    <2>1. res = Append(out, m)
      BY <1>5 DEF Ask, m
    <2>2. /\ res \in Seq(CaptureRange) /\ Len(res) = Len(out) + 1 /\ res[Len(out) + 1] = m
          /\ \A i \in 1..Len(out) : res[i] = out[i]
      BY <1>2, <2>1
    <2> HIDE DEF res
    <2>3. /\ Len(out) + 1 \in 1..Len(res)
          /\ \A i \in 1..Len(out) : i \in 1..Len(res)
      BY <2>2
    <2>4. \A n, x : Asks(out, n, x) => Asks(res, n, x)
      BY <2>2, <2>3, Zenon DEF Asks
    <2>5. \A x : Within(x, m) => Asks(res, c.seq, x)
      BY <1>2, <2>2, <2>3, Zenon DEF Asks
    <2>6. \A x \in Int : Within(x, c) /\ Within(x, r) => Asks(res, c.seq, x)
      BY <1>3, <2>5, Zenon
    <2> QED BY <2>2, <2>4, <2>6 DEF res
  <1> QED BY <1>4, <1>5

\* The rounds of ForOverlap over the captures.
AskLoop(out, captures, r) ==
    LET Step(o, c) == Ask(o, c, r)
    IN  Loop(Step, out, captures)

LEMMA AskRounds ==
  ASSUME NEW out \in Seq(CaptureRange), NEW captures \in Seq(CaptureRange), NEW r \in ByteRange
  PROVE  /\ AskLoop(out, captures, r)[0] = out
         /\ \A i \in 1..Len(captures) :
               AskLoop(out, captures, r)[i] = Ask(AskLoop(out, captures, r)[i - 1], captures[i], r)
  <1> DEFINE s == captures
             n == Len(s)
             f == AskLoop(out, captures, r)
             S == Seq(CaptureRange)
             b == out
             st == [i \in 1..n |-> [x \in S |-> Ask(x, s[i], r)]]
  <1>1. n \in Nat /\ \A i \in 1..n : s[i] \in CaptureRange
    OBVIOUS
  <1>0. b \in S
    OBVIOUS
  <1>2. \A i \in 1..n : i - 1 \in 0..n /\ i \in 0..n
    BY <1>1
  <1>3. \A i \in 1..n : \A x \in S : Ask(x, s[i], r) \in S
    BY <1>1, AskFacts
  <1> HIDE DEF S, n, b
  <1>4. st \in [1..n -> [S -> S]]
    BY <1>3
  <1>5. \A i \in 1..n : \A x \in S : st[i][x] = Ask(x, s[i], r)
    OBVIOUS
  <1> HIDE DEF st
  <1>6. PICK h : h \in Rounds(n, S, b, st)
    BY <1>0, <1>1, <1>4, LoopExists DEF Bodies
  <1>7. h \in [0..n -> S] /\ h[0] = b /\ \A i \in 1..n : h[i] = st[i][h[i - 1]]
    BY <1>6 DEF Rounds
  <1>8. h = [i \in 0..n |-> IF i = 0 THEN b ELSE Ask(h[i - 1], s[i], r)]
    <2>1. \A i \in 1..n : h[i - 1] \in S
      BY <1>2, <1>7
    <2>2. \A i \in 1..n : h[i] = Ask(h[i - 1], s[i], r)
      BY <1>5, <1>7, <2>1
    <2>3. \A i \in 0..n : i # 0 => i \in 1..n
      BY <1>1
    <2>4. \A i \in 0..n : h[i] = IF i = 0 THEN b ELSE Ask(h[i - 1], s[i], r)
      BY <1>7, <2>2, <2>3, Zenon
    <2> QED BY <1>7, <2>4
  <1>9. f = [i \in 0..n |-> IF i = 0 THEN b ELSE Ask(f[i - 1], s[i], r)]
    BY <1>8, Zenon DEF AskLoop, Loop, n, b
  <1>10. 0 \in 0..n /\ \A i \in 1..n : i # 0
    BY <1>1
  <1> HIDE DEF f
  <1>11. f[0] = b /\ \A i \in 1..n : f[i] = Ask(f[i - 1], s[i], r)
    BY <1>2, <1>9, <1>10, Zenon
  <1> QED BY <1>11 DEF b, n, f

LEMMA ForOverlapFacts ==
  ASSUME NEW out \in Seq(CaptureRange), NEW captures \in Seq(CaptureRange), NEW r \in ByteRange
  PROVE  LET res == ForOverlap(out, captures, r)
         IN  /\ res \in Seq(CaptureRange)
             /\ \A n, x : Asks(out, n, x) => Asks(res, n, x)
             /\ \A i \in 1..Len(captures) : \A x \in Int :
                   Within(x, captures[i]) /\ Within(x, r) => Asks(res, captures[i].seq, x)
  <1> DEFINE f == AskLoop(out, captures, r)
             n == Len(captures)
             Good(o, k) == /\ o \in Seq(CaptureRange)
                           /\ \A m, x : Asks(out, m, x) => Asks(o, m, x)
                           /\ \A i \in 1..k : \A x \in Int :
                                Within(x, captures[i]) /\ Within(x, r) => Asks(o, captures[i].seq, x)
             T == {k \in 0..n : Good(f[k], k)}
  <1>1. n \in Nat /\ \A i \in 1..n : captures[i] \in CaptureRange
    OBVIOUS
  <1>2. f[0] = out /\ \A i \in 1..n : f[i] = Ask(f[i - 1], captures[i], r)
    BY AskRounds
  <1>3. ForOverlap(out, captures, r) = f[n]
    BY Zenon DEF ForOverlap, After, AskLoop
  <1> HIDE DEF f, n
  <1>4. Good(out, 0)
    <2>1. \A i \in 1..0 : FALSE
      OBVIOUS
    <2> QED BY <2>1
  <1>5. ASSUME NEW k \in 1..n, NEW o, Good(o, k - 1) PROVE Good(Ask(o, captures[k], r), k)
    <2> DEFINE c == captures[k]
               res == Ask(o, c, r)
    <2>1. o \in Seq(CaptureRange) /\ c \in CaptureRange
      BY <1>1, <1>5
    <2>2. /\ res \in Seq(CaptureRange)
          /\ \A m, x : Asks(o, m, x) => Asks(res, m, x)
          /\ \A x \in Int : Within(x, c) /\ Within(x, r) => Asks(res, c.seq, x)
      BY <2>1, AskFacts
    <2>3. \A i \in 1..k : i \in 1..(k - 1) \/ i = k
      BY <1>1
    <2> HIDE DEF res
    <2>4. \A m, x : Asks(out, m, x) => Asks(res, m, x)
      BY <1>5, <2>2, Zenon
    <2>5. \A i \in 1..k : \A x \in Int :
              Within(x, captures[i]) /\ Within(x, r) => Asks(res, captures[i].seq, x)
      BY <1>5, <2>2, <2>3, Zenon
    <2> QED BY <2>2, <2>4, <2>5 DEF res
  <1> HIDE DEF Good
  <1>6. 0 \in T
    BY <1>1, <1>2, <1>4
  <1>7. \A k \in 1..n : k - 1 \in T => k \in T
    BY <1>1, <1>2, <1>5
  <1>8. n \in T
    <2> HIDE DEF T
    <2>1. \A k \in 0..n : k \in T
      BY <1>1, <1>6, <1>7, LoopInduction
    <2> QED BY <1>1, <2>1
  <1>9. Good(ForOverlap(out, captures, r), n)
    BY <1>3, <1>8
  <1> QED BY <1>9 DEF Good, n

\* The rounds over the ranges.
MatchLoop(captures, ranges) ==
    LET Step(out, r) == ForOverlap(out, captures, r)
    IN  Loop(Step, <<>>, ranges)

LEMMA MatchRounds ==
  ASSUME NEW captures \in Seq(CaptureRange), NEW ranges \in Seq(ByteRange)
  PROVE  /\ MatchLoop(captures, ranges)[0] = <<>>
         /\ \A i \in 1..Len(ranges) :
               MatchLoop(captures, ranges)[i]
                 = ForOverlap(MatchLoop(captures, ranges)[i - 1], captures, ranges[i])
  <1> DEFINE s == ranges
             n == Len(s)
             f == MatchLoop(captures, ranges)
             S == Seq(CaptureRange)
             b == <<>>
             st == [i \in 1..n |-> [x \in S |-> ForOverlap(x, captures, s[i])]]
  <1>1. n \in Nat /\ \A i \in 1..n : s[i] \in ByteRange
    OBVIOUS
  <1>0. b \in S
    OBVIOUS
  <1>2. \A i \in 1..n : i - 1 \in 0..n /\ i \in 0..n
    BY <1>1
  <1>3. \A i \in 1..n : \A x \in S : ForOverlap(x, captures, s[i]) \in S
    BY <1>1, ForOverlapFacts
  <1> HIDE DEF S, n, b
  <1>4. st \in [1..n -> [S -> S]]
    BY <1>3
  <1>5. \A i \in 1..n : \A x \in S : st[i][x] = ForOverlap(x, captures, s[i])
    OBVIOUS
  <1> HIDE DEF st
  <1>6. PICK h : h \in Rounds(n, S, b, st)
    BY <1>0, <1>1, <1>4, LoopExists DEF Bodies
  <1>7. h \in [0..n -> S] /\ h[0] = b /\ \A i \in 1..n : h[i] = st[i][h[i - 1]]
    BY <1>6 DEF Rounds
  <1>8. h = [i \in 0..n |-> IF i = 0 THEN b ELSE ForOverlap(h[i - 1], captures, s[i])]
    <2>1. \A i \in 1..n : h[i - 1] \in S
      BY <1>2, <1>7
    <2>2. \A i \in 1..n : h[i] = ForOverlap(h[i - 1], captures, s[i])
      BY <1>5, <1>7, <2>1
    <2>3. \A i \in 0..n : i # 0 => i \in 1..n
      BY <1>1
    <2>4. \A i \in 0..n : h[i] = IF i = 0 THEN b ELSE ForOverlap(h[i - 1], captures, s[i])
      BY <1>7, <2>2, <2>3, Zenon
    <2> QED BY <1>7, <2>4
  <1>9. f = [i \in 0..n |-> IF i = 0 THEN b ELSE ForOverlap(f[i - 1], captures, s[i])]
    BY <1>8, Zenon DEF MatchLoop, Loop, n, b
  <1>10. 0 \in 0..n /\ \A i \in 1..n : i # 0
    BY <1>1
  <1> HIDE DEF f
  <1>11. f[0] = b /\ \A i \in 1..n : f[i] = ForOverlap(f[i - 1], captures, s[i])
    BY <1>2, <1>9, <1>10, Zenon
  <1> QED BY <1>11 DEF b, n, f

\* Matches: wherever a capture meets a range, a punch is asked for.
LEMMA MatchesFacts ==
  ASSUME NEW captures \in Seq(CaptureRange), NEW ranges \in Seq(ByteRange)
  PROVE  LET res == Matches(captures, ranges)
         IN  /\ res \in Seq(CaptureRange)
             /\ \A i \in 1..Len(captures) : \A x \in Int :
                   Within(x, captures[i]) /\ Covers(ranges, Len(ranges), x)
                   => Asks(res, captures[i].seq, x)
  <1> DEFINE f == MatchLoop(captures, ranges)
             n == Len(ranges)
             Good(o, k) == /\ o \in Seq(CaptureRange)
                           /\ \A i \in 1..Len(captures) : \A x \in Int :
                                Within(x, captures[i]) /\ Covers(ranges, k, x)
                                => Asks(o, captures[i].seq, x)
             T == {k \in 0..n : Good(f[k], k)}
  <1>1. n \in Nat /\ \A i \in 1..n : ranges[i] \in ByteRange
    OBVIOUS
  <1>2. f[0] = <<>> /\ \A i \in 1..n : f[i] = ForOverlap(f[i - 1], captures, ranges[i])
    BY MatchRounds
  <1>3. Matches(captures, ranges) = f[n]
    BY Zenon DEF Matches, After, MatchLoop
  <1> HIDE DEF f, n
  <1>4. Good(<<>>, 0)
    <2>1. <<>> \in Seq(CaptureRange) /\ \A x : ~Covers(ranges, 0, x)
      BY DEF Covers
    <2> QED BY <2>1
  <1>5. ASSUME NEW k \in 1..n, NEW o, Good(o, k - 1) PROVE Good(ForOverlap(o, captures, ranges[k]), k)
    <2> DEFINE r == ranges[k]
               res == ForOverlap(o, captures, r)
    <2>1. o \in Seq(CaptureRange) /\ r \in ByteRange /\ k \in Nat \ {0}
      BY <1>1, <1>5
    <2>2. /\ res \in Seq(CaptureRange)
          /\ \A m, x : Asks(o, m, x) => Asks(res, m, x)
          /\ \A i \in 1..Len(captures) : \A x \in Int :
                Within(x, captures[i]) /\ Within(x, r) => Asks(res, captures[i].seq, x)
      BY <2>1, ForOverlapFacts
    <2>3. \A x : Covers(ranges, k, x) <=> Covers(ranges, k - 1, x) \/ Within(x, r)
      BY <2>1, CoversNext
    <2> HIDE DEF res, r
    <2>4. \A i \in 1..Len(captures) : \A x \in Int :
              Within(x, captures[i]) /\ Covers(ranges, k, x) => Asks(res, captures[i].seq, x)
      BY <1>5, <2>2, <2>3, Zenon
    <2> QED BY <2>2, <2>4 DEF res, r
  <1> HIDE DEF Good
  <1>6. 0 \in T
    BY <1>1, <1>2, <1>4
  <1>7. \A k \in 1..n : k - 1 \in T => k \in T
    BY <1>1, <1>2, <1>5
  <1>8. n \in T
    <2> HIDE DEF T
    <2>1. \A k \in 0..n : k \in T
      BY <1>1, <1>6, <1>7, LoopInduction
    <2> QED BY <1>1, <2>1
  <1>9. Good(Matches(captures, ranges), n)
    BY <1>3, <1>8
  <1> QED BY <1>9 DEF Good, n

-----------------------------------------------------------------------------
(***************************************************************************)
(* What subtractRanges leaves: no cell of the new ranges that is not in an *)
(* old one is lost.                                                        *)
(***************************************************************************)

\* A round of the search for gaps: where the next may begin, and those so far.
GapStates == [cursor : 0..Size, out : Seq(ByteRange)]

LEMMA AppendCovers ==
  ASSUME NEW R, NEW out \in Seq(R), NEW r \in R
  PROVE  /\ Append(out, r) \in Seq(R)
         /\ \A x : Covers(Append(out, r), Len(Append(out, r)), x)
                     <=> Covers(out, Len(out), x) \/ Within(x, r)
  <1> DEFINE res == Append(out, r)
             n == Len(out)
  <1>1. /\ res \in Seq(R) /\ Len(res) = n + 1 /\ res[n + 1] = r
        /\ \A i \in 1..n : res[i] = out[i]
    OBVIOUS
  <1>2. n + 1 \in Nat \ {0} /\ (n + 1) - 1 = n
    OBVIOUS
  <1> HIDE DEF res, n
  <1>3. \A x : Covers(res, n + 1, x) <=> Covers(res, n, x) \/ Within(x, r)
    BY <1>1, <1>2, CoversNext
  <1>4. \A x : Covers(res, n, x) <=> Covers(out, n, x)
    BY <1>1, Zenon DEF Covers
  <1>5. \A x : Covers(res, Len(res), x) <=> Covers(out, n, x) \/ Within(x, r)
    BY <1>1, <1>3, <1>4, Zenon
  <1> QED BY <1>1, <1>5 DEF res, n

LEMMA GapFacts ==
  ASSUME NEW nr \in ByteRange, NEW g \in GapStates, NEW or \in ByteRange
  PROVE  LET res == Gap(nr, g, or)
         IN  /\ res \in GapStates
             /\ \A x : Covers(g.out, Len(g.out), x) => Covers(res.out, Len(res.out), x)
             /\ \A x \in Int : Within(x, nr) /\ ~Within(x, or) /\ g.cursor <= x /\ x < res.cursor
                              => Covers(res.out, Len(res.out), x)
  <1> DEFINE res == Gap(nr, g, or)
             r == [start |-> g.cursor, end |-> Smaller(or.start, nr.end)]
  <1>1. /\ g.cursor \in 0..Size /\ g.out \in Seq(ByteRange) /\ Size \in Nat
        /\ or.start \in 0..Size /\ or.end \in 0..Size /\ nr.start \in 0..Size /\ nr.end \in 0..Size
    BY SizeAssumption DEF GapStates, ByteRange
  <1>2. r \in ByteRange /\ r.start = g.cursor /\ r.end = Smaller(or.start, nr.end)
    BY <1>1 DEF ByteRange, Smaller
  <1> HIDE DEF r
  <1>3. CASE or.start >= nr.end \/ or.end <= g.cursor \/ g.cursor >= nr.end
    <2>1. res = g
      BY <1>3 DEF Gap
    <2>2. \A x \in Int : ~(g.cursor <= x /\ x < g.cursor)
      BY <1>1
    <2> HIDE DEF res
    <2>3. /\ res \in GapStates
          /\ \A x : Covers(g.out, Len(g.out), x) => Covers(res.out, Len(res.out), x)
          /\ \A x \in Int : ~(g.cursor <= x /\ x < res.cursor)
      BY <2>1, <2>2, Zenon
    <2> QED BY <2>3, Zenon DEF res
  <1>4. CASE ~(or.start >= nr.end \/ or.end <= g.cursor \/ g.cursor >= nr.end)
    <2>1. res.cursor = or.end /\ res.out = (IF or.start > g.cursor THEN Append(g.out, r) ELSE g.out)
      BY <1>4 DEF Gap, r
    <2>2. res = [cursor |-> res.cursor, out |-> res.out]
      BY <1>4 DEF Gap
    <2> HIDE DEF res
    <2>3. /\ res.out \in Seq(ByteRange)
          /\ \A x : Covers(g.out, Len(g.out), x) => Covers(res.out, Len(res.out), x)
          /\ or.start > g.cursor => \A x : Within(x, r) => Covers(res.out, Len(res.out), x)
      <3>1. CASE or.start > g.cursor
        <4>1. res.out = Append(g.out, r)
          BY <2>1, <3>1
        <4>2. /\ Append(g.out, r) \in Seq(ByteRange)
              /\ \A x : Covers(Append(g.out, r), Len(Append(g.out, r)), x)
                          <=> Covers(g.out, Len(g.out), x) \/ Within(x, r)
          BY <1>1, <1>2, AppendCovers
        <4> QED BY <4>1, <4>2, Zenon
      <3>2. CASE ~(or.start > g.cursor)
        BY <1>1, <2>1, <3>2, Zenon
      <3> QED BY <3>1, <3>2, Zenon
    <2>4. res \in GapStates
      BY <1>1, <2>1, <2>2, <2>3, Zenon DEF GapStates
    <2>5. ASSUME NEW x \in Int, Within(x, nr), ~Within(x, or), g.cursor <= x, x < res.cursor
          PROVE  or.start > g.cursor /\ Within(x, r)
      BY <1>1, <1>2, <2>1, <2>5 DEF Within, Smaller
    <2> QED BY <2>3, <2>4, <2>5, Zenon DEF res
  <1> QED BY <1>3, <1>4

\* The rounds of the search in nr.
GapLoop(nr, old, out) ==
    LET Step(g, or) == Gap(nr, g, or)
    IN  Loop(Step, [cursor |-> nr.start, out |-> out], old)

LEMMA GapRounds ==
  ASSUME NEW nr \in ByteRange, NEW old \in Seq(ByteRange), NEW out \in Seq(ByteRange)
  PROVE  /\ GapLoop(nr, old, out)[0] = [cursor |-> nr.start, out |-> out]
         /\ \A i \in 1..Len(old) :
               GapLoop(nr, old, out)[i] = Gap(nr, GapLoop(nr, old, out)[i - 1], old[i])
  <1> DEFINE s == old
             n == Len(s)
             f == GapLoop(nr, old, out)
             S == GapStates
             b == [cursor |-> nr.start, out |-> out]
             st == [i \in 1..n |-> [x \in S |-> Gap(nr, x, s[i])]]
  <1>1. n \in Nat /\ \A i \in 1..n : s[i] \in ByteRange
    OBVIOUS
  <1>0. b \in S
    BY DEF GapStates, ByteRange
  <1>2. \A i \in 1..n : i - 1 \in 0..n /\ i \in 0..n
    BY <1>1
  <1>3. \A i \in 1..n : \A x \in S : Gap(nr, x, s[i]) \in S
    BY <1>1, GapFacts
  <1> HIDE DEF S, n, b
  <1>4. st \in [1..n -> [S -> S]]
    BY <1>3
  <1>5. \A i \in 1..n : \A x \in S : st[i][x] = Gap(nr, x, s[i])
    OBVIOUS
  <1> HIDE DEF st
  <1>6. PICK h : h \in Rounds(n, S, b, st)
    BY <1>0, <1>1, <1>4, LoopExists DEF Bodies
  <1>7. h \in [0..n -> S] /\ h[0] = b /\ \A i \in 1..n : h[i] = st[i][h[i - 1]]
    BY <1>6 DEF Rounds
  <1>8. h = [i \in 0..n |-> IF i = 0 THEN b ELSE Gap(nr, h[i - 1], s[i])]
    <2>1. \A i \in 1..n : h[i - 1] \in S
      BY <1>2, <1>7
    <2>2. \A i \in 1..n : h[i] = Gap(nr, h[i - 1], s[i])
      BY <1>5, <1>7, <2>1
    <2>3. \A i \in 0..n : i # 0 => i \in 1..n
      BY <1>1
    <2>4. \A i \in 0..n : h[i] = IF i = 0 THEN b ELSE Gap(nr, h[i - 1], s[i])
      BY <1>7, <2>2, <2>3, Zenon
    <2> QED BY <1>7, <2>4
  <1>9. f = [i \in 0..n |-> IF i = 0 THEN b ELSE Gap(nr, f[i - 1], s[i])]
    BY <1>8, Zenon DEF GapLoop, Loop, n, b
  <1>10. 0 \in 0..n /\ \A i \in 1..n : i # 0
    BY <1>1
  <1> HIDE DEF f
  <1>11. f[0] = b /\ \A i \in 1..n : f[i] = Gap(nr, f[i - 1], s[i])
    BY <1>2, <1>9, <1>10, Zenon
  <1> QED BY <1>11 DEF b, n, f

LEMMA GapsFacts ==
  ASSUME NEW nr \in ByteRange, NEW old \in Seq(ByteRange), NEW out \in Seq(ByteRange)
  PROVE  LET res == Gaps(nr, old, out)
         IN  /\ res \in Seq(ByteRange)
             /\ \A x : Covers(out, Len(out), x) => Covers(res, Len(res), x)
             /\ \A x \in Int : Within(x, nr) /\ ~Covers(old, Len(old), x) => Covers(res, Len(res), x)
  <1> DEFINE f == GapLoop(nr, old, out)
             n == Len(old)
             Lost(x) == Within(x, nr) /\ ~Covers(old, n, x)
             Good(g) == /\ g \in GapStates
                        /\ \A x : Covers(out, Len(out), x) => Covers(g.out, Len(g.out), x)
                        /\ \A x \in Int : Lost(x) /\ x < g.cursor => Covers(g.out, Len(g.out), x)
             T == {k \in 0..n : Good(f[k])}
             b == [cursor |-> nr.start, out |-> out]
             last == f[n]
             res == Gaps(nr, old, out)
             r == [start |-> last.cursor, end |-> nr.end]
  <1>1. n \in Nat /\ \A i \in 1..n : old[i] \in ByteRange
    OBVIOUS
  <1>2. f[0] = b /\ \A i \in 1..n : f[i] = Gap(nr, f[i - 1], old[i])
    BY GapRounds
  <1>3. res = IF last.cursor < nr.end THEN Append(last.out, r) ELSE last.out
    BY Zenon DEF Gaps, After, GapLoop
  <1> HIDE DEF f, n, res
  <1>0. nr.start \in 0..Size /\ nr.end \in 0..Size /\ Size \in Nat
    BY SizeAssumption DEF ByteRange
  <1>4. Good(b)
    <2>1. b \in GapStates /\ b.out = out /\ b.cursor = nr.start
      BY <1>0 DEF GapStates
    <2>2. \A x \in Int : Within(x, nr) => ~(x < nr.start)
      BY <1>0 DEF Within
    <2> HIDE DEF b
    <2> QED BY <2>1, <2>2, Zenon
  <1>5. ASSUME NEW k \in 1..n, NEW g, Good(g) PROVE Good(Gap(nr, g, old[k]))
    <2> DEFINE or == old[k]
               h == Gap(nr, g, or)
    <2>1. or \in ByteRange /\ g \in GapStates
      BY <1>1, <1>5
    <2>2. /\ h \in GapStates
          /\ \A x : Covers(g.out, Len(g.out), x) => Covers(h.out, Len(h.out), x)
          /\ \A x \in Int : Within(x, nr) /\ ~Within(x, or) /\ g.cursor <= x /\ x < h.cursor
                           => Covers(h.out, Len(h.out), x)
      BY <2>1, GapFacts
    <2>3. \A x : Lost(x) => Within(x, nr) /\ ~Within(x, or)
      BY Zenon DEF Covers
    <2>4. g.cursor \in Int
      BY <2>1 DEF GapStates
    <2>5. \A x \in Int : x < g.cursor \/ g.cursor <= x
      BY <2>4
    <2> HIDE DEF h, Lost
    <2>6. \A x \in Int : Lost(x) /\ x < h.cursor => Covers(h.out, Len(h.out), x)
      BY <1>5, <2>2, <2>3, <2>5, Zenon
    <2>7. \A x : Covers(out, Len(out), x) => Covers(h.out, Len(h.out), x)
      BY <1>5, <2>2, Zenon
    <2> QED BY <2>2, <2>6, <2>7, Zenon DEF h
  <1> HIDE DEF Good, b
  <1>6. 0 \in T
    BY <1>1, <1>2, <1>4
  <1>7. \A k \in 1..n : k - 1 \in T => k \in T
    BY <1>1, <1>2, <1>5
  <1>8. Good(last)
    <2>1. n \in T
      <3> HIDE DEF T
      <3>1. \A k \in 0..n : k \in T
        BY <1>1, <1>6, <1>7, LoopInduction
      <3> QED BY <1>1, <3>1
    <2> QED BY <2>1
  <1> HIDE DEF last
  <1>9. last \in GapStates /\ last.out \in Seq(ByteRange) /\ last.cursor \in 0..Size
    BY <1>8 DEF Good, GapStates
  <1>10. r \in ByteRange /\ r.start = last.cursor /\ r.end = nr.end
    BY <1>0, <1>9 DEF ByteRange
  <1> HIDE DEF r
  <1>11. CASE last.cursor < nr.end
    <2>1. res = Append(last.out, r)
      BY <1>3, <1>11
    <2>2. /\ res \in Seq(ByteRange)
          /\ \A x : Covers(res, Len(res), x) <=> Covers(last.out, Len(last.out), x) \/ Within(x, r)
      BY <1>9, <1>10, <2>1, AppendCovers
    <2>3. \A x \in Int : Lost(x) => x < last.cursor \/ Within(x, r)
      BY <1>0, <1>9, <1>10 DEF Within
    <2> HIDE DEF Lost
    <2>4. /\ \A x : Covers(out, Len(out), x) => Covers(res, Len(res), x)
          /\ \A x \in Int : Lost(x) => Covers(res, Len(res), x)
      BY <1>8, <2>2, <2>3, Zenon DEF Good
    <2> QED BY <2>2, <2>4, Zenon DEF Lost, res, n
  <1>12. CASE ~(last.cursor < nr.end)
    <2>1. res = last.out
      BY <1>3, <1>12
    <2>2. \A x \in Int : Lost(x) => x < last.cursor
      BY <1>0, <1>9, <1>12 DEF Within
    <2> HIDE DEF Lost
    <2>3. /\ res \in Seq(ByteRange)
          /\ \A x : Covers(out, Len(out), x) => Covers(res, Len(res), x)
          /\ \A x \in Int : Lost(x) => Covers(res, Len(res), x)
      BY <1>8, <1>9, <2>1, <2>2, Zenon DEF Good
    <2> QED BY <2>3, Zenon DEF Lost, res, n
  <1> QED BY <1>11, <1>12

\* A round over the new ranges: the old range to begin at, and what is left so far.
LeftStates(old) == [j : 1..(Len(old) + 1), out : Seq(ByteRange)]

LEMMA UncoveredFacts ==
  ASSUME NEW old \in Seq(ByteRange), NEW s \in LeftStates(old), NEW nr \in ByteRange
  PROVE  LET res == Uncovered(old, s, nr)
         IN  /\ res \in LeftStates(old)
             /\ \A x : Covers(s.out, Len(s.out), x) => Covers(res.out, Len(res.out), x)
             /\ \A x \in Int : Within(x, nr) /\ ~Covers(old, Len(old), x)
                              => Covers(res.out, Len(res.out), x)
  <1> DEFINE n == Len(old)
             left == {i \in s.j..n : old[i].end > nr.start}
             j == IF left = {} THEN n + 1 ELSE Min(left)
             sub == SubSeq(old, j, n)
             gaps == Gaps(nr, sub, s.out)
             res == Uncovered(old, s, nr)
  <1>1. n \in Nat /\ s.j \in 1..(n + 1) /\ s.out \in Seq(ByteRange)
    BY DEF LeftStates
  <1>2. j \in 1..(n + 1)
    <2>1. CASE left = {}
      BY <1>1, <2>1
    <2>2. CASE left # {}
      <3>1. left \in SUBSET Nat
        BY <1>1
      <3>2. Min(left) \in left
        <4> HIDE DEF left
        <4> QED BY <2>2, <3>1, LeastOf
      <3> QED BY <1>1, <2>2, <3>2
    <2> QED BY <2>1, <2>2
  <1>3. res = IF nr.end <= nr.start THEN s ELSE [j |-> j, out |-> gaps]
    BY Zenon DEF Uncovered
  <1> HIDE DEF j, n
  <1>4. sub \in Seq(ByteRange) /\ \A x : Covers(sub, Len(sub), x) => Covers(old, n, x)
    <2>1. \A i \in j..n : old[i] \in ByteRange
      BY <1>1, <1>2 DEF n
    <2>2. /\ sub \in Seq(ByteRange)
          /\ Len(sub) = IF j <= n THEN n - j + 1 ELSE 0
          /\ \A i \in 1..(n - j + 1) : sub[i] = old[j + i - 1]
      BY <1>1, <1>2, <2>1, SubSeqProperties DEF n
    <2> HIDE DEF sub
    <2>3. ASSUME NEW i \in 1..Len(sub) PROVE (j + i) - 1 \in 1..n /\ sub[i] = old[(j + i) - 1]
      <3>0. Len(sub) \in Nat
        BY <2>2
      <3>1. Len(sub) = (n - j) + 1
        BY <1>1, <1>2, <2>2, <3>0
      <3>2. i \in 1..(n - j + 1) /\ (j + i) - 1 \in 1..n /\ j + i - 1 = (j + i) - 1
        BY <1>1, <1>2, <3>1
      <3> QED BY <2>2, <3>2
    <2>4. \A x : Covers(sub, Len(sub), x) => Covers(old, n, x)
      BY <2>3, Zenon DEF Covers
    <2> QED BY <2>2, <2>4
  <1> HIDE DEF sub
  <1>5. /\ gaps \in Seq(ByteRange)
        /\ \A x : Covers(s.out, Len(s.out), x) => Covers(gaps, Len(gaps), x)
        /\ \A x \in Int : Within(x, nr) /\ ~Covers(sub, Len(sub), x) => Covers(gaps, Len(gaps), x)
    BY <1>1, <1>4, GapsFacts
  <1> HIDE DEF gaps, res
  <1>6. CASE nr.end <= nr.start
    <2>1. res = s
      BY <1>3, <1>6
    <2>2. \A x \in Int : ~Within(x, nr)
      BY <1>6, RangeFields DEF Within
    <2> QED BY <2>1, <2>2, Zenon DEF res
  <1>7. CASE ~(nr.end <= nr.start)
    <2>1. res.out = gaps /\ res \in LeftStates(old)
      <3>1. res = [j |-> j, out |-> gaps]
        BY <1>3, <1>7
      <3> QED BY <1>2, <1>5, <3>1 DEF LeftStates, n
    <2>2. /\ \A x : Covers(s.out, Len(s.out), x) => Covers(res.out, Len(res.out), x)
          /\ \A x \in Int : Within(x, nr) /\ ~Covers(old, n, x) => Covers(res.out, Len(res.out), x)
      BY <1>4, <1>5, <2>1, Zenon
    <2> QED BY <2>1, <2>2, Zenon DEF res, n
  <1> QED BY <1>6, <1>7

\* The rounds over the new ranges.
LeftLoop(new, old) ==
    LET Step(s, nr) == Uncovered(old, s, nr)
    IN  Loop(Step, [j |-> 1, out |-> <<>>], new)

LEMMA LeftRounds ==
  ASSUME NEW new \in Seq(ByteRange), NEW old \in Seq(ByteRange)
  PROVE  /\ LeftLoop(new, old)[0] = [j |-> 1, out |-> <<>>]
         /\ \A i \in 1..Len(new) :
               LeftLoop(new, old)[i] = Uncovered(old, LeftLoop(new, old)[i - 1], new[i])
  <1> DEFINE s == new
             n == Len(s)
             f == LeftLoop(new, old)
             S == LeftStates(old)
             b == [j |-> 1, out |-> <<>>]
             st == [i \in 1..n |-> [x \in S |-> Uncovered(old, x, s[i])]]
  <1>1. n \in Nat /\ \A i \in 1..n : s[i] \in ByteRange
    OBVIOUS
  <1>0. b \in S
    BY DEF LeftStates
  <1>2. \A i \in 1..n : i - 1 \in 0..n /\ i \in 0..n
    BY <1>1
  <1>3. \A i \in 1..n : \A x \in S : Uncovered(old, x, s[i]) \in S
    BY <1>1, UncoveredFacts
  <1> HIDE DEF S, n, b
  <1>4. st \in [1..n -> [S -> S]]
    BY <1>3
  <1>5. \A i \in 1..n : \A x \in S : st[i][x] = Uncovered(old, x, s[i])
    OBVIOUS
  <1> HIDE DEF st
  <1>6. PICK h : h \in Rounds(n, S, b, st)
    BY <1>0, <1>1, <1>4, LoopExists DEF Bodies
  <1>7. h \in [0..n -> S] /\ h[0] = b /\ \A i \in 1..n : h[i] = st[i][h[i - 1]]
    BY <1>6 DEF Rounds
  <1>8. h = [i \in 0..n |-> IF i = 0 THEN b ELSE Uncovered(old, h[i - 1], s[i])]
    <2>1. \A i \in 1..n : h[i - 1] \in S
      BY <1>2, <1>7
    <2>2. \A i \in 1..n : h[i] = Uncovered(old, h[i - 1], s[i])
      BY <1>5, <1>7, <2>1
    <2>3. \A i \in 0..n : i # 0 => i \in 1..n
      BY <1>1
    <2>4. \A i \in 0..n : h[i] = IF i = 0 THEN b ELSE Uncovered(old, h[i - 1], s[i])
      BY <1>7, <2>2, <2>3, Zenon
    <2> QED BY <1>7, <2>4
  <1>9. f = [i \in 0..n |-> IF i = 0 THEN b ELSE Uncovered(old, f[i - 1], s[i])]
    BY <1>8, Zenon DEF LeftLoop, Loop, n, b
  <1>10. 0 \in 0..n /\ \A i \in 1..n : i # 0
    BY <1>1
  <1> HIDE DEF f
  <1>11. f[0] = b /\ \A i \in 1..n : f[i] = Uncovered(old, f[i - 1], s[i])
    BY <1>2, <1>9, <1>10, Zenon
  <1> QED BY <1>11 DEF b, n, f

LEMMA SubtractFacts ==
  ASSUME NEW new \in Seq(ByteRange), NEW old \in Seq(ByteRange)
  PROVE  LET res == subtractRanges(new, old)
         IN  /\ res \in Seq(ByteRange)
             /\ \A x \in Int : Covers(new, Len(new), x) /\ ~Covers(old, Len(old), x)
                              => Covers(res, Len(res), x)
  <1> DEFINE f == LeftLoop(new, old)
             n == Len(new)
             Good(s, k) == /\ s \in LeftStates(old)
                           /\ \A x \in Int : Covers(new, k, x) /\ ~Covers(old, Len(old), x)
                                             => Covers(s.out, Len(s.out), x)
             T == {k \in 0..n : Good(f[k], k)}
             b == [j |-> 1, out |-> <<>>]
             out == f[n].out
             res == subtractRanges(new, old)
  <1>1. n \in Nat /\ \A i \in 1..n : new[i] \in ByteRange
    OBVIOUS
  <1>2. f[0] = b /\ \A i \in 1..n : f[i] = Uncovered(old, f[i - 1], new[i])
    BY LeftRounds
  <1>3. res = coalesceByteRanges(out)
    BY Zenon DEF subtractRanges, After, LeftLoop
  <1> HIDE DEF f, n, res
  <1>4. Good(b, 0)
    <2>1. b \in LeftStates(old)
      BY DEF LeftStates
    <2>2. \A x : ~Covers(new, 0, x)
      BY DEF Covers
    <2> HIDE DEF b
    <2> QED BY <2>1, <2>2
  <1>5. ASSUME NEW k \in 1..n, NEW s, Good(s, k - 1) PROVE Good(Uncovered(old, s, new[k]), k)
    <2> DEFINE nr == new[k]
               t == Uncovered(old, s, nr)
    <2>1. nr \in ByteRange /\ s \in LeftStates(old) /\ k \in Nat \ {0}
      BY <1>1, <1>5
    <2>2. /\ t \in LeftStates(old)
          /\ \A x : Covers(s.out, Len(s.out), x) => Covers(t.out, Len(t.out), x)
          /\ \A x \in Int : Within(x, nr) /\ ~Covers(old, Len(old), x) => Covers(t.out, Len(t.out), x)
      BY <2>1, UncoveredFacts
    <2>3. \A x : Covers(new, k, x) <=> Covers(new, k - 1, x) \/ Within(x, nr)
      BY <2>1, CoversNext
    <2> HIDE DEF t, nr
    <2>4. \A x \in Int : Covers(new, k, x) /\ ~Covers(old, Len(old), x) => Covers(t.out, Len(t.out), x)
      BY <1>5, <2>2, <2>3, Zenon
    <2> QED BY <2>2, <2>4 DEF t, nr
  <1> HIDE DEF Good, b
  <1>6. 0 \in T
    BY <1>1, <1>2, <1>4
  <1>7. \A k \in 1..n : k - 1 \in T => k \in T
    BY <1>1, <1>2, <1>5
  <1>8. Good(f[n], n)
    <2>1. n \in T
      <3> HIDE DEF T
      <3>1. \A k \in 0..n : k \in T
        BY <1>1, <1>6, <1>7, LoopInduction
      <3> QED BY <1>1, <3>1
    <2> QED BY <2>1
  <1>9. out \in Seq(ByteRange)
    BY <1>8 DEF Good, LeftStates
  <1>10. \A x \in Int : Covers(new, n, x) /\ ~Covers(old, Len(old), x) => Covers(out, Len(out), x)
    BY <1>8 DEF Good
  <1> HIDE DEF out
  <1>11. /\ res \in Seq(ByteRange)
         /\ \A x \in Int : Covers(res, Len(res), x) <=> Covers(out, Len(out), x)
    BY <1>3, <1>9, Coalesce
  <1> QED BY <1>10, <1>11, Zenon DEF res, n

-----------------------------------------------------------------------------
(***************************************************************************)
(* The journal.                                                            *)
(***************************************************************************)

LEMMA Capacity ==
  JournalCapacity \in Nat \ {0}
  BY ReconcileAssumption

LEMMA InitJournal ==
  Init => JournalInv
  <1> SUFFICES ASSUME Init PROVE JournalInv
    OBVIOUS
  <1>1. /\ captured = <<>> /\ Len(<<>>) = 0 /\ events = <<>> /\ seq = 0 /\ write = NoWrite
        /\ journal.head = 0 /\ journal.count = 0
        /\ journal.items = [i \in 0..(JournalCapacity - 1) |-> NoCapture]
    BY DEF Init
  <1>2. JournalType
    BY <1>1 DEF JournalType, NoWrite, NoCapture, ObservedWrite, CaptureRange
  <1>3. 0 % JournalCapacity = 0 /\ Smaller(0, JournalCapacity) = 0
    BY Capacity, ModSmall DEF Smaller
  <1>4. \A k \in 1..Len(captured) : FALSE
    BY <1>1
  <1> QED BY <1>1, <1>2, <1>3, <1>4 DEF JournalInv

\* Add puts a capture where it belongs in the ring.
LEMMA AddJournal ==
  ASSUME JournalInv, NEW c \in CaptureRange,
         journal' = Add(journal, c), captured' = Append(captured, c)
  PROVE  /\ captured' \in Seq(CaptureRange)
         /\ journal'.items \in [0..(JournalCapacity - 1) -> CaptureRange]
         /\ journal'.head = Len(captured') % JournalCapacity
         /\ journal'.count = Smaller(Len(captured'), JournalCapacity)
         /\ \A k \in 1..Len(captured') : k > Len(captured') - JournalCapacity =>
               journal'.items[(k - 1) % JournalCapacity] = captured'[k]
  <1> DEFINE n == Len(captured)
             cap == JournalCapacity
  <1>1. cap \in Nat \ {0}
    BY Capacity
  <1>2. /\ captured \in Seq(CaptureRange) /\ n \in Nat
        /\ journal.items \in [0..(cap - 1) -> CaptureRange]
        /\ journal.head = n % cap /\ journal.count = Smaller(n, cap)
    BY DEF JournalInv, JournalType
  <1>3. /\ captured' \in Seq(CaptureRange) /\ Len(captured') = n + 1
        /\ captured'[n + 1] = c /\ \A k \in 1..n : captured'[k] = captured[k]
    BY <1>2
  <1>4. n % cap \in 0..(cap - 1)
    BY <1>1, <1>2
  <1>5. /\ journal'.items = [journal.items EXCEPT ![n % cap] = c]
        /\ journal'.head = ((n % cap) + 1) % cap
        /\ journal'.count = IF journal.count < cap THEN journal.count + 1 ELSE journal.count
    BY <1>2 DEF Add
  <1>6. journal'.head = (n + 1) % cap
    <2>1. n \in Int /\ 1 \in Int
      BY <1>2
    <2> HIDE DEF n, cap
    <2>2. ((n % cap) + 1) % cap = (n + 1) % cap
      BY <1>1, <2>1, ModSum, Zenon
    <2> QED BY <1>5, <2>2, Zenon
  <1>7. journal'.count = Smaller(n + 1, cap)
    BY <1>1, <1>2, <1>5 DEF Smaller
  <1>8. journal'.items \in [0..(cap - 1) -> CaptureRange]
    BY <1>2, <1>4, <1>5
  <1> HIDE DEF n, cap
  <1>9. ASSUME NEW k \in 1..(n + 1), k > n + 1 - cap
        PROVE  journal'.items[(k - 1) % cap] = captured'[k]
    <2>1. CASE k = n + 1
      <3>1. k - 1 = n
        BY <1>2, <2>1
      <3> QED BY <1>2, <1>3, <1>4, <1>5, <2>1, <3>1
    <2>2. CASE k \in 1..n
      <3>1. k - 1 \in Int /\ k - 1 < n /\ n < k - 1 + cap /\ k > n - cap
        BY <1>1, <1>2, <1>9, <2>2
      <3>2. (k - 1) % cap # n % cap
        <4>1. n \in Int
          BY <1>2
        <4> QED BY <1>1, <3>1, <4>1, ModApart, Zenon
      <3>3. (k - 1) % cap \in 0..(cap - 1)
        BY <1>1, <3>1
      <3>4. journal.items[(k - 1) % cap] = captured[k]
        BY <2>2, <3>1 DEF JournalInv, n, cap
      <3> QED BY <1>2, <1>3, <1>5, <2>2, <3>2, <3>3, <3>4
    <2>3. k = n + 1 \/ k \in 1..n
      BY <1>2
    <2> QED BY <2>1, <2>2, <2>3
  <1>10. \A k \in 1..(n + 1) : k > n + 1 - cap =>
            journal'.items[(k - 1) % cap] = captured'[k]
    BY <1>9, Zenon
  <1>11. \A k \in 1..Len(captured') : k > Len(captured') - cap =>
            journal'.items[(k - 1) % cap] = captured'[k]
    <2> DEFINE len == Len(captured')
    <2>1. len = n + 1
      BY <1>3
    <2> SUFFICES \A k \in 1..len : k > len - cap => journal'.items[(k - 1) % cap] = captured'[k]
      OBVIOUS
    <2> HIDE DEF len
    <2>2. ASSUME NEW k \in 1..len, k > len - cap PROVE k \in 1..(n + 1) /\ k > n + 1 - cap
      BY <1>1, <1>2, <2>1, <2>2
    <2> QED BY <1>10, <2>2, Zenon
  <1>12. journal'.head = Len(captured') % cap /\ journal'.count = Smaller(Len(captured'), cap)
    BY <1>3, <1>6, <1>7, Zenon
  <1> QED BY <1>3, <1>8, <1>11, <1>12, Zenon DEF cap

LEMMA StepJournal ==
  ASSUME JournalInv, [Next]_vars
  PROVE  JournalInv'
  <1>1. /\ write \in ObservedWrite /\ seq \in Nat /\ events \in Seq(ObservedWrite)
    BY DEF JournalInv, JournalType
  <1>2. ASSUME UNCHANGED <<journal, captured>>,
               write' \in ObservedWrite, seq' \in Nat, events' \in Seq(ObservedWrite)
        PROVE  JournalInv'
    BY <1>2 DEF JournalInv, JournalType
  <1>3. ASSUME NEW w \in HostWrites, StageWrite(w) PROVE JournalInv'
    <2>1. w.off \in Nat /\ Len(w.data) \in Nat /\ w.captured \in BOOLEAN
      BY ReconcileAssumption DEF Cells
    <2>2. write' \in ObservedWrite
      BY <1>3, <2>1 DEF StageWrite, ObservedWrite
    <2> QED BY <1>1, <1>2, <1>3, <2>2 DEF StageWrite
  <1>4. CASE SubmitWrite
    <2> DEFINE ev == [off |-> write.off, len |-> write.len, captured |-> write.captured,
                      seq |-> seq + 1, touches |-> TouchesMFT(write)]
    <2>1. TouchesMFT(write) \in BOOLEAN
      BY DEF TouchesMFT, rangesOverlapSnapshot
    <2>2. ev \in ObservedWrite
      BY <1>1, <2>1 DEF ObservedWrite
    <2>3. events' = Append(events, ev) /\ write' = NoWrite /\ seq' = seq + 1
      BY <1>4 DEF SubmitWrite
    <2>4. NoWrite \in ObservedWrite
      BY DEF NoWrite, ObservedWrite
    <2>5. UNCHANGED <<journal, captured>>
      BY <1>4 DEF SubmitWrite
    <2> HIDE DEF ev
    <2> QED BY <1>1, <1>2, <2>2, <2>3, <2>4, <2>5
  <1>5. CASE TakeEvent
    <2> DEFINE ev == Head(events)
               c == [seq |-> ev.seq, start |-> ev.off, end |-> ev.off + ev.len]
    <2>1. events # <<>> /\ events' = Tail(events) /\ write' = write /\ seq' = seq
      BY <1>5 DEF TakeEvent, host
    <2>2. events' \in Seq(ObservedWrite) /\ ev \in ObservedWrite
      BY <1>1, <2>1
    <2>3. CASE ev.captured
      <3>1. journal' = Add(journal, c) /\ captured' = Append(captured, c)
        BY <1>5, <2>3 DEF TakeEvent
      <3>2. c \in CaptureRange
        BY <2>2 DEF ObservedWrite, CaptureRange
      <3> HIDE DEF c
      <3> QED BY <1>1, <2>1, <2>2, <3>1, <3>2, AddJournal DEF JournalInv, JournalType
    <2>4. CASE ~ev.captured
      <3>1. UNCHANGED <<journal, captured>>
        BY <1>5, <2>4 DEF TakeEvent
      <3> QED BY <1>1, <1>2, <2>1, <2>2, <3>1
    <2> QED BY <2>3, <2>4
  <1>6. CASE SubmitPunch
    BY <1>1, <1>2, <1>6 DEF SubmitPunch, host
  <1>7. CASE TakePunch
    BY <1>1, <1>2, <1>7 DEF TakePunch, host
  <1>8. CASE ObserveMFTWrite
    <2>1. UNCHANGED <<write, seq, events, journal, captured>>
      BY <1>8, Zenon DEF ObserveMFTWrite, host
    <2> QED BY <1>1, <1>2, <2>1
  <1>9. CASE ScanRecord
    <2>1. UNCHANGED <<write, seq, events, journal, captured>>
      BY <1>9, Zenon DEF ScanRecord, host
    <2> QED BY <1>1, <1>2, <2>1
  <1>10. CASE RefreshRecord
    <2>1. UNCHANGED <<write, seq, events, journal, captured>>
      BY <1>10, Zenon DEF RefreshRecord, host
    <2> QED BY <1>1, <1>2, <2>1
  <1>11. CASE PublishSnapshots
    <2>1. UNCHANGED <<write, seq, events, journal, captured>>
      BY <1>11, Zenon DEF PublishSnapshots, host
    <2> QED BY <1>1, <1>2, <2>1
  <1>12. CASE UNCHANGED vars
    BY <1>1, <1>2, <1>12 DEF vars, host
  <1> QED BY <1>3, <1>4, <1>5, <1>6, <1>7, <1>8, <1>9, <1>10, <1>11, <1>12 DEF Next

LEMMA JournalInductive == Spec => []JournalInv
  <1>1. JournalInv /\ [Next]_vars => JournalInv'
    BY StepJournal
  <1> QED BY InitJournal, <1>1, PTL DEF Spec

LEMMA JournalInvLatest ==
  ASSUME JournalInv
  PROVE  JournalIsLatest
  <1> DEFINE n == Len(captured)
             cap == JournalCapacity
             m == Smaller(n, cap)
             from == Larger(1, n - cap + 1)
             first == (journal.head - journal.count + cap) % cap
  <1>1. cap \in Nat \ {0} /\ captured \in Seq(CaptureRange) /\ n \in Nat
    BY Capacity DEF JournalInv, JournalType
  <1>2. /\ journal.head = n % cap /\ journal.count = m
        /\ \A k \in 1..n : k > n - cap => journal.items[(k - 1) % cap] = captured[k]
    BY DEF JournalInv
  <1> HIDE DEF n, cap
  <1>3. m \in Nat /\ m <= n /\ m <= cap /\ from \in Int /\ from = n - m + 1 /\ 1 <= from
    <2>1. CASE n < cap
      <3>1. m = n /\ from = 1
        BY <1>1, <2>1 DEF Smaller, Larger
      <3> QED BY <1>1, <2>1, <3>1
    <2>2. CASE ~(n < cap)
      <3>1. m = cap /\ from = n - cap + 1
        BY <1>1, <2>2 DEF Smaller, Larger
      <3> QED BY <1>1, <2>2, <3>1
    <2> QED BY <2>1, <2>2
  <1>4. Remembered = [i \in 1..m |-> journal.items[(first + i - 1) % cap]]
    BY <1>2 DEF Remembered, cap
  <1>5. JournalIsLatest <=> Remembered = SubSeq(captured, from, n)
    BY DEF JournalIsLatest, n, cap
  <1>6. first = (n - m) % cap
    <2>1. n % cap \in 0..(cap - 1)
      BY <1>1
    <2>2. first = ((n % cap) + (cap - m)) % cap
      <3>1. journal.head - journal.count + cap = (n % cap) + (cap - m)
        BY <1>1, <1>2, <1>3, <2>1
      <3> QED BY <3>1
    <2>3. ((n % cap) + (cap - m)) % cap = (n + (cap - m)) % cap
      <3>1. n \in Int /\ cap - m \in Int
        BY <1>1, <1>3
      <3> QED BY <1>1, <3>1, ModSum, Zenon
    <2>4. n + (cap - m) = (n - m) + cap
      BY <1>1, <1>3
    <2>5. ((n - m) + cap) % cap = (n - m) % cap
      <3>1. n - m \in Int
        BY <1>1, <1>3
      <3> QED BY <1>1, <3>1, ModRound, Zenon
    <2> QED BY <2>2, <2>3, <2>4, <2>5
  <1> HIDE DEF m, from, first
  <1>8. ASSUME NEW i \in 1..m PROVE journal.items[(first + i - 1) % cap] = captured[n - m + i]
    <2>1. (first + (i - 1)) % cap = ((n - m) + (i - 1)) % cap
      <3>1. n - m \in Int /\ i - 1 \in Int
        BY <1>1, <1>3
      <3> QED BY <1>1, <1>6, <3>1, ModSum, Zenon
    <2>2. /\ n - m + i \in 1..n /\ n - m + i > n - cap
          /\ (n - m) + (i - 1) = (n - m + i) - 1
      BY <1>1, <1>3
    <2>3. first \in Int
      BY <1>1, <1>3, <1>6
    <2>4. first + i - 1 = first + (i - 1)
      BY <2>3
    <2>5. journal.items[((n - m + i) - 1) % cap] = captured[n - m + i]
      BY <1>2, <2>2
    <2> QED BY <2>1, <2>2, <2>4, <2>5
  <1>9. Remembered = [i \in 1..m |-> captured[n - m + i]]
    BY <1>4, <1>8
  <1>10. SubSeq(captured, from, n) = [i \in 1..m |-> captured[n - m + i]]
    <2>1. \A i \in from..n : captured[i] \in CaptureRange
      BY <1>1, <1>3 DEF n
    <2>2. /\ SubSeq(captured, from, n) \in Seq(CaptureRange)
          /\ Len(SubSeq(captured, from, n)) = IF from <= n THEN n - from + 1 ELSE 0
          /\ \A i \in 1..(n - from + 1) : SubSeq(captured, from, n)[i] = captured[from + i - 1]
      BY <1>1, <1>3, <2>1, SubSeqProperties
    <2>3. /\ n - from + 1 = m /\ (IF from <= n THEN n - from + 1 ELSE 0) = m
          /\ \A i \in 1..m : from + i - 1 = n - m + i
      BY <1>1, <1>3
    <2>4. /\ SubSeq(captured, from, n) \in Seq(CaptureRange)
          /\ Len(SubSeq(captured, from, n)) = m
          /\ \A i \in 1..m : SubSeq(captured, from, n)[i] = captured[n - m + i]
      BY <2>2, <2>3, Zenon
    <2> DEFINE sub == SubSeq(captured, from, n)
    <2> HIDE DEF sub
    <2>5. sub = [i \in 1..m |-> sub[i]]
      BY <2>4 DEF sub
    <2> QED BY <2>4, <2>5 DEF sub
  <1> QED BY <1>5, <1>9, <1>10

\* The captures ForOverlap walks through are the last ones, in order, however often the
\* ring has gone round.
THEOREM JournalRemembersLatest == Spec => []JournalIsLatest
  <1>1. JournalInv => JournalIsLatest
    BY JournalInvLatest
  <1> QED BY <1>1, JournalInductive, PTL

-----------------------------------------------------------------------------
(***************************************************************************)
(* Nothing that was captured is missed.                                    *)
(***************************************************************************)

\* The captures in the journal are the last ones, each of them.
LEMMA RememberedLatest ==
  ASSUME JournalInv
  PROVE  /\ Remembered \in Seq(CaptureRange)
         /\ \A i \in 1..Len(Remembered) : \E k \in 1..Len(captured) :
               k > Len(captured) - JournalCapacity /\ Remembered[i] = captured[k]
         /\ \A k \in 1..Len(captured) : k > Len(captured) - JournalCapacity =>
               \E i \in 1..Len(Remembered) : Remembered[i] = captured[k]
  <1> DEFINE n == Len(captured)
             cap == JournalCapacity
             from == Larger(1, n - cap + 1)
             s == Remembered
  <1>1. cap \in Nat \ {0} /\ captured \in Seq(CaptureRange) /\ n \in Nat
    BY Capacity DEF JournalInv, JournalType
  <1>2. s = SubSeq(captured, from, n)
    BY JournalInvLatest DEF JournalIsLatest
  <1> HIDE DEF s, n, cap
  <1>3. from \in Int /\ 1 <= from /\ from <= n + 1 /\ from > n - cap /\ (from = 1 \/ from = (n - cap) + 1)
    <2>1. n - cap + 1 = (n - cap) + 1
      BY <1>1
    <2> QED BY <1>1, <2>1 DEF Larger
  <1> HIDE DEF from
  <1>4. \A i \in from..n : captured[i] \in CaptureRange
    BY <1>1, <1>3 DEF n
  <1>5. /\ s \in Seq(CaptureRange)
        /\ Len(s) = IF from <= n THEN n - from + 1 ELSE 0
        /\ \A i \in 1..(n - from + 1) : s[i] = captured[from + i - 1]
    <2>1. captured \in Seq(CaptureRange) /\ from \in Int /\ n \in Int
      BY <1>1, <1>3
    <2>2. /\ SubSeq(captured, from, n) \in Seq(CaptureRange)
          /\ Len(SubSeq(captured, from, n)) = IF from <= n THEN n - from + 1 ELSE 0
          /\ \A i \in 1..(n - from + 1) : SubSeq(captured, from, n)[i] = captured[from + i - 1]
      BY <1>4, <2>1, SubSeqProperties
    <2> QED BY <1>2, <2>2, Zenon
  <1>6. Len(s) = (n - from) + 1
    BY <1>1, <1>3, <1>5
  <1>7. \A i \in 1..((n - from) + 1) : s[i] = captured[(from + i) - 1]
    <2> SUFFICES ASSUME NEW i \in 1..((n - from) + 1) PROVE s[i] = captured[(from + i) - 1]
      OBVIOUS
    <2>1. i \in 1..(n - from + 1) /\ from + i - 1 = (from + i) - 1
      BY <1>1, <1>3
    <2> QED BY <1>5, <2>1
  <1>8. ASSUME NEW i \in 1..((n - from) + 1) PROVE (from + i) - 1 \in 1..n /\ (from + i) - 1 > n - cap
    BY <1>1, <1>3
  <1>9. ASSUME NEW k \in 1..n, k > n - cap
        PROVE  (k - from) + 1 \in 1..((n - from) + 1) /\ (from + ((k - from) + 1)) - 1 = k
    BY <1>1, <1>3, <1>9
  <1>10. \A i \in 1..Len(s) : \E k \in 1..n : k > n - cap /\ s[i] = captured[k]
    BY <1>6, <1>7, <1>8, Zenon
  <1>11. \A k \in 1..n : k > n - cap => \E i \in 1..Len(s) : s[i] = captured[k]
    <2> SUFFICES ASSUME NEW k \in 1..n, k > n - cap PROVE \E i \in 1..Len(s) : s[i] = captured[k]
      OBVIOUS
    <2> DEFINE i == (k - from) + 1
    <2>1. i \in 1..((n - from) + 1) /\ (from + i) - 1 = k
      BY <1>9
    <2> HIDE DEF i
    <2>2. s[i] = captured[k]
      BY <1>7, <2>1
    <2> QED BY <1>6, <2>1, <2>2
  <1> QED BY <1>5, <1>10, <1>11, Zenon DEF s, n, cap

LEMMA CellsWithin ==
  ASSUME NEW r, NEW x
  PROVE  x \in CellsOf(r) <=> x \in Cells /\ Within(x, r)
  BY DEF CellsOf, Span, Within

LEMMA InitAsked ==
  Init => AskedInv
  <1> SUFFICES ASSUME Init PROVE AskedInv
    OBVIOUS
  <1>1. captured = <<>> /\ asks = <<>> /\ rc.pc = "idle"
    BY DEF Init, Idle
  <1>2. \A k \in 1..Len(captured) : FALSE
    BY <1>1
  <1>3. asks \in Seq(CaptureRange)
    BY <1>1
  <1> QED BY <1>1, <1>2, <1>3 DEF AskedInv

LEMMA TakeEventAsked ==
  ASSUME JournalInv, RangesInv, AskedInv, TakeEvent
  PROVE  AskedInv'
  <1> DEFINE ev == Head(events)
             c == [seq |-> ev.seq, start |-> ev.off, end |-> ev.off + ev.len]
             n == Len(captured)
             cap == JournalCapacity
  <1>1. /\ asks = <<>> /\ events # <<>> /\ UNCHANGED <<snapshot, asked>>
        /\ rc'.pc \in {"idle", "observe"}
    BY DEF TakeEvent, Idle
  <1>2. ev \in ObservedWrite /\ captured \in Seq(CaptureRange) /\ n \in Nat /\ cap \in Nat \ {0}
    BY <1>1, Capacity DEF JournalInv, JournalType
  <1>3. c \in CaptureRange
    BY <1>2 DEF ObservedWrite, CaptureRange
  <1>4. \A k \in 1..n : k > n - cap =>
          \A cell \in CellsOf(captured[k]) \cap Cover(snapshot.data) : <<captured[k].seq, cell>> \in asked
    <2>1. \A i \in 1..Len(asks) : FALSE
      BY <1>1
    <2> QED BY <2>1 DEF AskedInv, Due
  <1>5. CASE ~ev.captured
    <2>1. UNCHANGED <<captured, asks>>
      BY <1>5 DEF TakeEvent
    <2>2. \A k \in 1..n : k > n - cap =>
            \A cell \in CellsOf(captured[k]) \cap Cover(snapshot.data) :
               Due(asked', asks', captured[k].seq, cell)
      BY <1>1, <1>4 DEF Due
    <2>3. asks' \in Seq(CaptureRange)
      BY <1>1, <2>1
    <2> QED BY <1>1, <2>1, <2>2, <2>3 DEF AskedInv
  <1>6. CASE ev.captured
    <2> HIDE DEF c
    <2>1. captured' = Append(captured, c) /\ asks' = Matches(<<c>>, snapshot.data)
      BY <1>6 DEF TakeEvent, c
    <2>2. /\ Len(captured') = n + 1 /\ captured'[n + 1] = c /\ \A k \in 1..n : captured'[k] = captured[k]
      BY <1>2, <1>3, <2>1
    <2>3. <<c>> \in Seq(CaptureRange) /\ Len(<<c>>) = 1 /\ <<c>>[1] = c /\ 1 \in 1..1
      BY <1>3
    <2>4. snapshot.data \in Seq(ByteRange)
      BY DEF RangesInv, TrackerType
    <2> DEFINE one == <<c>>
    <2> HIDE DEF one
    <2>5. /\ asks' \in Seq(CaptureRange)
          /\ \A i \in 1..Len(one) : \A x \in Int :
                Within(x, one[i]) /\ Covers(snapshot.data, Len(snapshot.data), x)
                => Asks(asks', one[i].seq, x)
      <3>1. one \in Seq(CaptureRange) /\ asks' = Matches(one, snapshot.data)
        BY <2>1, <2>3 DEF one
      <3> QED BY <2>4, <3>1, MatchesFacts
    <2>6. \A x \in Int : Within(x, c) /\ Covers(snapshot.data, Len(snapshot.data), x)
                         => Asks(asks', c.seq, x)
      <3>1. Len(one) = 1 /\ one[1] = c /\ 1 \in 1..Len(one)
        BY <2>3 DEF one
      <3> QED BY <2>5, <3>1, Zenon
    <2>7. ASSUME NEW cell \in CellsOf(c) \cap Cover(snapshot.data) PROVE Due(asked', asks', c.seq, cell)
      <3>1. cell \in Cells /\ Within(cell, c) /\ cell \in Int
        BY CellsWithin DEF Cells
      <3>2. Covers(snapshot.data, Len(snapshot.data), cell)
        BY <2>4, <3>1, CoverOf
      <3>3. Asks(asks', c.seq, cell)
        BY <2>6, <3>1, <3>2
      <3> QED BY <3>3 DEF Asks, Due
    <2>8. ASSUME NEW k \in 1..(n + 1), k > n + 1 - cap,
                 NEW cell \in CellsOf(captured'[k]) \cap Cover(snapshot.data)
          PROVE  Due(asked', asks', captured'[k].seq, cell)
      <3>1. CASE k = n + 1
        BY <2>2, <2>7, <3>1
      <3>2. CASE k # n + 1
        <4>1. k \in 1..n /\ k > n - cap
          BY <1>2, <2>8, <3>2
        <4>2. captured'[k] = captured[k]
          BY <2>2, <4>1
        <4>3. <<captured[k].seq, cell>> \in asked
          BY <1>4, <2>8, <4>1, <4>2
        <4> QED BY <1>1, <4>2, <4>3 DEF Due
      <3> QED BY <3>1, <3>2
    <2>9. ASSUME NEW k \in 1..Len(captured'), k > Len(captured') - cap,
                 NEW cell \in CellsOf(captured'[k]) \cap Cover(snapshot'.data)
          PROVE  Due(asked', asks', captured'[k].seq, cell)
      <3>1. k \in 1..(n + 1) /\ k > n + 1 - cap
        <4> DEFINE len == Len(captured')
        <4>1. len = n + 1 /\ k \in 1..len /\ k > len - cap
          BY <2>2, <2>9
        <4> HIDE DEF len
        <4> QED BY <1>2, <4>1
      <3>2. cell \in CellsOf(captured'[k]) \cap Cover(snapshot.data)
        BY <1>1, <2>9
      <3> QED BY <2>8, <3>1, <3>2
    <2>10. rc'.pc # "scan"
      BY <1>1
    <2> QED BY <2>5, <2>9, <2>10, Zenon DEF AskedInv, cap
  <1> QED BY <1>5, <1>6

LEMMA SubmitPunchAsked ==
  ASSUME JournalInv, RangesInv, AskedInv, SubmitPunch
  PROVE  AskedInv'
  <1>1. /\ asks # <<>> /\ asks' = Tail(asks) /\ UNCHANGED <<snapshot, captured, rc>>
        /\ asked' = asked \cup {<<Head(asks).seq, c>> : c \in CellsOf(Head(asks))}
    BY DEF SubmitPunch
  <1>2. asks \in Seq(CaptureRange) /\ rc.pc # "scan"
    BY <1>1 DEF AskedInv
  <1>3. /\ asks' \in Seq(CaptureRange) /\ Head(asks) = asks[1]
        /\ \A i \in 1..Len(asks) : i # 1 => i - 1 \in 1..Len(asks') /\ asks'[i - 1] = asks[i]
    BY <1>1, <1>2
  <1>4. ASSUME NEW m, NEW x \in Cells, Due(asked, asks, m, x) PROVE Due(asked', asks', m, x)
    <2>1. CASE <<m, x>> \in asked
      BY <1>1, <2>1 DEF Due
    <2>2. ASSUME NEW i \in 1..Len(asks), asks[i].seq = m, Within(x, asks[i]) PROVE Due(asked', asks', m, x)
      <3>1. CASE i = 1
        <4>1. x \in CellsOf(Head(asks)) /\ Head(asks).seq = m
          BY <1>3, <2>2, <3>1, CellsWithin
        <4>2. <<m, x>> \in asked'
          BY <1>1, <4>1
        <4> QED BY <4>2 DEF Due
      <3>2. CASE i # 1
        BY <1>3, <2>2, <3>2 DEF Due
      <3> QED BY <3>1, <3>2
    <2> QED BY <1>4, <2>1, <2>2 DEF Due
  <1>5. \A k, x : x \in CellsOf(captured[k]) => x \in Cells
    BY CellsWithin
  <1>6. ASSUME NEW k \in 1..Len(captured), k > Len(captured) - JournalCapacity,
               NEW cell \in CellsOf(captured[k]) \cap Cover(snapshot.data)
        PROVE  Due(asked', asks', captured[k].seq, cell)
    BY <1>4, <1>5, <1>6 DEF AskedInv
  <1> QED BY <1>1, <1>2, <1>3, <1>6 DEF AskedInv

LEMMA PublishAsked ==
  ASSUME JournalInv, RangesInv, RangesInv', AskedInv, PublishSnapshots
  PROVE  AskedInv'
  <1> DEFINE n == Len(captured)
             cap == JournalCapacity
             new == dataRanges'
             old == rc.old
             s == Remembered
             diff == subtractRanges(new, old)
  <1>1. /\ rc.pc = "scan" /\ snapshot'.data = new /\ asks' = Matches(s, diff) /\ rc'.pc = "idle"
        /\ UNCHANGED <<captured, asked>>
    BY DEF PublishSnapshots, Idle
  <1>2. asks = <<>> /\ old = snapshot.data
    BY <1>1 DEF AskedInv
  <1>3. old \in Seq(ByteRange) /\ new \in Seq(ByteRange)
    BY <1>1, <1>2 DEF RangesInv, TrackerType
  <1>4. /\ s \in Seq(CaptureRange)
        /\ \A k \in 1..n : k > n - cap => \E i \in 1..Len(s) : s[i] = captured[k]
    BY RememberedLatest
  <1> HIDE DEF new, s
  <1>5. /\ diff \in Seq(ByteRange)
        /\ \A x \in Int : Covers(new, Len(new), x) /\ ~Covers(old, Len(old), x)
                         => Covers(diff, Len(diff), x)
    BY <1>3, SubtractFacts
  <1> HIDE DEF diff
  <1>6. /\ asks' \in Seq(CaptureRange)
        /\ \A i \in 1..Len(s) : \A x \in Int :
              Within(x, s[i]) /\ Covers(diff, Len(diff), x) => Asks(asks', s[i].seq, x)
    BY <1>1, <1>4, <1>5, MatchesFacts
  <1>7. ASSUME NEW k \in 1..n, k > n - cap, NEW cell \in CellsOf(captured[k]) \cap Cover(new)
        PROVE  Due(asked', asks', captured[k].seq, cell)
    <2>1. cell \in Cells /\ cell \in Int /\ Within(cell, captured[k]) /\ Covers(new, Len(new), cell)
      BY <1>3, <1>7, CellsWithin, CoverOf DEF Cells
    <2>2. CASE cell \in Cover(snapshot.data)
      <3>1. Due(asked, asks, captured[k].seq, cell)
        BY <1>7, <2>2 DEF AskedInv
      <3>2. <<captured[k].seq, cell>> \in asked
        <4>1. \A i \in 1..Len(asks) : FALSE
          BY <1>2
        <4> QED BY <3>1, <4>1 DEF Due
      <3> QED BY <1>1, <3>2 DEF Due
    <2>3. CASE cell \notin Cover(snapshot.data)
      <3>1. ~Covers(old, Len(old), cell)
        BY <1>2, <1>3, <2>1, <2>3, CoverOf
      <3>2. Covers(diff, Len(diff), cell)
        BY <1>5, <2>1, <3>1
      <3>3. PICK i \in 1..Len(s) : s[i] = captured[k]
        BY <1>4, <1>7
      <3>4. Asks(asks', captured[k].seq, cell)
        BY <1>6, <2>1, <3>2, <3>3
      <3> QED BY <3>4 DEF Asks, Due
    <2> QED BY <2>2, <2>3
  <1> QED BY <1>1, <1>6, <1>7 DEF AskedInv

LEMMA StepAsked ==
  ASSUME JournalInv, RangesInv, RangesInv', AskedInv, [Next]_vars
  PROVE  AskedInv'
  <1>1. ASSUME UNCHANGED <<snapshot, asks, captured, asked>>,
               rc'.pc = "scan" => asks = <<>> /\ rc'.old = snapshot.data
        PROVE  AskedInv'
    BY <1>1 DEF AskedInv, Due
  <1>2. ASSUME UNCHANGED <<snapshot, asks, captured, asked, rc>> PROVE AskedInv'
    BY <1>1, <1>2 DEF AskedInv
  <1>3. ASSUME NEW w \in HostWrites, StageWrite(w) PROVE AskedInv'
    BY <1>2, <1>3 DEF StageWrite
  <1>4. CASE SubmitWrite
    BY <1>2, <1>4 DEF SubmitWrite
  <1>5. CASE TakeEvent
    BY <1>5, TakeEventAsked
  <1>6. CASE SubmitPunch
    BY <1>6, SubmitPunchAsked
  <1>7. CASE TakePunch
    BY <1>2, <1>7 DEF TakePunch
  <1>8. CASE ObserveMFTWrite
    <2>1. /\ rc.pc = "observe" /\ asks = <<>> /\ rc'.old = dataRanges
          /\ UNCHANGED <<snapshot, asks, captured, asked>>
      BY <1>8, ObserveCases
    <2>2. dataRanges = snapshot.data
      BY <2>1 DEF RangesInv
    <2> QED BY <1>1, <2>1, <2>2
  <1>9. CASE ScanRecord
    <2>1. /\ rc.pc = "scan" /\ rc'.old = rc.old
          /\ UNCHANGED <<snapshot, asks, captured, asked>>
      BY <1>9 DEF ScanRecord
    <2> QED BY <1>1, <2>1 DEF AskedInv
  <1>10. CASE RefreshRecord
    <2>1. /\ rc.pc = "scan" /\ rc'.old = rc.old
          /\ UNCHANGED <<snapshot, asks, captured, asked>>
      BY <1>10 DEF RefreshRecord
    <2> QED BY <1>1, <2>1 DEF AskedInv
  <1>11. CASE PublishSnapshots
    BY <1>11, PublishAsked
  <1>12. CASE UNCHANGED vars
    BY <1>2, <1>12 DEF vars
  <1> QED BY <1>3, <1>4, <1>5, <1>6, <1>7, <1>8, <1>9, <1>10, <1>11, <1>12 DEF Next

LEMMA AskedInductive == Spec => []AskedInv
  <1>1. JournalInv /\ RangesInv /\ RangesInv' /\ AskedInv /\ [Next]_vars => AskedInv'
    BY StepAsked
  <1> QED BY InitAsked, <1>1, JournalInductive, RangesInductive, PTL DEF Spec

\* Whichever came first, the capture or the record that makes its cells file data: once
\* the reconciler is idle, a punch was asked for every one of them.
THEOREM NoCaptureMissed == Spec => []CapturesAsked
  <1>1. JournalInv /\ RangesInv /\ AskedInv => CapturesAsked
    <2> SUFFICES ASSUME JournalInv, RangesInv, AskedInv, rc.pc = "idle", asks = <<>>,
                        NEW i \in DOMAIN Remembered,
                        NEW cell \in CellsOf(Remembered[i]) \cap Cover(dataRanges)
                 PROVE  <<Remembered[i].seq, cell>> \in asked
      BY DEF CapturesAsked
    <2>1. snapshot.data = dataRanges
      BY DEF RangesInv
    <2>2. i \in 1..Len(Remembered)
      BY RememberedLatest
    <2>3. PICK k \in 1..Len(captured) : k > Len(captured) - JournalCapacity /\ Remembered[i] = captured[k]
      BY <2>2, RememberedLatest
    <2>4. Due(asked, asks, captured[k].seq, cell)
      BY <2>1, <2>3 DEF AskedInv
    <2>5. \A j \in 1..Len(asks) : FALSE
      OBVIOUS
    <2> QED BY <2>3, <2>4, <2>5 DEF Due
  <1> QED BY <1>1, JournalInductive, RangesInductive, AskedInductive, PTL

-----------------------------------------------------------------------------
(***************************************************************************)
(* Run lists: the records that a write maps to.                            *)
(***************************************************************************)

\* The first cluster of each run.
VCNLoop(runs) == Loop(AddRun, 0, runs)

LEMMA AddRunType ==
  ASSUME NEW vcn \in Nat, NEW run \in NTFSRun
  PROVE  AddRun(vcn, run) \in Nat
  BY DEF AddRun, NTFSRun

LEMMA VCNRounds ==
  ASSUME NEW runs \in Seq(NTFSRun)
  PROVE  /\ VCNLoop(runs)[0] = 0
         /\ \A i \in 1..Len(runs) :
               VCNLoop(runs)[i] = AddRun(VCNLoop(runs)[i - 1], runs[i])
  <1> DEFINE s == runs
             n == Len(s)
             f == VCNLoop(runs)
             S == Nat
             b == 0
             st == [i \in 1..n |-> [x \in S |-> AddRun(x, s[i])]]
  <1>1. n \in Nat /\ \A i \in 1..n : s[i] \in NTFSRun
    OBVIOUS
  <1>0. b \in S
    OBVIOUS
  <1>2. \A i \in 1..n : i - 1 \in 0..n /\ i \in 0..n
    BY <1>1
  <1>3. \A i \in 1..n : \A x \in S : AddRun(x, s[i]) \in S
    BY <1>1, AddRunType
  <1> HIDE DEF S, n, b
  <1>4. st \in [1..n -> [S -> S]]
    BY <1>3
  <1>5. \A i \in 1..n : \A x \in S : st[i][x] = AddRun(x, s[i])
    OBVIOUS
  <1> HIDE DEF st
  <1>6. PICK h : h \in Rounds(n, S, b, st)
    BY <1>0, <1>1, <1>4, LoopExists DEF Bodies
  <1>7. h \in [0..n -> S] /\ h[0] = b /\ \A i \in 1..n : h[i] = st[i][h[i - 1]]
    BY <1>6 DEF Rounds
  <1>8. h = [i \in 0..n |-> IF i = 0 THEN b ELSE AddRun(h[i - 1], s[i])]
    <2>1. \A i \in 1..n : h[i - 1] \in S
      BY <1>2, <1>7
    <2>2. \A i \in 1..n : h[i] = AddRun(h[i - 1], s[i])
      BY <1>5, <1>7, <2>1
    <2>3. \A i \in 0..n : i # 0 => i \in 1..n
      BY <1>1
    <2>4. \A i \in 0..n : h[i] = IF i = 0 THEN b ELSE AddRun(h[i - 1], s[i])
      BY <1>7, <2>2, <2>3, Zenon
    <2> QED BY <1>7, <2>4
  <1>9. f = [i \in 0..n |-> IF i = 0 THEN b ELSE AddRun(f[i - 1], s[i])]
    BY <1>8, Zenon DEF VCNLoop, Loop, n, b
  <1>10. 0 \in 0..n /\ \A i \in 1..n : i # 0
    BY <1>1
  <1> HIDE DEF f
  <1>11. f[0] = b /\ \A i \in 1..n : f[i] = AddRun(f[i - 1], s[i])
    BY <1>2, <1>9, <1>10, Zenon
  <1> QED BY <1>11 DEF b, n, f

LEMMA StartVCNType ==
  ASSUME NEW runs \in Seq(NTFSRun), NEW i \in 1..Len(runs)
  PROVE  StartVCN(runs, i) \in Nat
  <1> DEFINE f == VCNLoop(runs)
             n == Len(runs)
             T == {k \in 0..n : f[k] \in Nat}
  <1>1. n \in Nat /\ \A k \in 1..n : runs[k] \in NTFSRun
    OBVIOUS
  <1>2. f[0] = 0 /\ \A k \in 1..n : f[k] = AddRun(f[k - 1], runs[k])
    BY VCNRounds
  <1> HIDE DEF f, n
  <1>3. 0 \in T
    BY <1>1, <1>2
  <1>4. ASSUME NEW k \in 1..n, k - 1 \in T PROVE k \in T
    <2>1. f[k - 1] \in Nat /\ runs[k] \in NTFSRun /\ k \in 0..n
      BY <1>1, <1>4
    <2>2. AddRun(f[k - 1], runs[k]) \in Nat
      BY <2>1, AddRunType
    <2> QED BY <1>2, <2>1, <2>2
  <1>5. \A k \in 0..n : k \in T
    <2> HIDE DEF T
    <2> QED BY <1>1, <1>3, <1>4, LoopInduction
  <1>6. i - 1 \in 0..n
    BY <1>1 DEF n
  <1>7. f[i - 1] \in Nat
    BY <1>5, <1>6
  <1> QED BY <1>7, Zenon DEF StartVCN, VCNLoop, f

\* A write to the cell of a record touches the record: mftRecordIDsForPhysicalRange is
\* the inverse of readMFTLogical.
LEMMA WriteTouchesRecord ==
  ASSUME NEW runs \in Seq(NTFSRun), NEW id \in Int, NEW start \in Int, NEW end \in Int,
         NEW x \in Slots(runs, id), start <= x, x < end
  PROVE  id \in mftRecordIDs(runs, start, end)
  <1>1. DOMAIN runs = 1..Len(runs)
    OBVIOUS
  <1>2. PICK i \in DOMAIN runs :
           /\ runs[i].lcn >= 0 /\ id >= StartVCN(runs, i) /\ id < StartVCN(runs, i) + runs[i].len
           /\ x = runs[i].lcn + (id - StartVCN(runs, i))
    BY DEF Slots
  <1> DEFINE v == StartVCN(runs, i)
             run == runs[i]
             from == Larger(start, run.lcn)
             to == Smaller(end, run.lcn + run.len)
  <1>3. v \in Nat /\ run.lcn \in Int /\ run.len \in Int
    <2>1. i \in 1..Len(runs) /\ run \in NTFSRun
      BY <1>1
    <2>2. v \in Nat
      BY <2>1, StartVCNType
    <2>3. run.lcn \in Int /\ run.len \in Int
      <3> HIDE DEF run
      <3> QED BY <2>1 DEF NTFSRun, Cells
    <2> QED BY <2>2, <2>3
  <1>4. /\ run.lcn >= 0 /\ id >= v /\ id < v + run.len /\ x = run.lcn + (id - v)
    BY <1>2
  <1> HIDE DEF v, run
  <1>5. x \in from..(to - 1) /\ id = v + (x - run.lcn) /\ ~(run.lcn < 0)
    <2>1. x \in Int /\ run.lcn <= x /\ x < run.lcn + run.len /\ id = v + (x - run.lcn)
      <3> DEFINE l == run.lcn
                 k == run.len
      <3>1. /\ v \in Int /\ l \in Int /\ k \in Int /\ id \in Int
            /\ id >= v /\ id < v + k /\ x = l + (id - v)
        BY <1>3, <1>4
      <3> HIDE DEF l, k
      <3>2. x \in Int
        BY <3>1
      <3>3. l <= x /\ x < l + k
        BY <3>1
      <3>4. id = v + (x - l)
        BY <3>1
      <3> QED BY <3>2, <3>3, <3>4 DEF l, k
    <2>2. from \in Int /\ from <= x
      BY <1>3, <2>1 DEF Larger
    <2>3. to \in Int /\ x < to
      BY <1>3, <2>1 DEF Smaller
    <2> HIDE DEF from, to
    <2>4. x \in from..(to - 1)
      BY <2>1, <2>2, <2>3
    <2>5. ~(run.lcn < 0)
      BY <1>3, <1>4
    <2> QED BY <2>1, <2>4, <2>5, Zenon
  <1>6. id \in {v + (c - run.lcn) : c \in from..(to - 1)}
    BY <1>5
  <1>7. id \in IF run.lcn < 0 THEN {} ELSE {v + (c - run.lcn) : c \in from..(to - 1)}
    BY <1>5, <1>6
  <1> QED BY <1>7 DEF mftRecordIDs, v, run

\* buildMFTRanges, a round: how much of the MFT is left, and the ranges so far.
MFTStates == [remaining : Nat, out : Seq(NatRange)]
MFTLoop(runs, size) == Loop(MFTRange, [remaining |-> size, out |-> <<>>], runs)

LEMMA MFTRangeType ==
  ASSUME NEW s \in MFTStates, NEW run \in NTFSRun
  PROVE  /\ MFTRange(s, run) \in MFTStates
         /\ MFTRange(s, run).remaining = s.remaining - Smaller(run.len, s.remaining)
         /\ \A x : Covers(MFTRange(s, run).out, Len(MFTRange(s, run).out), x) <=>
               \/ Covers(s.out, Len(s.out), x)
               \/ /\ Smaller(run.len, s.remaining) > 0 /\ run.lcn >= 0
                  /\ run.lcn <= x /\ x < run.lcn + Smaller(run.len, s.remaining)
  <1> DEFINE n == Smaller(run.len, s.remaining)
             r == [start |-> run.lcn, end |-> run.lcn + n]
             add == n > 0 /\ run.lcn >= 0
             res == MFTRange(s, run)
  <1>1. run.lcn \in Int /\ run.len \in Nat /\ s.remaining \in Nat /\ s.out \in Seq(NatRange)
    BY SizeAssumption DEF NTFSRun, Cells, MFTStates
  <1>2. n \in Nat /\ s.remaining - n \in Nat
    BY <1>1 DEF Smaller
  <1>3. /\ res.remaining = s.remaining - n
        /\ res.out = IF add THEN Append(s.out, r) ELSE s.out
        /\ res = [remaining |-> res.remaining, out |-> res.out]
    BY DEF MFTRange
  <1>4. \A x : Within(x, r) <=> run.lcn <= x /\ x < run.lcn + n
    BY DEF Within
  <1>5. add => r \in NatRange
    <2> HIDE DEF n
    <2> QED BY <1>1, <1>2 DEF NatRange
  <1> HIDE DEF n, r, add, res
  <1>6. CASE add
    <2>1. /\ res.out \in Seq(NatRange)
          /\ \A x : Covers(res.out, Len(res.out), x) <=> Covers(s.out, Len(s.out), x) \/ Within(x, r)
      BY <1>1, <1>3, <1>5, <1>6, AppendCovers
    <2>2. res \in MFTStates
      BY <1>2, <1>3, <2>1 DEF MFTStates
    <2>3. n > 0 /\ run.lcn >= 0
      BY <1>6 DEF add
    <2> QED BY <1>3, <1>4, <2>1, <2>2, <2>3 DEF res, n
  <1>7. CASE ~add
    <2>1. res \in MFTStates
      BY <1>1, <1>2, <1>3, <1>7 DEF MFTStates
    <2>2. ~(n > 0 /\ run.lcn >= 0)
      BY <1>7 DEF add
    <2> QED BY <1>3, <1>7, <2>1, <2>2 DEF res, n
  <1> QED BY <1>6, <1>7

LEMMA MFTRounds ==
  ASSUME NEW runs \in Seq(NTFSRun), NEW size \in Nat
  PROVE  /\ MFTLoop(runs, size)[0] = [remaining |-> size, out |-> <<>>]
         /\ \A i \in 1..Len(runs) :
               MFTLoop(runs, size)[i] = MFTRange(MFTLoop(runs, size)[i - 1], runs[i])
  <1> DEFINE s == runs
             n == Len(s)
             f == MFTLoop(runs, size)
             S == MFTStates
             b == [remaining |-> size, out |-> <<>>]
             st == [i \in 1..n |-> [x \in S |-> MFTRange(x, s[i])]]
  <1>1. n \in Nat /\ \A i \in 1..n : s[i] \in NTFSRun
    OBVIOUS
  <1>0. b \in S
    BY DEF MFTStates
  <1>2. \A i \in 1..n : i - 1 \in 0..n /\ i \in 0..n
    BY <1>1
  <1>3. \A i \in 1..n : \A x \in S : MFTRange(x, s[i]) \in S
    BY <1>1, MFTRangeType
  <1> HIDE DEF S, n, b
  <1>4. st \in [1..n -> [S -> S]]
    BY <1>3
  <1>5. \A i \in 1..n : \A x \in S : st[i][x] = MFTRange(x, s[i])
    OBVIOUS
  <1> HIDE DEF st
  <1>6. PICK h : h \in Rounds(n, S, b, st)
    BY <1>0, <1>1, <1>4, LoopExists DEF Bodies
  <1>7. h \in [0..n -> S] /\ h[0] = b /\ \A i \in 1..n : h[i] = st[i][h[i - 1]]
    BY <1>6 DEF Rounds
  <1>8. h = [i \in 0..n |-> IF i = 0 THEN b ELSE MFTRange(h[i - 1], s[i])]
    <2>1. \A i \in 1..n : h[i - 1] \in S
      BY <1>2, <1>7
    <2>2. \A i \in 1..n : h[i] = MFTRange(h[i - 1], s[i])
      BY <1>5, <1>7, <2>1
    <2>3. \A i \in 0..n : i # 0 => i \in 1..n
      BY <1>1
    <2>4. \A i \in 0..n : h[i] = IF i = 0 THEN b ELSE MFTRange(h[i - 1], s[i])
      BY <1>7, <2>2, <2>3, Zenon
    <2> QED BY <1>7, <2>4
  <1>9. f = [i \in 0..n |-> IF i = 0 THEN b ELSE MFTRange(f[i - 1], s[i])]
    BY <1>8, Zenon DEF MFTLoop, Loop, n, b
  <1>10. 0 \in 0..n /\ \A i \in 1..n : i # 0
    BY <1>1
  <1> HIDE DEF f
  <1>11. f[0] = b /\ \A i \in 1..n : f[i] = MFTRange(f[i - 1], s[i])
    BY <1>2, <1>9, <1>10, Zenon
  <1> QED BY <1>11 DEF b, n, f

\* After k rounds: what is left of the MFT, and that the ranges cover the cells of the
\* records in the first k runs.
MFTInv(s, runs, size, k) ==
    LET vcn == VCNLoop(runs) IN
    /\ s \in MFTStates
    /\ s.remaining = IF vcn[k] < size THEN size - vcn[k] ELSE 0
    /\ \A i \in 1..k, id \in 0..(size - 1) :
          runs[i].lcn >= 0 /\ id >= vcn[i - 1] /\ id < vcn[i - 1] + runs[i].len =>
              Covers(s.out, Len(s.out), runs[i].lcn + (id - vcn[i - 1]))

LEMMA MFTStep ==
  ASSUME NEW runs \in Seq(NTFSRun), NEW size \in Nat, NEW k \in 1..Len(runs),
         NEW s, MFTInv(s, runs, size, k - 1)
  PROVE  MFTInv(MFTRange(s, runs[k]), runs, size, k)
  <1> DEFINE vcn == VCNLoop(runs)
             run == runs[k]
             res == MFTRange(s, run)
             n == Smaller(run.len, s.remaining)
             v == vcn[k - 1]
             l == run.len
             a == run.lcn
  <1>1. run \in NTFSRun /\ l \in Nat /\ a \in Int /\ k \in Nat
    <2>1. run \in NTFSRun /\ k \in Nat
      OBVIOUS
    <2> HIDE DEF run
    <2> QED BY <2>1, SizeAssumption DEF NTFSRun, Cells
  <1>2. v \in Nat
    BY StartVCNType, Zenon DEF StartVCN, VCNLoop
  <1>3. vcn[k] = v + l
    BY VCNRounds DEF AddRun
  <1>4. s \in MFTStates /\ s.remaining = IF v < size THEN size - v ELSE 0
    BY DEF MFTInv
  <1>5. /\ res \in MFTStates /\ res.remaining = s.remaining - n
        /\ \A x : Covers(res.out, Len(res.out), x) <=>
               \/ Covers(s.out, Len(s.out), x)
               \/ n > 0 /\ a >= 0 /\ a <= x /\ x < a + n
    BY <1>1, <1>4, MFTRangeType
  <1>6. n = IF l < s.remaining THEN l ELSE s.remaining
    BY DEF Smaller
  <1> HIDE DEF res, n, v, l, a
  <1>7. res.remaining = IF vcn[k] < size THEN size - vcn[k] ELSE 0
    BY <1>1, <1>2, <1>3, <1>4, <1>5, <1>6
  <1>8. ASSUME NEW id \in 0..(size - 1), a >= 0, id >= v, id < v + l
        PROVE  Covers(res.out, Len(res.out), a + (id - v))
    <2>1. n > 0 /\ id - v \in Nat /\ id - v < n /\ n \in Nat
      BY <1>1, <1>2, <1>4, <1>6, <1>8
    <2>2. a <= a + (id - v) /\ a + (id - v) < a + n
      BY <1>1, <2>1
    <2> QED BY <1>5, <1>8, <2>1, <2>2
  <1>9. ASSUME NEW i \in 1..k, NEW id \in 0..(size - 1),
               runs[i].lcn >= 0, id >= vcn[i - 1], id < vcn[i - 1] + runs[i].len
        PROVE  Covers(res.out, Len(res.out), runs[i].lcn + (id - vcn[i - 1]))
    <2>1. CASE i = k
      BY <1>8, <1>9, <2>1 DEF a, v, l, run
    <2>2. CASE i # k
      <3>1. i \in 1..(k - 1)
        BY <1>1, <2>2
      <3>2. Covers(s.out, Len(s.out), runs[i].lcn + (id - vcn[i - 1]))
        BY <1>9, <3>1 DEF MFTInv
      <3> QED BY <1>5, <3>2
    <2> QED BY <2>1, <2>2
  <1> QED BY <1>5, <1>7, <1>9 DEF MFTInv, res

\* buildMFTRanges covers the cell of every record, in ranges that are sorted and apart.
LEMMA MFTCovered ==
  ASSUME NEW runs \in Seq(NTFSRun), NEW size \in Nat
  PROVE  LET out == buildMFTRanges(runs, size)
         IN  /\ out \in Seq(NatRange) /\ Proper(out) /\ Apart(out)
             /\ \A id \in 0..(size - 1) : \A x \in Slots(runs, id) : Covers(out, Len(out), x)
  <1> DEFINE n == Len(runs)
             f == MFTLoop(runs, size)
             vcn == VCNLoop(runs)
             in == f[n].out
             out == buildMFTRanges(runs, size)
             T == {k \in 0..n : MFTInv(f[k], runs, size, k)}
  <1>1. n \in Nat
    OBVIOUS
  <1>2. out = coalesceByteRanges(in)
    BY Zenon DEF buildMFTRanges, After, MFTLoop
  <1>3. f[0] = [remaining |-> size, out |-> <<>>] /\ \A i \in 1..n : f[i] = MFTRange(f[i - 1], runs[i])
    BY MFTRounds
  <1> HIDE DEF f, out
  <1>4. MFTInv(f[0], runs, size, 0)
    <2>1. vcn[0] = 0
      BY VCNRounds
    <2>2. /\ f[0] \in MFTStates /\ f[0].remaining = size
      BY <1>3 DEF MFTStates
    <2> HIDE DEF vcn
    <2>3. f[0].remaining = IF vcn[0] < size THEN size - vcn[0] ELSE 0
      BY <2>1, <2>2
    <2> QED BY <2>2, <2>3 DEF MFTInv, vcn
  <1>5. ASSUME NEW i \in 1..n, i - 1 \in T PROVE i \in T
    <2>1. MFTInv(f[i - 1], runs, size, i - 1)
      BY <1>5
    <2>2. MFTInv(MFTRange(f[i - 1], runs[i]), runs, size, i)
      BY <2>1, MFTStep
    <2> QED BY <1>1, <1>3, <2>2
  <1>6. 0 \in T
    BY <1>1, <1>4
  <1>7. \A i \in 0..n : i \in T
    <2> HIDE DEF T, n
    <2> QED BY <1>1, <1>5, <1>6, LoopInduction
  <1>8. MFTInv(f[n], runs, size, n)
    BY <1>1, <1>7
  <1>9. in \in Seq(NatRange)
    BY <1>8 DEF MFTInv, MFTStates
  <1>10. /\ out \in Seq(NatRange) /\ Proper(out) /\ Apart(out)
         /\ \A c \in Int : Covers(out, Len(out), c) <=> Covers(in, Len(in), c)
    BY <1>2, <1>9, CoalesceRanges
  <1>11. ASSUME NEW id \in 0..(size - 1), NEW x \in Slots(runs, id)
         PROVE  Covers(out, Len(out), x)
    <2>1. PICK i \in 1..n :
             /\ runs[i].lcn >= 0 /\ id >= StartVCN(runs, i) /\ id < StartVCN(runs, i) + runs[i].len
             /\ x = runs[i].lcn + (id - StartVCN(runs, i))
      BY DEF Slots
    <2>2. StartVCN(runs, i) = vcn[i - 1]
      BY Zenon DEF StartVCN, VCNLoop
    <2>3. x \in Int
      BY DEF Slots, Cells
    <2> HIDE DEF in, vcn
    <2>4. Covers(in, Len(in), x)
      BY <1>8, <2>1, <2>2 DEF MFTInv, in, vcn
    <2> QED BY <1>10, <2>3, <2>4
  <1> QED BY <1>10, <1>11 DEF out

\* rangesOverlapSnapshot finds a range that meets [start, end): the first that ends
\* behind start begins no later than any other.
LEMMA OverlapFound ==
  ASSUME NEW s \in Seq(NatRange), Proper(s), Apart(s),
         NEW start \in Int, NEW end \in Int, NEW x \in Int, start <= x, x < end,
         Covers(s, Len(s), x)
  PROVE  rangesOverlapSnapshot(s, start, end)
  <1> DEFINE after == {i \in DOMAIN s : s[i].end > start}
             m == Min(after)
  <1>1. DOMAIN s = 1..Len(s) /\ Len(s) \in Nat /\ \A i \in 1..Len(s) : s[i] \in NatRange
    OBVIOUS
  <1>2. \A i \in 1..Len(s) : s[i].start \in Int /\ s[i].end \in Int
    BY <1>1, NatRangeFields
  <1>3. PICK k \in 1..Len(s) : s[k].start <= x /\ x < s[k].end
    BY DEF Covers, Within
  <1>4. k \in after
    BY <1>1, <1>2, <1>3
  <1>5. after \subseteq Nat
    BY <1>1
  <1>6. m \in after /\ m <= k
    <2> HIDE DEF after
    <2> QED BY <1>4, <1>5, LeastOf
  <1>7. m \in 1..Len(s) /\ k \in Int
    BY <1>1, <1>6
  <1> HIDE DEF m
  <1>8. s[m].start <= s[k].start
    <2>1. CASE m = k
      BY <1>2, <2>1
    <2>2. CASE m < k
      <3>1. s[m].end < s[k].start /\ s[m].start < s[m].end
        BY <1>7, <2>2 DEF Apart, Proper
      <3> QED BY <1>2, <1>7, <3>1
    <2> QED BY <1>6, <1>7, <2>1, <2>2
  <1>9. s[m].start < end
    BY <1>2, <1>3, <1>7, <1>8
  <1>10. start < end
    OBVIOUS
  <1> QED BY <1>4, <1>9, <1>10 DEF rangesOverlapSnapshot, m

-----------------------------------------------------------------------------
(***************************************************************************)
(* The tracker keeps up with the host.                                     *)
(***************************************************************************)

\* The tracker still knows record id as before.
Kept(id) ==
    /\ id \in DOMAIN records' <=> id \in DOMAIN records
    /\ id \in DOMAIN records => records'[id] = records[id]

\* What a read changes: nothing about other records; its own record is known as the disk
\* has it, or torn.
LEMMA ReadOne ==
  ASSUME NEW id, NEW content, ReadRecord(id, content), records' = Refreshed(id, content)
  PROVE  /\ \A i : i # id => /\ Kept(i)
                             /\ i \in blind' <=> i \in blind
                             /\ i \in torn' <=> i \in torn
         /\ id \notin torn' => content = disk[Slot(id)]
         /\ content.ok => IF content.inUse
                          THEN id \in DOMAIN records' /\ records'[id] = RecordOf(content, id)
                          ELSE id \notin DOMAIN records'
  <1> DEFINE others == [i \in DOMAIN records \ {id} |-> records[i]]
             rec == RecordOf(content, id)
  <1>1. \A i : i # id => (i \in blind' <=> i \in blind) /\ (i \in torn' <=> i \in torn)
    BY DEF ReadRecord
  <1>2. id \notin torn' => content = disk[Slot(id)]
    BY DEF ReadRecord
  <1>3. CASE ~content.ok
    <2>1. records' = records
      BY <1>3 DEF Refreshed
    <2> QED BY <1>1, <1>2, <1>3, <2>1 DEF Kept
  <1>4. CASE content.ok /\ ~content.inUse
    <2>1. records' = others
      BY <1>4 DEF Refreshed
    <2>2. \A i : i # id => Kept(i)
      BY <2>1 DEF Kept
    <2>3. id \notin DOMAIN records'
      BY <2>1
    <2> QED BY <1>1, <1>2, <1>4, <2>2, <2>3
  <1>5. CASE content.ok /\ content.inUse
    <2>1. records' = [i \in DOMAIN others \cup {id} |-> IF i = id THEN rec ELSE others[i]]
      BY <1>5 DEF Refreshed
    <2> HIDE DEF rec
    <2>2. records' = [i \in DOMAIN records \cup {id} |-> IF i = id THEN rec ELSE records[i]]
      BY <2>1
    <2>3. \A i : i # id => Kept(i)
      BY <2>2 DEF Kept
    <2>4. id \in DOMAIN records' /\ records'[id] = rec
      BY <2>2
    <2> QED BY <1>1, <1>2, <1>5, <2>3, <2>4 DEF rec
  <1> QED BY <1>3, <1>4, <1>5

LEMMA InitCurrent ==
  Init => CurrentInv
  <1> SUFFICES ASSUME Init PROVE CurrentInv
    OBVIOUS
  <1>1. /\ disk \in Disks /\ rc.pc = "idle"
        /\ layout = [runs |-> disk[0].runs, size |-> disk[0].real]
        /\ layout.runs = disk[0].runs /\ layout.size = disk[0].real
        /\ records = ScannedRecords(disk) /\ unread = {id \in {0} : Slots(layout.runs, id) # {0}}
    BY DEF Init, Idle
  <1>2. ASSUME NEW id \in 0..(layout.size - 1), Followed(id) PROVE KnownAs(id, disk[Slot(id)])
    <2>1. disk[Slot(id)].ok /\ id \notin unread
      BY <1>2 DEF Followed
    <2>2. CASE id = 0
      <3>1. Slots(layout.runs, 0) = {0}
        BY <1>1, <2>1, <2>2
      <3>2. Slots(layout.runs, 0) # {}
        BY <3>1
      <3>3. Slot(0) = 0
        BY <3>1, <3>2, SlotFacts DEF Slot
      <3> QED BY <1>1, <2>2, <3>3 DEF KnownAs
    <2>3. CASE id # 0
      <3> DEFINE content == disk[Slot(id)]
                 At(i) == disk[Min(Slots(layout.runs, i))]
                 In == {i \in 0..(layout.size - 1) : At(i).ok /\ At(i).inUse}
      <3>1. records = [i \in In |-> RecordOf(At(i), i)]
        BY <1>1 DEF ScannedRecords
      <3>2. content = At(id)
        BY DEF Slot
      <3>3. id \in In <=> content.inUse
        BY <2>1, <3>2
      <3> HIDE DEF In, content, At
      <3>4. IF content.inUse THEN id \in DOMAIN records /\ records[id] = RecordOf(content, id)
            ELSE id \notin DOMAIN records
        BY <3>1, <3>2, <3>3
      <3> QED BY <2>3, <3>4 DEF KnownAs, content
    <2> QED BY <2>2, <2>3
  <1> QED BY <1>1, <1>2 DEF CurrentInv

LEMMA StageWriteCurrent ==
  ASSUME JournalInv, TrackerType, CurrentInv, NEW w \in HostWrites, StageWrite(w)
  PROVE  CurrentInv'
  <1>1. /\ write = NoWrite /\ write'.off = w.off /\ write'.len = Len(w.data)
        /\ UNCHANGED <<layout, records, events, rc, blind, unread, torn>>
    BY DEF StageWrite, tracker
  <1>2. disk' = [c \in Cells |-> IF c \in w.off..(w.off + Len(w.data) - 1)
                                 THEN w.data[c - w.off + 1] ELSE disk[c]]
    BY DEF StageWrite
  <1>3. w.off \in Nat /\ Len(w.data) \in Nat
    BY ReconcileAssumption DEF Cells
  <1>4. \A x : x \notin CellsOf(RangeOf(write))
    BY <1>1 DEF NoWrite, RangeOf, CellsOf, Span, Cells
  <1>5. ASSUME NEW id \in 0..(layout.size - 1), Followed(id)'
        PROVE  (KnownAs(id, disk[Slot(id)]) \/ Awaited(id))'
    <2> DEFINE x == Slot(id)
    <2>1. Slot(id)' = x /\ Mapped(id)
      BY <1>1, <1>5 DEF Slot, Followed, Mapped
    <2>2. x \in Cells
      BY <2>1, SlotFacts DEF Slot, Mapped
    <2>3. CASE x \in CellsOf(RangeOf(write'))
      <3>1. CellsOf(RangeOf(write')) = CellsOf(RangeOf(write))'
        OBVIOUS
      <3>2. Awaited(id)'
        BY <2>1, <2>3 DEF Awaited
      <3> QED BY <3>2
    <2>4. CASE x \notin CellsOf(RangeOf(write'))
      <3>1. x \notin w.off..(w.off + Len(w.data) - 1)
        BY <1>1, <1>3, <2>2, <2>4 DEF RangeOf, CellsOf, Span, Cells
      <3>2. disk'[x] = disk[x]
        BY <1>2, <2>2, <3>1
      <3>3. Followed(id)
        BY <1>1, <1>5, <2>1, <3>2 DEF Followed
      <3>4. KnownAs(id, disk[x]) \/ Awaited(id)
        BY <3>3 DEF CurrentInv
      <3>5. ASSUME KnownAs(id, disk[x]) PROVE KnownAs(id, disk[Slot(id)])'
        BY <1>1, <2>1, <3>2, <3>5 DEF KnownAs
      <3>6. ASSUME Awaited(id) PROVE Awaited(id)'
        BY <1>1, <1>4, <2>1, <3>6 DEF Awaited
      <3> QED BY <3>4, <3>5, <3>6
    <2> QED BY <2>3, <2>4
  <1> QED BY <1>1, <1>5 DEF CurrentInv

\* A step that leaves the disk, the layout and the records alone, and after which a
\* record that was waited for still is, or is excused.
LEMMA CarryCurrent ==
  ASSUME CurrentInv, UNCHANGED <<disk, layout, records>>,
         rc'.pc = "observe" => rc'.ev \in ObservedWrite,
         \A id \in 0..(layout.size - 1) :
            Followed(id)' => Awaited(id)' \/ (Followed(id) /\ ~Awaited(id))
  PROVE  CurrentInv'
  <1>1. ASSUME NEW id \in 0..(layout.size - 1), Followed(id)'
        PROVE  (KnownAs(id, disk[Slot(id)]) \/ Awaited(id))'
    <2>1. CASE Awaited(id)'
      BY <2>1
    <2>2. CASE Followed(id) /\ ~Awaited(id)
      <3>1. KnownAs(id, disk[Slot(id)])
        BY <2>2 DEF CurrentInv
      <3>2. KnownAs(id, disk[Slot(id)])'
        BY <3>1 DEF KnownAs, Slot
      <3> QED BY <3>2
    <2> QED BY <1>1, <2>1, <2>2
  <1> QED BY <1>1 DEF CurrentInv

\* A write to the cell of a record touches the MFT, once the layout is published.
LEMMA WriteTouchesMFT ==
  ASSUME JournalInv, RangesInv, rc.pc # "scan",
         NEW id \in 0..(layout.size - 1), Mapped(id), Slot(id) \in CellsOf(RangeOf(write))
  PROVE  TouchesMFT(write)
  <1> DEFINE mft == buildMFTRanges(layout.runs, layout.size)
             x == Slot(id)
  <1>1. layout.runs \in Seq(NTFSRun) /\ layout.size \in Nat /\ snapshot.mft = mft
    BY DEF RangesInv, TrackerType
  <1>2. x \in Slots(layout.runs, id)
    BY SlotFacts DEF Mapped, Slot
  <1>3. mft \in Seq(NatRange) /\ Proper(mft) /\ Apart(mft) /\ Covers(mft, Len(mft), x)
    BY <1>1, <1>2, MFTCovered
  <1>4. write.off \in Int /\ write.len \in Int
    BY DEF JournalInv, JournalType, ObservedWrite
  <1>5. x \in Int /\ write.off <= x /\ x < write.off + write.len
    BY DEF CellsOf, Span, RangeOf, Cells
  <1> HIDE DEF mft, x
  <1>6. rangesOverlapSnapshot(mft, write.off, write.off + write.len)
    BY <1>3, <1>4, <1>5, OverlapFound
  <1> QED BY <1>1, <1>6 DEF TouchesMFT

LEMMA SubmitWriteCurrent ==
  ASSUME JournalInv, RangesInv, CurrentInv, SubmitWrite
  PROVE  CurrentInv'
  <1> DEFINE touches == TouchesMFT(write)
             cells == CellsOf(RangeOf(write))
             written == {id \in 0..(layout.size - 1) : Mapped(id) /\ Slot(id) \in cells}
             ev == [off |-> write.off, len |-> write.len, captured |-> write.captured,
                    seq |-> seq + 1, touches |-> touches]
  <1>1. /\ UNCHANGED <<disk, layout, records, rc, unread, torn>>
        /\ events' = Append(events, ev)
        /\ blind' = IF touches THEN blind \ written
                    ELSE IF rc.pc = "scan" THEN blind \cup written ELSE blind
    BY DEF SubmitWrite, tracker
  <1>2. events \in Seq(ObservedWrite)
    BY DEF JournalInv, JournalType
  <1>3. ev.touches = touches /\ CellsOf(RangeOf(ev)) = cells
    BY DEF RangeOf
  <1> HIDE DEF touches, cells, ev
  <1>4. /\ Len(events') = Len(events) + 1 /\ events'[Len(events) + 1] = ev
        /\ \A i \in 1..Len(events) : events'[i] = events[i]
    BY <1>1, <1>2
  <1>5. /\ Len(events) + 1 \in 1..Len(events') /\ \A i \in 1..Len(events) : i \in 1..Len(events')
    BY <1>2, <1>4
  <1>6. ASSUME NEW id \in 0..(layout.size - 1), Followed(id)'
        PROVE  Awaited(id)' \/ (Followed(id) /\ ~Awaited(id))
    <2>1. Slot(id)' = Slot(id) /\ Mapped(id) /\ id \notin blind'
      BY <1>1, <1>6 DEF Slot, Followed, Mapped
    <2>2. CASE Slot(id) \in cells
      <3>1. id \in written
        BY <2>1, <2>2
      <3>2. touches
        <4>1. CASE rc.pc = "scan"
          BY <1>1, <2>1, <3>1, <4>1
        <4>2. CASE rc.pc # "scan"
          BY <2>1, <2>2, <4>2, WriteTouchesMFT DEF touches, cells
        <4> QED BY <4>1, <4>2
      <3>3. Awaited(id)'
        <4>1. \E i \in 1..Len(events') : events'[i].touches /\ Slot(id) \in CellsOf(RangeOf(events'[i]))
          BY <1>3, <1>4, <1>5, <2>2, <3>2
        <4> QED BY <2>1, <4>1 DEF Awaited
      <3> QED BY <3>3
    <2>3. CASE Slot(id) \notin cells
      <3>1. id \notin blind
        BY <1>1, <2>1, <2>3
      <3>2. Followed(id)
        BY <1>1, <1>6, <2>1, <3>1 DEF Followed
      <3>3. ASSUME Awaited(id) PROVE Awaited(id)'
        <4>1. CASE \E i \in 1..Len(events) : events[i].touches /\ Slot(id) \in CellsOf(RangeOf(events[i]))
          <5>1. PICK i \in 1..Len(events) : events[i].touches /\ Slot(id) \in CellsOf(RangeOf(events[i]))
            BY <4>1
          <5>2. i \in 1..Len(events') /\ events'[i] = events[i]
            BY <1>4, <1>5
          <5>3. \E j \in 1..Len(events') : events'[j].touches /\ Slot(id) \in CellsOf(RangeOf(events'[j]))
            BY <5>1, <5>2
          <5> QED BY <2>1, <5>3 DEF Awaited
        <4>2. CASE ~\E i \in 1..Len(events) : events[i].touches /\ Slot(id) \in CellsOf(RangeOf(events[i]))
          <5>1. \/ rc.pc = "observe" /\ Slot(id) \in CellsOf(RangeOf(rc.ev))
                \/ rc.pc = "scan" /\ id # 0 /\ id \in rc.scan \cup rc.ids
            BY <2>3, <3>3, <4>2 DEF Awaited, cells
          <5> QED BY <1>1, <2>1, <5>1 DEF Awaited
        <4> QED BY <4>1, <4>2
      <3> QED BY <3>2, <3>3
    <2> QED BY <2>2, <2>3
  <1>7. rc'.pc = "observe" => rc'.ev \in ObservedWrite
    BY <1>1 DEF CurrentInv
  <1> QED BY <1>1, <1>6, <1>7, CarryCurrent

LEMMA TakeEventCurrent ==
  ASSUME JournalInv, TrackerType, CurrentInv, TakeEvent
  PROVE  CurrentInv'
  <1> DEFINE ev == Head(events)
  <1>1. /\ UNCHANGED <<disk, layout, records, write, blind, unread, torn>>
        /\ rc.pc = "idle" /\ events # <<>> /\ events' = Tail(events)
        /\ rc' = IF ev.touches THEN [Idle EXCEPT !.pc = "observe", !.ev = ev] ELSE Idle
    BY DEF TakeEvent, tracker, host
  <1>2. events \in Seq(ObservedWrite)
    BY DEF JournalInv, JournalType
  <1>3. ev \in ObservedWrite /\ ev = events[1]
    BY <1>1, <1>2
  <1>4. \A i \in 1..Len(events) : i # 1 => i - 1 \in 1..Len(events') /\ events'[i - 1] = events[i]
    BY <1>1, <1>2
  <1> HIDE DEF ev
  <1>5. /\ ev.touches => rc'.pc = "observe" /\ rc'.ev = ev
        /\ rc'.pc = "observe" => rc'.ev = ev
    BY <1>1 DEF Idle
  <1>6. ASSUME NEW id \in 0..(layout.size - 1), Followed(id)'
        PROVE  Awaited(id)' \/ (Followed(id) /\ ~Awaited(id))
    <2>1. Slot(id)' = Slot(id) /\ Followed(id)
      BY <1>1, <1>6 DEF Slot, Followed, Mapped
    <2>2. ASSUME Awaited(id) PROVE Awaited(id)'
      <3>1. CASE Slot(id) \in CellsOf(RangeOf(write))
        BY <1>1, <2>1, <3>1 DEF Awaited
      <3>2. ASSUME NEW i \in 1..Len(events), events[i].touches, Slot(id) \in CellsOf(RangeOf(events[i]))
            PROVE  Awaited(id)'
        <4>1. CASE i = 1
          <5>1. rc'.pc = "observe" /\ Slot(id) \in CellsOf(RangeOf(rc'.ev))
            BY <1>3, <1>5, <3>2, <4>1
          <5> QED BY <2>1, <5>1 DEF Awaited
        <4>2. CASE i # 1
          <5>1. \E j \in 1..Len(events') : events'[j].touches /\ Slot(id) \in CellsOf(RangeOf(events'[j]))
            BY <1>4, <3>2, <4>2
          <5> QED BY <2>1, <5>1 DEF Awaited
        <4> QED BY <4>1, <4>2
      <3> QED BY <1>1, <2>2, <3>1, <3>2 DEF Awaited
    <2> QED BY <2>1, <2>2
  <1>7. rc'.pc = "observe" => rc'.ev \in ObservedWrite
    BY <1>3, <1>5
  <1> QED BY <1>1, <1>6, <1>7, CarryCurrent

\* The records a write touches are found where the layout has them.
LEMMA ObservedIDs ==
  ASSUME TrackerType, NEW ev \in ObservedWrite, NEW id \in Int, Slots(layout.runs, id) # {},
         Slot(id) \in CellsOf(RangeOf(ev))
  PROVE  id \in mftRecordIDs(layout.runs, RangeOf(ev).start, RangeOf(ev).end)
  <1> DEFINE r == RangeOf(ev)
  <1>1. r.start \in Int /\ r.end \in Int
    BY DEF RangeOf, ObservedWrite
  <1>2. Slot(id) \in Slots(layout.runs, id) /\ Slot(id) \in Cells
    BY SlotFacts DEF Slot
  <1>3. r.start <= Slot(id) /\ Slot(id) < r.end
    BY DEF CellsOf, Span
  <1>4. layout.runs \in Seq(NTFSRun)
    BY DEF TrackerType
  <1> HIDE DEF r
  <1> QED BY <1>1, <1>2, <1>3, <1>4, WriteTouchesRecord DEF r

LEMMA ObserveCurrent ==
  ASSUME JournalInv, TrackerType, CurrentInv, ObserveMFTWrite
  PROVE  CurrentInv'
  <1> DEFINE r == RangeOf(rc.ev)
             ids == mftRecordIDs(layout.runs, r.start, r.end)
  <1>1. rc.pc = "observe" /\ rc'.pc = "scan" /\ UNCHANGED <<disk, write, events>>
    BY ObserveCases
  <1>2. rc.ev \in ObservedWrite /\ layout.size \in Nat
    BY <1>1 DEF CurrentInv, TrackerType
  <1>3. ASSUME NEW id \in 0..(layout.size - 1), Mapped(id), Slot(id) \in CellsOf(r) PROVE id \in ids
    BY <1>2, <1>3, ObservedIDs DEF Mapped
  <1>4. \/ /\ ~(0 \in ids /\ Mapped(0)) /\ rc'.ids = ids /\ rc'.scan = {}
           /\ UNCHANGED <<image, layout, records, blind, unread, torn>>
        \/ /\ 0 \in ids /\ Mapped(0)
           /\ \E content \in {disk[Slot(0)], image[Slot(0)]} :
              /\ ReadRecord(0, content) /\ records' = Refreshed(0, content)
              /\ layout' = IF content.ok /\ content.inUse /\ content.data
                           THEN [runs |-> content.runs, size |-> content.real] ELSE layout
              /\ unread' = Moved(layout') \ (IF Slots(layout'.runs, 0) = Slots(layout.runs, 0)
                                             THEN {0} ELSE {})
              /\ ids \subseteq rc'.ids /\ rc'.scan = NewTail(layout')
    BY ObserveCases, Zenon
  <1> HIDE DEF ids, r
  <1>5. CASE /\ ~(0 \in ids /\ Mapped(0)) /\ rc'.ids = ids /\ rc'.scan = {}
             /\ UNCHANGED <<image, layout, records, blind, unread, torn>>
    <2>1. ASSUME NEW id \in 0..(layout.size - 1), Followed(id)'
          PROVE  Awaited(id)' \/ (Followed(id) /\ ~Awaited(id))
      <3>1. Slot(id)' = Slot(id) /\ Followed(id) /\ Mapped(id)
        BY <1>1, <1>5, <2>1 DEF Slot, Followed, Mapped
      <3>2. ASSUME Awaited(id) PROVE Awaited(id)'
        <4>1. CASE Slot(id) \in CellsOf(r)
          <5>1. id \in ids /\ id # 0
            BY <1>3, <1>5, <3>1, <4>1
          <5> QED BY <1>1, <1>5, <5>1 DEF Awaited
        <4>2. CASE Slot(id) \notin CellsOf(r)
          BY <1>1, <3>1, <3>2, <4>2 DEF Awaited, r
        <4> QED BY <4>1, <4>2
      <3> QED BY <3>1, <3>2
    <2> QED BY <1>1, <1>5, <2>1, CarryCurrent
  <1>6. ASSUME Mapped(0), NEW content \in {disk[Slot(0)], image[Slot(0)]},
               ReadRecord(0, content), records' = Refreshed(0, content),
               layout' = IF content.ok /\ content.inUse /\ content.data
                         THEN [runs |-> content.runs, size |-> content.real] ELSE layout,
               unread' = Moved(layout') \ (IF Slots(layout'.runs, 0) = Slots(layout.runs, 0)
                                           THEN {0} ELSE {}),
               ids \subseteq rc'.ids, rc'.scan = NewTail(layout')
        PROVE  CurrentInv'
    <2>1. 0 < layout.size
      BY <1>6 DEF Mapped
    <2>2. /\ \A i : i # 0 => Kept(i) /\ (i \in blind' <=> i \in blind) /\ (i \in torn' <=> i \in torn)
          /\ 0 \notin torn' => content = disk[Slot(0)]
      BY <1>6, ReadOne
    <2>3. ASSUME NEW id \in 0..(layout'.size - 1), Followed(id)'
          PROVE  (KnownAs(id, disk[Slot(id)]) \/ Awaited(id))'
      <3>1. /\ id \notin unread' /\ id \notin torn' /\ id \notin blind'
            /\ Slots(layout'.runs, id) # {} /\ id < layout'.size
            /\ disk'[Slot(id)'].ok /\ (id = 0 => disk'[Slot(id)'].inUse)
        BY <2>3 DEF Followed, Mapped
      <3>2. id \in Nat
        BY <2>3
      <3>3. CASE id >= layout.size
        <4>1. id # 0
          BY <1>2, <2>1, <3>3
        <4>2. id \notin Moved(layout')
          BY <1>6, <3>1, <4>1
        <4>3. \A i \in layout.size..(layout'.size - 1) : Slots(layout'.runs, i) # {}
          BY <2>3, <3>3, <4>2 DEF Moved
        <4>4. layout'.size - 1 \in Int => id \in layout.size..(layout'.size - 1)
          BY <1>2, <2>3, <3>2, <3>3
        <4>5. id \in layout.size..(layout'.size - 1)
          BY <1>2, <2>3, <3>2, <3>3
        <4>6. id \in rc'.scan
          BY <1>6, <4>3, <4>5 DEF NewTail
        <4>7. Awaited(id)'
          BY <1>1, <4>1, <4>6 DEF Awaited
        <4> QED BY <4>7
      <3>4. CASE id < layout.size /\ id # 0
        <4>1. id \notin Moved(layout')
          BY <1>6, <3>1, <3>4
        <4>2. id \notin unread /\ Slots(layout'.runs, id) = Slots(layout.runs, id)
          BY <2>3, <3>4, <4>1 DEF Moved
        <4>3. Slot(id)' = Slot(id) /\ Mapped(id) /\ id \notin torn /\ id \notin blind /\ Kept(id)
          BY <2>2, <3>1, <3>4, <4>2 DEF Slot, Mapped
        <4>4. Followed(id)
          BY <1>1, <3>1, <3>4, <4>2, <4>3 DEF Followed
        <4>5. id \in 0..(layout.size - 1)
          BY <1>2, <3>2, <3>4
        <4>6. KnownAs(id, disk[Slot(id)]) \/ Awaited(id)
          BY <4>4, <4>5 DEF CurrentInv
        <4>7. ASSUME KnownAs(id, disk[Slot(id)]) PROVE KnownAs(id, disk[Slot(id)])'
          BY <1>1, <3>4, <4>3, <4>7 DEF KnownAs, Kept
        <4>8. ASSUME Awaited(id) PROVE Awaited(id)'
          <5>1. CASE Slot(id) \in CellsOf(r)
            <6>1. id \in rc'.ids
              BY <1>3, <1>6, <4>3, <4>5, <5>1
            <6> QED BY <1>1, <3>4, <6>1 DEF Awaited
          <5>2. CASE Slot(id) \notin CellsOf(r)
            BY <1>1, <4>3, <4>8, <5>2 DEF Awaited, r
          <5> QED BY <5>1, <5>2
        <4> QED BY <4>6, <4>7, <4>8
      <3>5. CASE id = 0
        <4>1. Slots(layout'.runs, 0) = Slots(layout.runs, 0)
          BY <1>6, <2>1, <2>3, <3>1, <3>5 DEF Moved
        <4>2. Slot(0)' = Slot(0)
          BY <4>1 DEF Slot
        <4>3. content = disk[Slot(0)] /\ disk'[Slot(0)'] = content
          BY <1>1, <2>2, <3>1, <3>5, <4>2
        <4>4. content.ok /\ content.inUse
          BY <3>1, <3>5, <4>3
        <4>5. content.data => layout' = [runs |-> content.runs, size |-> content.real]
          BY <1>6, <4>4
        <4>6. KnownAs(0, disk[Slot(0)])'
          BY <4>3, <4>5 DEF KnownAs
        <4> QED BY <3>5, <4>6
      <3> QED BY <1>2, <3>2, <3>3, <3>4, <3>5
    <2>4. rc'.pc # "observe"
      BY <1>1
    <2> QED BY <2>3, <2>4 DEF CurrentInv
  <1> QED BY <1>4, <1>5, <1>6

\* A record of a list is read: from then on it is known, or torn.
LEMMA ReadCurrent ==
  ASSUME CurrentInv, NEW x, x # 0, NEW content, ReadRecord(x, content),
         records' = Refreshed(x, content), unread' = unread \ {x},
         UNCHANGED <<disk, layout, write, events>>, rc.pc = "scan", rc'.pc = "scan",
         rc.scan \cup rc.ids \subseteq rc'.scan \cup rc'.ids \cup {x}
  PROVE  CurrentInv'
  <1>1. /\ \A i : i # x => Kept(i) /\ (i \in blind' <=> i \in blind) /\ (i \in torn' <=> i \in torn)
        /\ x \notin torn' => content = disk[Slot(x)]
        /\ content.ok => IF content.inUse
                         THEN x \in DOMAIN records' /\ records'[x] = RecordOf(content, x)
                         ELSE x \notin DOMAIN records'
    BY ReadOne
  <1>2. ASSUME NEW id \in 0..(layout.size - 1), Followed(id)'
        PROVE  (KnownAs(id, disk[Slot(id)]) \/ Awaited(id))'
    <2>1. Slot(id)' = Slot(id) /\ Mapped(id) /\ id \notin unread' \cup torn' \cup blind'
      BY <1>2 DEF Slot, Followed, Mapped
    <2>2. disk[Slot(id)].ok /\ (id = 0 => disk[Slot(id)].inUse)
      BY <1>2, <2>1 DEF Followed
    <2>3. CASE id = x
      <3>1. content = disk[Slot(x)] /\ content.ok
        BY <1>1, <2>1, <2>2, <2>3
      <3>2. disk'[Slot(x)'] = content
        BY <2>1, <2>3, <3>1
      <3>3. KnownAs(x, disk[Slot(x)])'
        <4>1. IF content.inUse THEN x \in DOMAIN records' /\ records'[x] = RecordOf(content, x)
              ELSE x \notin DOMAIN records'
          BY <1>1, <3>1
        <4> HIDE DEF RecordOf
        <4> QED BY <3>2, <4>1 DEF KnownAs
      <3> QED BY <2>3, <3>3
    <2>4. CASE id # x
      <3>1. Followed(id) /\ Kept(id)
        BY <1>1, <2>1, <2>2, <2>4 DEF Followed
      <3>2. KnownAs(id, disk[Slot(id)]) \/ Awaited(id)
        BY <3>1 DEF CurrentInv
      <3>3. ASSUME KnownAs(id, disk[Slot(id)]) PROVE KnownAs(id, disk[Slot(id)])'
        BY <2>1, <3>1, <3>3 DEF KnownAs, Kept
      <3>4. ASSUME Awaited(id) PROVE Awaited(id)'
        BY <2>1, <2>4, <3>4 DEF Awaited
      <3> QED BY <3>2, <3>3, <3>4
    <2> QED BY <2>3, <2>4
  <1> QED BY <1>2 DEF CurrentInv

LEMMA ScanCurrent ==
  ASSUME RangesInv, CurrentInv, ScanRecord
  PROVE  CurrentInv'
  <1> DEFINE x == Min(rc.scan)
  <1>1. /\ rc.pc = "scan" /\ rc.scan # {} /\ rc'.pc = "scan" /\ rc'.scan = rc.scan \ {x}
        /\ rc'.ids = rc.ids /\ UNCHANGED <<disk, layout, write, events>>
    BY DEF ScanRecord, host
  <1>2. PICK content \in {disk[Slot(x)], image[Slot(x)]} :
           ReadRecord(x, content) /\ records' = Refreshed(x, content) /\ unread' = unread \ {x}
    BY DEF ScanRecord
  <1>3. rc.scan \subseteq Nat /\ \A i \in rc.scan : i # 0
    BY <1>1 DEF RangesInv
  <1>4. x # 0
    BY <1>1, <1>3, LeastOf
  <1> HIDE DEF x
  <1>5. rc.scan \cup rc.ids \subseteq rc'.scan \cup rc'.ids \cup {x}
    BY <1>1
  <1> QED BY <1>1, <1>2, <1>4, <1>5, ReadCurrent

LEMMA RefreshCurrent ==
  ASSUME CurrentInv, RefreshRecord
  PROVE  CurrentInv'
  <1>1. PICK x \in rc.ids \ {0} :
          /\ rc' = [rc EXCEPT !.ids = @ \ {x}]
          /\ IF Mapped(x)
             THEN \E content \in {disk[Slot(x)], image[Slot(x)]} :
                    ReadRecord(x, content) /\ records' = Refreshed(x, content) /\ unread' = unread \ {x}
             ELSE /\ records' = IF x < layout.size THEN records
                                ELSE [i \in DOMAIN records \ {x} |-> records[i]]
                  /\ UNCHANGED <<image, blind, unread, torn>>
    BY Zenon DEF RefreshRecord
  <1>2. /\ rc.pc = "scan" /\ rc'.pc = "scan" /\ rc'.scan = rc.scan /\ rc'.ids = rc.ids \ {x}
        /\ UNCHANGED <<disk, layout, write, events>>
    <2>1. rc.pc = "scan" /\ UNCHANGED <<disk, layout, write, events>>
      BY Zenon DEF RefreshRecord, host
    <2>2. rc' = [rc EXCEPT !.ids = @ \ {x}]
      BY <1>1, Zenon
    <2>3. rc'.pc = rc.pc /\ rc'.scan = rc.scan /\ rc'.ids = rc.ids \ {x}
      BY <2>2
    <2> QED BY <2>1, <2>3
  <1>3. rc.scan \cup rc.ids \subseteq rc'.scan \cup rc'.ids \cup {x} /\ x # 0
    BY <1>2
  <1>4. CASE Mapped(x)
    <2>1. PICK content \in {disk[Slot(x)], image[Slot(x)]} :
             ReadRecord(x, content) /\ records' = Refreshed(x, content) /\ unread' = unread \ {x}
      BY <1>1, <1>4
    <2> QED BY <1>2, <1>3, <2>1, ReadCurrent
  <1>5. CASE ~Mapped(x)
    <2>1. UNCHANGED <<blind, unread, torn>>
      BY <1>1, <1>5
    <2>2. \A i : i # x => Kept(i)
      <3>1. CASE records' = records
        BY <3>1 DEF Kept
      <3>2. CASE records' = [i \in DOMAIN records \ {x} |-> records[i]]
        BY <3>2 DEF Kept
      <3> QED BY <1>1, <1>5, <3>1, <3>2
    <2>3. ASSUME NEW id \in 0..(layout.size - 1), Followed(id)'
          PROVE  (KnownAs(id, disk[Slot(id)]) \/ Awaited(id))'
      <3>1. Slot(id)' = Slot(id) /\ Followed(id) /\ Mapped(id)
        BY <1>2, <2>1, <2>3 DEF Slot, Followed, Mapped
      <3>2. id # x /\ Kept(id)
        BY <1>5, <2>2, <3>1
      <3>3. KnownAs(id, disk[Slot(id)]) \/ Awaited(id)
        BY <3>1 DEF CurrentInv
      <3>4. ASSUME KnownAs(id, disk[Slot(id)]) PROVE KnownAs(id, disk[Slot(id)])'
        BY <1>2, <3>1, <3>2, <3>4 DEF KnownAs, Kept
      <3>5. ASSUME Awaited(id) PROVE Awaited(id)'
        BY <1>2, <3>1, <3>2, <3>5 DEF Awaited
      <3> QED BY <3>3, <3>4, <3>5
    <2> QED BY <1>2, <2>3 DEF CurrentInv
  <1> QED BY <1>4, <1>5

LEMMA StepCurrent ==
  ASSUME JournalInv, RangesInv, CurrentInv, [Next]_vars
  PROVE  CurrentInv'
  <1>1. TrackerType
    BY DEF RangesInv
  <1>2. ASSUME UNCHANGED <<disk, layout, records, write, events, rc, blind, unread, torn>>
        PROVE  CurrentInv'
    BY <1>2 DEF CurrentInv, Followed, Awaited, KnownAs, Mapped, Slot
  <1>3. ASSUME NEW w \in HostWrites, StageWrite(w) PROVE CurrentInv'
    BY <1>1, <1>3, StageWriteCurrent
  <1>4. CASE SubmitWrite
    BY <1>4, SubmitWriteCurrent
  <1>5. CASE TakeEvent
    BY <1>1, <1>5, TakeEventCurrent
  <1>6. CASE SubmitPunch
    BY <1>2, <1>6 DEF SubmitPunch, host, tracker
  <1>7. CASE TakePunch
    BY <1>2, <1>7 DEF TakePunch, host, tracker
  <1>8. CASE ObserveMFTWrite
    BY <1>1, <1>8, ObserveCurrent
  <1>9. CASE ScanRecord
    BY <1>9, ScanCurrent
  <1>10. CASE RefreshRecord
    BY <1>10, RefreshCurrent
  <1>11. CASE PublishSnapshots
    <2>1. /\ UNCHANGED <<disk, layout, records, write, events, blind, unread, torn>>
          /\ rc.pc = "scan" /\ rc.scan = {} /\ rc.ids \subseteq {0} /\ rc'.pc = "idle"
      BY <1>11 DEF PublishSnapshots, host, Idle
    <2>2. ASSUME NEW id \in 0..(layout.size - 1), Followed(id)'
          PROVE  Awaited(id)' \/ (Followed(id) /\ ~Awaited(id))
      <3>1. Slot(id)' = Slot(id) /\ Followed(id)
        BY <2>1, <2>2 DEF Slot, Followed, Mapped
      <3>2. ASSUME Awaited(id) PROVE Awaited(id)'
        BY <2>1, <3>1, <3>2 DEF Awaited
      <3> QED BY <3>1, <3>2
    <2> QED BY <2>1, <2>2, CarryCurrent
  <1>12. CASE UNCHANGED vars
    BY <1>2, <1>12 DEF vars, host, tracker
  <1> QED BY <1>3, <1>4, <1>5, <1>6, <1>7, <1>8, <1>9, <1>10, <1>11, <1>12 DEF Next

LEMMA CurrentInductive == Spec => []CurrentInv
  <1>1. JournalInv /\ RangesInv /\ CurrentInv /\ [Next]_vars => CurrentInv'
    BY StepCurrent
  <1> QED BY InitCurrent, <1>1, JournalInductive, RangesInductive, PTL DEF Spec

\* Once the reconciler has caught up, the tracker knows every record as the overlay shows
\* it, but for those the three exceptions name.
THEOREM TrackerFollowsHost == Spec => []TrackerCurrent
  <1>1. CurrentInv => TrackerCurrent
    <2> SUFFICES ASSUME CurrentInv, Quiet, NEW id \in 0..(layout.size - 1), Followed(id)
                 PROVE  KnownAs(id, disk[Slot(id)])
      BY DEF TrackerCurrent
    <2>1. rc.pc = "idle" /\ events = <<>> /\ write = NoWrite
      BY DEF Quiet
    <2>2. /\ \A i \in 1..Len(events) : FALSE
          /\ \A x : x \notin CellsOf(RangeOf(write))
      BY <2>1 DEF NoWrite, RangeOf, CellsOf, Span, Cells
    <2>3. ~Awaited(id)
      BY <2>1, <2>2 DEF Awaited
    <2> QED BY <2>3 DEF CurrentInv
  <1> QED BY <1>1, CurrentInductive, PTL
=============================================================================
