---------------------------- MODULE SHMDiskProofs ----------------------------
(***************************************************************************)
(* SHMDisk: its list of extents stays sorted and disjoint, reads return    *)
(* the last write staged, and the list implements the map of Overlay, for  *)
(* every size of the disk and any number of writes and failures.           *)
(*                                                                         *)
(* The first part is about lists of extents, the second about the loops of *)
(* shm.go, one invariant per loop, the third about the steps of the model. *)
(***************************************************************************)
EXTENDS SHMDisk, LoopTheorems, FiniteSetTheorems, SequenceTheorems

-----------------------------------------------------------------------------
(***************************************************************************)
(* Lists of extents.                                                       *)
(***************************************************************************)

\* In order, and none into another.
Disjoint(list) == \A i, j \in 1..Len(list) : i < j => list[i].end <= list[j].start

\* All of a list ends by x, or starts from x on.
EndsBy(list, x) == \A i \in 1..Len(list) : list[i].end <= x
StartsFrom(list, x) == \A i \in 1..Len(list) : list[i].start >= x

\* The first k extents of a list, as seen by a loop after k rounds.
OwnsUpTo(list, k, c, g) == \E i \in 1..k : Within(c, list[i]) /\ list[i].gen = g
EndsUpTo(list, k, x) == \A i \in 1..k : list[i].end <= x

\* What the fields of an extent hold.
LEMMA ExtentFields ==
  ASSUME NEW e \in Extent
  PROVE  /\ e.start \in 0..(Size - 1) /\ e.end \in 1..Size /\ e.gen \in 1..MaxGen
         /\ e.start < e.end
         /\ e.start \in Int /\ e.end \in Int
  BY Bounds DEF Extent

\* A record with such fields is an extent.
LEMMA MakeExtent ==
  ASSUME NEW a \in Int, NEW b \in Int, NEW g \in 1..MaxGen, 0 <= a, a < b, b <= Size
  PROVE  [start |-> a, end |-> b, gen |-> g] \in Extent
  BY Bounds DEF Extent

\* Concatenation, and what it does to ownership and order.
LEMMA Concat ==
  ASSUME NEW s \in Seq(Extent), NEW t \in Seq(Extent)
  PROVE  /\ s \o t \in Seq(Extent)
         /\ \A c, g : Owns(s \o t, c, g) <=> Owns(s, c, g) \/ Owns(t, c, g)
         /\ \A x : EndsBy(s \o t, x) <=> EndsBy(s, x) /\ EndsBy(t, x)
         /\ \A x : StartsFrom(s \o t, x) <=> StartsFrom(s, x) /\ StartsFrom(t, x)
  <1>1. /\ s \o t \in Seq(Extent) /\ Len(s) \in Nat /\ Len(t) \in Nat
        /\ Len(s \o t) = Len(s) + Len(t)
    OBVIOUS
  <1>2. \A i \in 1..Len(s) : i \in 1..Len(s \o t) /\ (s \o t)[i] = s[i]
    BY <1>1
  <1>3. \A i \in 1..Len(t) : i + Len(s) \in 1..Len(s \o t) /\ (s \o t)[i + Len(s)] = t[i]
    BY <1>1
  <1>4. \A i \in 1..Len(s \o t) :
           i \in 1..Len(s) \/ (i - Len(s) \in 1..Len(t) /\ (s \o t)[i] = t[i - Len(s)])
    BY <1>1
  <1>5. ASSUME NEW c, NEW g PROVE Owns(s \o t, c, g) <=> Owns(s, c, g) \/ Owns(t, c, g)
    <2>1. ASSUME Owns(s \o t, c, g) PROVE Owns(s, c, g) \/ Owns(t, c, g)
      BY <1>2, <1>4, <2>1, Zenon DEF Owns
    <2>2. ASSUME Owns(s, c, g) PROVE Owns(s \o t, c, g)
      BY <1>2, <2>2, Zenon DEF Owns
    <2>3. ASSUME Owns(t, c, g) PROVE Owns(s \o t, c, g)
      BY <1>3, <2>3, Zenon DEF Owns
    <2> QED BY <2>1, <2>2, <2>3
  <1>6. ASSUME NEW x PROVE EndsBy(s \o t, x) <=> EndsBy(s, x) /\ EndsBy(t, x)
    <2>1. ASSUME EndsBy(s, x), EndsBy(t, x) PROVE EndsBy(s \o t, x)
      BY <1>2, <1>4, <2>1, Zenon DEF EndsBy
    <2>2. ASSUME EndsBy(s \o t, x) PROVE EndsBy(s, x) /\ EndsBy(t, x)
      BY <1>2, <1>3, <2>2, Zenon DEF EndsBy
    <2> QED BY <2>1, <2>2
  <1>7. ASSUME NEW x PROVE StartsFrom(s \o t, x) <=> StartsFrom(s, x) /\ StartsFrom(t, x)
    <2>1. ASSUME StartsFrom(s, x), StartsFrom(t, x) PROVE StartsFrom(s \o t, x)
      BY <1>2, <1>4, <2>1, Zenon DEF StartsFrom
    <2>2. ASSUME StartsFrom(s \o t, x) PROVE StartsFrom(s, x) /\ StartsFrom(t, x)
      BY <1>2, <1>3, <2>2, Zenon DEF StartsFrom
    <2> QED BY <2>1, <2>2
  <1> QED BY <1>1, <1>5, <1>6, <1>7

\* Two lists, the first of which ends before the second starts.
LEMMA ConcatDisjoint ==
  ASSUME NEW s \in Seq(Extent), NEW t \in Seq(Extent), NEW x \in Int,
         Disjoint(s), Disjoint(t), EndsBy(s, x), StartsFrom(t, x)
  PROVE  Disjoint(s \o t)
  <1>1. /\ Len(s) \in Nat /\ Len(t) \in Nat /\ Len(s \o t) = Len(s) + Len(t)
    OBVIOUS
  <1> SUFFICES ASSUME NEW i \in 1..Len(s \o t), NEW j \in 1..Len(s \o t), i < j
               PROVE  (s \o t)[i].end <= (s \o t)[j].start
    BY DEF Disjoint
  <1>2. CASE j <= Len(s)
    <2>1. i \in 1..Len(s) /\ j \in 1..Len(s) /\ (s \o t)[i] = s[i] /\ (s \o t)[j] = s[j]
      BY <1>1, <1>2
    <2> QED BY <2>1 DEF Disjoint
  <1>3. CASE i > Len(s)
    <2>1. /\ i - Len(s) \in 1..Len(t) /\ j - Len(s) \in 1..Len(t) /\ i - Len(s) < j - Len(s)
          /\ (s \o t)[i] = t[i - Len(s)] /\ (s \o t)[j] = t[j - Len(s)]
      BY <1>1, <1>3
    <2> QED BY <2>1 DEF Disjoint
  <1>4. CASE i <= Len(s) /\ j > Len(s)
    <2>1. /\ i \in 1..Len(s) /\ j - Len(s) \in 1..Len(t)
          /\ (s \o t)[i] = s[i] /\ (s \o t)[j] = t[j - Len(s)]
      BY <1>1, <1>4
    <2>2. s[i] \in Extent /\ t[j - Len(s)] \in Extent
      BY <2>1
    <2>3. s[i].end \in Int /\ t[j - Len(s)].start \in Int
      BY <2>2, ExtentFields
    <2>4. s[i].end <= x /\ t[j - Len(s)].start >= x
      BY <2>1 DEF EndsBy, StartsFrom
    <2> QED BY <2>1, <2>3, <2>4
  <1> QED BY <1>1, <1>2, <1>3, <1>4

\* The list of one extent, and the empty list.
LEMMA Single ==
  ASSUME NEW e \in Extent
  PROVE  /\ <<e>> \in Seq(Extent) /\ Disjoint(<<e>>)
         /\ \A c, g : Owns(<<e>>, c, g) <=> Within(c, e) /\ e.gen = g
         /\ \A x : EndsBy(<<e>>, x) <=> e.end <= x
         /\ \A x : StartsFrom(<<e>>, x) <=> e.start >= x
  <1>1. <<e>> \in Seq(Extent) /\ Len(<<e>>) = 1 /\ <<e>>[1] = e
    OBVIOUS
  <1>2. 1..1 = {1} /\ ~(1 < 1)
    OBVIOUS
  <1>3. \A c, g : Owns(<<e>>, c, g) <=> Within(c, e) /\ e.gen = g
    BY <1>1, <1>2, Zenon DEF Owns
  <1>4. \A x : EndsBy(<<e>>, x) <=> e.end <= x
    BY <1>1, <1>2, Zenon DEF EndsBy
  <1>5. \A x : StartsFrom(<<e>>, x) <=> e.start >= x
    BY <1>1, <1>2, Zenon DEF StartsFrom
  <1>6. Disjoint(<<e>>)
    BY <1>1, <1>2, Zenon DEF Disjoint
  <1> QED BY <1>1, <1>3, <1>4, <1>5, <1>6

LEMMA Empty ==
  /\ <<>> \in Seq(Extent) /\ Disjoint(<<>>)
  /\ \A c, g : ~Owns(<<>>, c, g)
  /\ \A x : EndsBy(<<>>, x) /\ StartsFrom(<<>>, x)
  <1>1. <<>> \in Seq(Extent) /\ Len(<<>>) = 0 /\ 1..0 = {}
    OBVIOUS
  <1> QED BY <1>1, Zenon DEF Disjoint, Owns, EndsBy, StartsFrom

LEMMA AppendConcat ==
  ASSUME NEW s \in Seq(Extent), NEW e \in Extent
  PROVE  Append(s, e) = s \o <<e>>
  OBVIOUS

\* A list that is not empty is its front and its last extent.
LEMMA FrontLast ==
  ASSUME NEW s \in Seq(Extent), s # <<>>
  PROVE  /\ Front(s) \in Seq(Extent) /\ Last(s) \in Extent
         /\ s = Front(s) \o <<Last(s)>>
         /\ Disjoint(s) => Disjoint(Front(s)) /\ EndsBy(Front(s), Last(s).start)
  <1>1. Len(s) \in Nat \ {0} /\ Len(s) - 1 \in Nat
    OBVIOUS
  <1>2. /\ Front(s) \in Seq(Extent) /\ Len(Front(s)) = Len(s) - 1
        /\ \A i \in 1..(Len(s) - 1) : Front(s)[i] = s[i]
    <2>1. \A i \in 1..(Len(s) - 1) : s[i] \in Extent
      BY <1>1
    <2> DEFINE m == Len(s) - 1
    <2>2. m \in Nat /\ \A i \in 1..m : s[i] \in Extent
      BY <1>1, <2>1
    <2>3. Front(s) = SubSeq(s, 1, m)
      BY DEF Front
    <2> HIDE DEF m
    <2>4. /\ SubSeq(s, 1, m) \in Seq(Extent)
          /\ Len(SubSeq(s, 1, m)) = IF 1 <= m THEN m - 1 + 1 ELSE 0
          /\ \A i \in 1..(m - 1 + 1) : SubSeq(s, 1, m)[i] = s[1 + i - 1]
      BY <2>2, SubSeqProperties
    <2>6. m - 1 + 1 = m /\ (IF 1 <= m THEN m - 1 + 1 ELSE 0) = m
      BY <2>2
    <2>7. \A i \in 1..m : 1 + i - 1 = i
      BY <2>2
    <2>5. Front(s) \in Seq(Extent) /\ Len(Front(s)) = m /\ \A i \in 1..m : Front(s)[i] = s[i]
      BY <2>3, <2>4, <2>6, <2>7, Zenon
    <2> QED BY <2>5 DEF m
  <1>3. Last(s) = s[Len(s)] /\ Last(s) \in Extent
    BY <1>1 DEF Last
  <1>4. s = Front(s) \o <<Last(s)>>
    BY <1>1, <1>2, <1>3
  <1>5. ASSUME Disjoint(s) PROVE Disjoint(Front(s)) /\ EndsBy(Front(s), Last(s).start)
    <2>1. Disjoint(Front(s))
      BY <1>1, <1>2, <1>5 DEF Disjoint
    <2>2. EndsBy(Front(s), Last(s).start)
      BY <1>1, <1>2, <1>3, <1>5 DEF Disjoint, EndsBy
    <2> QED BY <2>1, <2>2
  <1> QED BY <1>2, <1>3, <1>4, <1>5

\* Sorting a list that is in order leaves it as it is.
LEMMA SortedStays ==
  ASSUME NEW s \in Seq(Extent), Disjoint(s)
  PROVE  SortExtents(s) = s
  <1> DEFINE n == Len(s)
             Upto(i) == {j \in 1..n : Before(s[j], s[i]) \/ (j <= i /\ ~Before(s[i], s[j]))}
  <1>1. n \in Nat /\ \A i \in 1..n : s[i] \in Extent
    OBVIOUS
  <1>2. ASSUME NEW i \in 1..n, NEW j \in 1..n, j < i PROVE Before(s[j], s[i])
    <2>1. s[j].end <= s[i].start
      BY <1>2 DEF Disjoint
    <2> QED BY <1>1, <2>1, ExtentFields DEF Before
  <1>3. ASSUME NEW i \in 1..n, NEW j \in 1..n, i < j PROVE ~Before(s[j], s[i])
    <2>1. s[i].end <= s[j].start
      BY <1>3 DEF Disjoint
    <2> QED BY <1>1, <2>1, ExtentFields DEF Before
  <1>3a. ASSUME NEW i \in 1..n PROVE ~Before(s[i], s[i])
    BY <1>1, ExtentFields DEF Before
  <1>4. ASSUME NEW i \in 1..n PROVE Cardinality(Upto(i)) = i
    <2>1. ASSUME NEW j \in 1..n PROVE j \in Upto(i) <=> j <= i
      <3>1. CASE j < i
        BY <1>2, <3>1
      <3>2. CASE j = i
        BY <1>3a, <3>2
      <3>3. CASE i < j
        BY <1>3, <3>3
      <3> QED BY <3>1, <3>2, <3>3
    <2>1a. Upto(i) = 1..i
      <3>1. \A j : j \in Upto(i) => j \in 1..n
        OBVIOUS
      <3> HIDE DEF Upto
      <3>2. \A j : j \in Upto(i) => j \in 1..i
        BY <1>1, <2>1, <3>1
      <3>3. \A j : j \in 1..i => j \in Upto(i)
        BY <1>1, <2>1
      <3>4. \A j : j \in Upto(i) <=> j \in 1..i
        BY <3>2, <3>3
      <3> HIDE DEF n
      <3> QED BY <3>4, Zenon
    <2>2. Cardinality(1..i) = i
      BY FS_Interval
    <2> QED BY <2>1a, <2>2
  <1> HIDE DEF Upto
  <1>5. \A k \in 1..n : (CHOOSE i \in 1..n : Cardinality(Upto(i)) = k) = k
    BY <1>4
  <1>6. SortExtents(s) = [k \in 1..n |-> s[CHOOSE i \in 1..n : Cardinality(Upto(i)) = k]]
    BY DEF SortExtents, Upto
  <1>7. SortExtents(s) = [k \in 1..n |-> s[k]]
    BY <1>5, <1>6
  <1> QED BY <1>7

\* What is left of an extent beside a range that it overlaps.
LEMMA Cut ==
  ASSUME NEW e \in Extent, NEW r \in Extent, e.end > r.start, e.start < r.end
  PROVE  /\ LeftOf(e, r) \in Seq(Extent) /\ Disjoint(LeftOf(e, r))
         /\ EndsBy(LeftOf(e, r), r.start) /\ StartsFrom(LeftOf(e, r), e.start)
         /\ RightOf(e, r) \in Seq(Extent) /\ Disjoint(RightOf(e, r))
         /\ StartsFrom(RightOf(e, r), r.end) /\ EndsBy(RightOf(e, r), e.end)
         /\ e.start >= r.start => LeftOf(e, r) = <<>>
         /\ \A c \in Cells, g \in 1..MaxGen :
               Owns(LeftOf(e, r), c, g) \/ Owns(RightOf(e, r), c, g)
                 <=> Within(c, e) /\ e.gen = g /\ ~Within(c, r)
  <1> DEFINE lt == [start |-> e.start, end |-> r.start, gen |-> e.gen]
             rt == [start |-> r.end, end |-> e.end, gen |-> e.gen]
  <1>1. /\ e.start \in 0..(Size - 1) /\ e.end \in 1..Size /\ e.gen \in 1..MaxGen
        /\ r.start \in 0..(Size - 1) /\ r.end \in 1..Size
        /\ e.start < e.end /\ r.start < r.end
    BY ExtentFields
  <1>2. /\ LeftOf(e, r) \in Seq(Extent) /\ Disjoint(LeftOf(e, r))
        /\ EndsBy(LeftOf(e, r), r.start) /\ StartsFrom(LeftOf(e, r), e.start)
        /\ e.start >= r.start => LeftOf(e, r) = <<>>
        /\ \A c \in Cells, g \in 1..MaxGen :
              Owns(LeftOf(e, r), c, g) <=> e.start <= c /\ c < r.start /\ e.gen = g
    <2>1. CASE e.start < r.start
      <3>1. lt \in Extent
        BY Bounds, <1>1, <2>1, MakeExtent
      <3>2. LeftOf(e, r) = <<lt>> /\ ~(e.start >= r.start)
        BY <1>1, <2>1 DEF LeftOf
      <3>3. lt.start = e.start /\ lt.end = r.start /\ lt.gen = e.gen
        OBVIOUS
      <3>4. r.start <= r.start /\ e.start >= e.start
        BY <1>1
      <3> HIDE DEF lt
      <3> QED BY <3>1, <3>2, <3>3, <3>4, Single DEF Within
    <2>2. CASE ~(e.start < r.start)
      <3>1. LeftOf(e, r) = <<>>
        BY <2>2 DEF LeftOf
      <3>2. \A c \in Cells : ~(e.start <= c /\ c < r.start)
        BY <1>1, <2>2, Bounds DEF Cells
      <3> QED BY <3>1, <3>2, Empty, Zenon
    <2> QED BY <2>1, <2>2
  <1>3. /\ RightOf(e, r) \in Seq(Extent) /\ Disjoint(RightOf(e, r))
        /\ StartsFrom(RightOf(e, r), r.end) /\ EndsBy(RightOf(e, r), e.end)
        /\ \A c \in Cells, g \in 1..MaxGen :
              Owns(RightOf(e, r), c, g) <=> r.end <= c /\ c < e.end /\ e.gen = g
    <2>1. CASE e.end > r.end
      <3>1. rt \in Extent
        BY Bounds, <1>1, <2>1, MakeExtent
      <3>2. RightOf(e, r) = <<rt>>
        BY <1>1, <2>1 DEF RightOf
      <3>3. rt.start = r.end /\ rt.end = e.end /\ rt.gen = e.gen
        OBVIOUS
      <3>4. e.end <= e.end /\ r.end >= r.end
        BY <1>1
      <3> HIDE DEF rt
      <3> QED BY <3>1, <3>2, <3>3, <3>4, Single DEF Within
    <2>2. CASE ~(e.end > r.end)
      <3>1. RightOf(e, r) = <<>>
        BY <2>2 DEF RightOf
      <3>2. \A c \in Cells : ~(r.end <= c /\ c < e.end)
        BY <1>1, <2>2, Bounds DEF Cells
      <3> QED BY <3>1, <3>2, Empty, Zenon
    <2> QED BY <2>1, <2>2
  <1>4. ASSUME NEW c \in Cells
        PROVE  (e.start <= c /\ c < r.start) \/ (r.end <= c /\ c < e.end)
                 <=> Within(c, e) /\ ~Within(c, r)
    BY <1>1, Bounds DEF Cells, Within
  <1> QED BY <1>2, <1>3, <1>4

\* One more round of a loop over a list, and its end.
LEMMA UpTo ==
  ASSUME NEW list \in Seq(Extent), Disjoint(list)
  PROVE  /\ \A c, g : ~OwnsUpTo(list, 0, c, g)
         /\ \A c, g : OwnsUpTo(list, Len(list), c, g) <=> Owns(list, c, g)
         /\ \A k \in 1..Len(list) :
               /\ EndsUpTo(list, k - 1, list[k].start)
               /\ \A x : EndsUpTo(list, k, x) <=> EndsUpTo(list, k - 1, x) /\ list[k].end <= x
               /\ \A c, g : OwnsUpTo(list, k, c, g)
                     <=> OwnsUpTo(list, k - 1, c, g) \/ (Within(c, list[k]) /\ list[k].gen = g)
  <1>1. 1..0 = {} /\ Len(list) \in Nat
    OBVIOUS
  <1>2. ASSUME NEW k \in 1..Len(list)
        PROVE  /\ EndsUpTo(list, k - 1, list[k].start)
               /\ \A x : EndsUpTo(list, k, x) <=> EndsUpTo(list, k - 1, x) /\ list[k].end <= x
               /\ \A c, g : OwnsUpTo(list, k, c, g)
                     <=> OwnsUpTo(list, k - 1, c, g) \/ (Within(c, list[k]) /\ list[k].gen = g)
    <2>1. 1..k = 1..(k - 1) \cup {k} /\ \A i \in 1..(k - 1) : i \in 1..Len(list) /\ i < k
      BY <1>1
    <2>2. EndsUpTo(list, k - 1, list[k].start)
      BY <2>1 DEF EndsUpTo, Disjoint
    <2>3. \A x : EndsUpTo(list, k, x) <=> EndsUpTo(list, k - 1, x) /\ list[k].end <= x
      BY <2>1, Zenon DEF EndsUpTo
    <2>4. \A c, g : OwnsUpTo(list, k, c, g)
             <=> OwnsUpTo(list, k - 1, c, g) \/ (Within(c, list[k]) /\ list[k].gen = g)
      BY <2>1, Zenon DEF OwnsUpTo
    <2> QED BY <2>2, <2>3, <2>4
  <1>3. \A c, g : ~OwnsUpTo(list, 0, c, g)
    BY <1>1, Zenon DEF OwnsUpTo
  <1>4. \A c, g : OwnsUpTo(list, Len(list), c, g) <=> Owns(list, c, g)
    BY Zenon DEF OwnsUpTo, Owns
  <1> QED BY <1>2, <1>3, <1>4

-----------------------------------------------------------------------------
(***************************************************************************)
(* The loop of coalesceSHM.                                                *)
(***************************************************************************)

LEMMA JoinType ==
  ASSUME NEW out \in Seq(Extent), NEW e \in Extent
  PROVE  Join(out, e) \in Seq(Extent)
  <1>1. ASSUME out # <<>>, Last(out).end = e.start, Last(out).gen = e.gen
        PROVE  Append(Front(out), [start |-> Last(out).start, end |-> e.end, gen |-> e.gen])
                 \in Seq(Extent)
    <2>1. Front(out) \in Seq(Extent) /\ Last(out) \in Extent
      BY <1>1, FrontLast
    <2>2. [start |-> Last(out).start, end |-> e.end, gen |-> e.gen] \in Extent
      BY <1>1, <2>1, ExtentFields, Bounds, MakeExtent
    <2> QED BY <2>1, <2>2
  <1>2. Append(out, e) \in Seq(Extent)
    OBVIOUS
  <1> QED BY <1>1, <1>2 DEF Join

\* One round: the extent is added behind the others, whether it is joined or not.
LEMMA JoinStep ==
  ASSUME NEW out \in Seq(Extent), NEW e \in Extent, Disjoint(out), EndsBy(out, e.start)
  PROVE  /\ Disjoint(Join(out, e))
         /\ \A x \in Int : e.end <= x => EndsBy(Join(out, e), x)
         /\ \A c \in Cells, g \in 1..MaxGen :
               Owns(Join(out, e), c, g) <=> Owns(out, c, g) \/ (Within(c, e) /\ e.gen = g)
  <1>0. /\ e.start \in Int /\ e.end \in Int /\ e.start < e.end
        /\ \A i \in 1..Len(out) : out[i] \in Extent /\ out[i].end \in Int
    BY ExtentFields
  <1>1. ASSUME NEW x \in Int, e.end <= x PROVE EndsBy(out, x)
    BY <1>0, <1>1 DEF EndsBy
  <1>2. CASE out # <<>> /\ Last(out).end = e.start /\ Last(out).gen = e.gen
    <2> DEFINE l == Last(out)
               j == [start |-> Last(out).start, end |-> e.end, gen |-> e.gen]
    <2>1. /\ Front(out) \in Seq(Extent) /\ l \in Extent /\ out = Front(out) \o <<l>>
          /\ Disjoint(Front(out)) /\ EndsBy(Front(out), l.start)
      BY <1>2, FrontLast
    <2>2. j \in Extent
      BY <1>0, <1>2, <2>1, ExtentFields, Bounds, MakeExtent
    <2>3. Join(out, e) = Front(out) \o <<j>>
      <3>1. Join(out, e) = Append(Front(out), j)
        BY <1>0, <1>2 DEF Join
      <3> QED BY <2>1, <2>2, <3>1, AppendConcat
    <2>4. j.start = l.start /\ j.end = e.end /\ j.gen = e.gen /\ l.end = e.start /\ l.gen = e.gen
      BY <1>2
    <2>5. l.start \in Int /\ l.end \in Int /\ l.start < l.end
      BY <2>1, ExtentFields
    <2>6. \A c \in Cells : Within(c, j) <=> Within(c, l) \/ Within(c, e)
      BY <1>0, <2>4, <2>5, Bounds DEF Within, Cells
    <2> HIDE DEF j, l
    <2>7. Disjoint(Join(out, e))
      <3>1. StartsFrom(<<j>>, l.start) /\ Disjoint(<<j>>) /\ <<j>> \in Seq(Extent)
        BY <2>2, <2>4, <2>5, Single
      <3> QED BY <2>1, <2>3, <2>5, <3>1, ConcatDisjoint
    <2>8. ASSUME NEW x \in Int, e.end <= x PROVE EndsBy(Join(out, e), x)
      <3>1. EndsBy(out, x)
        BY <1>1, <2>8
      <3>2. EndsBy(Front(out), x)
        BY <2>1, <3>1, Concat, Single
      <3> QED BY <2>1, <2>2, <2>3, <2>4, <2>8, <3>2, Concat, Single
    <2>9. ASSUME NEW c \in Cells, NEW g \in 1..MaxGen
          PROVE  Owns(Join(out, e), c, g) <=> Owns(out, c, g) \/ (Within(c, e) /\ e.gen = g)
      <3>1. Owns(Join(out, e), c, g) <=> Owns(Front(out), c, g) \/ (Within(c, j) /\ j.gen = g)
        <4>1. <<j>> \in Seq(Extent) /\ (Owns(<<j>>, c, g) <=> Within(c, j) /\ j.gen = g)
          BY <2>2, Single
        <4>2. Owns(Front(out) \o <<j>>, c, g) <=> Owns(Front(out), c, g) \/ Owns(<<j>>, c, g)
          BY <2>1, <4>1, Concat
        <4> QED BY <2>3, <4>1, <4>2
      <3>2. Owns(out, c, g) <=> Owns(Front(out), c, g) \/ (Within(c, l) /\ l.gen = g)
        BY <2>1, Concat, Single
      <3> QED BY <2>4, <2>6, <3>1, <3>2
    <2> QED BY <2>7, <2>8, <2>9
  <1>3. CASE ~(out # <<>> /\ Last(out).end = e.start /\ Last(out).gen = e.gen)
    <2>1. Join(out, e) = out \o <<e>>
      BY <1>0, <1>3, AppendConcat DEF Join
    <2>2. /\ <<e>> \in Seq(Extent) /\ Disjoint(<<e>>) /\ StartsFrom(<<e>>, e.start)
          /\ \A x \in Int : EndsBy(<<e>>, x) <=> e.end <= x
          /\ \A c, g : Owns(<<e>>, c, g) <=> Within(c, e) /\ e.gen = g
      BY <1>0, Single
    <2>3. Disjoint(out \o <<e>>)
      BY <1>0, <2>2, ConcatDisjoint
    <2>4. ASSUME NEW x \in Int, e.end <= x PROVE EndsBy(out \o <<e>>, x)
      BY <1>1, <2>2, <2>4, Concat
    <2>5. \A c \in Cells, g \in 1..MaxGen :
             Owns(out \o <<e>>, c, g) <=> Owns(out, c, g) \/ (Within(c, e) /\ e.gen = g)
      BY <2>2, Concat
    <2> QED BY <2>1, <2>3, <2>4, <2>5
  <1> QED BY <1>2, <1>3

\* The rounds of the loop.
LEMMA JoinRounds ==
  ASSUME NEW s \in Seq(Extent)
  PROVE  /\ Loop(Join, <<>>, s)[0] = <<>>
         /\ \A i \in 1..Len(s) : Loop(Join, <<>>, s)[i] = Join(Loop(Join, <<>>, s)[i - 1], s[i])
  <1> DEFINE n == Len(s)
             S == Seq(Extent)
             st == [i \in 1..n |-> [x \in S |-> Join(x, s[i])]]
             f == Loop(Join, <<>>, s)
  <1>1. n \in Nat /\ <<>> \in S /\ \A i \in 1..n : s[i] \in Extent
    OBVIOUS
  <1>2. \A i \in 1..n : i - 1 \in 0..n /\ i \in 0..n
    BY <1>1
  <1>3. \A i \in 1..n : \A x \in S : Join(x, s[i]) \in S
    BY <1>1, JoinType
  <1> HIDE DEF S, n
  <1>4. st \in [1..n -> [S -> S]]
    BY <1>3
  <1>5. \A i \in 1..n : \A x \in S : st[i][x] = Join(x, s[i])
    OBVIOUS
  <1> HIDE DEF st
  <1>6. PICK h : h \in Rounds(n, S, <<>>, st)
    BY <1>1, <1>4, LoopExists DEF Bodies
  <1>7. h \in [0..n -> S] /\ h[0] = <<>> /\ \A i \in 1..n : h[i] = st[i][h[i - 1]]
    BY <1>6 DEF Rounds
  <1>8. h = [i \in 0..n |-> IF i = 0 THEN <<>> ELSE Join(h[i - 1], s[i])]
    <2>1. \A i \in 1..n : h[i - 1] \in S
      BY <1>2, <1>7
    <2>2. \A i \in 1..n : h[i] = Join(h[i - 1], s[i])
      BY <1>5, <1>7, <2>1
    <2>3. \A i \in 0..n : i # 0 => i \in 1..n
      BY <1>1
    <2>4. \A i \in 0..n : h[i] = IF i = 0 THEN <<>> ELSE Join(h[i - 1], s[i])
      BY <1>7, <2>2, <2>3, Zenon
    <2> QED BY <1>7, <2>4
  <1>9. f = [i \in 0..n |-> IF i = 0 THEN <<>> ELSE Join(f[i - 1], s[i])]
    BY <1>8, Zenon DEF Loop, n
  <1>10. 0 \in 0..n /\ \A i \in 1..n : i # 0
    BY <1>1
  <1> HIDE DEF f
  <1>11. f[0] = <<>> /\ \A i \in 1..n : f[i] = Join(f[i - 1], s[i])
    BY <1>2, <1>9, <1>10, Zenon
  <1> QED BY <1>11 DEF f, n

\* coalesceSHM keeps a disjoint list disjoint and leaves every cell to its owner.
LEMMA Coalesce ==
  ASSUME NEW s \in Seq(Extent), Disjoint(s)
  PROVE  /\ coalesceSHM(s) \in Seq(Extent) /\ Disjoint(coalesceSHM(s))
         /\ \A c \in Cells, g \in 1..MaxGen : Owns(coalesceSHM(s), c, g) <=> Owns(s, c, g)
  <1> DEFINE n == Len(s)
             f == Loop(Join, <<>>, s)
             J(k) == /\ f[k] \in Seq(Extent) /\ Disjoint(f[k])
                     /\ \A x \in Int : EndsUpTo(s, k, x) => EndsBy(f[k], x)
                     /\ \A c \in Cells, g \in 1..MaxGen :
                           Owns(f[k], c, g) <=> OwnsUpTo(s, k, c, g)
  <1>1. coalesceSHM(s) = f[n]
    BY SortedStays DEF coalesceSHM, After
  <1>2. f[0] = <<>> /\ \A i \in 1..n : f[i] = Join(f[i - 1], s[i])
    BY JoinRounds
  <1>3. n \in Nat /\ \A i \in 1..n : s[i] \in Extent /\ s[i].start \in Int
    BY ExtentFields
  <1> HIDE DEF f
  <1>4. J(0)
    <2>1. <<>> \in Seq(Extent) /\ Disjoint(<<>>) /\ \A x : EndsBy(<<>>, x)
      BY Empty
    <2>2. \A c, g : ~Owns(<<>>, c, g) /\ ~OwnsUpTo(s, 0, c, g)
      BY Empty, UpTo
    <2> QED BY <1>2, <2>1, <2>2
  <1>5. ASSUME NEW k \in 1..n, J(k - 1) PROVE J(k)
    <2> DEFINE e == s[k]
               out == f[k - 1]
    <2>1. e \in Extent /\ e.start \in Int /\ f[k] = Join(out, e)
      BY <1>2, <1>3
    <2>2. out \in Seq(Extent) /\ Disjoint(out) /\ EndsBy(out, e.start)
      BY <1>3, <1>5, UpTo
    <2>3. Join(out, e) \in Seq(Extent)
      BY <2>1, <2>2, JoinType
    <2>4. /\ Disjoint(Join(out, e))
          /\ \A x \in Int : e.end <= x => EndsBy(Join(out, e), x)
          /\ \A c \in Cells, g \in 1..MaxGen :
               Owns(Join(out, e), c, g) <=> Owns(out, c, g) \/ (Within(c, e) /\ e.gen = g)
      BY <2>1, <2>2, JoinStep
    <2>5. /\ \A x : EndsUpTo(s, k, x) => e.end <= x
          /\ \A c, g : OwnsUpTo(s, k, c, g)
                <=> OwnsUpTo(s, k - 1, c, g) \/ (Within(c, e) /\ e.gen = g)
      BY UpTo
    <2>6. \A c \in Cells, g \in 1..MaxGen : Owns(out, c, g) <=> OwnsUpTo(s, k - 1, c, g)
      BY <1>5
    <2> HIDE DEF e, out
    <2> QED BY <2>1, <2>3, <2>4, <2>5, <2>6
  <1> HIDE DEF J, n
  <1>6. \A i \in 0..n : i \in {k \in 0..n : J(k)}
    <2>1. 0 \in {k \in 0..n : J(k)}
      BY <1>3, <1>4
    <2>2. \A i \in 1..n : i - 1 \in {k \in 0..n : J(k)} => i \in {k \in 0..n : J(k)}
      BY <1>3, <1>5
    <2> QED BY <1>3, <2>1, <2>2, LoopInduction
  <1>7. J(n)
    BY <1>3, <1>6
  <1> QED BY <1>1, <1>7, UpTo DEF J, n

-----------------------------------------------------------------------------
(***************************************************************************)
(* The loop of replaceRangeLocked.                                         *)
(***************************************************************************)

\* The variables of the loop.
Accs == [out : Seq(Extent), inserted : BOOLEAN]

LEMMA InsertType ==
  ASSUME NEW acc \in Accs, NEW new \in Extent
  PROVE  Insert(acc, new) \in Seq(Extent)
  BY Single, Empty DEF Insert, Accs

LEMMA ReplaceType ==
  ASSUME NEW acc \in Accs, NEW e \in Extent, NEW new \in Extent
  PROVE  Replace(acc, e, new) \in Accs
  <1>1. acc.out \in Seq(Extent) /\ acc.inserted \in BOOLEAN
    BY DEF Accs
  <1>2. Insert(acc, new) \in Seq(Extent) /\ <<e>> \in Seq(Extent)
    BY InsertType, Single
  <1>3. CASE e.end <= new.start
    BY <1>1, <1>3 DEF Replace, Accs
  <1>4. CASE ~(e.end <= new.start) /\ e.start >= new.end
    <2>1. acc.out \o Insert(acc, new) \o <<e>> \in Seq(Extent)
      BY <1>1, <1>2
    <2> HIDE DEF Insert
    <2> QED BY <1>4, <2>1 DEF Replace, Accs
  <1>5. CASE ~(e.end <= new.start) /\ ~(e.start >= new.end)
    <2>1. e.end > new.start /\ e.start < new.end
      BY <1>5, ExtentFields
    <2>2. LeftOf(e, new) \in Seq(Extent) /\ RightOf(e, new) \in Seq(Extent)
      BY <2>1, Cut
    <2>3. acc.out \o LeftOf(e, new) \o Insert(acc, new) \o RightOf(e, new) \in Seq(Extent)
      BY <1>1, <1>2, <2>2
    <2> QED BY <1>5, <2>3 DEF Replace, Accs
  <1> QED BY <1>3, <1>4, <1>5

\* The rounds of the loop.
ReplaceLoop(list, new) ==
    LET Step(acc, e) == Replace(acc, e, new)
    IN  Loop(Step, [out |-> <<>>, inserted |-> FALSE], list)

LEMMA ReplaceRounds ==
  ASSUME NEW s \in Seq(Extent), NEW new \in Extent
  PROVE  /\ ReplaceLoop(s, new)[0] = [out |-> <<>>, inserted |-> FALSE]
         /\ \A i \in 1..Len(s) :
               ReplaceLoop(s, new)[i] = Replace(ReplaceLoop(s, new)[i - 1], s[i], new)
  <1> DEFINE n == Len(s)
             f == ReplaceLoop(s, new)
             S == Accs
             b == [out |-> <<>>, inserted |-> FALSE]
             st == [i \in 1..n |-> [x \in S |-> Replace(x, s[i], new)]]
  <1>1. n \in Nat /\ \A i \in 1..n : s[i] \in Extent
    OBVIOUS
  <1>0. b \in S
    BY Empty DEF Accs
  <1>2. \A i \in 1..n : i - 1 \in 0..n /\ i \in 0..n
    BY <1>1
  <1>3. \A i \in 1..n : \A x \in S : Replace(x, s[i], new) \in S
    BY <1>1, ReplaceType
  <1> HIDE DEF S, n, b
  <1>4. st \in [1..n -> [S -> S]]
    BY <1>3
  <1>5. \A i \in 1..n : \A x \in S : st[i][x] = Replace(x, s[i], new)
    OBVIOUS
  <1> HIDE DEF st
  <1>6. PICK h : h \in Rounds(n, S, b, st)
    BY <1>0, <1>1, <1>4, LoopExists DEF Bodies
  <1>7. h \in [0..n -> S] /\ h[0] = b /\ \A i \in 1..n : h[i] = st[i][h[i - 1]]
    BY <1>6 DEF Rounds
  <1>8. h = [i \in 0..n |-> IF i = 0 THEN b ELSE Replace(h[i - 1], s[i], new)]
    <2>1. \A i \in 1..n : h[i - 1] \in S
      BY <1>2, <1>7
    <2>2. \A i \in 1..n : h[i] = Replace(h[i - 1], s[i], new)
      BY <1>5, <1>7, <2>1
    <2>3. \A i \in 0..n : i # 0 => i \in 1..n
      BY <1>1
    <2>4. \A i \in 0..n : h[i] = IF i = 0 THEN b ELSE Replace(h[i - 1], s[i], new)
      BY <1>7, <2>2, <2>3, Zenon
    <2> QED BY <1>7, <2>4
  <1>9. f = [i \in 0..n |-> IF i = 0 THEN b ELSE Replace(f[i - 1], s[i], new)]
    BY <1>8, Zenon DEF ReplaceLoop, Loop, n, b
  <1>10. 0 \in 0..n /\ \A i \in 1..n : i # 0
    BY <1>1
  <1> HIDE DEF f
  <1>11. f[0] = b /\ \A i \in 1..n : f[i] = Replace(f[i - 1], s[i], new)
    BY <1>2, <1>9, <1>10, Zenon
  <1> QED BY <1>11 DEF b, n, f

LEMMA ReplaceUnfolds ==
  ASSUME NEW list, NEW new
  PROVE  LET acc == ReplaceLoop(list, new)[Len(list)]
         IN  replaceRangeLocked(list, new) = coalesceSHM(acc.out \o Insert(acc, new))
  BY Zenon DEF replaceRangeLocked, ReplaceLoop, After

\* What holds after k rounds.  Until the new extent is inserted, all extents end before
\* it; from then on, those still to come start behind its start.
ReplaceInv(acc, list, k, new) ==
    /\ acc \in Accs /\ Disjoint(acc.out)
    /\ ~acc.inserted => EndsUpTo(list, k, new.start)
    /\ acc.inserted => \E i \in 1..k : list[i].end > new.start
    /\ \A x \in Int :
          EndsUpTo(list, k, x) /\ (acc.inserted => new.end <= x) => EndsBy(acc.out, x)
    /\ \A c \in Cells, g \in 1..MaxGen :
          Owns(acc.out, c, g)
            <=> \/ acc.inserted /\ Within(c, new) /\ new.gen = g
                \/ ~Within(c, new) /\ OwnsUpTo(list, k, c, g)

LEMMA ReplaceStep ==
  ASSUME NEW list \in Seq(Extent), Disjoint(list), NEW new \in Extent,
         NEW k \in 1..Len(list), NEW acc, ReplaceInv(acc, list, k - 1, new)
  PROVE  ReplaceInv(Replace(acc, list[k], new), list, k, new)
  <1> DEFINE e == list[k]
             out == acc.out
             res == Replace(acc, e, new)
  <1> SUFFICES ReplaceInv(res, list, k, new)
    OBVIOUS
  <1>1. e \in Extent /\ acc \in Accs
    BY DEF ReplaceInv
  <1>2. /\ e.start \in Int /\ e.end \in Int /\ e.start < e.end
        /\ new.start \in Int /\ new.end \in Int /\ new.start < new.end
    BY <1>1, ExtentFields
  <1>3. out \in Seq(Extent) /\ acc.inserted \in BOOLEAN /\ Disjoint(out)
    BY <1>1 DEF Accs, ReplaceInv
  <1>4. /\ EndsUpTo(list, k - 1, e.start)
        /\ \A x : EndsUpTo(list, k, x) <=> EndsUpTo(list, k - 1, x) /\ e.end <= x
        /\ \A c, g : OwnsUpTo(list, k, c, g)
              <=> OwnsUpTo(list, k - 1, c, g) \/ (Within(c, e) /\ e.gen = g)
    BY UpTo
  <1>5. /\ ~acc.inserted => EndsUpTo(list, k - 1, new.start)
        /\ \A x \in Int :
              EndsUpTo(list, k - 1, x) /\ (acc.inserted => new.end <= x) => EndsBy(out, x)
        /\ \A c \in Cells, g \in 1..MaxGen :
              Owns(out, c, g)
                <=> \/ acc.inserted /\ Within(c, new) /\ new.gen = g
                    \/ ~Within(c, new) /\ OwnsUpTo(list, k - 1, c, g)
    BY DEF ReplaceInv
  <1>6. acc.inserted => e.start > new.start
    <2> SUFFICES ASSUME acc.inserted PROVE e.start > new.start
      OBVIOUS
    <2>1. PICK i \in 1..(k - 1) : list[i].end > new.start
      BY DEF ReplaceInv
    <2>2. i \in 1..Len(list) /\ list[i] \in Extent /\ list[i].end <= e.start
      BY <1>4 DEF EndsUpTo
    <2> QED BY <1>2, <2>1, <2>2, ExtentFields
  <1>8. /\ <<e>> \in Seq(Extent) /\ Disjoint(<<e>>)
        /\ \A c, g : Owns(<<e>>, c, g) <=> Within(c, e) /\ e.gen = g
        /\ \A x : EndsBy(<<e>>, x) <=> e.end <= x
        /\ StartsFrom(<<e>>, e.start)
    BY <1>1, <1>2, Single
  <1>9. /\ <<new>> \in Seq(Extent) /\ Disjoint(<<new>>)
        /\ \A c, g : Owns(<<new>>, c, g) <=> Within(c, new) /\ new.gen = g
        /\ \A x : EndsBy(<<new>>, x) <=> new.end <= x
        /\ StartsFrom(<<new>>, new.start)
    BY <1>2, Single
  <1>10. \A c \in Cells : Within(c, e) \/ Within(c, new) => c \in Int
    BY DEF Cells
  <1>11. res \in Accs
    BY <1>1, ReplaceType
  <1>12. ASSUME acc.inserted \/ e.end > new.start, res.inserted
         PROVE  \E i \in 1..k : list[i].end > new.start
    <2>1. k \in 1..k /\ Len(list) \in Nat
      OBVIOUS
    <2>2. e.end > new.start
      BY <1>2, <1>6, <1>12
    <2> QED BY <2>1, <2>2
  \* The extent ends before the new one: it is kept, and the new one is not in yet.
  <1>13. CASE e.end <= new.start
    <2>1. ~acc.inserted
      BY <1>2, <1>6, <1>13
    <2>2. res.out = out \o <<e>> /\ res.inserted = FALSE
      BY <1>1, <1>3, <1>13, <2>1, AppendConcat DEF Replace
    <2>3. EndsBy(out, e.start)
      BY <1>2, <1>4, <1>5, <2>1
    <2>4. Disjoint(out \o <<e>>)
      BY <1>2, <1>3, <1>8, <2>3, ConcatDisjoint
    <2>5. EndsUpTo(list, k, new.start)
      BY <1>4, <1>5, <1>13, <2>1
    <2>6. \A x \in Int : EndsUpTo(list, k, x) => EndsBy(out \o <<e>>, x)
      BY <1>3, <1>4, <1>5, <1>8, <2>1, Concat
    <2>7. \A c \in Cells : Within(c, e) => ~Within(c, new)
      BY <1>2, <1>13, <1>10 DEF Within
    <2>8. \A c \in Cells, g \in 1..MaxGen :
             Owns(out \o <<e>>, c, g) <=> ~Within(c, new) /\ OwnsUpTo(list, k, c, g)
      <3>1. \A c, g : Owns(out \o <<e>>, c, g) <=> Owns(out, c, g) \/ Owns(<<e>>, c, g)
        BY <1>3, <1>8, Concat
      <3> QED BY <1>4, <1>5, <1>8, <2>1, <2>7, <3>1
    <2> HIDE DEF res, out
    <2> QED BY <1>11, <2>2, <2>4, <2>5, <2>6, <2>8 DEF ReplaceInv
  \* The new extent is in already and the extent is behind it.
  <1>14. CASE ~(e.end <= new.start) /\ e.start >= new.end /\ acc.inserted
    <2>1. res.out = out \o <<e>> /\ res.inserted = TRUE
      <3>1. Insert(acc, new) = <<>>
        BY <1>14 DEF Insert
      <3>2. res.out = out \o <<>> \o <<e>> /\ res.inserted = TRUE
        BY <1>14, <3>1 DEF Replace
      <3>3. out \o <<>> = out
        BY <1>3
      <3> QED BY <3>2, <3>3
    <2>2. EndsBy(out, e.start)
      BY <1>2, <1>4, <1>5, <1>14
    <2>3. Disjoint(out \o <<e>>)
      BY <1>2, <1>3, <1>8, <2>2, ConcatDisjoint
    <2>4. \A x \in Int : EndsUpTo(list, k, x) /\ new.end <= x => EndsBy(out \o <<e>>, x)
      BY <1>3, <1>4, <1>5, <1>8, Concat
    <2>5. \A c \in Cells : Within(c, e) => ~Within(c, new)
      BY <1>2, <1>14, <1>10 DEF Within
    <2>6. \A c \in Cells, g \in 1..MaxGen :
             Owns(out \o <<e>>, c, g) <=> \/ Within(c, new) /\ new.gen = g
                                          \/ ~Within(c, new) /\ OwnsUpTo(list, k, c, g)
      <3>1. \A c, g : Owns(out \o <<e>>, c, g) <=> Owns(out, c, g) \/ Owns(<<e>>, c, g)
        BY <1>3, <1>8, Concat
      <3> QED BY <1>4, <1>5, <1>8, <1>14, <2>5, <3>1
    <2>7. \E i \in 1..k : list[i].end > new.start
      BY <1>12, <1>14, <2>1
    <2> HIDE DEF res, out
    <2> QED BY <1>11, <2>1, <2>3, <2>4, <2>6, <2>7 DEF ReplaceInv
  \* The extent is the first behind the new one, which goes in before it.
  <1>15. CASE ~(e.end <= new.start) /\ e.start >= new.end /\ ~acc.inserted
    <2> DEFINE mid == out \o <<new>>
    <2>1. res.out = mid \o <<e>> /\ res.inserted = TRUE
      <3>1. Insert(acc, new) = <<new>>
        BY <1>15 DEF Insert
      <3> QED BY <1>15, <3>1 DEF Replace
    <2>2. EndsBy(out, new.start) /\ EndsBy(out, e.start)
      BY <1>2, <1>4, <1>5, <1>15
    <2>3. mid \in Seq(Extent) /\ Disjoint(mid)
      BY <1>2, <1>3, <1>9, <2>2, ConcatDisjoint, Concat
    <2>4. \A x : EndsBy(mid, x) <=> EndsBy(out, x) /\ new.end <= x
      BY <1>3, <1>9, Concat
    <2>5. \A c, g : Owns(mid, c, g) <=> Owns(out, c, g) \/ Owns(<<new>>, c, g)
      BY <1>3, <1>9, Concat
    <2> HIDE DEF mid
    <2>6. EndsBy(mid, e.start)
      BY <1>2, <1>15, <2>2, <2>4
    <2>7. Disjoint(mid \o <<e>>)
      BY <1>2, <1>8, <2>3, <2>6, ConcatDisjoint
    <2>8. \A x \in Int : EndsUpTo(list, k, x) /\ new.end <= x => EndsBy(mid \o <<e>>, x)
      BY <1>4, <1>5, <1>8, <1>15, <2>3, <2>4, Concat
    <2>9. \A c \in Cells : Within(c, e) => ~Within(c, new)
      BY <1>2, <1>15, <1>10 DEF Within
    <2>10. \A c \in Cells, g \in 1..MaxGen :
             Owns(mid \o <<e>>, c, g) <=> \/ Within(c, new) /\ new.gen = g
                                          \/ ~Within(c, new) /\ OwnsUpTo(list, k, c, g)
      <3>1. \A c, g : Owns(mid \o <<e>>, c, g) <=> Owns(mid, c, g) \/ Owns(<<e>>, c, g)
        BY <1>8, <2>3, Concat
      <3> QED BY <1>4, <1>5, <1>8, <1>9, <1>15, <2>5, <2>9, <3>1
    <2>11. \E i \in 1..k : list[i].end > new.start
      BY <1>2, <1>12, <1>15, <2>1
    <2> HIDE DEF res, out
    <2> QED BY <1>11, <2>1, <2>7, <2>8, <2>10, <2>11 DEF ReplaceInv
  \* The extent overlaps the new one.
  <1>16. ASSUME ~(e.end <= new.start), ~(e.start >= new.end)
         PROVE  ReplaceInv(res, list, k, new)
    <2> DEFINE lt == LeftOf(e, new)
               rt == RightOf(e, new)
    <2>1. /\ lt \in Seq(Extent) /\ Disjoint(lt) /\ EndsBy(lt, new.start) /\ StartsFrom(lt, e.start)
          /\ rt \in Seq(Extent) /\ Disjoint(rt) /\ StartsFrom(rt, new.end) /\ EndsBy(rt, e.end)
          /\ e.start >= new.start => lt = <<>>
          /\ \A c \in Cells, g \in 1..MaxGen :
                Owns(lt, c, g) \/ Owns(rt, c, g) <=> Within(c, e) /\ e.gen = g /\ ~Within(c, new)
      <3>1. e.end > new.start /\ e.start < new.end
        BY <1>2, <1>16
      <3> QED BY <1>1, <3>1, Cut
    <2>2. res = [out |-> out \o lt \o Insert(acc, new) \o rt, inserted |-> TRUE]
      BY <1>16 DEF Replace
    <2>3. \E i \in 1..k : list[i].end > new.start
      BY <1>2, <1>12, <1>16, <2>2
    <2>4. ASSUME NEW x \in Int, e.end <= x PROVE EndsBy(rt, x)
      <3> HIDE DEF rt
      <3>1. \A i \in 1..Len(rt) : rt[i] \in Extent
        BY <2>1
      <3>2. \A i \in 1..Len(rt) : rt[i].end \in Int
        BY <3>1, ExtentFields
      <3>3. \A i \in 1..Len(rt) : rt[i].end <= e.end
        BY <2>1 DEF EndsBy
      <3>4. \A i \in 1..Len(rt) : rt[i].end <= x
        BY <1>2, <2>4, <3>2, <3>3
      <3> QED BY <3>4 DEF EndsBy
    <2> HIDE DEF lt, rt
    \* The new extent is in already, so that nothing is left before it.
    <2>5. CASE acc.inserted
      <3>1. lt = <<>> /\ Insert(acc, new) = <<>>
        BY <1>2, <1>6, <2>1, <2>5 DEF Insert
      <3>2. res.out = out \o rt /\ res.inserted = TRUE
        <4>1. out \o <<>> = out
          BY <1>3
        <4> QED BY <2>2, <3>1, <4>1
      <3>3. EndsBy(out, new.end)
        <4>1. EndsUpTo(list, k - 1, new.end)
          <5>1. \A i \in 1..(k - 1) : list[i] \in Extent /\ list[i].end <= e.start
            BY <1>4 DEF EndsUpTo
          <5> QED BY <1>2, <1>16, <5>1, ExtentFields DEF EndsUpTo
        <4> QED BY <1>2, <1>5, <4>1
      <3>4. Disjoint(out \o rt)
        BY <1>2, <1>3, <2>1, <3>3, ConcatDisjoint
      <3>5. \A x \in Int : EndsUpTo(list, k, x) /\ new.end <= x => EndsBy(out \o rt, x)
        BY <1>3, <1>4, <1>5, <2>1, <2>4, Concat
      <3>6. \A c \in Cells, g \in 1..MaxGen :
               Owns(out \o rt, c, g) <=> \/ Within(c, new) /\ new.gen = g
                                         \/ ~Within(c, new) /\ OwnsUpTo(list, k, c, g)
        <4>1. \A c, g : Owns(out \o rt, c, g) <=> Owns(out, c, g) \/ Owns(rt, c, g)
          BY <1>3, <2>1, Concat
        <4>2. \A c, g : ~Owns(lt, c, g)
          BY <3>1, Empty
        <4> QED BY <1>4, <1>5, <2>1, <2>5, <4>1, <4>2
      <3> HIDE DEF res, out
      <3> QED BY <1>11, <2>3, <3>2, <3>4, <3>5, <3>6 DEF ReplaceInv
    <2>6. CASE ~acc.inserted
      <3> DEFINE o1 == out \o lt
                 o2 == o1 \o <<new>>
      <3>1. res.out = o2 \o rt /\ res.inserted = TRUE
        <4>1. Insert(acc, new) = <<new>>
          BY <2>6 DEF Insert
        <4> QED BY <2>2, <4>1
      <3>2. EndsBy(out, new.start) /\ EndsBy(out, e.start)
        BY <1>2, <1>4, <1>5, <2>6
      <3>3. o1 \in Seq(Extent) /\ Disjoint(o1) /\ EndsBy(o1, new.start)
        BY <1>2, <1>3, <2>1, <3>2, ConcatDisjoint, Concat
      <3>4. \A c, g : Owns(o1, c, g) <=> Owns(out, c, g) \/ Owns(lt, c, g)
        BY <1>3, <2>1, Concat
      <3> HIDE DEF o1
      <3>5. o2 \in Seq(Extent) /\ Disjoint(o2)
        BY <1>2, <1>9, <3>3, ConcatDisjoint, Concat
      <3>6. \A x : EndsBy(o2, x) <=> EndsBy(o1, x) /\ new.end <= x
        BY <1>9, <3>3, Concat
      <3>7. \A c, g : Owns(o2, c, g) <=> Owns(o1, c, g) \/ Owns(<<new>>, c, g)
        BY <1>9, <3>3, Concat
      <3>8. \A x \in Int : new.end <= x => EndsBy(o1, x)
        <4>1. \A i \in 1..Len(o1) : o1[i] \in Extent
          BY <3>3
        <4> QED BY <1>2, <3>3, <4>1, ExtentFields DEF EndsBy
      <3> HIDE DEF o2
      <3>9. EndsBy(o2, new.end)
        BY <1>2, <3>6, <3>8
      <3>10. Disjoint(o2 \o rt)
        BY <1>2, <2>1, <3>5, <3>9, ConcatDisjoint
      <3>11. \A x \in Int : EndsUpTo(list, k, x) /\ new.end <= x => EndsBy(o2 \o rt, x)
        BY <1>4, <2>1, <2>4, <3>5, <3>6, <3>8, Concat
      <3>12. \A c \in Cells, g \in 1..MaxGen :
               Owns(o2 \o rt, c, g) <=> \/ Within(c, new) /\ new.gen = g
                                        \/ ~Within(c, new) /\ OwnsUpTo(list, k, c, g)
        <4>1. \A c, g : Owns(o2 \o rt, c, g) <=> Owns(o2, c, g) \/ Owns(rt, c, g)
          BY <2>1, <3>5, Concat
        <4> QED BY <1>4, <1>5, <1>9, <2>1, <2>6, <3>4, <3>7, <4>1
      <3> HIDE DEF res, out
      <3> QED BY <1>11, <2>3, <3>1, <3>10, <3>11, <3>12 DEF ReplaceInv
    <2> QED BY <1>3, <2>5, <2>6
  <1> QED BY <1>13, <1>14, <1>15, <1>16

\* replaceRangeLocked: the new extent takes its cells, every other keeps its owner.
LEMMA ReplaceRange ==
  ASSUME NEW list \in Seq(Extent), Disjoint(list), NEW new \in Extent
  PROVE  LET res == replaceRangeLocked(list, new)
         IN  /\ res \in Seq(Extent) /\ Disjoint(res)
             /\ \A c \in Cells, g \in 1..MaxGen :
                   Owns(res, c, g) <=> \/ Within(c, new) /\ new.gen = g
                                       \/ ~Within(c, new) /\ Owns(list, c, g)
  <1> DEFINE n == Len(list)
             f == ReplaceLoop(list, new)
             J(k) == ReplaceInv(f[k], list, k, new)
             acc == f[n]
             all == acc.out \o Insert(acc, new)
  <1>1. n \in Nat /\ new.start \in Int /\ new.end \in Int /\ new.start < new.end
    BY ExtentFields
  <1>2. f[0] = [out |-> <<>>, inserted |-> FALSE]
    BY ReplaceRounds
  <1>3. \A i \in 1..n : f[i] = Replace(f[i - 1], list[i], new)
    BY ReplaceRounds
  <1>4. replaceRangeLocked(list, new) = coalesceSHM(all)
    BY ReplaceUnfolds
  <1> HIDE DEF f
  <1>5. J(0)
    <2>1. f[0] \in Accs /\ f[0].out = <<>> /\ f[0].inserted = FALSE
      BY <1>2, Empty DEF Accs
    <2>2. 1..0 = {}
      OBVIOUS
    <2>3. EndsUpTo(list, 0, new.start) /\ \A c, g : ~OwnsUpTo(list, 0, c, g)
      BY <2>2, UpTo DEF EndsUpTo
    <2>4. Disjoint(<<>>) /\ (\A x : EndsBy(<<>>, x)) /\ \A c, g : ~Owns(<<>>, c, g)
      BY Empty
    <2> QED BY <2>1, <2>3, <2>4 DEF ReplaceInv
  <1>6. ASSUME NEW k \in 1..n, J(k - 1) PROVE J(k)
    BY <1>3, <1>6, ReplaceStep
  <1> HIDE DEF J, n
  <1>7. \A i \in 0..n : i \in {k \in 0..n : J(k)}
    <2>1. 0 \in {k \in 0..n : J(k)}
      BY <1>1, <1>5
    <2>2. \A i \in 1..n : i - 1 \in {k \in 0..n : J(k)} => i \in {k \in 0..n : J(k)}
      BY <1>1, <1>6
    <2> QED BY <1>1, <2>1, <2>2, LoopInduction
  <1>8. J(n)
    BY <1>1, <1>7
  <1>9. /\ acc \in Accs /\ acc.out \in Seq(Extent) /\ acc.inserted \in BOOLEAN
        /\ Disjoint(acc.out)
        /\ ~acc.inserted => EndsBy(acc.out, new.start)
        /\ \A c \in Cells, g \in 1..MaxGen :
              Owns(acc.out, c, g)
                <=> \/ acc.inserted /\ Within(c, new) /\ new.gen = g
                    \/ ~Within(c, new) /\ Owns(list, c, g)
    <2>1. ReplaceInv(acc, list, n, new)
      BY <1>8 DEF J
    <2>2. \A c, g : OwnsUpTo(list, n, c, g) <=> Owns(list, c, g)
      BY UpTo DEF n
    <2> HIDE DEF acc
    <2>3. acc.out \in Seq(Extent) /\ acc.inserted \in BOOLEAN
      BY <2>1 DEF ReplaceInv, Accs
    <2> QED BY <1>1, <2>1, <2>2, <2>3 DEF ReplaceInv
  <1> HIDE DEF acc
  <1>10. /\ all \in Seq(Extent) /\ Disjoint(all)
         /\ \A c \in Cells, g \in 1..MaxGen :
               Owns(all, c, g) <=> \/ Within(c, new) /\ new.gen = g
                                   \/ ~Within(c, new) /\ Owns(list, c, g)
    <2>1. CASE acc.inserted
      <3>1. all = acc.out
        BY <1>9, <2>1 DEF Insert
      <3> QED BY <1>9, <2>1, <3>1
    <2>2. CASE ~acc.inserted
      <3>1. all = acc.out \o <<new>>
        BY <2>2 DEF Insert
      <3>2. /\ <<new>> \in Seq(Extent) /\ Disjoint(<<new>>) /\ StartsFrom(<<new>>, new.start)
            /\ \A c, g : Owns(<<new>>, c, g) <=> Within(c, new) /\ new.gen = g
        BY <1>1, Single
      <3>3. all \in Seq(Extent) /\ Disjoint(all)
        BY <1>1, <1>9, <2>2, <3>1, <3>2, Concat, ConcatDisjoint
      <3>4. \A c, g : Owns(all, c, g) <=> Owns(acc.out, c, g) \/ Owns(<<new>>, c, g)
        BY <1>9, <3>1, <3>2, Concat
      <3> HIDE DEF all
      <3> QED BY <1>9, <2>2, <3>2, <3>3, <3>4
    <2> QED BY <1>9, <2>1, <2>2
  <1> HIDE DEF all
  <1> QED BY <1>4, <1>10, Coalesce

-----------------------------------------------------------------------------
(***************************************************************************)
(* The loop of removeRangeGenerationLocked.                                *)
(***************************************************************************)

\* An extent that the loop cuts.
Hit(e, p) == e.gen = p.gen /\ e.end > p.start /\ e.start < p.end

LEMMA CutOutType ==
  ASSUME NEW out \in Seq(Extent), NEW e \in Extent, NEW p \in Extent
  PROVE  CutOut(out, e, p) \in Seq(Extent)
  <1>1. /\ e.start \in Int /\ e.end \in Int /\ p.start \in Int /\ p.end \in Int
    BY ExtentFields
  <1>2. CASE Hit(e, p)
    <2>1. CutOut(out, e, p) = out \o LeftOf(e, p) \o RightOf(e, p)
      BY <1>1, <1>2 DEF CutOut, Hit
    <2>2. LeftOf(e, p) \in Seq(Extent) /\ RightOf(e, p) \in Seq(Extent)
      BY <1>2, Cut DEF Hit
    <2> QED BY <2>1, <2>2
  <1>3. CASE ~Hit(e, p)
    BY <1>1, <1>3 DEF CutOut, Hit
  <1> QED BY <1>2, <1>3

CutOutLoop(list, p) ==
    LET Step(acc, e) == CutOut(acc, e, p)
    IN  Loop(Step, <<>>, list)

\* The rounds of the loop.
LEMMA CutOutRounds ==
  ASSUME NEW s \in Seq(Extent), NEW p \in Extent
  PROVE  /\ CutOutLoop(s, p)[0] = <<>>
         /\ \A i \in 1..Len(s) :
               CutOutLoop(s, p)[i] = CutOut(CutOutLoop(s, p)[i - 1], s[i], p)
  <1> DEFINE n == Len(s)
             S == Seq(Extent)
             b == <<>>
             f == CutOutLoop(s, p)
             st == [i \in 1..n |-> [x \in S |-> CutOut(x, s[i], p)]]
  <1>1. n \in Nat /\ \A i \in 1..n : s[i] \in Extent
    OBVIOUS
  <1>2. b \in S
    OBVIOUS
  <1>3. \A i \in 1..n : i - 1 \in 0..n /\ i \in 0..n
    BY <1>1
  <1>4. \A i \in 1..n : \A x \in S : CutOut(x, s[i], p) \in S
    BY <1>1, CutOutType
  <1> HIDE DEF S, n, b
  <1>5. st \in [1..n -> [S -> S]]
    BY <1>4
  <1>6. \A i \in 1..n : \A x \in S : st[i][x] = CutOut(x, s[i], p)
    OBVIOUS
  <1> HIDE DEF st
  <1>7. PICK h : h \in Rounds(n, S, b, st)
    BY <1>1, <1>2, <1>5, LoopExists DEF Bodies
  <1>8. h \in [0..n -> S] /\ h[0] = b /\ \A i \in 1..n : h[i] = st[i][h[i - 1]]
    BY <1>7 DEF Rounds
  <1>9. h = [i \in 0..n |-> IF i = 0 THEN b ELSE CutOut(h[i - 1], s[i], p)]
    <2>1. \A i \in 1..n : h[i - 1] \in S
      BY <1>3, <1>8
    <2>2. \A i \in 1..n : h[i] = CutOut(h[i - 1], s[i], p)
      BY <1>6, <1>8, <2>1
    <2>3. \A i \in 0..n : i # 0 => i \in 1..n
      BY <1>1
    <2>4. \A i \in 0..n : h[i] = IF i = 0 THEN b ELSE CutOut(h[i - 1], s[i], p)
      BY <1>8, <2>2, <2>3, Zenon
    <2> QED BY <1>8, <2>4
  <1>10. f = [i \in 0..n |-> IF i = 0 THEN b ELSE CutOut(f[i - 1], s[i], p)]
    BY <1>9, Zenon DEF CutOutLoop, Loop, n, b
  <1>11. 0 \in 0..n /\ \A i \in 1..n : i # 0
    BY <1>1
  <1> HIDE DEF f
  <1>12. f[0] = b /\ \A i \in 1..n : f[i] = CutOut(f[i - 1], s[i], p)
    BY <1>3, <1>10, <1>11, Zenon
  <1> QED BY <1>12 DEF b, n, f

\* What holds after k rounds.
CutOutInv(out, list, k, p) ==
    /\ out \in Seq(Extent) /\ Disjoint(out)
    /\ \A x \in Int : EndsUpTo(list, k, x) => EndsBy(out, x)
    /\ \A c \in Cells, g \in 1..MaxGen :
          Owns(out, c, g) <=> OwnsUpTo(list, k, c, g) /\ ~(g = p.gen /\ Within(c, p))

LEMMA CutOutStep ==
  ASSUME NEW list \in Seq(Extent), Disjoint(list), NEW p \in Extent,
         NEW k \in 1..Len(list), NEW out, CutOutInv(out, list, k - 1, p)
  PROVE  CutOutInv(CutOut(out, list[k], p), list, k, p)
  <1> DEFINE e == list[k]
             res == CutOut(out, e, p)
  <1> SUFFICES CutOutInv(res, list, k, p)
    OBVIOUS
  <1>1. e \in Extent /\ out \in Seq(Extent) /\ Disjoint(out)
    BY DEF CutOutInv
  <1>2. /\ e.start \in Int /\ e.end \in Int /\ e.start < e.end
        /\ p.start \in Int /\ p.end \in Int /\ p.start < p.end
    BY <1>1, ExtentFields
  <1>3. /\ EndsUpTo(list, k - 1, e.start)
        /\ \A x : EndsUpTo(list, k, x) <=> EndsUpTo(list, k - 1, x) /\ e.end <= x
        /\ \A c, g : OwnsUpTo(list, k, c, g)
              <=> OwnsUpTo(list, k - 1, c, g) \/ (Within(c, e) /\ e.gen = g)
    BY UpTo
  <1>4. /\ \A x \in Int : EndsUpTo(list, k - 1, x) => EndsBy(out, x)
        /\ \A c \in Cells, g \in 1..MaxGen :
              Owns(out, c, g) <=> OwnsUpTo(list, k - 1, c, g) /\ ~(g = p.gen /\ Within(c, p))
    BY DEF CutOutInv
  <1>5. EndsBy(out, e.start)
    BY <1>2, <1>3, <1>4
  <1>6. res \in Seq(Extent)
    BY <1>1, CutOutType
  <1>7. CASE ~Hit(e, p)
    <2>1. res = out \o <<e>>
      BY <1>1, <1>2, <1>7, AppendConcat DEF CutOut, Hit
    <2>2. /\ <<e>> \in Seq(Extent) /\ Disjoint(<<e>>) /\ StartsFrom(<<e>>, e.start)
          /\ \A x : EndsBy(<<e>>, x) <=> e.end <= x
          /\ \A c, g : Owns(<<e>>, c, g) <=> Within(c, e) /\ e.gen = g
      BY <1>1, <1>2, Single
    <2>3. Disjoint(res)
      BY <1>1, <1>2, <1>5, <2>1, <2>2, ConcatDisjoint
    <2>4. \A x \in Int : EndsUpTo(list, k, x) => EndsBy(res, x)
      BY <1>1, <1>3, <1>4, <2>1, <2>2, Concat
    <2>5. \A c, g : Owns(res, c, g) <=> Owns(out, c, g) \/ Owns(<<e>>, c, g)
      <3>1. \A c, g : Owns(out \o <<e>>, c, g) <=> Owns(out, c, g) \/ Owns(<<e>>, c, g)
        BY <1>1, <2>2, Concat
      <3> HIDE DEF res
      <3> QED BY <2>1, <3>1, Zenon
    <2>6. \A c \in Cells : Within(c, e) /\ Within(c, p) => e.gen # p.gen
      BY <1>2, <1>7 DEF Within, Cells, Hit
    <2>7. \A c \in Cells, g \in 1..MaxGen :
             Owns(res, c, g) <=> OwnsUpTo(list, k, c, g) /\ ~(g = p.gen /\ Within(c, p))
      BY <1>3, <1>4, <2>2, <2>5, <2>6
    <2> HIDE DEF res
    <2> QED BY <1>6, <2>3, <2>4, <2>7 DEF CutOutInv
  <1>8. CASE Hit(e, p)
    <2> DEFINE lt == LeftOf(e, p)
               rt == RightOf(e, p)
               mid == out \o lt
    <2>1. /\ lt \in Seq(Extent) /\ Disjoint(lt) /\ EndsBy(lt, p.start) /\ StartsFrom(lt, e.start)
          /\ rt \in Seq(Extent) /\ Disjoint(rt) /\ StartsFrom(rt, p.end) /\ EndsBy(rt, e.end)
          /\ \A c \in Cells, g \in 1..MaxGen :
                Owns(lt, c, g) \/ Owns(rt, c, g) <=> Within(c, e) /\ e.gen = g /\ ~Within(c, p)
      BY <1>1, <1>8, Cut DEF Hit
    <2>2. res = mid \o rt
      BY <1>2, <1>8 DEF CutOut, Hit
    <2>3. \A i \in 1..Len(rt) : rt[i] \in Extent
      BY <2>1
    <2>4. \A i \in 1..Len(lt) : lt[i] \in Extent
      BY <2>1
    <2>5. \A i \in 1..Len(out) : out[i] \in Extent
      BY <1>1
    <2> HIDE DEF lt, rt
    <2>6. ASSUME NEW l \in Seq(Extent), NEW x \in Int, NEW y \in Int, x <= y, EndsBy(l, x)
          PROVE  EndsBy(l, y)
      <3>1. \A i \in 1..Len(l) : l[i].end \in Int /\ l[i].end <= x
        BY <2>6, ExtentFields DEF EndsBy
      <3>2. \A i \in 1..Len(l) : l[i].end <= y
        BY <2>6, <3>1
      <3> QED BY <3>2 DEF EndsBy
    <2>7. EndsBy(out, p.end)
      BY <1>1, <1>2, <1>5, <1>8, <2>6 DEF Hit
    <2>8. EndsBy(lt, p.end)
      BY <1>2, <2>1, <2>6
    <2>9. mid \in Seq(Extent) /\ Disjoint(mid) /\ EndsBy(mid, p.end)
      BY <1>1, <1>2, <1>5, <2>1, <2>7, <2>8, Concat, ConcatDisjoint
    <2>10. \A c, g : Owns(mid, c, g) <=> Owns(out, c, g) \/ Owns(lt, c, g)
      BY <1>1, <2>1, Concat
    <2>11. \A x : EndsBy(mid, x) <=> EndsBy(out, x) /\ EndsBy(lt, x)
      BY <1>1, <2>1, Concat
    <2> HIDE DEF mid
    <2>12. Disjoint(res)
      BY <1>2, <2>1, <2>2, <2>9, ConcatDisjoint
    <2>13. ASSUME NEW x \in Int, EndsUpTo(list, k, x) PROVE EndsBy(res, x)
      <3>1. EndsBy(out, x) /\ e.end <= x
        BY <1>3, <1>4, <2>13
      <3>2. p.start < e.end
        BY <1>2, <1>8 DEF Hit
      <3>3. EndsBy(lt, x) /\ EndsBy(rt, x)
        BY <1>2, <2>1, <2>6, <3>1, <3>2
      <3> QED BY <2>1, <2>2, <2>9, <2>11, <3>1, <3>3, Concat
    <2>14. \A c, g : Owns(res, c, g) <=> Owns(mid, c, g) \/ Owns(rt, c, g)
      BY <2>1, <2>2, <2>9, Concat
    <2>15. \A c \in Cells, g \in 1..MaxGen :
             Owns(res, c, g) <=> OwnsUpTo(list, k, c, g) /\ ~(g = p.gen /\ Within(c, p))
      <3>1. e.gen = p.gen
        BY <1>8 DEF Hit
      <3> QED BY <1>3, <1>4, <2>1, <2>10, <2>14, <3>1
    <2> HIDE DEF res
    <2> QED BY <1>6, <2>12, <2>13, <2>15 DEF CutOutInv
  <1> QED BY <1>7, <1>8

\* removeRangeGenerationLocked: the generation loses the cells of the range, and every
\* other cell keeps its owner.
LEMMA RemoveRange ==
  ASSUME NEW list \in Seq(Extent), Disjoint(list), NEW p \in Extent
  PROVE  LET res == removeRangeGenerationLocked(list, p)
         IN  /\ res \in Seq(Extent) /\ Disjoint(res)
             /\ \A c \in Cells, g \in 1..MaxGen :
                   Owns(res, c, g) <=> Owns(list, c, g) /\ ~(g = p.gen /\ Within(c, p))
  <1> DEFINE n == Len(list)
             f == CutOutLoop(list, p)
             J(k) == CutOutInv(f[k], list, k, p)
  <1>1. n \in Nat
    OBVIOUS
  <1>2. f[0] = <<>> /\ \A i \in 1..n : f[i] = CutOut(f[i - 1], list[i], p)
    BY CutOutRounds
  <1>3. removeRangeGenerationLocked(list, p) = coalesceSHM(f[n])
    BY Zenon DEF removeRangeGenerationLocked, CutOutLoop, After
  <1> HIDE DEF f
  <1>4. J(0)
    <2>1. \A c, g : ~OwnsUpTo(list, 0, c, g)
      BY UpTo
    <2>2. /\ <<>> \in Seq(Extent) /\ Disjoint(<<>>)
          /\ (\A x : EndsBy(<<>>, x)) /\ \A c, g : ~Owns(<<>>, c, g)
      BY Empty
    <2> QED BY <1>2, <2>1, <2>2 DEF CutOutInv
  <1>5. ASSUME NEW k \in 1..n, J(k - 1) PROVE J(k)
    BY <1>2, <1>5, CutOutStep
  <1> HIDE DEF J, n
  <1>6. \A i \in 0..n : i \in {k \in 0..n : J(k)}
    <2>1. 0 \in {k \in 0..n : J(k)}
      BY <1>1, <1>4
    <2>2. \A i \in 1..n : i - 1 \in {k \in 0..n : J(k)} => i \in {k \in 0..n : J(k)}
      BY <1>1, <1>5
    <2> QED BY <1>1, <2>1, <2>2, LoopInduction
  <1>7. J(n)
    BY <1>1, <1>6
  <1>8. \A c, g : OwnsUpTo(list, n, c, g) <=> Owns(list, c, g)
    BY UpTo DEF n
  <1>9. /\ f[n] \in Seq(Extent) /\ Disjoint(f[n])
        /\ \A c \in Cells, g \in 1..MaxGen :
              Owns(f[n], c, g) <=> Owns(list, c, g) /\ ~(g = p.gen /\ Within(c, p))
    BY <1>7, <1>8 DEF J, CutOutInv
  <1> QED BY <1>3, <1>9, Coalesce

-----------------------------------------------------------------------------
(***************************************************************************)
(* The loop of coversGenerationLocked.                                     *)
(***************************************************************************)

\* The variables of the loop.
Walks == [cursor : Int, answer : {"open", "no", "yes"}]

LEMMA WalkType ==
  ASSUME NEW acc \in Walks, NEW e \in Extent, NEW want \in Extent
  PROVE  Walk(acc, e, want) \in Walks
  BY ExtentFields DEF Walk, Walks

WalkLoop(list, want) ==
    LET Step(acc, e) == Walk(acc, e, want)
    IN  Loop(Step, [cursor |-> want.start, answer |-> "open"], list)

\* The rounds of the loop.
LEMMA WalkRounds ==
  ASSUME NEW s \in Seq(Extent), NEW want \in Extent
  PROVE  /\ WalkLoop(s, want)[0] = [cursor |-> want.start, answer |-> "open"]
         /\ \A i \in 1..Len(s) :
               WalkLoop(s, want)[i] = Walk(WalkLoop(s, want)[i - 1], s[i], want)
  <1> DEFINE n == Len(s)
             S == Walks
             b == [cursor |-> want.start, answer |-> "open"]
             f == WalkLoop(s, want)
             st == [i \in 1..n |-> [x \in S |-> Walk(x, s[i], want)]]
  <1>1. n \in Nat /\ \A i \in 1..n : s[i] \in Extent
    OBVIOUS
  <1>2. b \in S
    BY ExtentFields DEF Walks
  <1>3. \A i \in 1..n : i - 1 \in 0..n /\ i \in 0..n
    BY <1>1
  <1>4. \A i \in 1..n : \A x \in S : Walk(x, s[i], want) \in S
    BY <1>1, WalkType
  <1> HIDE DEF S, n, b
  <1>5. st \in [1..n -> [S -> S]]
    BY <1>4
  <1>6. \A i \in 1..n : \A x \in S : st[i][x] = Walk(x, s[i], want)
    OBVIOUS
  <1> HIDE DEF st
  <1>7. PICK h : h \in Rounds(n, S, b, st)
    BY <1>1, <1>2, <1>5, LoopExists DEF Bodies
  <1>8. h \in [0..n -> S] /\ h[0] = b /\ \A i \in 1..n : h[i] = st[i][h[i - 1]]
    BY <1>7 DEF Rounds
  <1>9. h = [i \in 0..n |-> IF i = 0 THEN b ELSE Walk(h[i - 1], s[i], want)]
    <2>1. \A i \in 1..n : h[i - 1] \in S
      BY <1>3, <1>8
    <2>2. \A i \in 1..n : h[i] = Walk(h[i - 1], s[i], want)
      BY <1>6, <1>8, <2>1
    <2>3. \A i \in 0..n : i # 0 => i \in 1..n
      BY <1>1
    <2>4. \A i \in 0..n : h[i] = IF i = 0 THEN b ELSE Walk(h[i - 1], s[i], want)
      BY <1>8, <2>2, <2>3, Zenon
    <2> QED BY <1>8, <2>4
  <1>10. f = [i \in 0..n |-> IF i = 0 THEN b ELSE Walk(f[i - 1], s[i], want)]
    BY <1>9, Zenon DEF WalkLoop, Loop, n, b
  <1>11. 0 \in 0..n /\ \A i \in 1..n : i # 0
    BY <1>1
  <1> HIDE DEF f
  <1>12. f[0] = b /\ \A i \in 1..n : f[i] = Walk(f[i - 1], s[i], want)
    BY <1>3, <1>10, <1>11, Zenon
  <1> QED BY <1>12 DEF b, n, f

\* The cursor has passed the cells the generation owns and all extents seen; an answer
\* is right for the whole list.
WalkInv(acc, list, k, want) ==
    /\ acc \in Walks
    /\ acc.answer = "open" =>
          /\ want.start <= acc.cursor /\ acc.cursor < want.end
          /\ EndsUpTo(list, k, acc.cursor)
          /\ \A c \in Cells : want.start <= c /\ c < acc.cursor => Owns(list, c, want.gen)
    /\ acc.answer = "yes" => \A c \in Cells : Within(c, want) => Owns(list, c, want.gen)
    /\ acc.answer = "no" => \E c \in Cells : Within(c, want) /\ ~Owns(list, c, want.gen)

LEMMA WalkStep ==
  ASSUME NEW list \in Seq(Extent), Disjoint(list), NEW want \in Extent,
         NEW k \in 1..Len(list), NEW acc, WalkInv(acc, list, k - 1, want)
  PROVE  WalkInv(Walk(acc, list[k], want), list, k, want)
  <1> DEFINE e == list[k]
             res == Walk(acc, e, want)
             cur == acc.cursor
  <1> SUFFICES WalkInv(res, list, k, want)
    OBVIOUS
  <1>1. e \in Extent /\ acc \in Walks
    BY DEF WalkInv
  <1>2. /\ e.start \in Int /\ e.end \in Int /\ e.start < e.end /\ e.start >= 0 /\ e.end <= Size
        /\ want.start \in Int /\ want.end \in Int /\ want.start < want.end
        /\ want.start >= 0 /\ want.end <= Size
        /\ Size \in Nat
    BY <1>1, ExtentFields, Bounds
  <1>3. cur \in Int /\ acc.answer \in {"open", "no", "yes"}
    BY <1>1 DEF Walks
  <1>4. res \in Walks
    BY <1>1, WalkType
  <1>5. \A x : EndsUpTo(list, k, x) <=> EndsUpTo(list, k - 1, x) /\ e.end <= x
    BY UpTo
  <1>6. CASE acc.answer # "open"
    <2>1. res = acc
      BY <1>6 DEF Walk
    <2> QED BY <1>6, <2>1 DEF WalkInv
  <1>7. CASE acc.answer = "open"
    <2>1. /\ want.start <= cur /\ cur < want.end
          /\ EndsUpTo(list, k - 1, cur)
          /\ \A c \in Cells : want.start <= c /\ c < cur => Owns(list, c, want.gen)
      BY <1>7 DEF WalkInv
    <2>2. cur \in Cells /\ Within(cur, want)
      BY <1>2, <1>3, <2>1 DEF Cells, Within
    <2>3. CASE e.end <= cur
      <3>1. res = acc
        BY <2>3 DEF Walk
      <3>2. EndsUpTo(list, k, cur)
        BY <1>5, <2>1, <2>3
      <3> QED BY <1>1, <1>7, <2>1, <3>1, <3>2 DEF WalkInv
    \* The cell at the cursor belongs to no extent, or to one of another generation.
    <2>4. CASE ~(e.end <= cur) /\ (e.start > cur \/ e.gen # want.gen)
      <3>1. res.answer = "no"
        BY <1>7, <2>4 DEF Walk
      <3>2. ~Owns(list, cur, want.gen)
        <4> SUFFICES ASSUME NEW i \in 1..Len(list), Within(cur, list[i]), list[i].gen = want.gen
                     PROVE  FALSE
          BY DEF Owns
        <4>1. list[i] \in Extent /\ list[i].start \in Int /\ list[i].end \in Int
          BY ExtentFields
        <4>2. CASE i < k
          <5>1. i \in 1..(k - 1)
            BY <4>2
          <5>2. list[i].end <= cur
            BY <2>1, <5>1 DEF EndsUpTo
          <5> QED BY <1>3, <4>1, <5>2 DEF Within
        <4>3. CASE i = k
          BY <1>2, <1>3, <2>4, <4>3 DEF Within
        <4>4. CASE i > k
          <5>1. e.end <= list[i].start
            BY <4>4 DEF Disjoint
          <5> QED BY <1>2, <1>3, <2>4, <4>1, <5>1 DEF Within
        <4> QED BY <4>2, <4>3, <4>4
      <3> HIDE DEF res, cur
      <3> QED BY <1>4, <2>2, <3>1, <3>2 DEF WalkInv
    <2>5. ASSUME ~(e.end <= cur), ~(e.start > cur), e.gen = want.gen
          PROVE  \A c \in Cells : want.start <= c /\ c < e.end => Owns(list, c, want.gen)
      <3> SUFFICES ASSUME NEW c \in Cells, want.start <= c, c < e.end
                   PROVE  Owns(list, c, want.gen)
        OBVIOUS
      <3>1. CASE c < cur
        BY <2>1, <3>1
      <3>2. CASE ~(c < cur)
        <4>1. Within(c, e)
          BY <1>2, <1>3, <2>5, <3>2 DEF Within, Cells
        <4> QED BY <2>5, <4>1 DEF Owns
      <3> QED BY <3>1, <3>2
    <2>6. CASE ~(e.end <= cur) /\ ~(e.start > cur) /\ e.gen = want.gen /\ e.end >= want.end
      <3>1. res.answer = "yes"
        BY <1>7, <2>6 DEF Walk
      <3>2. \A c \in Cells : Within(c, want) => Owns(list, c, want.gen)
        <4>1. \A c \in Cells : Within(c, want) => want.start <= c /\ c < e.end
          BY <1>2, <2>6 DEF Within, Cells
        <4> QED BY <2>5, <2>6, <4>1
      <3> HIDE DEF res
      <3> QED BY <1>4, <3>1, <3>2 DEF WalkInv
    <2>7. CASE ~(e.end <= cur) /\ ~(e.start > cur) /\ e.gen = want.gen /\ ~(e.end >= want.end)
      <3>1. res.answer = "open" /\ res.cursor = e.end
        BY <1>7, <2>7 DEF Walk
      <3>2. want.start <= e.end /\ e.end < want.end
        BY <1>2, <1>3, <2>1, <2>7
      <3>3. EndsUpTo(list, k, e.end)
        <4>1. EndsUpTo(list, k - 1, e.end)
          <5>1. \A i \in 1..(k - 1) : list[i] \in Extent /\ list[i].end <= cur
            BY <2>1 DEF EndsUpTo
          <5>2. \A i \in 1..(k - 1) : list[i].end \in Int /\ list[i].end <= e.end
            BY <1>2, <1>3, <2>7, <5>1, ExtentFields
          <5> QED BY <5>2 DEF EndsUpTo
        <4> QED BY <1>2, <1>5, <4>1
      <3>4. \A c \in Cells : want.start <= c /\ c < e.end => Owns(list, c, want.gen)
        BY <2>5, <2>7
      <3> HIDE DEF res
      <3> QED BY <1>4, <3>1, <3>2, <3>3, <3>4 DEF WalkInv
    <2> QED BY <2>3, <2>4, <2>6, <2>7
  <1> QED BY <1>6, <1>7

\* coversGenerationLocked: yes exactly when the generation still owns the whole range.
LEMMA CoversGeneration ==
  ASSUME NEW list \in Seq(Extent), Disjoint(list), NEW want \in Extent
  PROVE  coversGenerationLocked(list, want)
           <=> \A c \in Cells : Within(c, want) => Owns(list, c, want.gen)
  <1> DEFINE n == Len(list)
             f == WalkLoop(list, want)
             J(k) == WalkInv(f[k], list, k, want)
  <1>1. /\ n \in Nat
        /\ want.start \in Int /\ want.end \in Int /\ want.start < want.end
        /\ want.start >= 0 /\ want.end <= Size /\ Size \in Nat
    BY ExtentFields, Bounds
  <1>2. f[0] = [cursor |-> want.start, answer |-> "open"]
    BY WalkRounds
  <1>3. \A i \in 1..n : f[i] = Walk(f[i - 1], list[i], want)
    BY WalkRounds
  <1>4. coversGenerationLocked(list, want) <=> f[n].answer = "yes"
    BY Zenon DEF coversGenerationLocked, WalkLoop, After
  <1> HIDE DEF f
  <1>5. J(0)
    <2>1. f[0] \in Walks /\ f[0].cursor = want.start /\ f[0].answer = "open"
      BY <1>1, <1>2 DEF Walks
    <2>2. EndsUpTo(list, 0, want.start)
      BY DEF EndsUpTo
    <2>3. \A c \in Cells : ~(want.start <= c /\ c < want.start)
      BY <1>1 DEF Cells
    <2> QED BY <1>1, <2>1, <2>2, <2>3 DEF WalkInv
  <1>6. ASSUME NEW k \in 1..n, J(k - 1) PROVE J(k)
    BY <1>3, <1>6, WalkStep
  <1> HIDE DEF J, n
  <1>7. \A i \in 0..n : i \in {k \in 0..n : J(k)}
    <2>1. 0 \in {k \in 0..n : J(k)}
      BY <1>1, <1>5
    <2>2. \A i \in 1..n : i - 1 \in {k \in 0..n : J(k)} => i \in {k \in 0..n : J(k)}
      BY <1>1, <1>6
    <2> QED BY <1>1, <2>1, <2>2, LoopInduction
  <1>8. WalkInv(f[n], list, n, want)
    BY <1>1, <1>7 DEF J
  <1>9. CASE f[n].answer = "open"
    <2> DEFINE cur == f[n].cursor
    <2>1. /\ cur \in Int /\ want.start <= cur /\ cur < want.end /\ EndsUpTo(list, n, cur)
      BY <1>8, <1>9 DEF WalkInv, Walks
    <2>2. cur \in Cells /\ Within(cur, want)
      BY <1>1, <2>1 DEF Cells, Within
    <2>3. ~Owns(list, cur, want.gen)
      <3>1. \A i \in 1..Len(list) : list[i].end <= cur /\ list[i].end \in Int
        BY <2>1, ExtentFields DEF EndsUpTo, n
      <3> QED BY <2>1, <3>1 DEF Owns, Within
    <2> QED BY <1>4, <1>9, <2>2, <2>3
  <1>10. CASE f[n].answer = "yes"
    BY <1>4, <1>8, <1>10 DEF WalkInv
  <1>11. CASE f[n].answer = "no"
    BY <1>4, <1>8, <1>11 DEF WalkInv
  <1>12. f[n].answer \in {"open", "no", "yes"}
    BY <1>8 DEF WalkInv, Walks
  <1> QED BY <1>9, <1>10, <1>11, <1>12

-----------------------------------------------------------------------------
(***************************************************************************)
(* The loop of ReadAt.                                                     *)
(***************************************************************************)

\* The variables of the loop.
Reads == [cells : SUBSET Cells, stop : BOOLEAN]

LEMMA ReadType ==
  ASSUME NEW acc \in Reads, NEW e \in Extent, NEW r \in Ranges
  PROVE  ReadExtent(acc, e, r) \in Reads
  BY DEF ReadExtent, Reads

ReadLoop(list, r) ==
    LET Step(acc, e) == ReadExtent(acc, e, r)
    IN  Loop(Step, [cells |-> {}, stop |-> FALSE], list)

\* The rounds of the loop.
LEMMA ReadRounds ==
  ASSUME NEW s \in Seq(Extent), NEW r \in Ranges
  PROVE  /\ ReadLoop(s, r)[0] = [cells |-> {}, stop |-> FALSE]
         /\ \A i \in 1..Len(s) :
               ReadLoop(s, r)[i] = ReadExtent(ReadLoop(s, r)[i - 1], s[i], r)
  <1> DEFINE n == Len(s)
             S == Reads
             b == [cells |-> {}, stop |-> FALSE]
             f == ReadLoop(s, r)
             st == [i \in 1..n |-> [x \in S |-> ReadExtent(x, s[i], r)]]
  <1>1. n \in Nat /\ \A i \in 1..n : s[i] \in Extent
    OBVIOUS
  <1>2. b \in S
    BY DEF Reads
  <1>3. \A i \in 1..n : i - 1 \in 0..n /\ i \in 0..n
    BY <1>1
  <1>4. \A i \in 1..n : \A x \in S : ReadExtent(x, s[i], r) \in S
    BY <1>1, ReadType
  <1> HIDE DEF S, n, b
  <1>5. st \in [1..n -> [S -> S]]
    BY <1>4
  <1>6. \A i \in 1..n : \A x \in S : st[i][x] = ReadExtent(x, s[i], r)
    OBVIOUS
  <1> HIDE DEF st
  <1>7. PICK h : h \in Rounds(n, S, b, st)
    BY <1>1, <1>2, <1>5, LoopExists DEF Bodies
  <1>8. h \in [0..n -> S] /\ h[0] = b /\ \A i \in 1..n : h[i] = st[i][h[i - 1]]
    BY <1>7 DEF Rounds
  <1>9. h = [i \in 0..n |-> IF i = 0 THEN b ELSE ReadExtent(h[i - 1], s[i], r)]
    <2>1. \A i \in 1..n : h[i - 1] \in S
      BY <1>3, <1>8
    <2>2. \A i \in 1..n : h[i] = ReadExtent(h[i - 1], s[i], r)
      BY <1>6, <1>8, <2>1
    <2>3. \A i \in 0..n : i # 0 => i \in 1..n
      BY <1>1
    <2>4. \A i \in 0..n : h[i] = IF i = 0 THEN b ELSE ReadExtent(h[i - 1], s[i], r)
      BY <1>8, <2>2, <2>3, Zenon
    <2> QED BY <1>8, <2>4
  <1>10. f = [i \in 0..n |-> IF i = 0 THEN b ELSE ReadExtent(f[i - 1], s[i], r)]
    BY <1>9, Zenon DEF ReadLoop, Loop, n, b
  <1>11. 0 \in 0..n /\ \A i \in 1..n : i # 0
    BY <1>1
  <1> HIDE DEF f
  <1>12. f[0] = b /\ \A i \in 1..n : f[i] = ReadExtent(f[i - 1], s[i], r)
    BY <1>3, <1>10, <1>11, Zenon
  <1> QED BY <1>12 DEF b, n, f

\* The cells of a request inside one of the first k extents.
InUpTo(list, k, r) == {c \in Cells : Within(c, r) /\ \E i \in 1..k : Within(c, list[i])}

\* What was read so far is right for the extents seen, and for all once the loop stopped.
ReadInv(acc, list, k, r) ==
    /\ acc \in Reads
    /\ ~acc.stop => acc.cells = InUpTo(list, k, r)
    /\ acc.stop => acc.cells = InUpTo(list, Len(list), r)

LEMMA ReadStep ==
  ASSUME NEW list \in Seq(Extent), Disjoint(list), NEW r \in Ranges,
         NEW k \in 1..Len(list), NEW acc, ReadInv(acc, list, k - 1, r)
  PROVE  ReadInv(ReadExtent(acc, list[k], r), list, k, r)
  <1> DEFINE e == list[k]
             res == ReadExtent(acc, e, r)
  <1> SUFFICES ReadInv(res, list, k, r)
    OBVIOUS
  <1>1. e \in Extent /\ acc \in Reads /\ acc.stop \in BOOLEAN
    BY DEF ReadInv, Reads
  <1>2. /\ e.start \in Int /\ e.end \in Int /\ e.start < e.end
        /\ r.start \in Int /\ r.end \in Int /\ r.start < r.end
    BY <1>1, ExtentFields DEF Ranges
  <1>3. res \in Reads
    BY <1>1, ReadType
  <1>4. 1..k = 1..(k - 1) \cup {k}
    OBVIOUS
  <1>5. InUpTo(list, k, r) = InUpTo(list, k - 1, r) \cup {c \in Cells : Within(c, r) /\ Within(c, e)}
    BY <1>4, Zenon DEF InUpTo
  <1>6. CASE acc.stop
    <2>1. res = acc
      BY <1>6 DEF ReadExtent
    <2> QED BY <1>6, <2>1 DEF ReadInv
  <1>7. CASE ~acc.stop /\ e.end <= r.start
    <2>1. res = acc
      BY <1>7 DEF ReadExtent
    <2>2. {c \in Cells : Within(c, r) /\ Within(c, e)} = {}
      BY <1>2, <1>7 DEF Within, Cells
    <2> QED BY <1>5, <1>7, <2>1, <2>2 DEF ReadInv
  \* The first extent behind the request: so are all that follow.
  <1>8. CASE ~acc.stop /\ ~(e.end <= r.start) /\ e.start >= r.end
    <2>1. res.stop = TRUE /\ res.cells = InUpTo(list, k - 1, r)
      BY <1>8 DEF ReadExtent, ReadInv
    <2>2. ASSUME NEW c \in Cells, Within(c, r), NEW i \in 1..Len(list), Within(c, list[i])
          PROVE  i \in 1..(k - 1)
      <3>1. list[i] \in Extent /\ list[i].start \in Int
        BY ExtentFields
      <3>2. ~(i = k)
        BY <1>2, <1>8, <2>2 DEF Within, Cells
      <3>3. ~(i > k)
        <4> SUFFICES ASSUME i > k PROVE FALSE
          OBVIOUS
        <4>1. e.end <= list[i].start
          BY DEF Disjoint
        <4> QED BY <1>2, <1>8, <2>2, <3>1, <4>1 DEF Within, Cells
      <3> QED BY <3>2, <3>3
    <2>3. \A i \in 1..(k - 1) : i \in 1..Len(list)
      OBVIOUS
    <2>4. InUpTo(list, k - 1, r) = InUpTo(list, Len(list), r)
      BY <2>2, <2>3, Zenon DEF InUpTo
    <2> HIDE DEF res
    <2> QED BY <1>3, <2>1, <2>4 DEF ReadInv
  <1>9. CASE ~acc.stop /\ ~(e.end <= r.start) /\ ~(e.start >= r.end)
    <2>1. /\ res.stop = FALSE
          /\ res.cells = acc.cells \cup {c \in Cells : Within(c, r) /\ Within(c, e)}
      BY <1>9 DEF ReadExtent
    <2>2. acc.cells = InUpTo(list, k - 1, r)
      BY <1>9 DEF ReadInv
    <2> HIDE DEF res
    <2> QED BY <1>3, <1>5, <2>1, <2>2 DEF ReadInv
  <1> QED BY <1>1, <1>6, <1>7, <1>8, <1>9

\* ReadAt takes from the file the cells of the request that some extent holds.
LEMMA OverlaidRight ==
  ASSUME NEW list \in Seq(Extent), Disjoint(list), NEW r \in Ranges
  PROVE  OverlaidCells(list, r) = InUpTo(list, Len(list), r)
  <1> DEFINE n == Len(list)
             f == ReadLoop(list, r)
             J(k) == ReadInv(f[k], list, k, r)
  <1>1. n \in Nat
    OBVIOUS
  <1>2. f[0] = [cells |-> {}, stop |-> FALSE]
    BY ReadRounds
  <1>3. \A i \in 1..n : f[i] = ReadExtent(f[i - 1], list[i], r)
    BY ReadRounds
  <1>4. OverlaidCells(list, r) = f[n].cells
    BY Zenon DEF OverlaidCells, ReadLoop, After
  <1> HIDE DEF f
  <1>5. J(0)
    <2>1. f[0] \in Reads /\ f[0].cells = {} /\ f[0].stop = FALSE
      BY <1>2 DEF Reads
    <2>2. InUpTo(list, 0, r) = {}
      BY DEF InUpTo
    <2> QED BY <2>1, <2>2 DEF ReadInv
  <1>6. ASSUME NEW k \in 1..n, J(k - 1) PROVE J(k)
    BY <1>3, <1>6, ReadStep
  <1> HIDE DEF J, n
  <1>7. \A i \in 0..n : i \in {k \in 0..n : J(k)}
    <2>1. 0 \in {k \in 0..n : J(k)}
      BY <1>1, <1>5
    <2>2. \A i \in 1..n : i - 1 \in {k \in 0..n : J(k)} => i \in {k \in 0..n : J(k)}
      BY <1>1, <1>6
    <2> QED BY <1>1, <2>1, <2>2, LoopInduction
  <1>8. ReadInv(f[n], list, n, r)
    BY <1>1, <1>7 DEF J
  <1> QED BY <1>4, <1>8 DEF ReadInv, Reads, n

-----------------------------------------------------------------------------
(***************************************************************************)
(* The steps of the overlay.                                               *)
(***************************************************************************)

LEMMA InitInv ==
  Init => IndInv
  <1> SUFFICES ASSUME Init PROVE IndInv
    OBVIOUS
  <1>1. extents = <<>> /\ staged = <<>> /\ <<>> \in Seq(Extent) /\ Len(<<>>) = 0 /\ 1..0 = {}
    BY DEF Init
  <1>2. TypeOK
    <2>1. file \in [Cells -> {Torn, Hole} \cup 1..MaxGen]
      BY DEF Init
    <2>2. latest \in [Cells -> 0..MaxGen]
      BY Bounds DEF Init
    <2>3. nextGen \in 1..(MaxGen + 1) /\ faults \in 0..MaxFaults
      BY Bounds DEF Init
    <2>4. closed = FALSE /\ released \subseteq 1..MaxGen
      BY DEF Init
    <2> QED BY <1>1, <2>1, <2>2, <2>3, <2>4 DEF TypeOK
  <1>3. SortedDisjoint
    BY <1>1, Zenon DEF SortedDisjoint
  <1>4. StagedInv
    <2>1. \A c \in Cells : latest[c] < nextGen
      BY DEF Init
    <2>2. \A g \in released : g < nextGen
      BY DEF Init
    <2>3. \A i \in 1..Len(staged) : FALSE
      BY <1>1
    <2> QED BY <2>1, <2>2, <2>3 DEF StagedInv
  <1>5. OwnInv
    <2>1. \A c, g : ~Owns(extents, c, g)
      BY <1>1, Empty
    <2>2. \A c \in Cells, g \in 1..MaxGen : latest[c] # g
      BY Bounds DEF Init
    <2> QED BY <2>1, <2>2 DEF OwnInv
  <1>6. FileInv
    BY DEF Init, FileInv
  <1> QED BY <1>2, <1>3, <1>4, <1>5, <1>6 DEF IndInv

\* The new extent of a StageWrite.
LEMMA StageExtent ==
  ASSUME TypeOK, NEW r \in Ranges, nextGen <= MaxGen
  PROVE  [start |-> r.start, end |-> r.end, gen |-> nextGen] \in Extent
  <1>1. r.start \in 0..(Size - 1) /\ r.end \in 1..Size /\ r.start < r.end
    BY DEF Ranges
  <1>2. nextGen \in 1..MaxGen
    BY Bounds DEF TypeOK
  <1> QED BY <1>1, <1>2, Bounds, MakeExtent

LEMMA StageWriteInv ==
  ASSUME IndInv, NEW r \in Ranges, StageWrite(r)
  PROVE  IndInv'
  <1> DEFINE new == [start |-> r.start, end |-> r.end, gen |-> nextGen]
  <1>1. new \in Extent /\ new.start = r.start /\ new.end = r.end /\ new.gen = nextGen
    BY StageExtent DEF IndInv, StageWrite
  <1>2. /\ ~closed /\ closed' = closed /\ faults' = faults /\ released' = released
        /\ nextGen' = nextGen + 1 /\ nextGen \in 1..MaxGen
        /\ file' = [c \in Cells |-> IF Within(c, r) THEN nextGen ELSE file[c]]
        /\ latest' = [c \in Cells |-> IF Within(c, r) THEN nextGen ELSE latest[c]]
    BY Bounds DEF IndInv, TypeOK, StageWrite
  <1>3. extents' = replaceRangeLocked(extents, new) /\ staged' = Append(staged, new)
    BY DEF StageWrite
  <1>4. \A c : Within(c, new) <=> Within(c, r)
    BY <1>1 DEF Within
  <1>5. /\ extents \in Seq(Extent) /\ staged \in Seq(Extent) /\ Disjoint(extents)
        /\ file \in [Cells -> {Torn, Hole} \cup 1..MaxGen]
        /\ latest \in [Cells -> 0..MaxGen] /\ released \subseteq 1..MaxGen
        /\ faults \in 0..MaxFaults
    BY DEF IndInv, TypeOK, SortedDisjoint, Disjoint
  <1> HIDE DEF new
  <1>6. /\ extents' \in Seq(Extent) /\ Disjoint(extents')
        /\ \A c \in Cells, g \in 1..MaxGen :
              Owns(extents', c, g) <=> \/ Within(c, new) /\ new.gen = g
                                       \/ ~Within(c, new) /\ Owns(extents, c, g)
    BY <1>1, <1>3, <1>5, ReplaceRange
  <1>7. TypeOK'
    <2>1. staged' \in Seq(Extent)
      BY <1>1, <1>3, <1>5
    <2>2. file' \in [Cells -> {Torn, Hole} \cup 1..MaxGen]
      BY <1>2, <1>5
    <2>3. latest' \in [Cells -> 0..MaxGen]
      BY <1>2, <1>5
    <2>4. nextGen' \in 1..(MaxGen + 1)
      BY <1>2, Bounds
    <2>5. closed' = FALSE
      BY <1>2 DEF IndInv, TypeOK
    <2> QED BY <1>2, <1>5, <1>6, <2>1, <2>2, <2>3, <2>4, <2>5 DEF TypeOK
  <1>8. SortedDisjoint'
    BY <1>6 DEF SortedDisjoint, Disjoint
  <1>9. StagedInv'
    <2>1. \A c \in Cells : latest[c] < nextGen
      BY DEF IndInv, StagedInv
    <2>2. ASSUME NEW c \in Cells PROVE latest'[c] < nextGen'
      BY <1>2, <1>5, <2>1
    <2>3. ASSUME NEW g \in released' PROVE g < nextGen'
      <3>1. g < nextGen
        BY <1>2, <2>3 DEF IndInv, StagedInv
      <3> QED BY <1>2, <1>5, <2>3, <3>1
    <2>4. ASSUME NEW i \in 1..Len(staged')
          PROVE  /\ staged'[i].gen < nextGen'
                 /\ \A c \in Cells : latest'[c] = staged'[i].gen => Within(c, staged'[i])
      <3>1. CASE i \in 1..Len(staged)
        <4>1. staged'[i] = staged[i] /\ staged[i] \in Extent
          BY <1>1, <1>3, <1>5, <3>1
        <4>2. /\ staged[i].gen < nextGen
              /\ \A c \in Cells : latest[c] = staged[i].gen => Within(c, staged[i])
          BY <3>1 DEF IndInv, StagedInv
        <4>3. staged[i].gen \in Int
          BY <4>1, ExtentFields
        <4> QED BY <1>2, <1>5, <4>1, <4>2, <4>3
      <3>2. CASE i = Len(staged) + 1
        <4>1. staged'[i] = new
          BY <1>1, <1>3, <1>5, <3>2
        <4>2. ASSUME NEW c \in Cells, latest'[c] = nextGen PROVE Within(c, r)
          BY <1>2, <1>5, <2>1, <4>2
        <4> QED BY <1>1, <1>2, <1>4, <4>1, <4>2
      <3>3. i \in 1..Len(staged) \/ i = Len(staged) + 1
        BY <1>1, <1>3, <1>5
      <3> QED BY <3>1, <3>2, <3>3
    <2> QED BY <2>2, <2>3, <2>4 DEF StagedInv
  <1>10. nextGen \notin released
    <2>1. \A g \in released : g < nextGen
      BY DEF IndInv, StagedInv
    <2> QED BY <1>2, <2>1
  <1>11. OwnInv'
    <2>1. ASSUME NEW c \in Cells, NEW g \in 1..MaxGen
          PROVE  Owns(extents', c, g) <=> latest'[c] = g /\ g \notin released'
      <3>1. Owns(extents, c, g) <=> latest[c] = g /\ g \notin released
        BY <1>2 DEF IndInv, OwnInv
      <3>2. CASE Within(c, r)
        BY <1>1, <1>2, <1>4, <1>6, <1>10, <3>2
      <3>3. CASE ~Within(c, r)
        BY <1>2, <1>4, <1>6, <3>1, <3>3
      <3> QED BY <3>2, <3>3
    <2> QED BY <2>1 DEF OwnInv
  <1>12. FileInv'
    <2>1. ASSUME NEW c \in Cells, latest'[c] \notin released' \cup {0}
          PROVE  file'[c] = latest'[c] \/ (file'[c] = Torn /\ faults' > 0)
      <3>1. CASE Within(c, r)
        BY <1>2, <3>1
      <3>2. CASE ~Within(c, r)
        <4>1. latest'[c] = latest[c] /\ file'[c] = file[c]
          BY <1>2, <3>2
        <4> QED BY <1>2, <2>1, <4>1 DEF IndInv, FileInv
      <3> QED BY <3>1, <3>2
    <2> QED BY <2>1 DEF FileInv
  <1> QED BY <1>7, <1>8, <1>9, <1>11, <1>12 DEF IndInv

LEMMA StageWriteFailsInv ==
  ASSUME IndInv, NEW r \in Ranges, StageWriteFails(r)
  PROVE  IndInv'
  <1>1. /\ extents' = extents /\ nextGen' = nextGen /\ closed' = closed /\ staged' = staged
        /\ latest' = latest /\ released' = released /\ faults' = faults + 1
        /\ file' = [c \in Cells |-> IF Within(c, r) THEN Torn ELSE file[c]]
        /\ faults < MaxFaults
    BY DEF StageWriteFails
  <1>2. faults \in Nat /\ faults' \in 0..MaxFaults /\ faults' > 0
    BY <1>1, Bounds DEF IndInv, TypeOK
  <1>3. TypeOK'
    <2>1. file' \in [Cells -> {Torn, Hole} \cup 1..MaxGen]
      BY <1>1 DEF IndInv, TypeOK
    <2> QED BY <1>1, <1>2, <2>1 DEF IndInv, TypeOK
  <1>4. SortedDisjoint' /\ StagedInv' /\ OwnInv'
    BY <1>1 DEF IndInv, SortedDisjoint, StagedInv, OwnInv
  <1>5. FileInv'
    <2>1. ASSUME NEW c \in Cells, ~closed, latest[c] \notin released \cup {0}
          PROVE  file'[c] = latest[c] \/ (file'[c] = Torn /\ faults' > 0)
      <3>1. CASE Within(c, r)
        BY <1>1, <1>2, <3>1
      <3>2. CASE ~Within(c, r)
        <4>1. file'[c] = file[c]
          BY <1>1, <3>2
        <4> QED BY <1>2, <2>1, <4>1 DEF IndInv, FileInv
      <3> QED BY <3>1, <3>2
    <2> QED BY <1>1, <2>1 DEF FileInv
  <1> QED BY <1>3, <1>4, <1>5 DEF IndInv

\* The queue of the writer loses its head.
LEMMA TailStaged ==
  ASSUME IndInv, staged # <<>>, staged' = Tail(staged)
  PROVE  /\ staged' \in Seq(Extent) /\ Head(staged) \in Extent
         /\ \A i \in 1..Len(staged') :
               /\ staged'[i].gen < nextGen
               /\ \A c \in Cells : latest[c] = staged'[i].gen => Within(c, staged'[i])
         /\ Head(staged).gen < nextGen
         /\ \A c \in Cells : latest[c] = Head(staged).gen => Within(c, Head(staged))
  <1>1. staged \in Seq(Extent)
    BY DEF IndInv, TypeOK
  <1>2. /\ staged' \in Seq(Extent) /\ Head(staged) \in Extent /\ Head(staged) = staged[1]
        /\ 1 \in 1..Len(staged)
        /\ \A i \in 1..Len(staged') : i + 1 \in 1..Len(staged) /\ staged'[i] = staged[i + 1]
    BY <1>1
  <1>3. \A i \in 1..Len(staged) :
           /\ staged[i].gen < nextGen
           /\ \A c \in Cells : latest[c] = staged[i].gen => Within(c, staged[i])
    BY DEF IndInv, StagedInv
  <1> QED BY <1>2, <1>3, Zenon

LEMMA KeepStagedInv ==
  ASSUME IndInv, staged # <<>>, staged' = Tail(staged),
         UNCHANGED <<extents, nextGen, closed, file, faults, latest, released>>
  PROVE  IndInv'
  <1>1. TypeOK'
    BY TailStaged DEF IndInv, TypeOK
  <1>2. StagedInv'
    BY TailStaged DEF IndInv, StagedInv
  <1>3. SortedDisjoint' /\ OwnInv' /\ FileInv'
    BY DEF IndInv, SortedDisjoint, OwnInv, FileInv
  <1> QED BY <1>1, <1>2, <1>3 DEF IndInv

LEMMA ReleaseInv ==
  ASSUME IndInv, ReleaseIfCurrent
  PROVE  IndInv'
  <1> DEFINE p == Head(staged)
  <1>1. staged # <<>> /\ staged' = Tail(staged) /\ UNCHANGED <<nextGen, closed, faults, latest>>
    BY DEF ReleaseIfCurrent
  <1>2. CASE ~(~closed /\ coversGenerationLocked(extents, p))
    <2>1. UNCHANGED <<file, extents, released>>
      BY <1>2 DEF ReleaseIfCurrent
    <2> QED BY <1>1, <2>1, KeepStagedInv
  <1>3. CASE ~closed /\ coversGenerationLocked(extents, p)
    <2>1. /\ file' = [c \in Cells |-> IF Within(c, p) THEN Hole ELSE file[c]]
          /\ extents' = removeRangeGenerationLocked(extents, p)
          /\ released' = released \cup {p.gen}
      BY <1>3 DEF ReleaseIfCurrent
    <2>2. /\ p \in Extent /\ p.gen < nextGen
          /\ \A c \in Cells : latest[c] = p.gen => Within(c, p)
      BY <1>1, TailStaged
    <2>3. p.gen \in 1..MaxGen
      BY <2>2, ExtentFields
    <2>4. /\ extents \in Seq(Extent) /\ Disjoint(extents)
          /\ file \in [Cells -> {Torn, Hole} \cup 1..MaxGen]
      BY DEF IndInv, TypeOK, SortedDisjoint, Disjoint
    <2>5. \A c \in Cells : Within(c, p) => Owns(extents, c, p.gen)
      BY <1>3, <2>2, <2>4, CoversGeneration
    <2>6. \A c \in Cells, g \in 1..MaxGen :
             Owns(extents, c, g) <=> latest[c] = g /\ g \notin released
      BY <1>3 DEF IndInv, OwnInv
    <2>7. /\ extents' \in Seq(Extent) /\ Disjoint(extents')
          /\ \A c \in Cells, g \in 1..MaxGen :
                Owns(extents', c, g) <=> Owns(extents, c, g) /\ ~(g = p.gen /\ Within(c, p))
      BY <2>1, <2>2, <2>4, RemoveRange
    <2>8. \A c \in Cells : Within(c, p) => latest[c] = p.gen
      BY <2>3, <2>5, <2>6
    <2>9. TypeOK'
      <3>1. staged' \in Seq(Extent)
        BY <1>1, TailStaged
      <3> HIDE DEF p
      <3>2. file' \in [Cells -> {Torn, Hole} \cup 1..MaxGen]
        BY <2>1, <2>4
      <3>3. released' \subseteq 1..MaxGen
        BY <2>1, <2>3 DEF IndInv, TypeOK
      <3> QED BY <1>1, <1>3, <2>7, <3>1, <3>2, <3>3 DEF IndInv, TypeOK
    <2>10. SortedDisjoint'
      BY <2>7 DEF SortedDisjoint, Disjoint
    <2>11. StagedInv'
      <3>1. \A i \in 1..Len(staged') :
               /\ staged'[i].gen < nextGen'
               /\ \A c \in Cells : latest'[c] = staged'[i].gen => Within(c, staged'[i])
        BY <1>1, TailStaged
      <3>2. \A g \in released' : g < nextGen'
        BY <1>1, <2>1, <2>2 DEF IndInv, StagedInv
      <3>3. \A c \in Cells : latest'[c] < nextGen'
        BY <1>1 DEF IndInv, StagedInv
      <3> QED BY <3>1, <3>2, <3>3 DEF StagedInv
    <2> HIDE DEF p
    <2>12. OwnInv'
      <3>1. ASSUME NEW c \in Cells, NEW g \in 1..MaxGen
            PROVE  Owns(extents', c, g) <=> latest'[c] = g /\ g \notin released'
        BY <1>1, <2>1, <2>2, <2>6, <2>7
      <3> QED BY <3>1 DEF OwnInv
    <2>13. FileInv'
      <3>1. ASSUME NEW c \in Cells, latest'[c] \notin released' \cup {0}
            PROVE  file'[c] = latest'[c] \/ (file'[c] = Torn /\ faults' > 0)
        <4>1. latest[c] # p.gen /\ latest[c] \notin released \cup {0}
          BY <1>1, <2>1, <3>1
        <4>2. ~Within(c, p) /\ file'[c] = file[c]
          BY <2>1, <2>8, <4>1
        <4> QED BY <1>1, <1>3, <4>1, <4>2 DEF IndInv, FileInv
      <3> QED BY <3>1 DEF FileInv
    <2> QED BY <2>9, <2>10, <2>11, <2>12, <2>13 DEF IndInv
  <1> QED BY <1>2, <1>3

LEMMA CloseInv ==
  ASSUME IndInv, Close
  PROVE  IndInv'
  <1>1. /\ closed' = TRUE /\ extents' = <<>> /\ file' = [c \in Cells |-> Hole]
        /\ UNCHANGED <<nextGen, staged, faults, latest, released>>
    BY DEF Close
  <1>2. extents' \in Seq(Extent) /\ Disjoint(extents')
    BY <1>1, Empty
  <1>3. file' \in [Cells -> {Torn, Hole} \cup 1..MaxGen]
    BY <1>1
  <1>4. TypeOK'
    BY <1>1, <1>2, <1>3 DEF IndInv, TypeOK
  <1>5. SortedDisjoint' /\ OwnInv' /\ FileInv'
    BY <1>1, <1>2 DEF SortedDisjoint, Disjoint, OwnInv, FileInv
  <1>6. StagedInv'
    BY <1>1 DEF IndInv, StagedInv
  <1> QED BY <1>4, <1>5, <1>6 DEF IndInv

\* The inductive invariant.
THEOREM Inductive == Spec => []IndInv
  <1>1. IndInv /\ [Next]_vars => IndInv'
    <2> SUFFICES ASSUME IndInv, [Next]_vars PROVE IndInv'
      OBVIOUS
    <2>1. ASSUME NEW r \in Ranges, StageWrite(r) PROVE IndInv'
      BY <2>1, StageWriteInv
    <2>2. ASSUME NEW r \in Ranges, StageWriteFails(r) PROVE IndInv'
      BY <2>2, StageWriteFailsInv
    <2>3. CASE ReleaseIfCurrent
      BY <2>3, ReleaseInv
    <2>4. CASE KeepStaged
      BY <2>4, KeepStagedInv DEF KeepStaged
    <2>5. CASE Close
      BY <2>5, CloseInv
    <2>6. CASE UNCHANGED vars
      BY <2>6 DEF IndInv, TypeOK, SortedDisjoint, StagedInv, OwnInv, FileInv, vars
    <2> QED BY <2>1, <2>2, <2>3, <2>4, <2>5, <2>6 DEF Next
  <1> QED BY InitInv, <1>1, PTL DEF Spec

\* The types of shm.go's state, and a closed overlay holds no extent.
THEOREM TypesKept == Spec => []TypeOK
  BY Inductive, PTL DEF IndInv

\* "Sorted, non-overlapping overlay extents", after any overlaps, releases and failures.
THEOREM ExtentsSortedDisjoint == Spec => []SortedDisjoint
  BY Inductive, PTL DEF IndInv

\* Read-your-writes: ReadAt returns the last write staged, and only where it was not
\* released.
THEOREM ReadsLatestWrite == Spec => []ReadLatest
  <1>1. IndInv => ReadLatest
    <2> SUFFICES ASSUME IndInv, ~closed, NEW r \in Ranges
                 PROVE  LET overlaid == OverlaidCells(extents, r)
                        IN  /\ overlaid = {c \in Cells :
                                              Within(c, r) /\ latest[c] \notin released \cup {0}}
                            /\ \A c \in overlaid :
                                  file[c] = latest[c] \/ (file[c] = Torn /\ faults > 0)
      BY DEF ReadLatest
    <2>1. extents \in Seq(Extent) /\ Disjoint(extents) /\ latest \in [Cells -> 0..MaxGen]
      BY DEF IndInv, TypeOK, SortedDisjoint, Disjoint
    <2>2. OverlaidCells(extents, r) = InUpTo(extents, Len(extents), r)
      BY <2>1, OverlaidRight
    <2>3. ASSUME NEW c \in Cells
          PROVE  (\E i \in 1..Len(extents) : Within(c, extents[i]))
                   <=> latest[c] \notin released \cup {0}
      <3>1. \A g \in 1..MaxGen : Owns(extents, c, g) <=> latest[c] = g /\ g \notin released
        BY DEF IndInv, OwnInv
      <3>2. ASSUME NEW i \in 1..Len(extents), Within(c, extents[i])
            PROVE  latest[c] \notin released \cup {0}
        <4>1. extents[i].gen \in 1..MaxGen /\ Owns(extents, c, extents[i].gen)
          BY <2>1, <3>2, ExtentFields DEF Owns
        <4> QED BY <3>1, <4>1
      <3>3. ASSUME latest[c] \notin released \cup {0}
            PROVE  \E i \in 1..Len(extents) : Within(c, extents[i])
        <4>1. latest[c] \in 1..MaxGen
          BY <2>1, <3>3, Bounds
        <4>2. Owns(extents, c, latest[c])
          BY <3>1, <3>3, <4>1
        <4> QED BY <4>2 DEF Owns
      <3> QED BY <3>2, <3>3
    <2>4. OverlaidCells(extents, r)
            = {c \in Cells : Within(c, r) /\ latest[c] \notin released \cup {0}}
      BY <2>2, <2>3, Zenon DEF InUpTo
    <2>5. \A c \in OverlaidCells(extents, r) :
             file[c] = latest[c] \/ (file[c] = Torn /\ faults > 0)
      BY <2>4 DEF IndInv, FileInv
    <2> QED BY <2>4, <2>5
  <1> QED BY <1>1, Inductive, PTL

-----------------------------------------------------------------------------
(***************************************************************************)
(* The list of extents implements the map of Overlay.                      *)
(***************************************************************************)

\* What the map of Overlay holds for a cell, in terms of the history.
OwnerMap ==
    \A c \in Cells :
        OwnerOf(c) = IF closed \/ latest[c] \in released \cup {0} THEN 0 ELSE latest[c]

LEMMA OwnerIsLatest ==
  IndInv => OwnerMap
  <1> SUFFICES ASSUME IndInv, NEW c \in Cells
               PROVE  OwnerOf(c)
                        = IF closed \/ latest[c] \in released \cup {0} THEN 0 ELSE latest[c]
    BY DEF OwnerMap
  <1> DEFINE around == {i \in 1..Len(extents) : Within(c, extents[i])}
  <1>1. /\ extents \in Seq(Extent) /\ Disjoint(extents) /\ latest \in [Cells -> 0..MaxGen]
        /\ closed => extents = <<>>
    BY DEF IndInv, TypeOK, SortedDisjoint, Disjoint
  <1>2. OwnerOf(c) = IF around = {} THEN 0 ELSE extents[CHOOSE i \in around : TRUE].gen
    BY DEF OwnerOf
  <1>3. CASE closed
    <2>1. around = {}
      BY <1>1, <1>3
    <2> QED BY <1>2, <1>3, <2>1
  <1>4. CASE ~closed
    <2>1. \A g \in 1..MaxGen : Owns(extents, c, g) <=> latest[c] = g /\ g \notin released
      BY <1>4 DEF IndInv, OwnInv
    <2>2. CASE latest[c] \in released \cup {0}
      <3>1. ASSUME NEW i \in around PROVE FALSE
        <4>1. extents[i].gen \in 1..MaxGen /\ Owns(extents, c, extents[i].gen)
          BY <1>1, <3>1, ExtentFields DEF Owns
        <4> QED BY <2>1, <2>2, <4>1
      <3> HIDE DEF around
      <3> QED BY <1>2, <2>2, <3>1
    <2>3. CASE latest[c] \notin released \cup {0}
      <3>1. latest[c] \in 1..MaxGen
        BY <1>1, <2>3, Bounds
      <3>2. Owns(extents, c, latest[c])
        BY <2>1, <2>3, <3>1
      <3>3. around # {}
        BY <3>2 DEF Owns
      <3>4. ASSUME NEW i \in around PROVE extents[i].gen = latest[c]
        <4>1. extents[i].gen \in 1..MaxGen /\ Owns(extents, c, extents[i].gen)
          BY <1>1, <3>4, ExtentFields DEF Owns
        <4> QED BY <2>1, <4>1
      <3> HIDE DEF around
      <3>5. (CHOOSE i \in around : TRUE) \in around
        BY <3>3
      <3>6. OwnerOf(c) = latest[c]
        BY <1>2, <3>3, <3>4, <3>5
      <3> QED BY <1>4, <2>3, <3>6
    <2> QED BY <2>2, <2>3
  <1> QED BY <1>3, <1>4

\* Every step of the list of extents is a step of the map, or leaves it as it is.
THEOREM RefinesOverlay == Spec => ImplementsOverlay
  <1> DEFINE owner == [c \in Cells |-> OwnerOf(c)]
  <1>1. Init => Abstract!OverlayInit
    <2> SUFFICES ASSUME Init PROVE Abstract!OverlayInit
      OBVIOUS
    <2>1. OwnerMap
      BY InitInv, OwnerIsLatest
    <2>2. \A c \in Cells : OwnerOf(c) = 0
      BY <2>1 DEF Init, OwnerMap
    <2>3. nextGen = 1
      BY DEF Init
    <2> QED BY <2>2, <2>3 DEF Abstract!OverlayInit, Abstract!Cells, Cells
  <1>2. IndInv /\ IndInv' /\ [Next]_vars => [Abstract!OverlayNext]_Abstract!overlayVars
    <2> SUFFICES ASSUME IndInv, OwnerMap, OwnerMap', [Next]_vars
                 PROVE  [Abstract!OverlayNext]_Abstract!overlayVars
      <3>1. IndInv' => OwnerMap'
        BY OwnerIsLatest, PTL
      <3> QED BY <3>1, OwnerIsLatest
    <2>1. /\ latest \in [Cells -> 0..MaxGen] /\ nextGen \in 1..(MaxGen + 1)
          /\ extents \in Seq(Extent) /\ Disjoint(extents)
      BY DEF IndInv, TypeOK, SortedDisjoint, Disjoint
    <2>2. ASSUME NEW r \in Ranges, StageWrite(r) PROVE Abstract!OverlayNext
      <3>1. /\ ~closed /\ closed' = closed /\ released' = released /\ nextGen' = nextGen + 1
            /\ latest' = [c \in Cells |-> IF Within(c, r) THEN nextGen ELSE latest[c]]
        BY <2>2 DEF StageWrite
      <3>2. nextGen \notin released \cup {0}
        <4>1. \A g \in released : g < nextGen
          BY DEF IndInv, StagedInv
        <4> QED BY <2>1, <4>1
      <3>3. ASSUME NEW c \in Cells
            PROVE  OwnerOf(c)' = IF Within(c, r) THEN nextGen ELSE OwnerOf(c)
        <4>1. OwnerOf(c)' = IF closed' \/ latest'[c] \in released' \cup {0} THEN 0 ELSE latest'[c]
          BY DEF OwnerMap
        <4>2. OwnerOf(c) = IF closed \/ latest[c] \in released \cup {0} THEN 0 ELSE latest[c]
          BY DEF OwnerMap
        <4> QED BY <3>1, <3>2, <4>1, <4>2
      <3>4. owner' = [c \in Cells |-> IF Within(c, r) THEN nextGen ELSE owner[c]]
        BY <3>3
      <3>5. Abstract!Stage(r)
        BY <3>1, <3>4 DEF Abstract!Stage, Abstract!Cells, Abstract!Within, Cells, Within
      <3> QED BY <3>5 DEF Abstract!OverlayNext, Abstract!Ranges, Ranges
    <2>3. ASSUME UNCHANGED <<closed, latest, released, nextGen>>
          PROVE  UNCHANGED Abstract!overlayVars
      <3>1. \A c \in Cells : OwnerOf(c)' = OwnerOf(c)
        BY <2>3 DEF OwnerMap
      <3>2. owner' = owner
        BY <3>1
      <3> QED BY <2>3, <3>2 DEF Abstract!overlayVars
    <2>4. CASE ReleaseIfCurrent
      <3> DEFINE p == Head(staged)
                 r == [start |-> p.start, end |-> p.end]
      <3>1. staged # <<>> /\ staged' = Tail(staged) /\ UNCHANGED <<nextGen, closed, latest>>
        BY <2>4 DEF ReleaseIfCurrent
      <3>2. CASE ~(~closed /\ coversGenerationLocked(extents, p))
        <4>1. released' = released
          BY <2>4, <3>2 DEF ReleaseIfCurrent
        <4> QED BY <2>3, <3>1, <4>1
      <3>3. CASE ~closed /\ coversGenerationLocked(extents, p)
        <4>1. released' = released \cup {p.gen}
          BY <2>4, <3>3 DEF ReleaseIfCurrent
        <4>2. /\ p \in Extent /\ p.gen < nextGen
              /\ \A c \in Cells : latest[c] = p.gen => Within(c, p)
          BY <3>1, TailStaged
        <4>3. \A c \in Cells : Within(c, p) => Owns(extents, c, p.gen)
          BY <2>1, <3>3, <4>2, CoversGeneration
        <4>4. p.gen \in 1..MaxGen /\ p.gen \in 1..(nextGen - 1) /\ p.gen # 0
          BY <2>1, <4>2, ExtentFields
        <4>5. \A c \in Cells : Within(c, p) => latest[c] = p.gen /\ p.gen \notin released
          BY <3>3, <4>3, <4>4 DEF IndInv, OwnInv
        <4>6. r \in Ranges /\ \A c : Within(c, r) <=> Within(c, p)
          BY <4>2, ExtentFields DEF Ranges, Within
        <4> HIDE DEF p, r
        <4>7. \A c \in Cells : Within(c, r) => OwnerOf(c) = p.gen
          BY <3>3, <4>4, <4>5, <4>6 DEF OwnerMap
        <4>8. ASSUME NEW c \in Cells
              PROVE  OwnerOf(c)' = IF Within(c, r) THEN 0 ELSE OwnerOf(c)
          <5>1. OwnerOf(c)' = IF closed' \/ latest'[c] \in released' \cup {0} THEN 0 ELSE latest'[c]
            BY DEF OwnerMap
          <5>2. OwnerOf(c) = IF closed \/ latest[c] \in released \cup {0} THEN 0 ELSE latest[c]
            BY DEF OwnerMap
          <5> QED BY <3>1, <4>1, <4>2, <4>5, <4>6, <5>1, <5>2
        <4>9. owner' = [c \in Cells |-> IF Within(c, r) THEN 0 ELSE owner[c]]
          BY <4>8
        <4>10. Abstract!Current(r, p.gen)
          BY <4>7 DEF Abstract!Current, Abstract!Cells, Abstract!Within, Cells, Within
        <4>11. Abstract!Release(r, p.gen)
          BY <3>1, <4>4, <4>9, <4>10
             DEF Abstract!Release, Abstract!Cells, Abstract!Within, Cells, Within
        <4> QED BY <4>4, <4>6, <4>11 DEF Abstract!OverlayNext, Abstract!Ranges, Ranges
      <3> QED BY <3>2, <3>3
    <2>5. CASE Close
      <3>1. closed' = TRUE /\ nextGen' = nextGen
        BY <2>5 DEF Close
      <3>2. \A c \in Cells : OwnerOf(c)' = 0
        BY <3>1 DEF OwnerMap
      <3>3. owner' = [c \in Cells |-> 0]
        BY <3>2
      <3>4. Abstract!Discard
        BY <3>1, <3>3 DEF Abstract!Discard, Abstract!Cells, Cells
      <3> QED BY <3>4 DEF Abstract!OverlayNext
    <2>6. ASSUME NEW r \in Ranges, StageWriteFails(r) PROVE UNCHANGED Abstract!overlayVars
      BY <2>3, <2>6 DEF StageWriteFails
    <2>7. CASE KeepStaged
      BY <2>3, <2>7 DEF KeepStaged
    <2>8. CASE UNCHANGED vars
      BY <2>3, <2>8 DEF vars
    <2> QED BY <2>2, <2>4, <2>5, <2>6, <2>7, <2>8 DEF Next
  <1> QED BY <1>1, <1>2, Inductive, PTL DEF Spec, ImplementsOverlay, Abstract!OverlaySpec
=============================================================================
