--------------------------- MODULE TSScannerProofs ---------------------------
(***************************************************************************)
(* TSScanner: its buffer is bounded, its chunks are whole packets of what  *)
(* the host wrote, no packet of a stream is missed, and it implements      *)
(* Classification, for every size of packets, probes, chunks and disk and  *)
(* however the host splits a stream into writes.                           *)
(*                                                                         *)
(* The first part is about the bytes of a run and the tests on them, the   *)
(* second about the loop of emit, the third about the steps of the model.  *)
(***************************************************************************)
EXTENDS TSScanner, LoopTheorems, SequenceTheorems

-----------------------------------------------------------------------------
(***************************************************************************)
(* Sizes.                                                                  *)
(***************************************************************************)
LEMMA Sizes ==
  /\ PacketSize \in Nat \ {0} /\ PacketSize >= 2 /\ AfcOffset \in 1..(PacketSize - 1)
  /\ ProbePackets \in Nat \ {0} /\ MaxBroadcastPackets \in Nat \ {0}
  /\ ProbeSize \in Nat /\ ProbeSize >= PacketSize
  /\ TailSize \in Nat /\ TailSize = ProbeSize - 1
  /\ Size \in Nat \ {0}
  <1>1. /\ PacketSize \in Nat \ {0} /\ AfcOffset \in 1..(PacketSize - 1)
        /\ ProbePackets \in Nat \ {0} /\ MaxBroadcastPackets \in Nat \ {0}
    BY PacketAssumption
  <1>2. PacketSize * ProbePackets \in Nat /\ PacketSize * ProbePackets >= PacketSize
    BY <1>1
  <1> QED BY <1>1, <1>2, SizeAssumption DEF ProbeSize, TailSize

\* The packets of a probe.
LEMMA PacketOffsets ==
  /\ \A k \in Nat : k * PacketSize \in Nat /\ (k + 1) * PacketSize = k * PacketSize + PacketSize
  /\ \A k \in 0..(ProbePackets - 1) : k * PacketSize + PacketSize <= ProbeSize
  /\ (ProbePackets - 1) * PacketSize + PacketSize = ProbeSize
  <1>1. PacketSize \in Nat \ {0} /\ ProbePackets \in Nat \ {0}
    BY Sizes
  <1>2. ASSUME NEW k \in Nat
        PROVE  k * PacketSize \in Nat /\ (k + 1) * PacketSize = k * PacketSize + PacketSize
    BY <1>1
  <1>3. ASSUME NEW k \in 0..(ProbePackets - 1)
        PROVE  k * PacketSize + PacketSize <= PacketSize * ProbePackets
    <2>1. (k + 1) * PacketSize <= ProbePackets * PacketSize
      BY <1>1
    <2> QED BY <1>1, <1>2, <2>1
  <1>4. (ProbePackets - 1) * PacketSize + PacketSize = PacketSize * ProbePackets
    BY <1>1
  <1> QED BY <1>2, <1>3, <1>4 DEF ProbeSize

-----------------------------------------------------------------------------
(***************************************************************************)
(* Bytes.                                                                  *)
(***************************************************************************)
LEMMA DropFacts ==
  ASSUME NEW b \in Seq(Bytes), NEW n \in 0..Len(b)
  PROVE  /\ Drop(b, n) \in Seq(Bytes) /\ Len(Drop(b, n)) = Len(b) - n
         /\ \A i \in 1..(Len(b) - n) : Drop(b, n)[i] = b[n + i]
  <1>1. Len(b) \in Nat /\ n \in Nat /\ n <= Len(b) /\ n + 1 \in 1..(Len(b) + 1)
    OBVIOUS
  <1>2. \A i \in (n + 1)..Len(b) : b[i] \in Bytes
    BY <1>1
  <1> DEFINE m == n + 1
             l == Len(b)
  <1>3. m \in Nat /\ l \in Nat /\ \A i \in m..l : b[i] \in Bytes
    BY <1>1, <1>2
  <1>4. Drop(b, n) = SubSeq(b, m, l)
    BY DEF Drop
  <1> HIDE DEF m, l
  <1>5. /\ SubSeq(b, m, l) \in Seq(Bytes)
        /\ Len(SubSeq(b, m, l)) = IF m <= l THEN l - m + 1 ELSE 0
        /\ \A i \in 1..(l - m + 1) : SubSeq(b, m, l)[i] = b[m + i - 1]
    BY <1>3, SubSeqProperties
  <1>6. (IF m <= l THEN l - m + 1 ELSE 0) = Len(b) - n /\ l - m + 1 = Len(b) - n
    BY <1>1 DEF m, l
  <1>7. \A i \in 1..(Len(b) - n) : m + i - 1 = n + i
    BY <1>1 DEF m
  <1> QED BY <1>4, <1>5, <1>6, <1>7, Zenon

\* Two lists of the same length with the same elements are the same.
LEMMA SameBytes ==
  ASSUME NEW a \in Seq(Bytes), NEW b \in Seq(Bytes), Len(a) = Len(b),
         \A i \in 1..Len(a) : a[i] = b[i]
  PROVE  a = b
  OBVIOUS

LEMMA DropDrop ==
  ASSUME NEW b \in Seq(Bytes), NEW n \in 0..Len(b), NEW m \in 0..(Len(b) - n)
  PROVE  Drop(Drop(b, n), m) = Drop(b, n + m)
  <1>1. Len(b) \in Nat /\ n \in Nat /\ m \in Nat /\ n + m \in 0..Len(b)
    OBVIOUS
  <1>2. /\ Drop(b, n) \in Seq(Bytes) /\ Len(Drop(b, n)) = Len(b) - n
        /\ \A i \in 1..(Len(b) - n) : Drop(b, n)[i] = b[n + i]
    BY DropFacts
  <1>3. /\ Drop(b, n + m) \in Seq(Bytes) /\ Len(Drop(b, n + m)) = Len(b) - (n + m)
        /\ \A i \in 1..(Len(b) - (n + m)) : Drop(b, n + m)[i] = b[n + m + i]
    BY <1>1, DropFacts
  <1> DEFINE d == Drop(b, n)
  <1> HIDE DEF d
  <1>2a. d \in Seq(Bytes) /\ Len(d) = Len(b) - n /\ \A i \in 1..(Len(b) - n) : d[i] = b[n + i]
    BY <1>2 DEF d
  <1>4. d \in Seq(Bytes) /\ m \in 0..Len(d)
    BY <1>1, <1>2a
  <1>5. /\ Drop(d, m) \in Seq(Bytes) /\ Len(Drop(d, m)) = Len(d) - m
        /\ \A i \in 1..(Len(d) - m) : Drop(d, m)[i] = d[m + i]
    BY <1>4, DropFacts
  <1>6. Len(Drop(d, m)) = Len(Drop(b, n + m))
    <2>1. Len(Drop(d, m)) = Len(d) - m /\ Len(d) = Len(b) - n
          /\ Len(Drop(b, n + m)) = Len(b) - (n + m)
      BY <1>2a, <1>3, <1>5
    <2> QED BY <1>1, <2>1
  <1>7. ASSUME NEW i \in 1..Len(Drop(d, m)) PROVE Drop(d, m)[i] = Drop(b, n + m)[i]
    <2>1. i \in 1..(Len(d) - m) /\ m + i \in 1..(Len(b) - n) /\ i \in 1..(Len(b) - (n + m))
      BY <1>1, <1>2a, <1>5
    <2>2. Drop(d, m)[i] = d[m + i] /\ d[m + i] = b[n + (m + i)]
      BY <1>2a, <1>5, <2>1
    <2>3. n + (m + i) = n + m + i
      BY <1>1
    <2> QED BY <1>3, <2>1, <2>2, <2>3
  <1>8. Drop(d, m) = Drop(b, n + m)
    BY <1>3, <1>5, <1>6, <1>7, SameBytes
  <1> QED BY <1>8 DEF d

LEMMA ConcatFacts ==
  ASSUME NEW a \in Seq(Bytes), NEW d \in Seq(Bytes)
  PROVE  /\ a \o d \in Seq(Bytes) /\ Len(a \o d) = Len(a) + Len(d)
         /\ \A i \in 1..Len(a) : (a \o d)[i] = a[i]
         /\ \A i \in (Len(a) + 1)..(Len(a) + Len(d)) : (a \o d)[i] = d[i - Len(a)]
  <1>1. a \o d \in Seq(Bytes) /\ Len(a \o d) = Len(a) + Len(d) /\ Len(a) \in Nat /\ Len(d) \in Nat
    OBVIOUS
  <1>2. \A i \in 1..Len(a) : (a \o d)[i] = a[i]
    BY <1>1
  <1>3. \A i \in (Len(a) + 1)..(Len(a) + Len(d)) : (a \o d)[i] = d[i - Len(a)]
    BY <1>1
  <1> QED BY <1>1, <1>2, <1>3

LEMMA DropConcat ==
  ASSUME NEW b \in Seq(Bytes), NEW d \in Seq(Bytes), NEW n \in 0..Len(b)
  PROVE  Drop(b, n) \o d = Drop(b \o d, n)
  <1>1. Len(b) \in Nat /\ Len(d) \in Nat /\ n \in Nat
    OBVIOUS
  <1>2. /\ b \o d \in Seq(Bytes) /\ Len(b \o d) = Len(b) + Len(d) /\ n \in 0..Len(b \o d)
    BY <1>1
  <1>3. /\ Drop(b, n) \in Seq(Bytes) /\ Len(Drop(b, n)) = Len(b) - n
        /\ \A i \in 1..(Len(b) - n) : Drop(b, n)[i] = b[n + i]
    BY DropFacts
  <1>4. /\ Drop(b \o d, n) \in Seq(Bytes) /\ Len(Drop(b \o d, n)) = Len(b \o d) - n
        /\ \A i \in 1..(Len(b \o d) - n) : Drop(b \o d, n)[i] = (b \o d)[n + i]
    BY <1>2, DropFacts
  <1>4a. \A i \in 1..Len(b) : (b \o d)[i] = b[i]
    BY ConcatFacts
  <1>4b. \A i \in (Len(b) + 1)..(Len(b) + Len(d)) : (b \o d)[i] = d[i - Len(b)]
    BY ConcatFacts
  <1> DEFINE e == Drop(b, n)
             c == b \o d
             g == Drop(c, n)
             x == Len(b)
             y == Len(d)
  <1> HIDE DEF e, g, c, x, y
  <1>5. /\ e \in Seq(Bytes) /\ Len(e) = x - n /\ g \in Seq(Bytes) /\ Len(g) = x + y - n
        /\ x \in Nat /\ y \in Nat /\ n \in 0..x /\ d \in Seq(Bytes) /\ Len(d) = y
        /\ \A i \in 1..(x - n) : e[i] = b[n + i]
        /\ \A i \in 1..(x + y - n) : g[i] = c[n + i]
        /\ \A i \in 1..x : c[i] = b[i]
        /\ \A i \in (x + 1)..(x + y) : c[i] = d[i - x]
    BY <1>1, <1>2, <1>3, <1>4, <1>4a, <1>4b DEF e, g, c, x, y
  <1>5a. x \in Nat /\ y \in Nat /\ n \in 0..x
    BY <1>5
  <1>6. /\ e \o d \in Seq(Bytes) /\ Len(e \o d) = x - n + y
        /\ \A i \in 1..(x - n) : (e \o d)[i] = e[i]
        /\ \A i \in (x - n + 1)..(x - n + y) : (e \o d)[i] = d[i - (x - n)]
    <2>1. e \in Seq(Bytes) /\ d \in Seq(Bytes) /\ Len(e) = x - n /\ Len(d) = y
      BY <1>5
    <2>2. /\ e \o d \in Seq(Bytes) /\ Len(e \o d) = Len(e) + Len(d)
          /\ \A i \in 1..Len(e) : (e \o d)[i] = e[i]
          /\ \A i \in (Len(e) + 1)..(Len(e) + Len(d)) : (e \o d)[i] = d[i - Len(e)]
      BY <2>1, ConcatFacts
    <2> QED BY <2>1, <2>2, Zenon
  <1>7. ASSUME NEW i \in 1..(x - n + y) PROVE (e \o d)[i] = g[i]
    <2>1. CASE i <= x - n
      BY <1>5, <1>6, <2>1
    <2>2. CASE i > x - n
      <3>1. (e \o d)[i] = d[i - (x - n)]
        BY <1>5, <1>6, <2>2
      <3>2. i \in 1..(x + y - n) /\ n + i \in (x + 1)..(x + y) /\ n + i - x = i - (x - n)
        BY <1>5a, <2>2
      <3>3. g[i] = c[n + i] /\ c[n + i] = d[n + i - x]
        <4>1. g[i] = c[n + i]
          BY <1>5, <3>2
        <4> DEFINE j == n + i
        <4>2. j \in (x + 1)..(x + y)
          BY <3>2
        <4> HIDE DEF j
        <4>3. c[j] = d[j - x]
          BY <1>5, <4>2
        <4>4. n + i - x = j - x
          BY <1>5a DEF j
        <4> QED BY <4>1, <4>3, <4>4 DEF j
      <3> QED BY <3>1, <3>2, <3>3
    <2> QED BY <1>5, <2>1, <2>2
  <1>7a. x - n + y = x + y - n
    BY <1>5
  <1>8. e \o d = g
    BY <1>5, <1>6, <1>7, <1>7a, SameBytes
  <1> QED BY <1>8 DEF e, g, c

-----------------------------------------------------------------------------
(***************************************************************************)
(* Runs.  A run is what the history variable run holds; b begins at cell s *)
(* of run r and goes on to its end.                                        *)
(***************************************************************************)
Runs == [start : Nat, bytes : Seq(Bytes)]
End(r) == r.start + Len(r.bytes)
PacketIn(r, c) ==
    /\ r.start <= c /\ c + PacketSize <= End(r)
    /\ r.bytes[c - r.start + 1] = "sync" /\ r.bytes[c - r.start + AfcOffset + 1] = "afc"
ProbeIn(r, c) == \A k \in 0..(ProbePackets - 1) : PacketIn(r, c + k * PacketSize)
TailOf(b, s, r) ==
    /\ s \in Nat /\ r.start <= s /\ s + Len(b) = End(r) /\ b = Drop(r.bytes, s - r.start)

LEMMA RunFields ==
  ASSUME NEW r \in Runs
  PROVE  /\ r.start \in Nat /\ r.bytes \in Seq(Bytes) /\ Len(r.bytes) \in Nat
         /\ End(r) \in Nat /\ r.start <= End(r) /\ End(r) - r.start = Len(r.bytes)
  BY DEF Runs, End

LEMMA TailFacts ==
  ASSUME NEW r \in Runs, NEW b, NEW s, TailOf(b, s, r)
  PROVE  /\ b \in Seq(Bytes) /\ s \in Nat /\ Len(b) \in Nat /\ s - r.start \in 0..Len(r.bytes)
         /\ Len(b) = Len(r.bytes) - (s - r.start)
         /\ \A i \in 1..Len(b) : b[i] = r.bytes[s - r.start + i]
  <1>1. /\ r.start \in Nat /\ r.bytes \in Seq(Bytes) /\ Len(r.bytes) \in Nat
    BY RunFields
  <1>2. s \in Nat /\ r.start <= s /\ s + Len(b) = r.start + Len(r.bytes) /\ b = Drop(r.bytes, s - r.start)
    BY DEF TailOf, End
  <1>3. CASE s - r.start <= Len(r.bytes)
    <2>1. s - r.start \in 0..Len(r.bytes)
      BY <1>1, <1>2, <1>3
    <2> DEFINE n == s - r.start
    <2> HIDE DEF n
    <2>2. n \in 0..Len(r.bytes) /\ b = Drop(r.bytes, n)
      BY <1>2, <2>1 DEF n
    <2>3. /\ b \in Seq(Bytes) /\ Len(b) = Len(r.bytes) - n
          /\ \A i \in 1..(Len(r.bytes) - n) : b[i] = r.bytes[n + i]
      BY <1>1, <2>2, DropFacts
    <2>4. Len(b) \in Nat
      BY <2>3
    <2> QED BY <1>2, <2>1, <2>3, <2>4 DEF n
  <1>4. CASE ~(s - r.start <= Len(r.bytes))
    <2> DEFINE n == s - r.start
               l == Len(r.bytes)
    <2>1. n \in Nat /\ l \in Nat /\ n > l
      BY <1>1, <1>2, <1>4
    <2>2. b = SubSeq(r.bytes, n + 1, l)
      BY <1>2 DEF Drop
    <2> HIDE DEF n, l
    <2>3. Len(b) = 0
      <3>1. n + 1 \in Nat /\ \A i \in (n + 1)..l : r.bytes[i] \in Bytes
        BY <2>1
      <3> DEFINE m == n + 1
      <3> HIDE DEF m
      <3>2. b = SubSeq(r.bytes, m, l) /\ m \in Nat /\ \A i \in m..l : r.bytes[i] \in Bytes
        BY <2>2, <3>1 DEF m
      <3>3. Len(SubSeq(r.bytes, m, l)) = IF m <= l THEN l - m + 1 ELSE 0
        BY <1>1, <2>1, <3>2, SubSeqProperties
      <3> QED BY <2>1, <3>2, <3>3 DEF m
    <2> QED BY <1>1, <1>2, <2>1, <2>3 DEF n, l
  <1> QED BY <1>1, <1>2, <1>3, <1>4

\* The tests of the code on b are about the packets of the run.
LEMMA ValidIsPacket ==
  ASSUME NEW r \in Runs, NEW b, NEW s, TailOf(b, s, r), NEW i \in Nat
  PROVE  validTSPacket(b, i) <=> PacketIn(r, s + i)
  <1>1. /\ b \in Seq(Bytes) /\ s \in Nat /\ Len(b) \in Nat /\ s - r.start \in 0..Len(r.bytes)
        /\ Len(b) = Len(r.bytes) - (s - r.start)
    BY TailFacts
  <1>2. \A j \in 1..Len(b) : b[j] = r.bytes[s - r.start + j]
    BY TailFacts
  <1>3. /\ r.start \in Nat /\ Len(r.bytes) \in Nat /\ End(r) = r.start + Len(r.bytes)
        /\ AfcOffset \in 1..(PacketSize - 1) /\ PacketSize \in Nat
    BY RunFields, Sizes DEF End
  <1>3a. s \in Nat /\ Len(b) \in Nat /\ r.start <= s /\ s + Len(b) = End(r) /\ End(r) \in Nat
    BY <1>1, RunFields DEF TailOf
  <1>4. Len(b) - i >= PacketSize <=> r.start <= s + i /\ s + i + PacketSize <= End(r)
    BY <1>3, <1>3a
  <1>5. CASE Len(b) - i >= PacketSize
    <2>1. i + 1 \in 1..Len(b) /\ i + AfcOffset + 1 \in 1..Len(b)
      BY <1>1, <1>3, <1>5
    <2>2. /\ s - r.start + (i + 1) = (s + i) - r.start + 1
          /\ s - r.start + (i + AfcOffset + 1) = (s + i) - r.start + AfcOffset + 1
      BY <1>3, <1>3a
    <2>3. b[i + 1] = r.bytes[(s + i) - r.start + 1]
      BY <1>2, <2>1, <2>2
    <2>4. b[i + AfcOffset + 1] = r.bytes[(s + i) - r.start + AfcOffset + 1]
      BY <1>2, <2>1, <2>2
    <2>5. r.start <= s + i /\ s + i + PacketSize <= End(r)
      BY <1>4, <1>5
    <2> DEFINE x == b[i + 1]
               y == b[i + AfcOffset + 1]
    <2> HIDE DEF x, y
    <2>6. validTSPacket(b, i) <=> x = "sync" /\ y = "afc"
      BY <1>5 DEF validTSPacket, x, y
    <2>7. PacketIn(r, s + i) <=> x = "sync" /\ y = "afc"
      <3>1. x = r.bytes[(s + i) - r.start + 1] /\ y = r.bytes[(s + i) - r.start + AfcOffset + 1]
        BY <2>3, <2>4 DEF x, y
      <3> QED BY <2>5, <3>1 DEF PacketIn
    <2> QED BY <2>6, <2>7
  <1>6. CASE ~(Len(b) - i >= PacketSize)
    BY <1>4, <1>6, Zenon DEF validTSPacket, PacketIn
  <1> QED BY <1>5, <1>6

LEMMA ProbeIsProbe ==
  ASSUME NEW r \in Runs, NEW b, NEW s, TailOf(b, s, r), NEW i \in Nat
  PROVE  Probe(b, i) <=> ProbeIn(r, s + i)
  <1>1. ASSUME NEW k \in 0..(ProbePackets - 1)
        PROVE  validTSPacket(b, i + k * PacketSize) <=> PacketIn(r, s + i + k * PacketSize)
    <2>1. k * PacketSize \in Nat /\ s \in Nat
      BY PacketOffsets DEF TailOf
    <2> DEFINE m == k * PacketSize
    <2> HIDE DEF m
    <2>2. i + m \in Nat /\ s + (i + m) = s + i + m
      BY <2>1 DEF m
    <2>3. validTSPacket(b, i + m) <=> PacketIn(r, s + (i + m))
      BY <2>2, ValidIsPacket
    <2> QED BY <2>2, <2>3 DEF m
  <1> QED BY <1>1, Zenon DEF Probe, ProbeIn

\* A probe has room, and its first packet is where it begins.
LEMMA ProbeFits ==
  ASSUME NEW r \in Runs, NEW c \in Int, ProbeIn(r, c)
  PROVE  r.start <= c /\ c + ProbeSize <= End(r) /\ PacketIn(r, c)
  <1>1. ProbePackets - 1 \in 0..(ProbePackets - 1) /\ 0 \in 0..(ProbePackets - 1)
        /\ PacketSize \in Nat /\ ProbeSize \in Nat /\ End(r) \in Nat
    BY Sizes, RunFields
  <1>2. PacketIn(r, c + (ProbePackets - 1) * PacketSize) /\ PacketIn(r, c + 0 * PacketSize)
    BY <1>1 DEF ProbeIn
  <1>3. (ProbePackets - 1) * PacketSize + PacketSize = ProbeSize /\ c + 0 * PacketSize = c
    BY <1>1, PacketOffsets
  <1>4. (ProbePackets - 1) * PacketSize \in Nat
    BY <1>1, PacketOffsets
  <1>5. c + (ProbePackets - 1) * PacketSize + PacketSize <= End(r)
    BY <1>2 DEF PacketIn
  <1> DEFINE m == (ProbePackets - 1) * PacketSize
  <1> HIDE DEF m
  <1>6. c + ProbeSize <= End(r)
    <2>1. c + m + PacketSize <= End(r) /\ m + PacketSize = ProbeSize /\ m \in Nat
      BY <1>3, <1>4, <1>5 DEF m
    <2> QED BY <1>1, <2>1
  <1>7. PacketIn(r, c)
    BY <1>2, <1>3
  <1> QED BY <1>6, <1>7 DEF PacketIn

\* A run that grows keeps its packets, and what was not one where there was room.
LEMMA RunGrows ==
  ASSUME NEW r \in Runs, NEW data \in Seq(Bytes),
         NEW q, q = [start |-> r.start, bytes |-> r.bytes \o data]
  PROVE  /\ q \in Runs /\ q.start = r.start /\ q.bytes = r.bytes \o data
         /\ End(q) = End(r) + Len(data)
         /\ \A c \in Int : PacketIn(r, c) => PacketIn(q, c)
         /\ \A c \in Int : c + PacketSize <= End(r) => (PacketIn(q, c) <=> PacketIn(r, c))
         /\ \A c \in Int : ProbeIn(r, c) => ProbeIn(q, c)
         /\ \A c \in Int : c + ProbeSize <= End(r) => (ProbeIn(q, c) <=> ProbeIn(r, c))
         /\ \A b, s : TailOf(b, s, r) => TailOf(b \o data, s, q)
  <1>1. /\ r.start \in Nat /\ r.bytes \in Seq(Bytes) /\ Len(r.bytes) \in Nat /\ Len(data) \in Nat
        /\ End(r) = r.start + Len(r.bytes)
    BY RunFields DEF End
  <1>2. /\ r.bytes \o data \in Seq(Bytes) /\ Len(r.bytes \o data) = Len(r.bytes) + Len(data)
        /\ \A i \in 1..Len(r.bytes) : (r.bytes \o data)[i] = r.bytes[i]
    BY <1>1, ConcatFacts
  <1>3. /\ q \in Runs /\ q.start = r.start /\ q.bytes = r.bytes \o data
        /\ End(q) = End(r) + Len(data)
    BY <1>1, <1>2 DEF Runs, End
  <1>4. PacketSize \in Nat /\ AfcOffset \in 1..(PacketSize - 1) /\ ProbeSize \in Nat
    BY Sizes
  <1>5. ASSUME NEW c \in Int, c + PacketSize <= End(r)
        PROVE  PacketIn(q, c) <=> PacketIn(r, c)
    <2>1. CASE r.start <= c
      <3>1. /\ c - r.start + 1 \in 1..Len(r.bytes)
            /\ c - r.start + AfcOffset + 1 \in 1..Len(r.bytes)
        <4>1. r.start \in Nat /\ Len(r.bytes) \in Nat /\ c + PacketSize <= r.start + Len(r.bytes)
          BY <1>1, <1>5
        <4> DEFINE x == r.start
                   l == Len(r.bytes)
        <4>2. x \in Nat /\ l \in Nat /\ c + PacketSize <= x + l /\ x <= c
          BY <2>1, <4>1
        <4> HIDE DEF x, l
        <4>3. c - x + 1 \in 1..l /\ c - x + AfcOffset + 1 \in 1..l
          BY <1>4, <4>2
        <4> QED BY <4>3 DEF x, l
      <3>2. /\ q.bytes[c - r.start + 1] = r.bytes[c - r.start + 1]
            /\ q.bytes[c - r.start + AfcOffset + 1] = r.bytes[c - r.start + AfcOffset + 1]
        BY <1>2, <1>3, <3>1
      <3>3. c + PacketSize <= End(q)
        BY <1>1, <1>3, <1>4, <1>5
      <3> QED BY <1>3, <1>5, <3>2, <3>3, Zenon DEF PacketIn
    <2>2. CASE ~(r.start <= c)
      BY <1>3, <2>2, Zenon DEF PacketIn
    <2> QED BY <2>1, <2>2
  <1>6. ASSUME NEW c \in Int, PacketIn(r, c) PROVE PacketIn(q, c)
    BY <1>5, <1>6 DEF PacketIn
  <1>7. \A c \in Int : \A k \in 0..(ProbePackets - 1) : c + k * PacketSize \in Int
    <2>1. \A k \in 0..(ProbePackets - 1) : k * PacketSize \in Nat
      BY PacketOffsets
    <2> QED BY <2>1
  <1>8. ASSUME NEW c \in Int, ProbeIn(r, c) PROVE ProbeIn(q, c)
    BY <1>6, <1>7, <1>8 DEF ProbeIn
  <1>9. ASSUME NEW c \in Int, c + ProbeSize <= End(r) PROVE ProbeIn(q, c) <=> ProbeIn(r, c)
    <2>1. ASSUME NEW k \in 0..(ProbePackets - 1)
          PROVE  PacketIn(q, c + k * PacketSize) <=> PacketIn(r, c + k * PacketSize)
      <3>1. k * PacketSize \in Nat /\ k * PacketSize + PacketSize <= ProbeSize
        BY PacketOffsets
      <3> DEFINE m == k * PacketSize
      <3> HIDE DEF m
      <3>2. c + m \in Int /\ c + m + PacketSize <= End(r)
        BY <1>1, <1>4, <1>9, <3>1 DEF m
      <3>3. PacketIn(q, c + m) <=> PacketIn(r, c + m)
        BY <1>5, <3>2
      <3> QED BY <3>3 DEF m
    <2> QED BY <2>1, Zenon DEF ProbeIn
  <1>10. ASSUME NEW b, NEW s, TailOf(b, s, r) PROVE TailOf(b \o data, s, q)
    <2>1. b \in Seq(Bytes) /\ Len(b) \in Nat /\ s \in Nat /\ s - r.start \in 0..Len(r.bytes)
      BY <1>10, TailFacts
    <2>2. r.start <= s /\ s + Len(b) = End(r) /\ b = Drop(r.bytes, s - r.start)
      BY <1>10 DEF TailOf
    <2>3. Len(b \o data) = Len(b) + Len(data)
      BY <2>1, ConcatFacts
    <2> DEFINE n == s - r.start
    <2> HIDE DEF n
    <2>4. Drop(r.bytes, n) \o data = Drop(r.bytes \o data, n)
      BY <1>1, <2>1, DropConcat DEF n
    <2>5. b \o data = Drop(q.bytes, s - q.start)
      BY <1>3, <2>2, <2>4 DEF n
    <2>6. s + Len(b \o data) = End(q)
      BY <1>1, <1>3, <2>1, <2>2, <2>3
    <2> QED BY <1>3, <2>1, <2>2, <2>5, <2>6 DEF TailOf
  <1> QED BY <1>3, <1>5, <1>6, <1>8, <1>9, <1>10

\* A part of b is the end of the same run.
LEMMA TailDrop ==
  ASSUME NEW r \in Runs, NEW b, NEW s, TailOf(b, s, r), NEW n \in 0..Len(b)
  PROVE  TailOf(Drop(b, n), s + n, r) /\ Len(Drop(b, n)) = Len(b) - n
  <1>1. /\ b \in Seq(Bytes) /\ s \in Nat /\ Len(b) \in Nat /\ s - r.start \in 0..Len(r.bytes)
        /\ Len(b) = Len(r.bytes) - (s - r.start)
    BY TailFacts
  <1>2. r.start <= s /\ s + Len(b) = End(r) /\ b = Drop(r.bytes, s - r.start)
    BY DEF TailOf
  <1>3. r.start \in Nat /\ r.bytes \in Seq(Bytes) /\ Len(r.bytes) \in Nat /\ End(r) \in Nat
    BY RunFields
  <1>4. Len(Drop(b, n)) = Len(b) - n
    BY <1>1, DropFacts
  <1> DEFINE m == s - r.start
  <1> HIDE DEF m
  <1>5. m \in 0..Len(r.bytes) /\ n \in 0..(Len(r.bytes) - m) /\ b = Drop(r.bytes, m)
    BY <1>1, <1>2 DEF m
  <1>6. Drop(Drop(r.bytes, m), n) = Drop(r.bytes, m + n)
    BY <1>3, <1>5, DropDrop
  <1>7. m + n = (s + n) - r.start
    BY <1>1, <1>3 DEF m
  <1>8. Drop(b, n) = Drop(r.bytes, (s + n) - r.start)
    BY <1>5, <1>6, <1>7
  <1>9. s + n \in Nat /\ r.start <= s + n /\ s + n + Len(Drop(b, n)) = End(r)
    <2>1. s \in Nat /\ r.start \in Nat /\ r.start <= s /\ Len(b) \in Nat /\ n \in 0..Len(b)
      BY <1>1, <1>2, <1>3
    <2> QED BY <1>2, <1>4, <2>1
  <1> DEFINE d == Drop(b, n)
             e == s + n
  <1>10. e \in Nat /\ r.start <= e /\ e + Len(d) = End(r) /\ d = Drop(r.bytes, e - r.start)
    BY <1>8, <1>9, Zenon
  <1> HIDE DEF d, e
  <1>11. TailOf(d, e, r)
    BY <1>10 DEF TailOf
  <1> QED BY <1>4, <1>11 DEF d, e

-----------------------------------------------------------------------------
(***************************************************************************)
(* What findMPEGTS, keepTail and the count of a chunk's packets return.    *)
(***************************************************************************)
LEMMA LeastIsMin ==
  ASSUME NEW T \in SUBSET Nat, T # {}
  PROVE  Min(T) \in T /\ \A x \in T : Min(T) <= x
  <1>1. PICK m \in T : \A x \in T : m <= x
    BY LeastElement
  <1> QED BY <1>1 DEF Min

LEMMA FindFacts ==
  ASSUME NEW b \in Seq(Bytes), Probes(b) # {}
  PROVE  /\ findMPEGTS(b) \in 0..(Len(b) - ProbeSize) /\ findMPEGTS(b) \in 0..Len(b)
         /\ Probe(b, findMPEGTS(b))
         /\ \A i \in 0..(findMPEGTS(b) - 1) : ~Probe(b, i)
  <1>1. Len(b) \in Nat /\ ProbeSize \in Nat
    BY Sizes
  <1>2. Probes(b) \in SUBSET Nat
    BY <1>1 DEF Probes
  <1> DEFINE m == Min(Probes(b))
  <1>3. m \in Probes(b) /\ \A x \in Probes(b) : m <= x
    BY <1>2, LeastIsMin
  <1> HIDE DEF m
  <1>4. m \in 0..(Len(b) - ProbeSize) /\ Probe(b, m)
    BY <1>3 DEF Probes
  <1>5. ASSUME NEW i \in 0..(m - 1) PROVE ~Probe(b, i)
    <2>1. i \in 0..(Len(b) - ProbeSize) /\ ~(m <= i)
      BY <1>1, <1>4
    <2> QED BY <1>3, <2>1 DEF Probes
  <1>6. m \in 0..Len(b)
    BY <1>1, <1>4
  <1> QED BY <1>4, <1>5, <1>6 DEF findMPEGTS, m

LEMMA KeepFacts ==
  ASSUME NEW b \in Seq(Bytes)
  PROVE  \E n \in 0..Len(b) :
            /\ keepTail(b) = Drop(b, n) /\ Len(keepTail(b)) = Len(b) - n
            /\ Len(b) - n <= TailSize /\ (n > 0 => Len(b) - n = TailSize)
  <1>1. Len(b) \in Nat /\ TailSize \in Nat
    BY Sizes
  <1> DEFINE n == Max({0, Len(b) - TailSize})
             l == Len(b)
  <1>2. n = IF l - TailSize > 0 THEN l - TailSize ELSE 0
    <2> DEFINE x == l - TailSize
    <2>1. x \in Int
      BY <1>1
    <2> HIDE DEF x
    <2>2. Max({0, x}) = IF x > 0 THEN x ELSE 0
      BY <2>1 DEF Max
    <2> QED BY <2>2 DEF x
  <1> HIDE DEF n
  <1>3. n \in 0..Len(b) /\ Len(b) - n <= TailSize /\ (n > 0 => Len(b) - n = TailSize)
    BY <1>1, <1>2
  <1>4. keepTail(b) = Drop(b, n)
    BY DEF keepTail, n
  <1>5. Len(Drop(b, n)) = Len(b) - n
    BY <1>3, DropFacts
  <1> QED BY <1>3, <1>4, <1>5

\* Leading is the number of valid packets at the head, up to a chunk.
LEMMA LeadingFacts ==
  ASSUME NEW b \in Seq(Bytes), validTSPacket(b, 0)
  PROVE  /\ Leading(b) \in 1..MaxBroadcastPackets
         /\ \A i \in 0..(Leading(b) - 1) : validTSPacket(b, i * PacketSize)
         /\ Leading(b) * PacketSize \in PacketSize..Len(b)
         /\ Leading(b) * PacketSize <= MaxBroadcastPackets * PacketSize
  <1>1. Len(b) \in Nat /\ PacketSize \in Nat \ {0} /\ MaxBroadcastPackets \in Nat \ {0}
    BY Sizes
  <1> DEFINE T == {n \in 0..MaxBroadcastPackets :
                      n = MaxBroadcastPackets \/ ~validTSPacket(b, n * PacketSize)}
             Good(n) == /\ \A i \in 0..(n - 1) : validTSPacket(b, i * PacketSize)
                        /\ n < MaxBroadcastPackets => ~validTSPacket(b, n * PacketSize)
  <1>2. T \in SUBSET Nat /\ MaxBroadcastPackets \in T
    BY <1>1
  <1>3. PICK m \in T : \A x \in T : m <= x
    BY <1>2, LeastElement
  <1>4. m \in 0..MaxBroadcastPackets /\ Good(m)
    <2>1. m \in 0..MaxBroadcastPackets
      OBVIOUS
    <2>2. ASSUME NEW i \in 0..(m - 1) PROVE validTSPacket(b, i * PacketSize)
      <3>1. i \in 0..MaxBroadcastPackets /\ ~(m <= i)
        BY <1>1, <2>1
      <3>2. i \notin T
        BY <1>3, <3>1
      <3> HIDE DEF Good
      <3> QED BY <3>1, <3>2
    <2>3. m < MaxBroadcastPackets => ~validTSPacket(b, m * PacketSize)
      BY <1>1, <2>1
    <2> QED BY <2>1, <2>2, <2>3
  <1> DEFINE n == Leading(b)
  <1>5. n \in 0..MaxBroadcastPackets /\ Good(n)
    BY <1>4 DEF Leading
  <1> HIDE DEF n
  <1>6. n # 0
    <2>1. 0 * PacketSize = 0 /\ 0 < MaxBroadcastPackets
      BY <1>1
    <2> QED BY <1>5, <2>1
  <1>7. n \in 1..MaxBroadcastPackets /\ n - 1 \in 0..(n - 1) /\ n - 1 \in Nat
    BY <1>1, <1>5, <1>6
  <1>8. validTSPacket(b, (n - 1) * PacketSize)
    BY <1>5, <1>7
  <1>9. (n - 1) * PacketSize \in Nat /\ (n - 1) * PacketSize + PacketSize = n * PacketSize
    <2>1. (n - 1) + 1 = n
      BY <1>7
    <2> QED BY <1>7, <2>1, PacketOffsets
  <1>10. Len(b) - (n - 1) * PacketSize >= PacketSize
    BY <1>8 DEF validTSPacket
  <1>11. n * PacketSize \in PacketSize..Len(b)
    <2> DEFINE x == (n - 1) * PacketSize
               y == n * PacketSize
    <2>1. x \in Nat /\ x + PacketSize = y /\ Len(b) - x >= PacketSize
      BY <1>9, <1>10
    <2> HIDE DEF x, y
    <2>2. y \in PacketSize..Len(b)
      BY <1>1, <2>1
    <2> QED BY <2>2 DEF y
  <1>12. n * PacketSize <= MaxBroadcastPackets * PacketSize
    BY <1>1, <1>7
  <1> QED BY <1>5, <1>7, <1>11, <1>12 DEF n

-----------------------------------------------------------------------------
(***************************************************************************)
(* The loop of emit, which begins at cell s of the run r.                  *)
(***************************************************************************)

\* The first n bytes of b, and the bytes of the run in the cells from a up to e.
First(b, n) == SubSeq(b, 1, n)
Part(r, a, e) == SubSeq(r.bytes, (a - r.start) + 1, e - r.start)

\* A chunk is made of whole packets of the run, and has its bytes.
ChunkOf(r, ch) ==
    /\ r.start <= ch.start /\ ch.end <= End(r)
    /\ \E n \in 1..MaxBroadcastPackets :
          /\ ch.end = ch.start + n * PacketSize
          /\ \A k \in 0..(n - 1) : PacketIn(r, ch.start + k * PacketSize)
    /\ ch.data = Part(r, ch.start, ch.end) /\ Len(ch.data) = ch.end - ch.start

\* Cell c is in a chunk; there is a probe's room at c and no probe.
InChunks(out, c) == \E i \in 1..Len(out) : out[i].start <= c /\ c < out[i].end
NoProbe(r, c) == c + ProbeSize <= End(r) /\ ~ProbeIn(r, c)

\* What follows at cell e: a chunk, or no packet, or what the loop looks at next.
Follows(st, r, e) ==
    \/ \E j \in 1..Len(st.out) : st.out[j].start = e
    \/ e + PacketSize <= End(r) /\ ~PacketIn(r, e)
    \/ e = st.start /\ st.open

\* The loop invariant.
EmitInv(st, r, s) ==
    /\ TailOf(st.buffer, st.start, r) /\ s <= st.start
    /\ ~st.open => Len(st.buffer) <= TailSize
    /\ \A i \in 1..Len(st.out) :
          ChunkOf(r, st.out[i]) /\ s <= st.out[i].start /\ st.out[i].end <= st.start
    /\ \A i \in 2..Len(st.out) : st.out[i - 1].end <= st.out[i].start
    /\ \A c \in s..(st.start - 1) : InChunks(st.out, c) \/ NoProbe(r, c)
    /\ Follows(st, r, s) /\ \A i \in 1..Len(st.out) : Follows(st, r, st.out[i].end)

Emits(r, s) == {st \in EmitState : EmitInv(st, r, s)}

\* The head of the buffer is no packet, and the bytes before the first probe, or all but
\* the tail, are left out.
LEMMA SkipStep ==
  ASSUME NEW r \in Runs, End(r) <= Size, NEW s \in Nat, NEW st \in Emits(r, s), st.open,
         Len(st.buffer) >= PacketSize, ~validTSPacket(st.buffer, 0),
         NEW n \in 0..Len(st.buffer),
         \A i \in 0..(n - 1) : i + ProbeSize <= Len(st.buffer) /\ ~Probe(st.buffer, i),
         NEW o \in BOOLEAN, ~o => Len(st.buffer) - n <= TailSize
  PROVE  [buffer |-> Drop(st.buffer, n), start |-> st.start + n, out |-> st.out, open |-> o]
           \in Emits(r, s)
  <1> DEFINE new == [buffer |-> Drop(st.buffer, n), start |-> st.start + n, out |-> st.out, open |-> o]
  <1>1. st \in EmitState /\ EmitInv(st, r, s) /\ TailOf(st.buffer, st.start, r)
    BY DEF Emits, EmitInv
  <1>2. /\ st.buffer \in Seq(Bytes) /\ st.start \in Nat /\ Len(st.buffer) \in Nat
        /\ st.out \in Seq(Chunk) /\ s <= st.start /\ st.start + Len(st.buffer) = End(r)
    BY <1>1, TailFacts DEF EmitState, EmitInv, TailOf
  <1>3. TailOf(Drop(st.buffer, n), st.start + n, r) /\ Len(Drop(st.buffer, n)) = Len(st.buffer) - n
    BY <1>1, TailDrop
  <1>4. Drop(st.buffer, n) \in Seq(Bytes)
    BY <1>2, DropFacts
  <1>5. st.start + n \in 0..Size /\ PacketSize \in Nat /\ ProbeSize \in Nat
    BY <1>2, Sizes
  <1>6. new \in EmitState
    BY <1>2, <1>4, <1>5 DEF EmitState
  <1>7. /\ new.buffer = Drop(st.buffer, n) /\ new.start = st.start + n /\ new.out = st.out
        /\ new.open = o
    OBVIOUS
  <1> HIDE DEF new
  <1>8. st.start + PacketSize <= End(r) /\ ~PacketIn(r, st.start)
    <2>1. validTSPacket(st.buffer, 0) <=> PacketIn(r, st.start + 0)
      BY <1>1, ValidIsPacket
    <2>2. st.start + 0 = st.start /\ st.start + PacketSize <= End(r)
      BY <1>2, <1>5
    <2> QED BY <2>1, <2>2
  <1>9. \A e : Follows(st, r, e) => Follows(new, r, e)
    BY <1>7, <1>8, Zenon DEF Follows
  <1>10. ASSUME NEW c \in s..((st.start + n) - 1) PROVE InChunks(st.out, c) \/ NoProbe(r, c)
    <2>1. CASE c < st.start
      <3>1. c \in s..(st.start - 1)
        BY <1>2, <2>1
      <3> QED BY <1>1, <3>1 DEF EmitInv
    <2>2. CASE c >= st.start
      <3>1. c - st.start \in 0..(n - 1) /\ st.start + (c - st.start) = c /\ c - st.start \in Nat
        BY <1>2, <2>2
      <3> DEFINE i == c - st.start
      <3> HIDE DEF i
      <3>2. i \in 0..(n - 1) /\ i \in Nat /\ st.start + i = c
        BY <3>1 DEF i
      <3>3. i + ProbeSize <= Len(st.buffer) /\ ~Probe(st.buffer, i)
        BY <3>2
      <3>4. ~ProbeIn(r, c)
        BY <1>1, <3>2, <3>3, ProbeIsProbe
      <3>5. c + ProbeSize <= End(r)
        <4> DEFINE x == st.start
                   l == Len(st.buffer)
        <4>1. x \in Nat /\ l \in Nat /\ x + l = End(r) /\ i \in Nat /\ x + i = c
              /\ i + ProbeSize <= l /\ ProbeSize \in Nat
          BY <1>2, <1>5, <3>2, <3>3
        <4> HIDE DEF x, l
        <4> QED BY <4>1
      <3> QED BY <3>4, <3>5 DEF NoProbe
    <2> QED BY <1>2, <2>1, <2>2
  <1>11. s <= new.start /\ \A x \in Int : x <= st.start => x <= new.start
    BY <1>2, <1>7
  <1>12. \A i \in 1..Len(new.out) :
            ChunkOf(r, new.out[i]) /\ s <= new.out[i].start /\ new.out[i].end <= new.start
    <2> SUFFICES ASSUME NEW i \in 1..Len(st.out)
                 PROVE  ChunkOf(r, st.out[i]) /\ s <= st.out[i].start /\ st.out[i].end <= new.start
      BY <1>7
    <2>1. ChunkOf(r, st.out[i]) /\ s <= st.out[i].start /\ st.out[i].end <= st.start
      BY <1>1 DEF EmitInv
    <2>2. st.out[i] \in Chunk
      BY <1>2
    <2>3. st.out[i].end \in Int
      BY <2>2 DEF Chunk
    <2> QED BY <1>11, <2>1, <2>3
  <1>13. \A i \in 2..Len(new.out) : new.out[i - 1].end <= new.out[i].start
    BY <1>1, <1>7, Zenon DEF EmitInv
  <1>14. Follows(new, r, s) /\ \A i \in 1..Len(new.out) : Follows(new, r, new.out[i].end)
    BY <1>1, <1>7, <1>9, Zenon DEF EmitInv
  <1>15. TailOf(new.buffer, new.start, r) /\ (~new.open => Len(new.buffer) <= TailSize)
    BY <1>3, <1>7
  <1>16. \A c \in s..(new.start - 1) : InChunks(new.out, c) \/ NoProbe(r, c)
    BY <1>7, <1>10
  <1>17. EmitInv(new, r, s)
    BY <1>11, <1>12, <1>13, <1>14, <1>15, <1>16, Zenon DEF EmitInv
  <1> QED BY <1>6, <1>17 DEF Emits, new


\* The bytes of a part of b are bytes of the run.
LEMMA PartOfRun ==
  ASSUME NEW r \in Runs, NEW b, NEW s, TailOf(b, s, r), NEW n \in 0..Len(b)
  PROVE  First(b, n) \in Seq(Bytes) /\ Len(First(b, n)) = n /\ First(b, n) = Part(r, s, s + n)
  <1>1. /\ b \in Seq(Bytes) /\ s \in Nat /\ Len(b) \in Nat /\ s - r.start \in 0..Len(r.bytes)
        /\ Len(b) = Len(r.bytes) - (s - r.start)
    BY TailFacts
  <1>2. \A i \in 1..Len(b) : b[i] = r.bytes[s - r.start + i]
    BY TailFacts
  <1>3. r.start \in Nat /\ r.bytes \in Seq(Bytes) /\ Len(r.bytes) \in Nat
    BY RunFields
  <1> DEFINE m == (s - r.start) + 1
             l == (s + n) - r.start
             x == r.bytes
  <1>4. /\ m \in Nat /\ l \in Nat /\ m >= 1 /\ l <= Len(x) /\ (l - m) + 1 = n
        /\ n \in Nat /\ n <= Len(b)
    <2> DEFINE y == r.start
               z == Len(r.bytes)
               w == Len(b)
    <2>1. /\ s \in Nat /\ y \in Nat /\ z \in Nat /\ w \in Nat /\ s - y \in 0..z
          /\ w = z - (s - y) /\ n \in 0..w
      BY <1>1, <1>3
    <2> HIDE DEF y, z, w
    <2>2. /\ (s - y) + 1 \in Nat /\ (s + n) - y \in Nat /\ (s - y) + 1 >= 1 /\ (s + n) - y <= z
          /\ (((s + n) - y) - ((s - y) + 1)) + 1 = n /\ n \in Nat /\ n <= w
      BY <2>1
    <2> QED BY <2>2 DEF y, z, w
  <1>5. \A i \in 1..n : b[i] \in Bytes
    BY <1>1
  <1>6. \A i \in 1..n : b[i] = x[(m + i) - 1]
    <2>1. \A i \in 1..n : i \in 1..Len(b) /\ s - r.start + i = (m + i) - 1
      <3> DEFINE y == r.start
                 w == Len(b)
      <3>1. s \in Nat /\ y \in Nat /\ w \in Nat /\ n \in Nat /\ n <= w
        BY <1>1, <1>3, <1>4
      <3> HIDE DEF y, w
      <3>2. \A i \in 1..n : i \in 1..w /\ s - y + i = (((s - y) + 1) + i) - 1
        BY <3>1
      <3> QED BY <3>2 DEF y, w
    <2> QED BY <1>2, <2>1
  <1> HIDE DEF m, l, x
  <1>7. /\ SubSeq(b, 1, n) \in Seq(Bytes)
        /\ Len(SubSeq(b, 1, n)) = IF 1 <= n THEN n - 1 + 1 ELSE 0
        /\ \A i \in 1..(n - 1 + 1) : SubSeq(b, 1, n)[i] = b[1 + i - 1]
    BY <1>4, <1>5, SubSeqProperties
  <1>8. x \in Seq(Bytes) /\ \A i \in m..l : x[i] \in Bytes
    BY <1>3, <1>4 DEF x
  <1>9. /\ SubSeq(x, m, l) \in Seq(Bytes)
        /\ Len(SubSeq(x, m, l)) = IF m <= l THEN l - m + 1 ELSE 0
        /\ \A i \in 1..(l - m + 1) : SubSeq(x, m, l)[i] = x[m + i - 1]
    BY <1>4, <1>8, SubSeqProperties
  <1>10. /\ n - 1 + 1 = n /\ l - m + 1 = n /\ (1 <= n <=> n # 0) /\ (m <= l <=> n # 0)
         /\ \A i \in 1..n : 1 + i - 1 = i /\ m + i - 1 = (m + i) - 1
    BY <1>4
  <1>11. Len(SubSeq(b, 1, n)) = n /\ Len(SubSeq(x, m, l)) = n
    BY <1>7, <1>9, <1>10, Zenon
  <1>12. ASSUME NEW i \in 1..n PROVE SubSeq(b, 1, n)[i] = SubSeq(x, m, l)[i]
    <2>1. i \in 1..(n - 1 + 1) /\ i \in 1..(l - m + 1)
      BY <1>10
    <2>2. SubSeq(b, 1, n)[i] = b[1 + i - 1] /\ SubSeq(x, m, l)[i] = x[m + i - 1]
      BY <1>7, <1>9, <2>1, Zenon
    <2>3. 1 + i - 1 = i /\ m + i - 1 = (m + i) - 1 /\ b[i] = x[(m + i) - 1]
      BY <1>6, <1>10
    <2> QED BY <2>2, <2>3, Zenon
  <1>13. SubSeq(b, 1, n) = SubSeq(x, m, l)
    <2> DEFINE u == SubSeq(b, 1, n)
               v == SubSeq(x, m, l)
    <2>1. u \in Seq(Bytes) /\ v \in Seq(Bytes) /\ Len(u) = Len(v)
          /\ \A i \in 1..Len(u) : u[i] = v[i]
      BY <1>7, <1>9, <1>11, <1>12, Zenon
    <2> HIDE DEF u, v
    <2>2. u = v
      BY <2>1, SameBytes
    <2> QED BY <2>2 DEF u, v
  <1> QED BY <1>7, <1>11, <1>13 DEF m, l, x, First, Part

\* One element more.
LEMMA AppendFacts ==
  ASSUME NEW S, NEW q \in Seq(S), NEW e \in S
  PROVE  /\ Append(q, e) \in Seq(S) /\ Len(Append(q, e)) = Len(q) + 1
         /\ Append(q, e)[Len(q) + 1] = e /\ \A i \in 1..Len(q) : Append(q, e)[i] = q[i]
         /\ Len(q) \in Nat /\ \A i \in 1..Len(q) : q[i] \in S
  OBVIOUS

\* There are packets at the head of the buffer: they become a chunk.
LEMMA ChunkStep ==
  ASSUME NEW r \in Runs, End(r) <= Size, NEW s \in Nat, NEW st \in Emits(r, s), st.open,
         validTSPacket(st.buffer, 0)
  PROVE  /\ EmitChunk(st) \in Emits(r, s)
         /\ Len(EmitChunk(st).buffer) < Len(st.buffer)
         /\ EmitChunk(st).out # <<>> /\ EmitChunk(st).open
  <1> DEFINE k == Leading(st.buffer)
             n == k * PacketSize
             ch == [start |-> st.start, end |-> st.start + n, data |-> SubSeq(st.buffer, 1, n)]
             new == EmitChunk(st)
  <1>1. st \in EmitState /\ EmitInv(st, r, s) /\ TailOf(st.buffer, st.start, r)
    BY DEF Emits, EmitInv
  <1>2. /\ st.buffer \in Seq(Bytes) /\ st.start \in Nat /\ Len(st.buffer) \in Nat
        /\ st.out \in Seq(Chunk) /\ s <= st.start /\ st.start + Len(st.buffer) = End(r)
        /\ r.start <= st.start
    BY <1>1, TailFacts DEF EmitState, EmitInv, TailOf
  <1>3. /\ k \in 1..MaxBroadcastPackets
        /\ \A i \in 0..(k - 1) : validTSPacket(st.buffer, i * PacketSize)
        /\ n \in PacketSize..Len(st.buffer)
    BY <1>2, LeadingFacts
  <1>3a. PacketSize \in Nat \ {0}
    BY Sizes
  <1>4. /\ new.buffer = Drop(st.buffer, n) /\ new.start = st.start + n
        /\ new.out = Append(st.out, ch) /\ new.open = TRUE
    BY DEF EmitChunk
  <1>4a. new \in [buffer : {new.buffer}, start : {new.start}, out : {new.out}, open : {new.open}]
    BY DEF EmitChunk
  <1>5. ch.start = st.start /\ ch.end = st.start + n /\ ch.data = First(st.buffer, n)
    BY DEF First
  <1>5a. ch \in [start : {ch.start}, end : {ch.end}, data : {ch.data}]
    OBVIOUS
  <1> HIDE DEF k, ch, new
  <1>6. n \in Nat /\ n >= 1 /\ n \in 0..Len(st.buffer)
    BY <1>2, <1>3, <1>3a
  <1>7. \A i \in 0..(k - 1) : PacketIn(r, st.start + i * PacketSize)
    <2> SUFFICES ASSUME NEW i \in 0..(k - 1) PROVE PacketIn(r, st.start + i * PacketSize)
      OBVIOUS
    <2>1. i * PacketSize \in Nat
      BY PacketOffsets
    <2> QED BY <1>1, <1>3, <2>1, ValidIsPacket
  <1> HIDE DEF n
  <1>8. /\ First(st.buffer, n) \in Seq(Bytes)
        /\ First(st.buffer, n) = Part(r, st.start, st.start + n) /\ Len(First(st.buffer, n)) = n
    <2> DEFINE b == st.buffer
               x == st.start
    <2>1. TailOf(b, x, r) /\ n \in 0..Len(b)
      BY <1>1, <1>6
    <2> HIDE DEF b, x
    <2>2. First(b, n) \in Seq(Bytes) /\ First(b, n) = Part(r, x, x + n) /\ Len(First(b, n)) = n
      BY <2>1, PartOfRun
    <2> QED BY <2>2 DEF b, x
  <1>9. st.start + n <= End(r) /\ (st.start + n) - st.start = n /\ End(r) \in Nat
    BY <1>2, <1>6, RunFields
  <1>10. ChunkOf(r, ch)
    BY <1>2, <1>3, <1>5, <1>7, <1>8, <1>9 DEF ChunkOf, n
  <1>11. st.start \in 0..(Size - 1) /\ st.start + n \in 1..Size
    BY <1>2, <1>6, <1>9, Sizes
  <1>12. ch \in Chunk
    BY <1>5, <1>5a, <1>8, <1>11 DEF Chunk, Cells
  <1> DEFINE out == st.out
             o == new.out
  <1>13. /\ o \in Seq(Chunk) /\ Len(o) = Len(out) + 1
         /\ o[Len(out) + 1] = ch /\ \A i \in 1..Len(out) : o[i] = out[i]
         /\ Len(out) \in Nat /\ \A i \in 1..Len(out) : out[i] \in Chunk
    <2>1. out \in Seq(Chunk) /\ ch \in Chunk /\ o = Append(out, ch)
      BY <1>2, <1>4, <1>12
    <2> HIDE DEF out, o
    <2> QED BY <2>1, AppendFacts
  <1>14. TailOf(new.buffer, new.start, r) /\ Len(new.buffer) = Len(st.buffer) - n
    <2> DEFINE b == st.buffer
               x == st.start
    <2>1. TailOf(b, x, r) /\ n \in 0..Len(b)
      BY <1>1, <1>6
    <2> HIDE DEF b, x
    <2>2. TailOf(Drop(b, n), x + n, r) /\ Len(Drop(b, n)) = Len(b) - n
      BY <2>1, TailDrop
    <2> QED BY <1>4, <2>2 DEF b, x
  <1>15. new.buffer \in Seq(Bytes)
    BY <1>14, TailFacts
  <1>16. new \in EmitState
    <2>1. new.start \in 0..Size
      BY <1>4, <1>11
    <2> QED BY <1>4, <1>4a, <1>13, <1>15, <2>1, Zenon DEF EmitState
  <1> HIDE DEF o, out
  <1>17. \A i \in 1..Len(o) : (i \in 1..Len(out) \/ i = Len(out) + 1) /\ i \in 1..(Len(out) + 1)
    BY <1>13
  <1>18. \A i \in 1..Len(out) : /\ ChunkOf(r, out[i]) /\ s <= out[i].start /\ out[i].end <= st.start
                                /\ out[i].end \in Int
    <2> SUFFICES ASSUME NEW i \in 1..Len(out)
                 PROVE  /\ ChunkOf(r, out[i]) /\ s <= out[i].start /\ out[i].end <= st.start
                        /\ out[i].end \in Int
      OBVIOUS
    <2>1. ChunkOf(r, out[i]) /\ s <= out[i].start /\ out[i].end <= st.start
      BY <1>1, Zenon DEF EmitInv, out
    <2>2. out[i] \in Chunk
      BY <1>13
    <2>3. out[i].end \in Int
      BY <2>2 DEF Chunk
    <2> QED BY <2>1, <2>3
  <1>19. ASSUME NEW i \in 1..Len(o)
         PROVE  ChunkOf(r, o[i]) /\ s <= o[i].start /\ o[i].end <= new.start
    <2>1. CASE i \in 1..Len(out)
      <3>1. o[i] = out[i] /\ ChunkOf(r, out[i]) /\ s <= out[i].start /\ out[i].end <= st.start
            /\ out[i].end \in Int
        BY <1>13, <1>18, <2>1
      <3>2. out[i].end <= st.start + n
        BY <1>2, <1>6, <3>1
      <3> QED BY <1>4, <3>1, <3>2
    <2>2. CASE i = Len(out) + 1
      <3>1. st.start + n <= new.start
        BY <1>2, <1>4, <1>6
      <3> QED BY <1>2, <1>5, <1>10, <1>13, <2>2, <3>1
    <2> QED BY <1>17, <2>1, <2>2
  <1>20. ASSUME NEW i \in 2..Len(o) PROVE o[i - 1].end <= o[i].start
    <2>1. i - 1 \in 1..Len(out) /\ (i \in 2..Len(out) \/ i = Len(out) + 1)
      BY <1>13
    <2>2. CASE i \in 2..Len(out)
      <3>1. out[i - 1].end <= out[i].start /\ i \in 1..Len(out)
        BY <1>1, <2>2 DEF EmitInv, out
      <3> QED BY <1>13, <2>1, <3>1
    <2>3. CASE i = Len(out) + 1
      BY <1>5, <1>13, <1>18, <2>1, <2>3
    <2> QED BY <2>1, <2>2, <2>3
  <1>21. ASSUME NEW c \in s..(new.start - 1) PROVE InChunks(o, c) \/ NoProbe(r, c)
    <2>1. CASE c < st.start
      <3>1. c \in s..(st.start - 1)
        BY <1>2, <2>1
      <3>2. InChunks(out, c) \/ NoProbe(r, c)
        BY <1>1, <3>1 DEF EmitInv, out
      <3>3. \A i \in 1..Len(out) : i \in 1..Len(o)
        BY <1>13
      <3> QED BY <1>13, <3>2, <3>3, Zenon DEF InChunks
    <2>2. CASE c >= st.start
      <3>1. ch.start <= c /\ c < ch.end /\ Len(out) + 1 \in 1..Len(o)
        <4>1. c < st.start + n
          BY <1>2, <1>4, <1>6
        <4> QED BY <1>5, <1>13, <2>2, <4>1
      <3> QED BY <1>13, <3>1 DEF InChunks
    <2> QED BY <1>2, <2>1, <2>2
  <1>22. ASSUME NEW e, Follows(st, r, e) PROVE Follows(new, r, e)
    <2>1. Len(out) + 1 \in 1..Len(o) /\ \A j \in 1..Len(out) : j \in 1..Len(o)
      BY <1>13
    <2>2. CASE \E j \in 1..Len(out) : out[j].start = e
      BY <1>13, <2>1, <2>2, Zenon DEF Follows, o
    <2>3. CASE e = st.start
      BY <1>5, <1>13, <2>1, <2>3, Zenon DEF Follows, o
    <2>4. CASE e + PacketSize <= End(r) /\ ~PacketIn(r, e)
      BY <2>4 DEF Follows
    <2> QED BY <1>22, <2>2, <2>3, <2>4, Zenon DEF Follows, out
  <1>23. Follows(new, r, s) /\ \A i \in 1..Len(o) : Follows(new, r, o[i].end)
    <2>1. Follows(st, r, s) /\ \A i \in 1..Len(out) : Follows(st, r, out[i].end)
      BY <1>1, Zenon DEF EmitInv, out
    <2>2. Follows(new, r, ch.end)
      BY <1>4, <1>5 DEF Follows
    <2> QED BY <1>13, <1>17, <1>22, <2>1, <2>2, Zenon
  <1>24. s <= new.start
    BY <1>2, <1>4, <1>6
  <1>25. EmitInv(new, r, s)
    BY <1>4, <1>14, <1>19, <1>20, <1>21, <1>23, <1>24, Zenon DEF EmitInv, o
  <1>26. Len(new.buffer) < Len(st.buffer)
    BY <1>2, <1>6, <1>14
  <1>27. o # <<>>
    BY <1>13
  <1> QED BY <1>4, <1>16, <1>25, <1>26, <1>27 DEF Emits, new, o


\* The condition of the loop is false.
Done(st) == ~st.open \/ Len(st.buffer) < PacketSize

LEMMA RoundStep ==
  ASSUME NEW r \in Runs, End(r) <= Size, NEW s \in Nat, NEW st \in Emits(r, s)
  PROVE  /\ EmitRound(st) \in Emits(r, s)
         /\ Done(st) => EmitRound(st) = st
         /\ ~Done(st) => ~EmitRound(st).open \/ Len(EmitRound(st).buffer) < Len(st.buffer)
         /\ st.out # <<>> => EmitRound(st).out # <<>>
         /\ ~Done(st) /\ validTSPacket(st.buffer, 0) => EmitRound(st).out # <<>>
  <1> DEFINE b == st.buffer
  <1>1. st \in EmitState /\ EmitInv(st, r, s) /\ TailOf(b, st.start, r)
    BY DEF Emits, EmitInv
  <1>2. b \in Seq(Bytes) /\ st.start \in Nat /\ Len(b) \in Nat /\ st.open \in BOOLEAN
    BY <1>1, TailFacts DEF EmitState
  <1>3. PacketSize \in Nat \ {0} /\ ProbeSize \in Nat /\ TailSize \in Nat /\ TailSize = ProbeSize - 1
    BY Sizes
  <1>4. CASE Done(st)
    <2>1. EmitRound(st) = st
      BY <1>4 DEF EmitRound, Done
    <2> QED BY <1>4, <2>1
  <1>5. CASE ~Done(st) /\ validTSPacket(b, 0)
    <2>1. EmitRound(st) = EmitChunk(st)
      BY <1>5, Zenon DEF EmitRound, Done
    <2>2. /\ EmitChunk(st) \in Emits(r, s) /\ Len(EmitChunk(st).buffer) < Len(b)
          /\ EmitChunk(st).out # <<>>
      BY <1>5, ChunkStep DEF Done
    <2> QED BY <1>5, <2>1, <2>2
  <1>6. CASE ~Done(st) /\ ~validTSPacket(b, 0) /\ Probes(b) # {}
    <2> DEFINE n == findMPEGTS(b)
               mid == Resync(st)
    <2>1. EmitRound(st) = EmitChunk(mid)
      BY <1>6, Zenon DEF EmitRound, Done
    <2>2. /\ n \in 0..(Len(b) - ProbeSize) /\ n \in 0..Len(b) /\ Probe(b, n)
          /\ \A i \in 0..(n - 1) : ~Probe(b, i)
      BY <1>2, <1>6, FindFacts
    <2>3. mid = [buffer |-> Drop(b, n), start |-> st.start + n, out |-> st.out, open |-> TRUE]
      BY DEF Resync
    <2> HIDE DEF n, mid
    <2>4. \A i \in 0..(n - 1) : i + ProbeSize <= Len(b)
      BY <1>2, <1>3, <2>2
    <2>5. mid \in Emits(r, s)
      <3>1. st.open /\ Len(st.buffer) >= PacketSize
        BY <1>2, <1>3, <1>6 DEF Done
      <3>2. [buffer |-> Drop(b, n), start |-> st.start + n, out |-> st.out, open |-> TRUE] \in Emits(r, s)
        BY <1>6, <2>2, <2>4, <3>1, SkipStep
      <3> QED BY <2>3, <3>2
    <2>6. mid.buffer = Drop(b, n) /\ mid.start = st.start + n /\ mid.out = st.out /\ mid.open = TRUE
      BY <2>3
    <2>7. TailOf(mid.buffer, mid.start, r)
      BY <2>5 DEF Emits, EmitInv
    <2>8. validTSPacket(mid.buffer, 0)
      <3> DEFINE x == st.start
                 y == mid.start
                 d == mid.buffer
      <3>1. x + n \in Nat /\ n \in Nat /\ y = x + n /\ y + 0 = y
        BY <1>2, <2>2, <2>6
      <3>1a. TailOf(b, x, r) /\ TailOf(d, y, r)
        BY <1>1, <2>7
      <3> HIDE DEF x, y, d, b
      <3>2. ProbeIn(r, x + n)
        BY <2>2, <3>1, <3>1a, ProbeIsProbe
      <3>3. PacketIn(r, y + 0)
        BY <3>1, <3>2, ProbeFits
      <3>4. validTSPacket(d, 0)
        BY <3>1a, <3>3, ValidIsPacket
      <3> QED BY <3>4 DEF d
    <2>9. /\ EmitChunk(mid) \in Emits(r, s) /\ Len(EmitChunk(mid).buffer) < Len(mid.buffer)
          /\ EmitChunk(mid).out # <<>>
      BY <2>5, <2>6, <2>8, ChunkStep
    <2>10. Len(mid.buffer) = Len(b) - n
      BY <1>2, <2>2, <2>6, DropFacts
    <2>11. Len(EmitChunk(mid).buffer) < Len(b)
      <3>1. EmitChunk(mid).buffer \in Seq(Bytes)
        BY <2>9 DEF Emits, EmitState
      <3>2. Len(EmitChunk(mid).buffer) \in Nat
        BY <3>1
      <3> DEFINE u == Len(EmitChunk(mid).buffer)
                 v == Len(mid.buffer)
                 w == Len(b)
      <3>3. u \in Nat /\ u < v /\ v = w - n /\ n \in Nat /\ w \in Nat
        BY <1>2, <2>2, <2>9, <2>10, <3>2
      <3> HIDE DEF u, v, w
      <3>4. u < w
        BY <3>3
      <3> QED BY <3>4 DEF u, w
    <2> QED BY <1>6, <2>1, <2>9, <2>11
  <1>7. CASE ~Done(st) /\ ~validTSPacket(b, 0) /\ Probes(b) = {}
    <2>1. EmitRound(st) = Break(st)
      BY <1>7, Zenon DEF EmitRound, Done
    <2>2. PICK n \in 0..Len(b) :
            /\ keepTail(b) = Drop(b, n) /\ Len(keepTail(b)) = Len(b) - n
            /\ Len(b) - n <= TailSize /\ (n > 0 => Len(b) - n = TailSize)
      BY <1>2, KeepFacts
    <2>3. st.start + (Len(b) - Len(keepTail(b))) = st.start + n
      BY <1>2, <2>2
    <2>4. Break(st) = [buffer |-> Drop(b, n), start |-> st.start + n, out |-> st.out, open |-> FALSE]
      BY <2>2, <2>3, Zenon DEF Break
    <2>5. ASSUME NEW i \in 0..(n - 1) PROVE i + ProbeSize <= Len(b) /\ ~Probe(b, i)
      <3>1. i + ProbeSize <= Len(b)
        BY <1>2, <1>3, <2>2
      <3>2. i \in 0..(Len(b) - ProbeSize)
        BY <1>2, <1>3, <3>1
      <3> QED BY <1>7, <3>1, <3>2 DEF Probes
    <2>6. Break(st) \in Emits(r, s)
      <3>1. st.open /\ Len(st.buffer) >= PacketSize
        BY <1>2, <1>3, <1>7 DEF Done
      <3>2. [buffer |-> Drop(b, n), start |-> st.start + n, out |-> st.out, open |-> FALSE] \in Emits(r, s)
        BY <1>7, <2>2, <2>5, <3>1, SkipStep
      <3> QED BY <2>4, <3>2
    <2>7. Break(st).open = FALSE /\ Break(st).out = st.out
      BY <2>4
    <2> QED BY <1>7, <2>1, <2>6, <2>7
  <1> QED BY <1>4, <1>5, <1>6, <1>7, Zenon

\* The loop that begins with the end b of the run.
EmitInit(b, s) == [buffer |-> b, start |-> s, out |-> <<>>, open |-> TRUE]
EmitLoop(b, s) == While(EmitRound, EmitInit(b, s), Len(b))

LEMMA EmitStarts ==
  ASSUME NEW r \in Runs, End(r) <= Size, NEW b, NEW s, TailOf(b, s, r)
  PROVE  EmitInit(b, s) \in Emits(r, s)
  <1> DEFINE st == EmitInit(b, s)
  <1>1. b \in Seq(Bytes) /\ s \in Nat /\ Len(b) \in Nat /\ s + Len(b) = End(r)
    BY TailFacts DEF TailOf
  <1>2. s \in 0..Size
    BY <1>1, Sizes
  <1>3. st.buffer = b /\ st.start = s /\ st.out = <<>> /\ st.open = TRUE
    BY DEF EmitInit
  <1>4. st \in EmitState
    BY <1>1, <1>2 DEF EmitInit, EmitState
  <1> HIDE DEF st
  <1>5. Len(st.out) = 0 /\ (\A i \in 1..0 : FALSE) /\ (\A i \in 2..0 : FALSE) /\ s <= s
    BY <1>1, <1>3
  <1>6. \A c \in s..(s - 1) : FALSE
    BY <1>1
  <1>7. Follows(st, r, s)
    BY <1>3 DEF Follows
  <1>8. EmitInv(st, r, s)
    BY <1>3, <1>5, <1>6, <1>7 DEF EmitInv
  <1> QED BY <1>4, <1>8 DEF Emits, st

LEMMA EmitRounds ==
  ASSUME NEW r \in Runs, End(r) <= Size, NEW b, NEW s, TailOf(b, s, r)
  PROVE  /\ EmitLoop(b, s)[0] = EmitInit(b, s)
         /\ \A i \in 0..Len(b) : EmitLoop(b, s)[i] \in Emits(r, s)
         /\ \A i \in 1..Len(b) : EmitLoop(b, s)[i] = EmitRound(EmitLoop(b, s)[i - 1])
  <1> DEFINE n == Len(b)
             f == EmitLoop(b, s)
             S == Emits(r, s)
             a == EmitInit(b, s)
             st == [i \in 1..n |-> [x \in S |-> EmitRound(x)]]
  <1>1. n \in Nat /\ s \in Nat
    BY TailFacts
  <1>2. a \in S
    BY EmitStarts
  <1>3. \A x \in S : EmitRound(x) \in S
    BY <1>1, RoundStep
  <1> HIDE DEF S, n, a
  <1>4. st \in [1..n -> [S -> S]]
    BY <1>3
  <1>5. \A i \in 1..n : \A x \in S : st[i][x] = EmitRound(x)
    OBVIOUS
  <1> HIDE DEF st
  <1>6. PICK h : h \in Rounds(n, S, a, st)
    BY <1>1, <1>2, <1>4, LoopExists DEF Bodies
  <1>7. h \in [0..n -> S] /\ h[0] = a /\ \A i \in 1..n : h[i] = st[i][h[i - 1]]
    BY <1>6 DEF Rounds
  <1>8. \A i \in 1..n : i - 1 \in 0..n /\ i \in 0..n
    BY <1>1
  <1>9. h = [i \in 0..n |-> IF i = 0 THEN a ELSE EmitRound(h[i - 1])]
    <2>1. \A i \in 1..n : h[i - 1] \in S
      BY <1>7, <1>8
    <2>2. \A i \in 1..n : h[i] = EmitRound(h[i - 1])
      BY <1>5, <1>7, <2>1
    <2>3. \A i \in 0..n : i # 0 => i \in 1..n
      BY <1>1
    <2>4. \A i \in 0..n : h[i] = IF i = 0 THEN a ELSE EmitRound(h[i - 1])
      BY <1>7, <2>2, <2>3, Zenon
    <2> QED BY <1>7, <2>4
  <1>10. f = [i \in 0..n |-> IF i = 0 THEN a ELSE EmitRound(f[i - 1])]
    BY <1>9, Zenon DEF EmitLoop, While, n, a
  <1>11. 0 \in 0..n /\ \A i \in 1..n : i # 0
    BY <1>1
  <1> HIDE DEF f
  <1>12. f[0] = a /\ \A i \in 1..n : f[i] = EmitRound(f[i - 1])
    BY <1>8, <1>10, <1>11, Zenon
  <1> DEFINE T == {i \in 0..n : f[i] \in S}
  <1>13. 0 \in T
    BY <1>2, <1>11, <1>12
  <1>14. \A i \in 1..n : i - 1 \in T => i \in T
    BY <1>3, <1>8, <1>12
  <1>15. \A i \in 0..n : i \in T
    <2> HIDE DEF T
    <2> QED BY <1>1, <1>13, <1>14, LoopInduction
  <1> QED BY <1>12, <1>15 DEF f, n, a, S

\* What emit returns for the end b of the run: the invariant, a buffer that holds no
\* probe, and at least one chunk if there was a packet at the head.
LEMMA EmitFacts ==
  ASSUME NEW r \in Runs, End(r) <= Size, NEW b, NEW s, TailOf(b, s, r)
  PROVE  /\ emit(b, s) \in Emits(r, s) /\ Done(emit(b, s))
         /\ Len(emit(b, s).buffer) <= TailSize
         /\ validTSPacket(b, 0) => emit(b, s).out # <<>>
  <1> DEFINE n == Len(b)
             f == EmitLoop(b, s)
             S == Emits(r, s)
  <1>1. n \in Nat /\ s \in Nat /\ PacketSize \in Nat \ {0}
    BY TailFacts, Sizes
  <1>2. /\ f[0] = EmitInit(b, s) /\ \A i \in 0..n : f[i] \in S
        /\ \A i \in 1..n : f[i] = EmitRound(f[i - 1])
    BY EmitRounds
  <1>3. emit(b, s) = f[n]
    BY DEF emit, EmitLoop, EmitInit
  <1>4. f[0].buffer = b /\ f[0].open = TRUE
    BY <1>2 DEF EmitInit
  <1> HIDE DEF n, f, S
  <1>5. \A x \in S : x.buffer \in Seq(Bytes) /\ Len(x.buffer) \in Nat /\ x.open \in BOOLEAN
    BY DEF S, Emits, EmitState
  <1>6. \A x \in S : /\ Done(x) => EmitRound(x) = x
                     /\ ~Done(x) => ~EmitRound(x).open \/ Len(EmitRound(x).buffer) < Len(x.buffer)
                     /\ x.out # <<>> => EmitRound(x).out # <<>>
                     /\ ~Done(x) /\ validTSPacket(x.buffer, 0) => EmitRound(x).out # <<>>
    BY <1>1, RoundStep DEF S
  <1>7. \A i \in 1..n : i - 1 \in 0..n /\ i \in 0..n
    BY <1>1
  <1>8. Done(f[n])
    <2> DEFINE T == {i \in 0..n : Done(f[i]) \/ Len(f[i].buffer) <= n - i}
    <2>1. 0 \in T
      BY <1>1, <1>4 DEF n
    <2>2. ASSUME NEW i \in 1..n, i - 1 \in T PROVE i \in T
      <3> DEFINE x == f[i - 1]
                 y == f[i]
      <3>1. x \in S /\ y \in S /\ y = EmitRound(x) /\ i \in 0..n
        BY <1>2, <1>7
      <3>2. Done(x) \/ Len(x.buffer) <= n - (i - 1)
        BY <2>2
      <3> HIDE DEF x, y
      <3>3. CASE Done(x)
        <4>1. Done(y)
          BY <1>6, <3>1, <3>3
        <4> QED BY <3>1, <4>1 DEF y
      <3>4. CASE ~Done(x)
        <4>1. ~y.open \/ Len(y.buffer) < Len(x.buffer)
          BY <1>6, <3>1, <3>4
        <4>2. CASE ~y.open
          BY <3>1, <4>2 DEF y, Done
        <4>3. CASE Len(y.buffer) < Len(x.buffer)
          <5> DEFINE u == Len(x.buffer)
                     v == Len(y.buffer)
          <5>1. u \in Nat /\ v \in Nat /\ v < u /\ u <= n - (i - 1)
            BY <1>5, <3>1, <3>2, <3>4, <4>3
          <5> HIDE DEF u, v
          <5>2. v <= n - i
            BY <1>1, <5>1
          <5> QED BY <3>1, <5>2 DEF v, y
        <4> QED BY <4>1, <4>2, <4>3
      <3> QED BY <3>3, <3>4
    <2> HIDE DEF T
    <2>3. \A i \in 0..n : i \in T
      BY <1>1, <2>1, <2>2, LoopInduction
    <2>4. n \in 0..n
      BY <1>1
    <2>5. Done(f[n]) \/ Len(f[n].buffer) <= n - n
      BY <2>3, <2>4 DEF T
    <2>6. Len(f[n].buffer) \in Nat
      BY <1>2, <1>5, <2>4
    <2> DEFINE u == Len(f[n].buffer)
    <2>7. u <= n - n => u < PacketSize
      <3> HIDE DEF u
      <3>1. u \in Nat
        BY <2>6 DEF u
      <3> QED BY <1>1, <3>1
    <2> QED BY <2>5, <2>7 DEF Done
  <1>9. ASSUME validTSPacket(b, 0) PROVE f[n].out # <<>>
    <2>1. n - 0 >= PacketSize
      BY <1>9 DEF validTSPacket, n
    <2>2. n \in 1..n /\ 1 \in 1..n /\ n \in 0..n /\ 0 \in 0..n
      BY <1>1, <2>1
    <2>3. ~Done(f[0])
      <3>1. Len(f[0].buffer) = n
        BY <1>4 DEF n
      <3>2. ~(n < PacketSize)
        BY <1>1, <2>1
      <3> QED BY <1>4, <3>1, <3>2 DEF Done
    <2> DEFINE T == {i \in 0..n : i # 0 => f[i].out # <<>>}
    <2>4. 0 \in T
      BY <2>2
    <2>5. ASSUME NEW i \in 1..n, i - 1 \in T PROVE i \in T
      <3>1. f[i] = EmitRound(f[i - 1]) /\ f[i - 1] \in S /\ i \in 0..n
        BY <1>2, <1>7
      <3>2. CASE i = 1
        <4>1. f[1] = EmitRound(f[0]) /\ f[0] \in S
          BY <1>2, <2>2, <3>1, <3>2
        <4>2. f[1].out # <<>>
          BY <1>4, <1>6, <1>9, <2>3, <4>1
        <4> QED BY <3>1, <3>2, <4>2
      <3>3. CASE i # 1
        <4>1. i - 1 # 0
          BY <3>3
        <4> QED BY <1>6, <2>5, <3>1, <4>1
      <3> QED BY <3>2, <3>3
    <2> HIDE DEF T
    <2>6. \A i \in 0..n : i \in T
      BY <1>1, <2>4, <2>5, LoopInduction
    <2>7. n # 0
      BY <1>1, <2>1
    <2> QED BY <2>2, <2>6, <2>7 DEF T
  <1>10. f[n] \in S /\ Len(f[n].buffer) \in Nat
    <2>1. n \in 0..n
      BY <1>1
    <2> QED BY <1>2, <1>5, <2>1
  <1>11. Len(f[n].buffer) <= TailSize
    <2>1. ~f[n].open => Len(f[n].buffer) <= TailSize
      BY <1>10 DEF S, Emits, EmitInv
    <2>2. Len(f[n].buffer) < PacketSize => Len(f[n].buffer) <= TailSize
      <3> DEFINE u == Len(f[n].buffer)
      <3>1. u \in Nat
        BY <1>10
      <3> HIDE DEF u
      <3>2. u < PacketSize => u <= TailSize
        BY <3>1, Sizes
      <3> QED BY <3>2 DEF u
    <2> QED BY <1>8, <2>1, <2>2 DEF Done
  <1> QED BY <1>3, <1>8, <1>9, <1>10, <1>11 DEF S


-----------------------------------------------------------------------------
(***************************************************************************)
(* The packets of chunks.                                                  *)
(***************************************************************************)
StartsIn(ch, c) == ch.start <= c /\ c < ch.end /\ (c - ch.start) % PacketSize = 0

LEMMA ChunkBounds ==
  ASSUME NEW r \in Runs, End(r) <= Size, NEW ch \in Chunk, ChunkOf(r, ch)
  PROVE  /\ ch.start \in Nat /\ ch.end \in Nat /\ ch.end <= Size /\ ch.start + PacketSize <= ch.end
         /\ r.start <= ch.start /\ ch.end <= End(r)
         /\ \E n \in 1..MaxBroadcastPackets : ch.end = ch.start + n * PacketSize
  <1>1. ch.start \in Nat /\ ch.end \in Nat /\ ch.end <= Size
    BY Sizes DEF Chunk, Cells
  <1>2. PICK n \in 1..MaxBroadcastPackets : ch.end = ch.start + n * PacketSize
    BY DEF ChunkOf
  <1>3. n * PacketSize >= PacketSize
    BY Sizes
  <1>4. ch.start + PacketSize <= ch.end
    <2> DEFINE x == n * PacketSize
               a == ch.start
               e == ch.end
    <2>1. x \in Nat /\ x >= PacketSize /\ a \in Nat /\ e = a + x /\ PacketSize \in Nat
      BY <1>1, <1>2, <1>3, PacketOffsets, Sizes
    <2> HIDE DEF x, a, e
    <2>2. a + PacketSize <= e
      BY <2>1
    <2> QED BY <2>2 DEF a, e
  <1> QED BY <1>1, <1>2, <1>4 DEF ChunkOf

LEMMA ChunkPackets ==
  ASSUME NEW r \in Runs, End(r) <= Size, NEW ch \in Chunk, ChunkOf(r, ch), NEW c \in Int,
         ch.start <= c, c < ch.end
  PROVE  /\ StartsIn(ch, c) => /\ PacketIn(r, c) /\ c + PacketSize <= ch.end
                               /\ c + PacketSize # ch.end => StartsIn(ch, c + PacketSize)
         /\ \E p \in Int : StartsIn(ch, p) /\ p <= c /\ c < p + PacketSize
  <1> DEFINE a == ch.start
             P == PacketSize
             d == c - a
  <1>1. a \in Nat /\ P \in Nat \ {0}
    BY Sizes, ChunkBounds
  <1>2. PICK n \in 1..MaxBroadcastPackets :
            ch.end = a + n * P /\ \A k \in 0..(n - 1) : PacketIn(r, a + k * P)
    BY DEF ChunkOf
  <1> DEFINE N == n * P
  <1>3. N \in Nat /\ n \in Nat /\ n >= 1
    BY PacketOffsets, Sizes
  <1> HIDE DEF a, P, N
  <1>4. d \in Nat /\ d < N /\ c = a + d /\ d \in Int
    BY <1>1, <1>2, <1>3 DEF a, N
  <1>5. PICK q \in Int, m \in 0..(P - 1) : d = q * P + m /\ d % P = m
    BY <1>1, <1>4, ModIs
  <1> DEFINE Q == q * P
  <1>6. Q \in Int /\ d = Q + m /\ m \in Nat /\ m < P
    BY <1>1, <1>5
  <1>7. q >= 0
    <2> SUFFICES ASSUME q <= -1 PROVE FALSE
      BY <1>5
    <2>1. Q <= -P
      BY <1>1
    <2> HIDE DEF Q
    <2> QED BY <1>1, <1>4, <1>6, <2>1
  <1>8. q <= n - 1
    <2> SUFFICES ASSUME q >= n PROVE FALSE
      BY <1>3, <1>5
    <2>1. Q >= N
      BY <1>1, <1>3 DEF N
    <2> HIDE DEF Q
    <2> QED BY <1>3, <1>4, <1>6, <2>1
  <1>9. Q + P <= N
    <2>1. (q + 1) * P <= n * P
      BY <1>1, <1>3, <1>5, <1>8
    <2>2. (q + 1) * P = Q + P
      BY <1>1, <1>5
    <2> QED BY <2>1, <2>2 DEF N
  <1>10. PacketIn(r, a + Q) /\ Q % P = 0
    <2>1. q \in 0..(n - 1)
      BY <1>3, <1>5, <1>7, <1>8
    <2>2. 0 \in 0..(P - 1) /\ Q + 0 = Q
      BY <1>1, <1>6
    <2>3. (q * P + 0) % P = 0
      BY <1>1, <1>5, <2>2, ModOf
    <2> QED BY <1>2, <2>1, <2>2, <2>3
  <1>10a. Q >= 0
    BY <1>1, <1>5, <1>7
  <1> HIDE DEF Q
  <1>11. ASSUME StartsIn(ch, c)
         PROVE  /\ PacketIn(r, c) /\ c + P <= ch.end
                /\ c + P # ch.end => StartsIn(ch, c + P)
    <2>1. d % P = 0
      BY <1>11 DEF StartsIn, a, P
    <2>2. m = 0 /\ d = Q
      BY <1>5, <1>6, <2>1
    <2>3. PacketIn(r, c) /\ c + P <= ch.end
      BY <1>1, <1>2, <1>3, <1>4, <1>6, <1>9, <1>10, <2>2 DEF N
    <2>4. (d + P) % P = 0
      BY <1>1, <1>4, <2>1, ModRound
    <2>5. (c + P) - a = d + P /\ a <= c + P
      BY <1>1, <1>4
    <2>6. c + P # ch.end => c + P < ch.end
      <3>1. ch.end \in Nat
        BY ChunkBounds
      <3> QED BY <1>1, <2>3, <3>1
    <2>7. c + P # ch.end => StartsIn(ch, c + P)
      BY <2>4, <2>5, <2>6 DEF StartsIn, a, P
    <2> QED BY <2>3, <2>7
  <1>12. \E p \in Int : StartsIn(ch, p) /\ p <= c /\ c < p + P
    <2>1. a + Q \in Int /\ a + Q <= c /\ c < (a + Q) + P /\ (a + Q) - a = Q /\ a <= a + Q
          /\ a + Q < ch.end
      BY <1>1, <1>2, <1>3, <1>4, <1>6, <1>9, <1>10a DEF N
    <2>2. StartsIn(ch, a + Q)
      BY <1>10, <2>1 DEF StartsIn, a, P
    <2> QED BY <2>1, <2>2
  <1> QED BY <1>11, <1>12 DEF P

\* The cells and the packets of the chunks that emit returns.
LEMMA EmitPackets ==
  ASSUME NEW r \in Runs, End(r) <= Size, NEW s \in Nat, NEW st \in Emits(r, s)
  PROVE  /\ CellsOfChunks(st.out) \subseteq Span(s, st.start)
         /\ st.out # <<>> => CellsOfChunks(st.out) # {}
         /\ Packets(st.out) \subseteq Cells
         /\ \A p \in Packets(st.out) : PacketIn(r, p)
         /\ \A c \in Int : InChunks(st.out, c)
               => \E p \in Packets(st.out) : p <= c /\ c < p + PacketSize
         /\ \A p \in Packets(st.out) : \/ p + PacketSize \in Packets(st.out)
                                       \/ Follows(st, r, p + PacketSize)
         /\ \A i \in 1..Len(st.out) : st.out[i].start \in Packets(st.out)
  <1> DEFINE o == st.out
  <1>1. o \in Seq(Chunk) /\ st.start \in Nat
    BY DEF Emits, EmitState
  <1>2. ASSUME NEW i \in 1..Len(o)
        PROVE  /\ o[i] \in Chunk /\ ChunkOf(r, o[i]) /\ s <= o[i].start /\ o[i].end <= st.start
               /\ Follows(st, r, o[i].end)
    BY <1>1 DEF Emits, EmitInv
  <1>3. ASSUME NEW i \in 1..Len(o)
        PROVE  /\ o[i].start \in Nat /\ o[i].end \in Nat /\ o[i].end <= Size
               /\ o[i].start + PacketSize <= o[i].end
    BY <1>2, ChunkBounds
  <1> HIDE DEF o
  <1>4. PacketSize \in Nat \ {0} /\ Size \in Nat
    BY Sizes
  <1>5. CellsOfChunks(o) \subseteq Span(s, st.start)
    <2> SUFFICES ASSUME NEW i \in 1..Len(o), NEW c \in Span(o[i].start, o[i].end)
                 PROVE  c \in Span(s, st.start)
      BY DEF CellsOfChunks
    <2>1. c \in Cells /\ o[i].start <= c /\ c < o[i].end
      BY DEF Span
    <2>2. s <= o[i].start /\ o[i].end <= st.start /\ o[i].start \in Nat /\ o[i].end \in Nat
      BY <1>2, <1>3
    <2> DEFINE x == o[i].start
               y == o[i].end
    <2>3. /\ x \in Nat /\ y \in Nat /\ s <= x /\ y <= st.start /\ x <= c /\ c < y
          /\ c \in 0..(Size - 1)
      BY <2>1, <2>2 DEF Cells
    <2> HIDE DEF x, y
    <2>4. s <= c /\ c < st.start
      BY <1>1, <1>4, <2>3
    <2> QED BY <2>1, <2>4 DEF Span
  <1>6. ASSUME NEW i \in 1..Len(o), NEW c \in Int, StartsIn(o[i], c)
        PROVE  c \in Packets(o)
    <2>1. o[i].start <= c /\ c < o[i].end /\ (c - o[i].start) % PacketSize = 0
      BY <1>6 DEF StartsIn
    <2>2. o[i].start \in Nat /\ o[i].end \in Nat /\ o[i].end <= Size
      BY <1>3
    <2>3. c \in Cells
      BY <1>4, <2>1, <2>2 DEF Cells
    <2>4. c \in Span(o[i].start, o[i].end) /\ Within(c, o[i])
      BY <2>1, <2>3 DEF Span, Within
    <2>5. c \in CellsOfChunks(o)
      BY <2>4 DEF CellsOfChunks
    <2> QED BY <2>1, <2>4, <2>5 DEF Packets
  <1>7. ASSUME NEW c \in Packets(o)
        PROVE  c \in Cells /\ \E i \in 1..Len(o) : StartsIn(o[i], c)
    BY DEF Packets, CellsOfChunks, Span, StartsIn, Within
  <1>8. \A i \in 1..Len(o) : o[i].start \in Packets(o)
    <2> SUFFICES ASSUME NEW i \in 1..Len(o) PROVE o[i].start \in Packets(o)
      OBVIOUS
    <2> DEFINE x == o[i].start
    <2>1. x \in Int /\ x <= x /\ x < o[i].end /\ (x - x) = 0
      BY <1>3, <1>4
    <2>2. 0 \in 0..(PacketSize - 1)
      BY <1>4
    <2>3. 0 % PacketSize = 0
      BY <1>4, <2>2, ModSmall
    <2>4. StartsIn(o[i], x)
      BY <2>1, <2>3 DEF StartsIn
    <2> QED BY <1>6, <2>1, <2>4
  <1>9. o # <<>> => CellsOfChunks(o) # {}
    <2> SUFFICES ASSUME o # <<>> PROVE CellsOfChunks(o) # {}
      OBVIOUS
    <2>1. 1 \in 1..Len(o)
      BY <1>1 DEF o
    <2> QED BY <1>8, <2>1 DEF Packets
  <1>10. ASSUME NEW c \in Int, InChunks(o, c)
         PROVE  \E p \in Packets(o) : p <= c /\ c < p + PacketSize
    <2>1. PICK i \in 1..Len(o) : o[i].start <= c /\ c < o[i].end
      BY <1>10 DEF InChunks
    <2>2. PICK p \in Int : StartsIn(o[i], p) /\ p <= c /\ c < p + PacketSize
      BY <1>2, <2>1, ChunkPackets
    <2> QED BY <1>6, <2>2
  <1>11. ASSUME NEW p \in Packets(o)
         PROVE  p + PacketSize \in Packets(o) \/ Follows(st, r, p + PacketSize)
    <2>1. PICK i \in 1..Len(o) : StartsIn(o[i], p)
      BY <1>7
    <2>2. p \in Int /\ o[i].start <= p /\ p < o[i].end /\ p + PacketSize \in Int
      BY <1>4, <1>7, <2>1 DEF StartsIn, Cells
    <2>3. p + PacketSize # o[i].end => StartsIn(o[i], p + PacketSize)
      BY <1>2, <2>1, <2>2, ChunkPackets
    <2>4. CASE p + PacketSize # o[i].end
      BY <1>6, <2>2, <2>3, <2>4
    <2>5. CASE p + PacketSize = o[i].end
      BY <1>2, <2>5
    <2> QED BY <2>4, <2>5
  <1>12. Packets(o) \subseteq Cells
    BY <1>7
  <1>13. ASSUME NEW p \in Packets(o) PROVE PacketIn(r, p)
    <2>1. PICK i \in 1..Len(o) : StartsIn(o[i], p)
      BY <1>7
    <2>2. p \in Int /\ o[i].start <= p /\ p < o[i].end
      BY <1>4, <1>7, <2>1 DEF StartsIn, Cells
    <2> QED BY <1>2, <2>1, <2>2, ChunkPackets
  <1> QED BY <1>5, <1>8, <1>9, <1>10, <1>11, <1>12, <1>13 DEF o


-----------------------------------------------------------------------------
(***************************************************************************)
(* What was taken of a run before its cell s, where l bytes are left.      *)
(***************************************************************************)
NoPacket(r, c) == c + PacketSize <= End(r) /\ ~PacketIn(r, c)

TakenAt(r, K, s, l) ==
    /\ K \subseteq Cells /\ \A p \in K : PacketIn(r, p)
    /\ \A c \in r.start..(s - 1) : (\E p \in K : p <= c /\ c < p + PacketSize) \/ NoProbe(r, c)
    /\ \A p \in K : \/ p + PacketSize \in K
                    \/ NoPacket(r, p + PacketSize)
                    \/ p + PacketSize = s /\ l < PacketSize

\* emit takes all there is from the cell s on.
LEMMA EmitTakes ==
  ASSUME NEW r \in Runs, End(r) <= Size, NEW b, NEW s, TailOf(b, s, r),
         NEW K, NEW l, TakenAt(r, K, s, l)
  PROVE  LET st == emit(b, s)
         IN  TakenAt(r, K \cup Packets(st.out), st.start, Len(st.buffer))
  <1> DEFINE st == emit(b, s)
             N == Packets(st.out)
  <1>1. st \in Emits(r, s) /\ Done(st)
    BY EmitFacts
  <1>2. s \in Nat /\ r.start \in Nat /\ r.start <= s
    BY RunFields DEF TailOf
  <1> HIDE DEF st
  <1>3. /\ N \subseteq Cells /\ \A p \in N : PacketIn(r, p)
        /\ \A c \in Int : InChunks(st.out, c) => \E p \in N : p <= c /\ c < p + PacketSize
        /\ \A p \in N : p + PacketSize \in N \/ Follows(st, r, p + PacketSize)
        /\ \A i \in 1..Len(st.out) : st.out[i].start \in N
    BY <1>1, <1>2, EmitPackets
  <1>4. /\ st.start \in Nat /\ Follows(st, r, s)
        /\ \A c \in s..(st.start - 1) : InChunks(st.out, c) \/ NoProbe(r, c)
    BY <1>1 DEF Emits, EmitState, EmitInv
  <1> HIDE DEF N
  <1>5. K \cup N \subseteq Cells /\ \A p \in K \cup N : PacketIn(r, p)
    BY <1>3 DEF TakenAt
  <1>6. ASSUME NEW c \in r.start..(st.start - 1)
        PROVE  (\E p \in K \cup N : p <= c /\ c < p + PacketSize) \/ NoProbe(r, c)
    <2>1. CASE c < s
      <3>1. c \in r.start..(s - 1)
        BY <1>2, <2>1
      <3>2. (\E p \in K : p <= c /\ c < p + PacketSize) \/ NoProbe(r, c)
        BY <3>1 DEF TakenAt
      <3> QED BY <3>2
    <2>2. CASE ~(c < s)
      <3>1. c \in s..(st.start - 1) /\ c \in Int
        BY <1>2, <1>4, <2>2
      <3>2. InChunks(st.out, c) \/ NoProbe(r, c)
        BY <1>4, <3>1
      <3>3. InChunks(st.out, c) => \E p \in N : p <= c /\ c < p + PacketSize
        BY <1>3, <3>1
      <3> QED BY <3>2, <3>3
    <2> QED BY <2>1, <2>2
  <1>7. ASSUME NEW e, Follows(st, r, e)
        PROVE  e \in N \/ NoPacket(r, e) \/ (e = st.start /\ Len(st.buffer) < PacketSize)
    BY <1>1, <1>3, <1>7, Zenon DEF Follows, NoPacket, Done
  <1>8. ASSUME NEW p \in K \cup N
        PROVE  \/ p + PacketSize \in K \cup N
               \/ NoPacket(r, p + PacketSize)
               \/ p + PacketSize = st.start /\ Len(st.buffer) < PacketSize
    <2>1. CASE p \in N
      BY <1>3, <1>7, <2>1, Zenon
    <2>2. CASE p \in K
      <3>1. p + PacketSize \in K \/ NoPacket(r, p + PacketSize) \/ p + PacketSize = s
        BY <2>2 DEF TakenAt
      <3>2. s \in N \/ NoPacket(r, s) \/ (s = st.start /\ Len(st.buffer) < PacketSize)
        BY <1>4, <1>7
      <3> QED BY <3>1, <3>2
    <2> QED BY <2>1, <2>2
  <1>9. TakenAt(r, K \cup N, st.start, Len(st.buffer))
    BY <1>5, <1>6, <1>8, Zenon DEF TakenAt
  <1> QED BY <1>9 DEF st, N

\* The run goes on.
LEMMA TakenGrows ==
  ASSUME NEW r \in Runs, NEW data \in Seq(Bytes),
         NEW q, q = [start |-> r.start, bytes |-> r.bytes \o data],
         NEW K, NEW s, NEW l, TakenAt(r, K, s, l)
  PROVE  TakenAt(q, K, s, 0)
  <1>1. /\ q.start = r.start /\ End(q) = End(r) + Len(data)
        /\ \A c \in Int : PacketIn(r, c) => PacketIn(q, c)
        /\ \A c \in Int : c + PacketSize <= End(r) => (PacketIn(q, c) <=> PacketIn(r, c))
        /\ \A c \in Int : c + ProbeSize <= End(r) => (ProbeIn(q, c) <=> ProbeIn(r, c))
    BY RunGrows
  <1>2. End(r) \in Nat /\ Len(data) \in Nat /\ PacketSize \in Nat \ {0} /\ ProbeSize \in Nat
    BY RunFields, Sizes
  <1>3. \A x \in Int : x <= End(r) => x <= End(q)
    BY <1>1, <1>2
  <1>4. ASSUME NEW c \in Int, NoProbe(r, c) PROVE NoProbe(q, c)
    <2>1. c + ProbeSize \in Int /\ c + ProbeSize <= End(r) /\ ~ProbeIn(r, c)
      BY <1>2, <1>4 DEF NoProbe
    <2> QED BY <1>1, <1>3, <2>1 DEF NoProbe
  <1>5. ASSUME NEW c \in Int, NoPacket(r, c) PROVE NoPacket(q, c)
    <2>1. c + PacketSize \in Int /\ c + PacketSize <= End(r) /\ ~PacketIn(r, c)
      BY <1>2, <1>5 DEF NoPacket
    <2> QED BY <1>1, <1>3, <2>1 DEF NoPacket
  <1>6. K \subseteq Cells /\ \A p \in K : PacketIn(q, p)
    <2>1. K \subseteq Cells /\ \A p \in K : PacketIn(r, p)
      BY Zenon DEF TakenAt
    <2>2. \A p \in Cells : p \in Int
      BY DEF Cells
    <2> QED BY <1>1, <2>1, <2>2, Zenon
  <1>7. ASSUME NEW c \in q.start..(s - 1)
        PROVE  (\E p \in K : p <= c /\ c < p + PacketSize) \/ NoProbe(q, c)
    <2>1. c \in r.start..(s - 1) /\ c \in Int
      BY <1>1
    <2>2. (\E p \in K : p <= c /\ c < p + PacketSize) \/ NoProbe(r, c)
      BY <2>1 DEF TakenAt
    <2> QED BY <1>4, <2>1, <2>2
  <1>8. ASSUME NEW p \in K
        PROVE  \/ p + PacketSize \in K
               \/ NoPacket(q, p + PacketSize)
               \/ p + PacketSize = s /\ 0 < PacketSize
    <2>1. p + PacketSize \in Int
      BY <1>2, <1>6 DEF Cells
    <2>2. p + PacketSize \in K \/ NoPacket(r, p + PacketSize) \/ p + PacketSize = s
      BY DEF TakenAt
    <2>3. 0 < PacketSize
      BY <1>2
    <2> QED BY <1>5, <2>1, <2>2, <2>3
  <1> QED BY <1>6, <1>7, <1>8, Zenon DEF TakenAt

\* Nothing is taken yet, and there are no probes in the first n bytes of b.
LEMMA TakenSkips ==
  ASSUME NEW r \in Runs, NEW b, NEW s, TailOf(b, s, r), TakenAt(r, {}, s, 0),
         NEW n \in 0..Len(b), \A i \in 0..(n - 1) : i + ProbeSize <= Len(b) /\ ~Probe(b, i), NEW l
  PROVE  TakenAt(r, {}, s + n, l)
  <1>1. s \in Nat /\ r.start \in Nat /\ r.start <= s /\ s + Len(b) = End(r) /\ Len(b) \in Nat
        /\ ProbeSize \in Nat
    BY RunFields, TailFacts, Sizes DEF TailOf
  <1>2. ASSUME NEW c \in r.start..((s + n) - 1) PROVE NoProbe(r, c)
    <2>1. CASE c < s
      <3>1. c \in r.start..(s - 1)
        BY <1>1, <2>1
      <3> QED BY <3>1 DEF TakenAt
    <2>2. CASE ~(c < s)
      <3> DEFINE i == c - s
      <3>1. i \in 0..(n - 1) /\ i \in Nat /\ s + i = c
        BY <1>1, <2>2
      <3> HIDE DEF i
      <3>2. i + ProbeSize <= Len(b) /\ ~Probe(b, i)
        BY <3>1
      <3>3. ~ProbeIn(r, c)
        BY <3>1, <3>2, ProbeIsProbe
      <3>4. c + ProbeSize <= End(r)
        BY <1>1, <3>1, <3>2
      <3> QED BY <3>3, <3>4 DEF NoProbe
    <2> QED BY <2>1, <2>2
  <1> QED BY <1>2 DEF TakenAt

\* A run that begins with a write.
LEMMA NewRun ==
  ASSUME NEW off \in Nat, NEW data \in Seq(Bytes), NEW r, r = [start |-> off, bytes |-> data]
  PROVE  /\ r \in Runs /\ End(r) = off + Len(data) /\ TailOf(data, off, r)
         /\ TakenAt(r, {}, off, 0)
  <1>1. r \in Runs /\ End(r) = off + Len(data) /\ r.start = off /\ r.bytes = data
    BY DEF Runs, End
  <1>2. 0 \in 0..Len(data) /\ off - off = 0
    OBVIOUS
  <1>3. /\ Drop(data, 0) \in Seq(Bytes) /\ Len(Drop(data, 0)) = Len(data) - 0
        /\ \A i \in 1..(Len(data) - 0) : Drop(data, 0)[i] = data[0 + i]
    BY <1>2, DropFacts
  <1>4. data = Drop(data, 0)
    <2> DEFINE d == Drop(data, 0)
    <2> HIDE DEF d
    <2>1. Len(data) - 0 = Len(data) /\ \A i \in 1..Len(data) : 0 + i = i
      OBVIOUS
    <2>2. d \in Seq(Bytes) /\ Len(data) = Len(d) /\ \A i \in 1..Len(data) : data[i] = d[i]
      BY <1>3, <2>1 DEF d
    <2>3. data = d
      BY <2>2, SameBytes
    <2> QED BY <2>3 DEF d
  <1>5. TailOf(data, off, r)
    BY <1>1, <1>2, <1>4 DEF TailOf
  <1>6. \A c \in off..(off - 1) : FALSE
    OBVIOUS
  <1>7. TakenAt(r, {}, off, 0)
    BY <1>1, <1>6 DEF TakenAt
  <1> QED BY <1>1, <1>5, <1>7

\* The stream begins at the first probe.
LEMMA Found ==
  ASSUME NEW r \in Runs, End(r) <= Size, NEW b, NEW s, TailOf(b, s, r), TakenAt(r, {}, s, 0),
         Probes(b) # {}
  PROVE  LET n == findMPEGTS(b)
         IN  /\ TailOf(Drop(b, n), s + n, r) /\ TakenAt(r, {}, s + n, 0)
             /\ s + n \in Cells /\ s <= s + n /\ ProbeIn(r, s + n)
             /\ validTSPacket(Drop(b, n), 0)
  <1> DEFINE n == findMPEGTS(b)
  <1>1. b \in Seq(Bytes) /\ s \in Nat /\ Len(b) \in Nat /\ s + Len(b) = End(r) /\ End(r) \in Nat
    BY RunFields, TailFacts DEF TailOf
  <1>2. /\ n \in 0..(Len(b) - ProbeSize) /\ n \in 0..Len(b) /\ Probe(b, n)
        /\ \A i \in 0..(n - 1) : ~Probe(b, i)
    BY <1>1, FindFacts
  <1> HIDE DEF n
  <1>3. PacketSize \in Nat \ {0} /\ ProbeSize \in Nat /\ ProbeSize >= PacketSize /\ Size \in Nat
    BY Sizes
  <1>4. TailOf(Drop(b, n), s + n, r)
    BY <1>2, TailDrop
  <1>5. \A i \in 0..(n - 1) : i + ProbeSize <= Len(b)
    BY <1>1, <1>2, <1>3
  <1>6. TakenAt(r, {}, s + n, 0)
    BY <1>2, <1>5, TakenSkips
  <1>7. n \in Nat /\ s + n \in Nat /\ s + n \in Cells /\ s <= s + n /\ (s + n) + 0 = s + n
    BY <1>1, <1>2, <1>3 DEF Cells
  <1>8. ProbeIn(r, s + n)
    BY <1>2, <1>7, ProbeIsProbe
  <1>9. PacketIn(r, (s + n) + 0)
    BY <1>7, <1>8, ProbeFits
  <1>10. validTSPacket(Drop(b, n), 0)
    <2> DEFINE d == Drop(b, n)
               x == s + n
    <2>1. TailOf(d, x, r) /\ PacketIn(r, x + 0)
      BY <1>4, <1>9
    <2> HIDE DEF d, x
    <2>2. validTSPacket(d, 0)
      BY <2>1, ValidIsPacket
    <2> QED BY <2>2 DEF d
  <1> QED BY <1>4, <1>6, <1>7, <1>8, <1>10 DEF n

\* No probe: the tail is kept.
LEMMA Kept ==
  ASSUME NEW r \in Runs, NEW b, NEW s, TailOf(b, s, r), TakenAt(r, {}, s, 0),
         Probes(b) = {}, Len(b) >= 1
  PROVE  LET k == keepTail(b)
             e == s + (Len(b) - Len(k))
         IN  /\ TailOf(k, e, r) /\ TakenAt(r, {}, e, Len(k))
             /\ Len(k) <= TailSize /\ Len(k) >= 1 /\ s <= e
  <1>1. b \in Seq(Bytes) /\ s \in Nat /\ Len(b) \in Nat
    BY TailFacts
  <1>2. PICK n \in 0..Len(b) :
            /\ keepTail(b) = Drop(b, n) /\ Len(keepTail(b)) = Len(b) - n
            /\ Len(b) - n <= TailSize /\ (n > 0 => Len(b) - n = TailSize)
    BY <1>1, KeepFacts
  <1>3. /\ PacketSize \in Nat /\ PacketSize >= 2 /\ ProbeSize \in Nat /\ ProbeSize >= PacketSize
        /\ TailSize \in Nat /\ TailSize = ProbeSize - 1
    BY Sizes
  <1> DEFINE k == keepTail(b)
             e == s + (Len(b) - Len(k))
  <1>4. e = s + n /\ s <= s + n /\ n \in Nat
    BY <1>1, <1>2
  <1>5. ASSUME NEW i \in 0..(n - 1) PROVE i + ProbeSize <= Len(b) /\ ~Probe(b, i)
    <2>1. i + ProbeSize <= Len(b) /\ i \in 0..(Len(b) - ProbeSize)
      BY <1>1, <1>2, <1>3
    <2> QED BY <2>1 DEF Probes
  <1>6. Len(k) <= TailSize /\ Len(k) >= 1
    <2>1. Len(b) - n >= 1
      BY <1>1, <1>2, <1>3
    <2> QED BY <1>2, <2>1
  <1>7. TailOf(Drop(b, n), s + n, r)
    BY TailDrop
  <1>8. TakenAt(r, {}, s + n, Len(k))
    BY <1>5, TakenSkips
  <1> QED BY <1>2, <1>4, <1>6, <1>7, <1>8

\* The chunks as ChunksValid states them.
ValidChunks(r, cs) ==
    \A i \in 1..Len(cs) :
        LET ch == cs[i]
        IN  /\ Len(ch.data) = ch.end - ch.start /\ ch.data # <<>>
            /\ Len(ch.data) <= MaxBroadcastPackets * PacketSize
            /\ ch.data = SubSeq(r.bytes, ch.start - r.start + 1, ch.end - r.start)
            /\ \A c \in Span(ch.start, ch.end) :
                  (c - ch.start) % PacketSize = 0 => PacketIn(r, c)
            /\ i > 1 => cs[i - 1].end <= ch.start

LEMMA EmitsValid ==
  ASSUME NEW r \in Runs, End(r) <= Size, NEW s \in Nat, NEW st \in Emits(r, s)
  PROVE  st.out \in Seq(Chunk) /\ ValidChunks(r, st.out)
  <1> DEFINE o == st.out
  <1>1. o \in Seq(Chunk)
    BY DEF Emits, EmitState
  <1>2. /\ \A i \in 1..Len(o) : ChunkOf(r, o[i])
        /\ \A i \in 2..Len(o) : o[i - 1].end <= o[i].start
    BY DEF Emits, EmitInv
  <1> HIDE DEF o
  <1>3. ASSUME NEW i \in 1..Len(o), NEW ch, ch = o[i]
        PROVE  /\ Len(ch.data) = ch.end - ch.start /\ ch.data # <<>>
               /\ Len(ch.data) <= MaxBroadcastPackets * PacketSize
               /\ ch.data = SubSeq(r.bytes, ch.start - r.start + 1, ch.end - r.start)
               /\ \A c \in Span(ch.start, ch.end) :
                     (c - ch.start) % PacketSize = 0 => PacketIn(r, c)
               /\ i > 1 => o[i - 1].end <= ch.start
    <2>1. ch \in Chunk /\ ChunkOf(r, ch)
      BY <1>1, <1>2, <1>3
    <2>2. /\ ch.start \in Nat /\ ch.end \in Nat /\ ch.start + PacketSize <= ch.end
      BY <2>1, ChunkBounds
    <2>3. PICK n \in 1..MaxBroadcastPackets : ch.end = ch.start + n * PacketSize
      BY <2>1, ChunkBounds
    <2>4. Len(ch.data) = ch.end - ch.start
          /\ ch.data = SubSeq(r.bytes, (ch.start - r.start) + 1, ch.end - r.start)
      BY <2>1 DEF ChunkOf, Part
    <2>5. n * PacketSize \in Nat /\ n * PacketSize <= MaxBroadcastPackets * PacketSize
      BY Sizes
    <2>6. Len(ch.data) <= MaxBroadcastPackets * PacketSize /\ Len(ch.data) >= PacketSize
      <3> DEFINE x == n * PacketSize
                 a == ch.start
                 e == ch.end
                 y == Len(ch.data)
      <3>1. /\ x \in Nat /\ a \in Nat /\ e \in Nat /\ e = a + x /\ y = e - a
            /\ a + PacketSize <= e /\ PacketSize \in Nat
        BY <2>2, <2>3, <2>4, <2>5, Sizes
      <3> HIDE DEF x, a, e, y
      <3>2. y = x /\ y >= PacketSize
        BY <3>1
      <3> QED BY <2>5, <3>2 DEF x, y
    <2>7. ch.data # <<>>
      <3>1. Len(ch.data) # 0
        BY <2>6, Sizes
      <3> QED BY <3>1
    <2>8. ASSUME NEW c \in Span(ch.start, ch.end), (c - ch.start) % PacketSize = 0
          PROVE  PacketIn(r, c)
      <3>1. c \in Int /\ StartsIn(ch, c) /\ ch.start <= c /\ c < ch.end
        BY <2>8 DEF Span, Cells, StartsIn
      <3> QED BY <2>1, <3>1, ChunkPackets
    <2>9. i > 1 => o[i - 1].end <= ch.start
      <3>1. i > 1 => i \in 2..Len(o)
        BY <1>1
      <3> QED BY <1>2, <1>3, <3>1
    <2> QED BY <2>4, <2>6, <2>7, <2>8, <2>9
  <1> QED BY <1>1, <1>3 DEF ValidChunks, o


-----------------------------------------------------------------------------
(***************************************************************************)
(* The steps of the scanner.                                               *)
(***************************************************************************)

\* The inductive invariant in the terms of the lemmas above.
LEMMA InvGives ==
  ASSUME IndInv
  PROVE  /\ run \in Runs /\ End(run) <= Size /\ expected = End(run)
         /\ TailOf(buffer, bufferStart, run) /\ Len(buffer) <= TailSize
         /\ buffer \in Seq(Bytes) /\ haveExpected \in BOOLEAN /\ detected \in BOOLEAN
         /\ TakenAt(run, taken, bufferStart, Len(buffer)) /\ (~detected => taken = {})
         /\ detected => haveExpected /\ \E c \in Cells : ProbeIn(run, c)
         /\ observed \in Seq([ts : BOOLEAN, captures : SUBSET Cells])
         /\ bufferStart \in Nat /\ expected \in Nat
  <1>1. TypeInv /\ BufferWindow /\ DetectedInv /\ TakenInv
    BY DEF IndInv
  <1>2. run \in Runs /\ End(run) <= Size /\ bufferStart \in Nat
    BY <1>1 DEF TypeInv, Runs, End, RunEnd
  <1>3. expected = End(run) /\ TailOf(buffer, bufferStart, run)
    BY <1>1, <1>2 DEF BufferWindow, TailOf, End, RunEnd
  <1>4. \A c : PacketAt(c) <=> PacketIn(run, c)
    BY Zenon DEF PacketAt, PacketIn, RunEnd, End
  <1>5. \A c : ProbeAt(c) <=> ProbeIn(run, c)
    BY <1>4, Zenon DEF ProbeAt, ProbeIn
  <1>6. taken \subseteq Cells /\ \A p \in taken : PacketIn(run, p)
    BY <1>1, <1>4, Zenon DEF TakenInv
  <1>7. ASSUME NEW c \in run.start..(bufferStart - 1)
        PROVE  (\E p \in taken : p <= c /\ c < p + PacketSize) \/ NoProbe(run, c)
    <2>1. \/ \E p \in taken : p <= c /\ c < p + PacketSize
          \/ c + ProbeSize <= RunEnd /\ ~ProbeAt(c)
      BY <1>1, Zenon DEF TakenInv
    <2> QED BY <1>5, <2>1, Zenon DEF NoProbe, RunEnd, End
  <1>8. ASSUME NEW p \in taken
        PROVE  \/ p + PacketSize \in taken
               \/ NoPacket(run, p + PacketSize)
               \/ p + PacketSize = bufferStart /\ Len(buffer) < PacketSize
    <2>1. \/ p + PacketSize \in taken
          \/ p + 2 * PacketSize <= RunEnd /\ ~PacketAt(p + PacketSize)
          \/ p + PacketSize = bufferStart /\ Len(buffer) < PacketSize
      BY <1>1, Zenon DEF TakenInv
    <2>2. p + 2 * PacketSize = (p + PacketSize) + PacketSize
      BY <1>6, Sizes DEF Cells
    <2> QED BY <1>4, <2>1, <2>2, Zenon DEF NoPacket, RunEnd, End
  <1>9. TakenAt(run, taken, bufferStart, Len(buffer))
    BY <1>6, <1>7, <1>8, Zenon DEF TakenAt
  <1>10. detected => haveExpected /\ \E c \in Cells : ProbeIn(run, c)
    BY <1>1, <1>5, Zenon DEF DetectedInv
  <1>11. /\ buffer \in Seq(Bytes) /\ haveExpected \in BOOLEAN /\ detected \in BOOLEAN
         /\ Len(buffer) <= TailSize
    BY <1>1 DEF BufferWindow
  <1>12. /\ observed \in Seq([ts : BOOLEAN, captures : SUBSET Cells]) /\ expected \in Nat
         /\ (~detected => taken = {})
    BY <1>1 DEF TypeInv, TakenInv
  <1> QED BY <1>2, <1>3, <1>9, <1>10, <1>11, <1>12, Zenon

LEMMA InvFollows ==
  ASSUME run' \in Runs, End(run') <= Size, expected' = End(run'),
         TailOf(buffer', bufferStart', run'), Len(buffer') <= TailSize,
         haveExpected' \in BOOLEAN, detected' \in BOOLEAN,
         TakenAt(run', taken', bufferStart', Len(buffer')), ~detected' => taken' = {},
         detected' => haveExpected' /\ \E c \in Cells : ProbeIn(run', c),
         chunks' \in Seq(Chunk), ValidChunks(run', chunks'),
         observed' \in Seq([ts : BOOLEAN, captures : SUBSET Cells]),
         observed' # <<>> /\ Last(observed').ts => detected'
  PROVE  IndInv'
  <1>1. \A c : PacketAt(c)' <=> PacketIn(run', c)
    BY Zenon DEF PacketAt, PacketIn, RunEnd, End
  <1>2. \A c : ProbeAt(c)' <=> ProbeIn(run', c)
    BY <1>1, Zenon DEF ProbeAt, ProbeIn
  <1>3. RunEnd' = End(run') /\ End(run') \in Nat
    BY RunFields DEF RunEnd, End
  <1>4. buffer' \in Seq(Bytes) /\ bufferStart' \in Nat
    BY TailFacts
  <1>5. TypeInv'
    BY <1>3, <1>4 DEF TypeInv, Runs
  <1>6. BufferWindow'
    BY <1>3, <1>4, Zenon DEF BufferWindow, TailOf
  <1>7. ChunksValid'
    BY <1>1, Zenon DEF ChunksValid, ValidChunks
  <1>8. DetectedInv'
    BY <1>2, Zenon DEF DetectedInv
  <1>9. taken' \subseteq Cells /\ \A p \in taken' : PacketAt(p)'
    BY <1>1, Zenon DEF TakenAt
  <1>10. ASSUME NEW c \in run'.start..(bufferStart' - 1)
         PROVE  \/ \E p \in taken' : p <= c /\ c < p + PacketSize
                \/ c + ProbeSize <= RunEnd' /\ ~ProbeAt(c)'
    <2>1. (\E p \in taken' : p <= c /\ c < p + PacketSize) \/ NoProbe(run', c)
      BY Zenon DEF TakenAt
    <2> QED BY <1>2, <1>3, <2>1, Zenon DEF NoProbe
  <1>11. ASSUME NEW p \in taken'
         PROVE  \/ p + PacketSize \in taken'
                \/ p + 2 * PacketSize <= RunEnd' /\ ~PacketAt(p + PacketSize)'
                \/ p + PacketSize = bufferStart' /\ Len(buffer') < PacketSize
    <2>1. \/ p + PacketSize \in taken' \/ NoPacket(run', p + PacketSize)
          \/ p + PacketSize = bufferStart' /\ Len(buffer') < PacketSize
      BY Zenon DEF TakenAt
    <2>2. p + 2 * PacketSize = (p + PacketSize) + PacketSize
      BY <1>9, Sizes DEF Cells
    <2> QED BY <1>1, <1>3, <2>1, <2>2, Zenon DEF NoPacket
  <1>12. TakenInv'
    BY <1>9, <1>10, <1>11, Zenon DEF TakenInv
  <1> QED BY <1>5, <1>6, <1>7, <1>8, <1>12 DEF IndInv

\* The last observation.
LEMMA LastObserved ==
  ASSUME NEW S, NEW q \in Seq(S), NEW e \in S
  PROVE  Append(q, e) \in Seq(S) /\ Last(Append(q, e)) = e
  <1>1. Append(q, e) \in Seq(S) /\ Len(Append(q, e)) = Len(q) + 1 /\ Append(q, e)[Len(q) + 1] = e
    BY AppendFacts
  <1> QED BY <1>1 DEF Last

LEMMA InvInit == Init => IndInv
  <1> SUFFICES ASSUME Init PROVE IndInv
    OBVIOUS
  <1>1. /\ buffer = <<>> /\ bufferStart = 0 /\ expected = 0 /\ haveExpected = FALSE
        /\ detected = FALSE /\ observed = <<>> /\ chunks = <<>> /\ taken = {}
        /\ run = [start |-> 0, bytes |-> <<>>]
    BY DEF Init
  <1>2. run.start = 0 /\ run.bytes = <<>> /\ RunEnd = 0
    BY <1>1 DEF RunEnd
  <1>3. TailSize \in Nat /\ Size \in Nat
    BY Sizes
  <1>4. TypeInv
    BY <1>1, <1>2, <1>3 DEF TypeInv
  <1>5. BufferWindow
    <2>1. Drop(<<>>, 0) = <<>>
      <3> DEFINE e == <<>>
      <3>1. e \in Seq(Bytes) /\ 0 \in 0..Len(e) /\ Len(e) - 0 = 0
        OBVIOUS
      <3> HIDE DEF e
      <3>2. Drop(e, 0) \in Seq(Bytes) /\ Len(Drop(e, 0)) = Len(e) - 0
        BY <3>1, DropFacts
      <3>3. Len(Drop(e, 0)) = 0
        BY <3>1, <3>2
      <3> DEFINE d == Drop(e, 0)
      <3> HIDE DEF d
      <3>4. d \in Seq(Bytes) /\ Len(d) = 0
        BY <3>2, <3>3 DEF d
      <3>5. d = <<>>
        BY <3>4
      <3> QED BY <3>5 DEF d, e
    <2>2. /\ buffer \in Seq(Bytes) /\ haveExpected \in BOOLEAN /\ detected \in BOOLEAN
          /\ Len(buffer) = 0
      <3>1. <<>> \in Seq(Bytes) /\ Len(<<>>) = 0
        OBVIOUS
      <3> QED BY <1>1, <3>1, Zenon
    <2>3. run.start <= bufferStart /\ expected = RunEnd /\ bufferStart + Len(buffer) = RunEnd
      BY <1>1, <1>2, <2>2
    <2>4. bufferStart - run.start = 0 /\ Len(buffer) <= TailSize
      BY <1>1, <1>2, <1>3, <2>2
    <2>5. buffer = Drop(run.bytes, bufferStart - run.start)
      BY <1>1, <1>2, <2>1, <2>4, Zenon
    <2> QED BY <2>2, <2>3, <2>4, <2>5 DEF BufferWindow
  <1>6. ChunksValid /\ DetectedInv
    BY <1>1 DEF ChunksValid, DetectedInv
  <1>7. TakenInv
    BY <1>1, <1>2 DEF TakenInv
  <1> QED BY <1>4, <1>5, <1>6, <1>7 DEF IndInv

\* A write of the host.
Write(off, data) ==
    data \in Seq(Bytes) /\ Len(data) \in Nat \ {0} /\ off \in Nat /\ off + Len(data) <= Size

LEMMA WritesAre ==
  ASSUME NEW data \in HostData, NEW off \in 0..(Size - Len(data))
  PROVE  Write(off, data)
  <1>1. data \in Seq(Bytes) /\ data # <<>> /\ Size \in Nat
    BY PacketAssumption, Sizes
  <1>2. Len(data) \in Nat \ {0}
    BY <1>1
  <1> QED BY <1>1, <1>2 DEF Write

\* emit, from a buffer that ends the run: what IsTS makes of the state.
LEMMA IsTSStep ==
  ASSUME IndInv, NEW b, NEW s, NEW end, NEW r \in Runs, End(r) <= Size, end = End(r),
         TailOf(b, s, r), IsTS(b, s, end), run' = r, NEW K, NEW l, TakenAt(r, K, s, l),
         taken' = K \cup Packets(chunks'), \E c \in Cells : ProbeIn(r, c)
  PROVE  /\ IndInv'
         /\ s <= bufferStart' /\ bufferStart' <= end /\ bufferStart' \in Nat
         /\ CellsOfChunks(chunks') \subseteq Span(s, bufferStart')
         /\ validTSPacket(b, 0) => CellsOfChunks(chunks') # {}
  <1> DEFINE st == emit(b, s)
  <1>1. /\ buffer' = st.buffer /\ bufferStart' = st.start /\ expected' = end
        /\ haveExpected' = TRUE /\ detected' = TRUE /\ chunks' = st.out
        /\ observed' = Append(observed, [ts |-> TRUE, captures |-> CellsOfChunks(st.out)])
    BY DEF IsTS
  <1>2. /\ st \in Emits(r, s) /\ Len(st.buffer) <= TailSize
        /\ validTSPacket(b, 0) => st.out # <<>>
    BY EmitFacts
  <1>3. TakenAt(r, K \cup Packets(st.out), st.start, Len(st.buffer))
    BY EmitTakes
  <1>4. s \in Nat
    BY DEF TailOf
  <1> HIDE DEF st
  <1>5. st.out \in Seq(Chunk) /\ ValidChunks(r, st.out)
    BY <1>2, <1>4, EmitsValid
  <1>6. /\ CellsOfChunks(st.out) \subseteq Span(s, st.start)
        /\ st.out # <<>> => CellsOfChunks(st.out) # {}
    BY <1>2, <1>4, EmitPackets
  <1>7. TailOf(st.buffer, st.start, r) /\ s <= st.start /\ st.start \in Nat
    BY <1>2 DEF Emits, EmitInv, TailOf
  <1>8. st.start <= end
    <2>1. st.start + Len(st.buffer) = End(r) /\ Len(st.buffer) \in Nat
      BY <1>7, TailFacts DEF TailOf
    <2> QED BY <1>7, <2>1
  <1>9. observed \in Seq([ts : BOOLEAN, captures : SUBSET Cells])
    BY InvGives
  <1>10. [ts |-> TRUE, captures |-> CellsOfChunks(st.out)] \in [ts : BOOLEAN, captures : SUBSET Cells]
    BY <1>6 DEF Span
  <1>11. observed' \in Seq([ts : BOOLEAN, captures : SUBSET Cells])
    BY <1>1, <1>9, <1>10, LastObserved
  <1>12. IndInv'
    BY <1>1, <1>2, <1>3, <1>5, <1>7, <1>11, InvFollows
  <1> QED BY <1>1, <1>2, <1>6, <1>7, <1>8, <1>12

\* The stream goes on.
LEMMA StreamStep ==
  ASSUME IndInv, NEW off, NEW data, Write(off, data), FeedStream(off, data)
  PROVE  /\ IndInv'
         /\ bufferStart <= bufferStart' /\ bufferStart' <= off + Len(data) /\ bufferStart' \in Nat
         /\ CellsOfChunks(chunks') \subseteq Span(bufferStart, bufferStart')
  <1>1. /\ run \in Runs /\ expected = End(run) /\ TailOf(buffer, bufferStart, run)
        /\ TakenAt(run, taken, bufferStart, Len(buffer))
        /\ detected => \E c \in Cells : ProbeIn(run, c)
    BY InvGives
  <1>2. data \in Seq(Bytes) /\ Len(data) \in Nat /\ off \in Nat /\ off + Len(data) <= Size
    BY DEF Write
  <1>3. /\ detected /\ off = expected /\ IsTS(buffer \o data, bufferStart, off + Len(data))
        /\ run' = [run EXCEPT !.bytes = @ \o data] /\ taken' = taken \cup Packets(chunks')
    BY DEF FeedStream, Continued
  <1> DEFINE q == [start |-> run.start, bytes |-> run.bytes \o data]
  <1>4. run' = q
    BY <1>1, <1>3 DEF Runs
  <1> HIDE DEF q
  <1>5. /\ q \in Runs /\ End(q) = End(run) + Len(data)
        /\ \A c \in Int : ProbeIn(run, c) => ProbeIn(q, c)
        /\ TailOf(buffer \o data, bufferStart, q)
    BY <1>1, <1>2, RunGrows DEF q
  <1>6. TakenAt(q, taken, bufferStart, 0)
    BY <1>1, <1>2, TakenGrows DEF q
  <1>7. \E c \in Cells : ProbeIn(q, c)
    BY <1>1, <1>3, <1>5 DEF Cells
  <1>8. End(q) = off + Len(data) /\ End(q) <= Size
    BY <1>1, <1>2, <1>3, <1>5
  <1> QED BY <1>3, <1>4, <1>5, <1>6, <1>7, <1>8, IsTSStep

\* Another extent begins with a probe.
LEMMA SegmentStep ==
  ASSUME IndInv, NEW off, NEW data, Write(off, data), FeedSegment(off, data)
  PROVE  /\ IndInv'
         /\ off <= bufferStart' /\ bufferStart' <= off + Len(data) /\ bufferStart' \in Nat
         /\ CellsOfChunks(chunks') \subseteq Span(off, bufferStart')
         /\ CellsOfChunks(chunks') # {}
  <1>1. data \in Seq(Bytes) /\ Len(data) \in Nat /\ off \in Nat /\ off + Len(data) <= Size
    BY DEF Write
  <1> DEFINE n == findMPEGTS(data)
             r == [start |-> off, bytes |-> data]
  <1>2. /\ Probes(data) # {} /\ IsTS(Drop(data, n), off + n, off + Len(data))
        /\ run' = r /\ taken' = Packets(chunks')
    BY DEF FeedSegment, Restarted
  <1> HIDE DEF n, r
  <1>3. r \in Runs /\ End(r) = off + Len(data) /\ TailOf(data, off, r) /\ TakenAt(r, {}, off, 0)
    BY <1>1, NewRun DEF r
  <1>4. /\ TailOf(Drop(data, n), off + n, r) /\ TakenAt(r, {}, off + n, 0)
        /\ off + n \in Cells /\ off <= off + n /\ ProbeIn(r, off + n)
        /\ validTSPacket(Drop(data, n), 0)
    BY <1>1, <1>2, <1>3, Found DEF n
  <1>5. taken' = {} \cup Packets(chunks')
    BY <1>2
  <1> DEFINE b == Drop(data, n)
             s == off + n
  <1>6. /\ TailOf(b, s, r) /\ TakenAt(r, {}, s, 0) /\ IsTS(b, s, off + Len(data))
        /\ \E c \in Cells : ProbeIn(r, c)
    BY <1>2, <1>4
  <1>7. s \in Nat /\ off <= s /\ validTSPacket(b, 0)
    BY <1>4 DEF TailOf
  <1> HIDE DEF b, s
  <1>8. /\ IndInv' /\ s <= bufferStart' /\ bufferStart' <= off + Len(data) /\ bufferStart' \in Nat
        /\ CellsOfChunks(chunks') \subseteq Span(s, bufferStart')
        /\ CellsOfChunks(chunks') # {}
    BY <1>1, <1>2, <1>3, <1>5, <1>6, <1>7, IsTSStep
  <1>9. off <= bufferStart'
    BY <1>1, <1>7, <1>8
  <1>10. Span(s, bufferStart') \subseteq Span(off, bufferStart')
    BY <1>1, <1>7 DEF Span, Cells
  <1> QED BY <1>8, <1>9, <1>10

\* The candidate is the end of the run, of which nothing is taken yet.
LEMMA CandidateRun ==
  ASSUME IndInv, NEW off, NEW data, Write(off, data), ~detected, History(off, data)
  PROVE  LET b == Candidate(off, data)
         IN  /\ run' \in Runs /\ End(run') = off + Len(data)
             /\ TailOf(b.bytes, b.start, run') /\ TakenAt(run', {}, b.start, 0)
             /\ Len(b.bytes) >= 1 /\ taken' = {} \cup Packets(chunks')
             /\ b.start = IF haveExpected /\ off = expected THEN bufferStart ELSE off
  <1>1. /\ run \in Runs /\ expected = End(run) /\ TailOf(buffer, bufferStart, run)
        /\ buffer \in Seq(Bytes) /\ TakenAt(run, taken, bufferStart, Len(buffer)) /\ taken = {}
    BY InvGives
  <1>2. data \in Seq(Bytes) /\ Len(data) \in Nat \ {0} /\ off \in Nat
    BY DEF Write
  <1> DEFINE b == Candidate(off, data)
  <1>3. CASE haveExpected /\ off = expected
    <2>1. b.bytes = buffer \o data /\ b.start = bufferStart
      BY <1>3 DEF Candidate
    <2>2. run' = [run EXCEPT !.bytes = @ \o data] /\ taken' = taken \cup Packets(chunks')
      BY <1>3, Zenon DEF History, Continued
    <2> DEFINE q == [start |-> run.start, bytes |-> run.bytes \o data]
    <2>3. run' = q
      BY <1>1, <2>2 DEF Runs
    <2> HIDE DEF q, b
    <2>4. q \in Runs /\ End(q) = End(run) + Len(data) /\ TailOf(buffer \o data, bufferStart, q)
      BY <1>1, <1>2, RunGrows DEF q
    <2>5. TakenAt(q, {}, bufferStart, 0)
      <3>1. run \in Runs /\ data \in Seq(Bytes) /\ TakenAt(run, taken, bufferStart, Len(buffer))
        BY <1>1, <1>2
      <3>2. TakenAt(q, taken, bufferStart, 0)
        BY <3>1, TakenGrows DEF q
      <3> QED BY <1>1, <3>2
    <2>6. Len(b.bytes) >= 1
      <3>1. Len(b.bytes) = Len(buffer) + Len(data) /\ Len(buffer) \in Nat
        BY <1>1, <1>2, <2>1, ConcatFacts
      <3> QED BY <1>2, <3>1
    <2> QED BY <1>1, <1>3, <2>1, <2>2, <2>3, <2>4, <2>5, <2>6 DEF b
  <1>4. CASE ~(haveExpected /\ off = expected)
    <2>1. b.bytes = data /\ b.start = off
      BY <1>4 DEF Candidate
    <2> DEFINE r == [start |-> off, bytes |-> data]
    <2>2. run' = r /\ taken' = Packets(chunks')
      BY <1>4, Zenon DEF History, Restarted
    <2> HIDE DEF r, b
    <2>3. r \in Runs /\ End(r) = off + Len(data) /\ TailOf(data, off, r) /\ TakenAt(r, {}, off, 0)
      BY <1>2, NewRun DEF r
    <2>4. Len(b.bytes) >= 1
      BY <1>2, <2>1
    <2> QED BY <1>4, <2>1, <2>2, <2>3, <2>4 DEF b
  <1> QED BY <1>3, <1>4

LEMMA DetectsStep ==
  ASSUME IndInv, NEW off, NEW data, Write(off, data), FeedDetects(off, data)
  PROVE  LET s == Candidate(off, data).start
         IN  /\ IndInv'
             /\ s <= bufferStart' /\ bufferStart' <= off + Len(data) /\ bufferStart' \in Nat
             /\ CellsOfChunks(chunks') \subseteq Span(s, bufferStart')
             /\ CellsOfChunks(chunks') # {}
  <1>1. Len(data) \in Nat /\ off \in Nat /\ off + Len(data) <= Size
    BY DEF Write
  <1> DEFINE b == Candidate(off, data).bytes
             s == Candidate(off, data).start
             n == findMPEGTS(b)
             r == run'
  <1>2. /\ ~detected /\ Probes(b) # {} /\ IsTS(Drop(b, n), s + n, off + Len(data))
        /\ History(off, data)
    BY DEF FeedDetects
  <1>3. /\ r \in Runs /\ End(r) = off + Len(data) /\ TailOf(b, s, r)
        /\ TakenAt(r, {}, s, 0) /\ taken' = {} \cup Packets(chunks')
    BY <1>2, CandidateRun
  <1>3a. run' = r
    OBVIOUS
  <1> HIDE DEF b, s, r
  <1>4. /\ TailOf(Drop(b, n), s + n, r) /\ TakenAt(r, {}, s + n, 0)
        /\ s + n \in Cells /\ s <= s + n /\ ProbeIn(r, s + n)
        /\ validTSPacket(Drop(b, n), 0)
    BY <1>1, <1>2, <1>3, Found
  <1> HIDE DEF n
  <1> DEFINE d == Drop(b, n)
             e == s + n
  <1>6. /\ TailOf(d, e, r) /\ TakenAt(r, {}, e, 0) /\ IsTS(d, e, off + Len(data))
        /\ \E c \in Cells : ProbeIn(r, c)
    BY <1>2, <1>4
  <1>7. e \in Nat /\ s \in Nat /\ s <= e /\ validTSPacket(d, 0)
    BY <1>3, <1>4 DEF TailOf
  <1> HIDE DEF d, e
  <1>8. /\ IndInv' /\ e <= bufferStart' /\ bufferStart' <= off + Len(data) /\ bufferStart' \in Nat
        /\ CellsOfChunks(chunks') \subseteq Span(e, bufferStart')
        /\ CellsOfChunks(chunks') # {}
    BY <1>1, <1>3, <1>3a, <1>6, <1>7, IsTSStep
  <1>9. s <= bufferStart'
    BY <1>7, <1>8
  <1>10. Span(e, bufferStart') \subseteq Span(s, bufferStart')
    BY <1>7 DEF Span, Cells
  <1> QED BY <1>8, <1>9, <1>10 DEF s

LEMMA UndetectedStep ==
  ASSUME IndInv, NEW off, NEW data, Write(off, data), FeedUndetected(off, data)
  PROVE  LET s == Candidate(off, data).start
         IN  /\ IndInv'
             /\ s <= bufferStart' /\ bufferStart' < off + Len(data) /\ bufferStart' \in Nat
  <1>1. Len(data) \in Nat /\ off \in Nat /\ off + Len(data) <= Size
    BY DEF Write
  <1> DEFINE b == Candidate(off, data).bytes
             s == Candidate(off, data).start
             r == run'
  <1>2. /\ ~detected /\ Probes(b) = {} /\ buffer' = keepTail(b)
        /\ bufferStart' = s + (Len(b) - Len(buffer'))
        /\ expected' = off + Len(data) /\ haveExpected' = TRUE /\ chunks' = <<>>
        /\ observed' = Append(observed, [ts |-> FALSE, captures |-> {}])
        /\ History(off, data) /\ detected' = detected
    BY DEF FeedUndetected, IsNotTS
  <1>3. /\ r \in Runs /\ End(r) = off + Len(data) /\ TailOf(b, s, r)
        /\ TakenAt(r, {}, s, 0) /\ taken' = {} \cup Packets(chunks') /\ Len(b) >= 1
    BY <1>2, CandidateRun
  <1>4. run' = r
    OBVIOUS
  <1> HIDE DEF b, s, r
  <1> DEFINE k == keepTail(b)
             e == s + (Len(b) - Len(k))
  <1>5. TailOf(k, e, r) /\ TakenAt(r, {}, e, Len(k)) /\ Len(k) <= TailSize /\ Len(k) >= 1 /\ s <= e
    BY <1>2, <1>3, Kept
  <1>6. buffer' = k /\ bufferStart' = e
    BY <1>2
  <1> HIDE DEF k, e
  <1>7. e \in Nat /\ e < off + Len(data)
    <2>1. e \in Nat /\ e + Len(k) = End(r) /\ Len(k) \in Nat
      BY <1>3, <1>5, TailFacts DEF TailOf
    <2> QED BY <1>3, <1>5, <2>1
  <1>8. taken' = {}
    BY <1>2, <1>3 DEF Packets, CellsOfChunks
  <1>9. observed \in Seq([ts : BOOLEAN, captures : SUBSET Cells]) /\ detected \in BOOLEAN
    BY InvGives
  <1>10. [ts |-> FALSE, captures |-> {}] \in [ts : BOOLEAN, captures : SUBSET Cells]
    OBVIOUS
  <1>11. observed' \in Seq([ts : BOOLEAN, captures : SUBSET Cells]) /\ Last(observed').ts = FALSE
    <2> DEFINE o == [ts |-> FALSE, captures |-> {}]
               S == [ts : BOOLEAN, captures : SUBSET Cells]
    <2>1. o.ts = FALSE
      OBVIOUS
    <2>2. observed' = Append(observed, o) /\ o \in S /\ observed \in Seq(S)
      BY <1>2, <1>9, <1>10
    <2> HIDE DEF o, S
    <2>3. Append(observed, o) \in Seq(S) /\ Last(Append(observed, o)) = o
      BY <2>2, LastObserved
    <2>4. observed' \in Seq(S) /\ Last(observed').ts = FALSE
      BY <2>1, <2>2, <2>3
    <2> QED BY <2>4 DEF S
  <1>12. chunks' \in Seq(Chunk) /\ ValidChunks(run', chunks')
    BY <1>2 DEF ValidChunks
  <1>13. IndInv'
    BY <1>1, <1>2, <1>3, <1>4, <1>5, <1>6, <1>8, <1>9, <1>11, <1>12, InvFollows
  <1> QED BY <1>5, <1>6, <1>7, <1>13 DEF s

\* A write that the scanner ignores.
LEMMA OtherStep ==
  ASSUME IndInv, NEW off, NEW data, FeedOther(off, data)
  PROVE  IndInv'
  <1>1. /\ detected /\ chunks' = <<>> /\ observed' = Append(observed, [ts |-> FALSE, captures |-> {}])
        /\ buffer' = buffer /\ bufferStart' = bufferStart /\ expected' = expected
        /\ haveExpected' = haveExpected /\ detected' = detected /\ run' = run /\ taken' = taken
    BY DEF FeedOther, IsNotTS
  <1>2. /\ run \in Runs /\ End(run) <= Size /\ expected = End(run)
        /\ TailOf(buffer, bufferStart, run) /\ Len(buffer) <= TailSize
        /\ haveExpected \in BOOLEAN /\ detected \in BOOLEAN
        /\ TakenAt(run, taken, bufferStart, Len(buffer)) /\ (~detected => taken = {})
        /\ detected => haveExpected /\ \E c \in Cells : ProbeIn(run, c)
        /\ observed \in Seq([ts : BOOLEAN, captures : SUBSET Cells])
    BY InvGives
  <1>3. [ts |-> FALSE, captures |-> {}] \in [ts : BOOLEAN, captures : SUBSET Cells]
    OBVIOUS
  <1>4. observed' \in Seq([ts : BOOLEAN, captures : SUBSET Cells])
    BY <1>1, <1>2, <1>3, LastObserved
  <1>5. chunks' \in Seq(Chunk) /\ ValidChunks(run', chunks')
    BY <1>1 DEF ValidChunks
  <1> QED BY <1>1, <1>2, <1>4, <1>5, InvFollows

LEMMA InvStutters ==
  ASSUME IndInv, UNCHANGED vars
  PROVE  IndInv'
  <1>1. /\ buffer' = buffer /\ bufferStart' = bufferStart /\ expected' = expected
        /\ haveExpected' = haveExpected /\ detected' = detected /\ run' = run /\ taken' = taken
        /\ observed' = observed /\ chunks' = chunks
    BY DEF vars
  <1>2. TypeInv' /\ BufferWindow'
    BY <1>1 DEF IndInv, TypeInv, BufferWindow, RunEnd
  <1>3. \A c : (PacketAt(c)' <=> PacketAt(c)) /\ (ProbeAt(c)' <=> ProbeAt(c))
    BY <1>1, Zenon DEF PacketAt, ProbeAt, RunEnd
  <1>4. ChunksValid' /\ DetectedInv' /\ TakenInv'
    BY <1>1, <1>3, Zenon DEF IndInv, ChunksValid, DetectedInv, TakenInv, RunEnd
  <1> QED BY <1>2, <1>4 DEF IndInv

LEMMA InvNext == IndInv /\ [Next]_vars => IndInv'
  <1> SUFFICES ASSUME IndInv, [Next]_vars PROVE IndInv'
    OBVIOUS
  <1>1. CASE Next
    <2>1. PICK data \in HostData : \E off \in 0..(Size - Len(data)) :
              \/ FeedStream(off, data) \/ FeedSegment(off, data) \/ FeedOther(off, data)
              \/ FeedDetects(off, data) \/ FeedUndetected(off, data)
      BY <1>1 DEF Next
    <2>2. PICK off \in 0..(Size - Len(data)) :
              \/ FeedStream(off, data) \/ FeedSegment(off, data) \/ FeedOther(off, data)
              \/ FeedDetects(off, data) \/ FeedUndetected(off, data)
      BY <2>1
    <2>3. Write(off, data)
      BY WritesAre
    <2> QED BY <2>2, <2>3, StreamStep, SegmentStep, OtherStep, DetectsStep, UndetectedStep
  <1>2. CASE UNCHANGED vars
    BY <1>2, InvStutters
  <1> QED BY <1>1, <1>2


-----------------------------------------------------------------------------
(***************************************************************************)
(* TSScanner keeps its inductive invariant in every step.                  *)
(***************************************************************************)
THEOREM Inductive == Spec => []IndInv
  BY InvInit, InvNext, PTL DEF Spec

(***************************************************************************)
(* The buffer of the scanner is the end of the run that it follows, at the *)
(* right address, and always shorter than a probe.                         *)
(***************************************************************************)
THEOREM BufferBounded == Spec => []BufferWindow
  <1>1. IndInv => BufferWindow
    BY DEF IndInv
  <1> QED BY <1>1, Inductive, PTL

(***************************************************************************)
(* The chunks that emit hands on are whole packets, and the bytes that the *)
(* host wrote where the chunk says.                                        *)
(***************************************************************************)
THEOREM ChunksAreStream == Spec => []ChunksValid
  <1>1. IndInv => ChunksValid
    BY DEF IndInv
  <1> QED BY <1>1, Inductive, PTL

(***************************************************************************)
(* However the host splits a stream into writes, a packet where a probe    *)
(* succeeds is captured, unless emit has captured a packet of another      *)
(* phase over its first byte; and after a captured packet the next one is. *)
(***************************************************************************)
THEOREM NothingMissed == Spec => []StreamCaptured
  <1>1. IndInv => StreamCaptured
    <2> SUFFICES ASSUME IndInv PROVE StreamCaptured
      OBVIOUS
    <2>1. /\ run \in Runs /\ TailOf(buffer, bufferStart, run) /\ Len(buffer) <= TailSize
          /\ TakenAt(run, taken, bufferStart, Len(buffer))
      BY InvGives
    <2>2. \A c : PacketAt(c) <=> PacketIn(run, c)
      BY Zenon DEF PacketAt, PacketIn, RunEnd, End
    <2>3. \A c : ProbeAt(c) <=> ProbeIn(run, c)
      BY <2>2, Zenon DEF ProbeAt, ProbeIn
    <2>4. /\ bufferStart \in Nat /\ Len(buffer) \in Nat /\ bufferStart + Len(buffer) = End(run)
          /\ run.start \in Nat
      BY <2>1, TailFacts, RunFields DEF TailOf
    <2>5. /\ PacketSize \in Nat /\ ProbeSize \in Nat /\ TailSize = ProbeSize - 1
      BY Sizes
    <2>6. ASSUME NEW c \in Cells, ProbeAt(c)
          PROVE  c \in taken \/ OffPhase(c)
      <3>1. c \in Int /\ ProbeIn(run, c)
        BY <2>3, <2>6 DEF Cells
      <3>2. run.start <= c /\ c + ProbeSize <= End(run)
        BY <2>1, <3>1, ProbeFits
      <3>3. c \in run.start..(bufferStart - 1)
        <4> DEFINE l == Len(buffer)
                   x == run.start
        <4>1. /\ l \in Nat /\ x \in Nat /\ l <= ProbeSize - 1 /\ bufferStart + l = End(run)
              /\ x <= c /\ c + ProbeSize <= End(run)
          BY <2>1, <2>4, <2>5, <3>2
        <4> HIDE DEF l, x
        <4>2. c \in x..(bufferStart - 1)
          BY <2>4, <2>5, <3>1, <4>1
        <4> QED BY <4>2 DEF x
      <3>4. (\E p \in taken : p <= c /\ c < p + PacketSize) \/ NoProbe(run, c)
        BY <2>1, <3>3, Zenon DEF TakenAt
      <3>5. PICK p \in taken : p <= c /\ c < p + PacketSize
        BY <3>1, <3>4, Zenon DEF NoProbe
      <3>6. p \in Int /\ PacketAt(p)
        BY <2>1, <2>2 DEF TakenAt, Cells
      <3>7. p = c \/ p < c
        BY <3>1, <3>5, <3>6
      <3> QED BY <3>5, <3>6, <3>7, Zenon DEF OffPhase
    <2>7. ASSUME NEW p \in taken, PacketAt(p + PacketSize) PROVE p + PacketSize \in taken
      <3>1. PacketIn(run, p + PacketSize)
        BY <2>2, <2>7
      <3>2. (p + PacketSize) + PacketSize <= End(run) /\ p \in Int
        BY <2>1, <3>1 DEF PacketIn, TakenAt, Cells
      <3>3. ~(p + PacketSize = bufferStart /\ Len(buffer) < PacketSize)
        <4> DEFINE l == Len(buffer)
        <4>1. l \in Nat /\ bufferStart + l = End(run)
          BY <2>4
        <4> HIDE DEF l
        <4>2. ~(p + PacketSize = bufferStart /\ l < PacketSize)
          BY <2>4, <2>5, <3>2, <4>1
        <4> QED BY <4>2 DEF l
      <3>4. \/ p + PacketSize \in taken \/ NoPacket(run, p + PacketSize)
            \/ p + PacketSize = bufferStart /\ Len(buffer) < PacketSize
        BY <2>1, Zenon DEF TakenAt
      <3> QED BY <3>1, <3>3, <3>4, Zenon DEF NoPacket
    <2> QED BY <2>6, <2>7 DEF StreamCaptured
  <1> QED BY <1>1, Inductive, PTL

(***************************************************************************)
(* No write is declared MPEG-TS, and so kept from the disk, in a run that  *)
(* findMPEGTS has found no probe in.                                       *)
(***************************************************************************)
THEOREM DeclaredOnlyAfterProbe == Spec => []DeclaredAfterProbe
  <1>1. IndInv => DeclaredAfterProbe
    BY Zenon DEF IndInv, DetectedInv, DeclaredAfterProbe
  <1> QED BY <1>1, Inductive, PTL

-----------------------------------------------------------------------------
(***************************************************************************)
(* The scanner implements Classification: its steps are steps of Classify. *)
(***************************************************************************)
LEMMA WriteRange ==
  ASSUME NEW off, NEW data, Write(off, data)
  PROVE  [start |-> off, end |-> off + Len(data)] \in Abstract!Ranges
  <1>1. off \in 0..(Size - 1) /\ off + Len(data) \in 1..Size /\ off < off + Len(data)
    BY Sizes DEF Write
  <1> QED BY <1>1 DEF Abstract!Ranges

LEMMA EmitIsEmit ==
  ASSUME NEW from, NEW end, NEW probed \in BOOLEAN, NEW b, NEW s, IsTS(b, s, end),
         from \in Nat, end \in Nat, bufferStart' \in Nat, from <= bufferStart', bufferStart' <= end,
         CellsOfChunks(chunks') \subseteq Span(from, bufferStart'),
         probed => CellsOfChunks(chunks') # {}
  PROVE  Abstract!Emit(from, end, probed)
  <1>1. /\ expected' = end /\ haveExpected' = TRUE /\ detected' = TRUE
        /\ observed' = Append(observed, [ts |-> TRUE, captures |-> CellsOfChunks(chunks')])
    BY DEF IsTS
  <1>2. bufferStart' \in from..end
    OBVIOUS
  <1>3. CellsOfChunks(chunks') \in SUBSET Abstract!Span(from, bufferStart')
    BY DEF Abstract!Span, Abstract!Cells, Span, Cells
  <1> QED BY <1>1, <1>2, <1>3, Zenon DEF Abstract!Emit

LEMMA StepsClassify ==
  ASSUME IndInv, NEW off, NEW data, Write(off, data),
         \/ FeedStream(off, data) \/ FeedSegment(off, data) \/ FeedOther(off, data)
         \/ FeedDetects(off, data) \/ FeedUndetected(off, data)
  PROVE  Abstract!Classify([start |-> off, end |-> off + Len(data)])
  <1> DEFINE r == [start |-> off, end |-> off + Len(data)]
             end == off + Len(data)
             contiguous == haveExpected /\ off = expected
             from == IF contiguous THEN bufferStart ELSE off
  <1>1. off \in Nat /\ end \in Nat /\ bufferStart \in Nat /\ from \in Nat
    BY InvGives DEF Write
  <1>2. detected => haveExpected
    BY InvGives
  <1>3. haveExpected \in BOOLEAN /\ detected \in BOOLEAN
    BY InvGives
  <1>4. r.start = off /\ r.end = end
    OBVIOUS
  <1>5. CASE FeedStream(off, data)
    <2>1. detected /\ contiguous /\ from = bufferStart /\ IsTS(buffer \o data, bufferStart, end)
      BY <1>2, <1>5 DEF FeedStream
    <2>2. /\ bufferStart <= bufferStart' /\ bufferStart' <= end /\ bufferStart' \in Nat
          /\ CellsOfChunks(chunks') \subseteq Span(bufferStart, bufferStart')
      BY <1>5, StreamStep
    <2>3. Abstract!Emit(bufferStart, end, FALSE)
      BY <1>1, <2>1, <2>2, EmitIsEmit
    <2> QED BY <1>4, <2>1, <2>3 DEF Abstract!Classify
  <1>6. CASE FeedSegment(off, data)
    <2>1. detected /\ ~contiguous /\ from = off
          /\ IsTS(Drop(data, findMPEGTS(data)), off + findMPEGTS(data), end)
      BY <1>6 DEF FeedSegment
    <2>2. /\ off <= bufferStart' /\ bufferStart' <= end /\ bufferStart' \in Nat
          /\ CellsOfChunks(chunks') \subseteq Span(off, bufferStart')
          /\ CellsOfChunks(chunks') # {}
      BY <1>6, SegmentStep
    <2>3. Abstract!Emit(off, end, TRUE)
      BY <1>1, <2>1, <2>2, EmitIsEmit
    <2> QED BY <1>4, <2>1, <2>3 DEF Abstract!Classify
  <1>7. CASE FeedOther(off, data)
    <2>1. /\ detected /\ ~contiguous
          /\ observed' = Append(observed, [ts |-> FALSE, captures |-> {}])
          /\ buffer' = buffer /\ bufferStart' = bufferStart /\ expected' = expected
          /\ haveExpected' = haveExpected /\ detected' = detected
      BY <1>7 DEF FeedOther, IsNotTS
    <2> QED BY <1>4, <2>1 DEF Abstract!Classify, Abstract!NotTS
  <1>8. CASE FeedDetects(off, data)
    <2> DEFINE s == Candidate(off, data).start
               b == Candidate(off, data).bytes
    <2>1. ~detected /\ IsTS(Drop(b, findMPEGTS(b)), s + findMPEGTS(b), end) /\ History(off, data)
      BY <1>8 DEF FeedDetects
    <2>2. /\ s <= bufferStart' /\ bufferStart' <= end /\ bufferStart' \in Nat
          /\ CellsOfChunks(chunks') \subseteq Span(s, bufferStart')
          /\ CellsOfChunks(chunks') # {}
      BY <1>8, DetectsStep
    <2>3. s = from
      BY <2>1, CandidateRun
    <2> HIDE DEF s, b
    <2>4. Abstract!Emit(from, end, TRUE)
      BY <1>1, <2>1, <2>2, <2>3, EmitIsEmit
    <2> QED BY <1>4, <2>1, <2>4 DEF Abstract!Classify
  <1>9. CASE FeedUndetected(off, data)
    <2> DEFINE s == Candidate(off, data).start
    <2>1. /\ ~detected /\ History(off, data) /\ detected' = detected /\ haveExpected' = TRUE
          /\ expected' = end /\ observed' = Append(observed, [ts |-> FALSE, captures |-> {}])
      BY <1>9 DEF FeedUndetected, IsNotTS
    <2>2. s <= bufferStart' /\ bufferStart' < end /\ bufferStart' \in Nat
      BY <1>9, UndetectedStep
    <2>3. s = from
      BY <2>1, CandidateRun
    <2> HIDE DEF s
    <2>4. bufferStart' \in from..(end - 1)
      BY <1>1, <2>2, <2>3
    <2>5. detected' = FALSE
      BY <1>3, <2>1
    <2> QED BY <1>4, <2>1, <2>4, <2>5 DEF Abstract!Classify, Abstract!NotTS
  <1> QED BY <1>5, <1>6, <1>7, <1>8, <1>9

(***************************************************************************)
(* What StagedDisk assumes of the scanner is what the scanner does.        *)
(***************************************************************************)
THEOREM Refinement == Spec => ImplementsClassification
  <1>1. Init => Abstract!ClassInit
    BY DEF Init, Abstract!ClassInit
  <1>2. IndInv /\ [Next]_vars
          => [\E r \in Abstract!Ranges : Abstract!Classify(r)]_Abstract!snifVars
    <2> SUFFICES ASSUME IndInv, [Next]_vars
                 PROVE  [\E r \in Abstract!Ranges : Abstract!Classify(r)]_Abstract!snifVars
      OBVIOUS
    <2>1. CASE Next
      <3>1. PICK data \in HostData : \E off \in 0..(Size - Len(data)) :
                \/ FeedStream(off, data) \/ FeedSegment(off, data) \/ FeedOther(off, data)
                \/ FeedDetects(off, data) \/ FeedUndetected(off, data)
        BY <2>1 DEF Next
      <3>2. PICK off \in 0..(Size - Len(data)) :
                \/ FeedStream(off, data) \/ FeedSegment(off, data) \/ FeedOther(off, data)
                \/ FeedDetects(off, data) \/ FeedUndetected(off, data)
        BY <3>1
      <3>3. Write(off, data)
        BY WritesAre
      <3>4. Abstract!Classify([start |-> off, end |-> off + Len(data)])
        BY <3>2, <3>3, StepsClassify
      <3> QED BY <3>3, <3>4, WriteRange
    <2>2. CASE UNCHANGED vars
      BY <2>2 DEF vars, Abstract!snifVars
    <2> QED BY <2>1, <2>2
  <1> QED BY <1>1, <1>2, Inductive, PTL DEF Spec, ImplementsClassification, Abstract!ClassSpec
=============================================================================
