-------------------------- MODULE StagedDiskProofs --------------------------
(***************************************************************************)
(* Proofs about StagedDisk, for a disk, a ring of recent writes and a      *)
(* punch queue of any size, and any number of host writes and faults.      *)
(***************************************************************************)
EXTENDS StagedDisk, TLAPS

\* What Append does to a sequence.
LEMMA AppendFacts ==
  ASSUME NEW S, NEW s \in Seq(S), NEW e \in S
  PROVE  /\ Append(s, e) \in Seq(S)
         /\ Len(Append(s, e)) = Len(s) + 1
         /\ \A i \in 1..Len(s) : Append(s, e)[i] = s[i]
         /\ Append(s, e)[Len(s) + 1] = e
  OBVIOUS

\* What Head and Tail do to a sequence that is not empty.
LEMMA TailFacts ==
  ASSUME NEW S, NEW s \in Seq(S), s # <<>>
  PROVE  /\ Head(s) \in S /\ Head(s) = s[1]
         /\ Len(s) \in Nat \ {0}
         /\ Tail(s) \in Seq(S)
         /\ Len(Tail(s)) = Len(s) - 1
         /\ \A i \in 1..(Len(s) - 1) : Tail(s)[i] = s[i + 1]
  OBVIOUS

\* The counters of the stages.
LEMMA Counters ==
  ASSUME TypeOK
  PROVE  /\ Len(log) \in Nat /\ Len(observed) \in Nat /\ done \in Nat
         /\ done <= Len(observed) /\ Len(observed) <= Len(log) /\ Len(log) <= MaxWrites
         /\ MaxWrites \in Nat /\ Size \in Nat \ {0}
         /\ Len(recent) \in Nat /\ Len(punches) \in Nat
  <1>1. log \in Seq(Ranges) /\ observed \in Seq(Observation)
    BY DEF TypeOK
  <1>2. recent \in Seq(Nat) /\ punches \in Seq(PunchRequest)
    BY DEF TypeOK
  <1>3. Len(log) \in Nat /\ Len(observed) \in Nat /\ Len(recent) \in Nat /\ Len(punches) \in Nat
    BY <1>1, <1>2
  <1>4. done \in 0..Len(observed) /\ Len(observed) <= Len(log) /\ Len(log) <= MaxWrites
    BY DEF TypeOK
  <1> QED BY <1>3, <1>4, CapacityAssumption, SizeAssumption

\* The entries of the sequences.
LEMMA Entries ==
  ASSUME TypeOK
  PROVE  /\ \A w \in 1..Len(log) : log[w] \in Ranges
         /\ \A w \in 1..Len(observed) : observed[w] \in Observation
         /\ \A i \in 1..Len(punches) : punches[i] \in PunchRequest
  <1>1. log \in Seq(Ranges) /\ observed \in Seq(Observation) /\ punches \in Seq(PunchRequest)
    BY DEF TypeOK
  <1> QED BY <1>1

\* A host write appends its range.
LEMMA HostWriteFacts ==
  ASSUME TypeOK, NEW r \in Ranges, HostWrite(r)
  PROVE  /\ log' \in Seq(Ranges) /\ Len(log') = Len(log) + 1 /\ Len(log') <= MaxWrites
         /\ \A w \in 1..Len(log) : log'[w] = log[w]
         /\ log'[Len(log) + 1] = r
         /\ nextGen = Len(log) + 1 /\ nextGen' = nextGen + 1
         /\ owner' = [c \in Cells |-> IF Within(c, r) THEN nextGen ELSE owner[c]]
         /\ latest' = [c \in Cells |-> IF Within(c, r) THEN nextGen ELSE latest[c]]
         /\ torn' \subseteq Cells /\ wpc # "closed"
         /\ UNCHANGED <<scanner, observed, disk, done, wpc, recent, failed, stuck, punches, reader>>
  <1>1. log \in Seq(Ranges) /\ log' = Append(log, r) /\ Len(log) < MaxWrites
    BY DEF TypeOK, HostWrite
  <1>2. log' \in Seq(Ranges) /\ Len(log') = Len(log) + 1 /\ log'[Len(log) + 1] = r
    BY <1>1, AppendFacts
  <1>3. \A w \in 1..Len(log) : log'[w] = log[w]
    BY <1>1, AppendFacts
  <1>4. Len(log') <= MaxWrites
    BY <1>1, <1>2, Counters
  <1> QED
    BY <1>2, <1>3, <1>4 DEF TypeOK, HostWrite, Stage, snifVars, writerVars

\* The sniffer appends an observation.
LEMMA FeedFacts ==
  ASSUME TypeOK, Feed
  PROVE  /\ observed' \in Seq(Observation) /\ Len(observed') = Len(observed) + 1
         /\ Len(observed') <= Len(log)
         /\ \A w \in 1..Len(observed) : observed'[w] = observed[w]
         /\ scanner' \in ScannerState
         /\ UNCHANGED <<owner, nextGen, latest, log, torn, disk, done, wpc, recent, failed, stuck, punches,
                        reader>>
  <1> DEFINE r == log[Len(observed) + 1]
             contiguous == scanner.haveExpected /\ r.start = scanner.expected
             from == IF contiguous THEN scanner.bufferStart ELSE r.start
  <1>1. observed \in Seq(Observation) /\ Len(observed) < Len(log)
    BY DEF TypeOK, Feed
  <1>2. r \in Ranges
    <2>1. Len(observed) + 1 \in 1..Len(log)
      BY <1>1, Counters
    <2> QED BY <2>1, Entries
  <1>a. scanner \in ScannerState /\ Size \in Nat
    BY SizeAssumption DEF TypeOK
  <1> HIDE DEF r
  <1>b. r.start \in 0..Size /\ r.end \in 1..Size
    BY <1>2, <1>a DEF Ranges
  <1>3. r.start \in 0..Size /\ r.end \in 1..Size /\ scanner \in ScannerState /\ from \in 0..Size
    BY <1>a, <1>b DEF ScannerState
  <1>4. ASSUME NEW probed, Emit(from, r.end, probed)
        PROVE  /\ scanner' \in ScannerState
               /\ \E o \in Observation : observed' = Append(observed, o)
    <2>1. PICK start \in from..r.end : \E cells \in SUBSET Span(from, start) :
            /\ observed' = Append(observed, [ts |-> TRUE, captures |-> cells])
            /\ scanner' = [detected |-> TRUE, haveExpected |-> TRUE,
                           expected |-> r.end, bufferStart |-> start]
      BY <1>4 DEF Emit
    <2>2. start \in 0..Size
      BY <1>3, <2>1, Counters
    <2>3. PICK cells \in SUBSET Span(from, start) :
            observed' = Append(observed, [ts |-> TRUE, captures |-> cells])
      BY <2>1
    <2>4. [ts |-> TRUE, captures |-> cells] \in Observation
      BY <2>3 DEF Span, Observation
    <2> QED BY <1>3, <2>1, <2>2, <2>3, <2>4 DEF ScannerState
  <1>5. ASSUME NotTS PROVE \E o \in Observation : observed' = Append(observed, o)
    <2>1. [ts |-> FALSE, captures |-> {}] \in Observation
      BY DEF Observation
    <2> QED BY <1>5, <2>1 DEF NotTS
  <1>6. /\ scanner' \in ScannerState
        /\ \E o \in Observation : observed' = Append(observed, o)
        /\ UNCHANGED <<hostVars, writerVars, punches, reader>>
    <2>1. UNCHANGED <<hostVars, writerVars, punches, reader>>
      BY DEF Feed
    <2>2. \/ \E probed : Emit(from, r.end, probed)
          \/ NotTS /\ UNCHANGED scanner
          \/ NotTS /\ \E start \in from..(r.end - 1) :
                scanner' = [detected |-> FALSE, haveExpected |-> TRUE,
                            expected |-> r.end, bufferStart |-> start]
      BY DEF Feed, Classify, r
    <2>3. CASE \E probed : Emit(from, r.end, probed)
      BY <1>4, <2>1, <2>3
    <2>4. CASE NotTS /\ UNCHANGED scanner
      BY <1>3, <1>5, <2>1, <2>4
    <2>5. CASE NotTS /\ \E start \in from..(r.end - 1) :
                scanner' = [detected |-> FALSE, haveExpected |-> TRUE,
                            expected |-> r.end, bufferStart |-> start]
      <3>1. scanner' \in ScannerState
        BY <1>3, <2>5, Counters DEF ScannerState
      <3> QED BY <1>5, <2>1, <2>5, <3>1
    <2> QED BY <2>2, <2>3, <2>4, <2>5
  <1>7. PICK o \in Observation : observed' = Append(observed, o)
    BY <1>6
  <1>8. observed' \in Seq(Observation) /\ Len(observed') = Len(observed) + 1
    BY <1>1, <1>7, AppendFacts
  <1>9. \A w \in 1..Len(observed) : observed'[w] = observed[w]
    BY <1>1, <1>7, AppendFacts
  <1>10. Len(observed') <= Len(log)
    BY <1>1, <1>8, Counters
  <1> QED
    BY <1>6, <1>8, <1>9, <1>10 DEF hostVars, overlayVars, writerVars

\* rememberWrite keeps the ring within its capacity; it forgets nothing while
\* there is room, and the oldest entry when there is none.
LEMMA RememberFacts ==
  ASSUME TypeOK, NEW w \in 1..Len(observed), rememberWrite(w)
  PROVE  /\ recent' \in Seq(Nat) /\ Len(recent') <= HistoryCapacity
         /\ \A i \in 1..Len(recent') : recent'[i] \in 1..Len(observed)
         /\ Len(recent) < HistoryCapacity =>
               /\ Len(recent') = Len(recent) + 1 /\ recent'[Len(recent) + 1] = w
               /\ \A i \in 1..Len(recent) : recent'[i] = recent[i]
         /\ ~(Len(recent) < HistoryCapacity) =>
               /\ Len(recent') = Len(recent) /\ recent'[Len(recent)] = w
               /\ \A i \in 1..(Len(recent) - 1) : recent'[i] = recent[i + 1]
  <1>1. /\ recent \in Seq(Nat) /\ Len(recent) <= HistoryCapacity
        /\ \A i \in 1..Len(recent) : recent[i] \in 1..Len(observed)
    BY DEF TypeOK
  <1>2. w \in Nat /\ HistoryCapacity \in Nat \ {0} /\ Len(recent) \in Nat
    BY Counters, CapacityAssumption
  <1>3. CASE Len(recent) < HistoryCapacity
    <2>1. recent' = Append(recent, w)
      BY <1>3 DEF rememberWrite
    <2>2. recent' \in Seq(Nat) /\ Len(recent') = Len(recent) + 1 /\ recent'[Len(recent) + 1] = w
      BY <1>1, <1>2, <2>1, AppendFacts
    <2>3. \A i \in 1..Len(recent) : recent'[i] = recent[i]
      BY <1>1, <1>2, <2>1, AppendFacts
    <2>4. \A i \in 1..(Len(recent) + 1) : recent'[i] \in 1..Len(observed)
      <3>1. \A i \in 1..(Len(recent) + 1) : i \in 1..Len(recent) \/ i = Len(recent) + 1
        BY <1>2
      <3> QED BY <1>1, <2>2, <2>3, <3>1
    <2>5. Len(recent') <= HistoryCapacity
      BY <1>2, <1>3, <2>2
    <2> QED BY <1>3, <2>2, <2>3, <2>4, <2>5
  <1>4. CASE ~(Len(recent) < HistoryCapacity)
    <2>1. recent' = Append(Tail(recent), w) /\ recent # <<>>
      BY <1>1, <1>2, <1>4 DEF rememberWrite
    <2>2. /\ Tail(recent) \in Seq(Nat) /\ Len(Tail(recent)) = Len(recent) - 1
          /\ \A i \in 1..(Len(recent) - 1) : Tail(recent)[i] = recent[i + 1]
      BY <1>1, <2>1, TailFacts
    <2>3. recent' \in Seq(Nat) /\ Len(recent') = Len(Tail(recent)) + 1
      BY <1>2, <2>1, <2>2, AppendFacts
    <2>4. /\ \A i \in 1..Len(Tail(recent)) : recent'[i] = Tail(recent)[i]
          /\ recent'[Len(Tail(recent)) + 1] = w
      BY <1>2, <2>1, <2>2, AppendFacts
    <2>5. Len(recent') = Len(recent) /\ Len(recent') <= HistoryCapacity
      BY <1>1, <1>2, <2>2, <2>3
    <2>6. \A i \in 1..Len(recent) : recent'[i] \in 1..Len(observed)
      <3>1. \A i \in 1..Len(recent) :
              \/ i \in 1..(Len(recent) - 1) /\ i + 1 \in 1..Len(recent)
              \/ i = (Len(recent) - 1) + 1
        BY <1>2
      <3> QED BY <1>1, <2>2, <2>4, <3>1
    <2>7. recent'[Len(recent)] = w /\ \A i \in 1..(Len(recent) - 1) : recent'[i] = recent[i + 1]
      BY <1>2, <2>2, <2>4
    <2> QED BY <1>4, <2>3, <2>5, <2>6, <2>7
  <1> QED BY <1>3, <1>4

\* The request at the head of the punch queue.
LEMMA ProcessPunchFacts ==
  ASSUME TypeOK, ProcessPunch
  PROVE  /\ Len(punches) \in Nat \ {0} /\ Head(punches) = punches[1]
         /\ punches' \in Seq(PunchRequest) /\ Len(punches') = Len(punches) - 1
         /\ \A i \in 1..Len(punches') : i + 1 \in 1..Len(punches) /\ punches'[i] = punches[i + 1]
         /\ punches[1] \in PunchRequest /\ punches[1].seq <= Len(observed)
  <1>1. punches \in Seq(PunchRequest) /\ punches # <<>> /\ punches' = Tail(punches)
    BY DEF TypeOK, ProcessPunch
  <1>2. /\ Len(punches) \in Nat \ {0} /\ Head(punches) = punches[1] /\ punches[1] \in PunchRequest
        /\ punches' \in Seq(PunchRequest) /\ Len(punches') = Len(punches) - 1
        /\ \A i \in 1..(Len(punches) - 1) : punches'[i] = punches[i + 1]
    BY <1>1, TailFacts
  <1>3. \A i \in 1..Len(punches) : punches[i].seq <= Len(observed)
    BY DEF TypeOK
  <1>4. \A i \in 1..Len(punches') : i \in 1..(Len(punches) - 1) /\ i + 1 \in 1..Len(punches)
    BY <1>2
  <1> QED BY <1>2, <1>3, <1>4

\* A request joins the punch queue.
LEMMA SubmitPunchFacts ==
  ASSUME TypeOK, NEW s \in 1..MaxWrites, NEW r \in Ranges, SubmitPunch(s, r)
  PROVE  /\ s <= Len(observed) /\ CellsOf(r) \subseteq observed[s].captures
         /\ punches' \in Seq(PunchRequest) /\ Len(punches') = Len(punches) + 1
         /\ Len(punches') <= PunchDepth
         /\ \A i \in 1..Len(punches) : punches'[i] = punches[i]
         /\ punches'[Len(punches) + 1] = [seq |-> s, start |-> r.start, end |-> r.end]
  <1> DEFINE p == [seq |-> s, start |-> r.start, end |-> r.end]
  <1>1. punches \in Seq(PunchRequest) /\ Len(punches) < PunchDepth /\ punches' = Append(punches, p)
    BY DEF TypeOK, SubmitPunch
  <1>2. p \in PunchRequest
    BY DEF Ranges, PunchRequest
  <1> HIDE DEF p
  <1>3. punches' \in Seq(PunchRequest) /\ Len(punches') = Len(punches) + 1 /\ punches'[Len(punches) + 1] = p
    BY <1>1, <1>2, AppendFacts
  <1>4. \A i \in 1..Len(punches) : punches'[i] = punches[i]
    BY <1>1, <1>2, AppendFacts
  <1>5. Len(punches') <= PunchDepth
    BY <1>1, <1>3, Counters, CapacityAssumption
  <1>6. s <= Len(observed) /\ CellsOf(r) \subseteq observed[s].captures
    BY DEF SubmitPunch
  <1> QED BY <1>3, <1>4, <1>5, <1>6 DEF p

\* What a release does to the overlay.
LEMMA ReleaseFacts ==
  ASSUME TypeOK, NEW r \in Ranges, NEW gen \in 1..MaxWrites, ReleaseIfCurrent(r, gen)
  PROVE  /\ owner' \in [Cells -> 0..MaxWrites] /\ nextGen' = nextGen
         /\ \A c \in Cells : owner'[c] = IF Current(r, gen) /\ Within(c, r) THEN 0 ELSE owner[c]
  <1>1. owner \in [Cells -> 0..MaxWrites] /\ 0 \in 0..MaxWrites
    BY CapacityAssumption DEF TypeOK
  <1>2. CASE Current(r, gen)
    <2>1. owner' = [c \in Cells |-> IF Within(c, r) THEN 0 ELSE owner[c]] /\ nextGen' = nextGen
      BY <1>2 DEF ReleaseIfCurrent, Release
    <2> QED BY <1>1, <1>2, <2>1
  <1>3. CASE ~Current(r, gen)
    BY <1>1, <1>3 DEF ReleaseIfCurrent, overlayVars
  <1> QED BY <1>2, <1>3

\* Every step keeps the type invariant.
LEMMA TypeStep == ASSUME TypeOK, [Next]_vars PROVE TypeOK'
  <1> USE DEF hostVars, overlayVars, snifVars, writerVars
  <1>a. /\ Len(log) \in Nat /\ Len(observed) \in Nat /\ done \in Nat /\ MaxWrites \in Nat
        /\ done <= Len(observed) /\ Len(observed) <= Len(log) /\ Len(log) <= MaxWrites
    BY Counters
  <1>1. ASSUME NEW r \in Ranges, HostWrite(r) PROVE TypeOK'
    <2>1. /\ log' \in Seq(Ranges) /\ Len(log') = Len(log) + 1 /\ Len(log') <= MaxWrites
          /\ nextGen = Len(log) + 1 /\ nextGen' = nextGen + 1
          /\ owner' = [c \in Cells |-> IF Within(c, r) THEN nextGen ELSE owner[c]]
          /\ latest' = [c \in Cells |-> IF Within(c, r) THEN nextGen ELSE latest[c]]
          /\ torn' \subseteq Cells
          /\ UNCHANGED <<scanner, observed, disk, done, wpc, recent, failed, stuck, punches, reader>>
      BY <1>1, HostWriteFacts
    <2>2. nextGen \in 0..MaxWrites
      BY <1>a, <2>1
    <2>3. owner' \in [Cells -> 0..MaxWrites] /\ latest' \in [Cells -> 0..MaxWrites]
      BY <2>1, <2>2 DEF TypeOK
    <2>4. Len(observed') <= Len(log')
      BY <1>a, <2>1
    <2> QED BY <2>1, <2>3, <2>4 DEF TypeOK
  <1>2. CASE Feed
    <2>1. /\ observed' \in Seq(Observation) /\ Len(observed') = Len(observed) + 1
          /\ Len(observed') <= Len(log)
          /\ scanner' \in ScannerState
          /\ UNCHANGED <<owner, nextGen, latest, log, torn, disk, done, wpc, recent, failed, stuck, punches, reader>>
      BY <1>2, FeedFacts
    <2>2. \A n \in Nat : n <= Len(observed) => n <= Len(observed')
      BY <1>a, <2>1
    <2>3. done' \in 0..Len(observed') /\ (wpc' = "release" => done' < Len(observed'))
      BY <1>a, <2>1 DEF TypeOK
    <2>4. \A i \in 1..Len(recent') : recent'[i] \in 1..Len(observed')
      BY <1>a, <2>1 DEF TypeOK
    <2>5. \A i \in 1..Len(punches') : punches'[i].seq <= Len(observed')
      <3>1. \A i \in 1..Len(punches) : punches[i].seq \in Nat /\ punches[i].seq <= Len(observed)
        <4>1. \A i \in 1..Len(punches) : punches[i].seq <= Len(observed)
          BY DEF TypeOK
        <4>2. \A i \in 1..Len(punches) : punches[i].seq \in Nat
          BY <1>a, Entries DEF PunchRequest
        <4> QED BY <4>1, <4>2
      <3> QED BY <2>1, <2>2, <3>1
    <2> QED BY <2>1, <2>3, <2>4, <2>5 DEF TypeOK
  <1>5. CASE ReleaseFails
    <2>1. NextWrite \in 1..Len(observed)
      BY <1>a, <1>5 DEF ReleaseFails, Ready, NextWrite, TypeOK
    <2>2. /\ done' = NextWrite /\ wpc' = "idle" /\ stuck' = stuck \cup {NextWrite}
          /\ UNCHANGED <<owner, nextGen, latest, log, torn, scanner, observed, disk, recent, failed,
                         punches, reader>>
      BY <1>5 DEF ReleaseFails, NextWrite
    <2>3. failed' \subseteq 1..done' /\ stuck' \subseteq 1..done'
      <3>1. failed \subseteq 1..done /\ stuck \subseteq 1..done
        BY DEF TypeOK
      <3> QED BY <1>a, <2>2, <3>1 DEF NextWrite
    <2> QED BY <2>1, <2>2, <2>3 DEF TypeOK
  <1>3. CASE Ready /\ (DropTS \/ WriteImage \/ WriteImageFails)
    <2>1. /\ NextWrite \in 1..Len(observed) /\ NextWrite \in 1..Len(log)
          /\ NextWrite \in 1..MaxWrites /\ wpc = "idle"
      BY <1>a, <1>3 DEF Ready, NextWrite
    <2>2. log[NextWrite] \in Ranges
      BY <2>1, Entries
    <2>3. CASE DropTS
      <3>1. owner' \in [Cells -> 0..MaxWrites] /\ nextGen' = nextGen
        BY <2>1, <2>2, <2>3, ReleaseFacts DEF DropTS
      <3>2. /\ done' \in 0..Len(observed) /\ failed' \subseteq 1..done' /\ stuck' \subseteq 1..done'
            /\ UNCHANGED <<latest, log, torn, scanner, observed, disk, wpc, recent, failed, stuck, punches, reader>>
        BY <1>a, <2>1, <2>3 DEF DropTS, TypeOK, NextWrite
      <3> QED BY <2>1, <3>1, <3>2 DEF TypeOK
    <2>4. CASE WriteImage
      <3>1. /\ recent' \in Seq(Nat) /\ Len(recent') <= HistoryCapacity
            /\ \A i \in 1..Len(recent') : recent'[i] \in 1..Len(observed)
        BY <2>1, <2>4, RememberFacts DEF WriteImage
      <3>2. disk' \in [Cells -> Content]
        BY <2>1, <2>4 DEF WriteImage, TypeOK, Content
      <3>3. /\ wpc' = "release" /\ done < Len(observed)
            /\ UNCHANGED <<owner, nextGen, latest, log, torn, scanner, observed, done, failed, stuck, punches, reader>>
        BY <1>3, <2>4 DEF WriteImage, Ready
      <3> QED BY <3>1, <3>2, <3>3 DEF TypeOK
    <2>5. CASE WriteImageFails
      <3>1. /\ recent' \in Seq(Nat) /\ Len(recent') <= HistoryCapacity
            /\ \A i \in 1..Len(recent') : recent'[i] \in 1..Len(observed)
        BY <2>1, <2>5, RememberFacts DEF WriteImageFails
      <3>2. disk' \in [Cells -> Content]
        BY <2>1, <2>5 DEF WriteImageFails, TypeOK, Content
      <3>3. /\ done' \in 0..Len(observed) /\ failed' \subseteq 1..done' /\ stuck' \subseteq 1..done'
            /\ UNCHANGED <<owner, nextGen, latest, log, torn, scanner, observed, wpc, stuck, punches, reader>>
        <4>1. done' = done + 1 /\ failed' = failed \cup {done + 1} /\ stuck' = stuck
          BY <2>5 DEF WriteImageFails, NextWrite
        <4>2. failed \subseteq 1..done /\ stuck \subseteq 1..done /\ done + 1 \in 0..Len(observed)
          BY <1>a, <2>1 DEF TypeOK, NextWrite
        <4>3. failed' \subseteq 1..done' /\ stuck' \subseteq 1..done'
          BY <1>a, <4>1, <4>2
        <4> QED BY <2>5, <4>1, <4>2, <4>3 DEF WriteImageFails
      <3> QED BY <2>1, <3>1, <3>2, <3>3 DEF TypeOK
    <2> QED BY <1>3, <2>3, <2>4, <2>5
  <1>4. CASE ReleaseWritten
    <2>1. wpc = "release" /\ done < Len(observed)
      BY <1>4 DEF ReleaseWritten, TypeOK
    <2>2. NextWrite \in 1..Len(observed) /\ NextWrite \in 1..Len(log) /\ NextWrite \in 1..MaxWrites
      BY <1>a, <2>1 DEF NextWrite
    <2>3. log[NextWrite] \in Ranges
      BY <2>2, Entries
    <2>4. owner' \in [Cells -> 0..MaxWrites] /\ nextGen' = nextGen
      BY <1>4, <2>2, <2>3, ReleaseFacts DEF ReleaseWritten
    <2>5. /\ done' \in 0..Len(observed) /\ wpc' = "idle"
          /\ failed' \subseteq 1..done' /\ stuck' \subseteq 1..done'
          /\ UNCHANGED <<latest, log, torn, scanner, observed, disk, recent, failed, stuck, punches, reader>>
      BY <1>4, <1>a, <2>2 DEF ReleaseWritten, TypeOK, NextWrite
    <2> QED BY <2>4, <2>5 DEF TypeOK
  <1>6. CASE ProcessPunch
    <2>1. /\ Len(punches) \in Nat \ {0}
          /\ punches' \in Seq(PunchRequest) /\ Len(punches') = Len(punches) - 1
          /\ \A i \in 1..Len(punches') : i + 1 \in 1..Len(punches) /\ punches'[i] = punches[i + 1]
      BY <1>6, ProcessPunchFacts
    <2>2. Len(punches') <= PunchDepth /\ \A i \in 1..Len(punches') : punches'[i].seq <= Len(observed)
      <3>1. Len(punches) <= PunchDepth /\ \A i \in 1..Len(punches) : punches[i].seq <= Len(observed)
        BY DEF TypeOK
      <3> QED BY <2>1, <3>1, CapacityAssumption
    <2>3. disk' \in [Cells -> Content]
      BY <1>6 DEF ProcessPunch, TypeOK, Content
    <2>4. UNCHANGED <<owner, nextGen, latest, log, torn, scanner, observed, done, wpc, recent, failed, stuck, reader>>
      BY <1>6 DEF ProcessPunch
    <2> QED BY <2>1, <2>2, <2>3, <2>4 DEF TypeOK
  <1>7. ASSUME NEW s \in 1..MaxWrites, NEW r \in Ranges, SubmitPunch(s, r) PROVE TypeOK'
    <2>1. /\ s <= Len(observed)
          /\ punches' \in Seq(PunchRequest) /\ Len(punches') = Len(punches) + 1
          /\ Len(punches') <= PunchDepth /\ Len(punches) \in Nat
          /\ \A i \in 1..Len(punches) : punches'[i] = punches[i]
          /\ punches'[Len(punches) + 1] = [seq |-> s, start |-> r.start, end |-> r.end]
      BY <1>7, SubmitPunchFacts, Counters
    <2>2. \A i \in 1..Len(punches') : punches'[i].seq <= Len(observed)
      <3>1. \A i \in 1..Len(punches) : punches[i].seq <= Len(observed)
        BY DEF TypeOK
      <3>2. \A i \in 1..Len(punches') : i \in 1..Len(punches) \/ i = Len(punches) + 1
        BY <2>1
      <3> QED BY <2>1, <3>1, <3>2
    <2>3. UNCHANGED <<owner, nextGen, latest, log, torn, scanner, observed, disk, done, wpc, recent, failed, stuck, reader>>
      BY <1>7 DEF SubmitPunch
    <2> QED BY <2>1, <2>2, <2>3 DEF TypeOK
  <1>8. CASE ReadBase \/ ReadOverlay \/ ReadReturns
    <2>1. UNCHANGED <<owner, nextGen, latest, log, torn, scanner, observed, disk, done, wpc, recent, failed, stuck, punches>>
      BY <1>8 DEF ReadBase, ReadOverlay, ReadReturns
    <2>2. 0 \in 0..MaxWrites /\ 0..MaxWrites \subseteq Content
      BY <1>a DEF Content
    <2>3. /\ owner \in [Cells -> 0..MaxWrites] /\ latest \in [Cells -> 0..MaxWrites]
          /\ disk \in [Cells -> Content] /\ reader \in ReadState
      BY DEF TypeOK
    <2>4. CASE ReadBase
      <3>1. reader' = [pc |-> "base", data |-> disk, seen |-> latest, at |-> done]
        BY <2>4 DEF ReadBase
      <3>2. done \in 0..MaxWrites
        BY <1>a
      <3>3. reader' \in ReadState
        BY <2>3, <3>1, <3>2 DEF ReadState
      <3> QED BY <2>1, <3>3 DEF TypeOK
    <2>5. CASE ReadOverlay
      <3> DEFINE data == [c \in Cells |-> IF owner[c] # 0 THEN Staged(c) ELSE reader.data[c]]
      <3>1. reader' = [reader EXCEPT !.pc = "done", !.data = data]
        BY <2>5 DEF ReadOverlay
      <3>2. data \in [Cells -> Content]
        BY <2>2, <2>3 DEF ReadState, Staged, Content
      <3> HIDE DEF data
      <3>3. reader' \in ReadState
        BY <2>3, <3>1, <3>2 DEF ReadState
      <3> QED BY <2>1, <3>3 DEF TypeOK
    <2>6. CASE ReadReturns
      <3>1. reader' \in ReadState
        BY <2>2, <2>6 DEF ReadReturns, NoRead, ReadState
      <3> QED BY <2>1, <3>1 DEF TypeOK
    <2> QED BY <1>8, <2>4, <2>5, <2>6
  <1>9. CASE UNCHANGED vars
    BY <1>9 DEF vars, TypeOK
  <1>10. ASSUME NEW r \in Ranges, StageWriteFails(r) PROVE TypeOK'
    <2>1. torn' \subseteq Cells
      <3>1. torn \subseteq Cells
        BY DEF TypeOK
      <3> QED BY <1>10, <3>1 DEF StageWriteFails, Span
    <2>2. UNCHANGED <<owner, nextGen, latest, log, scanner, observed, disk, done, wpc, recent, failed,
                      stuck, punches, reader>>
      BY <1>10 DEF StageWriteFails
    <2> QED BY <2>1, <2>2 DEF TypeOK
  <1>11. CASE Shutdown
    <2>1. owner' \in [Cells -> 0..MaxWrites]
      BY <1>11, <1>a DEF Shutdown, Discard
    <2>2. /\ wpc' = "closed"
          /\ UNCHANGED <<nextGen, latest, log, torn, scanner, observed, disk, done, recent, failed,
                         stuck, punches, reader>>
      BY <1>11 DEF Shutdown, Discard
    <2> QED BY <2>1, <2>2 DEF TypeOK
  <1> QED
    BY <1>1, <1>2, <1>3, <1>4, <1>5, <1>6, <1>7, <1>8, <1>9, <1>10, <1>11
    DEF Next, DropTS, WriteImage, WriteImageFails

\* The observations are only added to, and the ring forgets for good.
Kept == /\ Len(observed') \in Nat /\ Len(observed) <= Len(observed')
        /\ \A w \in 1..Len(observed) : observed'[w] = observed[w] /\ log'[w] = log[w]
        /\ \A w \in Nat : Wrapped(w) => Wrapped(w)'

\* What is excused stays so.
LEMMA ExcusedKept ==
  ASSUME Len(observed) \in Nat, Kept, NEW c \in Cells, NEW w \in Nat, Excused(c, w)
  PROVE  Excused(c, w)'
  <1>1. \A s \in 1..Len(observed) :
          s \in 1..Len(observed') /\ observed'[s] = observed[s] /\ log'[s] = log[s]
    BY DEF Kept
  <1>2. ASSUME NEW v \in 1..Len(observed) PROVE Buffered(v)' <=> Buffered(v)
    <2>1. \A u \in 1..v : u \in 1..Len(observed)
      OBVIOUS
    <2> QED BY <1>1, <2>1 DEF Buffered
  <1>3. ASSUME NEW s \in 1..Len(observed), NEW v \in 1..s, LastBuffered(c, v, s)
        PROVE  LastBuffered(c, v, s)'
    <2>1. v \in 1..Len(observed) /\ \A u \in (v + 1)..s : u \in 1..Len(observed)
      BY <1>3
    <2> QED BY <1>1, <1>2, <1>3, <2>1 DEF LastBuffered, Within
  <1>4. CASE Expendable(c, w)
    <2>1. w \in 1..Len(observed) /\ w \in 1..Len(observed')
      BY <1>1, <1>4 DEF Expendable
    <2>2. CASE observed[w].ts
      BY <1>1, <2>1, <2>2 DEF Expendable, Excused
    <2>3. CASE \E s \in w..Len(observed) : c \in observed[s].captures /\ LastBuffered(c, w, s)
      <3>1. PICK s \in w..Len(observed) : c \in observed[s].captures /\ LastBuffered(c, w, s)
        BY <2>3
      <3>2. s \in 1..Len(observed) /\ w \in 1..s
        BY <2>1, <3>1
      <3>3. s \in w..Len(observed') /\ c \in observed'[s].captures
        BY <1>1, <3>1, <3>2
      <3>4. LastBuffered(c, w, s)'
        BY <1>3, <3>1, <3>2
      <3> QED BY <2>1, <3>3, <3>4 DEF Expendable, Excused
    <2> QED BY <1>4, <2>2, <2>3 DEF Expendable
  <1>5. CASE Stale(c, w)
    <2>1. w \in 1..Len(observed) /\ w \in 1..Len(observed') /\ ~Buffered(w)'
      BY <1>1, <1>2, <1>5 DEF Stale
    <2>2. PICK s \in (w + 1)..Len(observed) :
            /\ c \in observed[s].captures
            /\ \A v \in (w + 1)..s : ~(Buffered(v) /\ Within(c, log[v]))
      BY <1>5 DEF Stale
    <2>3. s \in 1..Len(observed) /\ \A v \in (w + 1)..s : v \in 1..Len(observed)
      BY <2>1, <2>2
    <2>4. s \in (w + 1)..Len(observed') /\ c \in observed'[s].captures
      BY <1>1, <2>1, <2>2, <2>3
    <2>5. \A v \in (w + 1)..s : ~(Buffered(v)' /\ Within(c, log'[v]))
      BY <1>1, <1>2, <2>2, <2>3
    <2> QED BY <2>1, <2>4, <2>5 DEF Stale, Excused
  <1>6. CASE Forgotten(c, w)
    BY <1>1, <1>6 DEF Forgotten, Kept, Excused
  <1> QED BY <1>4, <1>5, <1>6 DEF Excused

\* The types of the invariant's quantities, cell by cell.
LEMMA CellTypes ==
  ASSUME TypeOK, NEW c \in Cells
  PROVE  /\ latest[c] \in Nat /\ owner[c] \in Nat
         /\ disk[c] \in Int /\ reader.data[c] \in Int /\ reader.seen[c] \in Nat
         /\ c \in Nat /\ reader.at \in Nat
  <1>1. /\ owner \in [Cells -> 0..MaxWrites] /\ latest \in [Cells -> 0..MaxWrites]
        /\ disk \in [Cells -> Content] /\ reader \in ReadState /\ MaxWrites \in Nat
    BY CapacityAssumption DEF TypeOK
  <1>2. 0..MaxWrites \subseteq Nat /\ Content \subseteq Int /\ Cells \subseteq Nat
    BY <1>1, SizeAssumption DEF Content, Hole, Torn, Cells
  <1> QED BY <1>1, <1>2 DEF ReadState

\* A step that touches neither the observations nor the ring.
LEMMA KeptSame ==
  ASSUME TypeOK, UNCHANGED <<log, observed, recent>>
  PROVE  Kept
  <1>1. Len(observed) \in Nat
    BY Counters
  <1> QED BY <1>1 DEF Kept, Wrapped

\* A stored write stays stored, or excused, in a cell the step leaves alone.
LEMMA StoredKept ==
  ASSUME TypeOK, StoredInv, Kept, NEW c \in Cells, NEW w \in 0..MaxWrites,
         disk'[c] = disk[c], w = latest[c], w <= done, w \notin failed
  PROVE  disk'[c] = w \/ Excused(c, w)'
  <1>1. disk[c] = w \/ Excused(c, w)
    BY DEF StoredInv
  <1>2. w \in Nat /\ Len(observed) \in Nat
    BY CellTypes, Counters
  <1> QED BY <1>1, <1>2, ExcusedKept

\* A read may miss what is excused.
LEMMA MissExcused ==
  ASSUME NEW c \in Cells, NEW w, w = reader'.seen[c], Excused(c, w)'
  PROVE  MayMiss(c)'
  BY DEF MayMiss, Excused, Expendable, Stale, Forgotten, Wrapped, LastBuffered, Buffered, Within

\* A read in progress, at a step of somebody else: a cell leaves the overlay
\* only when the writer finishes with it.
LEMMA ReadKept ==
  ASSUME TypeOK, ReadInv, Kept, UNCHANGED reader, done' \in Nat, done <= done',
         \A w \in 1..done : log'[w] = log[w],
         \A c \in Cells : latest'[c] \in Nat /\ latest[c] <= latest'[c],
         \A c \in Cells : reader.pc = "base" /\ owner[c] # 0 => owner'[c] # 0 \/ FinishedSince(c)'
  PROVE  ReadInv'
  <1>1. /\ done \in Nat /\ Len(observed) \in Nat
        /\ reader.at \in Nat /\ \A c \in Cells : latest[c] \in Nat /\ reader.seen[c] \in Nat
    <2>1. 0 \in Cells
      BY SizeAssumption DEF Cells
    <2> QED BY <2>1, CellTypes, Counters
  <1>2. ASSUME NEW c \in Cells, Fresh(c) \/ MayMiss(c) PROVE Fresh(c)' \/ MayMiss(c)'
    <2>1. CASE Fresh(c) \/ reader.data[c] = Torn
      BY <2>1 DEF Fresh, MayMiss
    <2>2. CASE Excused(c, reader.seen[c])
      <3>1. PICK w \in Nat : w = reader.seen[c] /\ w = reader'.seen[c]
        BY <1>1
      <3>2. Excused(c, w)
        BY <2>2, <3>1
      <3>3. Excused(c, w)'
        BY <1>1, <3>2, ExcusedKept
      <3> QED BY <3>1, <3>3, MissExcused
    <2> QED BY <1>2, <2>1, <2>2 DEF MayMiss
  <1>3. ASSUME NEW c \in Cells, FinishedSince(c) PROVE FinishedSince(c)'
    <2>1. PICK w \in (reader.at + 1)..done : w >= reader.seen[c] /\ Within(c, log[w])
      BY <1>3 DEF FinishedSince
    <2>2. w \in (reader'.at + 1)..done' /\ log'[w] = log[w]
      BY <1>1, <2>1
    <2> QED BY <2>1, <2>2 DEF FinishedSince, Within
  <1>4. CASE reader.pc = "base"
    <2>1. reader'.at <= done'
      BY <1>1, <1>4 DEF ReadInv
    <2>2. \A c \in Cells : reader'.seen[c] <= latest'[c]
      BY <1>1, <1>4 DEF ReadInv
    <2>3. \A c \in Cells : owner'[c] # 0 \/ Fresh(c)' \/ FinishedSince(c)' \/ MayMiss(c)'
      BY <1>2, <1>3, <1>4 DEF ReadInv
    <2> QED BY <1>4, <2>1, <2>2, <2>3 DEF ReadInv, ReadFresh
  <1>5. CASE reader.pc # "base"
    <2>1. reader.pc = "done" => \A c \in Cells : Fresh(c) \/ FinishedSince(c) \/ MayMiss(c)
      BY DEF ReadInv, ReadFresh
    <2> QED BY <1>2, <1>3, <1>5, <2>1 DEF ReadInv, ReadFresh
  <1> QED BY <1>4, <1>5

\* A step that leaves the host's writes and the sniffer alone.
LEMMA CaptureSame ==
  ASSUME CaptureInv, UNCHANGED <<log, scanner, observed>>
  PROVE  CaptureInv'
  BY DEF CaptureInv, Span, Within

\* A host write keeps the invariant.
LEMMA HostWriteStep ==
  ASSUME IndInv, NEW r \in Ranges, HostWrite(r)
  PROVE  /\ OwnerInv' /\ StoredInv' /\ WrittenInv' /\ RecentInv' /\ CaptureInv' /\ PunchInv'
         /\ OverlayDrains' /\ ReadInv'
  <1>a. /\ TypeOK /\ OwnerInv /\ StoredInv /\ WrittenInv /\ RecentInv /\ CaptureInv /\ PunchInv
        /\ OverlayDrains /\ ReadInv
    BY DEF IndInv
  <1>b. /\ Len(log) \in Nat /\ Len(observed) \in Nat /\ done \in Nat
        /\ done <= Len(observed) /\ Len(observed) <= Len(log)
    BY <1>a, Counters
  <1>c. \A c \in Cells : latest[c] \in Nat /\ owner[c] \in Nat /\ latest[c] <= Len(log) /\ reader.seen[c] \in Nat
    BY <1>a, CellTypes DEF OwnerInv
  <1>d. /\ Len(log') = Len(log) + 1
        /\ \A w \in 1..Len(log) : log'[w] = log[w]
        /\ log'[Len(log) + 1] = r
        /\ \A c \in Cells : owner'[c] = IF Within(c, r) THEN Len(log) + 1 ELSE owner[c]
        /\ \A c \in Cells : latest'[c] = IF Within(c, r) THEN Len(log) + 1 ELSE latest[c]
    BY <1>a, HostWriteFacts
  <1>e. /\ wpc # "closed"
        /\ UNCHANGED <<scanner, observed, disk, done, wpc, recent, failed, stuck, punches, reader>>
    BY <1>a, HostWriteFacts
  <1>f. \A w \in 1..Len(log') : w \in 1..Len(log) \/ w = Len(log) + 1
    BY <1>b, <1>d
  <1>1. OwnerInv'
    <2> SUFFICES ASSUME NEW c \in Cells
        PROVE  /\ latest'[c] <= Len(log')
               /\ latest'[c] # 0 => Within(c, log'[latest'[c]])
               /\ \A w \in 1..Len(log') : Within(c, log'[w]) => w <= latest'[c]
               /\ \/ owner'[c] = latest'[c]
                  \/ owner'[c] = 0 /\ latest'[c] <= done' /\ latest'[c] \notin failed'
      BY <1>e DEF OwnerInv, Writes, Within
    <2>1. CASE Within(c, r)
      BY <1>b, <1>d, <1>f, <2>1
    <2>2. CASE ~Within(c, r)
      <3>1. latest'[c] = latest[c] /\ owner'[c] = owner[c]
        BY <1>d, <2>2
      <3>2. /\ latest[c] # 0 => Within(c, log[latest[c]])
            /\ \A w \in 1..Len(log) : Within(c, log[w]) => w <= latest[c]
            /\ \/ owner[c] = latest[c]
               \/ owner[c] = 0 /\ latest[c] <= done /\ latest[c] \notin failed
        BY <1>a, <1>e DEF OwnerInv, Writes
      <3>3. latest[c] # 0 => latest[c] \in 1..Len(log)
        BY <1>b, <1>c
      <3>4. latest[c] <= Len(log')
        BY <1>b, <1>c, <1>d
      <3>5. \A w \in 1..Len(log') : Within(c, log'[w]) => w <= latest[c]
        BY <1>d, <1>f, <2>2, <3>2
      <3> QED BY <1>d, <1>e, <3>1, <3>2, <3>3, <3>4, <3>5
    <2> QED BY <2>1, <2>2
  <1>g. Kept
    <2>1. \A w \in 1..Len(observed) : log'[w] = log[w]
      BY <1>b, <1>d
    <2> QED BY <1>b, <1>e, <2>1 DEF Kept, Wrapped
  <1>2. StoredInv'
    <2> SUFFICES ASSUME NEW c \in Cells, NEW w \in 0..MaxWrites, w = latest'[c], w <= done, w \notin failed
        PROVE  disk'[c] = w \/ Excused(c, w)'
      BY <1>e DEF StoredInv
    <2>1. ~Within(c, r) /\ latest'[c] = latest[c]
      BY <1>b, <1>d, <1>e
    <2> QED BY <1>a, <1>e, <1>g, <2>1, StoredKept
  <1>3. WrittenInv'
    <2>1. wpc = "release" => NextWrite \in 1..Len(log)
      BY <1>a, <1>b DEF TypeOK, NextWrite
    <2> QED BY <1>a, <1>d, <1>e, <2>1 DEF WrittenInv, NextWrite, Within
  <1>4. RecentInv' /\ PunchInv'
    BY <1>a, <1>e DEF RecentInv, Wrapped, Handled, PunchInv, Within
  <1>5. OverlayDrains'
    <2> SUFFICES ASSUME NEW c \in Cells, owner'[c] # 0, owner'[c] <= done',
                        owner'[c] \notin failed' \cup stuck'
        PROVE  \E w \in 1..Len(log') : w > owner'[c] /\ CellsOf(log'[w]) \cap CellsOf(log'[owner'[c]]) # {}
      BY DEF OverlayDrains, Writes, CellsOf, Span
    <2>1. ~Within(c, r) /\ owner'[c] = owner[c]
      BY <1>b, <1>d, <1>e
    <2>2. PICK w \in 1..Len(log) : w > owner[c] /\ CellsOf(log[w]) \cap CellsOf(log[owner[c]]) # {}
      BY <1>a, <1>e, <2>1 DEF OverlayDrains, Writes
    <2>3. owner[c] \in 1..Len(log) /\ w \in 1..Len(log')
      BY <1>b, <1>c, <1>d, <1>e, <2>1
    <2> QED BY <1>d, <2>1, <2>2, <2>3
  <1>6. ReadInv'
    <2>1. \A c \in Cells : latest'[c] \in Nat /\ latest[c] <= latest'[c]
      BY <1>b, <1>c, <1>d
    <2>2. \A w \in 1..done : log'[w] = log[w]
      BY <1>b, <1>d
    <2>3. \A c \in Cells : owner[c] # 0 => owner'[c] # 0
      BY <1>b, <1>d
    <2> QED BY <1>a, <1>b, <1>e, <1>g, <2>1, <2>2, <2>3, ReadKept
  <1>7. CaptureInv'
    <2>1. \A s \in 1..Len(observed) : \A n \in 1..s : log'[n] = log[n]
      BY <1>b, <1>d
    <2>2. \A n \in 1..Len(observed) : log'[n] = log[n]
      BY <1>b, <1>d
    <2> QED BY <1>a, <1>e, <2>1, <2>2 DEF CaptureInv, Span, Within
  <1> QED BY <1>1, <1>2, <1>3, <1>4, <1>5, <1>6, <1>7

\* The sniffer captures from the write it is fed and from the cells it kept.
LEMMA FeedCaptures ==
  ASSUME TypeOK, CaptureInv, Feed
  PROVE  CaptureInv'
  <1> DEFINE n == Len(observed) + 1
             r == log[n]
             contiguous == scanner.haveExpected /\ r.start = scanner.expected
             from == IF contiguous THEN scanner.bufferStart ELSE r.start
  <1>a. /\ Len(observed) \in Nat /\ Len(observed') = n /\ log' = log
        /\ \A w \in 1..Len(observed) : observed'[w] = observed[w]
        /\ observed \in Seq(Observation) /\ scanner \in ScannerState /\ Size \in Nat
    BY FeedFacts, Counters DEF TypeOK
  <1>b. r \in Ranges
    <2>1. n \in 1..Len(log)
      BY Counters DEF Feed
    <2> QED BY <2>1, Entries
  <1>c. \A v \in 1..n : v \in 1..Len(observed) \/ v = n
    BY <1>a
  <1> HIDE DEF r
  <1>d. r.start \in Nat /\ r.end \in Nat /\ scanner.expected \in Nat /\ scanner.bufferStart \in Nat
    BY <1>a, <1>b DEF Ranges, ScannerState
  <1>e. from \in Nat
    BY <1>d
  <1>1. ASSUME NEW c \in Span(from, r.end) PROVE \E m \in 1..n : Within(c, log[m])
    <2>0. c \in Nat
      BY <1>a DEF Span, Cells
    <2>1. CASE r.start <= c
      <3>1. Within(c, log[n]) /\ n \in 1..n
        BY <1>a, <1>1, <2>1 DEF Span, Within, r
      <3> QED BY <3>1
    <2>2. CASE c < r.start
      <3>1. contiguous /\ c \in Span(scanner.bufferStart, scanner.expected)
        BY <1>1, <1>d, <2>0, <2>2 DEF Span
      <3>2. PICK m \in 1..Len(observed) : Within(c, log[m])
        BY <3>1 DEF CaptureInv
      <3>3. m \in 1..n
        BY <1>a
      <3> QED BY <3>2, <3>3
    <2> QED BY <1>d, <2>0, <2>1, <2>2
  <1>2. \A s \in 1..Len(observed) : \A c \in observed'[s].captures :
          observed'[s].ts /\ \E m \in 1..s : Within(c, log'[m])
    BY <1>a DEF CaptureInv
  <1>3. ASSUME NEW probed, Emit(from, r.end, probed) PROVE CaptureInv'
    <2>1. PICK start \in from..r.end : \E cells \in SUBSET Span(from, start) :
            /\ observed' = Append(observed, [ts |-> TRUE, captures |-> cells])
            /\ scanner' = [detected |-> TRUE, haveExpected |-> TRUE,
                           expected |-> r.end, bufferStart |-> start]
      BY <1>3 DEF Emit
    <2>2. PICK cells \in SUBSET Span(from, start) :
            observed' = Append(observed, [ts |-> TRUE, captures |-> cells])
      BY <2>1
    <2>3. observed'[n] = [ts |-> TRUE, captures |-> cells]
      BY <1>a, <2>2
    <2>4. Span(from, start) \subseteq Span(from, r.end) /\ Span(start, r.end) \subseteq Span(from, r.end)
      <3>1. \A c \in Cells : c \in Nat
        BY <1>a DEF Cells
      <3> QED BY <1>d, <1>e, <2>1, <3>1 DEF Span
    <2>5. \A c \in observed'[n].captures : observed'[n].ts /\ \E m \in 1..n : Within(c, log'[m])
      BY <1>1, <1>a, <2>2, <2>3, <2>4
    <2>6. \A c \in Span(scanner'.bufferStart, scanner'.expected) : \E m \in 1..n : Within(c, log'[m])
      BY <1>1, <1>a, <2>1, <2>4
    <2> QED BY <1>2, <1>a, <1>c, <2>5, <2>6 DEF CaptureInv, Span, Within
  <1>4. ASSUME NotTS PROVE \A c \in observed'[n].captures : FALSE
    <2>1. observed'[n] = [ts |-> FALSE, captures |-> {}]
      BY <1>4, <1>a DEF NotTS
    <2> QED BY <2>1
  <1>5. CASE NotTS /\ UNCHANGED scanner
    <2>1. scanner.haveExpected =>
            \A c \in Span(scanner.bufferStart, scanner.expected) : \E m \in 1..n : Within(c, log'[m])
      <3>1. \A m \in 1..Len(observed) : m \in 1..n
        BY <1>a
      <3> QED BY <1>a, <3>1 DEF CaptureInv
    <2> QED BY <1>2, <1>4, <1>5, <1>a, <1>c, <2>1 DEF CaptureInv, Span, Within
  <1>6. CASE NotTS /\ \E start \in from..(r.end - 1) :
                scanner' = [detected |-> FALSE, haveExpected |-> TRUE,
                            expected |-> r.end, bufferStart |-> start]
    <2>1. PICK start \in from..(r.end - 1) :
            scanner' = [detected |-> FALSE, haveExpected |-> TRUE,
                        expected |-> r.end, bufferStart |-> start]
      BY <1>6
    <2>2. Span(start, r.end) \subseteq Span(from, r.end)
      <3>1. \A c \in Cells : c \in Nat
        BY <1>a DEF Cells
      <3> QED BY <1>d, <1>e, <2>1, <3>1 DEF Span
    <2>3. \A c \in Span(scanner'.bufferStart, scanner'.expected) : \E m \in 1..n : Within(c, log'[m])
      BY <1>1, <1>a, <2>1, <2>2
    <2> QED BY <1>2, <1>4, <1>6, <1>a, <1>c, <2>3 DEF CaptureInv, Span, Within
  <1> QED BY <1>3, <1>5, <1>6 DEF Feed, Classify, r

\* A step of the sniffer keeps the invariant: observations are only added.
LEMMA FeedStep ==
  ASSUME IndInv, Feed
  PROVE  /\ OwnerInv' /\ StoredInv' /\ WrittenInv' /\ RecentInv' /\ CaptureInv' /\ PunchInv'
         /\ OverlayDrains' /\ ReadInv'
  <1>a. /\ TypeOK /\ OwnerInv /\ StoredInv /\ WrittenInv /\ RecentInv /\ CaptureInv /\ PunchInv
        /\ OverlayDrains /\ ReadInv
    BY DEF IndInv
  <1>b. Len(observed) \in Nat /\ done \in Nat /\ done <= Len(observed)
    BY <1>a, Counters
  <1>c. /\ Len(observed') = Len(observed) + 1
        /\ \A w \in 1..Len(observed) : observed'[w] = observed[w]
    BY <1>a, FeedFacts
  <1>d. UNCHANGED <<owner, nextGen, latest, log, torn, disk, done, wpc, recent, failed, stuck, punches, reader>>
    BY <1>a, FeedFacts
  <1>e. Kept
    BY <1>b, <1>c, <1>d DEF Kept, Wrapped
  <1>f. \A c \in Cells : latest[c] \in Nat /\ latest[c] <= latest'[c]
    BY <1>a, <1>d, CellTypes
  <1>1. OwnerInv' /\ OverlayDrains'
    BY <1>a, <1>d DEF OwnerInv, OverlayDrains, Writes, Within, CellsOf, Span
  <1>2. StoredInv'
    <2> SUFFICES ASSUME NEW c \in Cells, NEW w \in 0..MaxWrites, w = latest[c], w <= done, w \notin failed
        PROVE  disk'[c] = w \/ Excused(c, w)'
      BY <1>d DEF StoredInv
    <2> QED BY <1>a, <1>d, <1>e, StoredKept
  <1>3. WrittenInv'
    <2>1. wpc = "release" => NextWrite \in 1..Len(observed)
      BY <1>a, <1>b DEF TypeOK, NextWrite
    <2> QED BY <1>a, <1>c, <1>d, <2>1 DEF WrittenInv, NextWrite, Within
  <1>4. RecentInv'
    <2>1. Handled' = Handled /\ \A w \in 1..Handled : w \in 1..Len(observed)
      BY <1>a, <1>b, <1>d DEF TypeOK, Handled
    <2> QED BY <1>a, <1>c, <1>d, <2>1 DEF RecentInv, Wrapped
  <1>5. PunchInv'
    <2>1. \A i \in 1..Len(punches) : punches[i].seq \in 1..Len(observed)
      <3>1. \A i \in 1..Len(punches) : punches[i].seq <= Len(observed)
        BY <1>a DEF TypeOK
      <3>2. \A i \in 1..Len(punches) : punches[i].seq \in Nat \ {0}
        BY <1>a, Entries, CapacityAssumption DEF PunchRequest
      <3> QED BY <1>b, <3>1, <3>2
    <2> QED BY <1>a, <1>c, <1>d, <2>1 DEF PunchInv, Within
  <1>6. ReadInv'
    BY <1>a, <1>b, <1>d, <1>e, <1>f, ReadKept
  <1>7. CaptureInv'
    BY <1>a, FeedCaptures
  <1> QED BY <1>1, <1>2, <1>3, <1>4, <1>5, <1>6, <1>7

\* The writer finishes a write that is in the image or MPEG-TS, releasing it
\* if it is current, or failing to.
LEMMA FinishStep ==
  ASSUME IndInv, NextWrite \in 1..Len(observed),
         \/ ReleaseIfCurrent(log[NextWrite], NextWrite) /\ stuck' = stuck
         \/ UNCHANGED owner /\ stuck' = stuck \cup {NextWrite},
         wpc # "closed", done' = done + 1, wpc' = "idle",
         observed[NextWrite].ts \/ \A c \in Cells : Within(c, log[NextWrite]) => disk[c] = NextWrite,
         wpc = "release" \/ observed[NextWrite].ts,
         UNCHANGED <<latest, log, torn, scanner, observed, disk, recent, failed, punches, reader>>
  PROVE  /\ OwnerInv' /\ StoredInv' /\ WrittenInv' /\ RecentInv' /\ CaptureInv' /\ PunchInv'
         /\ OverlayDrains' /\ ReadInv'
  <1>a. /\ TypeOK /\ OwnerInv /\ StoredInv /\ WrittenInv /\ RecentInv /\ CaptureInv /\ PunchInv
        /\ OverlayDrains /\ ReadInv
    BY DEF IndInv
  <1>b. /\ Len(log) \in Nat /\ Len(observed) \in Nat /\ done \in Nat /\ MaxWrites \in Nat
        /\ done <= Len(observed) /\ Len(observed) <= Len(log) /\ Len(log) <= MaxWrites
    BY <1>a, Counters
  <1> DEFINE k == NextWrite  r == log[k]
  <1>c. k = done + 1 /\ k \in 1..Len(observed) /\ k \in 1..Len(log) /\ k \in 1..MaxWrites
    BY <1>b DEF NextWrite
  <1>d. r \in Ranges
    BY <1>a, <1>c, Entries
  <1>e. /\ stuck' = stuck \/ stuck' = stuck \cup {k}
        /\ \/ \A c \in Cells : owner'[c] = IF Current(r, k) /\ Within(c, r) THEN 0 ELSE owner[c]
           \/ owner' = owner /\ stuck' = stuck \cup {k}
    BY <1>a, <1>c, <1>d, ReleaseFacts
  <1>f. failed \subseteq 1..done /\ k \notin failed
    BY <1>a, <1>b, <1>c DEF TypeOK
  <1>g. \A c \in Cells : latest[c] \in Nat /\ owner[c] \in Nat
    BY <1>a, CellTypes
  <1> HIDE DEF k, r
  <1>1. OwnerInv'
    <2> SUFFICES ASSUME NEW c \in Cells
        PROVE  \/ owner'[c] = latest'[c]
               \/ owner'[c] = 0 /\ latest'[c] <= done' /\ latest'[c] \notin failed'
      BY <1>a DEF OwnerInv, Writes, Within
    <2>1. \/ owner[c] = latest[c]
          \/ owner[c] = 0 /\ latest[c] <= done /\ latest[c] \notin failed
      BY <1>a DEF OwnerInv
    <2>2. CASE owner'[c] # owner[c]
      <3>1. owner[c] = k /\ owner'[c] = 0
        BY <1>e, <2>2 DEF Current
      <3>2. latest[c] = k
        BY <1>c, <1>b, <2>1, <3>1
      <3> QED BY <1>b, <1>c, <1>f, <3>1, <3>2
    <2>3. CASE owner'[c] = owner[c]
      BY <1>b, <1>g, <2>1, <2>3
    <2> QED BY <2>2, <2>3
  <1>h. Kept
    BY <1>a, KeptSame
  <1>2. StoredInv'
    <2> SUFFICES ASSUME NEW c \in Cells, NEW w \in 0..MaxWrites, w = latest[c], w <= done + 1, w \notin failed
        PROVE  disk'[c] = w \/ Excused(c, w)'
      BY DEF StoredInv
    <2>1. CASE w <= done
      BY <1>a, <1>h, <2>1, StoredKept
    <2>2. CASE w = k
      <3>1. Within(c, r)
        <4>1. latest[c] = k /\ k # 0
          BY <1>b, <1>c, <2>2
        <4> QED BY <1>a, <4>1 DEF OwnerInv, r
      <3>2. CASE observed[k].ts
        BY <1>c, <2>2, <3>2 DEF Excused, Expendable
      <3>3. CASE ~observed[k].ts
        <4>1. disk[c] = k
          BY <3>1, <3>3 DEF k, r
        <4> QED BY <2>2, <4>1
      <3> QED BY <3>2, <3>3
    <2> QED BY <1>b, <1>c, <1>g, <2>1, <2>2
  <1>3. WrittenInv'
    BY DEF WrittenInv
  <1>4. RecentInv'
    <2>1. Handled' = done + 1 /\ Handled \in Nat /\ Handled <= done + 1
      BY <1>b DEF Handled
    <2>2. \A i \in 1..Len(recent) : recent[i] \in Nat /\ recent[i] <= Handled
      BY <1>a, <1>b DEF RecentInv, TypeOK
    <2>3. \A w \in 1..(done + 1) : ~observed[w].ts => w \in 1..Handled
      <3>1. CASE wpc = "release"
        BY <1>b, <3>1 DEF Handled
      <3>2. CASE observed[k].ts
        BY <1>b, <1>c, <3>2 DEF Handled
      <3> QED BY <3>1, <3>2 DEF k
    <2>4. \A w \in 1..Handled :
            ~observed[w].ts => Wrapped(w) \/ \E i \in 1..Len(recent) : recent[i] = w
      BY <1>a DEF RecentInv
    <2>5. \A i \in 1..Len(recent) : recent[i] <= done + 1
      BY <1>b, <2>1, <2>2
    <2> QED BY <1>a, <2>1, <2>3, <2>4, <2>5 DEF RecentInv, Wrapped
  <1>5. PunchInv'
    BY <1>a DEF PunchInv, Within
  <1>6. OverlayDrains'
    <2> SUFFICES ASSUME NEW c \in Cells, owner'[c] # 0, owner'[c] <= done + 1,
                        owner'[c] \notin failed \cup stuck'
        PROVE  \E w \in 1..Len(log) : w > owner'[c] /\ CellsOf(log[w]) \cap CellsOf(log[owner'[c]]) # {}
      BY DEF OverlayDrains, Writes, CellsOf, Span
    <2>1. owner'[c] = owner[c] /\ (owner[c] = k => ~(Current(r, k) /\ Within(c, r)))
      BY <1>e
    <2>2. CASE owner[c] <= done
      <3>1. owner[c] \notin failed \cup stuck
        BY <1>e, <2>1
      <3> QED BY <1>a, <2>1, <2>2, <3>1 DEF OverlayDrains, Writes
    <2>3. CASE owner[c] = k
      <3>1. latest[c] = k
        BY <1>a, <1>b, <1>c, <2>3 DEF OwnerInv
      <3>2. Within(c, r)
        BY <1>a, <1>b, <1>c, <3>1 DEF OwnerInv, r
      <3>3. PICK d \in Cells : Within(d, r) /\ owner[d] # k
        BY <2>1, <2>3, <3>2 DEF Current
      <3>4. k <= latest[d] /\ latest[d] <= Len(log)
        BY <1>a, <1>c, <3>3 DEF OwnerInv, Writes, r
      <3>5. \/ owner[d] = latest[d]
            \/ owner[d] = 0 /\ latest[d] <= done
        BY <1>a DEF OwnerInv
      <3>6. latest[d] > k /\ latest[d] \in 1..Len(log)
        BY <1>b, <1>c, <1>g, <3>3, <3>4, <3>5
      <3>7. Within(d, log[latest[d]])
        BY <1>a, <1>b, <3>6 DEF OwnerInv
      <3>8. d \in CellsOf(log[latest[d]]) /\ d \in CellsOf(r)
        BY <3>3, <3>7 DEF CellsOf, Span, Within
      <3>9. owner'[c] = k /\ log[owner'[c]] = r
        BY <2>1, <2>3 DEF r
      <3>10. CellsOf(log[latest[d]]) \cap CellsOf(r) # {}
        BY <3>8
      <3> QED BY <3>6, <3>9, <3>10
    <2>4. owner[c] <= done \/ owner[c] = k
      BY <1>b, <1>c, <1>g, <2>1
    <2> QED BY <2>2, <2>3, <2>4
  <1>7. ReadInv'
    <2>1. ASSUME reader.pc = "base", NEW c \in Cells, owner[c] # 0, owner'[c] = 0
          PROVE  FinishedSince(c)'
      <3>1. Within(c, r) /\ owner[c] = k
        BY <1>e, <2>1 DEF Current
      <3>2. latest[c] = k
        BY <1>a, <1>b, <1>c, <3>1 DEF OwnerInv
      <3>3. reader.at <= done /\ reader.seen[c] <= latest[c] /\ reader.at \in Nat /\ reader.seen[c] \in Nat
        BY <1>a, <2>1, CellTypes DEF ReadInv
      <3>4. k \in (reader.at + 1)..(done + 1) /\ k >= reader.seen[c]
        BY <1>b, <1>c, <3>2, <3>3
      <3> QED BY <3>1, <3>4 DEF FinishedSince, Within, r
    <2>2. \A c \in Cells : latest'[c] \in Nat /\ latest[c] <= latest'[c]
      BY <1>g
    <2> QED BY <1>a, <1>b, <1>h, <2>1, <2>2, ReadKept
  <1>8. CaptureInv'
    BY <1>a, CaptureSame
  <1> QED BY <1>1, <1>2, <1>3, <1>4, <1>5, <1>6, <1>7, <1>8

\* The ring remembers the next write besides what it remembered before, or
\* forgets the oldest entry, which then is older than all the others.
LEMMA RingStep ==
  ASSUME TypeOK, RecentInv, Ready, rememberWrite(NextWrite)
  PROVE  /\ \A w \in Nat : Wrapped(w) => Wrapped(w)'
         /\ \A i \in 1..Len(recent') : recent'[i] <= done + 1
         /\ \A i, j \in 1..Len(recent') : i < j => recent'[i] < recent'[j]
         /\ \A w \in 1..(done + 1) :
               ~observed[w].ts => Wrapped(w)' \/ \E i \in 1..Len(recent') : recent'[i] = w
  <1>a. /\ Len(observed) \in Nat /\ done \in Nat /\ done < Len(observed)
        /\ Len(recent) \in Nat /\ HistoryCapacity \in Nat \ {0} /\ Len(recent) <= HistoryCapacity
    BY Counters, CapacityAssumption DEF Ready, TypeOK
  <1>b. Handled = done /\ NextWrite = done + 1 /\ NextWrite \in 1..Len(observed)
    BY <1>a DEF Ready, Handled, NextWrite
  <1>c. /\ \A i \in 1..Len(recent) : recent[i] \in Nat /\ recent[i] <= done
        /\ \A i, j \in 1..Len(recent) : i < j => recent[i] < recent[j]
        /\ \A w \in 1..done :
              ~observed[w].ts => Wrapped(w) \/ \E i \in 1..Len(recent) : recent[i] = w
    BY <1>a, <1>b DEF RecentInv, TypeOK
  <1>1. CASE Len(recent) < HistoryCapacity
    <2>1. /\ Len(recent') = Len(recent) + 1 /\ recent'[Len(recent) + 1] = done + 1
          /\ \A i \in 1..Len(recent) : recent'[i] = recent[i]
      BY <1>1, <1>b, RememberFacts
    <2>2. \A i \in 1..Len(recent') : i \in 1..Len(recent) \/ i = Len(recent) + 1
      BY <1>a, <2>1
    <2>3. \A w \in Nat : ~Wrapped(w)
      BY <1>1, <1>a DEF Wrapped
    <2>4. \A i \in 1..Len(recent') : recent'[i] <= done + 1
      BY <1>a, <1>c, <2>1, <2>2
    <2>5. ASSUME NEW i \in 1..Len(recent'), NEW j \in 1..Len(recent'), i < j
          PROVE  recent'[i] < recent'[j]
      <3>1. i \in 1..Len(recent)
        BY <1>a, <2>1, <2>5
      <3>2. CASE j \in 1..Len(recent)
        BY <1>c, <2>1, <2>5, <3>1, <3>2
      <3>3. CASE j = Len(recent) + 1
        BY <1>a, <1>c, <2>1, <3>1, <3>3
      <3> QED BY <2>2, <3>2, <3>3
    <2>6. ASSUME NEW w \in 1..(done + 1), ~observed[w].ts
          PROVE  \E i \in 1..Len(recent') : recent'[i] = w
      <3>1. CASE w = done + 1
        BY <1>a, <2>1, <3>1
      <3>2. CASE w \in 1..done
        <4>1. PICK i \in 1..Len(recent) : recent[i] = w
          BY <1>c, <2>3, <2>6, <3>2
        <4>2. i \in 1..Len(recent') /\ recent'[i] = w
          BY <1>a, <2>1, <4>1
        <4> QED BY <4>2
      <3> QED BY <1>a, <3>1, <3>2
    <2> QED BY <2>3, <2>4, <2>5, <2>6
  <1>2. CASE ~(Len(recent) < HistoryCapacity)
    <2>1. /\ Len(recent') = Len(recent) /\ recent'[Len(recent)] = done + 1
          /\ \A i \in 1..(Len(recent) - 1) : recent'[i] = recent[i + 1]
      BY <1>2, <1>b, RememberFacts
    <2>2. /\ Len(recent) = HistoryCapacity /\ 1 \in 1..Len(recent)
          /\ \A i \in 1..Len(recent') : \/ i \in 1..(Len(recent) - 1) /\ i + 1 \in 1..Len(recent)
                                       \/ i = Len(recent)
      BY <1>2, <1>a, <2>1
    <2>3. ASSUME NEW w \in Nat, Wrapped(w) PROVE Wrapped(w)'
      <3>1. \A i \in 1..Len(recent) : recent[i] > w
        BY <2>3 DEF Wrapped
      <3>2. w < done + 1
        BY <1>a, <1>c, <2>2, <3>1
      <3>3. \A i \in 1..Len(recent') : recent'[i] > w
        BY <1>a, <2>1, <2>2, <3>1, <3>2
      <3> QED BY <2>1, <2>2, <3>3 DEF Wrapped
    <2>4. \A i \in 1..Len(recent') : recent'[i] <= done + 1
      BY <1>a, <1>c, <2>1, <2>2
    <2>5. ASSUME NEW i \in 1..Len(recent'), NEW j \in 1..Len(recent'), i < j
          PROVE  recent'[i] < recent'[j]
      <3>1. i \in 1..(Len(recent) - 1) /\ i + 1 \in 1..Len(recent)
        BY <1>a, <2>1, <2>5
      <3>2. CASE j \in 1..(Len(recent) - 1)
        <4>1. j + 1 \in 1..Len(recent) /\ i + 1 < j + 1
          BY <1>a, <2>5, <3>1, <3>2
        <4> QED BY <1>c, <2>1, <3>1, <3>2, <4>1
      <3>3. CASE j = Len(recent)
        BY <1>a, <1>c, <2>1, <3>1, <3>3
      <3> QED BY <2>2, <3>2, <3>3
    <2>6. ASSUME NEW w \in 1..(done + 1), ~observed[w].ts
          PROVE  Wrapped(w)' \/ \E i \in 1..Len(recent') : recent'[i] = w
      <3>1. CASE w = done + 1
        BY <2>1, <2>2, <3>1
      <3>2. CASE w \in 1..done /\ Wrapped(w)
        BY <1>a, <2>3, <3>2
      <3>3. CASE w \in 1..done /\ \E i \in 1..Len(recent) : recent[i] = w
        <4>1. PICK i \in 1..Len(recent) : recent[i] = w
          BY <3>3
        <4>2. CASE i = 1
          <5>1. \A j \in 1..Len(recent') : recent'[j] > w
            <6> SUFFICES ASSUME NEW j \in 1..Len(recent') PROVE recent'[j] > w
              OBVIOUS
            <6>1. CASE j \in 1..(Len(recent) - 1) /\ j + 1 \in 1..Len(recent)
              <7>1. recent[1] < recent[j + 1] /\ recent'[j] = recent[j + 1]
                BY <1>c, <2>1, <2>2, <6>1
              <7> QED BY <1>a, <1>c, <4>1, <4>2, <6>1, <7>1
            <6>2. CASE j = Len(recent)
              BY <1>a, <2>1, <3>3, <6>2
            <6> QED BY <2>2, <6>1, <6>2
          <5> QED BY <2>1, <2>2, <5>1 DEF Wrapped
        <4>3. CASE i # 1
          <5>1. i - 1 \in 1..(Len(recent) - 1) /\ (i - 1) + 1 = i
            BY <1>a, <4>1, <4>3
          <5>2. recent'[i - 1] = w /\ i - 1 \in 1..Len(recent')
            BY <1>a, <2>1, <4>1, <5>1
          <5> QED BY <5>2
        <4> QED BY <4>2, <4>3
      <3> QED BY <1>a, <1>c, <2>6, <3>1, <3>2, <3>3
    <2> QED BY <2>3, <2>4, <2>5, <2>6
  <1> QED BY <1>1, <1>2

\* Storing a write keeps the invariant.
LEMMA WriteImageStep ==
  ASSUME IndInv, WriteImage
  PROVE  /\ OwnerInv' /\ StoredInv' /\ WrittenInv' /\ RecentInv' /\ CaptureInv' /\ PunchInv'
         /\ OverlayDrains' /\ ReadInv'
  <1>a. /\ TypeOK /\ OwnerInv /\ StoredInv /\ WrittenInv /\ RecentInv /\ CaptureInv /\ PunchInv
        /\ OverlayDrains /\ ReadInv
    BY DEF IndInv
  <1>b. /\ Len(log) \in Nat /\ Len(observed) \in Nat /\ done \in Nat /\ Len(observed) <= Len(log)
    BY <1>a, Counters
  <1>c. /\ Ready /\ ~observed[NextWrite].ts /\ rememberWrite(NextWrite) /\ wpc' = "release"
        /\ \A c \in Cells : disk'[c] = IF Within(c, log[NextWrite]) THEN NextWrite ELSE disk[c]
        /\ UNCHANGED <<owner, nextGen, latest, log, torn, scanner, observed, done, failed, stuck, punches, reader>>
    BY DEF WriteImage, hostVars, overlayVars, snifVars
  <1>d. NextWrite = done + 1 /\ NextWrite \in 1..Len(log)
    BY <1>b, <1>c DEF NextWrite, Ready
  <1>e. Kept
    BY <1>a, <1>b, <1>c, RingStep DEF Kept
  <1>1. OwnerInv' /\ OverlayDrains' /\ PunchInv'
    BY <1>a, <1>c DEF Ready, OwnerInv, OverlayDrains, PunchInv, Writes, Within, CellsOf, Span
  <1>2. StoredInv'
    <2> SUFFICES ASSUME NEW c \in Cells, NEW w \in 0..MaxWrites, w = latest[c], w <= done, w \notin failed
        PROVE  disk'[c] = w \/ Excused(c, w)'
      BY <1>c DEF StoredInv
    <2>1. ~Within(c, log[NextWrite])
      <3>1. Within(c, log[NextWrite]) => NextWrite <= latest[c]
        BY <1>a, <1>d DEF OwnerInv, Writes
      <3>2. latest[c] \in Nat
        BY <1>a, CellTypes
      <3> QED BY <1>b, <1>d, <3>1, <3>2
    <2> QED BY <1>a, <1>c, <1>e, <2>1, StoredKept
  <1>3. WrittenInv'
    BY <1>c DEF WrittenInv, NextWrite, Within
  <1>4. RecentInv'
    BY <1>a, <1>c, RingStep DEF RecentInv, Handled
  <1>5. ReadInv'
    <2>1. \A c \in Cells : latest'[c] \in Nat /\ latest[c] <= latest'[c]
      BY <1>a, <1>c, CellTypes
    <2> QED BY <1>a, <1>b, <1>c, <1>e, <2>1, ReadKept
  <1>6. CaptureInv'
    BY <1>a, <1>c, CaptureSame
  <1> QED BY <1>1, <1>2, <1>3, <1>4, <1>5, <1>6

\* Giving up on a write keeps the invariant, whatever part of it is stored.
LEMMA GiveUpStep ==
  ASSUME IndInv, Kept, NextWrite \in 1..Len(observed),
         wpc = "idle", done' = done + 1, wpc' = "idle", failed' = failed \cup {NextWrite},
         \A c \in Cells : ~Within(c, log[NextWrite]) => disk'[c] = disk[c],
         UNCHANGED <<owner, nextGen, latest, log, torn, scanner, observed, stuck, punches, reader>>
  PROVE  OwnerInv' /\ StoredInv' /\ WrittenInv' /\ CaptureInv' /\ PunchInv' /\ OverlayDrains' /\ ReadInv'
  <1>a. /\ TypeOK /\ OwnerInv /\ StoredInv /\ WrittenInv /\ RecentInv /\ CaptureInv /\ PunchInv
        /\ OverlayDrains /\ ReadInv
    BY DEF IndInv
  <1>b. /\ Len(log) \in Nat /\ Len(observed) \in Nat /\ done \in Nat /\ Len(observed) <= Len(log)
        /\ NextWrite = done + 1 /\ NextWrite \in 1..Len(log)
    BY <1>a, Counters DEF NextWrite
  <1>c. \A c \in Cells : latest[c] \in Nat /\ owner[c] \in Nat
    BY <1>a, CellTypes
  <1>1. OwnerInv'
    <2> SUFFICES ASSUME NEW c \in Cells
        PROVE  \/ owner'[c] = latest'[c]
               \/ owner'[c] = 0 /\ latest'[c] <= done' /\ latest'[c] \notin failed'
      BY <1>a DEF OwnerInv, Writes, Within
    <2>1. \/ owner[c] = latest[c]
          \/ owner[c] = 0 /\ latest[c] <= done /\ latest[c] \notin failed
      BY <1>a DEF OwnerInv
    <2> QED BY <1>b, <1>c, <2>1
  <1>2. StoredInv'
    <2> SUFFICES ASSUME NEW c \in Cells, NEW w \in 0..MaxWrites, w = latest[c], w <= done + 1,
                        w \notin failed, w # NextWrite
        PROVE  disk'[c] = w \/ Excused(c, w)'
      BY DEF StoredInv
    <2>1. latest[c] <= done
      BY <1>b, <1>c
    <2>2. ~Within(c, log[NextWrite])
      <3>1. Within(c, log[NextWrite]) => NextWrite <= latest[c]
        BY <1>a, <1>b DEF OwnerInv, Writes
      <3> QED BY <1>b, <1>c, <2>1, <3>1
    <2> QED BY <1>a, <2>1, <2>2, StoredKept
  <1>3. WrittenInv'
    BY DEF WrittenInv
  <1>4. PunchInv' /\ ReadInv'
    <2>1. PunchInv'
      BY <1>a DEF PunchInv, Within
    <2>2. \A c \in Cells : latest'[c] \in Nat /\ latest[c] <= latest'[c]
      BY <1>c
    <2> QED BY <1>a, <1>b, <2>1, <2>2, ReadKept
  <1>5. OverlayDrains'
    <2> SUFFICES ASSUME NEW c \in Cells, owner[c] # 0, owner[c] <= done + 1,
                        owner[c] \notin failed \cup stuck, owner[c] # NextWrite
        PROVE  \E w \in 1..Len(log) : w > owner[c] /\ CellsOf(log[w]) \cap CellsOf(log[owner[c]]) # {}
      BY DEF OverlayDrains, Writes, CellsOf, Span
    <2>1. owner[c] <= done
      BY <1>b, <1>c
    <2> QED BY <1>a, <2>1 DEF OverlayDrains, Writes
  <1>6. CaptureInv'
    BY <1>a, CaptureSame
  <1> QED BY <1>1, <1>2, <1>3, <1>4, <1>5, <1>6

\* A punch spares whatever is newer than its capture.
LEMMA ProcessPunchStep ==
  ASSUME IndInv, ProcessPunch
  PROVE  /\ OwnerInv' /\ StoredInv' /\ WrittenInv' /\ RecentInv' /\ CaptureInv' /\ PunchInv'
         /\ OverlayDrains' /\ ReadInv'
  <1>a. /\ TypeOK /\ OwnerInv /\ StoredInv /\ WrittenInv /\ RecentInv /\ CaptureInv /\ PunchInv
        /\ OverlayDrains /\ ReadInv
    BY DEF IndInv
  <1>b. /\ Len(log) \in Nat /\ Len(observed) \in Nat /\ done \in Nat /\ done <= Len(observed)
        /\ Len(observed) <= Len(log) /\ Len(recent) \in Nat
    BY <1>a, Counters
  <1> DEFINE p == punches[1]
  <1>c. /\ Len(punches) \in Nat \ {0} /\ Head(punches) = p
        /\ \A i \in 1..Len(punches') : i + 1 \in 1..Len(punches) /\ punches'[i] = punches[i + 1]
        /\ p \in PunchRequest /\ p.seq <= Len(observed)
    BY <1>a, ProcessPunchFacts
  <1>d. /\ wpc = "idle"
        /\ UNCHANGED <<owner, nextGen, latest, log, torn, scanner, observed, done, wpc, recent, failed, stuck, reader>>
    BY DEF ProcessPunch, hostVars, overlayVars, snifVars
  <1>e. \/ disk' = disk
        \/ ~hasNewerOverlap(p) /\ \A c \in Cells : disk'[c] = IF Within(c, p) THEN Hole ELSE disk[c]
    BY <1>c DEF ProcessPunch
  <1>f. p.seq \in 1..Len(observed)
    BY <1>b, <1>c, CapacityAssumption DEF PunchRequest
  <1> HIDE DEF p
  <1>g. Kept
    BY <1>a, <1>d, KeptSame
  <1>1. OwnerInv' /\ OverlayDrains' /\ RecentInv' /\ ReadInv'
    <2>1. \A c \in Cells : latest'[c] \in Nat /\ latest[c] <= latest'[c]
      BY <1>a, <1>d, CellTypes
    <2>2. ReadInv'
      BY <1>a, <1>b, <1>d, <1>g, <2>1, ReadKept
    <2> QED BY <1>a, <1>d, <2>2 DEF OwnerInv, OverlayDrains, RecentInv, Wrapped, Handled,
                                    Writes, Within, CellsOf, Span
  <1>2. WrittenInv'
    BY <1>d DEF WrittenInv
  <1>3. PunchInv' /\ CaptureInv'
    BY <1>a, <1>c, <1>d, CaptureSame DEF PunchInv, Within
  <1>4. StoredInv'
    <2> SUFFICES ASSUME NEW c \in Cells, NEW w \in 0..MaxWrites, w = latest[c], w <= done, w \notin failed
        PROVE  disk'[c] = w \/ Excused(c, w)'
      BY <1>d DEF StoredInv
    <2>1. ASSUME Excused(c, w) PROVE Excused(c, w)'
      BY <1>b, <1>g, <2>1, ExcusedKept
    <2>2. CASE disk'[c] = disk[c]
      BY <1>a, <1>d, <1>g, <2>2, StoredKept
    <2>3. CASE disk'[c] # disk[c]
      <3>1. ~hasNewerOverlap(p) /\ Within(c, p)
        BY <1>e, <2>3
      <3>2. c \in observed[p.seq].captures
        <4>1. 1 \in 1..Len(punches)
          BY <1>c
        <4> QED BY <1>a, <3>1, <4>1 DEF PunchInv, p
      <3>3. observed[p.seq].ts /\ \E n \in 1..p.seq : Within(c, log[n])
        BY <1>a, <1>f, <3>2 DEF CaptureInv
      <3>4. w \in 1..done /\ w \in 1..Len(observed) /\ w \in 1..Len(log) /\ Within(c, log[w])
        <4>1. PICK n \in 1..p.seq : Within(c, log[n])
          BY <3>3
        <4>2. n \in 1..Len(log)
          BY <1>b, <1>f, <4>1
        <4>3. n <= w
          BY <1>a, <4>1, <4>2 DEF OwnerInv, Writes
        <4>4. w \in 1..done /\ w \in 1..Len(observed) /\ w \in 1..Len(log)
          BY <1>b, <4>2, <4>3
        <4> QED BY <1>a, <4>4 DEF OwnerInv
      <3>l. \A v \in (w + 1)..p.seq : ~Within(c, log[v])
        <4>1. \A v \in (w + 1)..p.seq : v \in 1..Len(log) /\ ~(v <= w)
          BY <1>b, <1>f, <3>4
        <4> QED BY <1>a, <4>1 DEF OwnerInv, Writes
      <3>5. CASE w <= p.seq /\ Buffered(w)
        <4>2. LastBuffered(c, w, p.seq)
          BY <3>4, <3>5, <3>l DEF LastBuffered
        <4>3. p.seq \in w..Len(observed)
          BY <1>f, <3>4, <3>5
        <4> QED BY <2>1, <3>2, <3>4, <4>2, <4>3 DEF Excused, Expendable
      <3>6. CASE w <= p.seq /\ ~Buffered(w)
        <4>1. w # p.seq
          BY <3>3, <3>6 DEF Buffered
        <4>2. p.seq \in (w + 1)..Len(observed)
          BY <1>f, <3>4, <3>6, <4>1
        <4> QED BY <2>1, <3>2, <3>4, <3>6, <3>l, <4>2 DEF Excused, Stale
      <3>7. CASE w > p.seq
        <4>1. w \in 1..Handled
          BY <1>b, <1>d, <3>4 DEF Handled
        <4>2. CASE observed[w].ts
          BY <2>1, <3>4, <4>2 DEF Excused, Expendable
        <4>3. CASE Wrapped(w)
          BY <1>f, <2>1, <3>2, <3>7, <4>3 DEF Excused, Forgotten
        <4>4. CASE \E i \in 1..Len(recent) : recent[i] = w
          <5>1. PICK i \in 1..Len(recent) : recent[i] = w
            BY <4>4
          <5>2. c \in CellsOf(log[recent[i]]) /\ c \in CellsOf(p)
            BY <3>1, <3>4, <5>1 DEF CellsOf, Span, Within
          <5>3. hasNewerOverlap(p)
            BY <3>7, <5>1, <5>2 DEF hasNewerOverlap
          <5> QED BY <3>1, <5>3
        <4> QED BY <1>a, <4>1, <4>2, <4>3, <4>4 DEF RecentInv
      <3> QED BY <1>f, <3>4, <3>5, <3>6, <3>7
    <2> QED BY <2>2, <2>3
  <1> QED BY <1>1, <1>2, <1>3, <1>4

\* A step that leaves the disk and the writer alone.
LEMMA SameInv ==
  ASSUME TypeOK, OwnerInv, StoredInv, WrittenInv, RecentInv, OverlayDrains,
         UNCHANGED <<owner, latest, log, observed, disk, done, wpc, recent, failed, stuck>>
  PROVE  /\ OwnerInv' /\ StoredInv' /\ WrittenInv' /\ RecentInv' /\ OverlayDrains'
         /\ ReadInv /\ UNCHANGED reader => ReadInv'
  <1>1. OwnerInv' /\ OverlayDrains'
    BY DEF OwnerInv, OverlayDrains, Writes, Within, CellsOf, Span
  <1>2. StoredInv'
    BY KeptSame, StoredKept DEF StoredInv
  <1>3. WrittenInv' /\ RecentInv'
    BY DEF WrittenInv, RecentInv, Wrapped, Handled, NextWrite, Within
  <1>4. ASSUME ReadInv, UNCHANGED reader PROVE ReadInv'
    <2>1. Kept /\ done \in Nat
      BY KeptSame, Counters
    <2>2. \A c \in Cells : latest'[c] \in Nat /\ latest[c] <= latest'[c]
      BY CellTypes
    <2> QED BY <1>4, <2>1, <2>2, ReadKept
  <1> QED BY <1>1, <1>2, <1>3, <1>4

\* Every step keeps the invariant.
LEMMA NextIndInv ==
  ASSUME IndInv, [Next]_vars PROVE IndInv'
  <1>a. /\ TypeOK /\ OwnerInv /\ StoredInv /\ WrittenInv /\ RecentInv /\ CaptureInv /\ PunchInv
        /\ OverlayDrains /\ ReadInv
    BY DEF IndInv
  <1>b. TypeOK'
    BY <1>a, TypeStep
  <1>c. /\ Len(observed) \in Nat /\ done \in Nat /\ done <= Len(observed)
        /\ Len(recent) \in Nat /\ Len(punches) \in Nat
    BY <1>a, Counters
  <1>d. ASSUME Ready PROVE NextWrite \in 1..Len(observed) /\ Handled = done
    BY <1>c, <1>d DEF Ready, NextWrite, Handled
  <1>e. ASSUME wpc = "release" PROVE NextWrite \in 1..Len(observed) /\ Handled = done + 1
    BY <1>a, <1>c, <1>e DEF TypeOK, NextWrite, Handled
  <1>1. ASSUME NEW r \in Ranges, HostWrite(r) PROVE IndInv'
    BY <1>1, <1>b, HostWriteStep DEF IndInv
  <1>2. CASE Feed
    BY <1>2, <1>b, FeedStep DEF IndInv
  <1>3. CASE DropTS
    <2>1. /\ Ready /\ observed[NextWrite].ts /\ ReleaseIfCurrent(log[NextWrite], NextWrite)
          /\ wpc # "closed" /\ done' = done + 1 /\ wpc' = "idle"
          /\ UNCHANGED <<latest, log, torn, scanner, observed, disk, recent, failed, stuck, punches, reader>>
      BY <1>3 DEF DropTS, Ready, snifVars
    <2> QED BY <1>b, <1>d, <2>1, FinishStep DEF IndInv
  <1>4. CASE ReleaseWritten
    <2>1. /\ wpc = "release" /\ ReleaseIfCurrent(log[NextWrite], NextWrite)
          /\ done' = done + 1 /\ wpc' = "idle"
          /\ UNCHANGED <<latest, log, torn, scanner, observed, disk, recent, failed, stuck, punches, reader>>
      BY <1>4 DEF ReleaseWritten, snifVars
    <2>2. \A c \in Cells : Within(c, log[NextWrite]) => disk[c] = NextWrite
      BY <1>a, <2>1 DEF WrittenInv
    <2> QED BY <1>b, <1>e, <2>1, <2>2, FinishStep DEF IndInv
  <1>5. CASE WriteImage
    BY <1>5, <1>b, WriteImageStep DEF IndInv
  <1>6. CASE WriteImageFails
    <2>1. /\ Ready /\ rememberWrite(NextWrite)
          /\ wpc = "idle" /\ done' = done + 1 /\ wpc' = "idle" /\ failed' = failed \cup {NextWrite}
          /\ UNCHANGED <<owner, nextGen, latest, log, torn, scanner, observed, stuck, punches, reader>>
      BY <1>6 DEF WriteImageFails, Ready, hostVars, overlayVars, snifVars
    <2>2. \A c \in Cells : ~Within(c, log[NextWrite]) => disk'[c] = disk[c]
      <3>1. log[NextWrite] \in Ranges
        <4>1. NextWrite \in 1..Len(log)
          BY <1>a, <1>d, <2>1, Counters
        <4> QED BY <1>a, <4>1, Entries
      <3>2. PICK end \in log[NextWrite].start..(log[NextWrite].end - 1) :
              disk' = [c \in Cells |-> IF c \in Span(log[NextWrite].start, end)
                                         THEN NextWrite ELSE disk[c]]
        BY <1>6 DEF WriteImageFails
      <3>3. \A c \in Cells : c \in Span(log[NextWrite].start, end) => Within(c, log[NextWrite])
        BY <3>1, <3>2, SizeAssumption DEF Ranges, Span, Within, Cells
      <3> QED BY <3>2, <3>3
    <2>3. OwnerInv' /\ StoredInv' /\ WrittenInv' /\ CaptureInv' /\ PunchInv' /\ OverlayDrains' /\ ReadInv'
      <3>1. Kept
        BY <1>a, <1>c, <2>1, RingStep DEF Kept
      <3> QED BY <1>d, <2>1, <2>2, <3>1, GiveUpStep
    <2>4. RecentInv'
      BY <1>a, <2>1, RingStep DEF RecentInv, Handled
    <2> QED BY <1>b, <2>3, <2>4 DEF IndInv
  <1>7. CASE ReleaseFails
    <2>1. /\ wpc = "release" \/ (Ready /\ observed[NextWrite].ts)
          /\ wpc # "closed" /\ done' = done + 1 /\ wpc' = "idle"
          /\ owner' = owner /\ stuck' = stuck \cup {NextWrite}
          /\ UNCHANGED <<latest, log, torn, scanner, observed, disk, recent, failed, punches, reader>>
      BY <1>7 DEF ReleaseFails, Ready, hostVars, overlayVars, snifVars
    <2>2. wpc = "release" => \A c \in Cells : Within(c, log[NextWrite]) => disk[c] = NextWrite
      BY <1>a DEF WrittenInv
    <2> QED BY <1>b, <1>d, <1>e, <2>1, <2>2, FinishStep DEF IndInv
  <1>8. CASE ProcessPunch
    BY <1>8, <1>b, ProcessPunchStep DEF IndInv
  <1>9. ASSUME NEW s \in 1..MaxWrites, NEW r \in Ranges, SubmitPunch(s, r) PROVE IndInv'
    <2>1. UNCHANGED <<owner, latest, log, torn, scanner, observed, disk, done, wpc, recent, failed,
                      stuck, reader>>
      BY <1>9 DEF SubmitPunch, hostVars, overlayVars, snifVars, writerVars
    <2>2. OwnerInv' /\ StoredInv' /\ WrittenInv' /\ RecentInv' /\ CaptureInv' /\ OverlayDrains' /\ ReadInv'
      BY <1>a, <2>1, SameInv, CaptureSame
    <2>3. PunchInv'
      <3>1. /\ CellsOf(r) \subseteq observed[s].captures
            /\ Len(punches') = Len(punches) + 1
            /\ \A i \in 1..Len(punches) : punches'[i] = punches[i]
            /\ punches'[Len(punches) + 1] = [seq |-> s, start |-> r.start, end |-> r.end]
        BY <1>9, <1>a, SubmitPunchFacts
      <3>2. \A i \in 1..Len(punches') : i \in 1..Len(punches) \/ i = Len(punches) + 1
        BY <1>c, <3>1
      <3>3. \A c \in Cells : Within(c, punches'[Len(punches) + 1]) => c \in observed[s].captures
        BY <3>1 DEF Within, CellsOf, Span
      <3>4. punches'[Len(punches) + 1].seq = s
        BY <3>1
      <3>5. \A i \in 1..Len(punches) : \A c \in Cells :
              Within(c, punches[i]) => c \in observed[punches[i].seq].captures
        BY <1>a DEF PunchInv
      <3> QED BY <2>1, <3>1, <3>2, <3>3, <3>4, <3>5 DEF PunchInv, Within
    <2> QED BY <1>b, <2>2, <2>3 DEF IndInv
  <1>10. CASE ReadBase \/ ReadOverlay \/ ReadReturns
    <2>1. UNCHANGED <<owner, latest, log, torn, scanner, observed, disk, done, wpc, recent, failed,
                      stuck, punches>>
      BY <1>10 DEF ReadBase, ReadOverlay, ReadReturns, hostVars, overlayVars, snifVars, writerVars
    <2>2. OwnerInv' /\ StoredInv' /\ WrittenInv' /\ RecentInv' /\ CaptureInv' /\ PunchInv' /\ OverlayDrains'
      BY <1>a, <2>1, SameInv, CaptureSame DEF PunchInv, Within
    <2>3. CASE ReadBase
      <3>1. /\ reader'.data = disk /\ reader'.seen = latest /\ reader'.at = done /\ reader'.pc = "base"
            /\ wpc # "closed"
        BY <2>3 DEF ReadBase
      <3>2. ASSUME NEW c \in Cells, owner[c] = 0 PROVE Fresh(c)' \/ MayMiss(c)'
        <4>1. latest[c] \in Nat /\ disk[c] \in Int /\ failed \subseteq 1..done
          BY <1>a, CellTypes DEF TypeOK
        <4>2. latest[c] <= done /\ latest[c] \notin failed
          BY <1>a, <1>c, <3>1, <3>2, <4>1 DEF OwnerInv
        <4>3. PICK w \in 0..MaxWrites : w = latest[c]
          BY <1>a DEF TypeOK
        <4>4. disk[c] = w \/ Excused(c, w)'
          BY <1>a, <2>1, <4>2, <4>3, KeptSame, StoredKept
        <4>5. CASE disk[c] = w
          BY <3>1, <4>1, <4>3, <4>5 DEF Fresh
        <4>6. CASE Excused(c, w)'
          BY <3>1, <4>3, <4>6, MissExcused
        <4> QED BY <4>4, <4>5, <4>6
      <3>3. reader'.at <= done' /\ \A c \in Cells : reader'.seen[c] <= latest'[c]
        BY <1>a, <1>c, <2>1, <3>1, CellTypes
      <3>4. ReadInv'
        BY <2>1, <3>1, <3>2, <3>3 DEF ReadInv, ReadFresh
      <3> QED BY <1>b, <2>2, <3>4 DEF IndInv
    <2>4. CASE ReadOverlay
      <3>1. /\ reader \in ReadState /\ reader.pc = "base"
            /\ reader' = [reader EXCEPT !.pc = "done",
                  !.data = [c \in Cells |-> IF owner[c] # 0 THEN Staged(c) ELSE reader.data[c]]]
        BY <1>a, <2>4 DEF ReadOverlay, TypeOK
      <3>2. /\ reader'.pc = "done" /\ reader'.seen = reader.seen /\ reader'.at = reader.at
            /\ \A c \in Cells : reader'.data[c] = IF owner[c] # 0 THEN Staged(c) ELSE reader.data[c]
        BY <3>1 DEF ReadState
      <3>3. ASSUME NEW c \in Cells PROVE Fresh(c)' \/ FinishedSince(c)' \/ MayMiss(c)'
        <4>1. CASE owner[c] # 0
          <5>1. owner[c] = latest[c] /\ reader.seen[c] <= latest[c]
            BY <1>a, <3>1, <4>1 DEF OwnerInv, ReadInv
          <5>2. latest[c] \in Nat /\ reader.seen[c] \in Nat
            BY <1>a, CellTypes
          <5> QED BY <3>2, <4>1, <5>1, <5>2 DEF Fresh, MayMiss, Staged
        <4>2. CASE owner[c] = 0
          <5>1. Fresh(c) \/ FinishedSince(c) \/ MayMiss(c)
            BY <1>a, <3>1, <4>2 DEF ReadInv
          <5>2. Fresh(c) => Fresh(c)'
            BY <3>2, <4>2 DEF Fresh
          <5>3. FinishedSince(c) => FinishedSince(c)'
            BY <2>1, <3>2 DEF FinishedSince, Within
          <5>4. ASSUME MayMiss(c) PROVE MayMiss(c)'
            <6>1. CASE reader.data[c] = Torn
              BY <3>2, <4>2, <6>1 DEF MayMiss
            <6>2. CASE Excused(c, reader.seen[c])
              <7>1. PICK w \in Nat : w = reader.seen[c] /\ w = reader'.seen[c]
                BY <1>a, <3>2, CellTypes
              <7>2. Excused(c, w)
                BY <6>2, <7>1
              <7>3. Excused(c, w)'
                BY <1>a, <1>c, <2>1, <7>2, KeptSame, ExcusedKept
              <7> QED BY <7>1, <7>3, MissExcused
            <6> QED BY <5>4, <6>1, <6>2 DEF MayMiss
          <5> QED BY <5>1, <5>2, <5>3, <5>4
        <4> QED BY <4>1, <4>2
      <3>4. ReadInv'
        BY <3>2, <3>3 DEF ReadInv, ReadFresh
      <3> QED BY <1>b, <2>2, <3>4 DEF IndInv
    <2>5. CASE ReadReturns
      <3>1. reader'.pc = "idle"
        BY <2>5 DEF ReadReturns, NoRead
      <3> QED BY <1>b, <2>2, <3>1 DEF IndInv, ReadInv, ReadFresh
    <2> QED BY <1>10, <2>3, <2>4, <2>5
  <1>11. CASE UNCHANGED vars
    <2>1. UNCHANGED <<owner, latest, log, torn, scanner, observed, disk, done, wpc, recent, failed,
                      stuck, punches, reader>>
      BY <1>11 DEF vars, hostVars, overlayVars, snifVars, writerVars
    <2> QED BY <1>a, <1>b, <2>1, SameInv, CaptureSame DEF IndInv, PunchInv, Within
  <1>12. ASSUME NEW r \in Ranges, StageWriteFails(r) PROVE IndInv'
    <2>1. UNCHANGED <<owner, latest, log, scanner, observed, disk, done, wpc, recent, failed, stuck,
                      punches, reader>>
      BY <1>12 DEF StageWriteFails, overlayVars, snifVars, writerVars
    <2> QED BY <1>a, <1>b, <2>1, SameInv, CaptureSame DEF IndInv, PunchInv, Within
  <1>13. CASE Shutdown
    <2>1. /\ wpc = "idle" /\ wpc' = "closed" /\ reader.pc = "idle" /\ owner' = [c \in Cells |-> 0]
          /\ UNCHANGED <<latest, log, scanner, observed, disk, done, recent, failed, stuck, punches, reader>>
      BY <1>13 DEF Shutdown, Discard, snifVars
    <2>2. OwnerInv' /\ OverlayDrains'
      BY <1>a, <2>1 DEF OwnerInv, OverlayDrains, Writes, Within
    <2>3. StoredInv'
      BY <1>a, <2>1, KeptSame, StoredKept DEF StoredInv
    <2>4. WrittenInv' /\ RecentInv' /\ PunchInv' /\ ReadInv'
      BY <1>a, <2>1 DEF WrittenInv, RecentInv, Wrapped, Handled, PunchInv, Within, ReadInv, ReadFresh
    <2>5. CaptureInv'
      BY <1>a, <2>1, CaptureSame
    <2> QED BY <1>b, <2>2, <2>3, <2>4, <2>5 DEF IndInv
  <1> QED
    BY <1>1, <1>2, <1>3, <1>4, <1>5, <1>6, <1>7, <1>8, <1>9, <1>10, <1>11, <1>12, <1>13 DEF Next

\* The invariant holds at the start.
LEMMA InitIndInv == Init => IndInv
  <1> SUFFICES ASSUME Init PROVE IndInv
    OBVIOUS
  <1>a. /\ owner = [c \in Cells |-> 0] /\ latest = [c \in Cells |-> 0] /\ disk = [c \in Cells |-> 0]
        /\ nextGen = 1 /\ log = <<>> /\ observed = <<>> /\ recent = <<>> /\ punches = <<>>
        /\ done = 0 /\ wpc = "idle" /\ failed = {} /\ stuck = {} /\ torn = {} /\ reader = NoRead
        /\ scanner.haveExpected = FALSE
    BY DEF Init, OverlayInit, ClassInit
  <1>b. MaxWrites \in Nat /\ HistoryCapacity \in Nat /\ PunchDepth \in Nat /\ Size \in Nat
    BY CapacityAssumption, SizeAssumption
  <1>c. 0 \in 0..MaxWrites /\ 0 \in Content /\ 0 \in 0..Size
    BY <1>b DEF Content
  <1>1. TypeOK
    <2>1. scanner \in ScannerState
      BY <1>c DEF Init, ClassInit, ScannerState
    <2>2. NoRead \in ReadState
      BY <1>c DEF NoRead, ReadState
    <2>3. /\ owner \in [Cells -> 0..MaxWrites] /\ latest \in [Cells -> 0..MaxWrites]
          /\ disk \in [Cells -> Content]
      BY <1>a, <1>c
    <2>4. log \in Seq(Ranges) /\ observed \in Seq(Observation) /\ recent \in Seq(Nat) /\ punches \in Seq(PunchRequest)
      BY <1>a
    <2>5. Len(log) = 0 /\ Len(observed) = 0 /\ Len(recent) = 0 /\ Len(punches) = 0
      BY <1>a
    <2> QED BY <1>a, <1>b, <2>1, <2>2, <2>3, <2>4, <2>5 DEF TypeOK
  <1>2. Len(log) = 0 /\ Len(observed) = 0 /\ Len(recent) = 0 /\ Len(punches) = 0
    BY <1>a
  <1>3. OwnerInv /\ StoredInv /\ OverlayDrains
    BY <1>a, <1>2 DEF OwnerInv, StoredInv, OverlayDrains, Writes
  <1>4. WrittenInv /\ RecentInv /\ PunchInv /\ ReadInv
    BY <1>a, <1>2 DEF WrittenInv, RecentInv, Handled, PunchInv, ReadInv, ReadFresh, NoRead
  <1>5. CaptureInv
    BY <1>a, <1>2 DEF CaptureInv
  <1> QED BY <1>1, <1>3, <1>4, <1>5 DEF IndInv

(***************************************************************************)
(* The inductive invariant of the staged disk.                             *)
(***************************************************************************)
THEOREM Inductive == Spec => []IndInv
  <1>1. IndInv /\ [Next]_vars => IndInv'
    BY NextIndInv
  <1> QED BY <1>1, InitIndInv, PTL DEF Spec

(***************************************************************************)
(* Type correctness: the stages keep their order and their bounds.         *)
(***************************************************************************)
THEOREM TypeCorrect == Spec => []TypeOK
  <1>1. IndInv => TypeOK
    BY DEF IndInv
  <1> QED BY <1>1, Inductive, PTL

(***************************************************************************)
(* A cell shows the last write the host made there, through staging,       *)
(* storing, releasing, punching and the shutdown, or the bytes of a write  *)
(* that failed while it is staged.  A write can be lost only as MPEG-TS,   *)
(* to a stale capture, to a ring of recent writes that has wrapped past    *)
(* it, or when the overlay is discarded before it could be stored.         *)
(***************************************************************************)
THEOREM HostDataIsKept == Spec => []HostDataKept
  <1>1. IndInv => HostDataKept
    <2> SUFFICES ASSUME IndInv, NEW c \in Cells
        PROVE  \/ View(c) \in {latest[c], Torn}
               \/ Excused(c, latest[c]) \/ Discarded(latest[c])
      BY DEF HostDataKept
    <2>1. \/ owner[c] = latest[c]
          \/ owner[c] = 0 /\ latest[c] <= done /\ latest[c] \notin failed
          \/ owner[c] = 0 /\ wpc = "closed"
      BY DEF IndInv, OwnerInv
    <2>2. CASE owner[c] # 0
      BY <2>1, <2>2 DEF View, Staged
    <2>3. CASE owner[c] = 0 /\ latest[c] <= done /\ latest[c] \notin failed
      <3>1. latest[c] \in 0..MaxWrites
        BY DEF IndInv, TypeOK
      <3>2. disk[c] = latest[c] \/ Excused(c, latest[c])
        BY <2>3, <3>1 DEF IndInv, StoredInv
      <3> QED BY <2>3, <3>2 DEF View
    <2>4. CASE owner[c] = 0 /\ wpc = "closed" /\ ~(latest[c] <= done /\ latest[c] \notin failed)
      <3>1. latest[c] \in Nat /\ done \in Nat
        BY CellTypes, Counters DEF IndInv
      <3> QED BY <2>4, <3>1 DEF Discarded
    <2>5. CASE owner[c] = 0 /\ latest[c] = 0
      <3>1. failed \subseteq 1..done /\ done \in Nat
        BY Counters DEF IndInv, TypeOK
      <3> QED BY <2>3, <2>5, <3>1
    <2> QED BY <2>1, <2>2, <2>3, <2>4, <2>5
  <1> QED BY <1>1, Inductive, PTL

(***************************************************************************)
(* The overlay keeps no cell of a finished write, except of one that could *)
(* not be stored or released, or was partly superseded.                    *)
(***************************************************************************)
THEOREM OverlayIsDrained == Spec => []OverlayDrains
  <1>1. IndInv => OverlayDrains
    BY DEF IndInv
  <1> QED BY <1>1, Inductive, PTL

(***************************************************************************)
(* A read is fresh in every cell, although ReadAt reads the image outside  *)
(* the lock, except where the writer finished with a write meanwhile,      *)
(* where the write is one HostDataKept lets a punch or the drop of MPEG-TS *)
(* take, and where a failed write tore the staged bytes.                   *)
(***************************************************************************)
THEOREM ReadsAreFresh == Spec => []ReadFresh
  <1>1. IndInv => ReadFresh
    BY DEF IndInv, ReadInv
  <1> QED BY <1>1, Inductive, PTL
=============================================================================
