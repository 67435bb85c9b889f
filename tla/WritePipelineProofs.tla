------------------------- MODULE WritePipelineProofs -------------------------
(***************************************************************************)
(* Proofs about WritePipeline, for every depth of the channels, any number *)
(* of host writes and any set of Flush/Fsync requests.                     *)
(*                                                                         *)
(* The inductive invariant IndInv has one part per place where writes      *)
(* queue up; each part has a lemma that every step keeps it, and a frame   *)
(* lemma naming the only actions that touch its variables.                 *)
(***************************************************************************)
EXTENDS WritePipeline, FiniteSetTheorems, TLAPS

\* What Append does to a sequence.
LEMMA AppendFacts ==
  ASSUME NEW S, NEW s \in Seq(S), NEW e \in S
  PROVE  /\ Append(s, e) \in Seq(S)
         /\ Len(Append(s, e)) = Len(s) + 1
         /\ \A i \in 1..Len(s) : Append(s, e)[i] = s[i]
         /\ Append(s, e)[Len(s) + 1] = e
  OBVIOUS

\* What Head and Tail do to a sequence that is not empty.
LEMMA TailFacts ==
  ASSUME NEW S, NEW s \in Seq(S), s # <<>>
  PROVE  /\ Head(s) \in S /\ Head(s) = s[1]
         /\ Len(s) \in Nat \ {0}
         /\ Tail(s) \in Seq(S)
         /\ Len(Tail(s)) = Len(s) - 1
         /\ \A i \in 1..(Len(s) - 1) : Tail(s)[i] = s[i + 1]
  OBVIOUS

\* Every step keeps the type invariant.
LEMMA TypeStep == ASSUME TypeOK, [Next]_vars PROVE TypeOK'
  <1> USE DepthAssumption DEF TypeOK, fuseVars, chanVars, dispVars, snVars, wVars, recVars, syncVars
  <1>1. CASE WriteTakesSeq
    BY <1>1 DEF WriteTakesSeq
  <1>2. CASE SubmitWrite
    <2>1. CASE Len(writes) < WriteDepth
      <3>1. writes' = Append(writes, seq)
        BY <1>2, <2>1 DEF SubmitWrite
      <3>2. writes' \in Seq(Nat) /\ Len(writes') <= WriteDepth
        BY <2>1, <3>1, AppendFacts
      <3> QED BY <1>2, <2>1, <3>2 DEF SubmitWrite
    <2>2. CASE ~(Len(writes) < WriteDepth)
      BY <1>2, <2>2 DEF SubmitWrite
    <2> QED BY <2>1, <2>2
  <1>3. ASSUME NEW n \in fallback, FallbackSend(n) PROVE TypeOK'
    <2>1. writes' \in Seq(Nat) /\ Len(writes') <= WriteDepth
      BY <1>3, AppendFacts DEF FallbackSend
    <2> QED BY <1>3, <2>1 DEF FallbackSend
  <1>4. CASE RecvWrite
    <2>1. writes' \in Seq(Nat) /\ Len(writes') <= WriteDepth /\ Head(writes) \in Nat
      BY <1>4, TailFacts DEF RecvWrite
    <2>2. dpc' \in DispatcherPC /\ dret' = "select" /\ cur' \in Nat /\ pending' \in SUBSET Nat
      BY <1>4, <2>1 DEF RecvWrite, AcceptWrite, DispatcherPC
    <2> QED BY <1>4, <2>1, <2>2 DEF RecvWrite, AcceptWrite
  <1>5. CASE RecvClosed
    BY <1>5 DEF RecvClosed, DispatcherPC
  <1>6. CASE Dispatch
    <2>1. snIn' \in Seq(Nat) /\ Len(snIn') <= SnifferDepth
      BY <1>6, AppendFacts DEF Dispatch
    <2>2. /\ dpc' \in DispatcherPC /\ cur' \in Nat /\ pending' \in SUBSET Nat
          /\ dpc' = "barrier" \/ (dpc' = "dispatch" /\ dret' = "barrier") => breq \in Syncers
      BY <1>6 DEF Dispatch, DispatcherPC
    <2>3. /\ nextSeq' \in Nat /\ dispatchedSeq' \in Nat
          /\ UNCHANGED <<seq, fuse, fallback, writes, writesClosed, dret, breq, writesOpen>>
          /\ UNCHANGED <<snHold, snOut, snDone, fed, wVars, recVars, syncVars, mpc>>
      BY <1>6 DEF Dispatch
    <2> QED BY <2>1, <2>2, <2>3
  <1>7. CASE RecvSniffed
    <2>1. snOut' \in Seq(Nat) /\ Len(snOut') <= SnifferDepth /\ cur' \in Nat
      <3>1. snOut # <<>> /\ snOut' = Tail(snOut) /\ cur' = Head(snOut)
        BY <1>7 DEF RecvSniffed
      <3>2. /\ Head(snOut) \in Nat /\ Len(snOut) \in Nat \ {0} /\ Tail(snOut) \in Seq(Nat)
            /\ Len(Tail(snOut)) = Len(snOut) - 1
        BY <3>1, TailFacts
      <3> QED BY <3>1, <3>2, DepthAssumption
    <2> QED BY <1>7, <2>1 DEF RecvSniffed, DispatcherPC
  <1>8. CASE ForwardToWriter
    <2>1. [kind |-> "write", seq |-> cur, req |-> None] \in Command
      BY DEF Command, None
    <2>2. wIn' \in Seq(Command) /\ Len(wIn') <= WriterDepth
      BY <1>8, <2>1, AppendFacts DEF ForwardToWriter
    <2> QED BY <1>8, <2>2 DEF ForwardToWriter, DispatcherPC
  <1>9. CASE ForwardToReconciler
    <2>1. observed' \in Seq(Nat) /\ Len(observed') <= ObservedDepth
      BY <1>9, AppendFacts DEF ForwardToReconciler
    <2> QED BY <1>9, <2>1 DEF ForwardToReconciler, DispatcherPC
  <1>10. CASE RecvBarrier
    <2>1. barriers' \in Seq(Syncers) /\ Len(barriers') <= BarrierDepth /\ breq' \in Syncers
      BY <1>10, TailFacts DEF RecvBarrier
    <2> QED BY <1>10, <2>1 DEF RecvBarrier, DispatcherPC
  <1>11. CASE BarrierRecvWrite
    <2>1. writes' \in Seq(Nat) /\ Len(writes') <= WriteDepth /\ Head(writes) \in Nat
      BY <1>11, TailFacts DEF BarrierRecvWrite
    <2>2. dpc' \in DispatcherPC /\ dret' = "barrier" /\ cur' \in Nat /\ pending' \in SUBSET Nat
      BY <1>11, <2>1 DEF BarrierRecvWrite, AcceptWrite, DispatcherPC
    <2> QED BY <1>11, <2>1, <2>2 DEF BarrierRecvWrite, AcceptWrite
  <1>12. CASE BarrierRecvClosed
    BY <1>12 DEF BarrierRecvClosed
  <1>13. CASE SubmitBarrier
    <2>1. [kind |-> "barrier", seq |-> None, req |-> breq] \in Command
      BY DEF Command, None
    <2>2. wIn' \in Seq(Command) /\ Len(wIn') <= WriterDepth
      BY <1>13, <2>1, AppendFacts DEF SubmitBarrier
    <2> QED BY <1>13, <2>2 DEF SubmitBarrier, DispatcherPC
  <1>14. CASE ExitLoop
    BY <1>14 DEF ExitLoop, DispatcherPC
  <1>15. CASE Sniff
    <2>1. snIn' \in Seq(Nat) /\ Len(snIn') <= SnifferDepth /\ fed' \in Nat /\ snHold' \in Nat
      BY <1>15, TailFacts DEF Sniff
    <2> QED BY <1>15, <2>1 DEF Sniff
  <1>16. CASE SnifferOut
    <2>1. snOut' \in Seq(Nat) /\ Len(snOut') <= SnifferDepth
      BY <1>16, AppendFacts DEF SnifferOut
    <2> QED BY <1>16, <2>1 DEF SnifferOut, None
  <1>17. CASE SnifferEnds
    BY <1>17 DEF SnifferEnds, DispatcherClosed
  <1>18. CASE WriterWrites
    <2>1. wIn' \in Seq(Command) /\ Len(wIn') <= WriterDepth /\ Head(wIn) \in Command
      BY <1>18, TailFacts DEF WriterWrites
    <2>2. written' \in Nat
      BY <1>18, <2>1 DEF WriterWrites, Command
    <2> QED BY <1>18, <2>1, <2>2 DEF WriterWrites
  <1>19. CASE WriterSyncs
    <2>1. wIn' \in Seq(Command) /\ Len(wIn') <= WriterDepth
      BY <1>19, TailFacts DEF WriterSyncs
    <2>2. sync' \in [Syncers -> SyncPC]
      BY <1>19 DEF WriterSyncs, SyncPC
    <2> QED BY <1>19, <2>1, <2>2 DEF WriterSyncs
  <1>20. CASE WriterEnds
    BY <1>20 DEF WriterEnds, DispatcherClosed
  <1>21. CASE Reconcile
    <2>1. observed' \in Seq(Nat) /\ Len(observed') <= ObservedDepth /\ reconciled' \in Nat
      BY <1>21, TailFacts DEF Reconcile
    <2> QED BY <1>21, <2>1 DEF Reconcile
  <1>22. CASE ReconcilerEnds
    BY <1>22 DEF ReconcilerEnds, DispatcherClosed
  <1>23. ASSUME NEW c \in Syncers, SyncStart(c) PROVE TypeOK'
    BY <1>23 DEF SyncStart, SyncPC
  <1>24. ASSUME NEW c \in Syncers, SyncWaitsSenders(c) PROVE TypeOK'
    BY <1>24 DEF SyncWaitsSenders, SyncPC
  <1>25. ASSUME NEW c \in Syncers, SyncSends(c) PROVE TypeOK'
    <2>1. barriers' \in Seq(Syncers) /\ Len(barriers') <= BarrierDepth
      BY <1>25, AppendFacts DEF SyncSends
    <2> QED BY <1>25, <2>1 DEF SyncSends, SyncPC
  <1>26. ASSUME NEW c \in Syncers, SyncInterrupt(c) PROVE TypeOK'
    BY <1>26 DEF SyncInterrupt
  <1>27. CASE Unmount
    BY <1>27 DEF Unmount, MainPC
  <1>28. CASE CloseWrites
    BY <1>28 DEF CloseWrites, MainPC
  <1>29. CASE SnifferWait
    BY <1>29 DEF SnifferWait, WaitFor, MainPC
  <1>30. CASE ReconcilerWait
    BY <1>30 DEF ReconcilerWait, WaitFor, MainPC
  <1>31. CASE PipelineWait
    BY <1>31 DEF PipelineWait, WaitFor, DispatcherClosed, MainPC
  <1>32. CASE WriterWait
    BY <1>32 DEF WriterWait, WaitFor, MainPC
  <1>33. CASE Stopped
    BY <1>33 DEF Stopped, vars
  <1>34. CASE UNCHANGED vars
    BY <1>34 DEF vars
  <1> QED
    BY <1>1, <1>2, <1>3, <1>4, <1>5, <1>6, <1>7, <1>8, <1>9, <1>10, <1>11, <1>12, <1>13, <1>14, <1>15, <1>16, <1>17, <1>18, <1>19, <1>20, <1>21, <1>22, <1>23, <1>24, <1>25, <1>26, <1>27, <1>28, <1>29, <1>30, <1>31, <1>32, <1>33, <1>34
    DEF Next, DispatcherNext, SnifferNext, WriterNext, ReconcilerNext, SyncNext, ShutdownNext

\* Only four actions touch the sniffer's channels.
LEMMA FrameSniffer ==
  ASSUME [Next]_vars
  PROVE  Dispatch \/ RecvSniffed \/ Sniff \/ SnifferOut
         \/ UNCHANGED <<fed, snIn, snHold, snOut, nextSeq>>
  BY DEF Next, DispatcherNext, SnifferNext, WriterNext, ReconcilerNext, SyncNext, ShutdownNext, vars,
     fuseVars, chanVars, dispVars, snVars, wVars, recVars, syncVars, WaitFor, AcceptWrite,
     WriteTakesSeq, SubmitWrite, FallbackSend, RecvWrite, RecvClosed, Dispatch, RecvSniffed,
     ForwardToWriter, ForwardToReconciler, RecvBarrier, BarrierRecvWrite, BarrierRecvClosed,
     SubmitBarrier, ExitLoop, Sniff, SnifferOut, SnifferEnds, WriterWrites, WriterSyncs,
     WriterEnds, Reconcile, ReconcilerEnds, SyncStart, SyncWaitsSenders, SyncSends,
     SyncInterrupt, Unmount, CloseWrites, SnifferWait, ReconcilerWait, PipelineWait,
     WriterWait, Stopped

\* Every step keeps the sniffer's channels consecutive.
LEMMA SnifferStep == ASSUME IndInv, [Next]_vars PROVE SnifferInv'
  <1> USE DEF None
  <1>a. /\ fed \in Nat /\ nextSeq \in Nat /\ snHold \in Nat /\ cur \in Nat
        /\ Len(snIn) \in Nat /\ Len(snOut) \in Nat
    BY DEF IndInv, TypeOK
  <1>s. snIn \in Seq(Nat) /\ snOut \in Seq(Nat)
    BY DEF IndInv, TypeOK
  <1>b. fed + Len(snIn) + 1 = nextSeq
    BY DEF IndInv, SnifferInv
  <1>c. \A i \in 1..Len(snIn) : snIn[i] = fed + i
    BY DEF IndInv, SnifferInv
  <1>d. snHold \in {None, fed}
    BY DEF IndInv, SnifferInv
  <1>e. Popped \in Nat
    BY <1>a DEF IndInv, SnifferInv, Popped
  <1>f. \A i \in 1..Len(snOut) : snOut[i] = Popped + i
    BY DEF IndInv, SnifferInv
  <1>1. CASE Dispatch
    <2>1. cur = nextSeq
      BY <1>1 DEF Dispatch, IndInv, DispatcherInv
    <2>2. snIn' = Append(snIn, cur)
      BY <1>1 DEF Dispatch
    <2>3. nextSeq' = nextSeq + 1 /\ fed' = fed /\ snHold' = snHold /\ snOut' = snOut
      BY <1>1 DEF Dispatch
    <2>4. /\ Len(snIn') = Len(snIn) + 1
          /\ \A i \in 1..Len(snIn) : snIn'[i] = snIn[i]
          /\ snIn'[Len(snIn) + 1] = cur
      BY <1>a, <2>2, <1>s, AppendFacts
    <2>5. fed' + Len(snIn') + 1 = nextSeq'
      BY <1>a, <1>b, <2>3, <2>4
    <2>6. ASSUME NEW i \in 1..Len(snIn') PROVE snIn'[i] = fed' + i
      <3>1. i \in 1..Len(snIn) \/ i = Len(snIn) + 1
        BY <1>a, <2>4
      <3> QED BY <1>a, <1>b, <1>c, <2>1, <2>3, <2>4, <3>1
    <2> QED BY <1>d, <1>e, <1>f, <2>3, <2>5, <2>6 DEF SnifferInv, Popped
  <1>2. CASE RecvSniffed
    <2>1. /\ Len(snOut') = Len(snOut) - 1
          /\ \A i \in 1..(Len(snOut) - 1) : snOut'[i] = snOut[i + 1]
          /\ Len(snOut) \in Nat \ {0}
      BY <1>2, <1>a, <1>s, TailFacts DEF RecvSniffed
    <2>2. nextSeq' = nextSeq /\ fed' = fed /\ snHold' = snHold /\ snIn' = snIn
      BY <1>2 DEF RecvSniffed
    <2>3. Popped' = Popped + 1
      BY <1>a, <2>1, <2>2 DEF Popped
    <2>4. ASSUME NEW i \in 1..Len(snOut') PROVE snOut'[i] = Popped' + i
      BY <1>a, <1>e, <1>f, <2>1, <2>3
    <2> QED BY <1>b, <1>c, <1>d, <1>e, <2>2, <2>3, <2>4 DEF SnifferInv
  <1>3. CASE Sniff
    <2>1. /\ Len(snIn') = Len(snIn) - 1
          /\ \A i \in 1..(Len(snIn) - 1) : snIn'[i] = snIn[i + 1]
          /\ Len(snIn) \in Nat \ {0}
          /\ Head(snIn) = fed + 1
      BY <1>3, <1>a, <1>c, <1>s, TailFacts DEF Sniff
    <2>2. fed' = fed + 1 /\ snHold' = fed + 1 /\ snHold = None /\ snOut' = snOut /\ nextSeq' = nextSeq
      BY <1>3, <2>1 DEF Sniff, dispVars
    <2>3. Popped' = Popped
      BY <1>a, <2>2 DEF Popped
    <2>4. ASSUME NEW i \in 1..Len(snIn') PROVE snIn'[i] = fed' + i
      BY <1>a, <1>c, <2>1, <2>2
    <2>5. fed' + Len(snIn') + 1 = nextSeq'
      BY <1>a, <1>b, <2>1, <2>2
    <2> QED BY <1>e, <1>f, <2>2, <2>3, <2>4, <2>5 DEF SnifferInv
  <1>4. CASE SnifferOut
    <2>1. snOut' = Append(snOut, snHold) /\ snHold = fed
      BY <1>4, <1>d DEF SnifferOut
    <2>2. snHold # None /\ snHold' = None /\ fed' = fed /\ snIn' = snIn /\ nextSeq' = nextSeq
      BY <1>4 DEF SnifferOut, dispVars
    <2>3. /\ Len(snOut') = Len(snOut) + 1
          /\ \A i \in 1..Len(snOut) : snOut'[i] = snOut[i]
          /\ snOut'[Len(snOut) + 1] = fed
      BY <1>a, <2>1, <1>s, AppendFacts
    <2>4. Popped' = Popped /\ fed = Popped + Len(snOut) + 1
      BY <1>a, <2>2, <2>3 DEF Popped
    <2>5. ASSUME NEW i \in 1..Len(snOut') PROVE snOut'[i] = Popped' + i
      <3>1. i \in 1..Len(snOut) \/ i = Len(snOut) + 1
        BY <1>a, <2>3
      <3> QED BY <1>a, <1>e, <1>f, <2>3, <2>4, <3>1
    <2> QED BY <1>b, <1>c, <1>e, <2>2, <2>4, <2>5 DEF SnifferInv
  <1>5. CASE UNCHANGED <<fed, snIn, snHold, snOut, nextSeq>>
    BY <1>b, <1>c, <1>d, <1>e, <1>f, <1>5 DEF SnifferInv, Popped
  <1> QED
    BY <1>1, <1>2, <1>3, <1>4, <1>5, FrameSniffer

\* Only these actions touch the number of the last write or the dispatcher's hand.
LEMMA FrameDispatcher ==
  ASSUME [Next]_vars
  PROVE  \/ WriteTakesSeq \/ Dispatch \/ RecvSniffed \/ ForwardToWriter \/ ForwardToReconciler
         \/ RecvWrite \/ BarrierRecvWrite
         \/ /\ UNCHANGED <<seq, cur, nextSeq, dispatchedSeq>>
            /\ dpc' = dpc \/ dpc' \in {"select", "barrier", "exit", "done"}
            /\ dpc' = dpc \/ dpc \in {"select", "barrier", "exit", "done"}
  BY DEF Next, DispatcherNext, SnifferNext, WriterNext, ReconcilerNext, SyncNext, ShutdownNext, vars,
     fuseVars, chanVars, dispVars, snVars, wVars, recVars, syncVars, WaitFor, AcceptWrite,
     WriteTakesSeq, SubmitWrite, FallbackSend, RecvWrite, RecvClosed, Dispatch, RecvSniffed,
     ForwardToWriter, ForwardToReconciler, RecvBarrier, BarrierRecvWrite, BarrierRecvClosed,
     SubmitBarrier, ExitLoop, Sniff, SnifferOut, SnifferEnds, WriterWrites, WriterSyncs,
     WriterEnds, Reconcile, ReconcilerEnds, SyncStart, SyncWaitsSenders, SyncSends,
     SyncInterrupt, Unmount, CloseWrites, SnifferWait, ReconcilerWait, PipelineWait,
     WriterWait, Stopped

\* How the counters that describe the dispatcher's forwarding move.
LEMMA CounterStep ==
  ASSUME IndInv, [Next]_vars
  PROVE  /\ Popped \in Nat /\ ToWriter \in Nat /\ ToReconciler \in Nat
         /\ Popped <= fed
         /\ Popped' = IF RecvSniffed THEN Popped + 1 ELSE Popped
         /\ ToWriter' = IF ForwardToWriter THEN ToWriter + 1 ELSE ToWriter
         /\ ForwardToWriter => cur = ToWriter + 1
         /\ ToReconciler' = IF ForwardToReconciler THEN ToReconciler + 1 ELSE ToReconciler
         /\ ForwardToReconciler => cur = ToReconciler + 1
  <1>a. /\ fed \in Nat /\ snHold \in Nat /\ cur \in Nat /\ Len(snIn) \in Nat /\ Len(snOut) \in Nat
    BY DEF IndInv, TypeOK
  <1>s. snOut \in Seq(Nat) /\ snIn \in Seq(Nat)
    BY DEF IndInv, TypeOK
  <1>b. Popped \in Nat /\ Popped <= fed
    BY <1>a DEF IndInv, SnifferInv, Popped
  <1>c. dpc \in {"toWriter", "toObserved"} => cur = Popped /\ cur > 0
    BY DEF IndInv, DispatcherInv
  <1>d. ToWriter \in Nat /\ ToReconciler \in Nat
    BY <1>a, <1>b, <1>c DEF ToWriter, ToReconciler
  <1>e. Popped' = IF RecvSniffed THEN Popped + 1 ELSE Popped
    <2>1. CASE RecvSniffed
      <3>1. Len(snOut') = Len(snOut) - 1
        BY <2>1, <1>s, TailFacts DEF RecvSniffed
      <3>2. fed' = fed /\ snHold' = snHold
        BY <2>1 DEF RecvSniffed
      <3> QED BY <2>1, <1>a, <3>1, <3>2 DEF Popped
    <2>2. CASE Sniff
      <3>1. Head(snIn) = fed + 1
        <4>1. Len(snIn) \in Nat \ {0} /\ Head(snIn) = snIn[1]
          BY <2>2, <1>s, TailFacts DEF Sniff
        <4> QED BY <1>a, <4>1 DEF IndInv, SnifferInv
      <3>2. fed' = fed + 1 /\ snHold' = fed + 1 /\ snHold = None /\ snOut' = snOut
        BY <2>2, <3>1 DEF Sniff
      <3>3. ~RecvSniffed
        BY <1>a, <3>2 DEF RecvSniffed
      <3> QED BY <1>a, <3>2, <3>3 DEF Popped, None
    <2>3. CASE SnifferOut
      <3>1. snOut' = Append(snOut, snHold)
        BY <2>3 DEF SnifferOut
      <3>2. Len(snOut') = Len(snOut) + 1
        BY <1>s, <1>a, <3>1, AppendFacts
      <3>3. fed' = fed /\ snHold # None /\ snHold' = None
        BY <2>3 DEF SnifferOut
      <3>4. ~RecvSniffed
        BY <3>3 DEF RecvSniffed
      <3> QED BY <1>a, <3>2, <3>3, <3>4 DEF Popped
    <2>4. CASE Dispatch
      BY <2>4 DEF Dispatch, RecvSniffed, Popped
    <2>5. CASE ~RecvSniffed /\ UNCHANGED <<fed, snIn, snHold, snOut, nextSeq>>
      BY <2>5 DEF Popped
    <2> QED BY <2>1, <2>2, <2>3, <2>4, <2>5, FrameSniffer
  <1>f. /\ ToWriter' = IF ForwardToWriter THEN ToWriter + 1 ELSE ToWriter
        /\ ForwardToWriter => cur = ToWriter + 1
        /\ ToReconciler' = IF ForwardToReconciler THEN ToReconciler + 1 ELSE ToReconciler
        /\ ForwardToReconciler => cur = ToReconciler + 1
    <2>1. CASE RecvSniffed
      BY <2>1, <1>b, <1>e DEF RecvSniffed, ForwardToWriter, ForwardToReconciler, ToWriter, ToReconciler
    <2>2. CASE ForwardToWriter
      BY <2>2, <1>b, <1>c, <1>e DEF RecvSniffed, ForwardToWriter, ForwardToReconciler, ToWriter, ToReconciler
    <2>3. CASE ForwardToReconciler
      BY <2>3, <1>b, <1>c, <1>e DEF RecvSniffed, ForwardToWriter, ForwardToReconciler, ToWriter, ToReconciler
    <2>4. CASE /\ ~RecvSniffed /\ ~ForwardToWriter /\ ~ForwardToReconciler
               /\ \/ dpc' = dpc
                  \/ dpc' \notin {"toWriter", "toObserved"} /\ dpc \notin {"toWriter", "toObserved"}
      BY <2>4, <1>b, <1>e DEF ToWriter, ToReconciler
    <2>5. CASE /\ ~RecvSniffed /\ ~ForwardToWriter /\ ~ForwardToReconciler
               /\ WriteTakesSeq \/ RecvWrite \/ BarrierRecvWrite
      BY <2>4, <2>5 DEF WriteTakesSeq, RecvWrite, BarrierRecvWrite, AcceptWrite, dispVars
    <2>6. CASE /\ ~RecvSniffed /\ ~ForwardToWriter /\ ~ForwardToReconciler /\ Dispatch
      BY <2>4, <2>6 DEF Dispatch, IndInv, TypeOK
    <2> QED BY <2>1, <2>2, <2>3, <2>4, <2>5, <2>6, FrameDispatcher
  <1> QED BY <1>b, <1>d, <1>e, <1>f

\* Every step keeps the dispatcher's counters in step.
LEMMA DispatcherStep == ASSUME IndInv, [Next]_vars PROVE DispatcherInv'
  <1>a. seq \in Nat /\ cur \in Nat /\ nextSeq \in Nat /\ dispatchedSeq \in Nat
    BY DEF IndInv, TypeOK
  <1>b. DispatcherInv
    BY DEF IndInv
  <1>c. Popped \in Nat /\ Popped <= fed /\ Popped' = IF RecvSniffed THEN Popped + 1 ELSE Popped
    BY CounterStep
  <1>d. fed < nextSeq
    BY DEF IndInv, TypeOK, SnifferInv
  <1>1. CASE WriteTakesSeq
    <2>1. seq' = seq + 1 /\ UNCHANGED <<dpc, cur, nextSeq, dispatchedSeq>>
      BY <1>1 DEF WriteTakesSeq, dispVars
    <2>2. ~RecvSniffed
      BY <1>1 DEF WriteTakesSeq, RecvSniffed, fuseVars, snVars
    <2> QED BY <1>a, <1>b, <1>c, <2>1, <2>2 DEF DispatcherInv
  <1>2. CASE Dispatch
    <2>1. /\ dispatchedSeq' = cur /\ nextSeq' = nextSeq + 1 /\ seq' = seq
          /\ \/ nextSeq + 1 \in pending /\ cur' = nextSeq + 1 /\ dpc' = "dispatch"
             \/ dpc' \in {"select", "barrier"}
      BY <1>2 DEF Dispatch, fuseVars, IndInv, TypeOK
    <2>2. nextSeq + 1 \in pending => nextSeq + 1 <= seq
      BY DEF IndInv, AccountedInv
    <2>3. cur = nextSeq /\ nextSeq <= seq
      BY <1>2, <1>b DEF Dispatch, DispatcherInv
    <2> QED BY <1>a, <2>1, <2>2, <2>3 DEF DispatcherInv
  <1>3. CASE RecvSniffed
    <2>1. Len(snOut) \in Nat \ {0} /\ cur' = snOut[1]
      BY <1>3, TailFacts DEF RecvSniffed, IndInv, TypeOK
    <2>2. cur' = Popped + 1
      BY <2>1 DEF IndInv, SnifferInv
    <2>3. dpc' = "toWriter" /\ UNCHANGED <<seq, nextSeq, dispatchedSeq>>
      BY <1>3 DEF RecvSniffed, fuseVars
    <2> QED BY <1>3, <1>a, <1>b, <1>c, <2>2, <2>3 DEF DispatcherInv
  <1>4. CASE ForwardToWriter
    <2>1. /\ dpc = "toWriter" /\ dpc' = "toObserved"
          /\ UNCHANGED <<seq, cur, nextSeq, dispatchedSeq>>
      BY <1>4 DEF ForwardToWriter, fuseVars
    <2>2. ~RecvSniffed
      BY <2>1 DEF RecvSniffed
    <2> QED BY <1>b, <1>c, <2>1, <2>2 DEF DispatcherInv
  <1>5. CASE ForwardToReconciler
    <2>1. /\ dpc = "toObserved" /\ dpc' = "select" /\ dispatchedSeq' = cur
          /\ UNCHANGED <<seq, cur, nextSeq>>
      BY <1>5 DEF ForwardToReconciler, fuseVars
    <2>2. cur < nextSeq
      BY <1>a, <1>b, <1>c, <1>d, <2>1 DEF DispatcherInv, IndInv, TypeOK
    <2> QED BY <1>b, <2>1, <2>2 DEF DispatcherInv
  <1>6. CASE RecvWrite \/ BarrierRecvWrite
    <2>1. writes # <<>> /\ seq' = seq
      BY <1>6 DEF RecvWrite, BarrierRecvWrite, fuseVars
    <2>2. Head(writes) <= seq
      <3>1. Len(writes) \in Nat \ {0} /\ Head(writes) = writes[1]
        BY <2>1, TailFacts DEF IndInv, TypeOK
      <3> QED BY <3>1 DEF IndInv, AccountedInv
    <2>3. /\ \/ Head(writes) = nextSeq /\ dpc' = "dispatch" /\ cur' = nextSeq
             \/ dpc' \in {"select", "barrier"}
          /\ UNCHANGED <<nextSeq, dispatchedSeq>>
      BY <1>6 DEF RecvWrite, BarrierRecvWrite, AcceptWrite
    <2> QED BY <1>b, <2>1, <2>2, <2>3 DEF DispatcherInv
  <1>7. CASE /\ UNCHANGED <<seq, cur, nextSeq, dispatchedSeq>>
             /\ dpc' = dpc \/ dpc' \in {"select", "barrier", "exit", "done"}
             /\ ~RecvSniffed
    BY <1>7, <1>b, <1>c DEF DispatcherInv
  <1> QED BY <1>1, <1>2, <1>3, <1>4, <1>5, <1>6, <1>7, FrameDispatcher

\* Only three actions touch writer.in.
LEMMA FrameWriter ==
  ASSUME [Next]_vars
  PROVE  ForwardToWriter \/ SubmitBarrier \/ WriterWrites \/ WriterSyncs
         \/ UNCHANGED <<wIn, written>>
  BY DEF Next, DispatcherNext, SnifferNext, WriterNext, ReconcilerNext, SyncNext, ShutdownNext, vars,
     fuseVars, chanVars, dispVars, snVars, wVars, recVars, syncVars, WaitFor, AcceptWrite,
     WriteTakesSeq, SubmitWrite, FallbackSend, RecvWrite, RecvClosed, Dispatch, RecvSniffed,
     ForwardToWriter, ForwardToReconciler, RecvBarrier, BarrierRecvWrite, BarrierRecvClosed,
     SubmitBarrier, ExitLoop, Sniff, SnifferOut, SnifferEnds, WriterWrites, WriterSyncs,
     WriterEnds, Reconcile, ReconcilerEnds, SyncStart, SyncWaitsSenders, SyncSends,
     SyncInterrupt, Unmount, CloseWrites, SnifferWait, ReconcilerWait, PipelineWait,
     WriterWait, Stopped

\* Every step keeps writer.in a gapless ascending stream.
LEMMA WriterStep == ASSUME IndInv, [Next]_vars PROVE WriterInv'
  <1>a. written \in Nat /\ ToWriter \in Nat /\ Len(wIn) \in Nat
    BY CounterStep DEF IndInv, TypeOK
  <1>s. wIn \in Seq(Command)
    BY DEF IndInv, TypeOK
  <1>t. ASSUME NEW i \in 1..Len(wIn) PROVE wIn[i].seq \in Nat
    <2>1. wIn[i] \in Command
      BY <1>s
    <2> QED BY <2>1 DEF Command
  <1>b. WriterInv
    BY DEF IndInv
  <1>c. /\ ToWriter' = IF ForwardToWriter THEN ToWriter + 1 ELSE ToWriter
        /\ ForwardToWriter => cur = ToWriter + 1
    BY CounterStep
  <1>1. CASE ForwardToWriter
    <2> DEFINE new == [kind |-> "write", seq |-> cur, req |-> None]
    <2>1. wIn' = Append(wIn, new) /\ written' = written
      BY <1>1 DEF ForwardToWriter
    <2>2. new \in Command
      BY DEF Command, None, IndInv, TypeOK
    <2>3. /\ Len(wIn') = Len(wIn) + 1
          /\ \A i \in 1..Len(wIn) : wIn'[i] = wIn[i]
          /\ wIn'[Len(wIn) + 1] = new
      BY <1>s, <2>1, <2>2, AppendFacts
    <2>4. new.kind = "write" /\ new.seq = ToWriter + 1 /\ ToWriter' = ToWriter + 1
      BY <1>1, <1>c
    <2> HIDE DEF new
    <2>5. \A i \in 1..Len(wIn') : i \in 1..Len(wIn) \/ i = Len(wIn) + 1
      BY <1>a, <2>3
    <2>6. ASSUME NEW i \in 1..Len(wIn'), wIn'[i].kind = "write"
          PROVE  wIn'[i].seq > written' /\ wIn'[i].seq <= ToWriter'
      <3>1. CASE i \in 1..Len(wIn)
        <4>1. wIn[i].seq > written /\ wIn[i].seq <= ToWriter
          BY <3>1, <2>3, <2>6, <1>b DEF WriterInv
        <4>2. wIn[i].seq \in Nat
          BY <3>1, <1>t
        <4> QED BY <3>1, <1>a, <2>1, <2>3, <2>4, <4>1, <4>2
      <3>2. CASE i = Len(wIn) + 1
        BY <3>2, <1>a, <1>b, <2>1, <2>3, <2>4 DEF WriterInv
      <3> QED BY <2>5, <3>1, <3>2
    <2>7. ASSUME NEW i \in 1..Len(wIn'), NEW j \in 1..Len(wIn'),
                 i < j, wIn'[i].kind = "write", wIn'[j].kind = "write"
          PROVE  wIn'[i].seq < wIn'[j].seq
      <3>1. i \in 1..Len(wIn)
        BY <1>a, <2>3, <2>7
      <3>2. CASE j \in 1..Len(wIn)
        BY <3>1, <3>2, <1>b, <2>3, <2>7 DEF WriterInv
      <3>3. CASE j = Len(wIn) + 1
        <4>1. wIn[i].seq <= ToWriter /\ wIn[i].seq \in Nat
          BY <3>1, <2>3, <2>7, <1>b, <1>t DEF WriterInv
        <4> QED BY <3>1, <3>3, <4>1, <1>a, <2>3, <2>4
      <3> QED BY <2>5, <3>2, <3>3
    <2>8. ASSUME NEW n \in Nat, written' < n, n <= ToWriter'
          PROVE  \E i \in 1..Len(wIn') : wIn'[i].kind = "write" /\ wIn'[i].seq = n
      <3>1. CASE n <= ToWriter
        <4>1. PICK i \in 1..Len(wIn) : wIn[i].kind = "write" /\ wIn[i].seq = n
          BY <3>1, <2>1, <2>8, <1>b DEF WriterInv
        <4>2. i \in 1..Len(wIn')
          BY <1>a, <2>3
        <4> QED BY <2>3, <4>1, <4>2
      <3>2. CASE n = ToWriter + 1
        <4>1. Len(wIn) + 1 \in 1..Len(wIn')
          BY <1>a, <2>3
        <4> QED BY <3>2, <2>3, <2>4, <4>1
      <3> QED BY <1>a, <2>4, <2>8, <3>1, <3>2
    <2>9. written' <= ToWriter'
      BY <1>a, <1>b, <2>1, <2>4 DEF WriterInv
    <2> QED BY <2>6, <2>7, <2>8, <2>9 DEF WriterInv
  <1>2. CASE SubmitBarrier
    <2> DEFINE new == [kind |-> "barrier", seq |-> None, req |-> breq]
    <2>1. wIn' = Append(wIn, new) /\ written' = written /\ ~ForwardToWriter
      BY <1>2 DEF SubmitBarrier, ForwardToWriter
    <2>2. new \in Command
      BY DEF Command, None, IndInv, TypeOK
    <2>3. /\ Len(wIn') = Len(wIn) + 1
          /\ \A i \in 1..Len(wIn) : wIn'[i] = wIn[i]
          /\ wIn'[Len(wIn) + 1] = new
      BY <1>s, <2>1, <2>2, AppendFacts
    <2>4. new.kind # "write" /\ ToWriter' = ToWriter
      BY <1>c, <2>1
    <2> HIDE DEF new
    <2>5. \A i \in 1..Len(wIn') : wIn'[i].kind = "write" => i \in 1..Len(wIn)
      BY <1>a, <2>3, <2>4
    <2>6. \A i \in 1..Len(wIn) : i \in 1..Len(wIn')
      BY <1>a, <2>3
    <2> QED BY <1>b, <2>1, <2>3, <2>4, <2>5, <2>6 DEF WriterInv
  <1>3. CASE WriterWrites \/ WriterSyncs
    <2>1. wIn # <<>> /\ wIn' = Tail(wIn) /\ ToWriter' = ToWriter
      <3>1. UNCHANGED dispVars /\ wIn' = Tail(wIn) /\ wIn # <<>>
        BY <1>3 DEF WriterWrites, WriterSyncs
      <3>2. ~ForwardToWriter
        BY <3>1 DEF ForwardToWriter, dispVars
      <3> QED BY <3>1, <3>2, <1>c
    <2>2. /\ Len(wIn) \in Nat \ {0} /\ Len(wIn') = Len(wIn) - 1
          /\ \A i \in 1..(Len(wIn) - 1) : wIn'[i] = wIn[i + 1]
          /\ Head(wIn) = wIn[1]
      BY <1>s, <2>1, TailFacts
    <2>3. wIn[1].seq \in Nat
      BY <1>a, <1>t, <2>2
    <2>4. \A i \in 1..Len(wIn') : i + 1 \in 1..Len(wIn) /\ wIn'[i] = wIn[i + 1]
      BY <1>a, <2>2
    <2>5. /\ written' \in Nat /\ written' >= written /\ written' <= ToWriter
          /\ \A i \in 1..Len(wIn') : wIn'[i].kind = "write" => wIn'[i].seq > written'
          /\ \A n \in Nat : written' < n /\ n <= ToWriter =>
                (wIn[1].kind = "write" => wIn[1].seq # n)
      <3>1. CASE WriterWrites
        <4>1. written' = wIn[1].seq /\ wIn[1].kind = "write"
          BY <3>1, <2>2 DEF WriterWrites
        <4>2. written' > written /\ written' <= ToWriter
          BY <4>1, <1>b, <2>2 DEF WriterInv
        <4>3. ASSUME NEW i \in 1..Len(wIn'), wIn'[i].kind = "write"
              PROVE  wIn'[i].seq > written'
          <5>1. i + 1 \in 1..Len(wIn) /\ wIn'[i] = wIn[i + 1] /\ 1 < i + 1 /\ 1 \in 1..Len(wIn)
            BY <1>a, <2>4, <2>2
          <5>2. wIn[1].seq < wIn[i + 1].seq
            BY <5>1, <4>1, <4>3, <1>b DEF WriterInv
          <5>3. wIn[i + 1].seq \in Nat
            BY <5>1, <1>t
          <5> QED BY <5>1, <5>2, <5>3, <4>1, <2>3
        <4> QED BY <4>1, <4>2, <4>3, <2>3, <1>a
      <3>2. CASE WriterSyncs
        <4>1. written' = written /\ wIn[1].kind # "write"
          BY <3>2, <2>2 DEF WriterSyncs
        <4>2. \A i \in 1..Len(wIn') : wIn'[i].kind = "write" => wIn'[i].seq > written'
          BY <4>1, <2>4, <1>b DEF WriterInv
        <4>3. written <= ToWriter
          BY <1>b DEF WriterInv
        <4> QED BY <4>1, <4>2, <4>3, <1>a
      <3> QED BY <1>3, <3>1, <3>2
    <2>6. \A i \in 1..Len(wIn') : wIn'[i].kind = "write" => wIn'[i].seq <= ToWriter
      BY <2>4, <1>b DEF WriterInv
    <2>7. ASSUME NEW i \in 1..Len(wIn'), NEW j \in 1..Len(wIn'),
                 i < j, wIn'[i].kind = "write", wIn'[j].kind = "write"
          PROVE  wIn'[i].seq < wIn'[j].seq
      <3>1. i + 1 < j + 1
        BY <2>7, <1>a, <2>2
      <3> QED BY <3>1, <2>4, <2>7, <1>b DEF WriterInv
    <2>8. ASSUME NEW n \in Nat, written' < n, n <= ToWriter
          PROVE  \E i \in 1..Len(wIn') : wIn'[i].kind = "write" /\ wIn'[i].seq = n
      <3>1. written < n
        BY <1>a, <2>5, <2>8
      <3>2. PICK i \in 1..Len(wIn) : wIn[i].kind = "write" /\ wIn[i].seq = n
        BY <3>1, <2>8, <1>b DEF WriterInv
      <3>3. i # 1
        BY <3>2, <2>5, <2>8
      <3>4. i - 1 \in 1..Len(wIn') /\ wIn'[i - 1] = wIn[i]
        BY <3>3, <1>a, <2>2
      <3> QED BY <3>2, <3>4
    <2> QED BY <2>1, <2>5, <2>6, <2>7, <2>8 DEF WriterInv
  <1>4. CASE UNCHANGED <<wIn, written>> /\ ~ForwardToWriter
    BY <1>4, <1>b, <1>c DEF WriterInv
  <1> QED BY <1>1, <1>2, <1>3, <1>4, FrameWriter

\* Only two actions touch p.observed.
LEMMA FrameReconciler ==
  ASSUME [Next]_vars
  PROVE  ForwardToReconciler \/ Reconcile \/ UNCHANGED <<observed, reconciled>>
  BY DEF Next, DispatcherNext, SnifferNext, WriterNext, ReconcilerNext, SyncNext, ShutdownNext, vars,
     fuseVars, chanVars, dispVars, snVars, wVars, recVars, syncVars, WaitFor, AcceptWrite,
     WriteTakesSeq, SubmitWrite, FallbackSend, RecvWrite, RecvClosed, Dispatch, RecvSniffed,
     ForwardToWriter, ForwardToReconciler, RecvBarrier, BarrierRecvWrite, BarrierRecvClosed,
     SubmitBarrier, ExitLoop, Sniff, SnifferOut, SnifferEnds, WriterWrites, WriterSyncs,
     WriterEnds, Reconcile, ReconcilerEnds, SyncStart, SyncWaitsSenders, SyncSends,
     SyncInterrupt, Unmount, CloseWrites, SnifferWait, ReconcilerWait, PipelineWait,
     WriterWait, Stopped

\* Every step keeps p.observed consecutive.
LEMMA ReconcilerStep == ASSUME IndInv, [Next]_vars PROVE ReconcilerInv'
  <1>a. reconciled \in Nat /\ ToReconciler \in Nat /\ Len(observed) \in Nat /\ cur \in Nat
    BY CounterStep DEF IndInv, TypeOK
  <1>s. observed \in Seq(Nat)
    BY DEF IndInv, TypeOK
  <1>b. reconciled + Len(observed) = ToReconciler
    BY DEF IndInv, ReconcilerInv
  <1>c. \A i \in 1..Len(observed) : observed[i] = reconciled + i
    BY DEF IndInv, ReconcilerInv
  <1>d. /\ ToReconciler' = IF ForwardToReconciler THEN ToReconciler + 1 ELSE ToReconciler
        /\ ForwardToReconciler => cur = ToReconciler + 1
    BY CounterStep
  <1>1. CASE ForwardToReconciler
    <2>1. observed' = Append(observed, cur)
      BY <1>1 DEF ForwardToReconciler
    <2>2. reconciled' = reconciled
      BY <1>1 DEF ForwardToReconciler
    <2>3. /\ Len(observed') = Len(observed) + 1
          /\ \A i \in 1..Len(observed) : observed'[i] = observed[i]
          /\ observed'[Len(observed) + 1] = cur
      BY <1>a, <1>s, <2>1, AppendFacts
    <2>4. reconciled' + Len(observed') = ToReconciler'
      BY <1>1, <1>a, <1>b, <1>d, <2>2, <2>3
    <2>5. ASSUME NEW i \in 1..Len(observed') PROVE observed'[i] = reconciled' + i
      <3>1. i \in 1..Len(observed) \/ i = Len(observed) + 1
        BY <1>a, <2>3
      <3> QED BY <1>1, <1>a, <1>b, <1>c, <1>d, <2>2, <2>3, <3>1
    <2> QED BY <2>4, <2>5 DEF ReconcilerInv
  <1>2. CASE Reconcile
    <2>1. /\ Len(observed) \in Nat \ {0} /\ Len(observed') = Len(observed) - 1
          /\ \A i \in 1..(Len(observed) - 1) : observed'[i] = observed[i + 1]
          /\ Head(observed) = observed[1]
      BY <1>2, <1>s, TailFacts DEF Reconcile
    <2>2. reconciled' = reconciled + 1
      BY <1>2, <1>c, <2>1 DEF Reconcile
    <2>3. ~ForwardToReconciler
      BY <1>2 DEF Reconcile, ForwardToReconciler, dispVars
    <2>4. reconciled' + Len(observed') = ToReconciler'
      <3>1. ToReconciler' = ToReconciler /\ Len(observed') = Len(observed) - 1
        BY <1>d, <2>1, <2>3
      <3> QED BY <1>a, <1>b, <2>2, <3>1
    <2>5. ASSUME NEW i \in 1..Len(observed') PROVE observed'[i] = reconciled' + i
      BY <1>a, <1>c, <2>1, <2>2
    <2> QED BY <2>4, <2>5 DEF ReconcilerInv
  <1>3. CASE UNCHANGED <<observed, reconciled>> /\ ~ForwardToReconciler
    BY <1>3, <1>b, <1>c, <1>d DEF ReconcilerInv
  <1> QED BY <1>1, <1>2, <1>3, FrameReconciler

\* Only these actions touch the places where a write waits for its dispatch.
LEMMA FrameAccounted ==
  ASSUME [Next]_vars
  PROVE  \/ WriteTakesSeq \/ SubmitWrite \/ (\E n \in fallback : FallbackSend(n))
         \/ RecvWrite \/ BarrierRecvWrite \/ Dispatch
         \/ /\ UNCHANGED <<seq, fuse, fallback, writes, pending, nextSeq>>
            /\ dpc # "dispatch" \/ UNCHANGED <<dpc, cur>>
  BY DEF Next, DispatcherNext, SnifferNext, WriterNext, ReconcilerNext, SyncNext, ShutdownNext, vars,
     fuseVars, chanVars, dispVars, snVars, wVars, recVars, syncVars, WaitFor, AcceptWrite,
     WriteTakesSeq, SubmitWrite, FallbackSend, RecvWrite, RecvClosed, Dispatch, RecvSniffed,
     ForwardToWriter, ForwardToReconciler, RecvBarrier, BarrierRecvWrite, BarrierRecvClosed,
     SubmitBarrier, ExitLoop, Sniff, SnifferOut, SnifferEnds, WriterWrites, WriterSyncs,
     WriterEnds, Reconcile, ReconcilerEnds, SyncStart, SyncWaitsSenders, SyncSends,
     SyncInterrupt, Unmount, CloseWrites, SnifferWait, ReconcilerWait, PipelineWait,
     WriterWait, Stopped

\* No step loses a write that waits for its dispatch.
LEMMA AccountedStep == ASSUME IndInv, [Next]_vars PROVE AccountedInv'
  <1>a. /\ seq \in Nat /\ nextSeq \in Nat /\ cur \in Nat /\ Len(writes) \in Nat
        /\ fallback \in SUBSET Nat /\ pending \in SUBSET Nat
    BY DEF IndInv, TypeOK
  <1>s. writes \in Seq(Nat)
    BY DEF IndInv, TypeOK
  <1>t. ASSUME NEW i \in 1..Len(writes) PROVE writes[i] \in Nat
    BY <1>s
  <1>b. \A n \in Nat : nextSeq <= n /\ n <= seq => Waiting(n)
    BY DEF IndInv, AccountedInv
  <1>c. \A n \in fallback : n <= seq
    BY DEF IndInv, AccountedInv
  <1>d. \A i \in 1..Len(writes) : writes[i] <= seq
    BY DEF IndInv, AccountedInv
  <1>e. \A n \in pending : nextSeq < n /\ n <= seq
    BY DEF IndInv, AccountedInv
  <1>1. CASE WriteTakesSeq
    <2>1. /\ fuse = "idle" /\ fuse' = "submit" /\ seq' = seq + 1
          /\ UNCHANGED <<fallback, writes, pending, nextSeq, dpc, cur>>
      BY <1>1 DEF WriteTakesSeq, chanVars, dispVars
    <2>2. ASSUME NEW n \in Nat, nextSeq' <= n, n <= seq' PROVE Waiting(n)'
      <3>1. CASE n <= seq
        BY <3>1, <2>1, <2>2, <1>b DEF Waiting
      <3>2. CASE n = seq + 1
        BY <3>2, <2>1 DEF Waiting
      <3> QED BY <3>1, <3>2, <1>a, <2>1, <2>2
    <2>3. /\ \A n \in fallback' : n <= seq'
          /\ \A i \in 1..Len(writes') : writes'[i] <= seq'
      <3>1. \A n \in Nat : n <= seq => n <= seq'
        BY <1>a, <2>1
      <3> QED BY <3>1, <1>a, <1>c, <1>d, <1>t, <2>1
    <2>4. \A n \in pending' : nextSeq' < n /\ n <= seq'
      BY <1>a, <1>e, <2>1
    <2> QED BY <2>2, <2>3, <2>4 DEF AccountedInv
  <1>2. CASE SubmitWrite
    <2>1. /\ fuse = "submit" /\ fuse' = "idle"
          /\ UNCHANGED <<seq, pending, nextSeq, dpc, cur>>
          /\ \/ writes' = Append(writes, seq) /\ fallback' = fallback
             \/ writes' = writes /\ fallback' = fallback \cup {seq}
      BY <1>2 DEF SubmitWrite, dispVars
    <2>2. CASE writes' = Append(writes, seq) /\ fallback' = fallback
      <3>1. /\ Len(writes') = Len(writes) + 1
            /\ \A i \in 1..Len(writes) : writes'[i] = writes[i]
            /\ writes'[Len(writes) + 1] = seq
        BY <1>a, <1>s, <2>2, AppendFacts
      <3>2. /\ \A i \in 1..Len(writes) : i \in 1..Len(writes')
            /\ Len(writes) + 1 \in 1..Len(writes')
            /\ \A i \in 1..Len(writes') : i \in 1..Len(writes) \/ i = Len(writes) + 1
        BY <1>a, <3>1
      <3>3. ASSUME NEW n \in Nat, nextSeq' <= n, n <= seq' PROVE Waiting(n)'
        <4>1. Waiting(n)
          BY <1>b, <2>1, <3>3
        <4> QED BY <4>1, <2>1, <2>2, <3>1, <3>2 DEF Waiting
      <3>4. \A i \in 1..Len(writes') : writes'[i] <= seq'
        BY <1>a, <1>d, <2>1, <3>1, <3>2
      <3> QED BY <1>c, <1>e, <2>1, <2>2, <3>3, <3>4 DEF AccountedInv
    <2>3. CASE writes' = writes /\ fallback' = fallback \cup {seq}
      <3>1. ASSUME NEW n \in Nat, nextSeq' <= n, n <= seq' PROVE Waiting(n)'
        <4>1. Waiting(n)
          BY <1>b, <2>1, <3>1
        <4> QED BY <4>1, <2>1, <2>3 DEF Waiting
      <3>2. \A n \in fallback' : n <= seq'
        BY <1>a, <1>c, <2>1, <2>3
      <3> QED BY <1>d, <1>e, <2>1, <2>3, <3>1, <3>2 DEF AccountedInv
    <2> QED BY <2>1, <2>2, <2>3
  <1>3. ASSUME NEW m \in fallback, FallbackSend(m) PROVE AccountedInv'
    <2>1. /\ UNCHANGED <<seq, fuse, pending, nextSeq, dpc, cur>>
          /\ fallback' = fallback \ {m}
      BY <1>3 DEF FallbackSend, dispVars
    <2>2. m \in Nat /\ m <= seq /\ writes' = Append(writes, m)
      BY <1>3, <1>a, <1>c DEF FallbackSend
    <2>3. /\ Len(writes') = Len(writes) + 1
          /\ \A i \in 1..Len(writes) : writes'[i] = writes[i]
          /\ writes'[Len(writes) + 1] = m
      BY <1>s, <2>2, AppendFacts
    <2>4. /\ \A i \in 1..Len(writes) : i \in 1..Len(writes')
          /\ Len(writes) + 1 \in 1..Len(writes')
          /\ \A i \in 1..Len(writes') : i \in 1..Len(writes) \/ i = Len(writes) + 1
      BY <1>a, <2>3
    <2>5. ASSUME NEW n \in Nat, nextSeq' <= n, n <= seq' PROVE Waiting(n)'
      <3>1. Waiting(n)
        BY <1>b, <2>1, <2>5
      <3> QED BY <3>1, <2>1, <2>3, <2>4 DEF Waiting
    <2>6. \A i \in 1..Len(writes') : writes'[i] <= seq'
      BY <1>a, <1>d, <2>1, <2>2, <2>3, <2>4
    <2> QED BY <1>c, <1>e, <2>1, <2>5, <2>6 DEF AccountedInv
  <1>4. CASE RecvWrite \/ BarrierRecvWrite
    <2> DEFINE m == Head(writes)
    <2>1. /\ dpc # "dispatch" /\ writes # <<>> /\ writes' = Tail(writes)
          /\ UNCHANGED <<seq, fuse, fallback, nextSeq>>
          /\ m = nextSeq => dpc' = "dispatch" /\ cur' = m
          /\ m # nextSeq => dpc' # "dispatch"
          /\ pending' = IF m > nextSeq THEN pending \cup {m} ELSE pending
      BY <1>4 DEF RecvWrite, BarrierRecvWrite, AcceptWrite, fuseVars
    <2>2. /\ m = writes[1] /\ m \in Nat
          /\ Len(writes) \in Nat \ {0} /\ Len(writes') = Len(writes) - 1
          /\ \A i \in 1..(Len(writes) - 1) : writes'[i] = writes[i + 1]
      BY <1>s, <2>1, TailFacts
    <2>3. m <= seq
      BY <1>d, <2>2
    <2> HIDE DEF m
    <2>4. /\ \A i \in 1..Len(writes) : i = 1 \/ (i - 1 \in 1..Len(writes') /\ writes'[i - 1] = writes[i])
          /\ \A i \in 1..Len(writes') : i + 1 \in 1..Len(writes) /\ writes'[i] = writes[i + 1]
      BY <1>a, <2>2
    <2>5. ASSUME NEW n \in Nat, nextSeq' <= n, n <= seq' PROVE Waiting(n)'
      <3>1. Waiting(n) /\ nextSeq <= n
        BY <1>b, <2>1, <2>5
      <3>2. CASE n = m
        <4>1. CASE n = nextSeq
          BY <3>2, <4>1, <2>1 DEF Waiting
        <4>2. CASE n > nextSeq
          BY <3>2, <4>2, <2>1 DEF Waiting
        <4> QED BY <4>1, <4>2, <3>1, <1>a
      <3>3. CASE n # m
        <4>1. \/ fuse = "submit" /\ n = seq
              \/ n \in fallback
              \/ \E i \in 1..Len(writes) : writes[i] = n
              \/ n \in pending
          BY <3>1, <2>1 DEF Waiting
        <4>2. CASE \E i \in 1..Len(writes) : writes[i] = n
          <5>1. PICK i \in 1..Len(writes) : writes[i] = n
            BY <4>2
          <5>2. i # 1
            BY <5>1, <3>3, <2>2
          <5> QED BY <5>1, <5>2, <2>4 DEF Waiting
        <4>3. CASE (fuse = "submit" /\ n = seq) \/ n \in fallback \/ n \in pending
          BY <4>3, <2>1 DEF Waiting
        <4> QED BY <4>1, <4>2, <4>3
      <3> QED BY <3>2, <3>3
    <2>6. \A i \in 1..Len(writes') : writes'[i] <= seq'
      BY <1>d, <2>1, <2>4
    <2>7. \A n \in pending' : nextSeq' < n /\ n <= seq'
      BY <1>a, <1>e, <2>1, <2>2, <2>3
    <2> QED BY <1>c, <2>1, <2>5, <2>6, <2>7 DEF AccountedInv
  <1>5. CASE Dispatch
    <2>1. /\ dpc = "dispatch" /\ nextSeq' = nextSeq + 1
          /\ UNCHANGED <<seq, fuse, fallback, writes>>
          /\ nextSeq + 1 \in pending =>
                /\ dpc' = "dispatch" /\ cur' = nextSeq + 1
                /\ pending' = pending \ {nextSeq + 1}
          /\ nextSeq + 1 \notin pending => pending' = pending
      BY <1>5 DEF Dispatch, fuseVars, chanVars
    <2>2. cur = nextSeq
      BY <2>1 DEF IndInv, DispatcherInv
    <2>3. ASSUME NEW n \in Nat, nextSeq' <= n, n <= seq' PROVE Waiting(n)'
      <3>1. Waiting(n) /\ n # cur
        BY <1>a, <1>b, <2>1, <2>2, <2>3
      <3>2. CASE n \in pending
        <4>1. CASE n = nextSeq + 1
          BY <3>2, <4>1, <2>1 DEF Waiting
        <4>2. CASE n # nextSeq + 1
          BY <3>2, <4>2, <2>1 DEF Waiting
        <4> QED BY <4>1, <4>2
      <3>3. CASE n \notin pending
        BY <3>1, <3>3, <2>1 DEF Waiting
      <3> QED BY <3>2, <3>3
    <2>4. ASSUME NEW n \in pending' PROVE nextSeq' < n /\ n <= seq'
      <3>1. n \in pending /\ n # nextSeq + 1
        BY <2>1
      <3>2. n \in Nat /\ nextSeq < n /\ n <= seq
        BY <3>1, <1>a, <1>e
      <3> QED BY <1>a, <2>1, <3>1, <3>2
    <2> QED BY <1>c, <1>d, <2>1, <2>3, <2>4 DEF AccountedInv
  <1>6. CASE /\ UNCHANGED <<seq, fuse, fallback, writes, pending, nextSeq>>
             /\ dpc # "dispatch" \/ UNCHANGED <<dpc, cur>>
    <2>1. \A n \in Nat : Waiting(n) => Waiting(n)'
      BY <1>6 DEF Waiting
    <2> QED BY <1>6, <2>1, <1>b, <1>c, <1>d, <1>e DEF AccountedInv
  <1> QED BY <1>1, <1>2, <1>3, <1>4, <1>5, <1>6, FrameAccounted

\* When p.writes is closed and drained, every write has been dispatched.
LEMMA DrainedMeansDispatched ==
  ASSUME IndInv, writesClosed, writes = <<>>, dpc \in {"select", "barrier"}
  PROVE  nextSeq = seq + 1
  <1>1. fallback = {} /\ fuse = "idle"
    BY DEF IndInv, ShutdownInv
  <1>2. seq \in Nat /\ nextSeq \in Nat /\ Len(writes) = 0
    BY DEF IndInv, TypeOK
  <1>3. nextSeq <= seq + 1
    BY DEF IndInv, DispatcherInv
  <1>4. ~(nextSeq <= seq)
    <2>1. ~Waiting(nextSeq)
      <3>1. nextSeq \notin pending
        BY <1>2 DEF IndInv, AccountedInv
      <3>2. \A i \in 1..Len(writes) : FALSE
        BY <1>2
      <3> QED BY <1>1, <3>1, <3>2 DEF Waiting
    <2> QED BY <1>2, <2>1 DEF IndInv, AccountedInv
  <1> QED BY <1>2, <1>3, <1>4

\* Every step keeps the order of the shutdown.
LEMMA ShutdownStep == ASSUME IndInv, [Next]_vars PROVE ShutdownInv'
  <1> USE DEF ShutdownInv, fuseVars, chanVars, dispVars, snVars, wVars, recVars, syncVars
  <1>a. ShutdownInv
    BY DEF IndInv
  <1>b. dret \in {"select", "barrier"}
    BY DEF IndInv, TypeOK
  <1>1. CASE WriteTakesSeq
    BY <1>1, <1>a, <1>b DEF WriteTakesSeq
  <1>2. CASE SubmitWrite
    BY <1>2, <1>a, <1>b DEF SubmitWrite
  <1>3. ASSUME NEW n \in fallback, FallbackSend(n) PROVE ShutdownInv'
    BY <1>3, <1>a, <1>b DEF FallbackSend
  <1>4. CASE RecvWrite
    BY <1>4, <1>a, <1>b DEF RecvWrite, AcceptWrite
  <1>5. CASE RecvClosed
    <2>1. nextSeq = seq + 1
      BY <1>5, DrainedMeansDispatched DEF RecvClosed
    <2> QED BY <1>5, <1>a, <2>1 DEF RecvClosed
  <1>6. CASE Dispatch
    BY <1>6, <1>a, <1>b DEF Dispatch
  <1>7. CASE RecvSniffed
    BY <1>7, <1>a, <1>b DEF RecvSniffed
  <1>8. CASE ForwardToWriter
    BY <1>8, <1>a, <1>b DEF ForwardToWriter
  <1>9. CASE ForwardToReconciler
    BY <1>9, <1>a, <1>b DEF ForwardToReconciler
  <1>10. CASE RecvBarrier
    BY <1>10, <1>a, <1>b DEF RecvBarrier
  <1>11. CASE BarrierRecvWrite
    BY <1>11, <1>a, <1>b DEF BarrierRecvWrite, AcceptWrite
  <1>12. CASE BarrierRecvClosed
    <2>1. nextSeq = seq + 1
      BY <1>12, DrainedMeansDispatched DEF BarrierRecvClosed
    <2> QED BY <1>12, <1>a, <2>1 DEF BarrierRecvClosed
  <1>13. CASE SubmitBarrier
    BY <1>13, <1>a, <1>b DEF SubmitBarrier
  <1>14. CASE ExitLoop
    BY <1>14, <1>a, <1>b DEF ExitLoop
  <1>15. CASE Sniff
    BY <1>15, <1>a, <1>b DEF Sniff
  <1>16. CASE SnifferOut
    BY <1>16, <1>a, <1>b DEF SnifferOut
  <1>17. CASE SnifferEnds
    BY <1>17, <1>a, <1>b DEF SnifferEnds, DispatcherClosed
  <1>18. CASE WriterWrites
    BY <1>18, <1>a, <1>b DEF WriterWrites
  <1>19. CASE WriterSyncs
    BY <1>19, <1>a, <1>b DEF WriterSyncs
  <1>20. CASE WriterEnds
    BY <1>20, <1>a, <1>b DEF WriterEnds, DispatcherClosed
  <1>21. CASE Reconcile
    BY <1>21, <1>a, <1>b DEF Reconcile
  <1>22. CASE ReconcilerEnds
    BY <1>22, <1>a, <1>b DEF ReconcilerEnds, DispatcherClosed
  <1>23. ASSUME NEW c \in Syncers, SyncStart(c) PROVE ShutdownInv'
    BY <1>23, <1>a, <1>b DEF SyncStart
  <1>24. ASSUME NEW c \in Syncers, SyncWaitsSenders(c) PROVE ShutdownInv'
    BY <1>24, <1>a, <1>b DEF SyncWaitsSenders
  <1>25. ASSUME NEW c \in Syncers, SyncSends(c) PROVE ShutdownInv'
    BY <1>25, <1>a, <1>b DEF SyncSends
  <1>26. ASSUME NEW c \in Syncers, SyncInterrupt(c) PROVE ShutdownInv'
    BY <1>26, <1>a, <1>b DEF SyncInterrupt
  <1>27. CASE Unmount
    BY <1>27, <1>a, <1>b DEF Unmount
  <1>28. CASE CloseWrites
    BY <1>28, <1>a, <1>b DEF CloseWrites
  <1>29. CASE SnifferWait
    BY <1>29, <1>a, <1>b DEF SnifferWait, WaitFor
  <1>30. CASE ReconcilerWait
    BY <1>30, <1>a, <1>b DEF ReconcilerWait, WaitFor
  <1>31. CASE PipelineWait
    BY <1>31, <1>a, <1>b DEF PipelineWait, WaitFor, DispatcherClosed
  <1>32. CASE WriterWait
    BY <1>32, <1>a, <1>b DEF WriterWait, WaitFor
  <1>33. CASE Stopped
    BY <1>33, <1>a, <1>b DEF Stopped, vars
  <1>34. CASE UNCHANGED vars
    BY <1>34, <1>a, <1>b DEF vars
  <1> QED
    BY <1>1, <1>2, <1>3, <1>4, <1>5, <1>6, <1>7, <1>8, <1>9, <1>10, <1>11, <1>12,
       <1>13, <1>14, <1>15, <1>16, <1>17, <1>18, <1>19, <1>20, <1>21, <1>22, <1>23, <1>24,
       <1>25, <1>26, <1>27, <1>28, <1>29, <1>30, <1>31, <1>32, <1>33, <1>34
    DEF Next, DispatcherNext, SnifferNext, WriterNext, ReconcilerNext, SyncNext, ShutdownNext

\* Only these actions touch the barriers and the numbers they are compared with.
LEMMA FrameSync ==
  ASSUME [Next]_vars
  PROVE  \/ WriteTakesSeq \/ Dispatch \/ RecvWrite \/ BarrierRecvWrite \/ RecvBarrier
         \/ ForwardToWriter \/ SubmitBarrier \/ WriterWrites \/ WriterSyncs
         \/ (\E c \in Syncers : SyncStart(c) \/ SyncWaitsSenders(c) \/ SyncSends(c))
         \/ /\ UNCHANGED <<seq, nextSeq, target, sync, barriers, breq, wIn>>
            /\ UNCHANGED <<dpc, dret>> \/ dpc' \notin {"barrier", "dispatch"}
  BY DEF Next, DispatcherNext, SnifferNext, WriterNext, ReconcilerNext, SyncNext, ShutdownNext, vars,
     fuseVars, chanVars, dispVars, snVars, wVars, recVars, syncVars, WaitFor, AcceptWrite,
     WriteTakesSeq, SubmitWrite, FallbackSend, RecvWrite, RecvClosed, Dispatch, RecvSniffed,
     ForwardToWriter, ForwardToReconciler, RecvBarrier, BarrierRecvWrite, BarrierRecvClosed,
     SubmitBarrier, ExitLoop, Sniff, SnifferOut, SnifferEnds, WriterWrites, WriterSyncs,
     WriterEnds, Reconcile, ReconcilerEnds, SyncStart, SyncWaitsSenders, SyncSends,
     SyncInterrupt, Unmount, CloseWrites, SnifferWait, ReconcilerWait, PipelineWait,
     WriterWait, Stopped

\* Every step keeps each barrier behind the writes it waits for.
LEMMA SyncStep == ASSUME IndInv, [Next]_vars PROVE SyncInv'
  <1> DEFINE InBarrier == dpc = "barrier" \/ (dpc = "dispatch" /\ dret = "barrier")
             Behind(cmd) == cmd.kind = "barrier" =>
                cmd.req \in Syncers /\ sync[cmd.req] # "idle" /\ nextSeq > target[cmd.req]
  <1>s. wIn \in Seq(Command) /\ barriers \in Seq(Syncers)
    BY DEF IndInv, TypeOK
  <1>t. seq \in Nat /\ nextSeq \in Nat /\ sync \in [Syncers -> SyncPC] /\ target \in [Syncers -> Nat]
    BY DEF IndInv, TypeOK
  <1>a. /\ seq \in Nat /\ nextSeq \in Nat /\ Len(wIn) \in Nat /\ Len(barriers) \in Nat
        /\ sync \in [Syncers -> SyncPC] /\ target \in [Syncers -> Nat]
    BY <1>s, <1>t
  <1>b. \A c \in Syncers : target[c] <= seq
    BY DEF IndInv, SyncInv
  <1>c. \A i \in 1..Len(barriers) : sync[barriers[i]] # "idle"
    BY DEF IndInv, SyncInv
  <1>d. InBarrier => breq \in Syncers /\ sync[breq] # "idle"
    BY DEF IndInv, SyncInv, TypeOK
  <1>e. \A i \in 1..Len(wIn) : Behind(wIn[i])
    BY DEF IndInv, SyncInv
  <1>f. \A c \in Syncers : sync[c] = "done" => nextSeq > target[c]
    BY DEF IndInv, SyncInv
  <1>g. ASSUME /\ \A c \in Syncers : target'[c] <= seq'
               /\ \A i \in 1..Len(barriers') : sync'[barriers'[i]] # "idle"
               /\ InBarrier' => sync'[breq'] # "idle"
               /\ \A i \in 1..Len(wIn') : Behind(wIn[i])'
               /\ \A c \in Syncers : sync'[c] = "done" => nextSeq' > target'[c]
        PROVE  SyncInv'
    BY <1>g DEF SyncInv
  <1>1. CASE WriteTakesSeq
    <2>1. seq' = seq + 1 /\ UNCHANGED <<nextSeq, target, sync, barriers, breq, wIn, dpc, dret>>
      BY <1>1 DEF WriteTakesSeq, dispVars, wVars, syncVars
    <2>2. \A c \in Syncers : target'[c] <= seq'
      BY <1>a, <1>b, <2>1
    <2> QED BY <1>c, <1>d, <1>e, <1>f, <1>g, <2>1, <2>2
  <1>2. CASE Dispatch
    <2>1. /\ nextSeq' = nextSeq + 1 /\ dpc = "dispatch"
          /\ dpc' = "dispatch" \/ dpc' = dret
          /\ UNCHANGED <<seq, target, sync, barriers, breq, wIn, dret>>
      BY <1>2 DEF Dispatch, fuseVars, wVars, syncVars
    <2>2. \A c \in Syncers : nextSeq > target[c] => nextSeq' > target'[c]
      BY <1>a, <2>1
    <2>3. InBarrier' => InBarrier
      BY <2>1 DEF IndInv, TypeOK
    <2>4. \A i \in 1..Len(wIn') : Behind(wIn[i])'
      BY <1>e, <2>1, <2>2
    <2> QED BY <1>b, <1>c, <1>d, <1>f, <1>g, <2>1, <2>2, <2>3, <2>4
  <1>3. CASE RecvWrite \/ BarrierRecvWrite
    <2>1. /\ UNCHANGED <<seq, nextSeq, target, sync, barriers, breq, wIn>>
          /\ InBarrier' => InBarrier
      BY <1>3 DEF RecvWrite, BarrierRecvWrite, AcceptWrite, fuseVars, wVars, syncVars
    <2> QED BY <1>b, <1>c, <1>d, <1>e, <1>f, <1>g, <2>1
  <1>4. CASE RecvBarrier
    <2>1. /\ barriers # <<>> /\ breq' = Head(barriers) /\ barriers' = Tail(barriers)
          /\ UNCHANGED <<seq, nextSeq, target, sync, wIn>>
      BY <1>4 DEF RecvBarrier, fuseVars, wVars
    <2>2. /\ Len(barriers) \in Nat \ {0} /\ Len(barriers') = Len(barriers) - 1
          /\ \A i \in 1..(Len(barriers) - 1) : barriers'[i] = barriers[i + 1]
          /\ breq' = barriers[1]
      BY <1>s, <2>1, TailFacts
    <2>3. \A i \in 1..Len(barriers') : i + 1 \in 1..Len(barriers) /\ barriers'[i] = barriers[i + 1]
      BY <1>a, <2>2
    <2>4. sync'[breq'] # "idle" /\ \A i \in 1..Len(barriers') : sync'[barriers'[i]] # "idle"
      BY <1>c, <2>1, <2>2, <2>3
    <2> QED BY <1>b, <1>e, <1>f, <1>g, <2>1, <2>4
  <1>5. CASE ForwardToWriter \/ SubmitBarrier
    <2>1. PICK new \in Command : wIn' = Append(wIn, new) /\ Behind(new)
      <3>1. CASE ForwardToWriter
        <4> DEFINE new == [kind |-> "write", seq |-> cur, req |-> None]
        <4>1. new \in Command /\ Behind(new)
          BY DEF Command, None, IndInv, TypeOK
        <4>2. wIn' = Append(wIn, new)
          BY <3>1 DEF ForwardToWriter
        <4> QED BY <4>1, <4>2
      <3>2. CASE SubmitBarrier
        <4> DEFINE new == [kind |-> "barrier", seq |-> None, req |-> breq]
        <4>1. breq \in Syncers /\ sync[breq] # "idle"
          BY <3>2, <1>d DEF SubmitBarrier
        <4>2. nextSeq > target[breq]
          <5>1. CASE ~writesOpen
            <6>1. nextSeq = seq + 1
              BY <5>1 DEF IndInv, ShutdownInv
            <6>2. target[breq] \in Nat /\ target[breq] <= seq
              BY <4>1, <1>a, <1>b
            <6> QED BY <6>1, <6>2, <1>a
          <5>2. CASE ~(dispatchedSeq < target[breq])
            <6>1. dispatchedSeq < nextSeq /\ dispatchedSeq \in Nat
              BY DEF IndInv, DispatcherInv, TypeOK
            <6>2. target[breq] \in Nat
              BY <4>1, <1>a
            <6> QED BY <5>2, <6>1, <6>2, <1>a
          <5> QED BY <3>2, <5>1, <5>2 DEF SubmitBarrier, BarrierWaits
        <4>3. new \in Command /\ Behind(new)
          BY <4>1, <4>2 DEF Command, None
        <4>4. wIn' = Append(wIn, new)
          BY <3>2 DEF SubmitBarrier
        <4> QED BY <4>3, <4>4
      <3> QED BY <1>5, <3>1, <3>2
    <2>2. /\ UNCHANGED <<seq, nextSeq, target, sync, barriers>>
          /\ ~InBarrier'
      BY <1>5 DEF ForwardToWriter, SubmitBarrier, fuseVars, syncVars
    <2>3. /\ Len(wIn') = Len(wIn) + 1
          /\ \A i \in 1..Len(wIn) : wIn'[i] = wIn[i]
          /\ wIn'[Len(wIn) + 1] = new
      BY <1>s, <2>1, AppendFacts
    <2>4. \A i \in 1..Len(wIn') : i \in 1..Len(wIn) \/ i = Len(wIn) + 1
      BY <1>a, <2>3
    <2>5. ASSUME NEW i \in 1..Len(wIn') PROVE Behind(wIn[i])'
      <3>1. wIn'[i] = new \/ \E j \in 1..Len(wIn) : wIn'[i] = wIn[j]
        BY <2>3, <2>4
      <3> QED BY <1>e, <2>1, <2>2, <3>1
    <2> QED BY <1>b, <1>c, <1>f, <1>g, <2>2, <2>5
  <1>6. CASE WriterWrites \/ WriterSyncs
    <2>1. /\ wIn # <<>> /\ wIn' = Tail(wIn)
          /\ UNCHANGED <<seq, nextSeq, target, barriers, breq, dpc, dret>>
      BY <1>6 DEF WriterWrites, WriterSyncs, fuseVars, dispVars, syncVars
    <2>2. /\ Len(wIn) \in Nat \ {0} /\ Len(wIn') = Len(wIn) - 1
          /\ \A i \in 1..(Len(wIn) - 1) : wIn'[i] = wIn[i + 1]
          /\ Head(wIn) = wIn[1]
      BY <1>s, <2>1, TailFacts
    <2>3. \A i \in 1..Len(wIn') : i + 1 \in 1..Len(wIn) /\ wIn'[i] = wIn[i + 1]
      BY <1>a, <2>2
    <2>4. Behind(wIn[1])
      BY <1>e, <2>2
    <2>5. /\ \A c \in Syncers : sync[c] # "idle" => sync'[c] # "idle"
          /\ \A c \in Syncers : sync'[c] = "done" => nextSeq > target[c]
      <3>1. CASE WriterWrites
        BY <3>1, <1>f DEF WriterWrites, syncVars
      <3>2. CASE WriterSyncs
        <4>1. wIn[1].kind = "barrier" /\ sync' = [sync EXCEPT ![wIn[1].req] = "done"]
          BY <3>2, <2>2 DEF WriterSyncs
        <4> QED BY <1>a, <1>f, <2>4, <4>1
      <3> QED BY <1>6, <3>1, <3>2
    <2>6. ASSUME NEW i \in 1..Len(wIn') PROVE Behind(wIn[i])'
      BY <1>e, <2>1, <2>3, <2>5
    <2>7. \A i \in 1..Len(barriers') : sync'[barriers'[i]] # "idle"
      <3>1. \A i \in 1..Len(barriers) : barriers[i] \in Syncers
        BY <1>s
      <3> QED BY <3>1, <1>c, <2>1, <2>5
    <2> QED BY <1>b, <1>d, <1>g, <2>1, <2>5, <2>6, <2>7
  <1>7. ASSUME NEW c \in Syncers, SyncStart(c) \/ SyncWaitsSenders(c) \/ SyncSends(c)
        PROVE  SyncInv'
    <2>1. UNCHANGED <<seq, nextSeq, wIn, dpc, dret, breq>>
      BY <1>7 DEF SyncStart, SyncWaitsSenders, SyncSends, fuseVars, dispVars, wVars
    <2>2. /\ \A d \in Syncers : sync[d] # "idle" => sync'[d] # "idle" /\ target'[d] = target[d]
          /\ \A d \in Syncers : sync'[d] = "done" => sync[d] = "done"
          /\ \A d \in Syncers : target'[d] <= seq
      <3>1. CASE SyncStart(c)
        <4>1. /\ sync[c] = "idle" /\ target' = [target EXCEPT ![c] = seq]
              /\ sync' = [sync EXCEPT ![c] = "wg"]
          BY <3>1 DEF SyncStart
        <4> QED BY <1>a, <1>b, <4>1
      <3>2. CASE SyncWaitsSenders(c)
        <4>1. target' = target /\ sync' = [sync EXCEPT ![c] = "send"]
          BY <3>2 DEF SyncWaitsSenders
        <4> QED BY <1>a, <1>b, <4>1
      <3>3. CASE SyncSends(c)
        <4>1. target' = target /\ sync' = [sync EXCEPT ![c] = "wait"]
          BY <3>3 DEF SyncSends
        <4> QED BY <1>a, <1>b, <4>1
      <3> QED BY <1>7, <3>1, <3>2, <3>3
    <2>3. \A i \in 1..Len(barriers') : sync'[barriers'[i]] # "idle"
      <3>1. \A i \in 1..Len(barriers) : barriers[i] \in Syncers
        BY <1>s
      <3>2. CASE barriers' = barriers
        BY <3>1, <3>2, <1>c, <2>2
      <3>3. CASE SyncSends(c)
        <4>1. barriers' = Append(barriers, c) /\ sync' = [sync EXCEPT ![c] = "wait"]
          BY <3>3 DEF SyncSends
        <4>2. /\ Len(barriers') = Len(barriers) + 1
              /\ \A i \in 1..Len(barriers) : barriers'[i] = barriers[i]
              /\ barriers'[Len(barriers) + 1] = c
          BY <1>s, <4>1, AppendFacts
        <4>3. \A i \in 1..Len(barriers') : i \in 1..Len(barriers) \/ i = Len(barriers) + 1
          BY <1>a, <4>2
        <4>4. sync'[c] # "idle"
          BY <1>a, <4>1
        <4> QED BY <3>1, <1>c, <2>2, <4>2, <4>3, <4>4
      <3> QED BY <1>7, <3>2, <3>3 DEF SyncStart, SyncWaitsSenders
    <2>4. ASSUME NEW i \in 1..Len(wIn') PROVE Behind(wIn[i])'
      BY <1>e, <2>1, <2>2
    <2>5. \A d \in Syncers : sync'[d] = "done" => nextSeq' > target'[d]
      BY <1>f, <2>1, <2>2
    <2> QED BY <1>d, <1>g, <2>1, <2>2, <2>3, <2>4, <2>5
  <1>8. CASE /\ UNCHANGED <<seq, nextSeq, target, sync, barriers, breq, wIn>>
             /\ UNCHANGED <<dpc, dret>> \/ dpc' \notin {"barrier", "dispatch"}
    BY <1>8, <1>b, <1>c, <1>d, <1>e, <1>f, <1>g
  <1> QED BY <1>1, <1>2, <1>3, <1>4, <1>5, <1>6, <1>7, <1>8, FrameSync

\* Only four actions move the counters of OrderedDelivery.
LEMMA FrameDelivery ==
  ASSUME [Next]_vars
  PROVE  WriteTakesSeq \/ Sniff \/ WriterWrites \/ Reconcile
         \/ UNCHANGED <<seq, fed, written, reconciled>>
  BY DEF Next, DispatcherNext, SnifferNext, WriterNext, ReconcilerNext, SyncNext, ShutdownNext, vars,
     fuseVars, chanVars, dispVars, snVars, wVars, recVars, syncVars, WaitFor, AcceptWrite,
     WriteTakesSeq, SubmitWrite, FallbackSend, RecvWrite, RecvClosed, Dispatch, RecvSniffed,
     ForwardToWriter, ForwardToReconciler, RecvBarrier, BarrierRecvWrite, BarrierRecvClosed,
     SubmitBarrier, ExitLoop, Sniff, SnifferOut, SnifferEnds, WriterWrites, WriterSyncs,
     WriterEnds, Reconcile, ReconcilerEnds, SyncStart, SyncWaitsSenders, SyncSends,
     SyncInterrupt, Unmount, CloseWrites, SnifferWait, ReconcilerWait, PipelineWait,
     WriterWait, Stopped

-----------------------------------------------------------------------------
(***************************************************************************)
(* The inductive invariant and the theorems.                               *)
(***************************************************************************)

\* The initial state satisfies the inductive invariant.
LEMMA InitIndInv == ASSUME Init PROVE IndInv
  <1> USE DEF Init, None
  <1>1. TypeOK
    <2>1. /\ writes \in Seq(Nat) /\ snIn \in Seq(Nat) /\ snOut \in Seq(Nat) /\ observed \in Seq(Nat)
          /\ wIn \in Seq(Command) /\ barriers \in Seq(Syncers)
      OBVIOUS
    <2>2. /\ Len(writes) = 0 /\ Len(snIn) = 0 /\ Len(snOut) = 0 /\ Len(observed) = 0
          /\ Len(wIn) = 0 /\ Len(barriers) = 0
      OBVIOUS
    <2>3. /\ Len(writes) <= WriteDepth /\ Len(snIn) <= SnifferDepth /\ Len(snOut) <= SnifferDepth
          /\ Len(observed) <= ObservedDepth /\ Len(wIn) <= WriterDepth
          /\ Len(barriers) <= BarrierDepth
      BY <2>2, DepthAssumption
    <2>4. sync \in [Syncers -> SyncPC] /\ target \in [Syncers -> Nat]
      BY DEF SyncPC
    <2> QED BY <2>1, <2>3, <2>4 DEF TypeOK, DispatcherPC, MainPC
  <1>2. Popped = 0 /\ ToWriter = 0 /\ ToReconciler = 0
    <2>1. Len(snOut) = 0 /\ fed = 0 /\ snHold = None /\ dpc = "select"
      OBVIOUS
    <2> HIDE DEF Init
    <2>2. Popped = 0
      BY <2>1 DEF Popped
    <2> QED BY <2>1, <2>2 DEF ToWriter, ToReconciler
  <1>3. SnifferInv /\ ReconcilerInv
    BY <1>2 DEF SnifferInv, ReconcilerInv
  <1>4. WriterInv
    BY <1>2 DEF WriterInv
  <1>5. DispatcherInv /\ ShutdownInv
    BY DEF DispatcherInv, ShutdownInv
  <1>6. AccountedInv
    BY DEF AccountedInv
  <1>7. SyncInv
    BY DEF SyncInv
  <1> QED BY <1>1, <1>3, <1>4, <1>5, <1>6, <1>7 DEF IndInv

\* Every step preserves the inductive invariant.
LEMMA NextIndInv == ASSUME IndInv, [Next]_vars PROVE IndInv'
  <1>1. TypeOK'
    BY TypeStep DEF IndInv
  <1> QED
    BY <1>1, SnifferStep, DispatcherStep, WriterStep, ReconcilerStep, AccountedStep,
       ShutdownStep, SyncStep
    DEF IndInv

\* The inductive invariant holds in every reachable state.
THEOREM Inductive == Spec => []IndInv
  <1>1. Init => IndInv
    BY InitIndInv
  <1>2. IndInv /\ [Next]_vars => IndInv'
    BY NextIndInv
  <1> QED BY <1>1, <1>2, PTL DEF Spec

\* Every variable keeps its type and no channel outgrows its capacity, for
\* every depth, any number of writes and any set of Flush/Fsync requests.
THEOREM TypeCorrect == Spec => []TypeOK
  <1>1. IndInv => TypeOK
    BY DEF IndInv
  <1> QED BY <1>1, Inductive, PTL

\* When Flush or Fsync returns, every write accepted before it has been handed
\* to the sniffer, whatever the fallback senders did.
THEOREM SyncsDispatched == Spec => []SyncDispatched
  <1>1. IndInv => SyncDispatched
    BY DEF IndInv, SyncInv, SyncDispatched
  <1> QED BY <1>1, Inductive, PTL

\* Once sniffer.Wait() has returned in shutdown(), the sniffer was fed every
\* acknowledged write.
THEOREM SnifferComplete == Spec => []SnifferSawAll
  <1>1. ASSUME IndInv PROVE SnifferSawAll
    <2>1. SUFFICES ASSUME mpc \notin {"running", "unmounted", "sniffer"}
                   PROVE  fed = seq /\ fallback = {} /\ writes = <<>> /\ pending = {}
      BY DEF SnifferSawAll
    <2>2. dpc = "done" /\ snIn = <<>>
      BY <1>1, <2>1 DEF IndInv, ShutdownInv
    <2>3. writes = <<>> /\ fallback = {} /\ nextSeq = seq + 1
      BY <1>1, <2>2 DEF IndInv, ShutdownInv
    <2>4. fed = seq
      BY <1>1, <2>2, <2>3 DEF IndInv, SnifferInv, TypeOK
    <2>5. pending = {}
      <3>1. seq \in Nat /\ pending \in SUBSET Nat
        BY <1>1 DEF IndInv, TypeOK
      <3>2. \A n \in pending : nextSeq < n /\ n <= seq
        BY <1>1 DEF IndInv, AccountedInv
      <3> QED BY <2>3, <3>1, <3>2
    <2> QED BY <2>3, <2>4, <2>5
  <1> QED BY <1>1, Inductive, PTL

\* The pipeline implements OrderedDelivery: the sniffer, the writer and the
\* reconciler receive every write once and in order.
THEOREM ImplementsOrderedDelivery == Spec => DeliverySpec
  <1>1. Init => Delivery!Init
    BY DEF Init, Delivery!Init
  <1>2. ASSUME IndInv, [Next]_vars PROVE [Delivery!Next]_Delivery!vars
    <2>a. seq \in Nat /\ fed \in Nat /\ written \in Nat /\ reconciled \in Nat /\ nextSeq \in Nat
      BY <1>2 DEF IndInv, TypeOK
    <2>b. nextSeq <= seq + 1
      BY <1>2 DEF IndInv, DispatcherInv
    <2>c. Popped \in Nat /\ Popped <= fed /\ ToWriter <= Popped /\ ToReconciler <= Popped
          /\ ToWriter \in Nat /\ ToReconciler \in Nat
      <3>1. Popped \in Nat /\ Popped <= fed /\ ToWriter \in Nat /\ ToReconciler \in Nat
        BY <1>2, CounterStep
      <3> QED BY <3>1 DEF ToWriter, ToReconciler
    <2> USE DEF Delivery!Next, Delivery!vars
    <2>1. CASE WriteTakesSeq
      BY <2>1 DEF WriteTakesSeq, snVars, wVars, recVars, Delivery!Accept
    <2>2. CASE Sniff
      <3>1. Len(snIn) \in Nat \ {0} /\ Head(snIn) = snIn[1]
        BY <1>2, <2>2, TailFacts DEF Sniff, IndInv, TypeOK
      <3>2. fed' = fed + 1 /\ UNCHANGED <<seq, written, reconciled>>
        BY <1>2, <2>2, <3>1 DEF Sniff, IndInv, SnifferInv, fuseVars, wVars, recVars
      <3>3. fed < seq
        <4>1. fed + Len(snIn) + 1 = nextSeq
          BY <1>2 DEF IndInv, SnifferInv
        <4> QED BY <2>a, <2>b, <3>1, <4>1
      <3> QED BY <3>2, <3>3 DEF Delivery!Sniff
    <2>3. CASE WriterWrites
      <3>1. Len(wIn) \in Nat \ {0} /\ Head(wIn) = wIn[1] /\ wIn[1] \in Command
        BY <1>2, <2>3, TailFacts DEF WriterWrites, IndInv, TypeOK
      <3>2. /\ written' = wIn[1].seq /\ wIn[1].kind = "write"
            /\ UNCHANGED <<seq, fed, reconciled>>
        BY <2>3, <3>1 DEF WriterWrites, fuseVars, snVars, recVars
      <3>3. WriterInv
        BY <1>2 DEF IndInv
      <3>4. wIn[1].seq \in Nat /\ wIn[1].seq > written /\ wIn[1].seq <= ToWriter
        BY <3>1, <3>2, <3>3 DEF WriterInv, Command
      <3>5. wIn[1].seq = written + 1
        <4>1. PICK i \in 1..Len(wIn) : wIn[i].kind = "write" /\ wIn[i].seq = written + 1
          <5>1. written + 1 \in Nat /\ written < written + 1 /\ written + 1 <= ToWriter
            BY <2>a, <2>c, <3>4
          <5> QED BY <3>3, <5>1 DEF WriterInv
        <4>2. CASE i = 1
          BY <4>1, <4>2
        <4>3. CASE i # 1
          <5>1. 1 < i /\ 1 \in 1..Len(wIn)
            BY <3>1, <4>3
          <5>2. wIn[1].seq < wIn[i].seq
            BY <3>2, <3>3, <4>1, <5>1 DEF WriterInv
          <5> QED BY <2>a, <3>4, <4>1, <5>2
        <4> QED BY <4>2, <4>3
      <3>6. written < fed
        BY <2>a, <2>c, <3>4
      <3> QED BY <3>2, <3>5, <3>6 DEF Delivery!Write
    <2>4. CASE Reconcile
      <3>1. Len(observed) \in Nat \ {0} /\ Head(observed) = observed[1]
        BY <1>2, <2>4, TailFacts DEF Reconcile, IndInv, TypeOK
      <3>2. reconciled' = reconciled + 1 /\ UNCHANGED <<seq, fed, written>>
        BY <1>2, <2>4, <3>1 DEF Reconcile, IndInv, ReconcilerInv, fuseVars, snVars, wVars
      <3>3. reconciled < fed
        <4>1. reconciled + Len(observed) = ToReconciler
          BY <1>2 DEF IndInv, ReconcilerInv
        <4> QED BY <2>a, <2>c, <3>1, <4>1
      <3> QED BY <3>2, <3>3 DEF Delivery!Reconcile
    <2>5. CASE UNCHANGED <<seq, fed, written, reconciled>>
      BY <2>5
    <2> QED BY <1>2, <2>1, <2>2, <2>3, <2>4, <2>5, FrameDelivery
  <1> QED BY <1>1, <1>2, Inductive, PTL DEF Spec, DeliverySpec, Delivery!Spec

-----------------------------------------------------------------------------
(***************************************************************************)
(* What shutdown() loses.                                                  *)
(***************************************************************************)

\* Every step preserves what the end of the workers implies.
LEMMA EndStep == ASSUME IndInv, EndInv, [Next]_vars PROVE EndInv'
  <1> USE DEF EndInv, DispatcherClosed, fuseVars, chanVars, dispVars, snVars, wVars, recVars, syncVars
  <1>a. snDone => dpc = "done" /\ snIn = <<>>
    BY DEF IndInv, ShutdownInv
  <1>1. CASE WriteTakesSeq \/ SubmitWrite \/ (\E n \in fallback : FallbackSend(n))
    BY <1>1 DEF WriteTakesSeq, SubmitWrite, FallbackSend
  <1>2. CASE DispatcherNext
    BY <1>2 DEF DispatcherNext, RecvWrite, RecvClosed, Dispatch, RecvSniffed, ForwardToWriter,
       ForwardToReconciler, RecvBarrier, BarrierRecvWrite, BarrierRecvClosed, SubmitBarrier,
       ExitLoop, AcceptWrite
  <1>3. CASE SnifferNext
    BY <1>a, <1>3 DEF SnifferNext, Sniff, SnifferOut, SnifferEnds
  <1>4. CASE WriterNext
    BY <1>4 DEF WriterNext, WriterWrites, WriterSyncs, WriterEnds
  <1>5. CASE ReconcilerNext
    BY <1>5 DEF ReconcilerNext, Reconcile, ReconcilerEnds
  <1>6. CASE \E c \in Syncers : SyncStart(c) \/ SyncNext(c) \/ SyncInterrupt(c)
    BY <1>6 DEF SyncStart, SyncNext, SyncWaitsSenders, SyncSends, SyncInterrupt
  <1>7. CASE Unmount \/ ShutdownNext \/ Stopped
    BY <1>7 DEF Unmount, ShutdownNext, CloseWrites, SnifferWait, ReconcilerWait, PipelineWait,
       WriterWait, WaitFor, Stopped, vars
  <1>8. CASE UNCHANGED vars
    BY <1>8 DEF vars
  <1> QED BY <1>1, <1>2, <1>3, <1>4, <1>5, <1>6, <1>7, <1>8 DEF Next

\* The writes that shutdown() loses are those left in sniffer.out, for every depth
\* and any number of writes: the reconciler and the writer get all the others.
THEOREM LossIsBounded == Spec => []LossBounded
  <1>1. Init => EndInv
    BY DEF Init, EndInv
  <1>2. IndInv /\ EndInv /\ [Next]_vars => EndInv'
    BY EndStep
  <1>3. ASSUME IndInv, EndInv PROVE LossBounded
    <2>1. SUFFICES ASSUME mpc \in {"pipeline", "writer", "stopped"}
                   PROVE  /\ reconciled + Len(snOut) = seq
                          /\ mpc = "stopped" => written = reconciled
      BY DEF LossBounded
    <2>2. recDone /\ dpc = "done" /\ observed = <<>> /\ snDone /\ snHold = None /\ snIn = <<>>
      BY <1>3, <2>1 DEF IndInv, ShutdownInv, EndInv, DispatcherClosed
    <2>3. seq \in Nat /\ fed \in Nat /\ reconciled \in Nat /\ written \in Nat /\ Len(snOut) \in Nat
      BY <1>3 DEF IndInv, TypeOK
    <2>4. nextSeq = seq + 1
      BY <1>3, <2>2 DEF IndInv, ShutdownInv
    <2>5. fed = seq
      BY <1>3, <2>2, <2>3, <2>4 DEF IndInv, SnifferInv
    <2>6. Popped = seq - Len(snOut) /\ ToWriter = Popped /\ ToReconciler = Popped
      BY <2>2, <2>3, <2>5 DEF Popped, ToWriter, ToReconciler
    <2>7. reconciled = Popped
      BY <1>3, <2>2, <2>3, <2>6 DEF IndInv, ReconcilerInv
    <2>8. ASSUME mpc = "stopped" PROVE written = Popped
      <3>1. wIn = <<>>
        BY <1>3, <2>8 DEF EndInv
      <3>2. written <= ToWriter /\ ~(written < ToWriter)
        <4>1. /\ written <= ToWriter
              /\ \A n \in Nat : written < n /\ n <= ToWriter => \E i \in 1..Len(wIn) : TRUE
          BY <1>3 DEF IndInv, WriterInv
        <4>2. 1..Len(wIn) = {}
          BY <3>1
        <4>3. ToWriter \in Nat
          BY <2>3, <2>6, <2>7
        <4> QED BY <2>3, <4>1, <4>2, <4>3
      <3> QED BY <2>3, <2>6, <2>7, <3>2
    <2> QED BY <2>3, <2>6, <2>7, <2>8
  <1> QED BY <1>1, <1>2, <1>3, Inductive, PTL DEF Spec

-----------------------------------------------------------------------------
(***************************************************************************)
(* No write waits in two places.                                           *)
(***************************************************************************)

\* Besides FrameAccounted: nothing else gives the dispatcher a write to dispatch.
LEMMA FrameOnce ==
  ASSUME [Next]_vars
  PROVE  \/ WriteTakesSeq \/ SubmitWrite \/ (\E n \in fallback : FallbackSend(n))
         \/ RecvWrite \/ BarrierRecvWrite \/ Dispatch
         \/ /\ UNCHANGED <<seq, fuse, fallback, writes, pending, nextSeq>>
            /\ dpc' = "dispatch" => dpc = "dispatch" /\ cur' = cur
  BY DEF Next, DispatcherNext, SnifferNext, WriterNext, ReconcilerNext, SyncNext, ShutdownNext, vars,
     fuseVars, chanVars, dispVars, snVars, wVars, recVars, syncVars, WaitFor, AcceptWrite,
     WriteTakesSeq, SubmitWrite, FallbackSend, RecvWrite, RecvClosed, Dispatch, RecvSniffed,
     ForwardToWriter, ForwardToReconciler, RecvBarrier, BarrierRecvWrite, BarrierRecvClosed,
     SubmitBarrier, ExitLoop, Sniff, SnifferOut, SnifferEnds, WriterWrites, WriterSyncs,
     WriterEnds, Reconcile, ReconcilerEnds, SyncStart, SyncWaitsSenders, SyncSends,
     SyncInterrupt, Unmount, CloseWrites, SnifferWait, ReconcilerWait, PipelineWait,
     WriterWait, Stopped

\* A send on p.writes of a number that waits nowhere else.
LEMMA OnceSent ==
  ASSUME IndInv, OnceInv, NEW m \in Nat, writes' = Append(writes, m), nextSeq <= m,
         m \notin pending, ~InWrites(m), ~InHand(m),
         UNCHANGED <<nextSeq, pending, dpc, cur, seq>>,
         fallback' = fallback \ {m}, fuse' = "submit" => fuse = "submit" /\ m # seq
  PROVE  OnceInv'
  <1>1. writes \in Seq(Nat) /\ Len(writes) \in Nat
    BY DEF IndInv, TypeOK
  <1>2. /\ Len(writes') = Len(writes) + 1
        /\ \A i \in 1..Len(writes) : writes'[i] = writes[i]
        /\ writes'[Len(writes) + 1] = m
    BY <1>1, AppendFacts
  <1>3. \A i \in 1..Len(writes') : i \in 1..Len(writes) \/ i = Len(writes) + 1
    BY <1>1, <1>2
  <1>4. \A n : InWrites(n)' => InWrites(n) \/ n = m
    BY <1>2, <1>3 DEF InWrites
  <1>5. \A n : InHand(n)' <=> InHand(n)
    BY DEF InHand
  <1>6. fuse' = "submit" => /\ nextSeq' <= seq' /\ seq' \notin fallback' \cup pending'
                            /\ ~InWrites(seq)' /\ ~InHand(seq)'
    BY <1>4, <1>5 DEF OnceInv
  <1>7. \A n \in fallback' : nextSeq' <= n /\ n \notin pending' /\ ~InWrites(n)' /\ ~InHand(n)'
    BY <1>4, <1>5 DEF OnceInv
  <1>8. ASSUME NEW i \in 1..Len(writes')
        PROVE  nextSeq' <= writes'[i] /\ writes'[i] \notin pending' /\ ~(dpc' = "dispatch" /\ cur' = writes'[i])
    <2>1. CASE i \in 1..Len(writes)
      BY <1>2, <2>1 DEF OnceInv, InHand
    <2>2. CASE i = Len(writes) + 1
      BY <1>2, <2>2 DEF InHand
    <2> QED BY <1>3, <2>1, <2>2
  <1>9. ASSUME NEW i \in 1..Len(writes'), NEW j \in 1..Len(writes'), i # j
        PROVE  writes'[i] # writes'[j]
    BY <1>2, <1>3, <1>9 DEF OnceInv, InWrites
  <1> QED BY <1>6, <1>7, <1>8, <1>9 DEF OnceInv, InHand, InWrites

\* No step puts a write in a second place.
LEMMA OnceStep == ASSUME IndInv, OnceInv, [Next]_vars PROVE OnceInv'
  <1>1. /\ seq \in Nat /\ nextSeq \in Nat /\ cur \in Nat /\ Len(writes) \in Nat
        /\ fallback \in SUBSET Nat /\ pending \in SUBSET Nat /\ writes \in Seq(Nat)
        /\ fuse \in {"idle", "submit"}
    BY DEF IndInv, TypeOK
  <1>2. /\ \A n \in fallback : n <= seq
        /\ \A i \in 1..Len(writes) : writes[i] <= seq /\ writes[i] \in Nat
        /\ \A n \in pending : nextSeq < n /\ n <= seq
        /\ dpc = "dispatch" => cur = nextSeq /\ nextSeq <= seq
        /\ nextSeq <= seq + 1
    BY <1>1 DEF IndInv, AccountedInv, DispatcherInv
  <1>3. CASE WriteTakesSeq
    <2>1. /\ fuse = "idle" /\ fuse' = "submit" /\ seq' = seq + 1
          /\ UNCHANGED <<fallback, writes, pending, nextSeq, dpc, cur>>
      BY <1>3 DEF WriteTakesSeq, chanVars, dispVars
    <2>2. /\ nextSeq <= seq + 1 /\ seq + 1 \notin fallback \cup pending
          /\ ~InWrites(seq + 1) /\ ~InHand(seq + 1)
      BY <1>1, <1>2 DEF InWrites, InHand
    <2> QED BY <2>1, <2>2 DEF OnceInv, InWrites, InHand
  <1>4. CASE SubmitWrite
    <2>1. /\ fuse = "submit" /\ fuse' = "idle"
          /\ UNCHANGED <<seq, pending, nextSeq, dpc, cur>>
          /\ \/ writes' = Append(writes, seq) /\ fallback' = fallback
             \/ writes' = writes /\ fallback' = fallback \cup {seq}
      BY <1>4 DEF SubmitWrite, dispVars
    <2>2. nextSeq <= seq /\ seq \notin fallback \cup pending /\ ~InWrites(seq) /\ ~InHand(seq)
      BY <2>1 DEF OnceInv
    <2>3. CASE writes' = Append(writes, seq) /\ fallback' = fallback
      <3>1. fallback' = fallback \ {seq}
        BY <2>2, <2>3
      <3> QED BY <1>1, <2>1, <2>2, <2>3, <3>1, OnceSent
    <2>4. CASE writes' = writes /\ fallback' = fallback \cup {seq}
      BY <2>1, <2>2, <2>4 DEF OnceInv, InWrites, InHand
    <2> QED BY <2>1, <2>3, <2>4
  <1>5. ASSUME NEW m \in fallback, FallbackSend(m) PROVE OnceInv'
    <2>1. /\ UNCHANGED <<seq, fuse, pending, nextSeq, dpc, cur>>
          /\ fallback' = fallback \ {m} /\ writes' = Append(writes, m)
      BY <1>5 DEF FallbackSend, dispVars
    <2>2. nextSeq <= m /\ m \notin pending /\ ~InWrites(m) /\ ~InHand(m) /\ m \in Nat
      BY <1>1 DEF OnceInv
    <2>3. fuse = "submit" => m # seq
      BY DEF OnceInv
    <2> QED BY <2>1, <2>2, <2>3, OnceSent
  <1>6. CASE RecvWrite \/ BarrierRecvWrite
    <2> DEFINE m == Head(writes)
    <2>1. /\ dpc # "dispatch" /\ writes # <<>> /\ writes' = Tail(writes)
          /\ UNCHANGED <<seq, fuse, fallback, nextSeq>>
          /\ m = nextSeq => dpc' = "dispatch" /\ cur' = m
          /\ m # nextSeq => dpc' # "dispatch"
          /\ pending' = IF m > nextSeq THEN pending \cup {m} ELSE pending
      BY <1>6 DEF RecvWrite, BarrierRecvWrite, AcceptWrite, fuseVars
    <2>2. /\ m = writes[1] /\ m \in Nat
          /\ Len(writes) \in Nat \ {0} /\ Len(writes') = Len(writes) - 1
          /\ \A i \in 1..(Len(writes) - 1) : writes'[i] = writes[i + 1]
      BY <1>1, <2>1, TailFacts
    <2> HIDE DEF m
    <2>3. \A i \in 1..Len(writes') : i + 1 \in 1..Len(writes) /\ writes'[i] = writes[i + 1] /\ i + 1 # 1
      BY <2>2
    <2>4. InWrites(m) /\ 1 \in 1..Len(writes)
      BY <2>2 DEF InWrites
    <2>5. \A n : InWrites(n)' => InWrites(n) /\ n # m
      <3> SUFFICES ASSUME NEW i \in 1..Len(writes') PROVE InWrites(writes'[i]) /\ writes'[i] # m
        BY DEF InWrites
      <3> QED BY <2>2, <2>3, <2>4 DEF InWrites, OnceInv
    <2>6. \A n : InHand(n)' => n = m
      BY <2>1 DEF InHand
    <2>7. \A n : n \in pending' => n \in pending \/ n = m
      BY <2>1
    <2>8. fuse' = "submit" => /\ nextSeq' <= seq' /\ seq' \notin fallback' \cup pending'
                              /\ ~InWrites(seq)' /\ ~InHand(seq)'
      BY <2>1, <2>4, <2>5, <2>6, <2>7 DEF OnceInv
    <2>9. \A n \in fallback' : nextSeq' <= n /\ n \notin pending' /\ ~InWrites(n)' /\ ~InHand(n)'
      BY <2>1, <2>4, <2>5, <2>6, <2>7 DEF OnceInv
    <2>10. ASSUME NEW i \in 1..Len(writes')
           PROVE  nextSeq' <= writes'[i] /\ writes'[i] \notin pending' /\ ~(dpc' = "dispatch" /\ cur' = writes'[i])
      <3>1. writes'[i] # m
        BY <2>5 DEF InWrites
      <3>2. nextSeq <= writes'[i] /\ writes'[i] \notin pending
        BY <2>3 DEF OnceInv
      <3> QED BY <2>1, <2>7, <3>1, <3>2
    <2>11. ASSUME NEW i \in 1..Len(writes'), NEW j \in 1..Len(writes'), i # j
           PROVE  writes'[i] # writes'[j]
      <3>1. i + 1 \in 1..Len(writes) /\ j + 1 \in 1..Len(writes) /\ i + 1 # j + 1
        BY <2>2, <2>3, <2>11
      <3> QED BY <2>3, <3>1 DEF OnceInv
    <2> QED BY <2>8, <2>9, <2>10, <2>11 DEF OnceInv, InHand, InWrites
  <1>7. CASE Dispatch
    <2>1. /\ dpc = "dispatch" /\ nextSeq' = nextSeq + 1
          /\ UNCHANGED <<seq, fuse, fallback, writes>>
          /\ pending' \subseteq pending
          /\ dpc' = "dispatch" => cur' = nextSeq + 1 /\ nextSeq + 1 \in pending
      BY <1>7 DEF Dispatch, fuseVars, chanVars, IndInv, TypeOK
    <2>2. cur = nextSeq
      BY <1>2, <2>1
    <2>3. \A n : InHand(n)' => n \in pending
      BY <2>1 DEF InHand
    <2>4. \A n \in Nat : nextSeq <= n /\ ~InHand(n) => nextSeq + 1 <= n
      BY <1>1, <2>1, <2>2 DEF InHand
    <2>5. \A n : InWrites(n)' <=> InWrites(n)
      BY <2>1 DEF InWrites
    <2>6. fuse' = "submit" => /\ nextSeq' <= seq' /\ seq' \notin fallback' \cup pending'
                              /\ ~InWrites(seq)' /\ ~InHand(seq)'
      BY <1>1, <2>1, <2>3, <2>4, <2>5 DEF OnceInv
    <2>7. \A n \in fallback' : nextSeq' <= n /\ n \notin pending' /\ ~InWrites(n)' /\ ~InHand(n)'
      BY <1>1, <2>1, <2>3, <2>4, <2>5 DEF OnceInv
    <2>8. ASSUME NEW i \in 1..Len(writes')
          PROVE  nextSeq' <= writes'[i] /\ writes'[i] \notin pending' /\ ~(dpc' = "dispatch" /\ cur' = writes'[i])
      <3>1. i \in 1..Len(writes) /\ writes'[i] = writes[i] /\ writes[i] \in Nat
        BY <1>2, <2>1
      <3>2. nextSeq <= writes[i] /\ writes[i] \notin pending /\ ~InHand(writes[i])
        BY <3>1 DEF OnceInv
      <3> QED BY <2>1, <2>3, <2>4, <3>1, <3>2
    <2> QED BY <2>1, <2>6, <2>7, <2>8 DEF OnceInv, InHand, InWrites
  <1>8. CASE /\ UNCHANGED <<seq, fuse, fallback, writes, pending, nextSeq>>
             /\ dpc' = "dispatch" => dpc = "dispatch" /\ cur' = cur
    <2>1. \A n : InHand(n)' => InHand(n)
      BY <1>8 DEF InHand
    <2>2. \A n : InWrites(n)' <=> InWrites(n)
      BY <1>8 DEF InWrites
    <2> QED BY <1>8, <2>1, <2>2 DEF OnceInv
  <1> QED BY <1>3, <1>4, <1>5, <1>6, <1>7, <1>8, FrameOnce

\* How often a number that occurs at most once is found in p.writes.
LEMMA CountWrites ==
  ASSUME NEW n, \A i, j \in 1..Len(writes) : i # j => writes[i] # writes[j]
  PROVE  Cardinality({i \in 1..Len(writes) : writes[i] = n}) = IF InWrites(n) THEN 1 ELSE 0
  <1> DEFINE where == {i \in 1..Len(writes) : writes[i] = n}
  <1>1. CASE InWrites(n)
    <2>1. PICK i \in 1..Len(writes) : writes[i] = n
      BY <1>1 DEF InWrites
    <2>2. where = {i}
      BY <2>1
    <2>3. Cardinality({i}) = 1
      BY FS_Singleton
    <2> QED BY <1>1, <2>2, <2>3
  <1>2. CASE ~InWrites(n)
    <2>1. where = {}
      BY <1>2 DEF InWrites
    <2>2. Cardinality({}) = 0
      BY FS_EmptySet
    <2> QED BY <1>2, <2>1, <2>2
  <1> QED BY <1>1, <1>2

\* An acknowledged write waits for its dispatch in exactly one place, and afterwards
\* in none, however the fallback senders overtake each other.
THEOREM WritesAcceptedOnce == Spec => []AcceptedOnce
  <1>1. Init => OnceInv
    BY DEF Init, OnceInv
  <1>2. IndInv /\ OnceInv /\ [Next]_vars => OnceInv'
    BY OnceStep
  <1>3. ASSUME IndInv, OnceInv PROVE AcceptedOnce
    <2> SUFFICES ASSUME NEW n \in 1..(MaxWrites + 1)
                 PROVE  Places(n) = IF n \in nextSeq..seq THEN 1 ELSE 0
      BY DEF AcceptedOnce
    <2>1. /\ n \in Nat /\ seq \in Nat /\ nextSeq \in Nat /\ fuse \in {"idle", "submit"}
          /\ fallback \in SUBSET Nat /\ pending \in SUBSET Nat
      BY <1>3, MaxWritesAssumption DEF IndInv, TypeOK
    <2>2. Cardinality({i \in 1..Len(writes) : writes[i] = n}) = IF InWrites(n) THEN 1 ELSE 0
      BY <1>3, CountWrites DEF OnceInv
    <2>3. Places(n) = (IF fuse = "submit" /\ seq = n THEN 1 ELSE 0) + (IF n \in fallback THEN 1 ELSE 0)
                      + (IF InWrites(n) THEN 1 ELSE 0)
                      + (IF n \in pending THEN 1 ELSE 0) + (IF InHand(n) THEN 1 ELSE 0)
      BY <2>2 DEF Places, InHand
    <2>4. n \in nextSeq..seq <=> Waiting(n)
      <3>1. n \in nextSeq..seq => Waiting(n)
        BY <1>3, <2>1 DEF IndInv, AccountedInv
      <3>2. Waiting(n) => nextSeq <= n /\ n <= seq
        BY <1>3, <2>1 DEF IndInv, AccountedInv, DispatcherInv, OnceInv, Waiting
      <3> QED BY <2>1, <3>1, <3>2
    <2>5. Waiting(n) <=> (fuse = "submit" /\ seq = n) \/ n \in fallback \/ InWrites(n)
                         \/ n \in pending \/ InHand(n)
      BY DEF Waiting, InWrites, InHand
    <2>6. /\ fuse = "submit" /\ seq = n =>
                n \notin fallback /\ ~InWrites(n) /\ n \notin pending /\ ~InHand(n)
          /\ n \in fallback => ~InWrites(n) /\ n \notin pending /\ ~InHand(n)
          /\ InWrites(n) => n \notin pending /\ ~InHand(n)
      BY <1>3 DEF OnceInv, InWrites
    <2>7. n \in pending => ~InHand(n)
      BY <1>3, <2>1 DEF IndInv, AccountedInv, DispatcherInv, InHand
    <2> QED BY <2>3, <2>4, <2>5, <2>6, <2>7
  <1> QED BY <1>1, <1>2, <1>3, Inductive, PTL DEF Spec
=============================================================================
