------------------------------ MODULE HubProofs ------------------------------
(***************************************************************************)
(* Proofs about Hub, for any clients, any depths of the queues and any     *)
(* number of messages.                                                     *)
(***************************************************************************)
EXTENDS Hub, TLAPS

-----------------------------------------------------------------------------
(***************************************************************************)
(* A queue that is sorted and below a bound, with a message added at its   *)
(* end or taken from its front.                                            *)
(***************************************************************************)
LEMMA AppendFacts ==
  ASSUME NEW s \in Seq(Message), NEW m \in Message
  PROVE  /\ Append(s, m) \in Seq(Message) /\ Len(Append(s, m)) = Len(s) + 1
         /\ Append(s, m) # <<>>
         /\ Head(Append(s, m)) = IF s # <<>> THEN Head(s) ELSE m
         /\ Holds(Append(s, m), m)
         /\ \A x : Holds(s, x) => Holds(Append(s, m), x)
         /\ Sorted(s) /\ UpTo(s, m - 1) => Sorted(Append(s, m))
         /\ \A b \in Int : UpTo(s, b) /\ m <= b => UpTo(Append(s, m), b)
  <1>1. Append(s, m) \in Seq(Message) /\ Len(Append(s, m)) = Len(s) + 1
    OBVIOUS
  <1>2. Append(s, m) # <<>>
    <2>1. Len(s) + 1 # 0 /\ Len(<<>>) = 0
      OBVIOUS
    <2> QED BY <1>1, <2>1
  <1>3. Append(s, m)[Len(s) + 1] = m /\ \A i \in 1..Len(s) : Append(s, m)[i] = s[i]
    OBVIOUS
  <1>4. Head(Append(s, m)) = IF s # <<>> THEN Head(s) ELSE m
    BY <1>2, <1>3
  <1>5. Holds(Append(s, m), m)
    BY <1>1, <1>3 DEF Holds
  <1>6. ASSUME NEW x, Holds(s, x) PROVE Holds(Append(s, m), x)
    BY <1>1, <1>3, <1>6 DEF Holds
  <1>7. ASSUME Sorted(s), UpTo(s, m - 1) PROVE Sorted(Append(s, m))
    BY <1>1, <1>3, <1>7 DEF Sorted, UpTo, Message
  <1>8. ASSUME NEW b \in Int, UpTo(s, b), m <= b PROVE UpTo(Append(s, m), b)
    BY <1>1, <1>3, <1>8 DEF UpTo
  <1> QED BY <1>1, <1>2, <1>4, <1>5, <1>6, <1>7, <1>8

LEMMA TailFacts ==
  ASSUME NEW s \in Seq(Message), s # <<>>
  PROVE  /\ Head(s) \in Message /\ Tail(s) \in Seq(Message) /\ Len(Tail(s)) = Len(s) - 1
         /\ \A x : Holds(s, x) => x = Head(s) \/ Holds(Tail(s), x)
         /\ Sorted(s) => Sorted(Tail(s))
         /\ Sorted(s) /\ Tail(s) # <<>> => Head(s) < Head(Tail(s))
         /\ \A b \in Int : UpTo(s, b) => UpTo(Tail(s), b) /\ Head(s) <= b
  <1>1. /\ Head(s) \in Message /\ Tail(s) \in Seq(Message) /\ Len(Tail(s)) = Len(s) - 1
        /\ Len(s) \in Nat \ {0} /\ Head(s) = s[1]
    OBVIOUS
  <1>2. \A i \in 1..Len(s)-1 : Tail(s)[i] = s[i + 1]
    BY <1>1
  <1>3. ASSUME NEW x, Holds(s, x) PROVE x = Head(s) \/ Holds(Tail(s), x)
    <2>1. PICK i \in 1..Len(s) : s[i] = x
      BY <1>3 DEF Holds
    <2>2. CASE i = 1
      BY <1>1, <2>1, <2>2
    <2>3. CASE i # 1
      <3>1. i - 1 \in 1..Len(Tail(s)) /\ Tail(s)[i - 1] = x
        BY <1>1, <1>2, <2>1, <2>3
      <3> QED BY <3>1 DEF Holds
    <2> QED BY <2>2, <2>3
  <1>4. ASSUME Sorted(s) PROVE Sorted(Tail(s))
    <2> SUFFICES ASSUME NEW i \in 1..Len(s)-1, NEW j \in 1..Len(s)-1, i < j
                 PROVE  s[i + 1] < s[j + 1]
      BY <1>1, <1>2 DEF Sorted
    <2>1. i + 1 \in 1..Len(s) /\ j + 1 \in 1..Len(s) /\ i + 1 < j + 1
      BY <1>1
    <2> QED BY <1>4, <2>1 DEF Sorted
  <1>5. ASSUME Sorted(s), Tail(s) # <<>> PROVE Head(s) < Head(Tail(s))
    <2>1. Len(s) >= 2 /\ Head(Tail(s)) = s[2]
      BY <1>1, <1>2, <1>5
    <2> QED BY <1>1, <1>5, <2>1 DEF Sorted
  <1>6. ASSUME NEW b \in Int, UpTo(s, b) PROVE UpTo(Tail(s), b) /\ Head(s) <= b
    <2>1. Head(s) <= b
      BY <1>1, <1>6 DEF UpTo
    <2>2. ASSUME NEW i \in 1..Len(s)-1 PROVE s[i + 1] <= b
      <3>1. i + 1 \in 1..Len(s)
        BY <1>1
      <3> QED BY <1>6, <3>1 DEF UpTo
    <2> QED BY <1>1, <1>2, <2>1, <2>2 DEF UpTo
  <1> QED BY <1>1, <1>3, <1>4, <1>5, <1>6

\* The selects on a channel of depth d: neither overfills it.
LEMMA ChannelFacts ==
  ASSUME NEW s \in Seq(Message), NEW d \in Nat, Len(s) <= d, NEW m \in Message
  PROVE  /\ s # <<>> => Tail(s) \in Seq(Message) /\ Len(Tail(s)) <= d
         /\ Len(s) < d => Append(s, m) \in Seq(Message) /\ Len(Append(s, m)) <= d
  <1>1. Len(s) \in Nat
    OBVIOUS
  <1>2. ASSUME s # <<>> PROVE Tail(s) \in Seq(Message) /\ Len(Tail(s)) <= d
    BY <1>1, <1>2, TailFacts
  <1>3. ASSUME Len(s) < d PROVE Append(s, m) \in Seq(Message) /\ Len(Append(s, m)) <= d
    BY <1>1, <1>3, AppendFacts
  <1> QED BY <1>2, <1>3

LEMMA EmptyFacts ==
  /\ <<>> \in Seq(Message) /\ Len(<<>>) = 0
  /\ Sorted(<<>>) /\ (\A b : UpTo(<<>>, b)) /\ (\A x : ~Holds(<<>>, x))
  BY DEF Sorted, UpTo, Holds

LEMMA UpToMore ==
  ASSUME NEW s \in Seq(Message), NEW a \in Int, NEW b \in Int, UpTo(s, a), a <= b
  PROVE  UpTo(s, b)
  <1>1. \A i \in 1..Len(s) : s[i] \in Int
    BY DEF Message
  <1> QED BY <1>1 DEF UpTo

\* A message below all of a queue is not in it.
LEMMA NotHeld ==
  ASSUME NEW s \in Seq(Message), NEW b \in Int, NEW m \in Int, UpTo(s, b), b < m
  PROVE  ~Holds(s, m)
  <1>1. \A i \in 1..Len(s) : s[i] \in Int
    BY DEF Message
  <1> QED BY <1>1 DEF UpTo, Holds

-----------------------------------------------------------------------------
(***************************************************************************)
(* Type correctness, and what dispatch and the requests know.              *)
(***************************************************************************)
LEMMA InitIndInv == Init => IndInv
  <1> SUFFICES ASSUME Init PROVE IndInv
    OBVIOUS
  <1>1. HubType
    <2>1. queue \in Seq(Message) /\ Len(queue) <= QueueDepth
      <3>1. queue = <<>> /\ 0 <= QueueDepth
        BY DepthAssumption DEF Init
      <3> QED BY <3>1, EmptyFacts
    <2> QED BY <2>1 DEF Init, HubType
  <1>2. DispatchType
    BY DEF Init, DispatchType
  <1>3. DrainType
    BY DepthAssumption, EmptyFacts DEF Init, DrainType
  <1>4. RequestType
    BY DEF Init, RequestType
  <1>5. DispatchInv /\ RegisterInv
    BY DEF Init, DispatchInv, RegisterInv, None
  <1>6. QueueOrder
    BY EmptyFacts DEF Init, QueueOrder, LeftQueue, First
  <1>7. ASSUME NEW c \in Clients PROVE ClientOrder(c)
    BY EmptyFacts, ClientAssumption
    DEF Init, ClientOrder, LeftOut, LeftHold, LeftInbox, LeftDispatch, LeftQueue, First, Waits, None
  <1>8. NewestInv
    BY DEF Init, NewestInv
  <1> QED BY <1>1, <1>2, <1>3, <1>4, <1>5, <1>6, <1>7, <1>8 DEF IndInv, TypeOK

LEMMA HubTypeStep ==
  ASSUME TypeOK, QueueOrder, Next
  PROVE  HubType'
  <1> USE DEF TypeOK, HubType
  <1>0. 1 \in Message
    BY DEF Message
  <1>1. CASE Broadcast
    <2>1. sent' \in Message
      BY <1>1 DEF Broadcast, Message
    <2>2. queue' \in Seq(Message) /\ Len(queue') <= QueueDepth
      <3>1. Len(queue) < QueueDepth => /\ Append(queue, sent') \in Seq(Message)
                                       /\ Len(Append(queue, sent')) <= QueueDepth
        BY <2>1, DepthAssumption, ChannelFacts
      <3> QED BY <1>1, <3>1 DEF Broadcast
    <2> QED BY <1>1, <2>1, <2>2 DEF Broadcast
  <1>2. CASE BroadcastDrop
    <2>1. queue' \in Seq(Message) /\ Len(queue') <= QueueDepth
      <3>1. queue # <<>> => Tail(queue) \in Seq(Message) /\ Len(Tail(queue)) <= QueueDepth
        BY <1>0, DepthAssumption, ChannelFacts
      <3> QED BY <1>2, <3>1 DEF BroadcastDrop
    <2> QED BY <1>2, <2>1 DEF BroadcastDrop
  <1>3. CASE BroadcastResend
    <2>1. sent \in Message
      BY <1>3 DEF BroadcastResend, QueueOrder, Message
    <2>2. queue' \in Seq(Message) /\ Len(queue') <= QueueDepth
      BY <1>3, <2>1, DepthAssumption, AppendFacts DEF BroadcastResend
    <2> QED BY <1>3, <2>2 DEF BroadcastResend
  <1>4. CASE Close
    BY <1>4 DEF Close
  <1>5. CASE DispatchBegin
    <2>1. queue' \in Seq(Message) /\ Len(queue') <= QueueDepth
      BY <1>5, DepthAssumption, TailFacts DEF DispatchBegin
    <2> QED BY <1>5, <2>1 DEF DispatchBegin
  <1>6. ASSUME UNCHANGED hubVars PROVE HubType'
    BY <1>6 DEF hubVars
  <1> QED
    BY <1>1, <1>2, <1>3, <1>4, <1>5, <1>6
    DEF Next, SnifferStep, DispatchStep, DrainStep, HandlerStep, WatcherStep, DispatchEnds,
        DispatchDone, DispatchSend, DispatchDrop, DispatchResend, Register, Disconnect,
        HandlerWritten, DrainTake, DrainSend, DrainMakeRoom, DrainEnds, HandlerTake,
        HandlerWriteFails, HandlerLoopEnds, HandlerUnregister, HandlerClose,
        WatcherUnregister, WatcherClose

\* The steps that leave the dispatch loop alone.
LEMMA DispatchTypeStep ==
  ASSUME TypeOK, DispatchInv, Next
  PROVE  DispatchType'
  <1> USE DEF TypeOK, DispatchType
  <1>1. CASE DispatchBegin
    <2>1. Head(queue) \in Nat
      BY <1>1, TailFacts DEF DispatchBegin, HubType, Message
    <2> QED BY <1>1, <2>1 DEF DispatchBegin, requestVars
  <1>2. CASE DispatchEnds
    BY <1>2 DEF DispatchEnds, requestVars
  <1>3. CASE DispatchDone
    BY <1>3 DEF DispatchDone, requestVars
  <1>4. ASSUME NEW c \in Clients, DispatchSend(c) PROVE DispatchType'
    BY <1>4 DEF DispatchSend, requestVars
  <1>5. ASSUME NEW c \in Clients, DispatchDrop(c) PROVE DispatchType'
    BY <1>5 DEF DispatchDrop, requestVars
  <1>6. ASSUME NEW c \in Clients, DispatchResend(c) PROVE DispatchType'
    BY <1>6 DEF DispatchResend, requestVars
  <1>7. ASSUME NEW c \in Clients, Register(c) PROVE DispatchType'
    BY <1>7 DEF Register, dispatchVars
  <1>8. ASSUME NEW c \in Clients, HandlerUnregister(c) \/ WatcherUnregister(c) PROVE DispatchType'
    BY <1>8 DEF HandlerUnregister, WatcherUnregister, Leave, dispatchVars, Unlocked, DispatchInv
  <1>9. ASSUME UNCHANGED <<dispatchVars, registered>> PROVE DispatchType'
    BY <1>9 DEF dispatchVars
  <1> QED
    BY <1>1, <1>2, <1>3, <1>4, <1>5, <1>6, <1>7, <1>8, <1>9
    DEF Next, SnifferStep, DispatchStep, DrainStep, HandlerStep, WatcherStep, requestVars,
        Broadcast, BroadcastDrop, BroadcastResend, Close, Disconnect,
        HandlerWritten, DrainTake, DrainSend, DrainMakeRoom, DrainEnds, HandlerTake,
        HandlerWriteFails, HandlerLoopEnds, HandlerClose, WatcherClose

LEMMA DrainTypeStep ==
  ASSUME TypeOK, DispatchInv, RegisterInv, Next
  PROVE  DrainType'
  <1> USE DEF TypeOK, DrainType
  <1>1. 1 \in Message /\ InboxDepth \in Nat /\ OutDepth \in Nat
    BY DepthAssumption DEF Message
  <1>2. ASSUME NEW c \in Clients, NEW s \in Seq(Message), Len(s) <= InboxDepth,
               inbox' = [inbox EXCEPT ![c] = s], UNCHANGED <<out, hold, drainer>>
        PROVE  DrainType'
    BY <1>2
  <1>3. ASSUME NEW c \in Clients, NEW s \in Seq(Message), Len(s) <= OutDepth,
               out' = [out EXCEPT ![c] = s], UNCHANGED <<inbox, hold>>,
               NEW p \in {"send", "loop"}, drainer' = [drainer EXCEPT ![c] = p] \/ UNCHANGED drainer
        PROVE  DrainType'
    BY <1>3
  <1>4. ASSUME NEW c \in Clients, DispatchSend(c) PROVE DrainType'
    <2>1. msg \in Message
      BY <1>4 DEF DispatchSend, DispatchInv, DispatchType, Message
    <2>2. CASE UNCHANGED inbox
      BY <1>4, <2>2 DEF DispatchSend
    <2>3. CASE Len(inbox[c]) < InboxDepth /\ inbox' = [inbox EXCEPT ![c] = Append(@, msg)]
      <3>1. Append(inbox[c], msg) \in Seq(Message) /\ Len(Append(inbox[c], msg)) <= InboxDepth
        BY <1>1, <2>1, <2>3, ChannelFacts
      <3> QED BY <1>2, <1>4, <2>3, <3>1 DEF DispatchSend
    <2> QED BY <1>4, <2>2, <2>3 DEF DispatchSend
  <1>5. ASSUME NEW c \in Clients, DispatchDrop(c) PROVE DrainType'
    <2>1. CASE inbox[c] = <<>>
      <3>1. inbox' = inbox
        BY <1>5, <2>1 DEF DispatchDrop
      <3> QED BY <1>5, <3>1 DEF DispatchDrop
    <2>2. CASE inbox[c] # <<>>
      <3>1. Tail(inbox[c]) \in Seq(Message) /\ Len(Tail(inbox[c])) <= InboxDepth
        BY <1>1, <2>2, ChannelFacts
      <3>2. inbox' = [inbox EXCEPT ![c] = Tail(inbox[c])]
        BY <1>5, <2>2 DEF DispatchDrop
      <3> QED BY <1>2, <1>5, <3>1, <3>2 DEF DispatchDrop
    <2> QED BY <2>1, <2>2
  <1>6. ASSUME NEW c \in Clients, DispatchResend(c) PROVE DrainType'
    <2>1. msg \in Message /\ Len(inbox[c]) < InboxDepth
      BY <1>6 DEF DispatchResend, DispatchInv, DispatchType, None, Message
    <2>2. Append(inbox[c], msg) \in Seq(Message) /\ Len(Append(inbox[c], msg)) <= InboxDepth
      BY <1>1, <2>1, ChannelFacts
    <2>3. inbox' = [inbox EXCEPT ![c] = Append(inbox[c], msg)]
      BY <1>6, <2>1 DEF DispatchResend
    <2> QED BY <1>2, <1>6, <2>2, <2>3 DEF DispatchResend
  <1>7. ASSUME NEW c \in Clients, DrainTake(c) PROVE DrainType'
    <2>1. Tail(inbox[c]) \in Seq(Message) /\ Len(Tail(inbox[c])) <= InboxDepth
      BY <1>1, <1>7, ChannelFacts DEF DrainTake
    <2>2. Head(inbox[c]) \in Nat
      BY <1>7, TailFacts DEF DrainTake, Message
    <2> QED BY <1>7, <2>1, <2>2 DEF DrainTake
  <1>8. ASSUME NEW c \in Clients, DrainSend(c) PROVE DrainType'
    <2>1. CASE UNCHANGED <<out, hold>> /\ drainer' = [drainer EXCEPT ![c] = "make_room"]
      BY <1>8, <2>1 DEF DrainSend
    <2>2. CASE /\ Len(out[c]) < OutDepth /\ out' = [out EXCEPT ![c] = Append(@, hold[c])]
               /\ hold' = [hold EXCEPT ![c] = 0] /\ drainer' = [drainer EXCEPT ![c] = "loop"]
      <3>1. hold[c] \in Message
        BY <1>8 DEF DrainSend, RegisterInv, Message
      <3>2. Append(out[c], hold[c]) \in Seq(Message) /\ Len(Append(out[c], hold[c])) <= OutDepth
        BY <1>1, <2>2, <3>1, ChannelFacts
      <3> QED BY <1>8, <2>2, <3>2 DEF DrainSend
    <2> QED BY <1>8, <2>1, <2>2 DEF DrainSend
  <1>9. ASSUME NEW c \in Clients, DrainMakeRoom(c) PROVE DrainType'
    <2>1. CASE out[c] = <<>>
      <3>1. out' = out
        BY <1>9, <2>1 DEF DrainMakeRoom
      <3> QED BY <1>9, <3>1 DEF DrainMakeRoom
    <2>2. CASE out[c] # <<>>
      <3>1. Tail(out[c]) \in Seq(Message) /\ Len(Tail(out[c])) <= OutDepth
        BY <1>1, <2>2, ChannelFacts
      <3>2. out' = [out EXCEPT ![c] = Tail(out[c])]
        BY <1>9, <2>2 DEF DrainMakeRoom
      <3> QED BY <1>3, <1>9, <3>1, <3>2 DEF DrainMakeRoom
    <2> QED BY <2>1, <2>2
  <1>10. ASSUME NEW c \in Clients, HandlerTake(c) PROVE DrainType'
    <2>1. Tail(out[c]) \in Seq(Message) /\ Len(Tail(out[c])) <= OutDepth
      BY <1>1, <1>10, ChannelFacts DEF HandlerTake
    <2> QED BY <1>3, <1>10, <2>1 DEF HandlerTake
  <1>11. ASSUME NEW c \in Clients, DrainEnds(c) \/ Register(c) PROVE DrainType'
    BY <1>11 DEF DrainEnds, Register
  <1>12. ASSUME UNCHANGED drainVars PROVE DrainType'
    BY <1>12 DEF drainVars
  <1> QED
    BY <1>4, <1>5, <1>6, <1>7, <1>8, <1>9, <1>10, <1>11, <1>12
    DEF Next, SnifferStep, DispatchStep, DrainStep, HandlerStep, WatcherStep,
        Broadcast, BroadcastDrop, BroadcastResend, Close, DispatchBegin, DispatchEnds,
        DispatchDone, Disconnect, HandlerWritten, HandlerWriteFails, HandlerLoopEnds,
        HandlerUnregister, HandlerClose, WatcherUnregister, WatcherClose

LEMMA RequestTypeStep ==
  ASSUME TypeOK, QueueOrder, Next
  PROVE  RequestType'
  <1> USE DEF TypeOK, RequestType
  <1>1. ASSUME NEW c \in Clients, Register(c) PROVE RequestType'
    <2>1. PICK n \in Nat : since' = [since EXCEPT ![c] = n]
      <3>1. queue # <<>> => Head(queue) - 1 \in Nat
        BY TailFacts DEF HubType, Message
      <3>2. bpc # "idle" => sent - 1 \in Nat
        BY DEF QueueOrder, HubType
      <3>3. sent \in Nat
        BY DEF HubType
      <3> QED BY <1>1, <3>1, <3>2, <3>3 DEF Register
    <2> QED BY <1>1, <2>1 DEF Register
  <1>2. ASSUME NEW c \in Clients, HandlerTake(c) PROVE RequestType'
    <2>1. Head(out[c]) \in Nat
      BY <1>2, TailFacts DEF HandlerTake, DrainType, Message
    <2> QED BY <1>2, <2>1 DEF HandlerTake
  <1>3. ASSUME NEW c \in Clients, HandlerUnregister(c) PROVE RequestType'
    BY <1>3 DEF HandlerUnregister, Leave
  <1>4. ASSUME NEW c \in Clients, HandlerClose(c) PROVE RequestType'
    BY <1>4 DEF HandlerClose
  <1>5. ASSUME NEW c \in Clients, WatcherUnregister(c) PROVE RequestType'
    BY <1>5 DEF WatcherUnregister, Leave
  <1>6. ASSUME NEW c \in Clients, WatcherClose(c) PROVE RequestType'
    BY <1>6 DEF WatcherClose
  <1>7. ASSUME NEW c \in Clients, HandlerWritten(c) \/ HandlerWriteFails(c) \/ HandlerLoopEnds(c)
        PROVE RequestType'
    BY <1>7 DEF HandlerWritten, HandlerWriteFails, HandlerLoopEnds
  <1>8. ASSUME NEW c \in Clients, Disconnect(c) PROVE RequestType'
    BY <1>8 DEF Disconnect
  <1>9. ASSUME UNCHANGED requestVars PROVE RequestType'
    BY <1>9 DEF requestVars
  <1> QED
    BY <1>1, <1>2, <1>3, <1>4, <1>5, <1>6, <1>7, <1>8, <1>9
    DEF Next, SnifferStep, DispatchStep, DrainStep, HandlerStep, WatcherStep,
        Broadcast, BroadcastDrop, BroadcastResend, Close, DispatchBegin, DispatchEnds,
        DispatchDone, DispatchSend, DispatchDrop, DispatchResend, DrainTake, DrainSend,
        DrainMakeRoom, DrainEnds

LEMMA DispatchInvStep ==
  ASSUME TypeOK, DispatchInv, RegisterInv, Next
  PROVE  DispatchInv'
  <1> USE DEF DispatchInv
  <1>1. CASE Broadcast
    BY <1>1 DEF Broadcast, dispatchVars, drainVars, requestVars
  <1>2. CASE BroadcastDrop
    <2>1. Len(queue') < QueueDepth
      <3>1. CASE queue # <<>>
        BY <1>2, <3>1, TailFacts, DepthAssumption DEF BroadcastDrop, TypeOK, HubType
      <3>2. CASE queue = <<>>
        BY <1>2, <3>2, EmptyFacts, DepthAssumption DEF BroadcastDrop
      <3> QED BY <3>1, <3>2
    <2> QED BY <1>2, <2>1 DEF BroadcastDrop, dispatchVars, drainVars, requestVars
  <1>3. CASE BroadcastResend
    BY <1>3 DEF BroadcastResend, dispatchVars, drainVars, requestVars
  <1>4. CASE Close
    BY <1>4 DEF Close, dispatchVars, drainVars, requestVars
  <1>5. CASE DispatchBegin
    <2>1. Head(queue) # 0 /\ (bpc = "resend" => Len(Tail(queue)) < QueueDepth)
      BY <1>5, TailFacts, DepthAssumption DEF DispatchBegin, TypeOK, HubType, Message
    <2> QED BY <1>5, <2>1 DEF DispatchBegin, drainVars, requestVars
  <1>6. CASE DispatchEnds
    BY <1>6 DEF DispatchEnds, hubVars, drainVars, requestVars
  <1>7. CASE DispatchDone
    BY <1>7 DEF DispatchDone, hubVars, drainVars, requestVars
  <1>8. ASSUME NEW c \in Clients, DispatchSend(c) PROVE DispatchInv'
    BY <1>8 DEF DispatchSend, hubVars, requestVars, TypeOK, DispatchType, None
  <1>9. ASSUME NEW c \in Clients, DispatchDrop(c) PROVE DispatchInv'
    <2>1. inbox'[c] = IF inbox[c] # <<>> THEN Tail(inbox[c]) ELSE inbox[c]
      BY <1>9 DEF DispatchDrop, TypeOK, DrainType
    <2>2. Len(inbox'[c]) < InboxDepth
      <3>1. CASE inbox[c] # <<>>
        BY <2>1, <3>1, TailFacts, DepthAssumption DEF TypeOK, DrainType
      <3>2. CASE inbox[c] = <<>>
        BY <2>1, <3>2, EmptyFacts, DepthAssumption
      <3> QED BY <3>1, <3>2
    <2>3. cur' = [client |-> c, at |-> "resend"]
      BY <1>9 DEF DispatchDrop
    <2> QED BY <1>9, <2>2, <2>3 DEF DispatchDrop, hubVars, requestVars, None
  <1>10. ASSUME NEW c \in Clients, DispatchResend(c) PROVE DispatchInv'
    BY <1>10 DEF DispatchResend, hubVars, requestVars, None
  <1>11. ASSUME NEW c \in Clients, DrainTake(c) PROVE DispatchInv'
    <2>1. ASSUME NEW d \in Clients PROVE Len(inbox'[d]) <= Len(inbox[d])
      <3>1. CASE d = c
        <4>1. inbox'[c] = Tail(inbox[c])
          BY <1>11 DEF DrainTake, TypeOK, DrainType
        <4> QED BY <1>11, <3>1, <4>1, TailFacts DEF DrainTake, TypeOK, DrainType
      <3>2. CASE d # c
        BY <1>11, <3>2 DEF DrainTake, TypeOK, DrainType
      <3> QED BY <3>1, <3>2
    <2>2. cur # None => cur.client \in Clients
      BY DEF TypeOK, DispatchType
    <2>3. \A d \in Clients : Len(inbox[d]) \in Nat /\ Len(inbox'[d]) \in Nat
      BY DrainTypeStep DEF TypeOK, DrainType
    <2>4. cur # None /\ cur.at = "resend" => Len(inbox'[cur.client]) < InboxDepth
      BY <2>1, <2>2, <2>3, DepthAssumption
    <2> QED BY <1>11, <2>4 DEF DrainTake, hubVars, dispatchVars, requestVars
  <1>12. ASSUME NEW c \in Clients, Register(c) PROVE DispatchInv'
    BY <1>12 DEF Register, hubVars, dispatchVars
  <1>13. ASSUME NEW c \in Clients, HandlerUnregister(c) PROVE DispatchInv'
    BY <1>13 DEF HandlerUnregister, Leave, Unlocked, hubVars, dispatchVars, drainVars
  <1>14. ASSUME NEW c \in Clients, WatcherUnregister(c) PROVE DispatchInv'
    BY <1>14 DEF WatcherUnregister, Leave, Unlocked, hubVars, dispatchVars, drainVars
  <1>15. ASSUME UNCHANGED <<hubVars, dispatchVars, inbox, registered>> PROVE DispatchInv'
    BY <1>15 DEF hubVars, dispatchVars
  <1> QED
    BY <1>1, <1>2, <1>3, <1>4, <1>5, <1>6, <1>7, <1>8, <1>9, <1>10, <1>11, <1>12, <1>13, <1>14, <1>15
    DEF Next, SnifferStep, DispatchStep, DrainStep, HandlerStep, WatcherStep, drainVars, requestVars,
        Disconnect, HandlerWritten, HandlerWriteFails, HandlerLoopEnds, DrainSend, DrainMakeRoom,
        DrainEnds, HandlerTake, HandlerClose, WatcherClose

LEMMA RegisterInvStep ==
  ASSUME TypeOK, DispatchInv, RegisterInv, Next
  PROVE  RegisterInv'
  <1> USE DEF RegisterInv, TypeOK, DrainType, RequestType
  <1>1. ASSUME NEW c \in Clients, DispatchSend(c) \/ DispatchDrop(c) \/ DispatchResend(c) PROVE RegisterInv'
    <2>1. handler[c] # "none"
      BY <1>1 DEF DispatchSend, DispatchDrop, DispatchResend, DispatchInv, DispatchType, None
    <2>2. \A d \in Clients : d # c => inbox'[d] = inbox[d]
      BY <1>1 DEF DispatchSend, DispatchDrop, DispatchResend
    <2> QED
      BY <1>1, <2>1, <2>2 DEF DispatchSend, DispatchDrop, DispatchResend, requestVars
  <1>2. ASSUME NEW c \in Clients, DrainTake(c) PROVE RegisterInv'
    <2>1. Head(inbox[c]) # 0
      BY <1>2, TailFacts DEF DrainTake, Message
    <2> QED BY <1>2, <2>1 DEF DrainTake, requestVars
  <1>3. ASSUME NEW c \in Clients, DrainSend(c) PROVE RegisterInv'
    BY <1>3 DEF DrainSend, requestVars
  <1>4. ASSUME NEW c \in Clients, DrainMakeRoom(c) PROVE RegisterInv'
    BY <1>4 DEF DrainMakeRoom, requestVars
  <1>5. ASSUME NEW c \in Clients, DrainEnds(c) PROVE RegisterInv'
    BY <1>5 DEF DrainEnds, requestVars
  <1>6. ASSUME NEW c \in Clients, Register(c) PROVE RegisterInv'
    BY <1>6 DEF Register
  <1>7. ASSUME NEW c \in Clients, HandlerTake(c) PROVE RegisterInv'
    BY <1>7 DEF HandlerTake
  <1>8. ASSUME NEW c \in Clients, HandlerWritten(c) \/ HandlerWriteFails(c) \/ HandlerLoopEnds(c)
        PROVE RegisterInv'
    BY <1>8 DEF HandlerWritten, HandlerWriteFails, HandlerLoopEnds, drainVars
  <1>9. ASSUME NEW c \in Clients, HandlerUnregister(c) PROVE RegisterInv'
    BY <1>9 DEF HandlerUnregister, Leave, drainVars
  <1>10. ASSUME NEW c \in Clients, HandlerClose(c) PROVE RegisterInv'
    BY <1>10 DEF HandlerClose, drainVars
  <1>11. ASSUME NEW c \in Clients, WatcherUnregister(c) PROVE RegisterInv'
    BY <1>11 DEF WatcherUnregister, Leave, drainVars
  <1>12. ASSUME NEW c \in Clients, WatcherClose(c) PROVE RegisterInv'
    BY <1>12 DEF WatcherClose, drainVars
  <1>13. ASSUME NEW c \in Clients, Disconnect(c) PROVE RegisterInv'
    BY <1>13 DEF Disconnect, drainVars
  <1>14. ASSUME UNCHANGED <<drainVars, requestVars>> PROVE RegisterInv'
    BY <1>14 DEF drainVars, requestVars
  <1> QED
    BY <1>1, <1>2, <1>3, <1>4, <1>5, <1>6, <1>7, <1>8, <1>9, <1>10, <1>11, <1>12, <1>13, <1>14
    DEF Next, SnifferStep, DispatchStep, DrainStep, HandlerStep, WatcherStep,
        Broadcast, BroadcastDrop, BroadcastResend, Close, DispatchBegin, DispatchEnds,
        DispatchDone

-----------------------------------------------------------------------------
(***************************************************************************)
(* The order of the messages.  No bound ever goes down, and what moves to  *)
(* the next place is above all that went before it.                        *)
(***************************************************************************)
LEMMA QueueBound ==
  ASSUME TypeOK
  PROVE  LeftQueue \in Int
  BY TailFacts DEF TypeOK, HubType, LeftQueue, First, Message

LEMMA Bounds ==
  ASSUME TypeOK, NEW c \in Clients
  PROVE  /\ LeftQueue \in Int /\ LeftDispatch(c) \in Int /\ LeftInbox(c) \in Int
         /\ LeftHold(c) \in Int /\ LeftOut(c) \in Int
  <1>1. LeftQueue \in Int
    BY QueueBound
  <1>2. LeftDispatch(c) \in Int
    BY <1>1 DEF TypeOK, DispatchType, LeftDispatch
  <1>3. LeftInbox(c) \in Int
    BY <1>2, TailFacts DEF TypeOK, DrainType, LeftInbox, First, Message
  <1>4. LeftHold(c) \in Int
    BY <1>3 DEF TypeOK, DrainType, LeftHold
  <1>5. LeftOut(c) \in Int
    BY <1>4, TailFacts DEF TypeOK, DrainType, LeftOut, First, Message
  <1> QED BY <1>1, <1>2, <1>3, <1>4, <1>5

BoundTypes ==
    \A c \in Clients : /\ LeftDispatch(c) \in Int /\ LeftInbox(c) \in Int
                        /\ LeftHold(c) \in Int /\ LeftOut(c) \in Int

LEMMA AllBounds == TypeOK => BoundTypes
  BY Bounds DEF BoundTypes

LEMMA NextBounds == TypeOK' => BoundTypes'
  BY AllBounds, PTL

\* What taking the first message of a queue, and adding one, do to its bounds.
LEMMA Taken ==
  ASSUME NEW s \in Seq(Message), s # <<>>, NEW b \in Int, Sorted(s), UpTo(s, b)
  PROVE  /\ Head(s) \in Message /\ First(s, b) = Head(s) - 1
         /\ Sorted(Tail(s)) /\ UpTo(Tail(s), b)
         /\ Head(s) <= First(Tail(s), b) /\ First(Tail(s), b) \in Int /\ Head(s) <= b
  <1>1. /\ Head(s) \in Message /\ Tail(s) \in Seq(Message) /\ Sorted(Tail(s))
        /\ Tail(s) # <<>> => Head(s) < Head(Tail(s))
        /\ UpTo(Tail(s), b) /\ Head(s) <= b
    BY TailFacts
  <1>2. Tail(s) # <<>> => Head(Tail(s)) \in Message
    BY <1>1, TailFacts
  <1> QED BY <1>1, <1>2 DEF First, Message

LEMMA Put ==
  ASSUME NEW s \in Seq(Message), NEW m \in Message, NEW b \in Int, Sorted(s), UpTo(s, m - 1), m <= b
  PROVE  /\ Sorted(Append(s, m)) /\ UpTo(Append(s, m), b)
         /\ First(Append(s, m), b) = First(s, m - 1)
  <1>1. UpTo(s, b)
    BY UpToMore DEF Message
  <1> QED BY <1>1, AppendFacts DEF First

\* The head of the dispatch loop takes the oldest message.
LEMMA DispatchBeginMoves ==
  ASSUME TypeOK, QueueOrder, DispatchBegin
  PROVE  /\ QueueOrder' /\ Head(queue) <= LeftQueue' /\ LeftQueue' \in Int
         /\ LeftQueue = Head(queue) - 1
  <1>1. sent \in Nat /\ queue \in Seq(Message)
    BY DEF TypeOK, HubType
  <1>2. /\ queue # <<>> /\ bpc' = bpc /\ sent' = sent /\ msg' = Head(queue)
        /\ queue' = Tail(queue)
    BY DEF DispatchBegin
  <1> DEFINE top == IF bpc = "idle" THEN sent ELSE sent - 1
  <1>3. Sorted(queue) /\ UpTo(queue, top) /\ top \in Int
    BY <1>1 DEF QueueOrder
  <1>4. LeftQueue' = First(Tail(queue), top) /\ LeftQueue = Head(queue) - 1
    BY <1>2 DEF LeftQueue, First
  <1>5. QueueOrder' <=> /\ Sorted(Tail(queue)) /\ UpTo(Tail(queue), top)
                        /\ bpc # "idle" => sent > 0
                        /\ Head(queue) <= LeftQueue'
    BY <1>2 DEF QueueOrder
  <1> HIDE DEF top
  <1>6. /\ Sorted(Tail(queue)) /\ UpTo(Tail(queue), top)
        /\ Head(queue) <= First(Tail(queue), top) /\ First(Tail(queue), top) \in Int
    BY <1>1, <1>2, <1>3, Taken
  <1>7. QueueOrder'
    BY <1>4, <1>5, <1>6 DEF QueueOrder
  <1> QED BY <1>4, <1>6, <1>7

\* The sniffer and the head of the dispatch loop.
LEMMA QueueStep ==
  ASSUME TypeOK, DispatchInv, QueueOrder, Next
  PROVE  QueueOrder' /\ LeftQueue <= LeftQueue'
  <1> USE DEF TypeOK, HubType, DispatchType
  <1>1. LeftQueue \in Int /\ sent \in Nat /\ msg \in Nat /\ queue \in Seq(Message)
    BY QueueBound
  <1>2. CASE Broadcast
    <2>1. bpc = "idle" /\ sent' = sent + 1 /\ sent' \in Message /\ msg' = msg
      BY <1>1, <1>2 DEF Broadcast, Message, dispatchVars
    <2>2. Sorted(queue) /\ UpTo(queue, sent)
      BY <2>1 DEF QueueOrder
    <2>3. CASE queue' = Append(queue, sent') /\ bpc' = "idle"
      <3>1. Sorted(queue') /\ UpTo(queue', sent')
        <4>1. UpTo(queue, sent')
          BY <1>1, <2>1, <2>2, UpToMore
        <4> QED BY <1>1, <2>1, <2>2, <2>3, <4>1, AppendFacts
      <3>2. LeftQueue' = LeftQueue
        BY <1>1, <2>1, <2>3, AppendFacts DEF LeftQueue, First
      <3> QED BY <1>1, <2>1, <2>3, <3>1, <3>2 DEF QueueOrder
    <2>4. CASE Len(queue) = QueueDepth /\ bpc' = "drop" /\ queue' = queue
      <3>1. queue # <<>>
        BY <2>4, DepthAssumption
      <3>2. LeftQueue' = LeftQueue
        BY <2>4, <3>1 DEF LeftQueue, First
      <3> QED BY <1>1, <2>1, <2>2, <2>4, <3>2 DEF QueueOrder
    <2> QED BY <1>2, <2>3, <2>4 DEF Broadcast
  <1>3. CASE BroadcastDrop
    <2>1. /\ bpc = "drop" /\ bpc' = "resend" /\ sent' = sent /\ msg' = msg
          /\ queue' = IF queue # <<>> THEN Tail(queue) ELSE queue
      BY <1>3 DEF BroadcastDrop, dispatchVars
    <2>2. Sorted(queue) /\ UpTo(queue, sent - 1) /\ sent > 0
      BY <2>1 DEF QueueOrder
    <2>3. CASE queue = <<>>
      BY <1>1, <2>1, <2>2, <2>3 DEF QueueOrder, LeftQueue, First
    <2>4. CASE queue # <<>>
      <3>1. /\ Sorted(Tail(queue)) /\ UpTo(Tail(queue), sent - 1) /\ Head(queue) <= sent - 1
            /\ Tail(queue) # <<>> => Head(queue) < Head(Tail(queue))
            /\ Head(queue) \in Int /\ Tail(queue) \in Seq(Message)
        BY <1>1, <2>2, <2>4, TailFacts DEF Message
      <3>2. Tail(queue) # <<>> => Head(Tail(queue)) \in Int
        BY <3>1, TailFacts DEF Message
      <3>3. LeftQueue <= LeftQueue' /\ LeftQueue' \in Int
        BY <1>1, <2>1, <2>4, <3>1, <3>2 DEF LeftQueue, First
      <3> QED BY <1>1, <2>1, <2>2, <2>4, <3>1, <3>3 DEF QueueOrder
    <2> QED BY <2>3, <2>4
  <1>4. CASE BroadcastResend
    <2>1. /\ bpc = "resend" /\ bpc' = "idle" /\ sent' = sent /\ msg' = msg
          /\ queue' = Append(queue, sent)
      BY <1>4 DEF BroadcastResend, DispatchInv, dispatchVars
    <2>2. Sorted(queue) /\ UpTo(queue, sent - 1) /\ sent > 0 /\ sent \in Message
      BY <1>1, <2>1 DEF QueueOrder, Message
    <2>3. Sorted(queue') /\ UpTo(queue', sent)
      <3>1. UpTo(queue, sent)
        BY <1>1, <2>2, UpToMore
      <3> QED BY <1>1, <2>1, <2>2, <3>1, AppendFacts
    <2>4. LeftQueue' = LeftQueue
      BY <1>1, <2>1, <2>2, AppendFacts DEF LeftQueue, First
    <2> QED BY <1>1, <2>1, <2>2, <2>3, <2>4 DEF QueueOrder
  <1>5. CASE DispatchBegin
    <2>1. Head(queue) \in Int
      BY <1>1, <1>5, TailFacts DEF DispatchBegin, Message
    <2> QED BY <1>1, <1>5, <2>1, DispatchBeginMoves, QueueBound DEF LeftQueue
  <1>6. CASE DispatchDone
    <2>1. LeftQueue' = LeftQueue /\ UNCHANGED <<queue, sent, bpc>> /\ msg' = 0
      BY <1>6 DEF DispatchDone, hubVars, LeftQueue
    <2>2. 0 <= LeftQueue
      BY <1>1 DEF QueueOrder
    <2> QED BY <1>1, <1>6, <2>1, <2>2 DEF QueueOrder
  <1>7. ASSUME UNCHANGED <<queue, sent, bpc, msg>>
        PROVE  QueueOrder' /\ LeftQueue <= LeftQueue'
    BY <1>1, <1>7 DEF QueueOrder, LeftQueue
  <1> HIDE DEF TypeOK, HubType, DispatchType
  <1>8. CASE Close
    BY <1>7, <1>8 DEF Close, dispatchVars
  <1>9. CASE DispatchStep
    BY <1>5, <1>6, <1>7, <1>9
    DEF DispatchStep, DispatchEnds, DispatchSend, DispatchDrop, DispatchResend, hubVars
  <1>10. ASSUME NEW c \in Clients, DrainStep(c) \/ HandlerStep(c) \/ WatcherStep(c) \/ Register(c)
                               \/ Disconnect(c) \/ HandlerWritten(c)
        PROVE  UNCHANGED <<queue, sent, bpc, msg>>
    BY <1>10
    DEF DrainStep, HandlerStep, WatcherStep, Register, Disconnect, hubVars, dispatchVars,
        HandlerWritten, DrainTake, DrainSend, DrainMakeRoom, DrainEnds, HandlerTake,
        HandlerWriteFails, HandlerLoopEnds, HandlerUnregister, HandlerClose,
        WatcherUnregister, WatcherClose
  <1> QED
    BY <1>2, <1>3, <1>4, <1>7, <1>8, <1>9, <1>10 DEF Next, SnifferStep

\* The way to client c, from a place on, when the bound of what comes next goes up.
LEMMA OutKeeps ==
  ASSUME TypeOK, TypeOK', NEW c \in Clients, ClientOrder(c),
         out'[c] = out[c], last'[c] = last[c], LeftHold(c) <= LeftHold(c)'
  PROVE  Sorted(out'[c]) /\ UpTo(out'[c], LeftHold(c)') /\ last'[c] <= LeftOut(c)'
  <1>1. out[c] \in Seq(Message) /\ last[c] \in Nat
    BY DEF TypeOK, DrainType, RequestType
  <1>2. LeftHold(c) \in Int /\ LeftOut(c) \in Int /\ LeftHold(c)' \in Int /\ LeftOut(c)' \in Int
    BY Bounds, NextBounds DEF BoundTypes
  <1>3. LeftOut(c) <= LeftOut(c)'
    BY <1>1, <1>2 DEF LeftOut, First
  <1>4. UpTo(out[c], LeftHold(c)')
    BY <1>1, <1>2, UpToMore DEF ClientOrder
  <1> QED BY <1>1, <1>2, <1>3, <1>4 DEF ClientOrder

LEMMA HoldKeeps ==
  ASSUME TypeOK, TypeOK', NEW c \in Clients, ClientOrder(c),
         hold'[c] = hold[c], out'[c] = out[c], last'[c] = last[c], LeftInbox(c) <= LeftInbox(c)'
  PROVE  /\ hold'[c] <= LeftInbox(c)'
         /\ Sorted(out'[c]) /\ UpTo(out'[c], LeftHold(c)') /\ last'[c] <= LeftOut(c)'
  <1>1. hold[c] \in Nat
    BY DEF TypeOK, DrainType
  <1>2. LeftInbox(c) \in Int /\ LeftInbox(c)' \in Int
    BY Bounds, NextBounds DEF BoundTypes
  <1>3. LeftHold(c) <= LeftHold(c)'
    BY <1>1, <1>2 DEF LeftHold
  <1> QED BY <1>1, <1>2, <1>3, OutKeeps DEF ClientOrder

LEMMA ClientKeeps ==
  ASSUME TypeOK, TypeOK', NEW c \in Clients, ClientOrder(c),
         inbox'[c] = inbox[c], hold'[c] = hold[c], out'[c] = out[c], last'[c] = last[c],
         LeftDispatch(c) <= LeftDispatch(c)'
  PROVE  ClientOrder(c)'
  <1>1. inbox[c] \in Seq(Message)
    BY DEF TypeOK, DrainType
  <1>2. LeftDispatch(c) \in Int /\ LeftDispatch(c)' \in Int
    BY Bounds, NextBounds DEF BoundTypes
  <1>3. LeftInbox(c) \in Int /\ LeftInbox(c)' \in Int
    BY Bounds, NextBounds DEF BoundTypes
  <1>4. LeftInbox(c) <= LeftInbox(c)'
    BY <1>1, <1>2, <1>3 DEF LeftInbox, First
  <1>5. UpTo(inbox[c], LeftDispatch(c)')
    BY <1>1, <1>2, UpToMore DEF ClientOrder
  <1> QED BY <1>4, <1>5, HoldKeeps DEF ClientOrder

\* Dispatch appends the message that c was waiting for.
LEMMA Delivered ==
  ASSUME TypeOK, TypeOK', NEW c \in Clients, QueueOrder, ClientOrder(c), msg # 0,
         Waits(c), ~Waits(c)', inbox'[c] = Append(inbox[c], msg),
         hold'[c] = hold[c], out'[c] = out[c], last'[c] = last[c], UNCHANGED hubVars
  PROVE  ClientOrder(c)'
  <1>1. inbox[c] \in Seq(Message) /\ msg \in Message
    BY DEF TypeOK, DrainType, DispatchType, Message
  <1>2. LeftQueue \in Int /\ msg <= LeftQueue
    BY QueueBound DEF QueueOrder
  <1>3. LeftDispatch(c) = msg - 1 /\ LeftDispatch(c)' = LeftQueue
    BY DEF LeftDispatch, LeftQueue, hubVars
  <1>4. Sorted(inbox[c]) /\ UpTo(inbox[c], msg - 1)
    BY <1>3 DEF ClientOrder
  <1>5. /\ Sorted(inbox'[c]) /\ UpTo(inbox'[c], LeftQueue)
        /\ First(inbox'[c], LeftQueue) = First(inbox[c], msg - 1)
    BY <1>1, <1>2, <1>4, Put
  <1>6. LeftInbox(c)' = LeftInbox(c) /\ LeftInbox(c) \in Int
    BY <1>3, <1>5, Bounds DEF LeftInbox
  <1> QED BY <1>3, <1>5, <1>6, HoldKeeps DEF ClientOrder

LEMMA ClientOrderStep ==
  ASSUME IndInv, TypeOK', Next, NEW c \in Clients
  PROVE  ClientOrder(c)'
  <1>1. /\ TypeOK /\ DispatchInv /\ RegisterInv /\ QueueOrder /\ ClientOrder(c)
        /\ c # "none" /\ LeftQueue \in Int /\ LeftQueue <= LeftQueue'
    BY QueueStep, QueueBound, ClientAssumption DEF IndInv
  <1>2. /\ inbox[c] \in Seq(Message) /\ out[c] \in Seq(Message) /\ hold[c] \in Nat
        /\ last[c] \in Nat /\ msg \in Nat
    BY <1>1 DEF TypeOK, DrainType, RequestType, DispatchType
  <1>3. /\ LeftDispatch(c) \in Int /\ LeftInbox(c) \in Int /\ LeftHold(c) \in Int /\ LeftOut(c) \in Int
        /\ LeftDispatch(c)' \in Int /\ LeftInbox(c)' \in Int /\ LeftHold(c)' \in Int /\ LeftOut(c)' \in Int
    BY <1>1, Bounds, NextBounds DEF BoundTypes
  \* Steps that do not serve c.
  <1>4. ASSUME inbox'[c] = inbox[c], hold'[c] = hold[c], out'[c] = out[c], last'[c] = last[c],
               msg' = msg, Waits(c)' <=> Waits(c)
        PROVE  ClientOrder(c)'
    <2>1. CASE Waits(c)
      <3>1. LeftDispatch(c)' = LeftDispatch(c)
        BY <1>4, <2>1 DEF LeftDispatch
      <3> QED BY <1>1, <1>3, <1>4, <3>1, ClientKeeps
    <2>2. CASE ~Waits(c)
      <3>1. LeftDispatch(c) = LeftQueue /\ LeftDispatch(c)' = LeftQueue'
        BY <1>4, <2>2 DEF LeftDispatch
      <3> QED BY <1>1, <1>4, <3>1, ClientKeeps
    <2> QED BY <2>1, <2>2
  <1>5. CASE Broadcast \/ BroadcastDrop \/ BroadcastResend \/ Close \/ DispatchEnds
    BY <1>4, <1>5
    DEF Broadcast, BroadcastDrop, BroadcastResend, Close, DispatchEnds, dispatchVars, drainVars,
        requestVars, Waits
  <1>6. CASE DispatchBegin
    <2>1. ~Waits(c) /\ msg' = Head(queue) /\ UNCHANGED <<inbox, hold, out, last>>
      BY <1>1, <1>6 DEF DispatchBegin, DispatchInv, Waits, None, drainVars, requestVars
    <2>2. Head(queue) <= LeftQueue' /\ LeftQueue' \in Int /\ LeftQueue = Head(queue) - 1
      BY <1>1, <1>6, DispatchBeginMoves
    <2>3. Head(queue) \in Int
      BY <1>1, <1>6, TailFacts DEF DispatchBegin, TypeOK, HubType, Message
    <2>4. LeftDispatch(c) <= LeftDispatch(c)'
      BY <2>1, <2>2, <2>3 DEF LeftDispatch
    <2> QED BY <1>1, <2>1, <2>4, ClientKeeps
  <1>7. CASE DispatchDone
    <2>1. ~Waits(c) /\ ~Waits(c)' /\ UNCHANGED <<inbox, hold, out, last>>
      BY <1>1, <1>7 DEF DispatchDone, Waits, None, drainVars, requestVars
    <2>2. LeftDispatch(c) <= LeftDispatch(c)'
      BY <1>1, <2>1 DEF LeftDispatch
    <2> QED BY <1>1, <2>1, <2>2, ClientKeeps
  <1>8. ASSUME NEW d \in Clients, DispatchSend(d) PROVE ClientOrder(c)'
    <2>1. CASE d # c \/ (UNCHANGED inbox /\ cur' = [client |-> c, at |-> "drop"])
      <3>1. Waits(c)' <=> Waits(c)
        <4>1. CASE d # c
          <5>1. cur.client = "none" /\ (cur'.client = "none" \/ cur'.client = d)
            BY <1>8 DEF DispatchSend, None
          <5>2. c \in todo' <=> c \in todo
            BY <1>8, <4>1 DEF DispatchSend
          <5> QED BY <1>1, <4>1, <5>1, <5>2 DEF Waits
        <4>2. CASE d = c /\ cur' = [client |-> c, at |-> "drop"]
          BY <1>8, <4>2 DEF DispatchSend, Waits
        <4> QED BY <2>1, <4>1, <4>2
      <3> QED BY <1>1, <1>2, <1>4, <1>8, <2>1, <3>1 DEF DispatchSend, requestVars, TypeOK, DrainType
    <2>2. CASE d = c /\ inbox' = [inbox EXCEPT ![c] = Append(@, msg)] /\ UNCHANGED cur
      <3>1. Waits(c) /\ ~Waits(c)' /\ msg # 0
        BY <1>1, <1>8, <2>2 DEF DispatchSend, DispatchInv, Waits, None
      <3>2. inbox'[c] = Append(inbox[c], msg) /\ UNCHANGED <<hold, out, last, hubVars>>
        BY <1>1, <1>8, <2>2 DEF DispatchSend, requestVars, TypeOK, DrainType
      <3> QED BY <1>1, <3>1, <3>2, Delivered
    <2> QED BY <1>8, <2>1, <2>2 DEF DispatchSend
  <1>9. ASSUME NEW d \in Clients, DispatchDrop(d) PROVE ClientOrder(c)'
    <2>1. UNCHANGED <<hold, out, last, hubVars, msg, todo>> /\ (Waits(c)' <=> Waits(c))
      BY <1>9 DEF DispatchDrop, requestVars, Waits
    <2>2. CASE inbox'[c] = inbox[c]
      BY <1>4, <2>1, <2>2
    <2>3. CASE inbox[c] # <<>> /\ inbox'[c] = Tail(inbox[c])
      <3>1. LeftDispatch(c)' = LeftDispatch(c)
        BY <2>1 DEF LeftDispatch, LeftQueue, hubVars
      <3>2. /\ Sorted(inbox'[c]) /\ UpTo(inbox'[c], LeftDispatch(c)')
            /\ LeftInbox(c) = Head(inbox[c]) - 1 /\ Head(inbox[c]) <= LeftInbox(c)'
            /\ Head(inbox[c]) \in Message
        BY <1>1, <1>2, <1>3, <2>3, <3>1, Taken DEF ClientOrder, LeftInbox
      <3>3. LeftInbox(c) <= LeftInbox(c)'
        BY <1>3, <3>2 DEF Message
      <3> QED BY <1>1, <2>1, <3>2, <3>3, HoldKeeps DEF ClientOrder
    <2> QED BY <1>1, <1>9, <2>2, <2>3 DEF DispatchDrop, TypeOK, DrainType
  <1>10. ASSUME NEW d \in Clients, DispatchResend(d) PROVE ClientOrder(c)'
    <2>1. CASE d # c
      <3>1. Waits(c)' <=> Waits(c)
        BY <1>1, <1>10, <2>1 DEF DispatchResend, Waits, None
      <3> QED BY <1>1, <1>4, <1>10, <2>1, <3>1 DEF DispatchResend, requestVars, TypeOK, DrainType
    <2>2. CASE d = c
      <3>1. Waits(c) /\ ~Waits(c)' /\ msg # 0 /\ Len(inbox[c]) < InboxDepth
        BY <1>1, <1>10, <2>2 DEF DispatchResend, DispatchInv, Waits, None
      <3>2. inbox'[c] = Append(inbox[c], msg) /\ UNCHANGED <<hold, out, last, hubVars>>
        BY <1>1, <1>10, <2>2, <3>1 DEF DispatchResend, requestVars, TypeOK, DrainType
      <3> QED BY <1>1, <3>1, <3>2, Delivered
    <2> QED BY <2>1, <2>2
  <1>11. ASSUME NEW d \in Clients, DrainStep(d) \/ HandlerTake(d), d # c PROVE ClientOrder(c)'
    BY <1>1, <1>4, <1>11
    DEF DrainStep, DrainTake, DrainSend, DrainMakeRoom, DrainEnds, HandlerTake, requestVars,
        dispatchVars, Waits, TypeOK, DrainType, RequestType
  <1>12. CASE DrainTake(c)
    <2>1. /\ hold[c] = 0 /\ hold'[c] = Head(inbox[c]) /\ inbox[c] # <<>>
          /\ inbox'[c] = Tail(inbox[c]) /\ UNCHANGED <<out, last, hubVars, dispatchVars>>
      BY <1>1, <1>12 DEF DrainTake, RegisterInv, TypeOK, DrainType, requestVars
    <2>2. LeftDispatch(c)' = LeftDispatch(c)
      BY <2>1 DEF LeftDispatch, LeftQueue, hubVars, dispatchVars, Waits
    <2>3. /\ Sorted(inbox'[c]) /\ UpTo(inbox'[c], LeftDispatch(c)')
          /\ LeftInbox(c) = Head(inbox[c]) - 1 /\ hold'[c] <= LeftInbox(c)'
          /\ hold'[c] \in Message
      BY <1>1, <1>2, <1>3, <2>1, <2>2, Taken DEF ClientOrder, LeftInbox
    <2>4. LeftHold(c)' = LeftHold(c)
      BY <2>1, <2>3 DEF LeftHold, Message
    <2> QED BY <1>1, <1>3, <2>1, <2>3, <2>4, OutKeeps DEF ClientOrder
  <1>13. CASE DrainSend(c)
    <2>1. UNCHANGED <<inbox, last, hubVars, dispatchVars>>
      BY <1>13 DEF DrainSend, requestVars
    <2>2. LeftInbox(c)' = LeftInbox(c) /\ LeftDispatch(c)' = LeftDispatch(c)
      BY <2>1 DEF LeftInbox, LeftDispatch, LeftQueue, hubVars, dispatchVars, Waits
    <2>3. CASE UNCHANGED <<out, hold>>
      BY <1>4, <2>1, <2>3 DEF dispatchVars, Waits
    <2>4. CASE /\ out' = [out EXCEPT ![c] = Append(@, hold[c])]
               /\ hold' = [hold EXCEPT ![c] = 0]
      <3>1. /\ out'[c] = Append(out[c], hold[c]) /\ hold'[c] = 0 /\ hold[c] \in Message
        BY <1>1, <1>2, <1>13, <2>4 DEF DrainSend, RegisterInv, TypeOK, DrainType, Message
      <3>2. LeftHold(c) = hold[c] - 1 /\ LeftHold(c)' = LeftInbox(c) /\ hold[c] <= LeftInbox(c)
        BY <1>1, <2>2, <3>1 DEF LeftHold, ClientOrder, Message
      <3>3. /\ Sorted(out'[c]) /\ UpTo(out'[c], LeftHold(c)')
            /\ LeftOut(c)' = LeftOut(c)
        BY <1>1, <1>2, <1>3, <3>1, <3>2, Put DEF ClientOrder, LeftOut
      <3>4. 0 <= LeftInbox(c)
        BY <1>3, <3>1, <3>2 DEF Message
      <3> QED BY <1>1, <2>1, <2>2, <3>1, <3>3, <3>4 DEF ClientOrder
    <2> QED BY <1>13, <2>3, <2>4 DEF DrainSend
  <1>14. CASE DrainMakeRoom(c)
    <2>1. UNCHANGED <<inbox, last, hold, hubVars, dispatchVars>>
      BY <1>14 DEF DrainMakeRoom, requestVars
    <2>2. /\ LeftInbox(c)' = LeftInbox(c) /\ LeftDispatch(c)' = LeftDispatch(c)
          /\ LeftHold(c)' = LeftHold(c)
      BY <2>1 DEF LeftHold, LeftInbox, LeftDispatch, LeftQueue, hubVars, dispatchVars, Waits
    <2>3. CASE out'[c] = out[c]
      BY <1>4, <2>1, <2>3 DEF dispatchVars, Waits
    <2>4. CASE out[c] # <<>> /\ out'[c] = Tail(out[c])
      <3>1. /\ Sorted(out'[c]) /\ UpTo(out'[c], LeftHold(c)')
            /\ LeftOut(c) = Head(out[c]) - 1 /\ Head(out[c]) <= LeftOut(c)'
            /\ Head(out[c]) \in Message
        BY <1>1, <1>2, <1>3, <2>2, <2>4, Taken DEF ClientOrder, LeftOut
      <3>2. last[c] <= Head(out[c]) - 1 /\ Head(out[c]) \in Nat
        BY <1>1, <3>1 DEF ClientOrder, Message
      <3>3. last[c] <= LeftOut(c)'
        BY <1>2, <1>3, <3>1, <3>2
      <3> QED BY <1>1, <2>1, <2>2, <3>1, <3>3 DEF ClientOrder
    <2> QED BY <1>1, <1>14, <2>3, <2>4 DEF DrainMakeRoom, TypeOK, DrainType
  <1>15. CASE HandlerTake(c)
    <2>1. /\ UNCHANGED <<inbox, hold, hubVars, dispatchVars>>
          /\ out[c] # <<>> /\ out'[c] = Tail(out[c]) /\ last'[c] = Head(out[c])
      BY <1>1, <1>15 DEF HandlerTake, TypeOK, DrainType, RequestType
    <2>2. /\ LeftInbox(c)' = LeftInbox(c) /\ LeftDispatch(c)' = LeftDispatch(c)
          /\ LeftHold(c)' = LeftHold(c)
      BY <2>1 DEF LeftHold, LeftInbox, LeftDispatch, LeftQueue, hubVars, dispatchVars, Waits
    <2>3. Sorted(out'[c]) /\ UpTo(out'[c], LeftHold(c)') /\ last'[c] <= LeftOut(c)'
      BY <1>1, <1>2, <1>3, <2>1, <2>2, Taken DEF ClientOrder, LeftOut
    <2> QED BY <1>1, <2>1, <2>2, <2>3 DEF ClientOrder
  <1>16. CASE DrainEnds(c)
    BY <1>4, <1>16 DEF DrainEnds, dispatchVars, requestVars, Waits
  <1>17. ASSUME NEW d \in Clients,
                Register(d) \/ Disconnect(d) \/ HandlerWritten(d) \/ HandlerWriteFails(d)
                  \/ HandlerLoopEnds(d) \/ HandlerUnregister(d) \/ HandlerClose(d) \/ WatcherStep(d)
         PROVE  ClientOrder(c)'
    BY <1>4, <1>17
    DEF Register, Disconnect, HandlerWritten, HandlerWriteFails, HandlerLoopEnds, HandlerUnregister,
        HandlerClose, WatcherStep, WatcherUnregister, WatcherClose, Waits, dispatchVars, drainVars
  <1> QED
    BY <1>5, <1>6, <1>7, <1>8, <1>9, <1>10, <1>11, <1>12, <1>13, <1>14, <1>15, <1>16, <1>17
    DEF Next, SnifferStep, DispatchStep, DrainStep, HandlerStep

-----------------------------------------------------------------------------
(***************************************************************************)
(* The newest message.  A place is emptied for a newer message, so what it *)
(* gives up is not the newest.                                             *)
(***************************************************************************)
LEMMA BelowSent ==
  ASSUME IndInv, NEW c \in Clients
  PROVE  /\ LeftQueue <= sent /\ LeftDispatch(c) <= sent /\ LeftInbox(c) <= sent
         /\ LeftHold(c) <= sent
  <1>1. /\ TypeOK /\ QueueOrder /\ ClientOrder(c) /\ sent \in Nat /\ queue \in Seq(Message)
        /\ msg \in Nat /\ inbox[c] \in Seq(Message) /\ hold[c] \in Nat
    BY DEF IndInv, TypeOK, HubType, DispatchType, DrainType
  <1>2. LeftQueue \in Int /\ LeftDispatch(c) \in Int /\ LeftInbox(c) \in Int /\ LeftHold(c) \in Int
    BY <1>1, Bounds
  <1>3. LeftQueue <= sent
    <2>1. CASE queue = <<>>
      BY <1>1, <2>1 DEF LeftQueue, First
    <2>2. CASE queue # <<>>
      <3> DEFINE top == IF bpc = "idle" THEN sent ELSE sent - 1
      <3>1. top \in Int /\ top <= sent /\ Sorted(queue) /\ UpTo(queue, top)
        BY <1>1 DEF QueueOrder
      <3>2. LeftQueue = First(queue, top)
        BY DEF LeftQueue
      <3> HIDE DEF top
      <3>3. Head(queue) \in Message /\ First(queue, top) = Head(queue) - 1 /\ Head(queue) <= top
        BY <1>1, <2>2, <3>1, Taken
      <3> QED BY <1>1, <3>1, <3>2, <3>3 DEF Message
    <2> QED BY <2>1, <2>2
  <1>4. LeftDispatch(c) <= sent
    BY <1>1, <1>2, <1>3 DEF LeftDispatch, QueueOrder
  <1>5. LeftInbox(c) <= sent
    <2>1. CASE inbox[c] = <<>>
      BY <1>4, <2>1 DEF LeftInbox, First
    <2>2. CASE inbox[c] # <<>>
      <3>1. LeftInbox(c) = Head(inbox[c]) - 1 /\ Head(inbox[c]) \in Message
            /\ Head(inbox[c]) <= LeftDispatch(c)
        BY <1>1, <1>2, <2>2, Taken DEF ClientOrder, LeftInbox
      <3> QED BY <1>1, <1>2, <1>4, <3>1 DEF Message
    <2> QED BY <2>1, <2>2
  <1>6. LeftHold(c) <= sent
    BY <1>1, <1>2, <1>5 DEF LeftHold, ClientOrder
  <1> QED BY <1>3, <1>4, <1>5, <1>6

\* The queue, unless the sniffer is in the middle of Broadcast, ends with the newest message.
LEMMA QueueNewestStep ==
  ASSUME IndInv, Next, bpc' = "idle", queue' # <<>>
  PROVE  Holds(queue', sent')
  <1>1. /\ TypeOK /\ QueueOrder /\ NewestInv /\ sent \in Nat /\ queue \in Seq(Message)
    BY DEF IndInv, TypeOK, HubType
  <1>2. CASE Broadcast
    <2>1. queue' = Append(queue, sent') /\ sent' \in Message
      BY <1>1, <1>2 DEF Broadcast, Message
    <2> QED BY <1>1, <2>1, AppendFacts
  <1>3. CASE BroadcastResend
    <2>1. queue' = Append(queue, sent) /\ sent' = sent /\ sent \in Message
      BY <1>1, <1>3 DEF BroadcastResend, IndInv, DispatchInv, QueueOrder, Message
    <2> QED BY <1>1, <2>1, AppendFacts
  <1>4. CASE DispatchBegin
    <2>1. queue # <<>> /\ queue' = Tail(queue) /\ sent' = sent /\ bpc = "idle"
      BY <1>4 DEF DispatchBegin
    <2>2. Holds(queue, sent) /\ Sorted(queue) /\ UpTo(queue, sent)
      BY <1>1, <2>1 DEF NewestInv, QueueOrder
    <2>3. /\ Head(queue) < Head(Tail(queue)) /\ Head(queue) \in Message
          /\ Tail(queue) \in Seq(Message) /\ Tail(queue) # <<>>
      BY <1>1, <2>1, <2>2, TailFacts
    <2>4. sent \in Int /\ Sorted(Tail(queue)) /\ UpTo(Tail(queue), sent)
      BY <1>1, <2>1, <2>2, Taken
    <2>5. Head(Tail(queue)) <= sent /\ Head(Tail(queue)) \in Message
      BY <2>3, <2>4, Taken
    <2>6. Head(queue) # sent
      BY <1>1, <2>3, <2>5 DEF Message
    <2> QED BY <1>1, <2>1, <2>2, <2>6, TailFacts
  <1>5. ASSUME UNCHANGED <<queue, sent, bpc>> PROVE Holds(queue', sent')
    BY <1>1, <1>5 DEF NewestInv
  <1>6. ~BroadcastDrop
    BY DEF BroadcastDrop
  <1>7. ASSUME NEW c \in Clients, DrainStep(c) \/ HandlerStep(c) \/ WatcherStep(c) \/ Register(c)
                               \/ Disconnect(c) \/ HandlerWritten(c)
        PROVE  UNCHANGED <<queue, sent, bpc>>
    BY <1>7
    DEF DrainStep, HandlerStep, WatcherStep, Register, Disconnect, hubVars,
        HandlerWritten, DrainTake, DrainSend, DrainMakeRoom, DrainEnds, HandlerTake,
        HandlerWriteFails, HandlerLoopEnds, HandlerUnregister, HandlerClose,
        WatcherUnregister, WatcherClose
  <1>8. CASE Close
    BY <1>5, <1>8 DEF Close
  <1>9. CASE DispatchStep
    BY <1>4, <1>5, <1>9
    DEF DispatchStep, DispatchEnds, DispatchDone, DispatchSend, DispatchDrop, DispatchResend, hubVars
  <1> QED BY <1>2, <1>3, <1>5, <1>6, <1>7, <1>8, <1>9 DEF Next, SnifferStep

LEMMA NewestStep ==
  ASSUME IndInv, Next, NEW c \in registered', sent' > since'[c]
  PROVE  Newest(c)'
  <1>1. /\ TypeOK /\ DispatchInv /\ RegisterInv /\ QueueOrder /\ NewestInv
        /\ \A d \in Clients : ClientOrder(d)
        /\ sent \in Nat /\ queue \in Seq(Message) /\ msg \in Nat
    BY DEF IndInv, TypeOK, HubType, DispatchType
  <1>2. c \in Clients
    BY <1>1, DispatchTypeStep DEF DispatchType
  <1>3. /\ ClientOrder(c) /\ inbox[c] \in Seq(Message) /\ out[c] \in Seq(Message) /\ hold[c] \in Nat
        /\ last[c] \in Nat /\ since[c] \in Nat
    BY <1>1, <1>2 DEF TypeOK, DrainType, RequestType
  <1>4. LeftDispatch(c) \in Int /\ LeftInbox(c) \in Int /\ LeftHold(c) \in Int /\ LeftOut(c) \in Int
    BY <1>1, <1>2, Bounds
  <1>5. c \in registered /\ sent > since[c] => Newest(c)
    BY <1>1 DEF NewestInv
  <1>6. CASE Broadcast
    <2>1. CASE queue' = Append(queue, sent')
      <3>1. Holds(queue', sent')
        BY <1>1, <1>6, <2>1, AppendFacts DEF Broadcast, Message
      <3> QED BY <3>1 DEF Newest
    <2>2. CASE bpc' = "drop"
      BY <2>2 DEF Newest
    <2> QED BY <1>6, <2>1, <2>2 DEF Broadcast
  <1>7. CASE BroadcastDrop
    BY <1>7 DEF BroadcastDrop, Newest
  <1>8. CASE BroadcastResend
    <2>1. queue' = Append(queue, sent) /\ sent' = sent /\ sent \in Message
      BY <1>1, <1>8 DEF BroadcastResend, DispatchInv, QueueOrder, Message
    <2>2. Holds(queue', sent')
      BY <1>1, <2>1, AppendFacts
    <2> QED BY <2>2 DEF Newest
  <1>9. CASE DispatchBegin
    <2>1. /\ Newest(c) /\ ~Waits(c) /\ Waits(c)' /\ msg' = Head(queue) /\ queue # <<>>
          /\ queue' = Tail(queue) /\ UNCHANGED <<sent, bpc, inbox, hold, out, last>>
      BY <1>1, <1>2, <1>5, <1>9, ClientAssumption
      DEF DispatchBegin, DispatchInv, Waits, None, drainVars, requestVars
    <2>2. Holds(queue, sent) => sent = Head(queue) \/ Holds(Tail(queue), sent)
      BY <1>1, <2>1, TailFacts
    <2> QED BY <2>1, <2>2 DEF Newest
  <1>10. CASE DispatchDone
    <2>1. Newest(c) /\ ~Waits(c) /\ UNCHANGED <<queue, sent, bpc, inbox, hold, out, last>>
      BY <1>2, <1>5, <1>10, ClientAssumption
      DEF DispatchDone, Waits, None, hubVars, drainVars, requestVars
    <2> QED BY <2>1 DEF Newest
  \* Dispatch sends to c, or makes room for it.
  <1>11. ASSUME Newest(c), UNCHANGED <<queue, sent, bpc, hold, out, last>>, msg # 0,
                inbox'[c] = Append(inbox[c], msg)
         PROVE  Newest(c)'
    <2>1. (Holds(inbox[c], sent) \/ msg = sent) => Holds(inbox'[c], sent)
      BY <1>1, <1>3, <1>11, AppendFacts DEF Message
    <2> QED BY <1>11, <2>1 DEF Newest
  <1>12. ASSUME UNCHANGED <<queue, sent, bpc, msg>>, Newest(c), Waits(c) => Waits(c)',
                inbox'[c] = inbox[c], hold'[c] = hold[c], out'[c] = out[c], last'[c] = last[c]
         PROVE  Newest(c)'
    BY <1>12 DEF Newest
  <1>13. ASSUME NEW d \in Clients, DispatchSend(d) PROVE Newest(c)'
    <2>1. Newest(c) /\ UNCHANGED <<queue, sent, bpc, hold, out, last, msg>> /\ msg # 0
      BY <1>1, <1>5, <1>13 DEF DispatchSend, DispatchInv, hubVars, requestVars
    <2>2. CASE d = c /\ inbox' = [inbox EXCEPT ![c] = Append(@, msg)]
      <3>1. inbox'[c] = Append(inbox[c], msg)
        BY <1>1, <2>2 DEF TypeOK, DrainType
      <3> QED BY <1>11, <2>1, <3>1
    <2>3. CASE d # c
      <3>1. (Waits(c) => Waits(c)') /\ inbox'[c] = inbox[c]
        BY <1>1, <1>2, <1>13, <2>3, ClientAssumption DEF DispatchSend, Waits, None, TypeOK, DrainType
      <3> QED BY <1>12, <2>1, <3>1
    <2>4. CASE d = c /\ UNCHANGED inbox /\ cur' = [client |-> c, at |-> "drop"]
      BY <1>12, <2>1, <2>4 DEF Waits
    <2> QED BY <1>13, <2>2, <2>3, <2>4 DEF DispatchSend
  <1>14. ASSUME NEW d \in Clients, DispatchDrop(d) PROVE Newest(c)'
    <2>1. /\ Newest(c) /\ UNCHANGED <<queue, sent, bpc, hold, out, last, msg>>
          /\ (Waits(c) => Waits(c)')
      BY <1>5, <1>14 DEF DispatchDrop, hubVars, requestVars, Waits
    <2>2. CASE inbox'[c] = inbox[c]
      BY <1>12, <2>1, <2>2
    <2>3. CASE d = c /\ inbox[c] # <<>> /\ inbox'[c] = Tail(inbox[c])
      <3>1. Waits(c)
        BY <1>14, <2>3 DEF DispatchDrop, Waits
      <3>2. LeftDispatch(c) = msg - 1 /\ msg <= LeftQueue /\ LeftQueue <= sent /\ LeftQueue \in Int
        BY <1>1, <1>2, <3>1, BelowSent, QueueBound DEF LeftDispatch, QueueOrder
      <3>3. Head(inbox[c]) <= LeftDispatch(c) /\ Head(inbox[c]) \in Message
        BY <1>3, <1>4, <2>3, Taken DEF ClientOrder
      <3>4. Head(inbox[c]) # sent
        BY <1>1, <3>2, <3>3 DEF Message
      <3>5. Holds(inbox[c], sent) => Holds(inbox'[c], sent)
        BY <1>3, <2>3, <3>4, TailFacts
      <3> QED BY <2>1, <3>5 DEF Newest
    <2> QED BY <1>1, <1>2, <1>14, <2>2, <2>3 DEF DispatchDrop, TypeOK, DrainType
  <1>15. ASSUME NEW d \in Clients, DispatchResend(d) PROVE Newest(c)'
    <2>1. Newest(c) /\ UNCHANGED <<queue, sent, bpc, hold, out, last, msg>>
      BY <1>5, <1>15 DEF DispatchResend, hubVars, requestVars
    <2>2. CASE d = c
      <3>1. Len(inbox[c]) < InboxDepth /\ msg # 0
        BY <1>1, <1>15, <2>2, ClientAssumption DEF DispatchResend, DispatchInv, None
      <3>2. inbox'[c] = Append(inbox[c], msg)
        BY <1>1, <1>15, <2>2, <3>1 DEF DispatchResend, TypeOK, DrainType
      <3> QED BY <1>11, <2>1, <3>1, <3>2
    <2>3. CASE d # c
      <3>1. (Waits(c) => Waits(c)') /\ inbox'[c] = inbox[c]
        BY <1>1, <1>2, <1>15, <2>3, ClientAssumption DEF DispatchResend, Waits, None, TypeOK, DrainType
      <3> QED BY <1>12, <2>1, <3>1
    <2> QED BY <2>2, <2>3
  <1>16. ASSUME NEW d \in Clients, DrainStep(d) \/ HandlerTake(d), d # c PROVE Newest(c)'
    <2>1. /\ Newest(c) /\ UNCHANGED <<queue, sent, bpc, msg, todo, cur>>
          /\ inbox'[c] = inbox[c] /\ hold'[c] = hold[c] /\ out'[c] = out[c] /\ last'[c] = last[c]
      BY <1>1, <1>2, <1>5, <1>16
      DEF DrainStep, DrainTake, DrainSend, DrainMakeRoom, DrainEnds, HandlerTake, requestVars,
          hubVars, dispatchVars, TypeOK, DrainType, RequestType
    <2> QED BY <1>12, <2>1 DEF Waits
  <1>17. CASE DrainTake(c)
    <2>0. UNCHANGED <<queue, sent, bpc, out, last, msg, todo, cur, registered, since>>
      BY <1>17 DEF DrainTake, requestVars, hubVars, dispatchVars
    <2>1. /\ Newest(c) /\ sent # 0 /\ hold[c] = 0 /\ hold'[c] = Head(inbox[c])
          /\ inbox[c] # <<>> /\ inbox'[c] = Tail(inbox[c])
      BY <1>1, <1>2, <1>3, <1>5, <1>17, <2>0 DEF DrainTake, RegisterInv, TypeOK, DrainType
    <2>2. Holds(inbox[c], sent) => hold'[c] = sent \/ Holds(inbox'[c], sent)
      BY <1>3, <2>1, TailFacts
    <2> QED BY <2>0, <2>1, <2>2 DEF Newest, Waits
  <1>18. CASE DrainSend(c)
    <2>1. /\ Newest(c) /\ UNCHANGED <<queue, sent, bpc, last, msg, todo, cur, inbox>>
      BY <1>5, <1>18 DEF DrainSend, requestVars, hubVars, dispatchVars
    <2>2. CASE UNCHANGED <<out, hold>>
      BY <1>12, <2>1, <2>2 DEF Waits
    <2>3. CASE out' = [out EXCEPT ![c] = Append(@, hold[c])]
      <3>1. out'[c] = Append(out[c], hold[c]) /\ hold[c] \in Message
        BY <1>1, <1>2, <1>3, <1>18, <2>3 DEF DrainSend, RegisterInv, TypeOK, DrainType, Message
      <3>2. Holds(out[c], sent) \/ hold[c] = sent => Holds(out'[c], sent)
        BY <1>3, <3>1, AppendFacts
      <3> QED BY <2>1, <3>2 DEF Newest, Waits
    <2> QED BY <1>18, <2>2, <2>3 DEF DrainSend
  <1>19. CASE DrainMakeRoom(c)
    <2>1. Newest(c) /\ UNCHANGED <<queue, sent, bpc, last, msg, todo, cur, inbox, hold>>
      BY <1>5, <1>19 DEF DrainMakeRoom, requestVars, hubVars, dispatchVars
    <2>2. CASE out'[c] = out[c]
      BY <1>12, <2>1, <2>2 DEF Waits
    <2>3. CASE out[c] # <<>> /\ out'[c] = Tail(out[c])
      <3>1. LeftHold(c) = hold[c] - 1 /\ hold[c] <= LeftInbox(c) /\ LeftInbox(c) <= sent
        BY <1>1, <1>2, <1>3, <1>19, BelowSent DEF DrainMakeRoom, RegisterInv, LeftHold, ClientOrder
      <3>2. Head(out[c]) <= LeftHold(c) /\ Head(out[c]) \in Message
        BY <1>3, <1>4, <2>3, Taken DEF ClientOrder
      <3>3. Head(out[c]) # sent
        BY <1>1, <1>3, <1>4, <3>1, <3>2 DEF Message
      <3>4. Holds(out[c], sent) => Holds(out'[c], sent)
        BY <1>3, <2>3, <3>3, TailFacts
      <3> QED BY <2>1, <3>4 DEF Newest, Waits
    <2> QED BY <1>1, <1>2, <1>19, <2>2, <2>3 DEF DrainMakeRoom, TypeOK, DrainType
  <1>20. CASE HandlerTake(c)
    <2>1. /\ Newest(c) /\ UNCHANGED <<queue, sent, bpc, inbox, hold, msg, todo, cur>>
          /\ out[c] # <<>> /\ out'[c] = Tail(out[c]) /\ last'[c] = Head(out[c])
      BY <1>1, <1>2, <1>5, <1>20 DEF HandlerTake, TypeOK, DrainType, RequestType, hubVars, dispatchVars
    <2>2. /\ last[c] <= Head(out[c]) - 1 /\ Head(out[c]) <= LeftHold(c) /\ Head(out[c]) \in Message
          /\ LeftHold(c) <= sent
      BY <1>2, <1>3, <1>4, <2>1, Taken, BelowSent DEF ClientOrder, LeftOut
    <2>3. last[c] # sent
      BY <1>1, <1>3, <1>4, <2>2 DEF Message
    <2>4. Holds(out[c], sent) => last'[c] = sent \/ Holds(out'[c], sent)
      BY <1>3, <2>1, TailFacts
    <2> QED BY <2>1, <2>3, <2>4 DEF Newest, Waits
  <1>21. CASE Register(c)
    <2>1. UNCHANGED <<queue, sent, bpc>> /\ since'[c] = LeftQueue
      BY <1>1, <1>2, <1>21 DEF Register, hubVars, TypeOK, RequestType, LeftQueue, First
    <2>2. CASE bpc # "idle"
      BY <2>1, <2>2 DEF Newest
    <2>3. CASE bpc = "idle"
      <3>1. queue # <<>>
        BY <1>1, <2>1, <2>3 DEF LeftQueue, First
      <3>2. Holds(queue, sent)
        BY <1>1, <2>3, <3>1 DEF NewestInv
      <3> QED BY <2>1, <3>2 DEF Newest
    <2> QED BY <2>2, <2>3
  <1>22. ASSUME c \in registered, UNCHANGED <<hubVars, dispatchVars, inbox, out, hold, last>>,
                since'[c] = since[c]
         PROVE  Newest(c)'
    BY <1>5, <1>12, <1>22 DEF hubVars, dispatchVars, Waits
  <1>23. ASSUME NEW d \in Clients,
                Register(d) \/ Disconnect(d) \/ HandlerWritten(d) \/ HandlerWriteFails(d)
                  \/ HandlerLoopEnds(d) \/ HandlerUnregister(d) \/ HandlerClose(d) \/ WatcherStep(d)
                  \/ DrainEnds(d)
         PROVE  Newest(c)'
    <2>1. CASE Register(d)
      <3>1. CASE d # c
        BY <1>1, <1>2, <1>22, <2>1, <3>1 DEF Register, TypeOK, RequestType
      <3> QED BY <1>21, <2>1, <3>1
    <2>2. CASE HandlerUnregister(d) \/ WatcherUnregister(d)
      BY <1>22, <2>2 DEF HandlerUnregister, WatcherUnregister, Leave, drainVars
    <2>3. CASE Disconnect(d) \/ HandlerWritten(d) \/ HandlerWriteFails(d)
                  \/ HandlerLoopEnds(d) \/ HandlerClose(d) \/ WatcherClose(d) \/ DrainEnds(d)
      BY <1>22, <2>3
      DEF Disconnect, HandlerWritten, HandlerWriteFails, HandlerLoopEnds, HandlerClose,
          WatcherClose, DrainEnds, drainVars, requestVars
    <2> QED BY <1>23, <2>1, <2>2, <2>3 DEF WatcherStep
  <1>24. CASE Close \/ DispatchEnds
    BY <1>5, <1>12, <1>24 DEF Close, DispatchEnds, hubVars, dispatchVars, drainVars, requestVars, Waits
  <1> QED
    BY <1>6, <1>7, <1>8, <1>9, <1>10, <1>13, <1>14, <1>15, <1>16, <1>17, <1>18, <1>19, <1>20,
       <1>23, <1>24
    DEF Next, SnifferStep, DispatchStep, DrainStep, HandlerStep

-----------------------------------------------------------------------------
LEMMA NextIndInv ==
  ASSUME IndInv, [Next]_vars
  PROVE  IndInv'
  <1>1. CASE Next
    <2>1. TypeOK /\ DispatchInv /\ RegisterInv /\ QueueOrder
      BY DEF IndInv
    <2>2. TypeOK'
      BY <1>1, <2>1, HubTypeStep, DispatchTypeStep, DrainTypeStep, RequestTypeStep DEF TypeOK
    <2>3. DispatchInv' /\ RegisterInv' /\ QueueOrder'
      BY <1>1, <2>1, DispatchInvStep, RegisterInvStep, QueueStep
    <2>4. \A c \in Clients : ClientOrder(c)'
      BY <1>1, <2>2, ClientOrderStep
    <2>5. NewestInv'
      BY <1>1, QueueNewestStep, NewestStep DEF NewestInv
    <2> QED BY <2>2, <2>3, <2>4, <2>5 DEF IndInv
  <1>2. CASE UNCHANGED vars
    <2> USE <1>2 DEF IndInv, vars, hubVars, dispatchVars, drainVars, requestVars
    <2>1. TypeOK'
      BY DEF TypeOK, HubType, DispatchType, DrainType, RequestType
    <2>2. DispatchInv'
      BY DEF DispatchInv
    <2>3. RegisterInv'
      BY DEF RegisterInv
    <2>4. QueueOrder'
      BY DEF QueueOrder, LeftQueue
    <2>5. \A c \in Clients : ClientOrder(c)'
      BY DEF ClientOrder, LeftOut, LeftHold, LeftInbox, LeftDispatch, LeftQueue, Waits
    <2>6. NewestInv'
      BY DEF NewestInv, Newest, Waits
    <2> QED BY <2>1, <2>2, <2>3, <2>4, <2>5, <2>6
  <1> QED BY <1>1, <1>2

\* The inductive invariant of the hub: every message on its way to a client is above
\* those that went before it, and the newest one is on every way.
THEOREM Inductive == Spec => []IndInv
  <1>1. Init => IndInv
    BY InitIndInv
  <1>2. IndInv /\ [Next]_vars => IndInv'
    BY NextIndInv
  <1> QED BY <1>1, <1>2, PTL DEF Spec

-----------------------------------------------------------------------------
(***************************************************************************)
(* The whole way to a client: the places in a row.                         *)
(***************************************************************************)
LEMMA Joined ==
  ASSUME NEW s \in Seq(Message), NEW t \in Seq(Message), NEW a \in Int, NEW b \in Int,
         Sorted(s), UpTo(s, a), Sorted(t), UpTo(t, b), a <= First(t, b)
  PROVE  s \o t \in Seq(Message) /\ Sorted(s \o t) /\ UpTo(s \o t, b)
  <1>1. /\ s \o t \in Seq(Message) /\ Len(s \o t) = Len(s) + Len(t)
        /\ Len(s) \in Nat /\ Len(t) \in Nat
    OBVIOUS
  <1>2. ASSUME NEW i \in 1..Len(s \o t)
        PROVE  (s \o t)[i] = IF i <= Len(s) THEN s[i] ELSE t[i - Len(s)]
    BY <1>1, <1>2
  <1>3. /\ \A i \in 1..Len(s) : s[i] \in Nat /\ s[i] <= a
        /\ \A i \in 1..Len(t) : t[i] \in Nat /\ t[i] <= b
    BY DEF UpTo, Message
  <1>4. ASSUME NEW i \in 1..Len(t) PROVE a < t[i]
    <2>1. t # <<>> /\ Head(t) = t[1] /\ First(t, b) = t[1] - 1
      BY DEF First
    <2>2. t[1] <= t[i]
      BY <1>1, <1>3, <1>4 DEF Sorted
    <2> QED BY <1>1, <1>3, <1>4, <2>1, <2>2
  <1>5. a <= b
    <2>1. CASE t = <<>>
      BY <2>1 DEF First
    <2>2. CASE t # <<>>
      <3>1. 1 \in 1..Len(t)
        BY <1>1, <2>2
      <3> QED BY <1>3, <1>4, <3>1
    <2> QED BY <2>1, <2>2
  <1>6. UpTo(s \o t, b)
    <2> SUFFICES ASSUME NEW i \in 1..Len(s \o t) PROVE (s \o t)[i] <= b
      BY DEF UpTo
    <2>1. CASE i <= Len(s)
      BY <1>1, <1>2, <1>3, <1>5, <2>1
    <2>2. CASE i > Len(s)
      <3>1. i - Len(s) \in 1..Len(t)
        BY <1>1, <2>2
      <3> QED BY <1>1, <1>2, <1>3, <2>2, <3>1
    <2> QED BY <1>1, <2>1, <2>2
  <1>7. Sorted(s \o t)
    <2> SUFFICES ASSUME NEW i \in 1..Len(s \o t), NEW j \in 1..Len(s \o t), i < j
                 PROVE  (s \o t)[i] < (s \o t)[j]
      BY DEF Sorted
    <2>1. CASE j <= Len(s)
      BY <1>1, <1>2, <2>1 DEF Sorted
    <2>2. CASE i <= Len(s) /\ j > Len(s)
      <3>1. j - Len(s) \in 1..Len(t) /\ i \in 1..Len(s)
        BY <1>1, <2>2
      <3>2. (s \o t)[i] = s[i] /\ (s \o t)[j] = t[j - Len(s)]
        BY <1>1, <1>2, <2>2
      <3> QED BY <1>3, <1>4, <3>1, <3>2
    <2>3. CASE i > Len(s)
      <3>1. i - Len(s) \in 1..Len(t) /\ j - Len(s) \in 1..Len(t) /\ i - Len(s) < j - Len(s)
        BY <1>1, <2>3
      <3>2. (s \o t)[i] = t[i - Len(s)] /\ (s \o t)[j] = t[j - Len(s)]
        BY <1>1, <1>2, <2>3
      <3> QED BY <3>1, <3>2 DEF Sorted
    <2> QED BY <1>1, <2>1, <2>2, <2>3
  <1> QED BY <1>1, <1>6, <1>7

LEMMA JoinedHolds ==
  ASSUME NEW s \in Seq(Message), NEW t \in Seq(Message), NEW x, Holds(s, x) \/ Holds(t, x)
  PROVE  Holds(s \o t, x)
  <1>1. Len(s \o t) = Len(s) + Len(t) /\ Len(s) \in Nat /\ Len(t) \in Nat
    OBVIOUS
  <1>2. CASE Holds(s, x)
    <2>1. PICK i \in 1..Len(s) : s[i] = x
      BY <1>2 DEF Holds
    <2>2. i \in 1..Len(s \o t) /\ (s \o t)[i] = x
      BY <1>1, <2>1
    <2> QED BY <2>2 DEF Holds
  <1>3. CASE Holds(t, x)
    <2>1. PICK i \in 1..Len(t) : t[i] = x
      BY <1>3 DEF Holds
    <2>2. i + Len(s) \in 1..Len(s \o t) /\ (s \o t)[i + Len(s)] = x
      BY <1>1, <2>1
    <2> QED BY <2>2 DEF Holds
  <1> QED BY <1>2, <1>3

\* A place for one message.
LEMMA Single ==
  ASSUME NEW m \in Message, NEW b \in Int, m <= b
  PROVE  /\ <<m>> \in Seq(Message) /\ Sorted(<<m>>) /\ UpTo(<<m>>, b)
         /\ First(<<m>>, b) = m - 1 /\ Holds(<<m>>, m)
  BY DEF Sorted, UpTo, First, Holds, Message

LEMMA WaySorted ==
  ASSUME IndInv, NEW c \in Clients
  PROVE  /\ Way(c) \in Seq(Message) /\ Sorted(Way(c)) /\ UpTo(Way(c), sent)
         /\ Newest(c) /\ sent # 0 => Holds(Way(c), sent)
  <1>1. /\ TypeOK /\ DispatchInv /\ QueueOrder /\ ClientOrder(c) /\ sent \in Nat
        /\ queue \in Seq(Message)
        /\ msg \in Nat /\ inbox[c] \in Seq(Message) /\ hold[c] \in Nat
        /\ out[c] \in Seq(Message) /\ last[c] \in Nat
    BY DEF IndInv, TypeOK, HubType, DispatchType, DrainType, RequestType
  <1>2. /\ LeftQueue \in Int /\ LeftDispatch(c) \in Int /\ LeftInbox(c) \in Int
        /\ LeftHold(c) \in Int /\ LeftOut(c) \in Int
    BY <1>1, Bounds
  <1>3. Waits(c) => msg # 0
    <2>1. CASE c \in todo
      BY <1>1, <2>1 DEF DispatchInv
    <2>2. CASE cur.client = c
      <3>1. cur # None
        BY <2>2, ClientAssumption DEF None
      <3> QED BY <1>1, <3>1 DEF DispatchInv
    <2> QED BY <2>1, <2>2 DEF Waits
  <1> DEFINE top == IF bpc = "idle" THEN sent ELSE sent - 1
             A == IF Waits(c) THEN <<msg>> ELSE <<>>
             B == IF bpc # "idle" THEN <<sent>> ELSE <<>>
             p1 == One(last[c])
             p2 == p1 \o out[c]
             p3 == p2 \o One(hold[c])
             p4 == p3 \o inbox[c]
             p5 == p4 \o A
             p6 == p5 \o queue
             p7 == p6 \o B
             Good(p, b) == p \in Seq(Message) /\ Sorted(p) /\ UpTo(p, b)
  <1>4. Way(c) = p7
    BY DEF Way, Waits
  <1>5. Good(p1, LeftOut(c)) /\ (last[c] = sent /\ sent # 0 => Holds(p1, sent))
    <2>1. CASE last[c] = 0
      BY <2>1, EmptyFacts DEF One
    <2>2. CASE last[c] # 0
      <3>1. last[c] \in Message /\ last[c] <= LeftOut(c)
        BY <1>1, <2>2 DEF ClientOrder, Message
      <3> QED BY <1>2, <2>2, <3>1, Single DEF One
    <2> QED BY <2>1, <2>2
  <1>6. Good(out[c], LeftHold(c)) /\ LeftOut(c) = First(out[c], LeftHold(c))
    BY <1>1 DEF ClientOrder, LeftOut
  <1>7. /\ Good(One(hold[c]), LeftInbox(c)) /\ LeftHold(c) = First(One(hold[c]), LeftInbox(c))
        /\ hold[c] = sent /\ sent # 0 => Holds(One(hold[c]), sent)
    <2>1. CASE hold[c] = 0
      BY <2>1, EmptyFacts DEF One, First, LeftHold
    <2>2. CASE hold[c] # 0
      <3>1. hold[c] \in Message /\ hold[c] <= LeftInbox(c)
        BY <1>1, <2>2 DEF ClientOrder, Message
      <3> QED BY <1>2, <2>2, <3>1, Single DEF One, LeftHold
    <2> QED BY <2>1, <2>2
  <1>8. Good(inbox[c], LeftDispatch(c)) /\ LeftInbox(c) = First(inbox[c], LeftDispatch(c))
    BY <1>1 DEF ClientOrder, LeftInbox
  <1>9. /\ Good(A, LeftQueue) /\ LeftDispatch(c) = First(A, LeftQueue)
        /\ Waits(c) /\ msg = sent => Holds(A, sent)
    <2>1. CASE ~Waits(c)
      BY <2>1, EmptyFacts DEF First, LeftDispatch
    <2>2. CASE Waits(c)
      <3>1. msg \in Message /\ msg <= LeftQueue
        BY <1>1, <1>3, <2>2 DEF QueueOrder, Message
      <3> QED BY <1>2, <2>2, <3>1, Single DEF LeftDispatch
    <2> QED BY <2>1, <2>2
  <1>10. Good(queue, top) /\ LeftQueue = First(queue, top)
    BY <1>1 DEF QueueOrder, LeftQueue
  <1>11. Good(B, sent) /\ top = First(B, sent) /\ (bpc # "idle" => Holds(B, sent))
    <2>1. CASE bpc = "idle"
      BY <2>1, EmptyFacts DEF First
    <2>2. CASE bpc # "idle"
      <3>1. sent \in Message
        BY <1>1, <2>2 DEF QueueOrder, Message
      <3> QED BY <1>1, <2>2, <3>1, Single
    <2> QED BY <2>1, <2>2
  <1>12. top \in Int
    BY <1>1
  <1> HIDE DEF A, B, top, p1
  <1>13. Good(p2, LeftHold(c))
    BY <1>2, <1>5, <1>6, Joined
  <1> HIDE DEF p2
  <1>14. Good(p3, LeftInbox(c))
    BY <1>2, <1>7, <1>13, Joined
  <1> HIDE DEF p3
  <1>15. Good(p4, LeftDispatch(c))
    BY <1>2, <1>8, <1>14, Joined
  <1> HIDE DEF p4
  <1>16. Good(p5, LeftQueue)
    BY <1>2, <1>9, <1>15, Joined
  <1> HIDE DEF p5
  <1>17. Good(p6, top)
    BY <1>2, <1>10, <1>12, <1>16, Joined
  <1> HIDE DEF p6
  <1>18. Good(p7, sent)
    BY <1>1, <1>11, <1>12, <1>17, Joined
  <1> HIDE DEF p7
  <1>19. ASSUME Newest(c), sent # 0 PROVE Holds(p7, sent)
    <2>1. Holds(p1, sent) \/ Holds(out[c], sent) => Holds(p2, sent)
      BY <1>5, <1>6, JoinedHolds DEF p2
    <2>2. Holds(p2, sent) \/ hold[c] = sent => Holds(p3, sent)
      BY <1>7, <1>13, <1>19, JoinedHolds DEF p3
    <2>3. Holds(p3, sent) \/ Holds(inbox[c], sent) => Holds(p4, sent)
      BY <1>8, <1>14, JoinedHolds DEF p4
    <2>4. Holds(p4, sent) \/ (Waits(c) /\ msg = sent) => Holds(p5, sent)
      BY <1>9, <1>15, JoinedHolds DEF p5
    <2>5. Holds(p5, sent) \/ Holds(queue, sent) => Holds(p6, sent)
      BY <1>10, <1>16, JoinedHolds DEF p6
    <2>6. Holds(p6, sent) \/ bpc # "idle" => Holds(p7, sent)
      BY <1>11, <1>17, JoinedHolds DEF p7
    <2> QED BY <1>5, <1>19, <2>1, <2>2, <2>3, <2>4, <2>5, <2>6 DEF Newest
  <1> QED BY <1>4, <1>18, <1>19

\* A client gets the messages in order and none twice (Broadcast, dispatch, drain and
\* the handler's loop, with every drop of the oldest).
THEOREM Ordered == Spec => []InOrder
  <1>1. IndInv => InOrder
    <2> SUFFICES ASSUME IndInv, NEW c \in registered
                 PROVE  \A i, j \in 1..Len(Way(c)) : i < j => Way(c)[i] < Way(c)[j]
      BY DEF InOrder
    <2>1. c \in Clients
      BY DEF IndInv, TypeOK, DispatchType
    <2> QED BY <2>1, WaySorted DEF Sorted
  <1> QED BY <1>1, Inductive, PTL

\* However full the queues are, no drop loses the newest message on the way to a
\* registered client ("Discard the oldest packet and keep the newest packet moving").
THEOREM NewestIsKept == Spec => []NewestKept
  <1>1. IndInv => NewestKept
    <2> SUFFICES ASSUME IndInv, NEW c \in registered, sent > since[c]
                 PROVE  Way(c) # <<>> /\ Last(Way(c)) = sent
      BY DEF NewestKept
    <2>1. c \in Clients /\ sent \in Nat /\ since[c] \in Nat /\ Newest(c)
      BY DEF IndInv, TypeOK, HubType, DispatchType, RequestType, NewestInv
    <2> DEFINE w == Way(c)
    <2>2. w \in Seq(Message) /\ Sorted(w) /\ UpTo(w, sent) /\ Holds(w, sent)
      BY <2>1, WaySorted
    <2> HIDE DEF w
    <2>3. PICK i \in 1..Len(w) : w[i] = sent
      BY <2>2 DEF Holds
    <2>4. Len(w) \in Nat \ {0} /\ w # <<>> /\ w[Len(w)] \in Nat
      BY <2>2, <2>3 DEF Message
    <2>5. w[Len(w)] <= sent /\ (i < Len(w) => sent < w[Len(w)])
      BY <2>2, <2>3, <2>4 DEF UpTo, Sorted
    <2>6. w[Len(w)] = sent
      BY <2>1, <2>3, <2>4, <2>5
    <2> QED BY <2>4, <2>6 DEF w, Last
  <1> QED BY <1>1, Inductive, PTL

\* The handler and the watcher of a request never both close its done channel, and
\* dispatch does not serve a client whose channel is closed (Unregister).
THEOREM DoneClosedOnce == Spec => []ClosedOnce
  <1>1. IndInv => ClosedOnce
    <2> SUFFICES ASSUME IndInv, NEW c \in Clients
                 PROVE  /\ closes[c] <= 1
                        /\ closes[c] = 1 => c \notin registered /\ c \notin todo /\ cur.client # c
      BY DEF ClosedOnce
    <2>1. closes[c] <= 1 /\ (closes[c] = 1 => c \notin registered)
      BY DEF IndInv, RegisterInv
    <2>2. cur.client = c => c \in registered
      <3>1. cur.client = c => cur # None
        BY ClientAssumption DEF None
      <3> QED BY <3>1 DEF IndInv, DispatchInv
    <2> QED BY <2>1, <2>2 DEF IndInv, TypeOK, DispatchType
  <1> QED BY <1>1, Inductive, PTL
=============================================================================
