-------------------------------- MODULE Hub --------------------------------
(***************************************************************************)
(* The hub that fans the captured packets out to the stream clients: the   *)
(* sniffer broadcasts, the dispatch loop copies to the inbox of every      *)
(* client, a client's drainer moves its inbox to its out channel, and the  *)
(* HTTP handler writes that to the network.  Every queue is bounded, and   *)
(* nobody waits for room: the oldest message gives way.                    *)
(*                                                                         *)
(* A select with a default is one step.  RWMutex is taken by dispatch for  *)
(* its whole loop, by Register and Unregister for one map operation.       *)
(***************************************************************************)
EXTENDS Integers, Sequences, SequencesExt

CONSTANTS
    Clients,        \* the stream requests of a behaviour
    QueueDepth,     \* hubQueueDepth
    InboxDepth,     \* clientInboxDepth
    OutDepth,       \* clientOutDepth
    MaxMessages     \* bound: the messages the sniffer broadcasts

ASSUME DepthAssumption ==
    /\ QueueDepth \in Nat \ {0} /\ InboxDepth \in Nat \ {0} /\ OutDepth \in Nat \ {0}
    /\ MaxMessages \in Nat

\* "none" stands for no client.
ASSUME ClientAssumption == "none" \notin Clients

VARIABLES
    queue,      \* h.queue; a message is its number
    sent,       \* the number of the last broadcast that began
    bpc,        \* Broadcast: "idle", or the select it is at
    closed,     \* h.done is closed
    dpc,        \* the dispatch loop: "loop", "dispatch" (holding the read lock) or "ended"
    msg,        \* the message it dispatches
    todo,       \* the clients it has yet to serve
    cur,        \* the client it serves, and the select it is at
    registered, \* h.clients
    inbox, out, \* the channels of each client
    closes,     \* how often the done channel of each client was closed
    hold,       \* what the drainer has taken out of the inbox, or 0
    drainer,    \* "none", "loop", "send", "make_room" or "ended" (out is closed)
    handler,    \* "none", "loop", "write", "unregister", "close" or "ended"
    watcher,    \* the goroutine of Register that waits for the context
    gone,       \* the request's context is done
    last,       \* the message the handler wrote last, or 0
    since       \* history: the last message that had left the queue at Register

hubVars     == <<queue, sent, bpc, closed>>
dispatchVars == <<dpc, msg, todo, cur>>
drainVars   == <<inbox, out, hold, drainer>>
requestVars == <<registered, closes, handler, watcher, gone, last, since>>
vars == <<hubVars, dispatchVars, drainVars, requestVars>>

None == [client |-> "none", at |-> "none"]

Init ==
    /\ queue = <<>> /\ sent = 0 /\ bpc = "idle" /\ closed = FALSE
    /\ dpc = "loop" /\ msg = 0 /\ todo = {} /\ cur = None
    /\ registered = {}
    /\ inbox = [c \in Clients |-> <<>>] /\ out = [c \in Clients |-> <<>>]
    /\ closes = [c \in Clients |-> 0]
    /\ hold = [c \in Clients |-> 0] /\ drainer = [c \in Clients |-> "none"]
    /\ handler = [c \in Clients |-> "none"] /\ watcher = [c \in Clients |-> "none"]
    /\ gone = [c \in Clients |-> FALSE]
    /\ last = [c \in Clients |-> 0] /\ since = [c \in Clients |-> 0]

-----------------------------------------------------------------------------
(***************************************************************************)
(* Broadcast, called by the sniffer: send; with no room, take the oldest   *)
(* out and send again.                                                     *)
(***************************************************************************)
Broadcast ==
    /\ bpc = "idle" /\ sent < MaxMessages
    /\ sent' = sent + 1
    /\ \/ Len(queue) < QueueDepth /\ queue' = Append(queue, sent') /\ bpc' = "idle"
       \/ Len(queue) = QueueDepth /\ bpc' = "drop" /\ UNCHANGED queue
    /\ UNCHANGED <<closed, dispatchVars, drainVars, requestVars>>

\* Mutant: the oldest message stays, the newest goes.
BroadcastDropsNewest ==
    /\ bpc = "drop"
    /\ bpc' = "resend"
    /\ UNCHANGED <<queue, sent, closed, dispatchVars, drainVars, requestVars>>

BroadcastDrop ==
    /\ bpc = "drop"
    /\ queue' = IF queue # <<>> THEN Tail(queue) ELSE queue
    /\ bpc' = "resend"
    /\ UNCHANGED <<sent, closed, dispatchVars, drainVars, requestVars>>

BroadcastResend ==
    /\ bpc = "resend"
    /\ queue' = IF Len(queue) < QueueDepth THEN Append(queue, sent) ELSE queue
    /\ bpc' = "idle"
    /\ UNCHANGED <<sent, closed, dispatchVars, drainVars, requestVars>>

\* Close, at the end of shutdown(): the sniffer has ended by then.
Close ==
    /\ ~closed /\ bpc = "idle" /\ sent = MaxMessages
    /\ closed' = TRUE
    /\ UNCHANGED <<queue, sent, bpc, dispatchVars, drainVars, requestVars>>

-----------------------------------------------------------------------------
(***************************************************************************)
(* dispatchLoop and dispatch.  The order of the clients is that of a map.  *)
(***************************************************************************)
DispatchBegin ==
    /\ dpc = "loop" /\ queue # <<>>
    /\ dpc' = "dispatch" /\ msg' = Head(queue) /\ queue' = Tail(queue)
    /\ todo' = registered
    /\ UNCHANGED <<sent, bpc, closed, cur, drainVars, requestVars>>

DispatchEnds ==
    /\ dpc = "loop" /\ closed
    /\ dpc' = "ended"
    /\ UNCHANGED <<hubVars, msg, todo, cur, drainVars, requestVars>>

\* Mutant: a full inbox is passed over.
DispatchSendOnce(c) ==
    /\ dpc = "dispatch" /\ cur = None /\ c \in todo
    /\ todo' = todo \ {c}
    /\ inbox' = [inbox EXCEPT ![c] = IF Len(@) < InboxDepth THEN Append(@, msg) ELSE @]
    /\ UNCHANGED <<hubVars, dpc, msg, cur, out, hold, drainer, requestVars>>

DispatchSend(c) ==
    /\ dpc = "dispatch" /\ cur = None /\ c \in todo
    /\ todo' = todo \ {c}
    /\ \/ Len(inbox[c]) < InboxDepth
          /\ inbox' = [inbox EXCEPT ![c] = Append(@, msg)] /\ UNCHANGED cur
       \/ Len(inbox[c]) = InboxDepth
          /\ cur' = [client |-> c, at |-> "drop"] /\ UNCHANGED inbox
    /\ UNCHANGED <<hubVars, dpc, msg, out, hold, drainer, requestVars>>

DispatchDrop(c) ==
    /\ cur = [client |-> c, at |-> "drop"]
    /\ inbox' = [inbox EXCEPT ![c] = IF @ # <<>> THEN Tail(@) ELSE @]
    /\ cur' = [cur EXCEPT !.at = "resend"]
    /\ UNCHANGED <<hubVars, dpc, msg, todo, out, hold, drainer, requestVars>>

DispatchResend(c) ==
    /\ cur = [client |-> c, at |-> "resend"]
    /\ inbox' = [inbox EXCEPT ![c] = IF Len(@) < InboxDepth THEN Append(@, msg) ELSE @]
    /\ cur' = None
    /\ UNCHANGED <<hubVars, dpc, msg, todo, out, hold, drainer, requestVars>>

\* The deferred RUnlock.
DispatchDone ==
    /\ dpc = "dispatch" /\ todo = {} /\ cur = None
    /\ dpc' = "loop" /\ msg' = 0
    /\ UNCHANGED <<hubVars, todo, cur, drainVars, requestVars>>

-----------------------------------------------------------------------------
(***************************************************************************)
(* drain, a goroutine per client.                                          *)
(***************************************************************************)
DrainTake(c) ==
    /\ drainer[c] = "loop" /\ inbox[c] # <<>>
    /\ hold' = [hold EXCEPT ![c] = Head(inbox[c])]
    /\ inbox' = [inbox EXCEPT ![c] = Tail(@)]
    /\ drainer' = [drainer EXCEPT ![c] = "send"]
    /\ UNCHANGED <<hubVars, dispatchVars, out, requestVars>>

\* Mutant: does not leave the inner loop after the send.
DrainSendAgain(c) ==
    /\ drainer[c] = "send"
    /\ \/ /\ Len(out[c]) < OutDepth
          /\ out' = [out EXCEPT ![c] = Append(@, hold[c])]
          /\ UNCHANGED drainer
       \/ /\ Len(out[c]) = OutDepth
          /\ drainer' = [drainer EXCEPT ![c] = "make_room"]
          /\ UNCHANGED out
    /\ UNCHANGED <<hubVars, dispatchVars, inbox, hold, requestVars>>

DrainSend(c) ==
    /\ drainer[c] = "send"
    /\ \/ /\ Len(out[c]) < OutDepth
          /\ out' = [out EXCEPT ![c] = Append(@, hold[c])]
          /\ hold' = [hold EXCEPT ![c] = 0]
          /\ drainer' = [drainer EXCEPT ![c] = "loop"]
       \/ /\ Len(out[c]) = OutDepth
          /\ drainer' = [drainer EXCEPT ![c] = "make_room"]
          /\ UNCHANGED <<out, hold>>
    /\ UNCHANGED <<hubVars, dispatchVars, inbox, requestVars>>

DrainMakeRoom(c) ==
    /\ drainer[c] = "make_room"
    /\ out' = [out EXCEPT ![c] = IF @ # <<>> THEN Tail(@) ELSE @]
    /\ drainer' = [drainer EXCEPT ![c] = "send"]
    /\ UNCHANGED <<hubVars, dispatchVars, inbox, hold, requestVars>>

\* done is closed: the drainer ends and closes out.
DrainEnds(c) ==
    /\ drainer[c] = "loop" /\ closes[c] > 0
    /\ drainer' = [drainer EXCEPT ![c] = "ended"]
    /\ UNCHANGED <<hubVars, dispatchVars, inbox, out, hold, requestVars>>

-----------------------------------------------------------------------------
(***************************************************************************)
(* A stream request: Register, the loop over Ch(), the deferred            *)
(* Unregister; and the goroutine that calls Unregister when the context    *)
(* is done, which is when the client is gone or the handler has returned.  *)
(***************************************************************************)
Unlocked == dpc # "dispatch"

\* Mutant: nobody waits for the context.
RegisterUnwatched(c) ==
    /\ handler[c] = "none" /\ Unlocked
    /\ registered' = registered \cup {c}
    /\ drainer' = [drainer EXCEPT ![c] = "loop"]
    /\ handler' = [handler EXCEPT ![c] = "loop"]
    /\ watcher' = [watcher EXCEPT ![c] = "ended"]
    /\ since' = [since EXCEPT ![c] = sent]
    /\ UNCHANGED <<hubVars, dispatchVars, inbox, out, hold, closes, gone, last>>

Register(c) ==
    /\ handler[c] = "none" /\ Unlocked
    /\ registered' = registered \cup {c}
    /\ drainer' = [drainer EXCEPT ![c] = "loop"]
    /\ handler' = [handler EXCEPT ![c] = "loop"]
    /\ watcher' = [watcher EXCEPT ![c] = "wait"]
    /\ since' = [since EXCEPT ![c] = IF queue # <<>> THEN Head(queue) - 1
                                     ELSE IF bpc = "idle" THEN sent ELSE sent - 1]
    /\ UNCHANGED <<hubVars, dispatchVars, inbox, out, hold, closes, gone, last>>

\* The client disconnects.
Disconnect(c) ==
    /\ handler[c] \notin {"none", "ended"} /\ ~gone[c]
    /\ gone' = [gone EXCEPT ![c] = TRUE]
    /\ UNCHANGED <<hubVars, dispatchVars, drainVars, registered, closes, handler, watcher, last, since>>

HandlerTake(c) ==
    /\ handler[c] = "loop" /\ out[c] # <<>>
    /\ out' = [out EXCEPT ![c] = Tail(@)]
    /\ last' = [last EXCEPT ![c] = Head(out[c])]
    /\ handler' = [handler EXCEPT ![c] = "write"]
    /\ UNCHANGED <<hubVars, dispatchVars, inbox, hold, drainer, registered, closes, watcher, gone, since>>

\* The write returns; it may take any time while the client is there.
HandlerWritten(c) ==
    /\ handler[c] = "write"
    /\ handler' = [handler EXCEPT ![c] = "loop"]
    /\ UNCHANGED <<hubVars, dispatchVars, drainVars, registered, closes, watcher, gone, last, since>>

HandlerWriteFails(c) ==
    /\ handler[c] = "write" /\ gone[c]
    /\ handler' = [handler EXCEPT ![c] = "unregister"]
    /\ UNCHANGED <<hubVars, dispatchVars, drainVars, registered, closes, watcher, gone, last, since>>

\* out is closed and empty: the loop ends.
HandlerLoopEnds(c) ==
    /\ handler[c] = "loop" /\ out[c] = <<>> /\ drainer[c] = "ended"
    /\ handler' = [handler EXCEPT ![c] = "unregister"]
    /\ UNCHANGED <<hubVars, dispatchVars, drainVars, registered, closes, watcher, gone, last, since>>

\* Mutant: closes the channel whoever calls.
LeaveTwice(c, pc) == pc' = [pc EXCEPT ![c] = "close"] /\ registered' = registered \ {c}

\* Unregister up to the unlock: only the first caller goes on to close done.
Leave(c, pc) ==
    /\ pc' = [pc EXCEPT ![c] = IF c \in registered THEN "close" ELSE "ended"]
    /\ registered' = registered \ {c}

HandlerUnregister(c) ==
    /\ handler[c] = "unregister" /\ Unlocked
    /\ Leave(c, handler)
    /\ gone' = [gone EXCEPT ![c] = gone[c] \/ handler'[c] = "ended"]
    /\ UNCHANGED <<hubVars, dispatchVars, drainVars, closes, watcher, last, since>>

HandlerClose(c) ==
    /\ handler[c] = "close"
    /\ closes' = [closes EXCEPT ![c] = @ + 1]
    /\ handler' = [handler EXCEPT ![c] = "ended"]
    /\ gone' = [gone EXCEPT ![c] = TRUE]
    /\ UNCHANGED <<hubVars, dispatchVars, drainVars, registered, watcher, last, since>>

WatcherUnregister(c) ==
    /\ watcher[c] = "wait" /\ gone[c] /\ Unlocked
    /\ Leave(c, watcher)
    /\ UNCHANGED <<hubVars, dispatchVars, drainVars, closes, handler, gone, last, since>>

WatcherClose(c) ==
    /\ watcher[c] = "close"
    /\ closes' = [closes EXCEPT ![c] = @ + 1]
    /\ watcher' = [watcher EXCEPT ![c] = "ended"]
    /\ UNCHANGED <<hubVars, dispatchVars, drainVars, registered, handler, gone, last, since>>

-----------------------------------------------------------------------------
SnifferStep == Broadcast \/ BroadcastDrop \/ BroadcastResend
DispatchStep ==
    \/ DispatchBegin \/ DispatchEnds \/ DispatchDone
    \/ \E c \in Clients : DispatchSend(c) \/ DispatchDrop(c) \/ DispatchResend(c)
DrainStep(c) == DrainTake(c) \/ DrainSend(c) \/ DrainMakeRoom(c) \/ DrainEnds(c)
HandlerStep(c) ==
    \/ HandlerTake(c) \/ HandlerWriteFails(c) \/ HandlerLoopEnds(c)
    \/ HandlerUnregister(c) \/ HandlerClose(c)
WatcherStep(c) == WatcherUnregister(c) \/ WatcherClose(c)

Next ==
    \/ SnifferStep \/ Close \/ DispatchStep
    \/ \E c \in Clients :
          \/ Register(c) \/ Disconnect(c) \/ HandlerWritten(c)
          \/ DrainStep(c) \/ HandlerStep(c) \/ WatcherStep(c)

(***************************************************************************)
(* The program does not stop while one of its goroutines can go on.  The   *)
(* environment owes nothing: a client may be as slow as it likes, and only *)
(* a write to one that is gone must end.  As a behaviour has finitely many *)
(* messages, every goroutine gets its turn.                                *)
(***************************************************************************)
ProgramStep ==
    \/ BroadcastDrop \/ BroadcastResend \/ DispatchStep
    \/ \E c \in Clients : DrainStep(c) \/ HandlerStep(c) \/ WatcherStep(c)

Spec == Init /\ [][Next]_vars /\ WF_vars(ProgramStep)

-----------------------------------------------------------------------------
\* The messages on their way to client c, and the last one it got, oldest first.
One(m) == IF m = 0 THEN <<>> ELSE <<m>>
Way(c) ==
    One(last[c]) \o out[c] \o One(hold[c]) \o inbox[c]
      \o (IF c \in todo \/ cur.client = c THEN <<msg>> ELSE <<>>)
      \o queue \o (IF bpc # "idle" THEN <<sent>> ELSE <<>>)

(***************************************************************************)
(* A client gets the messages in order and none twice, although every hop  *)
(* drops messages while the next one takes them.                           *)
(***************************************************************************)
InOrder ==
    \A c \in registered : \A i, j \in 1..Len(Way(c)) : i < j => Way(c)[i] < Way(c)[j]

(***************************************************************************)
(* "Discard the oldest packet and keep the newest packet moving"           *)
(* (Broadcast): the newest message is on its way to every registered       *)
(* client, or was the last one it got.                                     *)
(***************************************************************************)
NewestKept ==
    \A c \in registered : sent > since[c] => Way(c) # <<>> /\ Last(Way(c)) = sent

(***************************************************************************)
(* Nobody sends on a closed channel or closes one twice, which would end   *)
(* the program: the handler and the watcher both call Unregister, one of   *)
(* them closes done, after dispatch has forgotten the client.              *)
(***************************************************************************)
ClosedOnce ==
    \A c \in Clients :
        /\ closes[c] <= 1
        /\ closes[c] = 1 => c \notin registered /\ c \notin todo /\ cur.client # c

(***************************************************************************)
(* "Never block the sniffer": the newest message reaches the out channel   *)
(* of every client that stays, however slow it and the others are, unless  *)
(* the hub is closed.                                                      *)
(***************************************************************************)
NewestArrives ==
    \A c \in Clients :
        c \in registered /\ sent = MaxMessages /\ sent > since[c] ~>
            \/ gone[c] \/ closed
            \/ last[c] = MaxMessages \/ \E i \in 1..Len(out[c]) : out[c][i] = MaxMessages

(***************************************************************************)
(* The goroutines of a client that is gone end, and the hub forgets it.    *)
(***************************************************************************)
GoneIsForgotten ==
    \A c \in Clients :
        gone[c] ~> /\ drainer[c] = "ended" /\ handler[c] = "ended" /\ watcher[c] = "ended"
                   /\ c \notin registered

-----------------------------------------------------------------------------
(***************************************************************************)
(* The inductive invariant behind the safety properties.                   *)
(***************************************************************************)
Message == Nat \ {0}

HubType ==
    /\ queue \in Seq(Message) /\ Len(queue) <= QueueDepth
    /\ sent \in Nat /\ bpc \in {"idle", "drop", "resend"} /\ closed \in BOOLEAN

DispatchType ==
    /\ dpc \in {"loop", "dispatch", "ended"} /\ msg \in Nat
    /\ cur \in {None} \cup [client : Clients, at : {"drop", "resend"}]
    /\ todo \subseteq registered /\ registered \subseteq Clients

DrainType ==
    /\ inbox \in [Clients -> Seq(Message)] /\ out \in [Clients -> Seq(Message)]
    /\ \A c \in Clients : Len(inbox[c]) <= InboxDepth /\ Len(out[c]) <= OutDepth
    /\ hold \in [Clients -> Nat]
    /\ drainer \in [Clients -> {"none", "loop", "send", "make_room", "ended"}]

RequestType ==
    /\ handler \in [Clients -> {"none", "loop", "write", "unregister", "close", "ended"}]
    /\ watcher \in [Clients -> {"none", "wait", "close", "ended"}]
    /\ gone \in [Clients -> BOOLEAN] /\ closes \in [Clients -> Nat]
    /\ last \in [Clients -> Nat] /\ since \in [Clients -> Nat]

TypeOK == HubType /\ DispatchType /\ DrainType /\ RequestType

\* Dispatch has a message and clients to serve only while it holds the lock, and
\* after a drop there is room for the newest message.
DispatchInv ==
    /\ dpc = "dispatch" <=> msg # 0
    /\ dpc # "dispatch" => todo = {} /\ cur = None
    /\ cur # None => cur.client \in registered \ todo
    /\ cur # None /\ cur.at = "resend" => Len(inbox[cur.client]) < InboxDepth
    /\ bpc = "resend" => Len(queue) < QueueDepth

\* Registered, about to close done, or closed: a client is one of these.
RegisterInv ==
    \A c \in Clients :
        /\ c \in registered => closes[c] = 0 /\ handler[c] # "close" /\ watcher[c] # "close"
        /\ handler[c] = "close" => closes[c] = 0 /\ watcher[c] # "close"
        /\ watcher[c] = "close" => closes[c] = 0
        /\ closes[c] <= 1
        /\ handler[c] = "none" =>
              /\ c \notin registered /\ closes[c] = 0 /\ watcher[c] = "none"
              /\ inbox[c] = <<>> /\ out[c] = <<>> /\ last[c] = 0 /\ drainer[c] = "none"
        /\ drainer[c] \in {"send", "make_room"} <=> hold[c] # 0

\* The last message that may have left the queue, and that may have left the other
\* places on the way to client c: each is below the first message in the next one.
Waits(c) == c \in todo \/ cur.client = c
First(s, bound) == IF s # <<>> THEN Head(s) - 1 ELSE bound
LeftQueue == First(queue, IF bpc = "idle" THEN sent ELSE sent - 1)
LeftDispatch(c) == IF Waits(c) THEN msg - 1 ELSE LeftQueue
LeftInbox(c) == First(inbox[c], LeftDispatch(c))
LeftHold(c) == IF hold[c] # 0 THEN hold[c] - 1 ELSE LeftInbox(c)
LeftOut(c) == First(out[c], LeftHold(c))

Sorted(s) == \A i, j \in 1..Len(s) : i < j => s[i] < s[j]
UpTo(s, bound) == \A i \in 1..Len(s) : s[i] <= bound

QueueOrder ==
    /\ Sorted(queue) /\ UpTo(queue, IF bpc = "idle" THEN sent ELSE sent - 1)
    /\ bpc # "idle" => sent > 0
    /\ msg <= LeftQueue

ClientOrder(c) ==
    /\ Sorted(inbox[c]) /\ UpTo(inbox[c], LeftDispatch(c))
    /\ hold[c] <= LeftInbox(c)
    /\ Sorted(out[c]) /\ UpTo(out[c], LeftHold(c))
    /\ last[c] <= LeftOut(c)

\* The newest message is somewhere on the way to every client.
Holds(s, m) == \E i \in 1..Len(s) : s[i] = m
Newest(c) ==
    \/ bpc # "idle" \/ Holds(queue, sent) \/ (Waits(c) /\ msg = sent)
    \/ Holds(inbox[c], sent) \/ hold[c] = sent \/ Holds(out[c], sent) \/ last[c] = sent

NewestInv ==
    /\ bpc = "idle" /\ queue # <<>> => Holds(queue, sent)
    /\ \A c \in registered : sent > since[c] => Newest(c)

IndInv ==
    /\ TypeOK /\ DispatchInv /\ RegisterInv
    /\ QueueOrder /\ (\A c \in Clients : ClientOrder(c)) /\ NewestInv
=============================================================================
