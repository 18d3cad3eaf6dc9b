------------------------------- MODULE Channel -------------------------------
(***************************************************************************)
(* The channel of build_with_channel(): a bounded queue from any number of *)
(* threads to one node, whose senders notify the node through the event    *)
(* driver (channel.rs, node.rs).  The module composes the channel with     *)
(* module EventDriver, one atomic access of channel.rs to shared memory    *)
(* per step.  The threads notify other nodes too, through other channels   *)
(* or bare notifiers: all of them share the one notification queue.        *)
(*                                                                         *)
(* Messages are counted, not told apart: the order in which the library's  *)
(* ArrayQueue delivers them is not in question.                            *)
(***************************************************************************)
EXTENDS EventDriver

CONSTANTS Rx,               \* the node that owns the receiver
          ChannelCapacity,
          ReceiveLimit      \* messages its cycle function takes; 0: all

ASSUME ChannelAssumption ==
  /\ Rx \in Node
  /\ ChannelCapacity \in Nat \ {0}
  /\ ReceiveLimit \in Nat

SendKind == {"try", "blocking", "force"}
Place == SendKind \cup {"idle", "retry", "notify", "wake"}

VARIABLES
  queued,     \* queue.len()
  holders,    \* the threads that hold a Sender; senders is their number
  receivers,  \* the counter of that name
  send_at,    \* per thread: where it is in its call; the name of a send
              \* stands for the push that it makes next
  receive_at, \* where the cycle function of Rx is in try_receive()
  taken,      \* messages it took in this run, when there is a limit
  closed,     \* history: try_receive() returned ChannelClosed
  refused     \* history: the last notification of Rx met a queue full of
              \* other nodes', and Rx has not run since

sender_vars   == <<holders, send_at>>
receiver_vars == <<receive_at, taken, closed, refused>>
channel_vars  == <<queued, receivers, sender_vars, receiver_vars>>
chan_vars     == <<event_vars, channel_vars>>

ChannelInit ==
  /\ EventInit
  /\ queued = 0 /\ receivers = 1
  /\ \E t \in Thread : holders = {t}
  /\ send_at = [t \in Thread |-> "idle"]
  /\ receive_at = "returned" /\ taken = 0 /\ closed = FALSE
  /\ refused = FALSE

-----------------------------------------------------------------------------
(* Senders.                                                                *)

GoTo(t, place) == send_at' = [send_at EXCEPT ![t] = place]

\* receivers.load(): a send to a closed channel returns at once.
LoadReceivers(t, k) == GoTo(t, IF receivers = 0 THEN "idle" ELSE k)

StartSend(t, k) ==
  /\ send_at[t] = "idle" /\ t \in holders
  /\ LoadReceivers(t, k)
  /\ UNCHANGED <<event_vars, queued, receivers, holders, receiver_vars>>

\* queue.push(), or force_push(), which displaces the oldest message
Push(t) ==
  /\ send_at[t] \in SendKind
  /\ \/ /\ queued < ChannelCapacity
        /\ queued' = queued + 1
        /\ GoTo(t, "notify")
     \/ /\ queued = ChannelCapacity
        /\ UNCHANGED queued
        /\ GoTo(t, CASE send_at[t] = "try" -> "idle"         \* ChannelFull
                     [] send_at[t] = "blocking" -> "retry"
                     [] send_at[t] = "force" -> "notify")
  /\ UNCHANGED <<event_vars, receivers, holders, receiver_vars>>

\* Mutant: blocking_send() tries the queue only.
Retry_NoReload(t) ==
  /\ send_at[t] = "retry"
  /\ GoTo(t, "blocking")
  /\ UNCHANGED <<event_vars, queued, receivers, holders, receiver_vars>>

\* blocking_send() goes round its loop.
Retry(t) ==
  /\ send_at[t] = "retry"
  /\ LoadReceivers(t, "blocking")
  /\ UNCHANGED <<event_vars, queued, receivers, holders, receiver_vars>>

\* A notification of Rx waits in the queue.
Announced == \E j \in 1 .. Len(notifications) : notifications[j] = Rx

\* notify() of the channel.  What a full queue refuses is no loss if the queue
\* has a notification of Rx already (they coalesce); otherwise it is.
SendNotify(t) ==
  /\ send_at[t] = "notify"
  /\ NotifyPush(t, Rx)
  /\ refused' = (Len(notifications) = Capacity /\ ~ Announced)
  /\ GoTo(t, "wake")
  /\ UNCHANGED <<queued, receivers, holders, receive_at, taken, closed>>

\* A thread notifies another node: with a sender of another channel, or with a
\* notifier it was given.
NotifyOther(t, n) ==
  /\ send_at[t] = "idle" /\ n # Rx
  /\ NotifyPush(t, n)
  /\ GoTo(t, "wake")
  /\ UNCHANGED <<queued, receivers, holders, receiver_vars>>

\* The second half of notify(), whichever node it was for
FinishNotify(t) ==
  /\ send_at[t] = "wake"
  /\ NotifyWake(t)
  /\ GoTo(t, "idle")
  /\ UNCHANGED <<queued, receivers, holders, receiver_vars>>

\* Sender::clone(), handed to a thread that has none
CloneSender(t, u) ==
  /\ send_at[t] = "idle" /\ t \in holders
  /\ send_at[u] = "idle" /\ u \notin holders
  /\ holders' = holders \cup {u}
  /\ UNCHANGED <<event_vars, queued, receivers, send_at, receiver_vars>>

\* Mutant: the count after the decrement is compared with 1.
DropSender_OffByOne(t) ==
  /\ send_at[t] = "idle" /\ t \in holders
  /\ holders' = holders \ {t}
  /\ GoTo(t, IF Cardinality(holders') = 1 THEN "notify" ELSE "idle")
  /\ UNCHANGED <<event_vars, queued, receivers, receiver_vars>>

\* Sender::drop(): the last one notifies the node, so that it sees the end.
DropSender(t) ==
  /\ send_at[t] = "idle" /\ t \in holders
  /\ holders' = holders \ {t}
  /\ GoTo(t, IF Cardinality(holders) = 1 THEN "notify" ELSE "idle")
  /\ UNCHANGED <<event_vars, queued, receivers, receiver_vars>>

-----------------------------------------------------------------------------
(* The receiving node.                                                     *)

EnterReceiver ==
  /\ Enter(Rx)
  /\ receive_at' = "pop" /\ taken' = 0 /\ refused' = FALSE
  /\ UNCHANGED <<queued, receivers, sender_vars, closed>>

\* Mutant: the cycle function stops after the first message.
ReceiveSome_One ==
  /\ receive_at = "pop"
  /\ queued > 0
  /\ queued' = queued - 1
  /\ receive_at' = "returned"
  /\ UNCHANGED <<event_vars, receivers, sender_vars, taken, closed, refused>>

\* try_receive() returning Ok; the cycle function goes on up to its limit.
ReceiveSome ==
  /\ receive_at = "pop"
  /\ queued > 0
  /\ queued' = queued - 1
  /\ taken' = IF ReceiveLimit = 0 THEN 0 ELSE taken + 1
  /\ receive_at' = IF taken + 1 = ReceiveLimit THEN "returned" ELSE "pop"
  /\ UNCHANGED <<event_vars, receivers, sender_vars, closed, refused>>

\* pop() found nothing; senders.load() is a second access.
ReceiveNone ==
  /\ receive_at = "pop"
  /\ queued = 0
  /\ receive_at' = "load"
  /\ UNCHANGED <<event_vars, queued, receivers, sender_vars, taken, closed,
                 refused>>

\* ChannelClosed when no sender is left, Empty otherwise
LoadSenders ==
  /\ receive_at = "load"
  /\ closed' = (closed \/ holders = {})
  /\ receive_at' = "returned"
  /\ UNCHANGED <<event_vars, queued, receivers, sender_vars, taken, refused>>

\* Another node runs: what it does is not looked at.
EnterOther(n) ==
  /\ n # Rx
  /\ Enter(n)
  /\ UNCHANGED channel_vars

\* The node that runs returns: another one at any time, Rx when it is through.
ReturnNode ==
  /\ receive_at = "returned"
  /\ Return
  /\ UNCHANGED channel_vars

\* Mutant: the receiver is dropped with whatever node is swept, or with none.
EndCycleReceiver_Always(D) ==
  /\ EndCycle(D)
  /\ receivers' = receivers - 1
  /\ UNCHANGED <<queued, sender_vars, receiver_vars>>

\* The cycle ends; a swept node takes its receiver along (Receiver::drop).
EndCycleReceiver(D) ==
  /\ EndCycle(D)
  /\ receivers' = IF Rx \in D THEN 0 ELSE receivers
  /\ UNCHANGED <<queued, sender_vars, receiver_vars>>

-----------------------------------------------------------------------------
SenderCalls(t) ==
  \/ \E k \in SendKind : StartSend(t, k)
  \/ \E u \in Thread : CloneSender(t, u)
  \/ DropSender(t)
  \/ \E n \in Node : NotifyOther(t, n)

\* A thread that is inside a call
SenderStep(t) == Push(t) \/ Retry(t) \/ SendNotify(t) \/ FinishNotify(t)

PollStep ==
  /\ \/ CheckShutdown
     \/ PopNotification \/ EndNotifications \/ PollInternal
     \/ FastPoll \/ SlowPoll
  /\ UNCHANGED channel_vars

RuntimeStep ==
  \/ PollStep
  \/ EnterReceiver \/ ReceiveSome \/ ReceiveNone \/ LoadSenders
  \/ \E n \in Node : EnterOther(n)
  \/ ReturnNode
  \/ \E D \in SUBSET Removable : EndCycleReceiver(D)

ChannelNext ==
  \/ \E t \in Thread : SenderCalls(t)
  \/ \E t \in Thread : SenderStep(t)
  \/ RuntimeStep

ChannelSpec == ChannelInit /\ [][ChannelNext]_chan_vars

\* The runtime's thread and every thread inside a call keep running.
FairChannelSpec ==
  /\ ChannelSpec
  /\ WF_chan_vars(RuntimeStep)
  /\ \A t \in Thread : WF_chan_vars(SenderStep(t))

-----------------------------------------------------------------------------
ChannelTypeOK ==
  /\ EventTypeOK
  /\ queued \in 0 .. ChannelCapacity
  /\ holders \subseteq Thread
  /\ receivers \in {0, 1}
  /\ send_at \in [Thread -> Place]
  /\ receive_at \in {"pop", "load", "returned"}
  /\ taken \in 0 .. ReceiveLimit
  /\ closed \in BOOLEAN /\ refused \in BOOLEAN

\* "Messages sent through the Sender automatically wake the node": when the
\* runtime is parked and no sender is about to notify, nothing is queued.
\* It takes the push, the notification, the waker and the two polls of the
\* driver together.  A notification queue that is full of other nodes breaks
\* it, for notify() drops what does not fit.
SendsWake ==
  Parked /\ Rx \in alive /\ (\A t \in Thread : send_at[t] # "notify") => queued = 0

\* Nothing else does: the runtime parks on a message only if the last
\* notification of the node met a queue full of other nodes'.  (Where other
\* nodes leave the graph, their notifications break it too: see
\* ParkedIsIdle in EventDriver.)
ParkedIsDrained == ~ refused => SendsWake

\* "When all senders are dropped, the receiver will report the channel as
\* closed", without another message to wake it up; unless the one
\* notification of the last drop met a queue full of other nodes', and then
\* nothing repeats it.
CloseIsReported ==
  holders = {} /\ Rx \in alive ~> closed \/ Rx \notin alive \/ []refused

\* A send that found the receiver gone, or finds it gone while it waits for
\* room, ends: no sender spins on a queue that nobody reads.
SendersAreReleased ==
  \A t \in Thread :
    receivers = 0 /\ send_at[t] \in SendKind \cup {"retry"} ~> send_at[t] = "idle"

\* ChannelClosed is the last thing a receiver hears: the messages that were
\* pending when the last sender went are received before.
ClosedMeansDrained == closed => queued = 0
=============================================================================
