---------------------------- MODULE ChannelProofs ----------------------------
(***************************************************************************)
(* Proofs about the channel, for every number of threads and nodes, every  *)
(* capacity of the channel and of the notification queue.  What is said    *)
(* about parking assumes that no node but the receiver's leaves the graph, *)
(* and speaks of receivers whose last notification was not refused.        *)
(*                                                                         *)
(* The channel uses the event driver by its interface only: every step of  *)
(* the channel is a step of module EventDriver or leaves it alone, so that *)
(* what is proved of the driver is inherited, and the lemmas about its     *)
(* steps (budget, wake-up, what a block waits for) serve here again.       *)
(***************************************************************************)
EXTENDS Channel, EventDriverProofs, FiniteSetTheorems

\* What the senders and the receiver do is something the event driver allows.
LEMMA ChannelStepIsEventStep == [ChannelNext]_chan_vars => [EventNext]_event_vars
<1> SUFFICES ASSUME [ChannelNext]_chan_vars PROVE EventNext \/ UNCHANGED event_vars
  OBVIOUS
<1> USE ChannelAssumption DEF EventNext, World, Loop
<1>1. CASE \E t \in Thread : SenderCalls(t)
  BY <1>1 DEF SenderCalls, StartSend, CloneSender, DropSender, NotifyOther
<1>2. CASE \E t \in Thread : SenderStep(t)
  BY <1>2 DEF SenderStep, Push, Retry, SendNotify, FinishNotify
<1>3. CASE RuntimeStep
  BY <1>3 DEF RuntimeStep, PollStep, EnterReceiver, ReceiveSome, ReceiveNone,
              LoadSenders, EnterOther, ReturnNode, EndCycleReceiver
<1>4. CASE UNCHANGED chan_vars
  BY <1>4 DEF chan_vars
<1>5. QED
  BY <1>1, <1>2, <1>3, <1>4 DEF ChannelNext

\* A program that uses channels is a program that uses the event driver: what
\* holds of every use of notifiers holds of the senders.
THEOREM ChannelUsesEventDriver == ChannelSpec => EventSpec
<1>1. ChannelInit => EventInit
  BY DEF ChannelInit
<1>2. QED
  BY <1>1, ChannelStepIsEventStep, PTL DEF ChannelSpec, EventSpec

-----------------------------------------------------------------------------
(* Types.                                                                  *)

\* Within its limit the cycle function of the receiver goes on.
TakenInv == receive_at = "pop" /\ ReceiveLimit # 0 => taken < ReceiveLimit

LEMMA ChannelInitTypes == ChannelInit => ChannelTypeOK /\ TakenInv
<1> SUFFICES ASSUME ChannelInit PROVE ChannelTypeOK /\ TakenInv
  OBVIOUS
<1>1. EventTypeOK
  BY EventInitInv DEF ChannelInit, EventInv
<1>2. queued \in 0 .. ChannelCapacity /\ taken \in 0 .. ReceiveLimit
  BY ChannelAssumption DEF ChannelInit
<1>3. send_at \in [Thread -> Place]
  BY DEF ChannelInit, Place
<1>4. QED
  BY <1>1, <1>2, <1>3 DEF ChannelInit, ChannelTypeOK, TakenInv

LEMMA ChannelTypeStep ==
  ASSUME ChannelTypeOK, TakenInv, [ChannelNext]_chan_vars
  PROVE  ChannelTypeOK' /\ TakenInv'
<1>1. EventTypeOK'
  <2>1. CASE EventNext
    BY <2>1, TypeStep DEF ChannelTypeOK
  <2>2. CASE UNCHANGED event_vars
    BY <2>2 DEF ChannelTypeOK, EventTypeOK, event_vars, io_vars, source_vars,
                clock_vars, loop_vars
  <2>3. QED
    BY <2>1, <2>2, ChannelStepIsEventStep
<1> DEFINE SenderTypes ==
             /\ queued \in 0 .. ChannelCapacity
             /\ holders \subseteq Thread
             /\ send_at \in [Thread -> Place]
           ReceiverTypes ==
             /\ queued \in 0 .. ChannelCapacity
             /\ receivers \in {0, 1}
             /\ receive_at \in {"pop", "load", "returned"}
             /\ taken \in 0 .. ReceiveLimit
             /\ closed \in BOOLEAN /\ refused \in BOOLEAN
             /\ TakenInv
<1>2. SenderTypes /\ ReceiverTypes
  BY DEF ChannelTypeOK
<1> USE ChannelAssumption
<1>3. CASE \E t \in Thread : SenderCalls(t)
  <2>1. SenderTypes'
    BY <1>2, <1>3 DEF SenderCalls, StartSend, LoadReceivers, GoTo, CloneSender,
                      DropSender, NotifyOther, Place
  <2>2. UNCHANGED <<queued, receivers, receiver_vars>>
    BY <1>3 DEF SenderCalls, StartSend, CloneSender, DropSender, NotifyOther
  <2>3. QED
    BY <1>1, <1>2, <2>1, <2>2 DEF ChannelTypeOK, TakenInv, receiver_vars
<1>4. CASE \E t \in Thread : SenderStep(t)
  <2>1. SenderTypes'
    BY <1>2, <1>4 DEF SenderStep, Push, Retry, SendNotify, FinishNotify, LoadReceivers,
                      GoTo, SendKind, Place
  <2>2. /\ UNCHANGED <<receivers, receive_at, taken, closed>>
        /\ refused' \in BOOLEAN
    BY <1>2, <1>4 DEF SenderStep, Push, Retry, SendNotify, FinishNotify,
                      receiver_vars
  <2>3. QED
    BY <1>1, <1>2, <2>1, <2>2 DEF ChannelTypeOK, TakenInv, receiver_vars
<1>5. CASE RuntimeStep
  <2>1. UNCHANGED sender_vars
    BY <1>5 DEF RuntimeStep, PollStep, EnterReceiver, ReceiveSome, ReceiveNone,
                LoadSenders, EnterOther, ReturnNode, EndCycleReceiver,
                channel_vars
  <2>2. ReceiverTypes'
    <3>1. CASE ReceiveSome
      <4>1. queued' \in 0 .. ChannelCapacity
        BY <1>2, <3>1 DEF ReceiveSome
      <4>2. taken' \in 0 .. ReceiveLimit /\ TakenInv'
        BY <1>2, <3>1 DEF ReceiveSome, TakenInv
      <4>3. UNCHANGED <<receivers, closed, refused>> /\ receive_at' \in {"pop", "returned"}
        BY <3>1 DEF ReceiveSome
      <4>4. QED
        BY <1>2, <4>1, <4>2, <4>3
    <3>2. CASE EnterReceiver
      <4>1. taken' \in 0 .. ReceiveLimit /\ TakenInv'
        BY <3>2 DEF EnterReceiver, TakenInv
      <4>2. /\ UNCHANGED <<queued, receivers, closed>>
            /\ receive_at' = "pop" /\ refused' \in BOOLEAN
        BY <3>2 DEF EnterReceiver
      <4>3. QED
        BY <1>2, <4>1, <4>2
    <3>3. CASE ReceiveNone \/ LoadSenders
      BY <1>2, <3>3 DEF ReceiveNone, LoadSenders, TakenInv
    <3>4. CASE \E D \in SUBSET Removable : EndCycleReceiver(D)
      BY <1>2, <3>4 DEF EndCycleReceiver, receiver_vars, TakenInv
    <3>5. CASE UNCHANGED channel_vars
      BY <1>2, <3>5 DEF channel_vars, receiver_vars, TakenInv
    <3>6. QED
      BY <1>5, <3>1, <3>2, <3>3, <3>4, <3>5
         DEF RuntimeStep, PollStep, EnterOther, ReturnNode
  <2>3. QED
    BY <1>1, <1>2, <2>1, <2>2 DEF ChannelTypeOK, sender_vars
<1>6. CASE UNCHANGED chan_vars
  BY <1>1, <1>2, <1>6 DEF ChannelTypeOK, TakenInv, chan_vars, channel_vars,
                          sender_vars, receiver_vars
<1>7. QED
  BY <1>3, <1>4, <1>5, <1>6 DEF ChannelNext

\* The channel holds no more than its capacity, and a cycle function no more
\* messages than its limit.
THEOREM ChannelTypes == ChannelSpec => []ChannelTypeOK
BY ChannelInitTypes, ChannelTypeStep, PTL DEF ChannelSpec

-----------------------------------------------------------------------------
(* A receiver that drains its channel is never left with a message, nor    *)
(* with the news that the last sender is gone.  The invariant follows both *)
(* from the sender to the cycle function: a notification is about to be    *)
(* pushed, or queued, or scheduled, or the cycle function is still         *)
(* looking.  A receiver that takes a limited number of messages per cycle  *)
(* breaks the last case: it returns without having looked again (run       *)
(* receive_limit).                                                         *)

\* The other nodes stay: a notification that is popped while the receiver is
\* in the graph schedules its node, and the poll that popped it does not block.
OthersStay == Node \ {Rx} \subseteq alive

\* The cycle function runs inside a cycle.
ReceiverRuns == receive_at # "returned" => current # NoNode

\* A run of the cycle function is to come, or the queue was full.
WillRun ==
  \/ \E t \in Thread : send_at[t] = "notify"
  \/ Announced
  \/ Rx \in scheduled
  \/ refused

NothingIsMissed ==
  /\ queued > 0 => WillRun \/ receive_at = "pop"
  /\ holders = {} /\ ~ closed => WillRun \/ receive_at \in {"pop", "load"}

DrainInv ==
  /\ OthersStay /\ ReceiverRuns /\ NothingElseWaits
  /\ Rx \in alive => BudgetInv /\ WakeUpIsComing /\ NothingIsMissed

\* What the types and the driver's own invariant contribute.
KnownInv == ChannelTypeOK /\ TakenInv /\ EventInv

LEMMA OthersStayStep ==
  ASSUME Removable \subseteq {Rx}, OthersStay, [ChannelNext]_chan_vars
  PROVE  OthersStay'
<1>1. CASE \E D \in SUBSET Removable : EndCycle(D)
  BY <1>1 DEF OthersStay, EndCycle
<1>2. CASE UNCHANGED alive
  BY <1>2 DEF OthersStay
<1>3. QED
  BY <1>1, <1>2
     DEF ChannelNext, SenderCalls, StartSend, CloneSender, DropSender, NotifyOther,
         NotifyPush, SenderStep, Push, Retry, SendNotify, FinishNotify, NotifyWake,
         RuntimeStep, PollStep, CheckShutdown, PopNotification, EndNotifications,
         PollInternal, FastPoll, SlowPoll, TakeEvents, EnterReceiver, Enter,
         ReceiveSome, ReceiveNone, LoadSenders, EnterOther, ReturnNode, Return,
         EndCycleReceiver, chan_vars, event_vars

LEMMA ReceiverRunsStep ==
  ASSUME ReceiverRuns, [ChannelNext]_chan_vars
  PROVE  ReceiverRuns'
BY ChannelAssumption, EventDriverAssumption
   DEF ReceiverRuns, ChannelNext, SenderCalls, StartSend, CloneSender, DropSender,
       NotifyOther, SenderStep, Push, Retry, SendNotify, NotifyPush, FinishNotify, NotifyWake,
       RuntimeStep, PollStep, CheckShutdown, PopNotification, EndNotifications,
       PollInternal, FastPoll, SlowPoll, TakeEvents, EnterReceiver, Enter,
       ReceiveSome, ReceiveNone, LoadSenders, EnterOther, ReturnNode, Return,
       EndCycleReceiver, EndCycle, chan_vars, event_vars, channel_vars,
       receiver_vars

LEMMA AppendAnnounces ==
  ASSUME NEW n \in Node, notifications \in Seq(Node),
         notifications' = Append(notifications, n), Announced \/ n = Rx
  PROVE  Announced'
<1>1. /\ Len(notifications') = Len(notifications) + 1
      /\ Len(notifications) \in Nat
      /\ notifications'[Len(notifications) + 1] = n
      /\ \A j \in 1 .. Len(notifications) : notifications'[j] = notifications[j]
  OBVIOUS
<1>2. CASE Announced
  <2>1. PICK j \in 1 .. Len(notifications) : notifications[j] = Rx
    BY <1>2 DEF Announced
  <2>2. j \in 1 .. Len(notifications') /\ notifications'[j] = Rx
    BY <1>1, <2>1
  <2>3. QED
    BY <2>2 DEF Announced
<1>3. CASE n = Rx
  <2>1. Len(notifications) + 1 \in 1 .. Len(notifications')
    BY <1>1
  <2>2. QED
    BY <1>1, <1>3, <2>1 DEF Announced
<1>4. QED
  BY <1>2, <1>3

\* notify() of another node takes nothing away.
LEMMA OtherNotificationsQueueUp ==
  ASSUME NEW t, NEW n \in Node, EventTypeOK, NotifyPush(t, n), Announced
  PROVE  Announced'
<1>1. CASE notifications' = Append(notifications, n)
  BY <1>1, AppendAnnounces DEF EventTypeOK
<1>2. CASE UNCHANGED notifications
  BY <1>2 DEF Announced
<1>3. QED
  BY <1>1, <1>2 DEF NotifyPush

\* A notification of Rx is accepted, or coalesces, or is refused.
LEMMA NotifiedOrRefused ==
  ASSUME NEW t, EventTypeOK, SendNotify(t)
  PROVE  Announced' \/ refused'
<1>1. CASE notifications' = Append(notifications, Rx)
  BY <1>1, AppendAnnounces, ChannelAssumption DEF EventTypeOK
<1>2. CASE Len(notifications) = Capacity /\ UNCHANGED notifications
  <2>1. CASE Announced
    BY <1>2, <2>1 DEF Announced
  <2>2. CASE ~ Announced
    BY <1>2, <2>2 DEF SendNotify
  <2>3. QED
    BY <2>1, <2>2
<1>3. QED
  BY <1>1, <1>2 DEF SendNotify, NotifyPush

\* Popping a notification schedules its node, or leaves it in the queue.
LEMMA PopServes ==
  ASSUME EventTypeOK, Rx \in alive, PopNotification, Announced
  PROVE  Announced' \/ Rx \in scheduled'
<1>1. PICK j \in 1 .. Len(notifications) : notifications[j] = Rx
  BY DEF Announced
<1>2. CASE j = 1
  BY <1>1, <1>2 DEF PopNotification, Schedule, EventTypeOK
<1>3. CASE j # 1
  <2>1. /\ Len(notifications') = Len(notifications) - 1
        /\ Len(notifications) \in Nat
        /\ \A i \in 1 .. Len(notifications') : notifications'[i] = notifications[i + 1]
    BY DEF PopNotification, EventTypeOK
  <2>2. j - 1 \in 1 .. Len(notifications')
    BY <1>3, <2>1
  <2>3. notifications'[j - 1] = Rx
    BY <1>1, <2>1, <2>2
  <2>4. QED
    BY <2>2, <2>3 DEF Announced
<1>4. QED
  BY <1>2, <1>3

\* A notification is on its way from the push to the cycle function.
LEMMA WillRunStep ==
  ASSUME ChannelTypeOK, Rx \in alive, WillRun, [ChannelNext]_chan_vars
  PROVE  WillRun' \/ EnterReceiver
<1>0. EventTypeOK /\ DOMAIN send_at = Thread
  BY DEF ChannelTypeOK
<1> SUFFICES ASSUME ~ EnterReceiver PROVE WillRun'
  OBVIOUS
<1>1. CASE \E t \in Thread : SendNotify(t)
  BY <1>0, <1>1, NotifiedOrRefused DEF WillRun
<1>2. CASE ~ (\E t \in Thread : SendNotify(t))
  <2>1. \A t \in Thread : send_at[t] = "notify" => send_at'[t] = "notify"
    BY <1>0, <1>2
       DEF ChannelNext, SenderCalls, StartSend, LoadReceivers, GoTo, CloneSender,
           DropSender, NotifyOther, SenderStep, Push, Retry, FinishNotify,
           SendKind, RuntimeStep, PollStep, EnterOther, ReceiveSome, ReceiveNone,
           LoadSenders, ReturnNode, EndCycleReceiver, chan_vars, channel_vars,
           sender_vars
  <2>2. refused => refused'
    BY <1>2
       DEF ChannelNext, SenderCalls, StartSend, CloneSender, DropSender, NotifyOther,
           SenderStep, Push, Retry, FinishNotify, RuntimeStep, PollStep, EnterOther,
           ReceiveSome, ReceiveNone, LoadSenders, ReturnNode, EndCycleReceiver,
           chan_vars, channel_vars, receiver_vars
  <2>3. Rx \in scheduled => Rx \in scheduled'
    BY <1>2
       DEF ChannelNext, SenderCalls, StartSend, CloneSender, DropSender, NotifyOther,
           NotifyPush, SenderStep, Push, Retry, FinishNotify, NotifyWake,
           RuntimeStep, PollStep, CheckShutdown, PopNotification, EndNotifications,
           PollInternal, Schedule, FastPoll, SlowPoll, TakeEvents, EnterOther, Enter,
           ReceiveSome, ReceiveNone, LoadSenders, ReturnNode, Return,
           EndCycleReceiver, EndCycle, chan_vars, event_vars
  <2>4. Announced => Announced' \/ Rx \in scheduled'
    <3>1. CASE PopNotification
      BY <1>0, <3>1, PopServes
    <3>2. CASE \E t \in Thread, n \in Node : NotifyPush(t, n)
      BY <1>0, <3>2, OtherNotificationsQueueUp
    <3>3. CASE UNCHANGED notifications
      BY <3>3 DEF Announced
    <3>4. QED
      BY <1>2, <3>1, <3>2, <3>3
         DEF ChannelNext, SenderCalls, StartSend, CloneSender, DropSender,
             NotifyOther, SenderStep, Push, Retry, FinishNotify, NotifyWake,
             RuntimeStep, PollStep, CheckShutdown, EndNotifications, PollInternal,
             FastPoll, SlowPoll, TakeEvents, EnterOther, Enter, ReceiveSome,
             ReceiveNone, LoadSenders, ReturnNode, Return, EndCycleReceiver,
             EndCycle, chan_vars, event_vars
  <2>5. QED
    BY <2>1, <2>2, <2>3, <2>4 DEF WillRun
<1>3. QED
  BY <1>1, <1>2

\* A message is pushed by a sender that notifies next, and the last sender to
\* go notifies too; the cycle function returns when it has found nothing and
\* has looked at the senders.
LEMMA NothingIsMissedStep ==
  ASSUME ReceiveLimit = 0, KnownInv, ReceiverRuns, NothingIsMissed,
         Rx \in alive, [ChannelNext]_chan_vars
  PROVE  NothingIsMissed'
<1>1. WillRun => WillRun' \/ EnterReceiver
  BY WillRunStep DEF KnownInv
<1>2. CASE EnterReceiver
  BY <1>2 DEF EnterReceiver, NothingIsMissed
<1>3. CASE \E t \in Thread : Push(t)
  <2>1. PICK t \in Thread : Push(t)
    BY <1>3
  <2>2. CASE UNCHANGED queued
    <3>1. UNCHANGED <<holders, closed, receive_at>>
      BY <2>1 DEF Push, receiver_vars
    <3>2. ~ EnterReceiver
      <4>1. UNCHANGED current
        BY <2>1 DEF Push, event_vars
      <4>2. QED
        BY <4>1, EventDriverAssumption, ChannelAssumption DEF EnterReceiver, Enter
    <3>3. QED
      BY <1>1, <1>2, <2>2, <3>1, <3>2 DEF NothingIsMissed
  <2>3. CASE GoTo(t, "notify")
    BY <2>1, <2>3 DEF GoTo, WillRun, NothingIsMissed, KnownInv, ChannelTypeOK
  <2>4. QED
    BY <2>1, <2>2, <2>3 DEF Push
<1>4. CASE \E t \in Thread : DropSender(t)
  <2>1. PICK t \in Thread : DropSender(t)
    BY <1>4
  <2>2. CASE Cardinality(holders) = 1
    BY <2>1, <2>2 DEF DropSender, GoTo, WillRun, NothingIsMissed, KnownInv, ChannelTypeOK
  <2>3. CASE Cardinality(holders) # 1
    <3>1. holders' # {}
      <4> SUFFICES ASSUME holders' = {} PROVE FALSE
        OBVIOUS
      <4>1. holders = {t}
        BY <2>1 DEF DropSender
      <4>2. QED
        BY <2>3, <4>1, FS_Singleton
    <3>2. UNCHANGED <<queued, receive_at>>
      BY <2>1 DEF DropSender, receiver_vars
    <3>3. QED
      BY <1>1, <1>2, <3>1, <3>2 DEF NothingIsMissed
  <2>4. QED
    BY <2>2, <2>3
<1>5. CASE ReceiveSome
  BY <1>5, ChannelAssumption DEF ReceiveSome, NothingIsMissed, KnownInv, ChannelTypeOK
<1>6. CASE ReceiveNone
  BY <1>6 DEF ReceiveNone, NothingIsMissed
<1>7. CASE LoadSenders
  <2>1. /\ UNCHANGED <<queued, holders>>
        /\ holders = {} => closed'
        /\ receive_at = "load"
    BY <1>7 DEF LoadSenders, sender_vars
  <2>2. QED
    BY <1>1, <1>2, <2>1 DEF NothingIsMissed
<1>8. CASE /\ ~ EnterReceiver /\ ~ ReceiveSome /\ ~ ReceiveNone /\ ~ LoadSenders
           /\ ~ (\E t \in Thread : Push(t)) /\ ~ (\E t \in Thread : DropSender(t))
  <2>1. UNCHANGED <<queued, receive_at, closed>> /\ holders \subseteq holders'
    BY <1>8
       DEF ChannelNext, SenderCalls, StartSend, CloneSender, NotifyOther, SenderStep,
           Retry, SendNotify, FinishNotify, RuntimeStep, PollStep, EnterOther,
           ReturnNode, EndCycleReceiver, chan_vars, channel_vars, sender_vars,
           receiver_vars
  <2>2. QED
    BY <1>1, <1>8, <2>1 DEF NothingIsMissed
<1>9. QED
  BY <1>2, <1>3, <1>4, <1>5, <1>6, <1>7, <1>8

LEMMA DrainStep ==
  ASSUME ReceiveLimit = 0, Removable \subseteq {Rx}, KnownInv, DrainInv,
         [ChannelNext]_chan_vars
  PROVE  DrainInv'
<1>1. OthersStay' /\ ReceiverRuns'
  BY OthersStayStep, ReceiverRunsStep DEF DrainInv
<1>2. NothingElseWaits'
  <2>1. CASE UNCHANGED event_vars
    BY <2>1 DEF DrainInv, NothingElseWaits, event_vars, source_vars, loop_vars
  <2>2. QED
    BY <2>1, NothingElseStep, ChannelStepIsEventStep DEF DrainInv, KnownInv, EventInv
<1>3. ASSUME Rx \in alive' PROVE BudgetInv' /\ WakeUpIsComing' /\ NothingIsMissed'
  <2>1. Rx \in alive
    BY <1>3
       DEF ChannelNext, SenderCalls, StartSend, CloneSender, DropSender, NotifyOther,
           NotifyPush, SenderStep, Push, Retry, SendNotify, FinishNotify, NotifyWake,
           RuntimeStep, PollStep, CheckShutdown, PopNotification, EndNotifications,
           PollInternal, FastPoll, SlowPoll, TakeEvents, EnterReceiver, Enter,
           ReceiveSome, ReceiveNone, LoadSenders, EnterOther, ReturnNode, Return, EndCycleReceiver,
           EndCycle, chan_vars, event_vars
  <2>2. NothingIsMissed'
    BY <2>1, NothingIsMissedStep DEF DrainInv
  <2>3. CASE UNCHANGED event_vars
    BY <2>1, <2>2, <2>3 DEF DrainInv, BudgetInv, WakeUpIsComing, event_vars, loop_vars
  <2>4. CASE EventNext
    <3>1. notifications # <<>> => Head(notifications) \in alive
      BY <2>1 DEF DrainInv, OthersStay, KnownInv, EventInv, EventTypeOK
    <3>2. BudgetInv' /\ WakeUpIsComing'
      BY <2>1, <2>4, <3>1, BudgetStep, WakeUpStep DEF DrainInv, KnownInv, EventInv
    <3>3. QED
      BY <2>2, <3>2
  <2>5. QED
    BY <2>3, <2>4, ChannelStepIsEventStep
<1>4. QED
  BY <1>1, <1>2, <1>3 DEF DrainInv

LEMMA DrainAlwaysInv ==
  ASSUME ReceiveLimit = 0, Removable \subseteq {Rx}
  PROVE  ChannelSpec => [](KnownInv /\ DrainInv)
<1>1. ChannelInit => DrainInv
  BY DEF ChannelInit, EventInit, DrainInv, OthersStay, ReceiverRuns,
         NothingElseWaits, BudgetInv, WakeUpIsComing, NothingIsMissed
<1>2. KnownInv /\ DrainInv /\ [ChannelNext]_chan_vars => DrainInv'
  BY DrainStep
<1>3. ChannelSpec => [](ChannelTypeOK /\ TakenInv)
  BY ChannelInitTypes, ChannelTypeStep, PTL DEF ChannelSpec
<1>4. ChannelSpec => []EventInv
  BY ChannelUsesEventDriver, EventAlwaysInv, PTL
<1>5. QED
  BY <1>1, <1>2, <1>3, <1>4, PTL DEF ChannelSpec, KnownInv

\* While the runtime is parked no run of the receiver is to come, unless a
\* sender has yet to notify.
LEMMA ParkedWaits ==
  ASSUME KnownInv, DrainInv, Parked, Rx \in alive, ~ refused,
         \A t \in Thread : send_at[t] # "notify"
  PROVE  ~ WillRun /\ receive_at = "returned"
<1>1. scheduled = {} /\ notifications = <<>>
  BY DEF DrainInv, NothingElseWaits, WakeUpIsComing, Parked
<1>2. ~ Announced
  BY <1>1 DEF Announced
<1>3. receive_at = "returned"
  BY DEF DrainInv, ReceiverRuns, KnownInv, EventInv, RunsInRun, Parked
<1>4. QED
  BY <1>1, <1>2, <1>3 DEF WillRun

\* A parked runtime has no message for a receiver in the graph, except one
\* whose sender has yet to notify, or whose notification was refused by a
\* queue full of other nodes' notifications: pushed first and notified
\* afterwards, the message is seen by the poll or by the poller's wake-up.
\* Assumed: the receiver takes all it finds, and no other node leaves the graph.
THEOREM NoMessageIsLeft ==
  ASSUME ReceiveLimit = 0, Removable \subseteq {Rx}
  PROVE  ChannelSpec => []ParkedIsDrained
<1>1. KnownInv /\ DrainInv => ParkedIsDrained
  <2> SUFFICES ASSUME KnownInv, DrainInv, ~ refused, Parked, Rx \in alive,
                      \A t \in Thread : send_at[t] # "notify"
               PROVE  queued = 0
    BY DEF ParkedIsDrained, SendsWake
  <2>1. ~ WillRun /\ receive_at = "returned"
    BY ParkedWaits
  <2>2. ~ (queued > 0)
    BY <2>1 DEF DrainInv, NothingIsMissed
  <2>3. QED
    BY <2>2, ChannelAssumption DEF KnownInv, ChannelTypeOK
<1>2. QED
  BY <1>1, DrainAlwaysInv, PTL

\* "When all senders are dropped, the receiver will report the channel as
\* closed": no runtime parks before it did, except when the last sender has
\* yet to notify, or its notification was refused.  (That it happens at all is
\* CloseIsReported, which needs fairness.)
ParkedIsToldOfClose ==
  Parked /\ Rx \in alive /\ ~ refused /\ holders = {}
  /\ (\A t \in Thread : send_at[t] # "notify") => closed

\* The end of the last sender is not slept through either, on the same
\* assumptions and with the same exception.
THEOREM NoCloseIsMissed ==
  ASSUME ReceiveLimit = 0, Removable \subseteq {Rx}
  PROVE  ChannelSpec => []ParkedIsToldOfClose
<1>1. KnownInv /\ DrainInv => ParkedIsToldOfClose
  <2> SUFFICES ASSUME KnownInv, DrainInv, ~ refused, Parked, Rx \in alive,
                      holders = {}, \A t \in Thread : send_at[t] # "notify"
               PROVE  closed
    BY DEF ParkedIsToldOfClose
  <2>1. ~ WillRun /\ receive_at = "returned"
    BY ParkedWaits
  <2>2. QED
    BY <2>1 DEF DrainInv, NothingIsMissed
<1>2. QED
  BY <1>1, DrainAlwaysInv, PTL
=============================================================================
