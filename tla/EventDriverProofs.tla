-------------------------- MODULE EventDriverProofs --------------------------
(***************************************************************************)
(* Proofs about the event driver, for every number of nodes, threads and   *)
(* tokens, every capacity, poll limit and bound, and both execution modes. *)
(***************************************************************************)
EXTENDS EventDriver, WellFoundedInduction, TLAPS

\* A set of timers that is not empty has a first one.
LEMMA FirstTimer ==
  ASSUME NEW T \in SUBSET [when : Time, node : Node], T # {}
  PROVE  \E t \in T : \A u \in T : t.when <= u.when
<1> DEFINE W == {t.when : t \in T}
           R == OpToRel(<, Nat)
<1>1. W \in SUBSET Nat /\ W # {}
  BY EventDriverAssumption DEF Time
<1>2. PICK w \in W : \A v \in W : <<v, w>> \notin R
  <2>1. IsWellFoundedOn(R, Nat)
    BY NatLessThanWellFounded
  <2> HIDE DEF R, W
  <2>2. \E w \in W : \A v \in W : ~ (<<v, w>> \in R)
    BY <1>1, <2>1, WFMin
  <2>3. QED
    BY <2>2
<1>3. \A v \in W : ~ (v < w)
  BY <1>1, <1>2 DEF OpToRel
<1>4. \A v \in W : w <= v
  BY <1>1, <1>3
<1>5. QED
  BY <1>4

\* The blocking poll sleeps no longer than until the first timer.
LEMMA DeadlineOfTimers ==
  ASSUME EventTypeOK, NEW T \in SUBSET [when : Time, node : Node],
         \A t \in T : cycle_now < t.when
  PROVE  /\ EffectiveDeadline(T) \in Time \cup {Never}
         /\ \A t \in T : EffectiveDeadline(T) <= now + t.when - cycle_now
<1>1. CASE T = {}
  BY <1>1 DEF EffectiveDeadline
<1>2. CASE T # {}
  <2> DEFINE first == CHOOSE t \in T : \A u \in T : t.when <= u.when
  <2>1. first \in T /\ \A u \in T : first.when <= u.when
    BY <1>2, FirstTimer
  <2>2. EffectiveDeadline(T) = Clip(now + (first.when - cycle_now))
    BY <1>2 DEF EffectiveDeadline
  <2> HIDE DEF first
  <2>3. /\ now \in Nat /\ cycle_now \in Nat /\ MaxTime \in Nat
        /\ first.when \in Nat /\ cycle_now < first.when
    BY <2>1, EventDriverAssumption DEF EventTypeOK, Time
  <2>4. \A u \in T : u.when \in Nat
    BY EventDriverAssumption DEF Time
  <2>5. QED
    BY <2>1, <2>2, <2>3, <2>4 DEF Clip, Time
<1>3. QED
  BY <1>1, <1>2

\* What is left in the timer driver after a poll lies ahead.
LEMMA LeftAhead ==
  ASSUME EventTypeOK
  PROVE  \A t \in timers \ Expired : cycle_now < t.when
BY EventDriverAssumption DEF EventTypeOK, Expired, Time

-----------------------------------------------------------------------------
(* The invariant.                                                          *)

\* Nodes run in the last stage of a cycle only, so that nothing is registered
\* while the blocking poll waits.
RunsInRun == current # NoNode => stage = "run"

EventInv == EventTypeOK /\ RunsInRun /\ TokensNameTheirNode /\ ParkedUntilTimer

LEMMA EventInitInv == EventInit => EventInv
<1> SUFFICES ASSUME EventInit PROVE EventInv
  OBVIOUS
<1>1. EventTypeOK
  <2>1. notifications \in Seq(Node) /\ Len(notifications) <= Capacity
    BY EventDriverAssumption DEF EventInit
  <2>2. now \in Time /\ cycle_now \in Time /\ budget \in 0 .. PollLimit
    BY EventDriverAssumption DEF EventInit, Time
  <2>3. /\ notifying \in [Thread -> Node \cup {NoNode}]
        /\ indices \in [Token -> Node \cup {NoNode}]
    BY DEF EventInit
  <2>4. /\ sources = {} /\ readiness = {} /\ yields = {} /\ timers = {}
        /\ scheduled = {} /\ due = {} /\ alive = Node
        /\ current = NoNode /\ deadline = Never
        /\ waker \in BOOLEAN /\ shutdown \in BOOLEAN /\ stage \in Stages
    BY DEF EventInit, Stages
  <2>5. QED
    BY <2>1, <2>2, <2>3, <2>4 DEF EventTypeOK
<1>2. QED
  BY <1>1 DEF EventInit, EventInv, RunsInRun, TokensNameTheirNode, ParkedUntilTimer

LEMMA TypeStep == EventTypeOK /\ EventNext => EventTypeOK'
<1> SUFFICES ASSUME EventTypeOK, EventNext PROVE EventTypeOK'
  OBVIOUS
<1> USE EventDriverAssumption
<1>1. CASE \E t \in Thread, n \in Node : NotifyPush(t, n)
  <2>1. PICK t \in Thread, n \in Node : NotifyPush(t, n)
    BY <1>1
  <2>2. notifications' \in Seq(Node) /\ Len(notifications') <= Capacity
    <3>1. CASE Len(notifications) < Capacity /\ notifications' = Append(notifications, n)
      BY <3>1 DEF EventTypeOK
    <3>2. CASE UNCHANGED notifications
      BY <3>2 DEF EventTypeOK
    <3>3. QED
      BY <2>1, <3>1, <3>2 DEF NotifyPush
  <2>3. notifying' \in [Thread -> Node \cup {NoNode}] /\ due' \subseteq Node
    BY <2>1 DEF NotifyPush, EventTypeOK
  <2>4. QED
    BY <2>1, <2>2, <2>3 DEF NotifyPush, EventTypeOK, io_vars, source_vars, clock_vars,
                            loop_vars
<1>2. CASE \E src \in sources : SourceReady(src)
  BY <1>2 DEF SourceReady, EventTypeOK, source_vars, clock_vars, loop_vars
<1>3. CASE \E src \in sources : DropSource(src)
  BY <1>3 DEF DropSource, Forget, EventTypeOK, source_vars, clock_vars, loop_vars
<1>4. CASE Signal \/ Interrupted
  BY <1>4 DEF Signal, Interrupted, EventTypeOK, io_vars, source_vars, clock_vars,
              loop_vars, Stages
<1>5. CASE Terminate
  BY <1>5 DEF Terminate, EventTypeOK, io_vars, source_vars, clock_vars, Stages
<1>6. CASE \E n \in Yielding : YieldNow(n)
  BY <1>6 DEF YieldNow, EventTypeOK, io_vars, clock_vars, loop_vars
<1>7. CASE \E n \in Node, k \in Token : RegisterSource(n, k)
  BY <1>7 DEF RegisterSource, EventTypeOK, source_vars, clock_vars, loop_vars
<1>8. CASE \E src \in sources : DeregisterSource(src)
  BY <1>8 DEF DeregisterSource, Forget, EventTypeOK, source_vars, clock_vars, loop_vars
<1>9. CASE \E n \in Node, when \in Time : RegisterTimer(n, when)
  BY <1>9 DEF RegisterTimer, EventTypeOK, io_vars, clock_vars, loop_vars
<1>10. CASE \E t \in timers : DeregisterTimer(t)
  BY <1>10 DEF DeregisterTimer, EventTypeOK, io_vars, clock_vars, loop_vars
<1>11. CASE CheckShutdown
  BY <1>11 DEF CheckShutdown, EventTypeOK, io_vars, source_vars, clock_vars, Stages
<1>12. CASE PopNotification
  <2>1. Head(notifications) \in Node /\ Tail(notifications) \in Seq(Node)
        /\ Len(Tail(notifications)) <= Capacity
    BY <1>12 DEF PopNotification, EventTypeOK
  <2>2. budget - 1 \in 0 .. PollLimit
    BY <1>12 DEF PopNotification, EventTypeOK
  <2>3. QED
    BY <1>12, <2>1, <2>2 DEF PopNotification, Schedule, EventTypeOK, io_vars,
                             source_vars, clock_vars
<1>13. CASE EndNotifications
  BY <1>13 DEF EndNotifications, EventTypeOK, io_vars, source_vars, Stages
<1>14. CASE PollInternal
  <2>1. timers' \subseteq [when : Time, node : Node]
    BY <1>14 DEF PollInternal, EventTypeOK
  <2>2. deadline' \in Time \cup {Never}
    BY <1>14, <2>1, LeftAhead, DeadlineOfTimers DEF PollInternal, EventTypeOK
  <2>3. QED
    BY <1>14, <2>1, <2>2 DEF PollInternal, Schedule, EventTypeOK, io_vars,
                             clock_vars, Stages
<1>15. CASE FastPoll \/ SlowPoll
  BY <1>15 DEF FastPoll, SlowPoll, TakeEvents, Schedule, EventTypeOK, source_vars, Stages
<1>16. CASE \E n \in Node : Enter(n)
  BY <1>16 DEF Enter, EventTypeOK, io_vars, source_vars, clock_vars, loop_vars
<1>17. CASE Return
  BY <1>17 DEF Return, EventTypeOK, io_vars, source_vars, clock_vars, loop_vars
<1>18. CASE \E D \in SUBSET Removable : EndCycle(D)
  BY <1>18 DEF EndCycle, EventTypeOK, io_vars, source_vars, clock_vars, Stages
<1>19. CASE \E t \in Thread : NotifyWake(t)
  BY <1>19 DEF NotifyWake, EventTypeOK, io_vars, source_vars, clock_vars, loop_vars
<1>20. CASE Tick
  BY <1>20 DEF Tick, EventTypeOK, io_vars, source_vars, loop_vars, Time
<1>21. QED
  BY <1>1, <1>2, <1>3, <1>4, <1>5, <1>6, <1>7, <1>8, <1>9, <1>10, <1>11, <1>12,
     <1>13, <1>14, <1>15, <1>16, <1>17, <1>18, <1>19, <1>20
     DEF EventNext, World, Loop

\* Tokens: a slab entry is freed only when its source is forgotten, and given
\* out only when it is vacant, so that no two sources share one.
LEMMA TokensStep ==
  EventTypeOK /\ TokensNameTheirNode /\ EventNext => TokensNameTheirNode'
<1> SUFFICES ASSUME EventTypeOK, TokensNameTheirNode, EventNext
             PROVE  TokensNameTheirNode'
  OBVIOUS
<1>1. CASE UNCHANGED <<indices, sources>>
  BY <1>1 DEF TokensNameTheirNode
<1>2. CASE \E src \in sources : DropSource(src)
  BY <1>2 DEF DropSource, Forget, TokensNameTheirNode
<1>3. CASE \E n \in Node, k \in Token : RegisterSource(n, k)
  <2>1. PICK n \in Node, k \in Token : RegisterSource(n, k)
    BY <1>3
  <2>2. \A src \in sources : src.token # k
    BY <2>1, EventDriverAssumption DEF RegisterSource, TokensNameTheirNode, EventTypeOK
  <2>3. QED
    BY <2>1, <2>2 DEF RegisterSource, TokensNameTheirNode, EventTypeOK
<1>4. CASE \E src \in sources : DeregisterSource(src)
  <2>1. PICK src \in sources : DeregisterSource(src)
    BY <1>4
  <2>2. \A other \in sources \ {src} : other.token # src.token
    <3> SUFFICES ASSUME NEW other \in sources, other.token = src.token
                 PROVE  other = src
      OBVIOUS
    <3>1. other.node = src.node
      BY DEF TokensNameTheirNode
    <3>2. QED
      BY <3>1 DEF EventTypeOK
  <2>3. QED
    BY <2>1, <2>2 DEF DeregisterSource, Forget, TokensNameTheirNode, EventTypeOK
<1>5. QED
  BY <1>1, <1>2, <1>3, <1>4
     DEF EventNext, World, Loop, NotifyPush, SourceReady, Signal, Interrupted,
         Terminate, YieldNow, RegisterTimer, DeregisterTimer, CheckShutdown,
         PopNotification, EndNotifications, PollInternal, FastPoll, SlowPoll,
         TakeEvents, Enter, Return, EndCycle, NotifyWake, Tick, io_vars

LEMMA RunsInRunStep == RunsInRun /\ EventNext => RunsInRun'
BY DEF RunsInRun, EventNext, World, Loop, NotifyPush, SourceReady, DropSource,
       Signal, Interrupted, Terminate, YieldNow, RegisterSource, DeregisterSource,
       RegisterTimer, DeregisterTimer, CheckShutdown, PopNotification,
       EndNotifications, PollInternal, FastPoll, SlowPoll, TakeEvents, Enter,
       Return, EndCycle, NotifyWake, Tick, loop_vars

\* The deadline of the blocking poll: it is set for the timers that are left,
\* and none is added before the poll returns.
LEMMA ParkedUntilTimerStep == EventInv /\ EventNext => ParkedUntilTimer'
<1> SUFFICES ASSUME EventInv, EventNext, stage' = "slow_poll"
             PROVE  \A t \in timers' :
                      cycle_now' < t.when /\ deadline' <= now' + t.when - cycle_now'
  BY DEF ParkedUntilTimer
<1>1. CASE PollInternal
  <2>1. \A t \in timers' : cycle_now < t.when
    BY <1>1, LeftAhead DEF PollInternal, EventInv
  <2>2. deadline' = EffectiveDeadline(timers')
    BY <1>1 DEF PollInternal
  <2>3. timers' \in SUBSET [when : Time, node : Node]
    BY <1>1 DEF PollInternal, EventInv, EventTypeOK
  <2>4. \A t \in timers' : deadline' <= now + t.when - cycle_now
    BY <2>1, <2>2, <2>3, DeadlineOfTimers DEF EventInv
  <2>5. QED
    BY <1>1, <2>1, <2>4 DEF PollInternal, clock_vars
<1>2. CASE Tick
  <2>1. /\ now \in Nat /\ now' = now + 1
        /\ UNCHANGED <<cycle_now, timers, stage, deadline>>
    BY <1>2, EventDriverAssumption
       DEF Tick, source_vars, loop_vars, EventInv, EventTypeOK, Time
  <2>2. \A t \in timers : t.when \in Nat
    BY EventDriverAssumption DEF EventInv, EventTypeOK, Time
  <2>3. cycle_now \in Nat /\ deadline \in Nat
    BY EventDriverAssumption DEF EventInv, EventTypeOK, Time, Never
  <2>4. QED
    BY <2>1, <2>2, <2>3 DEF EventInv, ParkedUntilTimer
<1>3. CASE ~ PollInternal /\ ~ Tick
  <2>1. /\ stage = "slow_poll"
        /\ UNCHANGED <<timers, cycle_now, now, deadline>>
    <3>1. current = NoNode \/ stage = "run"
      BY DEF EventInv, RunsInRun
    <3>2. QED
      BY <1>3, <3>1
         DEF EventNext, World, Loop, NotifyPush, SourceReady, DropSource, Signal,
             Interrupted, Terminate, YieldNow, RegisterSource, DeregisterSource,
             RegisterTimer, DeregisterTimer, CheckShutdown, PopNotification,
             EndNotifications, FastPoll, SlowPoll, TakeEvents, Enter, Return,
             EndCycle, NotifyWake, source_vars, clock_vars, loop_vars
  <2>2. QED
    BY <2>1 DEF EventInv, ParkedUntilTimer
<1>4. QED
  BY <1>1, <1>2, <1>3

LEMMA EventAlwaysInv == EventSpec => []EventInv
<1>1. EventInv /\ [EventNext]_event_vars => EventInv'
  <2>1. CASE EventNext
    BY <2>1, TypeStep, TokensStep, RunsInRunStep, ParkedUntilTimerStep DEF EventInv
  <2>2. CASE UNCHANGED event_vars
    BY <2>2 DEF EventInv, EventTypeOK, RunsInRun, TokensNameTheirNode,
       ParkedUntilTimer, event_vars, io_vars, source_vars, clock_vars, loop_vars
  <2>3. QED
    BY <2>1, <2>2
<1>2. QED
  BY <1>1, EventInitInv, PTL DEF EventSpec

-----------------------------------------------------------------------------
\* The state of the event driver keeps its types: the queue stays within its
\* capacity, the budget of a poll is not exceeded.
THEOREM EventTypes == EventSpec => []EventTypeOK
BY EventAlwaysInv, PTL DEF EventInv

\* An I/O event finds the node that its source was registered for, whatever is
\* registered, deregistered and dropped.
THEOREM TokensAreExact == EventSpec => []TokensNameTheirNode
BY EventAlwaysInv, PTL DEF EventInv

\* The blocking poll returns in time for the first timer.
THEOREM TimersEndTheSleep == EventSpec => []ParkedUntilTimer
BY EventAlwaysInv, PTL DEF EventInv

-----------------------------------------------------------------------------
(* Push-then-wake against pop-then-block, in a graph no node leaves.  (The *)
(* notifications of removed nodes use up the poll limit without scheduling *)
(* anything, and the runtime then parks on the rest.)                      *)

\* A node whose notification was accepted is in the queue or about to run.
DueIsPending ==
  \A n \in due : n \in scheduled \/ \E j \in 1 .. Len(notifications) : notifications[j] = n

\* The budget of a poll is fresh until something was popped and scheduled.
BudgetInv == budget = PollLimit \/ (stage = "notifications" /\ scheduled # {})

\* Once the queue was found empty, whatever is in it has its wake-up coming.
WakeUpIsComing ==
  stage \in {"internal", "slow_poll"} /\ scheduled = {} =>
    notifications = <<>> \/ waker \/ \E t \in Thread : notifying[t] # NoNode

NothingElseWaits == stage = "slow_poll" => yields = {} /\ scheduled = {}

IdleInv ==
  alive = Node /\ DueIsPending /\ BudgetInv /\ WakeUpIsComing /\ NothingElseWaits

LEMMA DueStep ==
  ASSUME EventTypeOK, alive = Node, DueIsPending, EventNext
  PROVE  DueIsPending'
<1>1. CASE \E t \in Thread, n \in Node : NotifyPush(t, n)
  <2>1. PICK t \in Thread, n \in Node : NotifyPush(t, n)
    BY <1>1
  <2>2. CASE Len(notifications) = Capacity /\ UNCHANGED <<notifications, due>>
    BY <2>1, <2>2 DEF NotifyPush, DueIsPending
  <2>3. CASE /\ notifications' = Append(notifications, n)
             /\ due' = due \cup ({n} \cap alive)
    <3>1. /\ Len(notifications') = Len(notifications) + 1
          /\ Len(notifications) \in Nat
          /\ notifications'[Len(notifications) + 1] = n
          /\ \A j \in 1 .. Len(notifications) : notifications'[j] = notifications[j]
      BY <2>3 DEF EventTypeOK
    <3>2. UNCHANGED scheduled
      BY <2>1 DEF NotifyPush
    <3>3. \A j \in 1 .. Len(notifications) : j \in 1 .. Len(notifications')
      BY <3>1
    <3>4. \E j \in 1 .. Len(notifications') : notifications'[j] = n
      BY <3>1
    <3>5. QED
      BY <2>3, <3>1, <3>2, <3>3, <3>4 DEF DueIsPending
  <2>4. QED
    BY <2>1, <2>2, <2>3 DEF NotifyPush
<1>2. CASE PopNotification
  <2>1. /\ scheduled' = scheduled \cup {Head(notifications)}
        /\ notifications' = Tail(notifications) /\ notifications # <<>>
        /\ UNCHANGED due
    BY <1>2 DEF PopNotification, Schedule, EventTypeOK
  <2>2. \A j \in 1 .. Len(notifications) :
          \/ notifications[j] = Head(notifications)
          \/ j - 1 \in 1 .. Len(Tail(notifications))
             /\ Tail(notifications)[j - 1] = notifications[j]
    BY <2>1 DEF EventTypeOK
  <2>3. QED
    BY <2>1, <2>2 DEF DueIsPending
<1>3. CASE \E n \in Node : Enter(n)
  BY <1>3 DEF Enter, DueIsPending
<1>4. CASE ~ (\E t \in Thread, n \in Node : NotifyPush(t, n)) /\ ~ PopNotification
           /\ ~ (\E n \in Node : Enter(n))
  <2>1. UNCHANGED notifications /\ due' \subseteq due /\ scheduled \subseteq scheduled'
    BY <1>4
       DEF EventNext, World, Loop, SourceReady, DropSource, Signal, Interrupted,
           Terminate, YieldNow, RegisterSource, DeregisterSource, RegisterTimer,
           DeregisterTimer, CheckShutdown, EndNotifications, PollInternal,
           FastPoll, SlowPoll, TakeEvents, Schedule, Return, EndCycle,
           NotifyWake, Tick
  <2>2. QED
    BY <2>1 DEF DueIsPending
<1>5. QED
  BY <1>1, <1>2, <1>3, <1>4

LEMMA BudgetStep ==
  ASSUME EventTypeOK, RunsInRun, BudgetInv, EventNext,
         notifications # <<>> => Head(notifications) \in alive
  PROVE  BudgetInv'
<1>1. CASE PopNotification
  BY <1>1 DEF PopNotification, Schedule, BudgetInv
<1>2. CASE EndNotifications
  BY <1>2 DEF EndNotifications, BudgetInv
<1>3. CASE ~ PopNotification /\ ~ EndNotifications
  <2>1. /\ UNCHANGED budget
        /\ stage = "notifications" => UNCHANGED <<stage, scheduled>>
    BY <1>3
       DEF RunsInRun, EventNext, World, Loop, NotifyPush, SourceReady, DropSource, Signal,
           Interrupted, Terminate, YieldNow, RegisterSource, DeregisterSource,
           RegisterTimer, DeregisterTimer, CheckShutdown, PollInternal, FastPoll,
           SlowPoll, TakeEvents, Enter, Return, EndCycle, NotifyWake, Tick,
           loop_vars
  <2>2. QED
    BY <2>1 DEF BudgetInv
<1>4. QED
  BY <1>1, <1>2, <1>3

\* A push is followed by its wake-up, and only the poll that ends the stage
\* takes a wake-up away.
LEMMA WakeUpStep ==
  ASSUME EventTypeOK, RunsInRun, BudgetInv, WakeUpIsComing, EventNext
  PROVE  WakeUpIsComing'
<1> SUFFICES ASSUME stage' \in {"internal", "slow_poll"}, scheduled' = {}
             PROVE  \/ notifications' = <<>> \/ waker'
                    \/ \E t \in Thread : notifying'[t] # NoNode
  BY DEF WakeUpIsComing
<1>1. CASE \E t \in Thread, n \in Node : NotifyPush(t, n)
  BY <1>1, EventDriverAssumption DEF NotifyPush, EventTypeOK
<1>2. CASE \E t \in Thread : NotifyWake(t)
  BY <1>2 DEF NotifyWake
<1>3. CASE EndNotifications
  BY <1>3, EventDriverAssumption DEF EndNotifications, BudgetInv
<1>4. CASE PollInternal
  BY <1>4 DEF PollInternal, Schedule, WakeUpIsComing
<1>5. CASE /\ ~ (\E t \in Thread, n \in Node : NotifyPush(t, n))
           /\ ~ (\E t \in Thread : NotifyWake(t))
           /\ ~ EndNotifications /\ ~ PollInternal
  <2>1. UNCHANGED <<stage, scheduled, notifications, waker, notifying>>
    BY <1>5
       DEF RunsInRun, EventNext, World, Loop, SourceReady, DropSource, Signal,
           Interrupted, Terminate, YieldNow, RegisterSource, DeregisterSource,
           RegisterTimer, DeregisterTimer, CheckShutdown, PopNotification,
           FastPoll, SlowPoll, TakeEvents, Enter, Return, EndCycle, Tick,
           loop_vars
  <2>2. QED
    BY <2>1 DEF WakeUpIsComing
<1>6. QED
  BY <1>1, <1>2, <1>3, <1>4, <1>5

\* A yield is drained before the blocking poll, and only a node yields.
LEMMA NothingElseStep ==
  ASSUME RunsInRun, NothingElseWaits, EventNext
  PROVE  NothingElseWaits'
<1>1. CASE PollInternal
  BY <1>1 DEF PollInternal, NothingElseWaits
<1>2. CASE ~ PollInternal
  <2>1. stage' = "slow_poll" => UNCHANGED <<stage, yields, scheduled>>
    BY <1>2
       DEF RunsInRun, EventNext, World, Loop, NotifyPush, SourceReady, DropSource,
           Signal, Interrupted, Terminate, YieldNow, RegisterSource,
           DeregisterSource, RegisterTimer, DeregisterTimer, CheckShutdown,
           PopNotification, EndNotifications, FastPoll, SlowPoll, TakeEvents,
           Enter, Return, EndCycle, NotifyWake, Tick, source_vars, loop_vars
  <2>2. QED
    BY <2>1 DEF NothingElseWaits
<1>3. QED
  BY <1>1, <1>2

LEMMA IdleStep ==
  ASSUME Removable = {}, EventInv, IdleInv, [EventNext]_event_vars
  PROVE  IdleInv'
<1>1. CASE EventNext
  <2>1. (alive = Node)'
    BY <1>1
       DEF IdleInv, EventNext, World, Loop, NotifyPush, SourceReady, DropSource,
           Signal, Interrupted, Terminate, YieldNow, RegisterSource,
           DeregisterSource, RegisterTimer, DeregisterTimer, CheckShutdown,
           PopNotification, EndNotifications, PollInternal, FastPoll, SlowPoll,
           TakeEvents, Enter, Return, EndCycle, NotifyWake, Tick
  <2>2. notifications # <<>> => Head(notifications) \in alive
    BY DEF IdleInv, EventInv, EventTypeOK
  <2>3. QED
    BY <1>1, <2>1, <2>2, DueStep, BudgetStep, WakeUpStep, NothingElseStep
       DEF IdleInv, EventInv
<1>2. CASE UNCHANGED event_vars
  BY <1>2 DEF IdleInv, DueIsPending, BudgetInv, WakeUpIsComing, NothingElseWaits,
              event_vars, source_vars, loop_vars
<1>3. QED
  BY <1>1, <1>2

\* A parked runtime has nothing to do: in a graph that no node leaves, every
\* notification that was accepted has led to a run of its node.
THEOREM NoLostWakeup == ASSUME Removable = {} PROVE EventSpec => []ParkedIsIdle
<1>1. EventInit => IdleInv
  BY DEF EventInit, IdleInv, DueIsPending, BudgetInv, WakeUpIsComing, NothingElseWaits
<1>2. EventInv /\ IdleInv /\ [EventNext]_event_vars => IdleInv'
  BY IdleStep
<1>3. IdleInv => ParkedIsIdle
  <2> SUFFICES ASSUME IdleInv, Parked PROVE due = {} /\ yields = {} /\ scheduled = {}
    BY DEF ParkedIsIdle
  <2>1. yields = {} /\ scheduled = {}
    BY DEF IdleInv, NothingElseWaits, Parked
  <2>2. notifications = <<>>
    BY <2>1 DEF IdleInv, WakeUpIsComing, Parked
  <2>3. due = {}
    BY <2>1, <2>2 DEF IdleInv, DueIsPending
  <2>4. QED
    BY <2>1, <2>3
<1>4. QED
  BY <1>1, <1>2, <1>3, EventAlwaysInv, PTL DEF EventSpec
=============================================================================
