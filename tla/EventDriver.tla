----------------------------- MODULE EventDriver -----------------------------
(***************************************************************************)
(* The event sources of the executor and the thread that polls them:       *)
(* notifications from other threads, yields, timers and I/O readiness      *)
(* (runtime/event_driver.rs and its drivers), under the loop of            *)
(* Runtime::run_forever (runtime.rs).                                      *)
(*                                                                         *)
(* Unlike module Executor, which lets a poll deliver anything, this module *)
(* keeps the queues, the waker and the blocking poll, and leaves the graph *)
(* out: the nodes to run in a cycle are a set (the epoch stamp makes a     *)
(* second wake-up of a node in one poll a no-op), and running a node is    *)
(* one or more steps in which it may call what its context offers.         *)
(* Two timers of one node for one instant count as one.                    *)
(***************************************************************************)
EXTENDS Naturals, Sequences, FiniteSets

CONSTANTS Node,         \* node indices
          NoNode,
          Thread,       \* threads outside the runtime that hold notifiers
          Capacity,     \* notification_capacity
          PollLimit,    \* poll_limit
          Park,         \* ExecutionMode::Park?
          Removable,    \* nodes that may leave the graph
          Signals,      \* may a signal ask for the graceful shutdown?
          MaxTime,      \* bound: deadlines and clock readings looked at
          MaxTimers,    \* bound: timers registered at a time
          Token,        \* keys of the I/O driver's slab that are looked at
          Yielding      \* bound: the nodes that yield

ASSUME EventDriverAssumption ==
  /\ NoNode \notin Node
  /\ Capacity \in Nat \ {0} /\ PollLimit \in Nat \ {0}
  /\ Park \in BOOLEAN /\ Signals \in BOOLEAN
  /\ Removable \subseteq Node /\ Yielding \subseteq Node
  /\ MaxTime \in Nat /\ MaxTimers \in Nat

Time == 0 .. MaxTime

Never == MaxTime + 1  \* no timeout: poll until there is an event

VARIABLES
  notifications,  \* the shared ArrayQueue of node indices
  waker,          \* the waker's event, pending in the poller
  notifying,      \* per thread: the node it pushed and has not woken for
  indices,        \* the I/O driver's slab: the node of each token
  sources,        \* open sources: the token each carries, and (history) the
                  \* node it was registered for
  readiness,      \* tokens with an I/O event pending in the poller
  yields, timers, \* YieldDriver, TimerDriver
  now, cycle_now, \* the clock, and its reading at the last poll
  alive,          \* nodes in the graph
  shutdown,       \* the flag the signal handler sets
  stage,          \* where the runtime's thread is
  budget,         \* notifications it may still pop in this poll
  deadline,       \* when the blocking poll times out
  scheduled, current, \* nodes to run in this cycle, and the one that runs
  due             \* history: nodes whose notification was accepted and that
                  \* have not run since

source_vars == <<yields, timers>>
io_vars     == <<indices, sources, readiness>>
clock_vars  == <<now, cycle_now>>
loop_vars   == <<stage, budget, deadline>>
event_vars  == <<notifications, waker, notifying, io_vars, source_vars,
                 clock_vars, alive, shutdown, loop_vars, scheduled, current,
                 due>>

Stages == {"check", "notifications", "internal", "fast_poll", "slow_poll",
           "run", "stopped"}

EventInit ==
  /\ notifications = <<>> /\ waker = FALSE
  /\ notifying = [t \in Thread |-> NoNode]
  /\ indices = [k \in Token |-> NoNode] /\ sources = {} /\ readiness = {}
  /\ yields = {} /\ timers = {}
  /\ now = 0 /\ cycle_now = 0
  /\ alive = Node /\ shutdown = FALSE
  /\ stage = "check" /\ budget = PollLimit /\ deadline = Never
  /\ scheduled = {} /\ current = NoNode /\ due = {}

-----------------------------------------------------------------------------
(* Other threads and the outside world.                                    *)

\* notify(), first half: a push() into a full queue fails, and nobody is told.
NotifyPush(t, n) ==
  /\ notifying[t] = NoNode
  /\ \/ /\ Len(notifications) < Capacity
        /\ notifications' = Append(notifications, n)
        /\ due' = due \cup ({n} \cap alive)
     \/ /\ Len(notifications) = Capacity
        /\ UNCHANGED <<notifications, due>>
  /\ notifying' = [notifying EXCEPT ![t] = n]
  /\ UNCHANGED <<waker, io_vars, source_vars, clock_vars, alive, shutdown,
                 loop_vars, scheduled, current>>

\* Mutant: only the notification that finds the queue empty wakes the poller,
\* and a later one takes the pending event back.
NotifyWake_OnlyFirst(t) ==
  /\ notifying[t] # NoNode
  /\ waker' = (Len(notifications) = 1)
  /\ notifying' = [notifying EXCEPT ![t] = NoNode]
  /\ UNCHANGED <<notifications, io_vars, source_vars, clock_vars, alive,
                 shutdown, loop_vars, scheduled, current, due>>

\* notify(), second half: wake()
NotifyWake(t) ==
  /\ notifying[t] # NoNode
  /\ waker' = TRUE
  /\ notifying' = [notifying EXCEPT ![t] = NoNode]
  /\ UNCHANGED <<notifications, io_vars, source_vars, clock_vars, alive,
                 shutdown, loop_vars, scheduled, current, due>>

\* An open source becomes ready, also after its node has left the graph.
SourceReady(src) ==
  /\ src \in sources
  /\ readiness' = readiness \cup {src.token}
  /\ UNCHANGED <<notifications, waker, notifying, indices, sources,
                 source_vars, clock_vars, alive, shutdown, loop_vars,
                 scheduled, current, due>>

\* The poller forgets a source and the events it has for it.
Forget(src) ==
  /\ sources' = sources \ {src}
  /\ readiness' = readiness \ {src.token}

\* Whoever owns an IoSource drops it without deregistering it: the descriptor
\* is closed, which takes it out of the poller, and the slab keeps the entry.
DropSource(src) ==
  /\ src \in sources
  /\ Forget(src)
  /\ UNCHANGED <<notifications, waker, notifying, indices, source_vars,
                 clock_vars, alive, shutdown, loop_vars, scheduled, current,
                 due>>

Tick ==
  /\ now < MaxTime
  /\ now' = now + 1
  /\ UNCHANGED <<notifications, waker, notifying, io_vars, source_vars,
                 cycle_now, alive, shutdown, loop_vars, scheduled, current,
                 due>>

\* SIGINT or SIGTERM: the handler runs on whatever thread the system picks, so
\* that a blocking poll may be interrupted (Interrupted) or not.
Signal ==
  /\ Signals
  /\ shutdown' = TRUE
  /\ UNCHANGED <<notifications, waker, notifying, io_vars, source_vars,
                 clock_vars, alive, loop_vars, scheduled, current, due>>

-----------------------------------------------------------------------------
(* run_forever()                                                           *)

\* The flag is loaded before every cycle.
CheckShutdown ==
  /\ stage = "check"
  /\ stage' = IF shutdown THEN "stopped" ELSE "notifications"
  /\ UNCHANGED <<notifications, waker, notifying, io_vars, source_vars,
                 clock_vars, alive, shutdown, budget, deadline, scheduled,
                 current, due>>

-----------------------------------------------------------------------------
(* EventDriver::poll()                                                     *)

\* can_schedule() and schedule() of the nodes in S
Schedule(S) == scheduled' = scheduled \cup (S \cap alive)

\* Mutant: the loop runs until the queue is empty.
PopNotification_Unlimited ==
  /\ stage = "notifications"
  /\ notifications # <<>>
  /\ notifications' = Tail(notifications)
  /\ budget' = budget - 1
  /\ Schedule({Head(notifications)})
  /\ UNCHANGED <<waker, notifying, io_vars, source_vars, clock_vars, alive,
                 shutdown, stage, deadline, current, due>>

\* pop() and can_schedule() of one notification
PopNotification ==
  /\ stage = "notifications"
  /\ budget > 0
  /\ notifications # <<>>
  /\ notifications' = Tail(notifications)
  /\ budget' = budget - 1
  /\ Schedule({Head(notifications)})
  /\ UNCHANGED <<waker, notifying, io_vars, source_vars, clock_vars, alive,
                 shutdown, stage, deadline, current, due>>

\* The loop over poll_limit ends, and the clock is read.
EndNotifications ==
  /\ stage = "notifications"
  /\ budget = 0 \/ notifications = <<>>
  /\ stage' = "internal" /\ budget' = PollLimit
  /\ cycle_now' = now
  /\ UNCHANGED <<notifications, waker, notifying, io_vars, source_vars, now,
                 alive, shutdown, deadline, scheduled, current, due>>

\* Mutant: a timer that expires exactly now is left in the map.
Expired_Strict == {t \in timers : t.when < cycle_now}

Expired == {t \in timers : t.when <= cycle_now}

\* A time past the last one that is looked at stands for that one.
Clip(t) == IF t > MaxTime THEN MaxTime ELSE t

\* Mutant: the timeout is the caller's only.
EffectiveDeadline_Untimed(T) == Never

\* slow_poll()'s timeout: the time between the clock reading and the first
\* timer, counted from the moment the blocking poll starts.  Without a timer
\* the poll waits for an event.  (The minimum precision of a millisecond
\* applies to callers that pass a timeout; run_forever passes None.)
EffectiveDeadline(T) ==
  IF T = {} THEN Never
  ELSE LET first == CHOOSE t \in T : \A u \in T : t.when <= u.when
       IN  Clip(now + (first.when - cycle_now))

\* Mutant: the yields are read but not drained.
PollInternal_KeepYields ==
  /\ stage = "internal"
  /\ timers' = timers \ Expired
  /\ Schedule(yields \cup {t.node : t \in Expired})
  /\ IF scheduled' # {} \/ ~ Park
       THEN stage' = "fast_poll" /\ UNCHANGED deadline
       ELSE stage' = "slow_poll" /\ deadline' = EffectiveDeadline(timers')
  /\ UNCHANGED <<notifications, waker, notifying, io_vars, yields,
                 clock_vars, alive, shutdown, budget, current, due>>

\* Mutant: the decision to block looks at the yields of this poll only.
PollInternal_OnlyYields ==
  /\ stage = "internal"
  /\ yields' = {}
  /\ timers' = timers \ Expired
  /\ Schedule(yields \cup {t.node : t \in Expired})
  /\ IF yields # {} \/ ~ Park
       THEN stage' = "fast_poll" /\ UNCHANGED deadline
       ELSE stage' = "slow_poll" /\ deadline' = EffectiveDeadline(timers')
  /\ UNCHANGED <<notifications, waker, notifying, io_vars, clock_vars,
                 alive, shutdown, budget, current, due>>

\* The yield driver and the timer driver are polled, and the decision to
\* block is taken: only when nothing is pending and only in Park mode (Spin
\* polls with a zero timeout).
PollInternal ==
  /\ stage = "internal"
  /\ yields' = {}
  /\ timers' = timers \ Expired
  /\ Schedule(yields \cup {t.node : t \in Expired})
  /\ IF scheduled' # {} \/ ~ Park
       THEN stage' = "fast_poll" /\ UNCHANGED deadline
       ELSE stage' = "slow_poll" /\ deadline' = EffectiveDeadline(timers')
  /\ UNCHANGED <<notifications, waker, notifying, io_vars, clock_vars,
                 alive, shutdown, budget, current, due>>

\* IoDriver::poll(): every pending event is taken, the waker's included.
\* Its token schedules nothing.
TakeEvents ==
  /\ waker' = FALSE
  /\ readiness' = {}
  /\ Schedule({indices[k] : k \in readiness})
  /\ stage' = "run" /\ deadline' = Never
  /\ UNCHANGED <<notifications, notifying, indices, sources, source_vars, now,
                 alive, shutdown, budget, current, due>>

FastPoll ==
  /\ stage = "fast_poll"
  /\ TakeEvents
  /\ UNCHANGED cycle_now

\* The blocking poll returns: on an event, or at its deadline.
SlowPoll ==
  /\ stage = "slow_poll"
  /\ waker \/ readiness # {} \/ now >= deadline
  /\ TakeEvents
  /\ cycle_now' = now

\* A signal interrupts the blocking poll: cycle() returns Err, which the
\* loop treats like Running.
Interrupted ==
  /\ stage = "slow_poll"
  /\ stage' = "check" /\ deadline' = Never
  /\ UNCHANGED <<notifications, waker, notifying, io_vars, source_vars,
                 clock_vars, alive, shutdown, budget, scheduled, current,
                 due>>

-----------------------------------------------------------------------------
(* The nodes of the cycle run.                                             *)

Enter(n) ==
  /\ stage = "run" /\ current = NoNode
  /\ n \in scheduled
  /\ current' = n
  /\ scheduled' = scheduled \ {n}
  /\ due' = due \ {n}
  /\ UNCHANGED <<notifications, waker, notifying, io_vars, source_vars,
                 clock_vars, alive, shutdown, loop_vars>>

\* The calls of the context name any node.  (What on_init callbacks and spawned
\* functions register between cycles the last node of the cycle may do as well.)
YieldNow(n) ==
  /\ current # NoNode
  /\ yields' = yields \cup {n}
  /\ UNCHANGED <<notifications, waker, notifying, io_vars, timers,
                 clock_vars, alive, shutdown, loop_vars, scheduled, current,
                 due>>

RegisterTimer(n, when) ==
  /\ current # NoNode
  /\ Cardinality(timers) < MaxTimers
  /\ timers' = timers \cup {[when |-> when, node |-> n]}
  /\ UNCHANGED <<notifications, waker, notifying, io_vars, yields,
                 clock_vars, alive, shutdown, loop_vars, scheduled, current,
                 due>>

DeregisterTimer(t) ==
  /\ current # NoNode
  /\ t \in timers
  /\ timers' = timers \ {t}
  /\ UNCHANGED <<notifications, waker, notifying, io_vars, yields,
                 clock_vars, alive, shutdown, loop_vars, scheduled, current,
                 due>>

\* register_source(): the slab gives out a vacant key.
RegisterSource(n, k) ==
  /\ current # NoNode
  /\ indices[k] = NoNode
  /\ indices' = [indices EXCEPT ![k] = n]
  /\ sources' = sources \cup {[token |-> k, node |-> n]}
  /\ UNCHANGED <<notifications, waker, notifying, readiness, source_vars,
                 clock_vars, alive, shutdown, loop_vars, scheduled, current,
                 due>>

\* Mutant: the slab entry is freed, and the poller keeps the source.
DeregisterSource_SlabOnly(src) ==
  /\ current # NoNode
  /\ src \in sources
  /\ indices' = [indices EXCEPT ![src.token] = NoNode]
  /\ UNCHANGED <<notifications, waker, notifying, sources, readiness,
                 source_vars, clock_vars, alive, shutdown, loop_vars,
                 scheduled, current, due>>

\* deregister_source() of any source the node was handed
DeregisterSource(src) ==
  /\ current # NoNode
  /\ src \in sources
  /\ Forget(src)
  /\ indices' = [indices EXCEPT ![src.token] = NoNode]
  /\ UNCHANGED <<notifications, waker, notifying, source_vars, clock_vars,
                 alive, shutdown, loop_vars, scheduled, current, due>>

\* The node returns from its cycle function.
Return ==
  /\ current # NoNode
  /\ current' = NoNode
  /\ UNCHANGED <<notifications, waker, notifying, io_vars, source_vars,
                 clock_vars, alive, shutdown, loop_vars, scheduled, due>>

\* Mutant: the flag is loaded once, before the first cycle.
EndCycle_Unchecked(D) ==
  /\ stage = "run" /\ current = NoNode
  /\ scheduled = {}
  /\ D \subseteq alive \cap Removable
  /\ alive' = alive \ D
  /\ due' = due \ D
  /\ stage' = "notifications"
  /\ UNCHANGED <<notifications, waker, notifying, io_vars, source_vars,
                 clock_vars, shutdown, budget, deadline, scheduled, current>>

\* The queue is exhausted, the marked nodes D are swept, the next cycle starts.
EndCycle(D) ==
  /\ stage = "run" /\ current = NoNode
  /\ scheduled = {}
  /\ D \subseteq alive \cap Removable
  /\ alive' = alive \ D
  /\ due' = due \ D
  /\ stage' = "check"
  /\ UNCHANGED <<notifications, waker, notifying, io_vars, source_vars,
                 clock_vars, shutdown, budget, deadline, scheduled, current>>

\* The node returns Control::Terminate: cycle() returns at once, and
\* run_forever() with it.
Terminate ==
  /\ current # NoNode
  /\ current' = NoNode
  /\ stage' = "stopped"
  /\ UNCHANGED <<notifications, waker, notifying, io_vars, source_vars,
                 clock_vars, alive, shutdown, budget, deadline, scheduled,
                 due>>

-----------------------------------------------------------------------------
World ==
  \/ \E t \in Thread, n \in Node : NotifyPush(t, n)
  \/ \E src \in sources : SourceReady(src) \/ DropSource(src)
  \/ Signal \/ Interrupted
  \/ Terminate
  \/ \E n \in Yielding : YieldNow(n)
  \/ \E n \in Node, k \in Token : RegisterSource(n, k)
  \/ \E src \in sources : DeregisterSource(src)
  \/ \E n \in Node, when \in Time : RegisterTimer(n, when)
  \/ \E t \in timers : DeregisterTimer(t)

\* What the runtime's thread does next.
Loop ==
  \/ CheckShutdown
  \/ PopNotification \/ EndNotifications \/ PollInternal
  \/ FastPoll \/ SlowPoll
  \/ \E n \in Node : Enter(n)
  \/ Return
  \/ \E D \in SUBSET Removable : EndCycle(D)

EventNext == World \/ Loop \/ (\E t \in Thread : NotifyWake(t)) \/ Tick

EventSpec == EventInit /\ [][EventNext]_event_vars

\* The runtime's thread and a thread inside notify() keep running, and time
\* passes.
FairEventSpec ==
  /\ EventSpec
  /\ WF_event_vars(Loop)
  /\ \A t \in Thread : WF_event_vars(NotifyWake(t))
  /\ WF_event_vars(Tick)

-----------------------------------------------------------------------------
EventTypeOK ==
  /\ notifications \in Seq(Node) /\ Len(notifications) <= Capacity
  /\ waker \in BOOLEAN
  /\ notifying \in [Thread -> Node \cup {NoNode}]
  /\ indices \in [Token -> Node \cup {NoNode}]
  /\ sources \subseteq [token : Token, node : Node]
  /\ readiness \subseteq {src.token : src \in sources}
  /\ yields \subseteq Node
  /\ timers \subseteq [when : Time, node : Node]
  /\ now \in Time /\ cycle_now \in Time
  /\ alive \subseteq Node /\ shutdown \in BOOLEAN
  /\ stage \in Stages
  /\ budget \in 0 .. PollLimit
  /\ deadline \in Time \cup {Never}
  /\ scheduled \subseteq Node
  /\ current \in Node \cup {NoNode}
  /\ due \subseteq Node

\* The thread blocks with nothing pending that would end the block: no event
\* in the poller, no thread on its way to the waker.
Parked ==
  /\ stage = "slow_poll" /\ ~ waker /\ readiness = {}
  /\ \A t \in Thread : notifying[t] = NoNode

\* The runtime never sleeps on work: when it is parked, every node whose
\* notification was accepted has run since: push-then-wake must not race with
\* pop-then-block.
ParkedIsIdle == Parked => due = {} /\ yields = {} /\ scheduled = {}

\* A parked runtime sleeps no longer past the first timer than it took from
\* reading the clock to blocking.
ParkedUntilTimer ==
  stage = "slow_poll" =>
    \A t \in timers :
      cycle_now < t.when /\ deadline <= now + t.when - cycle_now

\* An I/O event finds the node its source was registered for: a token is in the
\* slab as long as the poller may deliver it (looking up a vacant entry
\* panics), and is not given to another source before.
TokensNameTheirNode == \A src \in sources : indices[src.token] = src.node

\* "The node will be scheduled on the next polling cycle": a node whose
\* notification was accepted gets to run, or leaves the graph, or the runtime
\* stops.
NotifiedIsServed ==
  \A n \in Node : n \in due ~> n \notin due \/ stage = "stopped"

\* A timer fires, or is deregistered, unless the runtime stops.
TimersFire ==
  \A w \in Time, n \in Node :
    LET t == [when |-> w, node |-> n]
    IN  t \in timers ~> t \notin timers \/ stage = "stopped"

\* A node that yields is polled again: the runtime never blocks on a yield.
YieldsAreServed ==
  \A n \in Node : n \in yields ~> n \notin yields \/ stage = "stopped"

\* The graceful shutdown: once the flag is set the loop ends, unless the
\* blocking poll sleeps on it for ever, with no timer to end the sleep.
ShutdownHonoured ==
  shutdown ~> stage = "stopped" \/ [](stage = "slow_poll" /\ timers = {})
=============================================================================
