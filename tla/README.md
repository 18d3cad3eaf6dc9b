# wavelet: TLA+ specifications and proofs

wavelet is a graph-based, single-threaded stream processing runtime. This
directory holds its formal model: TLA+ modules translated from
`src/wavelet/src`, the TLC configurations that check them on small instances,
and TLAPS proofs of the most important properties for every instance.
Paths below are relative to `src/wavelet/src` unless they start with `src/`.

## The system

| component | source | state | operations |
|---|---|---|---|
| Scheduler | `runtime/scheduler.rs` | one FIFO of node indices per depth, cursor `curr_depth`, counter `pending_events` | `enable_depth`, `schedule`, `pop` |
| Graph | `runtime/graph.rs`, `lib.rs` | petgraph slots with a `NodeContext` (depth, epoch stamp, poisoned flag, closure), typed edges | `can_schedule`, `add_node`, `add_edge`, `edges`, `triggering_edges`, `remove_node` |
| Garbage collector | `runtime/garbage_collector.rs` | queue of marked slots | `mark_for_sweep`, `next_to_sweep` |
| Executor, context | `runtime/executor.rs` | epoch, deferred spawns, edge buffer | `cycle`; inside a node: `yield_now`, `schedule_node`, `register_*`, `spawn_subgraph` |
| Node lifecycle | `runtime/node.rs` | `NodeInner` behind `Rc`: data, `mut_epoch`; the builder's parents; `Node`, `WeakNode`, `ExclusiveNode`, `RawHandle` | `build`, `spawn`, `build_with_channel`; clone, downgrade, upgrade and drop of handles |
| Event driver, notifiers | `runtime/event_driver.rs` | lock-free queue of notifications shared with other threads | `notify`; `poll`, `fast_poll`, `slow_poll` |
| Yield, timer, I/O driver | `runtime/event_driver/*.rs` | requests; `BTreeMap` of timers; slab of sources and the mio poller with its waker | registration, cancellation, `poll` |
| Runtime loops | `runtime.rs` | executor, clock, mode, shutdown flag | `run_forever`, `run_until_completion`, `run_one_cycle` |
| Channel | `channel.rs` | bounded lock-free queue, sender and receiver counts | `try_send`, `blocking_send`, `force_send`, clone, drops, `try_receive` |
| Clocks | `runtime/clock*` | position in an interval (historical); resync state (precision) | `cycle_time` |
| WSNL nodes | `wsnl/*.rs` | router caches, switch positions, accumulators, timer of the periodic node | cycle functions, `Router::route` |
| Factories | `factory/*.rs` | memoised nodes, the attached function | `attach`, `get` |
| Testing helpers | `testing.rs` | what was pushed and not taken | `push_node`, `Push::push` |
| Example | `src/example` | - | - |

How they interact. One thread runs `cycle()` in a loop: it increments the
epoch; the event driver takes notifications, drains yields, fires timers and
polls the I/O sources, and puts every node it hears of into the scheduler,
unless the node's stamp says that it was put there in this epoch; `pop()` gives
the nodes out by depth; each runs its cycle function and returns a `Control`
(`Broadcast` schedules the children that it triggers, `Sweep` poisons and
schedules all children, `Terminate` returns at once). Then marked nodes are
removed and deferred spawn functions run. Other threads reach the runtime only
through a notifier (push to the queue, then wake the poller) and through
channel senders, which use one. In `Park` mode the poll blocks when nothing is
pending, until the first timer or an event.

What is hard. Nodes are removed while their indices still travel through
queues; the stamp is set before the scheduler may refuse the node; `Terminate`
and a failed poll leave the scheduler in the middle of its work; the decision
to block races with threads that notify; the close of a channel races with
its last message; the end of a replayed interval is a boundary on which timers
may fall; handles, caches and memos refer to nodes that come and go, and hold
indices that are reused; the wall clock is stepped while it is measured.
`PROJECT.json` lists these under `hazards`, each with its line.

What makes a component correct:

- **Scheduler**: a FIFO priority queue by depth; `pop()` says "nothing" only
  when nothing is queued.
- **Graph, executor, node lifecycle, garbage collector**: parents run before
  children; no broadcast loses a child; a node runs once per cycle; nothing
  that is queued has been removed; a sweep takes all descendants along, and no
  node that can never run again stays; a cycle ends.
- **Handles, routers' caches, factories**: exclusive access is exclusive; a node
  that is held stays; a key has one node, and the router serves it; a stored
  index names the node it was taken from.
- **Event driver and its drivers**: a parked runtime has nothing to do;
  notifications, yields and timers are served, timers not before their time; an
  I/O event finds its node; the shutdown flag is honoured.
- **Channel**: a message is not slept on; the close is reported, and reported
  last; a sender is released when the receiver goes.
- **Replay**: timers fire at the first reading that reached them, the interval
  is covered to its end, and the replay ends.
- **Precision clock**: timestamps are accurate when the clock says so, and a
  step of the wall clock shows after the resync interval.
- **WSNL nodes**: after a cycle the derived data is what computing everything
  anew would give; a batch is routed completely and in its order; what a switch
  takes away comes out once.

## Modules

**`DepthQueue`** is the abstract specification of the scheduler: a priority
queue by depth, without counter and cursor walk.

**`Scheduler`** (`scheduler.rs`): `ScheduleOk`/`ScheduleErr` and
`PopSome`/`PopNone` are the two outcomes of `schedule()` and `pop()`. `SchedSpec`
lets any client call them, and is what the scheduler's theorems are about;
`Executor` takes them as parts of its own steps, and TLC checks the scheduler
there, under the client it really has. `ImplementsDepthQueue` is the refinement,
with `waiting <- multi_queue` and `floor <- curr_depth`.

**`Executor`** (`executor.rs`, `graph.rs`, `garbage_collector.rs`, the builders
of `node.rs`, `yield_driver.rs`, `poll` of the event driver): extends
`Scheduler`. `phase` is the place in `cycle()`:

    idle -> notify -> yield -> timer -> io -> exec <-> node | broadcast | cascade
         -> sweep -> spawn <-> spawn_fn -> idle

A cycle function is client code: in phase `node` it makes any sequence of
`YieldNow`, `SpawnSubgraph`, `ScheduleNode`, `MarkForSweep`, `DropHandle` and
`DropStaleHandle`, and ends with one of the `Return...` actions (a caught panic
is `ReturnSweep`, as in the code). `Wake` is `can_schedule()` followed by
`schedule()`, and keeps their
order: the stamp is set even if the scheduler refuses. Notifications, timers
and I/O events name any index, also one whose node was removed or replaced.
`Build` and `Spawn` share `Insert`, the new `NodeContext` with its depth and edges.
`rc` says what keeps a node's `NodeInner` alive: handles (`Build`), its own
closure (`Spawn`), or nothing. `SweepNext` removes a slot and, with the closure,
the handles the closure owned. A handle that its client still has then is
`stale`: it goes on naming the slot, which a later `Build` or `Spawn` reuses, and
marks it when it is dropped. Depths are bounded by `MaxDepth`, slots are `Index`.
Assumed of clients: they name parents, and nodes for `schedule_node()`, that are
in the graph.

**`NodeLibrary`** (`wsnl/control.rs`, `wsnl/logic.rs`): extends `Executor` with
nodes that have data and real cycle functions, in one graph: two value sources
into a `Gate`; a stream source into a `Router`, which schedules its outputs
`OutA` and `OutB`; `Pick`, a `switch_node` of the value sources, and `Merge`, a
`switch_stream_node` of the outputs, both controlled by the gate. Each `Run...`
action is one cycle function and ends in the executor's own `Return...` action;
`RouteItem` is one turn of the router's loop and uses `ScheduleNode`. `Config` says
which gate it is, whether the router observes or takes its items, and how the
gate starts (with a value, or from a bootstrap in the first cycle). Sources are
the application's: they flip their value, or emit any batch, when they are
notified. A key is named by the output made for it; `NoNode` is a key without
an output.

**`Selections`** defines `Select`, the items of a sequence that are in a set, which
`NodeLibrary` and `Streams` use: `SelectSeq` of the standard module takes an operator,
of which the provers know nothing.

**`Streams`** (`testing.rs`, the taking switches of `control.rs`,
`wsnl/transform.rs`): extends `Executor` with two push nodes and a push node for the
switch `Drain`, a `take_switch_stream_node` or, with `by_value`, a `take_switch_node` of
whole batches, and below it the four transforms. Items are the numbers they were
pushed under, so that order, loss and duplication show. `sent` and `emitted` are
history variables.

**`Handles`** (`node.rs`, `Router` of `control.rs`, `factory/*.rs`): who keeps a node
alive. Counts the `Node` and `WeakNode` handles of clients, knows what each cycle
function owns, which nodes exist as an `ExclusiveNode`, what a router caches and
a factory has memoised; `Alive` is a strong count above zero. A handle that is
dropped as the last one makes its node `dying`, and `Destroy` is `NodeInner::drop`
with the `on_drop` callback of an output or a router. A cycle is reduced to
`Enter`, `Return`, `Sweep` (with all descendants, as module `Executor` shows) and
`Remove`. A factory function is client code: it builds, asks other factories or
its own, returns a node (`GetReturns`) or panics.

**`EventDriver`** (`event_driver.rs` and its drivers, `run_forever`): leaves the
graph out and keeps what `Executor` abstracts, i.e. the notification queue and
its limits, the waker, the blocking poll with its deadline, and the clock.
`notify()` is two steps of its thread, `NotifyPush` and `NotifyWake`; each pop of
the poll is a step; `PollInternal` drains yields and timers and decides whether
to block. `due` is a history variable: the nodes whose notification was
accepted and that have not run since. The I/O driver is its slab `indices`, the open
`sources` and the `readiness` of their tokens. `Signal` sets the shutdown flag, which
`CheckShutdown` loads before each cycle; the signal may interrupt the blocking
poll (`Interrupted`) or be handled by another thread.

**`Channel`** (`channel.rs`, `build_with_channel`): extends `EventDriver` with
senders and the receiving node `Rx`, one access to shared memory per step. A
send is `StartSend` (load of the receiver count), `Push`, `Retry` (the loop of
`blocking_send`), `SendNotify`, `FinishNotify`; `try_receive()` is `ReceiveSome`, or
`ReceiveNone` followed by `LoadSenders`. With `ReceiveLimit > 0` the receiver is
the loop of `channel_route_stream_node`. All notifiers of an executor share one
queue, so the threads also notify other nodes (`NotifyOther`), which run
(`EnterOther`), and may fill the queue so that the notification of a send or of the last drop
is dropped. The history variable `refused` says that this happened to the last
notification of `Rx`: the queue was full, held none of `Rx` with which it could
coalesce (`Announced`), and `Rx` has not run since. `SendsWake` is the documented
promise, which this breaks (finding 5); `ParkedIsDrained` and `CloseIsReported`
say that nothing else breaks it.

**`Replay`** (`clock/historical.rs`, `run_until_completion`, `timer_driver.rs`,
`wsnl/time.rs`): a reading of the clock advances it (`TryAdvance`), and one reading
is one cycle. Two nodes exist: the periodic trigger node, and `Alarm`, which
registers any timers and may terminate the runtime.

**`PrecisionClock`** (`clock/precision_clock.rs`): a call is a sequence of readings of
the system's two clocks, between any two of which time passes (`Tick`) or the wall
clock is stepped (`StepWallClock`). `BeginMeasuring` ... `ApplyBest` are
`resync_with_quality_control()`.

**`MC...`** modules and `.cfg` files instantiate these for TLC. **`...Proofs`**
modules hold the theorems. Four `MC` modules look at one part of the system at a
time, chosen in the initial state: `MCHandles` (`kit`), `MCEventDriver` (`part`) and
`MCNodeLibrary`, `MCClocks` (`side`, for two modules each). `MCGraphs` limits what is
looked at with the action constraint `LookedAt`: small graphs under every misuse, and
of every graph of three nodes one healthy cycle, until it removes a node.

## Runs

| run | states | question |
|---|---|---|
| `executor_graphs` | 357,000 | every graph of three nodes, both relationships, one cycle; and what survives failing polls, `schedule_node()`, marks by clients and cycles after `Terminate` on two nodes; the scheduler refines `DepthQueue` under all of them |
| `executor_cycles` | 371,000 | two nodes, two cycles, removal, slot reuse, stale handles, spawns: stamps, duplicates, zombies, panics, termination of cycles |
| `handles` | 452,000 | what may handles, caches and memos rely on while nodes come and go? |
| `node_library` | 2,070,000 | is the data of the library and of the streams right after every cycle, whatever changed in it? |
| `event_driver` | 122,000 | is a parked runtime idle, is everything served, does every token name its node, is the shutdown honoured? |
| `channel` | 242,000 | messages, close and release through the whole notification path, which another node shares; a refused notification is the only way to sleep on either |
| `replay` | 877,000 | a replay whose step does not divide its interval; the timestamps of the precision clock |
| `stale_handle`, `park_lost_wakeup`, `channel_close_race`, `receive_limit_stall`, `notification_refused` | - | violations, see Findings |

Bounds, and why they are enough.

- *Executor.* Three nodes make a chain, a fork, a join and a diamond's
  shortcut, i.e. every way two paths of different length can meet; two depths
  below the root let the cursor skip a level. Two epochs are what stamps can
  confuse, and let a slot be removed in one cycle and reused in the next. The
  proofs cover every number of nodes, depth and epoch, so these bounds matter
  only for `CycleEnds`. `MaxMarks`, `MaxYields`, `MaxSpawns` and `MaxPending` bound
  how many such requests wait at a time. In `MCGraphs` the faults of the second
  half happen to at most two slots at a time, and nothing yields there; yields are
  in `executor_cycles`. `Spawning`, `ManualScheduling`,
  `PollMayFail` and `Resumable` switch features off in the runs about others.
  `EpochModulus` is never reached.
- *NodeLibrary.* Two cycles, since caches, stamps and switch positions can be
  wrong only about the cycle before; batches of two items, which may go to one
  output, to both, or to none. The six ways to build the graph in `MCNodeLibrary`
  have every gate, both routers and every way to start the gate. The graph is
  fixed, and no node leaves it.
- *Streams.* Two cycles and three items: a batch of two and one of one, pushed to
  one input or both, with a switch that turns in either cycle or not.
- *EventDriver.* A capacity of 2 and `PollLimit` 1 make the queue full, and let
  a poll leave notifications behind; two nodes are a notified one and another.
  `MaxTime` 1 gives timers in the past, now and in the future; one thread
  suffices as each of its two halves interleaves with every step of the poll.
  One part has timers, yields and the signal, the other I/O sources; a token is
  reused by registering again after deregistering. `Yielding` bounds which
  nodes yield. Nodes do not leave
  the graph in the passing run (the receiver does in `channel`, and others in
  `park_lost_wakeup`, where that breaks the property).
- *Handles.* Three nodes in two slots with up to two handles of one node, one
  `WeakNode` and an edge, so that slots are reused while handles are
  outstanding; a source, a router and its outputs in three slots, with one key
  and one handle of each in clients' hands; two nodes for two factories with
  two keys. A node is built once, so the number of nodes bounds the run.
- *Channel.* Two threads clone and drop senders in every order; capacity 2 can
  be full with both blocked. One other node is enough to fill the notification
  queue of 2 (in the code 256), before or behind a notification of `Rx`, and `PollLimit` 1
  leaves part of it for the next poll. Only `Rx` leaves the graph; another node
  that leaves is finding 2. Timers, yields and I/O sources are off, since they
  only make the runtime wake up more often.
- *Replay.* `End` 5 and `TimeStep` 2 give a last, shorter step; `Period` 3 is not a
  multiple of the step; `MaxDeadline` 6 puts deadlines before, on and after every
  reading and the end.
- *PrecisionClock.* `ResyncInterval` 3 and `MaxTime` 7 give a baseline that is measured
  anew twice; `Threshold` 2 and `Worst` 4 tell accurate, inaccurate and useless
  measurements apart; zero to two attempts reach the fallback.

`CHECK_DEADLOCK FALSE` is set where the system may stop: the executor at
`MaxEpoch`, after `Terminate` or a panic, the channel after the close, the replay
at its end.

Fairness.

- `Executor`: weak fairness of `Advance`. `cycle()` is sequential code; it takes
  its next step as long as the cycle functions it calls return, which is what
  the `Return...` actions in `Advance` express. Client requests and events are
  not fair.
- `EventDriver` (and `PartsSpec`, the same for one part): weak fairness of `Loop` (the runtime's thread), of each thread's
  `NotifyWake` (a thread inside `notify()` runs on) and of `Tick` (time passes).
  No thread has to notify, and nothing else has to happen.
- `Channel`: weak fairness of `RuntimeStep` and of each thread's `SenderStep`, the
  steps inside a call. Starting a call is not fair.
- `Replay` (and `ClocksSpec`): weak fairness of the loop; `RunAlarm` and `TerminateReplay` are how one
  node's cycle function may return.

## Proofs

All theorems hold for every value of the constants that satisfies the named
assumptions of the modules (the bounds are arbitrary numbers there).

**`SchedulerProofs`.** `SchedInv` = types, `PendingIsExact`, `NothingStranded`. That
the counter equals the number of queued nodes is proved over the set `Slots` of
occupied places, whose cardinality a push raises and a pop lowers by one
(`PushSlots`, `PopSlots`). `NothingStranded` makes the first non-empty level from
the cursor on the first of all levels (`LeastDepth`), which gives the refinement
`SchedulerImplementsDepthQueue` and `PopExhausts`.

**`ExecutorProofs`.** None of the executor's properties is inductive. `IInv` =
`Structure /\ CycleInv` ties them together by the position of the cursor:
edges descend (`EdgesDescend`), levels exist for all nodes (`LevelsEnabled`), the
running node is at the cursor (`CurrentAtCursor`), what has run is not below it
(`RanAboveCursor`), and what was stamped below the cursor still waits
(`StampedBelowWaits`). From these follow that a broadcast is never refused
although the stamp is set first, so `NoLostTrigger`, and, with `NoZombie`, that
every poisoned node reaches the sweep. `IInv` holds with `schedule_node()`,
failing polls and resumed executors all allowed. Theorems: `TypeCorrect`,
`QueueIsWellPlaced`, `ParentsFirst`, `TriggersAreNotLost`, `ZombiesAreSwept`,
`SweepCascades`.

Its second half is about deduplication. Under `Disciplined` (no `schedule_node()`,
no failing poll, no cycle after `Terminate`) the stamps are exact: what is queued was
stamped in this epoch and is queued once, and between cycles the cursor rests
at 0. Theorems: `RunsAtMostOnce`, `StampsAreServed`, `PollsDoNotPanic`. The invariant
`OnceInv(M)` excepts a set `M` of nodes that are scheduled by hand, so that a program
that uses `schedule_node()` for some of its nodes has the guarantee for the others.

**`NodeLibraryProofs`.** The graph of `NodeLibrary` satisfies `IInv` initially
(`LibInitInv`), and every step of a library node is a step that `Executor` allows
its clients (`LibStep`, theorem `LibraryIsClient`). So what was proved of the
executor holds for the library: `LibraryParentsFirst`, `LibraryTriggers`, and
`OnceInv(Outputs)`, as only the outputs of the router are scheduled by hand.
From these, with who can wake up whom (`WokenBy`):
- `LibraryIsGlitchFree`. A gate or switch that differs from what its inputs, as they
  are now, give has not run in this cycle, and an input of it has mutated
  (`GateInv`, `ControlInv`, `PickInv`, `MergeInv`). At the end of the loop nothing is
  queued, so every trigger child of a mutated node has run (`TriggerReached`), and
  there is no difference left.
- `LibraryRoutesExactly`. While the router works, each output holds its items of the
  part of the batch that was routed (`RoutingInv`), and an output that was given an
  item waits and will mutate (`OutputInv`, `ServedInv`).

**`StreamsProofs`.** Likewise a client of the executor (`StreamsAreClients`) with
`OnceInv({})`.
- `StreamsConsumeOnce`. An item is in at most one place: pushed and not taken, in a feed,
  or out (`PlaceInv`); none is anywhere before it was pushed (`KnownInv`); batches
  are consecutive (`BatchInv`).
- `StreamsDeriveFromLastBatch`. What a transform holds fits the last batch, unless
  `Drain` broadcast in this cycle and the transform has yet to run (`Late`); the
  accumulator lacks exactly the batch in `Drain` then (`TotalInv`). This needs that
  transforms run only when `Drain` mutated (`WaitInv`), and after it (`DrainFirst`).

**`ChannelProofs`.** Every step of the channel is a step of `EventDriver` or leaves
it alone (`ChannelStepIsEventStep`, theorem `ChannelUsesEventDriver`), so its
theorems hold for the channel, and its lemmas about the budget of the poll and
about wake-ups serve again. `NoMessageIsLeft` needs `DrainInv`: as long as `Rx` is in the
graph, a message in the queue has its notification to come, in the notification
queue (`Announced`), or served by a receiver that has not stopped popping, or
the last notification was refused (`NothingIsMissed`). A notification that a full
queue refuses is no loss if one of `Rx` is in there (`NotifiedOrRefused`), and popping
one leaves or serves those of `Rx` (`PopServes`). `NoCloseIsMissed`, from the same
invariant, is the safety half of `CloseIsReported`. What they assume, and why they
have to: `ReceiveLimit = 0` (finding 4), `Removable \subseteq {Rx}`, i.e. that the nodes
that share the queue stay in the graph (finding 2), and, in the property
itself, `~ refused` (finding 5).

**`EventDriverProofs`.** `EventInv` = types, `RunsInRun` (nodes run in the last
stage of a cycle only, so nothing is registered while the poll blocks),
`TokensNameTheirNode`, `ParkedUntilTimer`; the deadline is the minimum over a set of
timers (`FirstTimer`). `NoLostWakeup` needs `IdleInv` on top: a node whose notification
was accepted is queued or about to run (`DueIsPending`), the budget of a poll is fresh
until something was scheduled (`BudgetInv`), and once the queue was found empty
whatever is pushed has its wake-up coming (`WakeUpIsComing`). It assumes
`Removable = {}`: finding 2 is what happens otherwise. Theorems: `EventTypes`,
`TokensAreExact`, `TimersEndTheSleep`, `NoLostWakeup`.

**`HandlesProofs`.** A node that has lost its last reference stays without
(`AliveStep`), which is why a `WeakNode`, a cache entry or a memo can be relied on.
`ExclusiveIsSole` is inductive with the types. `RoutedInv` strengthens
`OutputsAreRouted` to the outputs whose `on_drop` callback has yet to run, and
`FactoryInv` says that a key has no node while its function runs. What a step
does to the graph is one of a few kinds (`StepKinds`): a node is placed, a cycle
moves on, a node is swept or removed, or nothing. Slots in the graph are unique
(`SlotInv`); a mark names a node that was swept or that nobody holds, unless it was
set through a handle of a node that had left its slot (`MarkInv`, where `foreign` says
that this happened). Hence `WhoLeaves`: a node leaves the graph while it is held only
if it was swept or foreign marks exist. `SourceInv` says the same of the source a
router keeps by its index. Theorems: `HandlesTypes`, `ExclusiveAccess`,
`RouterServesItsOutputs`, `FactoriesAreStable`, `HandlesKeepNodes`, `HandlesAreEnough`
(as long as nothing was ever swept, what is held is in the graph, whatever slots are
reused), `RawHandlesAreValid`.

**`ClockProofs`**, for both clocks. `ReplayInv` = types, `ClockInv`, `FiresOnTime`,
`PeriodicHeartbeat`. `ClockInv` says that the clock is exhausted only by reading
its end, and where yields and scheduled nodes may be pending. Theorems:
`ReplayTypeCorrect`, `TimersFireOnTime`, `ReplayCoversInterval`, `HeartbeatIsKept`.
`PrecisionInv` follows a measurement: the readings of an
attempt are in order (`Readings`), so the midpoint is close (`MidpointIsClose`), the best
attempt is as good as its variance (`BestInv`), an accurate baseline is within the
threshold (`BaseInv`), and what a call measures lies after the instant it read
(`CallInv`). Theorems: `TimestampsAreAccurate`, `StepsShow`.

Only model-checked. Every invariant that a run checks is a theorem. Liveness is out
of the prover's reach (`CycleEnds`, `NotifiedIsServed`, `TimersFire`,
`YieldsAreServed`, `ShutdownHonoured`, the two of the channel, `ReplayEnds`). So is
induction over data with the theorems of the library: where it was needed
(`SelectionsExist`, `LeastDepth`) the proof takes a least counterexample.

## Findings

1. `stale_handle`. `NodeInner::drop` marks its index whatever became of the
   node. If the node was removed by `Sweep` while a client held a handle, and the
   slot was given to a new node, dropping the old handle removes the new one,
   whose own handle is held.
2. `park_lost_wakeup`. `poll()` takes `poll_limit` notifications and decides to
   block by what is pending in the scheduler. If those it took name removed
   nodes, it blocks with notifications in the queue; if their wake-ups were
   consumed by earlier polls, nothing ends the block.
3. `channel_close_race`. `try_receive()` pops and then loads the sender count; a
   last message sent and a last sender dropped in between are reported as
   `ChannelClosed`, with the message still queued.
4. `receive_limit_stall`. `channel_route_stream_node` stops at `poll_limit`
   messages without yielding. Notifications of several messages coalesce into
   one run, so the rest waits until another message is sent.
5. `notification_refused`. `notify()` drops a notification when the queue is full
   (`event_driver.rs:65`), on the documented assumption that notifications coalesce.
   The queue is shared: when other nodes have filled it, there is none of the
   receiver to coalesce with, and the message of a send that returned `Ok` is slept on
   once the backlog is served. The only notification of the last drop is lost
   in the same way; the close is then not reported.

Seen while modelling, without a run of its own. `periodic_trigger_node` broadcasts
only when its state is `Some`, which nothing sets (`time.rs:61-69`): it is silent,
though documented to broadcast always (`time.rs:26`); in `Replay`, `armed` is never true. After `Control::Terminate` the
cursor of the scheduler stays where it was; if the executor is cycled again, a
notification for a shallower node is refused and the `.expect()` at
`event_driver.rs:208` panics (`PollNeverPanics` fails with `Resumable = TRUE`). The
routers are documented to clear outputs "at cycle boundaries" (`control.rs:103`);
an output is cleared by the first item of a later cycle, so an idle one keeps
its old items, which a switch may emit again (`RoutedExactly` speaks of outputs that
broadcast). `schedule_node()` is documented to panic
for a node that is too shallow and returns `Err` instead (`executor.rs:166`);
`Interval::contains` is documented as `[start, end)` and includes the end, which
the historical clock reads as well (`historical.rs:26`); `README.md:77-78` says that deduplication prevents infinite loops,
which `schedule_node()` bypasses.

In the handles: `Node::upgrade` takes the handle by value and returns `None` when
there is another reference, so the handle is gone, and with it the node if only
`WeakNode`s were left. An output of a router can never be upgraded, since the cache
has a second `WeakNode`. When a node was swept, its closure's `WeakNode` is gone, and a
user's takes its place in the count: `upgrade()` then succeeds with a `WeakNode`
outstanding, and what it gives is not exclusive (`ExclusiveIsSole` speaks of nodes in
the graph). `SimpleFactory::attach` is accepted again after the first `get()`, without
effect. What a factory or a router's cache returns may be a node that was swept
from the graph. `Router::route()` on a router whose source left the graph panics in
petgraph, or wires the output below the node that has the slot now; the router
schedules the slot of a cached output that was swept. `RawHandleIsValid` speaks of
routers that are in the graph and not marked, and does not exclude that.

In the drivers: an `IoSource` that is dropped without deregistering it leaks its slab
entry. A parked runtime without timers whose shutdown flag is set by a signal
that another thread handled sleeps on until the next event; `ShutdownHonoured` states
the exception. A taking switch whose input was drained, because the switch turned
twice, returns `Unchanged`, and the nodes below keep the batch before.
`cycle_time()` of the precision clock, when it measures, extrapolates from an
instant before the new baseline, and saturates: the wall time then belongs to a
later moment than the instant, where `clock.rs:57-59` says the same moment.

## Not modelled

- `io_enabled = false`, `timer_enabled = false`; callers that pass a timeout other
  than none or zero (the runtimes do not).
- mio (an external library): its event capacity, interests, `reregister_source`,
  and registrations that fail.
- Names; `allow_panic(true)`, with which a panic unwinds through `cycle()`; the data
  of nodes other than the library's.
- Stale handles as parents or in `schedule_node()`. The router of `Handles` keeps an
  index (its source's) in the way a stale handle does, and shows what that means.
- `constant_node` and `sweep_node` of `util.rs`, which have no state; `push_with_cycle`,
  `MockContextGenerator` and the example. The test clock, and `HistoricalClock::reset`.
- The epoch's wrap at `usize::MAX`, and a zero `time_step` (`HistoricalRuntime` has a
  fixed one; `ReplayAssumption` takes it to be positive). A send from the runtime's
  own thread into a full channel, which spins for ever.
- A factory that is dropped. In `Replay`, a poll that fails: one with a zero timeout
  is not interrupted.

## Plan

Done: all components, as far as the section above does not exclude them, and
proofs of all invariants that the runs check.

Left to specify: an abstract cycle (every affected node once, in dependency
order, then the sweep) that `Executor` implements, and the abstract behaviour of a
channel (a bounded bag of messages with a close) that `Channel` implements; the
refinements to be checked in the runs that exist and then proved. Left to prove: how
far `Disciplined` can be weakened, e.g. to `schedule_node()` for nodes that were not
stamped in the epoch.
