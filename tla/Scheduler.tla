------------------------------ MODULE Scheduler ------------------------------
(***************************************************************************)
(* The depth-ordered event queue of runtime/scheduler.rs.                  *)
(*                                                                         *)
(* The module plays two roles.  The executor (module Executor) extends it  *)
(* and takes its operations as the steps it makes on the queue; and        *)
(* SchedSpec lets any client call the operations in any order, so that the *)
(* queue can be checked and proved about on its own.                       *)
(***************************************************************************)
EXTENDS Naturals, Sequences, FiniteSets

CONSTANTS Index,    \* node indices (petgraph's NodeIndex)
          MaxDepth  \* bound: the deepest level a graph of this model has

ASSUME MaxDepthAssumption == MaxDepth \in Nat

Depths == 0 .. MaxDepth

VARIABLES multi_queue,     \* one FIFO per depth
          levels,          \* multi_queue.len(): the depths that exist
          curr_depth,      \* where pop() is looking
          pending_events   \* how many nodes are queued, kept as a counter

sched_vars == <<multi_queue, levels, curr_depth, pending_events>>

\* Scheduler::new()
SchedInit ==
  /\ multi_queue = [d \in Depths |-> <<>>]
  /\ levels = 0
  /\ curr_depth = 0
  /\ pending_events = 0

has_pending_event == pending_events > 0

\* enable_depth(): the vector of queues only ever grows.
EnableDepth(d) ==
  /\ levels' = IF levels < d + 1 THEN d + 1 ELSE levels
  /\ UNCHANGED <<multi_queue, curr_depth, pending_events>>

\* schedule() returning Ok.  Indexing a level that does not exist would
\* panic; Executor!QueueWellPlaced says the executor never does that.
ScheduleOk(n, d) ==
  /\ d >= curr_depth
  /\ multi_queue' = [multi_queue EXCEPT ![d] = Append(@, n)]
  /\ pending_events' = pending_events + 1
  /\ UNCHANGED <<levels, curr_depth>>

\* schedule() returning Err(SchedulerError): the node is not queued.
ScheduleErr(n, d) ==
  /\ d < curr_depth
  /\ UNCHANGED sched_vars

\* The level the loop of pop() stops at: the first non-empty one from
\* curr_depth on.  The loop runs only while has_pending_event.
FirstWaiting(d) ==
  /\ has_pending_event
  /\ d >= curr_depth
  /\ d < levels
  /\ multi_queue[d] # <<>>
  /\ \A e \in Depths : curr_depth <= e /\ e < d => multi_queue[e] = <<>>

\* Mutant: pop_back() instead of pop_front().
PopSome_Newest(n) ==
  \E d \in Depths :
    /\ FirstWaiting(d)
    /\ n = multi_queue[d][Len(multi_queue[d])]
    /\ multi_queue' = [multi_queue EXCEPT ![d] = SubSeq(@, 1, Len(@) - 1)]
    /\ pending_events' = pending_events - 1
    /\ curr_depth' = d
    /\ UNCHANGED levels

\* pop() returning Some(n)
PopSome(n) ==
  \E d \in Depths :
    /\ FirstWaiting(d)
    /\ n = Head(multi_queue[d])
    /\ multi_queue' = [multi_queue EXCEPT ![d] = Tail(@)]
    /\ pending_events' = pending_events - 1
    /\ curr_depth' = d
    /\ UNCHANGED levels

\* Mutant: the cursor stays where the loop ended.
PopNone_NoReset ==
  /\ \A d \in Depths : ~ FirstWaiting(d)
  /\ UNCHANGED <<multi_queue, levels, curr_depth, pending_events>>

\* pop() returning None and starting over
PopNone ==
  /\ \A d \in Depths : ~ FirstWaiting(d)
  /\ curr_depth' = 0
  /\ UNCHANGED <<multi_queue, levels, pending_events>>

-----------------------------------------------------------------------------
(* The scheduler under an arbitrary client: nodes are scheduled only at    *)
(* depths that were enabled, which is what NodeBuilder::build guarantees.  *)

CONSTANT MaxPending  \* bound on the number of queued events

ASSUME MaxPendingAssumption == MaxPending \in Nat

Schedule(n, d) ==
  /\ d < levels
  /\ pending_events < MaxPending
  /\ ScheduleOk(n, d) \/ ScheduleErr(n, d)

SchedNext ==
  \/ \E d \in Depths : EnableDepth(d)
  \/ \E n \in Index, d \in Depths : Schedule(n, d)
  \/ \E n \in Index : PopSome(n)
  \/ PopNone

SchedSpec == SchedInit /\ [][SchedNext]_sched_vars

-----------------------------------------------------------------------------
SchedTypeOK ==
  /\ multi_queue \in [Depths -> Seq(Index)]
  /\ levels \in 0 .. MaxDepth + 1
  /\ curr_depth \in Depths
  /\ pending_events \in Nat

\* The places of the queue that hold a node.
Slots == UNION {{d} \X (1 .. Len(multi_queue[d])) : d \in Depths}

\* pending_events, which pop() trusts to stop early and poll() trusts to
\* decide whether to sleep, is exactly the number of queued nodes.
PendingIsExact ==
  /\ IsFiniteSet(Slots)
  /\ pending_events = Cardinality(Slots)

\* No node waits at a depth the cursor has passed, or at a level that does
\* not exist: such a node would never be popped.
NothingStranded ==
  \A d \in Depths :
    multi_queue[d] # <<>> => curr_depth <= d /\ d < levels

\* "we must exhaust" and the debug_assert at the end of pop(): when pop()
\* returns None no queue holds a node and the counter is zero.
PopNoneIsExhaustive ==
  (\A d \in Depths : ~ FirstWaiting(d)) =>
    /\ pending_events = 0
    /\ \A d \in Depths : multi_queue[d] = <<>>

\* The queue is a FIFO priority queue by depth (module DepthQueue).
Abstract == INSTANCE DepthQueue WITH waiting <- multi_queue,
                                     floor <- curr_depth
ImplementsDepthQueue == Abstract!QueueSpec
=============================================================================
