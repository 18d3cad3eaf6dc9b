------------------------------ MODULE Executor ------------------------------
(***************************************************************************)
(* One executor of wavelet: the dependency graph, the execution cycle that *)
(* polls, runs nodes by depth, sweeps and spawns, and the operations that  *)
(* client code has on it between cycles and from inside a node's cycle     *)
(* function (runtime/executor.rs, graph.rs, garbage_collector.rs, the      *)
(* builders of node.rs and the yield driver).                              *)
(*                                                                         *)
(* A cycle is one call of Executor::cycle().  It is split into the steps   *)
(* between which client code runs or the next choice is made; "phase" says *)
(* which statement of cycle() comes next.  What a node computes is left    *)
(* out: a cycle function may make any sequence of the calls its context    *)
(* offers and return any Control value.  Notifications, timers and I/O     *)
(* readiness are events that may name any index, live or not.              *)
(***************************************************************************)
EXTENDS Scheduler

CONSTANTS NoNode,            \* no node is running
          EpochModulus,      \* usize::MAX + 1
          MaxEpoch,          \* bound: cycles explored
          MaxSpawns,         \* bound: deferred subgraphs waiting at a time
          MaxYields,         \* bound: yield requests waiting at a time
          MaxMarks,          \* bound: size up to which clients mark slots
          Spawning,          \* are nodes made by spawn() as well as build()?
          ManualScheduling,  \* do cycle functions call schedule_node()?
          PollMayFail,       \* can polling the I/O sources return Err?
          Resumable          \* is cycle() called again after Terminate?

ASSUME ExecutorAssumption ==
  /\ NoNode \notin Index
  /\ EpochModulus \in Nat /\ MaxEpoch \in Nat
  /\ MaxSpawns \in Nat /\ MaxYields \in Nat /\ MaxMarks \in Nat
  /\ MaxEpoch < EpochModulus
  /\ Spawning \in BOOLEAN /\ ManualScheduling \in BOOLEAN
  /\ PollMayFail \in BOOLEAN
  /\ Resumable \in BOOLEAN

Relationship == {"Trigger", "Observe"}

Control == {"Broadcast", "Unchanged", "Sweep", "Terminate"}

VARIABLES
  \* Graph: the occupied slots, their NodeContext, and the edges
  graph, depth, sched_epoch, poisoned, edges,
  \* NodeInner: who keeps it alive ("held": client handles, "closure": the
  \* node's own cycle function, "none": it was dropped), and its mut_epoch
  rc, mut_epoch,
  \* the slots named by handles that outlived their node
  stale,
  \* GarbageCollector and the queues of the event driver and the executor
  removal_queue, yields, deferred_spawns,
  \* the cycle: epoch, next statement, running node, children still to visit
  epoch, phase, current, edge_buffer,
  \* history: the nodes that ran in this cycle, and those in the graph that
  \* returned Sweep in it
  ran, swept

graph_vars == <<graph, depth, edges>>
node_vars  == <<rc, mut_epoch, stale>>
queue_vars == <<removal_queue, yields, deferred_spawns>>
hist_vars  == <<ran, swept>>
vars == <<sched_vars, graph_vars, sched_epoch, poisoned, node_vars, queue_vars,
          epoch, phase, current, edge_buffer, hist_vars>>

PollPhases == {"notify", "yield", "timer", "io"}
LoopPhases == {"exec", "node", "broadcast", "cascade"}
InCycle    == phase \in PollPhases \cup LoopPhases
Phases     == PollPhases \cup LoopPhases \cup
              {"idle", "sweep", "spawn", "spawn_fn", "terminated", "panicked"}

\* Graph::edges(): all children
Children(p) == {c \in Index : \E r \in Relationship : <<p, c, r>> \in edges}

\* Mutant: the filter on the relationship is inverted.
Triggered_Observers(p) == {c \in Index : <<p, c, "Observe">> \in edges}

\* Graph::triggering_edges()
Triggered(p) == {c \in Index : <<p, c, "Trigger">> \in edges}

\* Mutant: only the edges to the children are removed.
EdgesWithout_Outgoing(i) == {e \in edges : e[1] # i}

\* Graph::remove_node() takes the node's edges with it.
EdgesWithout(i) == {e \in edges : e[1] # i /\ e[2] # i}

Init ==
  /\ SchedInit
  /\ graph = {} /\ edges = {}
  /\ depth = [i \in Index |-> 0]
  /\ sched_epoch = [i \in Index |-> 0]
  /\ poisoned = [i \in Index |-> FALSE]
  /\ rc = [i \in Index |-> "none"]
  /\ mut_epoch = [i \in Index |-> 0]
  /\ stale = {}
  /\ removal_queue = {} /\ yields = {} /\ deferred_spawns = 0
  /\ epoch = 0 /\ phase = "idle" /\ current = NoNode /\ edge_buffer = {}
  /\ ran = {} /\ swept = {}

\* triggered_by_many()
Triggers(P, c) == P \X {c} \X {"Trigger"}

\* The state before the first cycle when the builders have made the graph of
\* the nodes N, with depths D and edges E.  What they yielded is left open.
BuiltGraph(N, D, E) ==
  /\ multi_queue = [d \in Depths |-> <<>>]
  /\ levels = 3 /\ curr_depth = 0 /\ pending_events = 0
  /\ graph = N /\ edges = E /\ depth = D
  /\ sched_epoch = [i \in Index |-> 0]
  /\ poisoned = [i \in Index |-> FALSE]
  /\ rc = [i \in Index |-> IF i \in N THEN "held" ELSE "none"]
  /\ mut_epoch = [i \in Index |-> 0]
  /\ stale = {} /\ removal_queue = {} /\ deferred_spawns = 0
  /\ epoch = 0 /\ phase = "idle" /\ current = NoNode /\ edge_buffer = {}
  /\ ran = {} /\ swept = {}

-----------------------------------------------------------------------------
(* Operations of client code.  Build needs the executor itself, so it runs *)
(* between cycles or in a deferred spawn function; the others also run     *)
(* inside a cycle function.                                                *)

ClientOwnsExecutor == phase \in {"idle", "spawn_fn"}
ClientRuns         == phase \in {"idle", "spawn_fn", "node"}

\* Mutant: one more than the depth of some parent.
IsDepthBelow_AnyParent(P, d) ==
  IF P = {} THEN d = 0 ELSE \E p \in P : d = depth[p] + 1

\* d is one more than the depth of the deepest parent, 0 without parents.
IsDepthBelow(P, d) ==
  IF P = {} THEN d = 0
            ELSE /\ \E p \in P : d = depth[p] + 1
                 /\ \A p \in P : depth[p] < d

\* add_relationship(), which a builder is asked any number of times: a parent
\* that was named with both relationships is a trigger.
TriggersOf(asks) == {p \in graph : <<p, "Trigger">> \in asks}
ParentsOf(asks)  == {ask[1] : ask \in asks}

\* A new NodeContext and its edges.  P are the parents, T the ones with a
\* Trigger relationship; clients name parents that are in the graph.  The
\* slot may be one that a removed node left behind.
Insert(i, P, T) ==
  /\ ClientOwnsExecutor
  /\ i \notin graph
  /\ \E d \in Depths :
       /\ IsDepthBelow(P, d)
       /\ depth' = [depth EXCEPT ![i] = d]
       /\ EnableDepth(d)
  /\ graph' = graph \cup {i}
  /\ edges' = edges \cup {<<p, i, "Trigger">> : p \in T}
                    \cup {<<p, i, "Observe">> : p \in P \ T}
  /\ sched_epoch' = [sched_epoch EXCEPT ![i] = 0]
  /\ poisoned' = [poisoned EXCEPT ![i] = FALSE]
  /\ mut_epoch' = [mut_epoch EXCEPT ![i] = 0]
  /\ UNCHANGED <<stale, queue_vars, epoch, phase, current, edge_buffer,
                 hist_vars>>

\* build(): the returned handle is the only strong reference.  on_init is
\* client code: the steps that follow.
Build(i, P, T) ==
  /\ Insert(i, P, T)
  /\ rc' = [rc EXCEPT ![i] = "held"]

\* spawn(): the cycle function owns its node, and there is no handle.
Spawn(i, P, T) ==
  /\ Spawning
  /\ Insert(i, P, T)
  /\ rc' = [rc EXCEPT ![i] = "closure"]

\* The last handle of a built node is dropped: NodeInner::drop().
DropHandle(i) ==
  /\ ClientRuns
  /\ i \in graph /\ rc[i] = "held"
  /\ rc' = [rc EXCEPT ![i] = "none"]
  /\ removal_queue' = removal_queue \cup {i}
  /\ UNCHANGED <<sched_vars, graph_vars, sched_epoch, poisoned, mut_epoch,
                 stale, yields, deferred_spawns, epoch, phase, current,
                 edge_buffer, hist_vars>>

\* The last handle of a node that is not in the graph any more is dropped:
\* the slot it names is marked, whoever has it now.
DropStaleHandle(i) ==
  /\ ClientRuns
  /\ i \in stale
  /\ stale' = stale \ {i}
  /\ removal_queue' = removal_queue \cup {i}
  /\ UNCHANGED <<sched_vars, graph_vars, sched_epoch, poisoned, rc, mut_epoch,
                 yields, deferred_spawns, epoch, phase, current, edge_buffer,
                 hist_vars>>

\* GarbageCollector::mark_for_sweep(), called by a client with any index
MarkForSweep(i) ==
  /\ ClientRuns
  /\ Cardinality(removal_queue) < MaxMarks
  /\ removal_queue' = removal_queue \cup {i}
  /\ UNCHANGED <<sched_vars, graph_vars, sched_epoch, poisoned, node_vars,
                 yields, deferred_spawns, epoch, phase, current, edge_buffer,
                 hist_vars>>

\* yield_now(), on the context or on the yield driver
YieldNow(i) ==
  /\ ClientRuns
  /\ Cardinality(yields) < MaxYields
  /\ yields' = yields \cup {i}
  /\ UNCHANGED <<sched_vars, graph_vars, sched_epoch, poisoned, node_vars,
                 removal_queue, deferred_spawns, epoch, phase, current,
                 edge_buffer, hist_vars>>

\* ExecutionContext::spawn_subgraph()
SpawnSubgraph ==
  /\ phase = "node"
  /\ deferred_spawns < MaxSpawns
  /\ deferred_spawns' = deferred_spawns + 1
  /\ UNCHANGED <<sched_vars, graph_vars, sched_epoch, poisoned, node_vars,
                 removal_queue, yields, epoch, phase, current, edge_buffer,
                 hist_vars>>

\* ExecutionContext::schedule_node(): straight into the queue, past
\* can_schedule() and its epoch stamp.
ScheduleNode(i) ==
  /\ ManualScheduling
  /\ phase = "node"
  /\ i \in graph
  /\ pending_events < MaxPending
  /\ ScheduleOk(i, depth[i]) \/ ScheduleErr(i, depth[i])
  /\ UNCHANGED <<graph_vars, sched_epoch, poisoned, node_vars, queue_vars,
                 epoch, phase, current, edge_buffer, hist_vars>>

-----------------------------------------------------------------------------
(* Executor::cycle(), from the epoch to the poll.                          *)

\* Mutant: the stamp is compared with the mutation epoch of the node.
CanSchedule_MutEpoch(i) == i \in graph /\ mut_epoch[i] # epoch

\* Mutant: the slot is not checked to be occupied.
CanSchedule_Unchecked(i) == sched_epoch[i] # epoch

\* Graph::can_schedule(): the node exists and was not stamped this epoch.
CanSchedule(i) == i \in graph /\ sched_epoch[i] # epoch

\* Mutant: schedule only what is strictly below the current depth.
Wake_Strict(i) ==
  \/ /\ ~ CanSchedule(i)
     /\ UNCHANGED <<sched_vars, sched_epoch>>
  \/ /\ CanSchedule(i)
     /\ sched_epoch' = [sched_epoch EXCEPT ![i] = epoch]
     /\ IF depth[i] > curr_depth THEN ScheduleOk(i, depth[i])
                                 ELSE UNCHANGED sched_vars

\* can_schedule() followed by schedule(): the stamp is set whether or not
\* the scheduler then accepts the node.
Wake(i) ==
  \/ /\ ~ CanSchedule(i)
     /\ UNCHANGED <<sched_vars, sched_epoch>>
  \/ /\ CanSchedule(i)
     /\ sched_epoch' = [sched_epoch EXCEPT ![i] = epoch]
     /\ ScheduleOk(i, depth[i]) \/ ScheduleErr(i, depth[i])

WakeRejected(i) == CanSchedule(i) /\ depth[i] < curr_depth

WrappingIncrement(e) == IF e + 1 = EpochModulus THEN 0 ELSE e + 1

BeginCycle ==
  /\ phase = "idle"
  /\ epoch < MaxEpoch
  /\ epoch' = WrappingIncrement(epoch)
  /\ phase' = "notify"
  /\ ran' = {} /\ swept' = {}
  /\ current' = NoNode
  /\ UNCHANGED <<sched_vars, graph_vars, sched_epoch, poisoned, node_vars,
                 queue_vars, edge_buffer>>

\* A notification or an I/O event: poll() panics when the scheduler rejects it.
PollExternal(stage, i) ==
  /\ phase = stage
  /\ Wake(i)
  /\ phase' = IF WakeRejected(i) THEN "panicked" ELSE phase
  /\ UNCHANGED <<graph_vars, poisoned, node_vars, queue_vars, epoch, current,
                 edge_buffer, hist_vars>>

PollNotification(i) == PollExternal("notify", i)
PollIo(i)           == PollExternal("io", i)

\* Mutant: the requests are read but not drained.
PollYield_Kept(i) ==
  /\ phase = "yield"
  /\ i \in yields
  /\ Wake(i)
  /\ UNCHANGED <<graph_vars, poisoned, node_vars, queue_vars, epoch, phase,
                 current, edge_buffer, hist_vars>>

\* YieldDriver::poll() drains every request; a rejected one is gone.
PollYield(i) ==
  /\ phase = "yield"
  /\ i \in yields
  /\ yields' = yields \ {i}
  /\ Wake(i)
  /\ UNCHANGED <<graph_vars, poisoned, node_vars, removal_queue,
                 deferred_spawns, epoch, phase, current, edge_buffer, hist_vars>>

\* An expired timer; TimerDriver::poll() ignores a rejection as well.
PollTimer(i) ==
  /\ phase = "timer"
  /\ Wake(i)
  /\ UNCHANGED <<graph_vars, poisoned, node_vars, queue_vars, epoch, phase,
                 current, edge_buffer, hist_vars>>

\* The next source, and after the last one the execution loop.
NextStage ==
  /\ \/ phase = "notify" /\ phase' = "yield"
     \/ phase = "yield" /\ yields = {} /\ phase' = "timer"
     \/ phase = "timer" /\ phase' = "io"
     \/ phase = "io" /\ phase' = "exec"
  /\ UNCHANGED <<sched_vars, graph_vars, sched_epoch, poisoned, node_vars,
                 queue_vars, epoch, current, edge_buffer, hist_vars>>

\* Instead of delivering I/O events, io_driver.poll() fails: cycle() returns
\* Err and the runtime goes on as if it had returned Running.
PollError ==
  /\ PollMayFail
  /\ phase = "timer"
  /\ phase' = "idle"
  /\ UNCHANGED <<sched_vars, graph_vars, sched_epoch, poisoned, node_vars,
                 queue_vars, epoch, current, edge_buffer, hist_vars>>

-----------------------------------------------------------------------------
(* Executor::cycle(), the execution loop.                                  *)

\* NodeContext::cycle() and the weak reference of build(): the cycle
\* function is entered unless the node is poisoned or was dropped.
Runnable(i) == ~ poisoned[i] /\ rc[i] # "none"

EnterNode(i) ==
  /\ phase = "exec"
  /\ PopSome(i)
  /\ Runnable(i)
  /\ current' = i /\ phase' = "node" /\ ran' = ran \cup {i}
  /\ UNCHANGED <<graph_vars, sched_epoch, poisoned, node_vars, queue_vars,
                 epoch, edge_buffer, swept>>

\* Mutant: only the children that the node triggers are cleaned up.
Cascade_TriggersOnly(i) ==
  /\ removal_queue' = removal_queue \cup {i}
  /\ edge_buffer' = Triggered(i)
  /\ swept' = swept \cup {i}
  /\ phase' = "cascade"

\* Control::Sweep: mark the node and go over all of its children.
Cascade(i) ==
  /\ removal_queue' = removal_queue \cup {i}
  /\ edge_buffer' = Children(i)
  /\ swept' = swept \cup {i}
  /\ phase' = "cascade"

\* A poisoned or dropped node answers Sweep without running client code.
SweepDeadNode(i) ==
  /\ phase = "exec"
  /\ PopSome(i)
  /\ ~ Runnable(i)
  /\ current' = i /\ ran' = ran \cup {i}
  /\ Cascade(i)
  /\ UNCHANGED <<graph_vars, sched_epoch, poisoned, node_vars, yields,
                 deferred_spawns, epoch>>

ReturnBroadcast ==
  /\ phase = "node"
  /\ mut_epoch' = [mut_epoch EXCEPT ![current] = epoch]
  /\ edge_buffer' = Triggered(current)
  /\ phase' = "broadcast"
  /\ UNCHANGED <<sched_vars, graph_vars, sched_epoch, poisoned, rc, stale,
                 queue_vars, epoch, current, hist_vars>>

ReturnUnchanged ==
  /\ phase = "node"
  /\ phase' = "exec"
  /\ UNCHANGED <<sched_vars, graph_vars, sched_epoch, poisoned, node_vars,
                 queue_vars, epoch, current, edge_buffer, hist_vars>>

\* Control::Sweep, returned or put in the place of a caught panic
ReturnSweep ==
  /\ phase = "node"
  /\ Cascade(current)
  /\ UNCHANGED <<sched_vars, graph_vars, sched_epoch, poisoned, node_vars,
                 yields, deferred_spawns, epoch, current, ran>>

\* cycle() returns at once: nothing is swept or spawned, and the scheduler
\* keeps its cursor and its queue.
ReturnTerminate ==
  /\ phase = "node"
  /\ phase' = IF Resumable THEN "idle" ELSE "terminated"
  /\ UNCHANGED <<sched_vars, graph_vars, sched_epoch, poisoned, node_vars,
                 queue_vars, epoch, current, edge_buffer, hist_vars>>

BroadcastTo(c) ==
  /\ phase = "broadcast"
  /\ c \in edge_buffer
  /\ edge_buffer' = edge_buffer \ {c}
  /\ Wake(c)
  /\ UNCHANGED <<graph_vars, poisoned, node_vars, queue_vars, epoch, phase,
                 current, hist_vars>>

\* Mutant: the child is poisoned but not scheduled to clean itself up.
CascadeTo_NotScheduled(c) ==
  /\ phase = "cascade"
  /\ c \in edge_buffer
  /\ edge_buffer' = edge_buffer \ {c}
  /\ poisoned' = [poisoned EXCEPT ![c] = TRUE]
  /\ UNCHANGED <<sched_vars, sched_epoch, graph_vars, node_vars, queue_vars,
                 epoch, phase, current, hist_vars>>

\* A child of a swept node is poisoned, and scheduled to sweep itself.
CascadeTo(c) ==
  /\ phase = "cascade"
  /\ c \in edge_buffer
  /\ edge_buffer' = edge_buffer \ {c}
  /\ poisoned' = [poisoned EXCEPT ![c] = TRUE]
  /\ Wake(c)
  /\ UNCHANGED <<graph_vars, node_vars, queue_vars, epoch, phase, current,
                 hist_vars>>

EndOfChildren ==
  /\ phase \in {"broadcast", "cascade"}
  /\ edge_buffer = {}
  /\ phase' = "exec"
  /\ UNCHANGED <<sched_vars, graph_vars, sched_epoch, poisoned, node_vars,
                 queue_vars, epoch, current, edge_buffer, hist_vars>>

EndLoop ==
  /\ phase = "exec"
  /\ PopNone
  /\ phase' = "sweep"
  /\ current' = NoNode
  /\ ran' = {}
  /\ UNCHANGED <<graph_vars, sched_epoch, poisoned, node_vars, queue_vars,
                 epoch, edge_buffer, swept>>

-----------------------------------------------------------------------------
(* Executor::cycle(), cleanup and deferred spawns.                         *)

\* remove_node() of a marked slot: its edges go, its closure is dropped and
\* with it the last handles that the closure owned, of nodes D in the graph
\* and S not in the graph; the closure of a spawned node owns the node itself
\* and marks it once more.  A client's handle stays, and names the slot on.
\* Removing a slot that is vacant changes nothing.
SweepNext(i, D, S) ==
  /\ phase = "sweep"
  /\ i \in removal_queue
  /\ D \subseteq {n \in graph : rc[n] = "held" /\ n # i} /\ S \subseteq stale
  /\ i \notin graph => D = {} /\ S = {}
  /\ graph' = graph \ {i}
  /\ edges' = EdgesWithout(i)
  /\ rc' = [n \in Index |-> IF n = i \/ n \in D THEN "none" ELSE rc[n]]
  /\ stale' = (stale \ S) \cup (IF i \in graph /\ rc[i] = "held" THEN {i} ELSE {})
  /\ removal_queue' =
       (removal_queue \ {i}) \cup D \cup S
         \cup (IF i \in graph /\ rc[i] = "closure" THEN {i} ELSE {})
  /\ depth' = [depth EXCEPT ![i] = 0]
  /\ sched_epoch' = [sched_epoch EXCEPT ![i] = 0]
  /\ mut_epoch' = [mut_epoch EXCEPT ![i] = 0]
  /\ poisoned' = [poisoned EXCEPT ![i] = FALSE]
  /\ swept' = swept \ {i}
  /\ UNCHANGED <<sched_vars, yields, deferred_spawns, epoch, phase, current,
                 edge_buffer, ran>>

EndSweep ==
  /\ phase = "sweep"
  /\ removal_queue = {}
  /\ phase' = "spawn"
  /\ UNCHANGED <<sched_vars, graph_vars, sched_epoch, poisoned, node_vars,
                 queue_vars, epoch, current, edge_buffer, hist_vars>>

\* A deferred spawn function starts, is client code with the executor in its
\* hands, and ends.
RunSpawn ==
  /\ phase = "spawn"
  /\ deferred_spawns > 0
  /\ deferred_spawns' = deferred_spawns - 1
  /\ phase' = "spawn_fn"
  /\ UNCHANGED <<sched_vars, graph_vars, sched_epoch, poisoned, node_vars,
                 removal_queue, yields, epoch, current, edge_buffer, hist_vars>>

EndSpawn ==
  /\ phase = "spawn_fn"
  /\ phase' = "spawn"
  /\ UNCHANGED <<sched_vars, graph_vars, sched_epoch, poisoned, node_vars,
                 queue_vars, epoch, current, edge_buffer, hist_vars>>

EndCycle ==
  /\ phase = "spawn"
  /\ deferred_spawns = 0
  /\ phase' = "idle"
  /\ UNCHANGED <<sched_vars, graph_vars, sched_epoch, poisoned, node_vars,
                 queue_vars, epoch, current, edge_buffer, hist_vars>>

-----------------------------------------------------------------------------
NewNode(i, asks) ==
  \/ Build(i, ParentsOf(asks), TriggersOf(asks))
  \/ Spawn(i, ParentsOf(asks), TriggersOf(asks))

Client ==
  \/ \E i \in Index, asks \in SUBSET (graph \X Relationship) : NewNode(i, asks)
  \/ \E i \in Index : DropHandle(i)
  \/ \E i \in Index : DropStaleHandle(i)
  \/ \E i \in Index : MarkForSweep(i)
  \/ \E i \in Index : YieldNow(i)
  \/ \E i \in Index : ScheduleNode(i)
  \/ SpawnSubgraph

Poll ==
  \/ \E i \in Index : PollNotification(i)
  \/ \E i \in Index : PollTimer(i)
  \/ \E i \in Index : PollIo(i)

\* The steps that take a cycle that has begun towards its end.
Advance ==
  \/ \E i \in Index : PollYield(i)
  \/ NextStage
  \/ \E i \in Index : EnterNode(i)
  \/ \E i \in Index : SweepDeadNode(i)
  \/ ReturnBroadcast
  \/ ReturnUnchanged
  \/ ReturnSweep
  \/ ReturnTerminate
  \/ \E c \in Index : BroadcastTo(c)
  \/ \E c \in Index : CascadeTo(c)
  \/ EndOfChildren
  \/ EndLoop
  \/ \E i \in Index, D, S \in SUBSET Index : SweepNext(i, D, S)
  \/ EndSweep
  \/ RunSpawn
  \/ EndSpawn
  \/ EndCycle

\* The steps between those of client code, when no node is swept.
QuietStep ==
  \/ BeginCycle
  \/ \E i \in Index : PollYield(i)
  \/ NextStage
  \/ \E c \in Index : BroadcastTo(c)
  \/ EndOfChildren
  \/ EndLoop
  \/ EndSweep
  \/ EndCycle

Next == Client \/ BeginCycle \/ Poll \/ PollError \/ Advance

Spec == Init /\ [][Next]_vars

\* cycle() is an ordinary function call of the runtime's thread: it takes
\* its next step as long as the cycle functions it calls return.
FairSpec == Spec /\ WF_vars(Advance)

\* The execution loop is over.
AtRest == phase \in {"sweep", "spawn", "idle"}

\* ExecutionContext::has_mutated()
HasMutated(i) == mut_epoch[i] = epoch

-----------------------------------------------------------------------------
TypeOK ==
  /\ SchedTypeOK
  /\ graph \subseteq Index
  /\ depth \in [Index -> Depths]
  /\ sched_epoch \in [Index -> Nat]
  /\ poisoned \in [Index -> BOOLEAN]
  /\ edges \subseteq graph \X graph \X Relationship
  /\ rc \in [Index -> {"held", "closure", "none"}]
  /\ mut_epoch \in [Index -> Nat]
  /\ stale \subseteq Index
  /\ removal_queue \subseteq Index
  /\ yields \subseteq Index
  /\ deferred_spawns \in Nat
  /\ epoch \in Nat
  /\ phase \in Phases
  /\ current \in Index \cup {NoNode}
  /\ edge_buffer \subseteq Index
  /\ ran \subseteq Index
  /\ swept \subseteq Index

Queued(i) ==
  \E d \in Depths : \E k \in 1 .. Len(multi_queue[d]) : multi_queue[d][k] = i

\* Every queued node exists, and sits at its own depth, in a level that was
\* enabled: neither multi_queue[depth] nor graph.inner[node_idx] can panic,
\* although nodes are removed while their indices travel through queues.
QueueWellPlaced ==
  \A d \in Depths : \A k \in 1 .. Len(multi_queue[d]) :
    /\ multi_queue[d][k] \in graph
    /\ depth[multi_queue[d][k]] = d
    /\ d < levels

\* README: "parent nodes are always processed before their children".  Once a
\* node has run in a cycle none of its parents, of either relationship, runs
\* or waits to run in that cycle.
DependencyOrder ==
  InCycle =>
    \A e \in edges :
      e[2] \in ran =>
        /\ ~ Queued(e[1])
        /\ phase = "node" => current # e[1]

\* A node that mutated in this cycle has got every trigger child into the
\* queue or has had it run; by DependencyOrder the run came later.  The
\* stamp of can_schedule() must never make a broadcast lose a child.
NoLostTrigger ==
  InCycle =>
    \A e \in edges :
      e[3] = "Trigger" /\ mut_epoch[e[1]] = epoch =>
        \/ e[2] \in ran \/ Queued(e[2])
        \/ phase = "broadcast" /\ current = e[1] /\ e[2] \in edge_buffer

\* A stamped node is served: whenever can_schedule() has consumed a wake-up
\* of this cycle, the node waits in the queue or has run.
StampedIsServed ==
  InCycle =>
    \A i \in graph : sched_epoch[i] = epoch => i \in ran \/ Queued(i)

\* CONTRIBUTING: "Prevents duplicate scheduling within cycles".  A node is in
\* the queue at most once, and not at all once it has run in this cycle.
AtMostOncePerCycle ==
  /\ \A d1, d2 \in Depths :
       \A k1 \in 1 .. Len(multi_queue[d1]), k2 \in 1 .. Len(multi_queue[d2]) :
         multi_queue[d1][k1] = multi_queue[d2][k2] => d1 = d2 /\ k1 = k2
  /\ InCycle => \A i \in ran : ~ Queued(i)

\* A node that can never run again (poisoned by a swept parent, or without
\* any handle left) is on its way out: it waits in the queue, where it will
\* sweep itself, or it is marked.  In particular none survives a sweep.
NoZombie ==
  \A i \in graph :
    poisoned[i] \/ rc[i] = "none" => Queued(i) \/ i \in removal_queue

\* A node that returned Sweep leaves no child of either relationship behind:
\* by the end of the loop each is poisoned, hence (NoZombie) swept as well.
SweepPoisonsChildren ==
  InCycle =>
    \A e \in edges :
      e[1] \in swept =>
        \/ poisoned[e[2]]
        \/ phase = "cascade" /\ current = e[1] /\ e[2] \in edge_buffer

\* The .expect("failed to schedule node") of the notification poll and the
\* .unwrap() of the I/O poll never fire.
PollNeverPanics == phase # "panicked"

\* build(): "The returned Node<T> handle keeps the node alive".  A node that
\* clients hold is marked for removal only if it returned Sweep or a parent
\* of it was swept (and clients do not call mark_for_sweep()).
HandleKeepsAlive ==
  \A i \in graph :
    rc[i] = "held" /\ i \in removal_queue => poisoned[i] \/ i \in swept

\* A cycle that has begun comes to an end.
CycleEnds == InCycle ~> phase \in {"idle", "terminated"}
=============================================================================
