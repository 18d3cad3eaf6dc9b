--------------------------- MODULE ExecutorProofs ---------------------------
(***************************************************************************)
(* Proofs about the executor, for every number of nodes, every graph that  *)
(* client code builds and every depth, and whatever cycle functions do.    *)
(*                                                                         *)
(* The safety properties of module Executor are not inductive one by one.  *)
(* What ties them together is the position of the scheduler's cursor:      *)
(* what has run lies at or above it, what waits lies at or below it, every *)
(* edge points down, and whatever was stamped below the cursor in this     *)
(* cycle is still in the queue.                                            *)
(***************************************************************************)
EXTENDS Executor, SchedulerProofs

\* Every edge leads to a deeper node.
EdgesDescend == \A e \in edges : depth[e[1]] < depth[e[2]]

\* The scheduler has a level for every node.
LevelsEnabled == \A i \in graph : depth[i] < levels

\* No stamp is from the future.
StampsArePast ==
  /\ epoch <= MaxEpoch
  /\ \A i \in Index : sched_epoch[i] <= epoch /\ mut_epoch[i] <= epoch

\* The running node exists, and the cursor is at its depth.
CurrentAtCursor ==
  phase \in {"node", "broadcast", "cascade"} =>
    current \in graph /\ depth[current] = curr_depth

\* The children still to visit are children of the running node.
BufferOfChildren ==
  /\ phase = "broadcast" => edge_buffer \subseteq Triggered(current)
  /\ phase = "cascade" => edge_buffer \subseteq Children(current)

\* What has run in this cycle is not below the cursor.
RanAboveCursor ==
  InCycle => \A i \in ran : i \in graph /\ depth[i] <= curr_depth

\* What was stamped in this cycle and is below the cursor still waits.
StampedBelowWaits ==
  InCycle => \A i \in graph :
               sched_epoch[i] = epoch /\ depth[i] > curr_depth => Queued(i)

\* Nodes are removed and made only while nothing is queued, or between cycles
\* that were cut short.
QueueEmptyAfterLoop ==
  phase \in {"sweep", "spawn", "spawn_fn"} =>
    \A d \in Depths : multi_queue[d] = <<>>

Structure ==
  /\ TypeOK /\ SchedInv
  /\ EdgesDescend /\ LevelsEnabled /\ StampsArePast
  /\ QueueWellPlaced /\ QueueEmptyAfterLoop

CycleInv ==
  /\ CurrentAtCursor /\ BufferOfChildren
  /\ RanAboveCursor /\ StampedBelowWaits
  /\ NoLostTrigger /\ NoZombie /\ SweepPoisonsChildren

IInv == Structure /\ CycleInv

-----------------------------------------------------------------------------
(* What the steps on the queue do to the nodes in it.                      *)

LEMMA EmptyNotQueued ==
  ASSUME \A d \in Depths : multi_queue[d] = <<>>
  PROVE  \A i : ~ Queued(i)
BY EmptySeq DEF Queued

LEMMA SameQueue ==
  ASSUME UNCHANGED multi_queue
  PROVE  \A i : Queued(i)' <=> Queued(i)
BY DEF Queued

LEMMA PushQueued ==
  ASSUME SchedTypeOK, NEW n \in Index, NEW d \in Depths, ScheduleOk(n, d)
  PROVE  /\ Queued(n)'
         /\ \A i : Queued(i) => Queued(i)'
         /\ \A e \in Depths : \A k \in 1 .. Len(multi_queue'[e]) :
              \/ k \in 1 .. Len(multi_queue[e]) /\ multi_queue'[e][k] = multi_queue[e][k]
              \/ e = d /\ multi_queue'[e][k] = n
<1>1. /\ multi_queue' = [multi_queue EXCEPT ![d] = Append(multi_queue[d], n)]
      /\ multi_queue \in [Depths -> Seq(Index)]
  BY DEF ScheduleOk, SchedTypeOK
<1>2. \A e \in Depths : multi_queue[e] \in Seq(Index) /\ Len(multi_queue[e]) \in Nat
  BY <1>1
<1>3. /\ Len(multi_queue'[d]) = Len(multi_queue[d]) + 1
      /\ multi_queue'[d][Len(multi_queue[d]) + 1] = n
      /\ \A k \in 1 .. Len(multi_queue[d]) : multi_queue'[d][k] = multi_queue[d][k]
  BY <1>1, <1>2
<1>4. \A e \in Depths \ {d} : multi_queue'[e] = multi_queue[e]
  BY <1>1
<1>5. \A e \in Depths : \A k \in 1 .. Len(multi_queue[e]) :
         k \in 1 .. Len(multi_queue'[e]) /\ multi_queue'[e][k] = multi_queue[e][k]
  <2> SUFFICES ASSUME NEW e \in Depths, NEW k \in 1 .. Len(multi_queue[e])
               PROVE  k \in 1 .. Len(multi_queue'[e])
                      /\ multi_queue'[e][k] = multi_queue[e][k]
    OBVIOUS
  <2>1. CASE e = d
    BY <2>1, <1>2, <1>3
  <2>2. CASE e # d
    BY <2>2, <1>4
  <2>3. QED
    BY <2>1, <2>2
<1>6. Queued(n)'
  BY <1>2, <1>3 DEF Queued
<1>7. \A i : Queued(i) => Queued(i)'
  BY <1>5 DEF Queued
<1>8. ASSUME NEW e \in Depths, NEW k \in 1 .. Len(multi_queue'[e])
      PROVE  \/ k \in 1 .. Len(multi_queue[e]) /\ multi_queue'[e][k] = multi_queue[e][k]
             \/ e = d /\ multi_queue'[e][k] = n
  <2>1. CASE e = d
    <3>1. k \in 1 .. Len(multi_queue[d]) \/ k = Len(multi_queue[d]) + 1
      BY <1>8, <2>1, <1>2, <1>3
    <3>2. QED
      BY <3>1, <2>1, <1>3
  <2>2. CASE e # d
    BY <2>2, <1>4
  <2>3. QED
    BY <2>1, <2>2
<1>9. QED
  BY <1>6, <1>7, <1>8

LEMMA PopQueued ==
  ASSUME SchedTypeOK, QueueWellPlaced, NEW n, PopSome(n)
  PROVE  /\ n \in graph /\ depth[n] = curr_depth'
         /\ curr_depth' >= curr_depth
         /\ curr_depth' \in Depths
         /\ Queued(n)
         /\ \A i : Queued(i) /\ i # n => Queued(i)'
         /\ \A e \in Depths : \A k \in 1 .. Len(multi_queue'[e]) :
              \E m \in 1 .. Len(multi_queue[e]) : multi_queue'[e][k] = multi_queue[e][m]
<1>1. PICK d \in Depths :
        /\ FirstWaiting(d)
        /\ n = Head(multi_queue[d])
        /\ multi_queue' = [multi_queue EXCEPT ![d] = Tail(multi_queue[d])]
        /\ curr_depth' = d
  BY DEF PopSome
<1>2. /\ multi_queue \in [Depths -> Seq(Index)]
      /\ \A e \in Depths : multi_queue[e] \in Seq(Index) /\ Len(multi_queue[e]) \in Nat
  BY DEF SchedTypeOK
<1>3. multi_queue[d] # <<>> /\ d >= curr_depth
  BY <1>1 DEF FirstWaiting
<1>4. /\ Len(multi_queue[d]) \in Nat \ {0}
      /\ multi_queue[d][1] = n
      /\ Len(multi_queue'[d]) = Len(multi_queue[d]) - 1
      /\ \A k \in 1 .. Len(multi_queue'[d]) : multi_queue'[d][k] = multi_queue[d][k + 1]
  <2>1. Len(multi_queue[d]) \in Nat \ {0}
    BY <1>2, <1>3, EmptySeq
  <2>2. multi_queue'[d] = Tail(multi_queue[d])
    BY <1>1, <1>2
  <2>3. QED
    BY <2>1, <2>2, <1>1, <1>2, <1>3
<1>5. \A e \in Depths \ {d} : multi_queue'[e] = multi_queue[e]
  BY <1>1, <1>2
<1>6. n \in graph /\ depth[n] = d /\ Queued(n)
  <2>1. 1 \in 1 .. Len(multi_queue[d])
    BY <1>4
  <2>2. QED
    BY <2>1, <1>4 DEF QueueWellPlaced, Queued
<1>7. ASSUME NEW i, Queued(i), i # n
      PROVE  Queued(i)'
  <2>1. PICK e \in Depths : \E k \in 1 .. Len(multi_queue[e]) : multi_queue[e][k] = i
    BY <1>7 DEF Queued
  <2>2. PICK k \in 1 .. Len(multi_queue[e]) : multi_queue[e][k] = i
    BY <2>1
  <2>3. CASE e = d
    <3>1. k # 1
      BY <2>2, <2>3, <1>4, <1>7
    <3>2. k - 1 \in 1 .. Len(multi_queue'[d])
      BY <3>1, <2>3, <1>4
    <3>3. multi_queue'[d][k - 1] = i
      BY <3>2, <2>2, <2>3, <1>4
    <3>4. QED
      BY <3>2, <3>3 DEF Queued
  <2>4. CASE e # d
    BY <2>2, <2>4, <1>5 DEF Queued
  <2>5. QED
    BY <2>3, <2>4
<1>8. ASSUME NEW e \in Depths, NEW k \in 1 .. Len(multi_queue'[e])
      PROVE  \E m \in 1 .. Len(multi_queue[e]) : multi_queue'[e][k] = multi_queue[e][m]
  <2>1. CASE e = d
    <3>1. k + 1 \in 1 .. Len(multi_queue[d]) /\ multi_queue'[d][k] = multi_queue[d][k + 1]
      BY <1>8, <2>1, <1>4
    <3>2. QED
      BY <3>1, <2>1
  <2>2. CASE e # d
    BY <2>2, <1>5
  <2>3. QED
    BY <2>1, <2>2
<1>9. QED
  BY <1>1, <1>3, <1>6, <1>7, <1>8

\* Only what was queued is queued after a pop.
LEMMA PopAddsNone ==
  ASSUME SchedTypeOK, QueueWellPlaced, NEW n, PopSome(n)
  PROVE  \A i : Queued(i)' => Queued(i)
<1>1. \A e \in Depths : \A k \in 1 .. Len(multi_queue'[e]) :
        \E m \in 1 .. Len(multi_queue[e]) : multi_queue'[e][k] = multi_queue[e][m]
  BY PopQueued
<1>2. QED
  BY <1>1 DEF Queued

\* A queued node is in the graph, at a level the cursor has not passed.
LEMMA QueuedPlace ==
  ASSUME TypeOK, SchedInv, QueueWellPlaced, NEW i, Queued(i)
  PROVE  i \in graph /\ curr_depth <= depth[i] /\ depth[i] < levels
<1>1. PICK d \in Depths : \E k \in 1 .. Len(multi_queue[d]) : multi_queue[d][k] = i
  BY DEF Queued
<1>2. i \in graph /\ depth[i] = d
  BY <1>1 DEF QueueWellPlaced
<1>3. multi_queue[d] # <<>>
  BY <1>1, EmptySeq
<1>4. QED
  BY <1>2, <1>3 DEF SchedInv, NothingStranded

\* Steps that leave the scheduler alone leave its invariant and its nodes alone.
LEMMA SameSched ==
  ASSUME SchedInv, UNCHANGED sched_vars
  PROVE  /\ SchedInv'
         /\ \A i : Queued(i)' <=> Queued(i)
BY DEF SchedInv, SchedTypeOK, PendingIsExact, Slots, NothingStranded, sched_vars, Queued

-----------------------------------------------------------------------------
(* can_schedule() followed by schedule().                                  *)

LEMMA WakeStep ==
  ASSUME TypeOK, SchedInv, QueueWellPlaced, LevelsEnabled,
         NEW i \in Index, Wake(i), UNCHANGED <<graph, depth, epoch>>
  PROVE  /\ SchedInv' /\ QueueWellPlaced' /\ LevelsEnabled'
         /\ curr_depth' = curr_depth
         /\ sched_epoch' \in [Index -> Nat]
         /\ \A n \in Index \ {i} : sched_epoch'[n] = sched_epoch[n]
         /\ sched_epoch'[i] \in {sched_epoch[i], epoch}
         /\ \A n : Queued(n) => Queued(n)'
         /\ i \in graph /\ depth[i] >= curr_depth =>
              sched_epoch[i] = epoch \/ Queued(i)'
<1>1. CASE ~ CanSchedule(i)
  <2>1. UNCHANGED sched_vars /\ sched_epoch' = sched_epoch
    BY <1>1 DEF Wake
  <2>2. QED
    BY <1>1, <2>1, SameSched DEF TypeOK, QueueWellPlaced, LevelsEnabled, sched_vars, CanSchedule
<1>2. CASE CanSchedule(i)
  <2>1. /\ i \in graph
        /\ sched_epoch' = [sched_epoch EXCEPT ![i] = epoch]
        /\ ScheduleOk(i, depth[i]) \/ ScheduleErr(i, depth[i])
    BY <1>2 DEF Wake, CanSchedule
  <2>2. depth[i] \in Depths /\ depth[i] < levels /\ epoch \in Nat
    BY <2>1 DEF TypeOK, LevelsEnabled
  <2>3. /\ sched_epoch' \in [Index -> Nat]
        /\ \A n \in Index \ {i} : sched_epoch'[n] = sched_epoch[n]
        /\ sched_epoch'[i] = epoch
    BY <2>1, <2>2 DEF TypeOK
  <2>4. CASE ScheduleOk(i, depth[i])
    <3>1. SchedInv'
      BY <2>2, <2>4, ScheduleSched
    <3>2. /\ Queued(i)'
          /\ \A n : Queued(n) => Queued(n)'
          /\ \A e \in Depths : \A k \in 1 .. Len(multi_queue'[e]) :
              \/ k \in 1 .. Len(multi_queue[e]) /\ multi_queue'[e][k] = multi_queue[e][k]
              \/ e = depth[i] /\ multi_queue'[e][k] = i
      BY <2>2, <2>4, PushQueued DEF SchedInv
    <3>3. curr_depth' = curr_depth /\ levels' = levels
      BY <2>4 DEF ScheduleOk
    <3>4. QueueWellPlaced'
      <4> SUFFICES ASSUME NEW d \in Depths, NEW k \in 1 .. Len(multi_queue'[d])
                   PROVE  /\ multi_queue'[d][k] \in graph
                          /\ depth[multi_queue'[d][k]] = d
                          /\ d < levels
        BY <3>3 DEF QueueWellPlaced
      <4>1. CASE k \in 1 .. Len(multi_queue[d]) /\ multi_queue'[d][k] = multi_queue[d][k]
        BY <4>1 DEF QueueWellPlaced
      <4>2. CASE d = depth[i] /\ multi_queue'[d][k] = i
        BY <4>2, <2>1, <2>2
      <4>3. QED
        BY <3>2, <4>1, <4>2
    <3>5. QED
      BY <2>3, <3>1, <3>2, <3>3, <3>4 DEF LevelsEnabled
  <2>5. CASE ScheduleErr(i, depth[i])
    <3>1. UNCHANGED sched_vars /\ depth[i] < curr_depth
      BY <2>5 DEF ScheduleErr
    <3>2. ~ (depth[i] >= curr_depth)
      BY <3>1, <2>2 DEF SchedInv, SchedTypeOK, Depths
    <3>3. QED
      BY <2>3, <3>1, <3>2, SameSched DEF QueueWellPlaced, LevelsEnabled, sched_vars
  <2>6. QED
    BY <2>1, <2>4, <2>5
<1>3. QED
  BY <1>1, <1>2

-----------------------------------------------------------------------------
(* The invariant holds initially, and every action preserves it.           *)

LEMMA InitInv == Init => IInv
<1> SUFFICES ASSUME Init PROVE IInv
  OBVIOUS
<1>1. SchedInv /\ SchedInit
  BY InitSched DEF Init
<1>2. \A d \in Depths : multi_queue[d] = <<>>
  BY <1>1 DEF SchedInit
<1>3. QueueWellPlaced
  BY <1>2, EmptySeq DEF QueueWellPlaced
<1>4. TypeOK
  BY <1>1, MaxDepthAssumption, ExecutorAssumption
  DEF Init, TypeOK, SchedInv, Phases, PollPhases, LoopPhases, Depths
<1>5. Structure
  BY <1>1, <1>3, <1>4, ExecutorAssumption
  DEF Structure, Init, EdgesDescend, LevelsEnabled, StampsArePast, QueueEmptyAfterLoop
<1>6. CycleInv
  BY DEF CycleInv, Init, CurrentAtCursor, BufferOfChildren, RanAboveCursor,
     StampedBelowWaits, NoLostTrigger, NoZombie, SweepPoisonsChildren, InCycle,
     PollPhases, LoopPhases
<1>7. QED
  BY <1>5, <1>6 DEF IInv

\* Calls of client code that only leave a request behind.
LEMMA RequestStep ==
  ASSUME IInv, NEW i \in Index,
         \/ DropHandle(i) \/ DropStaleHandle(i) \/ MarkForSweep(i)
         \/ YieldNow(i) \/ SpawnSubgraph
  PROVE  IInv'
<1>1. /\ UNCHANGED <<sched_vars, graph_vars, sched_epoch, poisoned, mut_epoch,
                     epoch, phase, current, edge_buffer, hist_vars>>
      /\ SchedInv
  BY DEF DropHandle, DropStaleHandle, MarkForSweep, YieldNow, SpawnSubgraph, node_vars,
     IInv, Structure
<1>2. /\ SchedInv'
      /\ \A n : Queued(n)' <=> Queued(n)
  BY <1>1, SameSched
<1>3. TypeOK'
  BY <1>1, <1>2 DEF IInv, Structure, TypeOK, SchedInv, DropHandle,
     DropStaleHandle, MarkForSweep, YieldNow, SpawnSubgraph, node_vars, graph_vars, hist_vars
<1>4. Structure'
  BY <1>1, <1>2, <1>3 DEF IInv, Structure, EdgesDescend, LevelsEnabled, StampsArePast,
     QueueWellPlaced, QueueEmptyAfterLoop, sched_vars, graph_vars
<1>5. NoZombie'
  BY <1>1, <1>2 DEF IInv, Structure, CycleInv, TypeOK, NoZombie, DropHandle,
     DropStaleHandle, MarkForSweep, YieldNow, SpawnSubgraph, node_vars, graph_vars
<1>6. CycleInv'
  BY <1>1, <1>2, <1>5 DEF IInv, CycleInv, CurrentAtCursor, BufferOfChildren,
     RanAboveCursor, StampedBelowWaits, NoLostTrigger, SweepPoisonsChildren, InCycle,
     Triggered, Children, sched_vars, graph_vars, hist_vars
<1>7. QED
  BY <1>4, <1>6 DEF IInv

\* Steps that only move the cycle on to its next statement.
LEMMA PhaseStep ==
  ASSUME IInv,
         \/ NextStage \/ PollError \/ ReturnUnchanged \/ ReturnTerminate
         \/ EndOfChildren \/ EndSweep \/ RunSpawn \/ EndSpawn \/ EndCycle
  PROVE  IInv'
<1>1. /\ UNCHANGED <<sched_vars, graph_vars, sched_epoch, poisoned, node_vars,
                     removal_queue, epoch, current, edge_buffer, hist_vars>>
      /\ SchedInv
  BY DEF NextStage, PollError, ReturnUnchanged, ReturnTerminate, EndOfChildren,
     EndSweep, RunSpawn, EndSpawn, EndCycle, queue_vars, IInv, Structure
<1>2. /\ SchedInv'
      /\ \A n : Queued(n)' <=> Queued(n)
  BY <1>1, SameSched
<1>3. /\ phase' \in Phases
      /\ yields' = yields
      /\ deferred_spawns' \in Nat
  BY DEF NextStage, PollError, ReturnUnchanged, ReturnTerminate, EndOfChildren,
     EndSweep, RunSpawn, EndSpawn, EndCycle, queue_vars, IInv, Structure, TypeOK,
     Phases, PollPhases, LoopPhases
<1>4. /\ phase' \in {"sweep", "spawn", "spawn_fn"} =>
           phase \in {"sweep", "spawn", "spawn_fn"}
      /\ phase' \notin {"node", "broadcast", "cascade"}
      /\ InCycle' => InCycle
      /\ InCycle' /\ phase \in {"broadcast", "cascade"} => edge_buffer = {}
  BY DEF NextStage, PollError, ReturnUnchanged, ReturnTerminate, EndOfChildren,
     EndSweep, RunSpawn, EndSpawn, EndCycle, InCycle, PollPhases, LoopPhases
<1>5. TypeOK'
  BY <1>1, <1>2, <1>3 DEF IInv, Structure, TypeOK, SchedInv,
     node_vars, graph_vars, hist_vars
<1>6. Structure'
  BY <1>1, <1>2, <1>4, <1>5 DEF IInv, Structure, EdgesDescend, LevelsEnabled,
     StampsArePast, QueueWellPlaced, QueueEmptyAfterLoop, sched_vars, graph_vars,
     node_vars
<1>7. CycleInv'
  BY <1>1, <1>2, <1>4 DEF IInv, CycleInv, CurrentAtCursor, BufferOfChildren,
     RanAboveCursor, StampedBelowWaits, NoLostTrigger, NoZombie, SweepPoisonsChildren,
     InCycle, sched_vars, graph_vars, hist_vars, node_vars
<1>8. QED
  BY <1>6, <1>7 DEF IInv

\* A builder only ever has parents that it was asked for.
LEMMA AsksName ==
  ASSUME NEW asks \in SUBSET (graph \X Relationship)
  PROVE  /\ ParentsOf(asks) \in SUBSET graph
         /\ TriggersOf(asks) \in SUBSET ParentsOf(asks)
  BY DEF ParentsOf, TriggersOf, Relationship

LEMMA BuildStep ==
  ASSUME IInv, NEW i \in Index, NEW P \in SUBSET graph, NEW T \in SUBSET P,
         Build(i, P, T) \/ Spawn(i, P, T)
  PROVE  IInv'
<1>0. /\ Insert(i, P, T)
      /\ \E owner \in {"held", "closure"} : rc' = [rc EXCEPT ![i] = owner]
  BY DEF Build, Spawn
<1>1. PICK d \in Depths : /\ IsDepthBelow(P, d)
                          /\ depth' = [depth EXCEPT ![i] = d]
                          /\ EnableDepth(d)
  BY <1>0 DEF Insert
<1>2. /\ i \notin graph /\ graph' = graph \cup {i}
      /\ phase \in {"idle", "spawn_fn"} /\ phase' = phase
      /\ UNCHANGED <<queue_vars, epoch, current, edge_buffer, hist_vars>>
      /\ edges' = edges \cup {<<p, i, "Trigger">> : p \in T}
                        \cup {<<p, i, "Observe">> : p \in P \ T}
  BY <1>0 DEF Insert, ClientOwnsExecutor
<1>3. TypeOK /\ SchedInv
  BY DEF IInv, Structure
<1>4. SchedInv' /\ multi_queue' = multi_queue /\ levels' \in Nat
      /\ levels' >= levels /\ levels' > d
  <2>1. SchedInv'
    BY <1>1, <1>3, EnableDepthSched
  <2>2. levels \in Nat /\ d \in Nat
    BY <1>3, MaxDepthAssumption DEF SchedInv, SchedTypeOK, Depths
  <2>3. QED
    BY <1>1, <2>1, <2>2 DEF EnableDepth
<1>5. \A n : Queued(n)' <=> Queued(n)
  BY <1>4, SameQueue
<1>6. /\ depth'[i] = d
      /\ \A n \in graph : n # i /\ depth'[n] = depth[n]
      /\ depth' \in [Index -> Depths]
  BY <1>1, <1>2, <1>3 DEF TypeOK
<1>7. \A p \in P : depth[p] < d
  BY <1>1 DEF IsDepthBelow
<1>8. \A e \in edges' :
         \/ e \in edges /\ e[1] \in graph /\ e[2] \in graph
         \/ e[1] \in P /\ e[2] = i /\ e[3] \in Relationship
  BY <1>2, <1>3 DEF TypeOK, Relationship
<1>9. edges' \subseteq graph' \X graph' \X Relationship
  BY <1>2, <1>3 DEF TypeOK, Relationship
<1>10. TypeOK'
  BY <1>0, <1>2, <1>3, <1>4, <1>6, <1>9
  DEF Insert, TypeOK, SchedInv, queue_vars, hist_vars
<1>11. EdgesDescend'
  BY <1>6, <1>7, <1>8 DEF IInv, Structure, EdgesDescend
<1>12. LevelsEnabled'
  BY <1>2, <1>3, <1>4, <1>6 DEF IInv, Structure, LevelsEnabled, TypeOK, SchedInv,
     SchedTypeOK, Depths
<1>13. StampsArePast'
  BY <1>0, <1>2, <1>3 DEF IInv, Structure, StampsArePast, Insert, TypeOK
<1>14. QueueWellPlaced'
  <2> SUFFICES ASSUME NEW e \in Depths, NEW k \in 1 .. Len(multi_queue[e])
               PROVE  /\ multi_queue[e][k] \in graph'
                      /\ depth'[multi_queue[e][k]] = e
                      /\ e < levels'
    BY <1>4 DEF QueueWellPlaced
  <2>1. multi_queue[e][k] \in graph /\ depth[multi_queue[e][k]] = e /\ e < levels
    BY DEF IInv, Structure, QueueWellPlaced
  <2>2. e \in Nat /\ levels \in Nat
    BY <1>3, MaxDepthAssumption DEF SchedInv, SchedTypeOK, Depths
  <2>3. QED
    BY <1>2, <1>4, <1>6, <2>1, <2>2
<1>15. Structure'
  BY <1>2, <1>4, <1>10, <1>11, <1>12, <1>13, <1>14
  DEF IInv, Structure, QueueEmptyAfterLoop
<1>16. NoZombie'
  BY <1>0, <1>2, <1>3, <1>5
  DEF IInv, CycleInv, NoZombie, Insert, TypeOK, queue_vars
<1>17. CycleInv'
  BY <1>2, <1>16 DEF CycleInv, CurrentAtCursor, BufferOfChildren, RanAboveCursor,
     StampedBelowWaits, NoLostTrigger, SweepPoisonsChildren, InCycle, PollPhases,
     LoopPhases
<1>18. QED
  BY <1>15, <1>17 DEF IInv

\* schedule_node() may queue a node once more, but never above the cursor.
LEMMA ScheduleNodeStep ==
  ASSUME IInv, NEW i \in Index, ScheduleNode(i)
  PROVE  IInv'
<1>1. /\ UNCHANGED <<graph_vars, sched_epoch, poisoned, node_vars, queue_vars,
                     epoch, phase, current, edge_buffer, hist_vars>>
      /\ i \in graph
      /\ TypeOK /\ SchedInv
  BY DEF ScheduleNode, IInv, Structure
<1>2. depth[i] \in Depths /\ depth[i] < levels
  BY <1>1 DEF IInv, Structure, LevelsEnabled, TypeOK
<1>3. /\ SchedInv' /\ QueueWellPlaced'
      /\ curr_depth' = curr_depth /\ levels' = levels
      /\ \A n : Queued(n) => Queued(n)'
  <2>1. CASE ScheduleOk(i, depth[i])
    <3>1. SchedInv'
      BY <1>1, <1>2, <2>1, ScheduleSched
    <3>2. /\ \A n : Queued(n) => Queued(n)'
          /\ \A e \in Depths : \A k \in 1 .. Len(multi_queue'[e]) :
              \/ k \in 1 .. Len(multi_queue[e]) /\ multi_queue'[e][k] = multi_queue[e][k]
              \/ e = depth[i] /\ multi_queue'[e][k] = i
      BY <1>1, <1>2, <2>1, PushQueued DEF SchedInv
    <3>3. QED
      BY <1>1, <1>2, <2>1, <3>1, <3>2
      DEF IInv, Structure, QueueWellPlaced, ScheduleOk, graph_vars
  <2>2. CASE ScheduleErr(i, depth[i])
    BY <1>1, <2>2, SameSched
    DEF IInv, Structure, QueueWellPlaced, ScheduleErr, sched_vars, graph_vars
  <2>3. QED
    BY <2>1, <2>2 DEF ScheduleNode
<1>4. phase = "node"
  BY DEF ScheduleNode
<1>5. TypeOK'
  BY <1>1, <1>3 DEF TypeOK, SchedInv, graph_vars, node_vars, queue_vars, hist_vars
<1>6. Structure'
  BY <1>1, <1>3, <1>4, <1>5 DEF IInv, Structure, EdgesDescend, LevelsEnabled,
     StampsArePast, QueueEmptyAfterLoop, graph_vars, node_vars
<1>7. CycleInv'
  BY <1>1, <1>3, <1>4 DEF IInv, CycleInv, CurrentAtCursor, BufferOfChildren,
     RanAboveCursor, StampedBelowWaits, NoLostTrigger, NoZombie, SweepPoisonsChildren,
     InCycle, Triggered, Children, graph_vars, node_vars, queue_vars, hist_vars
<1>8. QED
  BY <1>6, <1>7 DEF IInv

\* A new epoch is larger than every stamp, so no node counts as scheduled.
LEMMA BeginCycleStep ==
  ASSUME IInv, BeginCycle
  PROVE  IInv'
<1>1. /\ UNCHANGED <<sched_vars, graph_vars, sched_epoch, poisoned, node_vars,
                     queue_vars, edge_buffer>>
      /\ phase' = "notify" /\ ran' = {} /\ swept' = {} /\ current' = NoNode
      /\ TypeOK /\ SchedInv
  BY DEF BeginCycle, IInv, Structure
<1>2. epoch' = epoch + 1 /\ epoch' <= MaxEpoch /\ epoch \in Nat
  BY <1>1, ExecutorAssumption DEF BeginCycle, WrappingIncrement, TypeOK
<1>3. SchedInv' /\ \A n : Queued(n)' <=> Queued(n)
  BY <1>1, SameSched
<1>4. \A n \in Index : sched_epoch'[n] # epoch' /\ mut_epoch'[n] # epoch'
  BY <1>1, <1>2 DEF IInv, Structure, StampsArePast, TypeOK, node_vars
<1>5. TypeOK'
  BY <1>1, <1>2, <1>3 DEF TypeOK, SchedInv, graph_vars, node_vars, queue_vars,
     Phases, PollPhases
<1>6. Structure'
  BY <1>1, <1>2, <1>3, <1>5 DEF IInv, Structure, EdgesDescend, LevelsEnabled,
     StampsArePast, QueueWellPlaced, QueueEmptyAfterLoop, TypeOK, graph_vars,
     node_vars, sched_vars
<1>7. CycleInv'
  BY <1>1, <1>3, <1>4, <1>5 DEF IInv, CycleInv, CurrentAtCursor, BufferOfChildren,
     RanAboveCursor, StampedBelowWaits, NoLostTrigger, NoZombie, SweepPoisonsChildren,
     TypeOK, graph_vars, node_vars, queue_vars
<1>8. QED
  BY <1>6, <1>7 DEF IInv

\* What every step that wakes a node up has in common.
LEMMA WakeInv ==
  ASSUME IInv, NEW i \in Index, Wake(i),
         UNCHANGED <<graph_vars, node_vars, epoch, ran, removal_queue>>,
         phase' \in {phase, "panicked"}, InCycle
  PROVE  /\ SchedInv' /\ QueueWellPlaced' /\ LevelsEnabled' /\ StampsArePast'
         /\ EdgesDescend' /\ QueueEmptyAfterLoop'
         /\ curr_depth' = curr_depth
         /\ sched_epoch' \in [Index -> Nat]
         /\ \A n : Queued(n) => Queued(n)'
         /\ i \in graph /\ depth[i] > curr_depth => Queued(i)'
         /\ RanAboveCursor' /\ StampedBelowWaits'
<1>1. TypeOK /\ SchedInv /\ QueueWellPlaced /\ LevelsEnabled /\ StampsArePast
  BY DEF IInv, Structure
<1>2. UNCHANGED <<graph, depth, edges, epoch, mut_epoch>>
  BY DEF graph_vars, node_vars
<1>3. /\ SchedInv' /\ QueueWellPlaced' /\ LevelsEnabled'
      /\ curr_depth' = curr_depth
      /\ sched_epoch' \in [Index -> Nat]
      /\ \A n \in Index \ {i} : sched_epoch'[n] = sched_epoch[n]
      /\ sched_epoch'[i] \in {sched_epoch[i], epoch}
      /\ \A n : Queued(n) => Queued(n)'
      /\ i \in graph /\ depth[i] >= curr_depth =>
           sched_epoch[i] = epoch \/ Queued(i)'
  BY <1>1, <1>2, WakeStep
<1>4. StampsArePast'
  BY <1>1, <1>2, <1>3 DEF StampsArePast, TypeOK
<1>5. EdgesDescend' /\ QueueEmptyAfterLoop'
  BY <1>2 DEF IInv, Structure, EdgesDescend, QueueEmptyAfterLoop, InCycle,
     PollPhases, LoopPhases
<1>6. curr_depth \in Nat /\ \A n \in graph : depth[n] \in Nat /\ n \in Index
  BY <1>1, MaxDepthAssumption DEF TypeOK, SchedInv, SchedTypeOK, Depths
<1>7. i \in graph /\ depth[i] > curr_depth => Queued(i)'
  BY <1>3, <1>6 DEF IInv, CycleInv, StampedBelowWaits
<1>8. RanAboveCursor'
  BY <1>2, <1>3 DEF IInv, CycleInv, RanAboveCursor, InCycle, PollPhases, LoopPhases
<1>9. StampedBelowWaits'
  <2> SUFFICES ASSUME NEW n \in graph, sched_epoch'[n] = epoch, depth[n] > curr_depth
               PROVE  Queued(n)'
    BY <1>2, <1>3 DEF StampedBelowWaits
  <2>1. CASE n = i
    BY <1>7, <2>1
  <2>2. CASE n # i
    BY <1>3, <1>6, <2>2 DEF IInv, CycleInv, StampedBelowWaits
  <2>3. QED
    BY <2>1, <2>2
<1>10. QED
  BY <1>3, <1>4, <1>5, <1>7, <1>8, <1>9

LEMMA PollStep ==
  ASSUME IInv, NEW i \in Index,
         PollNotification(i) \/ PollIo(i) \/ PollTimer(i) \/ PollYield(i)
  PROVE  IInv'
<1>1. /\ Wake(i)
      /\ UNCHANGED <<graph_vars, poisoned, node_vars, removal_queue,
                     deferred_spawns, epoch, current, edge_buffer, hist_vars>>
      /\ yields' \subseteq yields
      /\ phase \in PollPhases /\ phase' \in {phase, "panicked"}
      /\ TypeOK
  BY DEF PollNotification, PollIo, PollExternal, PollTimer, PollYield, PollPhases,
     queue_vars, IInv, Structure
<1>2. InCycle /\ UNCHANGED ran
  BY <1>1 DEF InCycle, hist_vars
<1>3. /\ SchedInv' /\ QueueWellPlaced' /\ LevelsEnabled' /\ StampsArePast'
      /\ EdgesDescend' /\ QueueEmptyAfterLoop'
      /\ sched_epoch' \in [Index -> Nat]
      /\ \A n : Queued(n) => Queued(n)'
      /\ RanAboveCursor' /\ StampedBelowWaits'
  BY <1>1, <1>2, WakeInv
<1>4. TypeOK'
  BY <1>1, <1>3 DEF TypeOK, SchedInv, graph_vars, node_vars, hist_vars, Phases
<1>5. Structure'
  BY <1>3, <1>4 DEF Structure
<1>6. phase' \notin {"node", "broadcast", "cascade"} /\ (InCycle' => phase' = phase)
  BY <1>1 DEF PollPhases, InCycle, LoopPhases
<1>7. NoLostTrigger'
  BY <1>1, <1>2, <1>3, <1>6 DEF IInv, CycleInv, NoLostTrigger, graph_vars, node_vars
<1>8. CycleInv'
  BY <1>1, <1>2, <1>3, <1>6, <1>7 DEF IInv, CycleInv, CurrentAtCursor,
     BufferOfChildren, NoZombie, SweepPoisonsChildren, graph_vars, node_vars, hist_vars
<1>9. QED
  BY <1>5, <1>8 DEF IInv

\* A broadcast wakes each trigger child, and every child is below the cursor.
LEMMA BroadcastToStep ==
  ASSUME IInv, NEW c \in Index, BroadcastTo(c)
  PROVE  IInv'
<1>1. /\ Wake(c) /\ c \in edge_buffer /\ edge_buffer' = edge_buffer \ {c}
      /\ UNCHANGED <<graph_vars, poisoned, node_vars, queue_vars, epoch, phase,
                     current, hist_vars>>
      /\ phase = "broadcast"
      /\ TypeOK
  BY DEF BroadcastTo, IInv, Structure
<1>2. InCycle /\ UNCHANGED <<ran, removal_queue>>
  BY <1>1 DEF InCycle, LoopPhases, hist_vars, queue_vars
<1>3. /\ SchedInv' /\ QueueWellPlaced' /\ LevelsEnabled' /\ StampsArePast'
      /\ EdgesDescend' /\ QueueEmptyAfterLoop'
      /\ curr_depth' = curr_depth
      /\ sched_epoch' \in [Index -> Nat]
      /\ \A n : Queued(n) => Queued(n)'
      /\ c \in graph /\ depth[c] > curr_depth => Queued(c)'
      /\ RanAboveCursor' /\ StampedBelowWaits'
  BY <1>1, <1>2, WakeInv
<1>4. TypeOK'
  BY <1>1, <1>3 DEF TypeOK, SchedInv, graph_vars, node_vars, queue_vars, hist_vars
<1>5. Structure'
  BY <1>3, <1>4 DEF Structure
<1>6. Queued(c)'
  <2>1. <<current, c, "Trigger">> \in edges /\ depth[current] = curr_depth
    BY <1>1 DEF IInv, CycleInv, BufferOfChildren, CurrentAtCursor, Triggered
  <2>2. c \in graph /\ depth[current] < depth[c]
    BY <1>1, <2>1 DEF IInv, Structure, EdgesDescend, TypeOK
  <2>3. depth[c] \in Nat /\ curr_depth \in Nat
    BY <1>1, MaxDepthAssumption DEF TypeOK, SchedTypeOK, Depths
  <2>4. QED
    BY <1>3, <2>1, <2>2, <2>3
<1>7. NoLostTrigger'
  BY <1>1, <1>2, <1>3, <1>6 DEF IInv, CycleInv, NoLostTrigger, graph_vars, node_vars
<1>8. CycleInv'
  BY <1>1, <1>2, <1>3, <1>7 DEF IInv, CycleInv, CurrentAtCursor,
     BufferOfChildren, NoZombie, SweepPoisonsChildren, Triggered, graph_vars,
     node_vars, queue_vars, hist_vars
<1>9. QED
  BY <1>5, <1>8 DEF IInv

\* The cascade poisons a child, and the wake-up makes it sweep itself.
LEMMA CascadeToStep ==
  ASSUME IInv, NEW c \in Index, CascadeTo(c)
  PROVE  IInv'
<1>1. /\ Wake(c) /\ c \in edge_buffer /\ edge_buffer' = edge_buffer \ {c}
      /\ poisoned' = [poisoned EXCEPT ![c] = TRUE]
      /\ UNCHANGED <<graph_vars, node_vars, queue_vars, epoch, phase, current,
                     hist_vars>>
      /\ phase = "cascade"
      /\ TypeOK
  BY DEF CascadeTo, IInv, Structure
<1>2. InCycle /\ UNCHANGED <<ran, removal_queue>>
  BY <1>1 DEF InCycle, LoopPhases, hist_vars, queue_vars
<1>3. /\ SchedInv' /\ QueueWellPlaced' /\ LevelsEnabled' /\ StampsArePast'
      /\ EdgesDescend' /\ QueueEmptyAfterLoop'
      /\ curr_depth' = curr_depth
      /\ sched_epoch' \in [Index -> Nat]
      /\ \A n : Queued(n) => Queued(n)'
      /\ c \in graph /\ depth[c] > curr_depth => Queued(c)'
      /\ RanAboveCursor' /\ StampedBelowWaits'
  BY <1>1, <1>2, WakeInv
<1>4. /\ poisoned' \in [Index -> BOOLEAN]
      /\ poisoned'[c] = TRUE
      /\ \A n \in Index \ {c} : poisoned'[n] = poisoned[n]
  BY <1>1 DEF TypeOK
<1>5. TypeOK'
  BY <1>1, <1>3, <1>4 DEF TypeOK, SchedInv, graph_vars, node_vars, queue_vars, hist_vars
<1>6. Structure'
  BY <1>3, <1>5 DEF Structure
<1>7. Queued(c)'
  <2>1. PICK r \in Relationship : <<current, c, r>> \in edges
    BY <1>1 DEF IInv, CycleInv, BufferOfChildren, Children
  <2>2. c \in graph /\ depth[current] < depth[c] /\ depth[current] = curr_depth
    BY <1>1, <2>1 DEF IInv, Structure, CycleInv, EdgesDescend, CurrentAtCursor, TypeOK
  <2>3. depth[c] \in Nat /\ curr_depth \in Nat
    BY <1>1, MaxDepthAssumption DEF TypeOK, SchedTypeOK, Depths
  <2>4. QED
    BY <1>3, <2>2, <2>3
<1>8. NoLostTrigger'
  BY <1>1, <1>2, <1>3 DEF IInv, CycleInv, NoLostTrigger, graph_vars, node_vars
<1>9. NoZombie'
  BY <1>1, <1>2, <1>3, <1>4, <1>7 DEF IInv, CycleInv, NoZombie, TypeOK, graph_vars,
     node_vars
<1>10. SweepPoisonsChildren'
  BY <1>1, <1>2, <1>4 DEF IInv, CycleInv, SweepPoisonsChildren, TypeOK, graph_vars,
     hist_vars
<1>11. CycleInv'
  BY <1>1, <1>2, <1>3, <1>8, <1>9, <1>10 DEF IInv, CycleInv, CurrentAtCursor,
     BufferOfChildren, Children, graph_vars
<1>12. QED
  BY <1>6, <1>11 DEF IInv

\* What the two steps that pop a node have in common: the cursor moves down
\* to the popped node, and everything below it goes on waiting.
LEMMA PopInv ==
  ASSUME IInv, NEW i \in Index, PopSome(i), phase = "exec",
         UNCHANGED <<graph_vars, sched_epoch, node_vars, epoch>>,
         phase' \in {"node", "cascade"}, current' = i, ran' = ran \cup {i}
  PROVE  /\ SchedInv' /\ QueueWellPlaced' /\ LevelsEnabled' /\ StampsArePast'
         /\ EdgesDescend' /\ QueueEmptyAfterLoop'
         /\ CurrentAtCursor' /\ RanAboveCursor' /\ StampedBelowWaits'
         /\ NoLostTrigger'
         /\ i \in graph
         /\ \A n : Queued(n) /\ n # i => Queued(n)'
<1>1. TypeOK /\ SchedInv /\ QueueWellPlaced
  BY DEF IInv, Structure
<1>2. UNCHANGED <<graph, depth, edges, epoch, sched_epoch, mut_epoch, levels>>
  BY DEF graph_vars, node_vars, PopSome
<1>3. /\ i \in graph /\ depth[i] = curr_depth'
      /\ curr_depth' >= curr_depth /\ curr_depth' \in Depths
      /\ \A n : Queued(n) /\ n # i => Queued(n)'
      /\ \A e \in Depths : \A k \in 1 .. Len(multi_queue'[e]) :
           \E m \in 1 .. Len(multi_queue[e]) : multi_queue'[e][k] = multi_queue[e][m]
  BY <1>1, PopQueued DEF SchedInv
<1>4. SchedInv'
  BY <1>1, PopSomeSched
<1>5. QueueWellPlaced'
  <2> SUFFICES ASSUME NEW d \in Depths, NEW k \in 1 .. Len(multi_queue'[d])
               PROVE  /\ multi_queue'[d][k] \in graph
                      /\ depth[multi_queue'[d][k]] = d
                      /\ d < levels
    BY <1>2 DEF QueueWellPlaced
  <2>1. PICK m \in 1 .. Len(multi_queue[d]) : multi_queue'[d][k] = multi_queue[d][m]
    BY <1>3
  <2>2. QED
    BY <1>1, <2>1 DEF QueueWellPlaced
<1>6. /\ curr_depth \in Nat /\ curr_depth' \in Nat
      /\ \A n \in graph : depth[n] \in Nat /\ n \in Index
  BY <1>1, <1>3, MaxDepthAssumption DEF TypeOK, SchedInv, SchedTypeOK, Depths
<1>7. LevelsEnabled' /\ StampsArePast' /\ EdgesDescend' /\ QueueEmptyAfterLoop'
  BY <1>2 DEF IInv, Structure, LevelsEnabled, StampsArePast, EdgesDescend,
     QueueEmptyAfterLoop
<1>8. InCycle
  BY DEF InCycle, LoopPhases
<1>9. CurrentAtCursor'
  BY <1>2, <1>3 DEF CurrentAtCursor
<1>10. RanAboveCursor'
  BY <1>2, <1>3, <1>6, <1>8 DEF IInv, CycleInv, RanAboveCursor
<1>11. StampedBelowWaits'
  <2> SUFFICES ASSUME NEW n \in graph, sched_epoch[n] = epoch, depth[n] > curr_depth'
               PROVE  Queued(n)'
    BY <1>2 DEF StampedBelowWaits
  <2>1. depth[n] > curr_depth /\ n # i
    BY <1>3, <1>6
  <2>2. Queued(n)
    BY <1>8, <2>1 DEF IInv, CycleInv, StampedBelowWaits
  <2>3. QED
    BY <1>3, <2>1, <2>2
<1>12. NoLostTrigger'
  BY <1>2, <1>3, <1>8 DEF IInv, CycleInv, NoLostTrigger
<1>13. QED
  BY <1>3, <1>4, <1>5, <1>7, <1>9, <1>10, <1>11, <1>12

LEMMA EnterNodeStep ==
  ASSUME IInv, NEW i \in Index, EnterNode(i)
  PROVE  IInv'
<1>1. /\ PopSome(i) /\ phase = "exec" /\ phase' = "node" /\ current' = i
      /\ ran' = ran \cup {i} /\ Runnable(i)
      /\ UNCHANGED <<graph_vars, sched_epoch, poisoned, node_vars, queue_vars,
                     epoch, edge_buffer, swept>>
      /\ TypeOK
  BY DEF EnterNode, IInv, Structure
<1>2. /\ SchedInv' /\ QueueWellPlaced' /\ LevelsEnabled' /\ StampsArePast'
      /\ EdgesDescend' /\ QueueEmptyAfterLoop'
      /\ CurrentAtCursor' /\ RanAboveCursor' /\ StampedBelowWaits'
      /\ NoLostTrigger'
      /\ \A n : Queued(n) /\ n # i => Queued(n)'
  BY <1>1, PopInv
<1>3. TypeOK'
  BY <1>1, <1>2 DEF TypeOK, SchedInv, graph_vars, node_vars, queue_vars, Phases,
     LoopPhases
<1>4. Structure'
  BY <1>2, <1>3 DEF Structure
<1>5. NoZombie'
  BY <1>1, <1>2 DEF IInv, CycleInv, NoZombie, Runnable, graph_vars, node_vars,
     queue_vars
<1>6. SweepPoisonsChildren'
  BY <1>1 DEF IInv, CycleInv, SweepPoisonsChildren, InCycle, LoopPhases, graph_vars
<1>7. CycleInv'
  BY <1>1, <1>2, <1>5, <1>6 DEF CycleInv, BufferOfChildren
<1>8. QED
  BY <1>4, <1>7 DEF IInv

LEMMA SweepDeadNodeStep ==
  ASSUME IInv, NEW i \in Index, SweepDeadNode(i)
  PROVE  IInv'
<1>1. /\ PopSome(i) /\ phase = "exec" /\ phase' = "cascade" /\ current' = i
      /\ ran' = ran \cup {i} /\ swept' = swept \cup {i}
      /\ removal_queue' = removal_queue \cup {i} /\ edge_buffer' = Children(i)
      /\ UNCHANGED <<graph_vars, sched_epoch, poisoned, node_vars, yields,
                     deferred_spawns, epoch>>
      /\ TypeOK
  BY DEF SweepDeadNode, Cascade, IInv, Structure
<1>2. /\ SchedInv' /\ QueueWellPlaced' /\ LevelsEnabled' /\ StampsArePast'
      /\ EdgesDescend' /\ QueueEmptyAfterLoop'
      /\ CurrentAtCursor' /\ RanAboveCursor' /\ StampedBelowWaits'
      /\ NoLostTrigger'
      /\ \A n : Queued(n) /\ n # i => Queued(n)'
  BY <1>1, PopInv
<1>3. TypeOK'
  BY <1>1, <1>2 DEF TypeOK, SchedInv, Children, graph_vars, node_vars, Phases,
     LoopPhases
<1>4. Structure'
  BY <1>2, <1>3 DEF Structure
<1>5. NoZombie'
  BY <1>1, <1>2 DEF IInv, CycleInv, NoZombie, graph_vars, node_vars
<1>6. SweepPoisonsChildren' /\ BufferOfChildren'
  BY <1>1 DEF IInv, CycleInv, Structure, TypeOK, SweepPoisonsChildren,
     BufferOfChildren, Children, InCycle, LoopPhases, graph_vars
<1>7. CycleInv'
  BY <1>2, <1>5, <1>6 DEF CycleInv
<1>8. QED
  BY <1>4, <1>7 DEF IInv

LEMMA ReturnBroadcastStep ==
  ASSUME IInv, ReturnBroadcast
  PROVE  IInv'
<1>1. /\ phase = "node" /\ phase' = "broadcast"
      /\ mut_epoch' = [mut_epoch EXCEPT ![current] = epoch]
      /\ edge_buffer' = Triggered(current)
      /\ UNCHANGED <<sched_vars, graph_vars, sched_epoch, poisoned, rc, stale,
                     queue_vars, epoch, current, hist_vars>>
      /\ TypeOK /\ SchedInv
  BY DEF ReturnBroadcast, IInv, Structure
<1>2. SchedInv' /\ \A n : Queued(n)' <=> Queued(n)
  BY <1>1, SameSched
<1>3. current \in graph /\ InCycle /\ InCycle'
  BY <1>1 DEF IInv, CycleInv, CurrentAtCursor, InCycle, LoopPhases
<1>4. /\ mut_epoch' \in [Index -> Nat]
      /\ mut_epoch'[current] = epoch
      /\ \A n \in Index \ {current} : mut_epoch'[n] = mut_epoch[n]
  BY <1>1, <1>3 DEF TypeOK
<1>5. TypeOK'
  BY <1>1, <1>2, <1>4 DEF TypeOK, SchedInv, Triggered, graph_vars, queue_vars,
     hist_vars, Phases, LoopPhases
<1>6. StampsArePast'
  BY <1>1, <1>4 DEF IInv, Structure, StampsArePast, TypeOK
<1>7. Structure'
  BY <1>1, <1>2, <1>5, <1>6 DEF IInv, Structure, EdgesDescend, LevelsEnabled,
     QueueWellPlaced, QueueEmptyAfterLoop, sched_vars, graph_vars
<1>8. NoLostTrigger'
  <2> SUFFICES ASSUME NEW e \in edges, e[3] = "Trigger", mut_epoch'[e[1]] = epoch
               PROVE  \/ e[2] \in ran \/ Queued(e[2])
                      \/ current = e[1] /\ e[2] \in edge_buffer'
    BY <1>1, <1>2 DEF NoLostTrigger, graph_vars, hist_vars
  <2>1. e = <<e[1], e[2], e[3]>> /\ e[1] \in Index /\ e[2] \in Index
    BY <1>1 DEF TypeOK
  <2>2. CASE e[1] = current
    <3>1. <<current, e[2], "Trigger">> \in edges
      BY <2>1, <2>2
    <3>2. QED
      BY <1>1, <2>1, <2>2, <3>1 DEF Triggered
  <2>3. CASE e[1] # current
    BY <1>1, <1>3, <1>4, <2>1, <2>3 DEF IInv, CycleInv, NoLostTrigger
  <2>4. QED
    BY <2>2, <2>3
<1>9. CycleInv'
  BY <1>1, <1>2, <1>3, <1>8 DEF IInv, CycleInv, CurrentAtCursor, BufferOfChildren,
     RanAboveCursor, StampedBelowWaits, NoZombie, SweepPoisonsChildren, Triggered,
     sched_vars, graph_vars, queue_vars, hist_vars
<1>10. QED
  BY <1>7, <1>9 DEF IInv

LEMMA ReturnSweepStep ==
  ASSUME IInv, ReturnSweep
  PROVE  IInv'
<1>1. /\ phase = "node" /\ phase' = "cascade" /\ swept' = swept \cup {current}
      /\ removal_queue' = removal_queue \cup {current}
      /\ edge_buffer' = Children(current)
      /\ UNCHANGED <<sched_vars, graph_vars, sched_epoch, poisoned, node_vars,
                     yields, deferred_spawns, epoch, current, ran>>
      /\ TypeOK /\ SchedInv
  BY DEF ReturnSweep, Cascade, IInv, Structure
<1>2. SchedInv' /\ \A n : Queued(n)' <=> Queued(n)
  BY <1>1, SameSched
<1>3. current \in graph /\ InCycle /\ InCycle'
  BY <1>1 DEF IInv, CycleInv, CurrentAtCursor, InCycle, LoopPhases
<1>4. TypeOK'
  BY <1>1, <1>2, <1>3 DEF TypeOK, SchedInv, Children, graph_vars, node_vars,
     Phases, LoopPhases
<1>5. Structure'
  BY <1>1, <1>2, <1>4 DEF IInv, Structure, EdgesDescend, LevelsEnabled, StampsArePast,
     QueueWellPlaced, QueueEmptyAfterLoop, sched_vars, graph_vars, node_vars
<1>6. SweepPoisonsChildren'
  <2> SUFFICES ASSUME NEW e \in edges, e[1] \in swept'
               PROVE  \/ poisoned[e[2]]
                      \/ current = e[1] /\ e[2] \in Children(current)
    BY <1>1 DEF SweepPoisonsChildren, graph_vars
  <2>1. /\ e = <<e[1], e[2], e[3]>>
        /\ e[2] \in Index /\ e[3] \in Relationship
    BY <1>1 DEF TypeOK
  <2>2. CASE e[1] = current
    <3>1. <<current, e[2], e[3]>> \in edges
      BY <2>1, <2>2
    <3>2. QED
      BY <2>1, <2>2, <3>1 DEF Children
  <2>3. CASE e[1] # current
    BY <1>1, <1>3, <2>3 DEF IInv, CycleInv, SweepPoisonsChildren
  <2>4. QED
    BY <2>2, <2>3
<1>7. CycleInv'
  BY <1>1, <1>2, <1>3, <1>6 DEF IInv, CycleInv, CurrentAtCursor, BufferOfChildren,
     RanAboveCursor, StampedBelowWaits, NoLostTrigger, NoZombie, Children,
     sched_vars, graph_vars, node_vars
<1>8. QED
  BY <1>5, <1>7 DEF IInv

LEMMA EndLoopStep ==
  ASSUME IInv, EndLoop
  PROVE  IInv'
<1>1. /\ phase = "exec" /\ PopNone /\ phase' = "sweep" /\ current' = NoNode
      /\ ran' = {}
      /\ UNCHANGED <<graph_vars, sched_epoch, poisoned, node_vars, queue_vars,
                     epoch, edge_buffer, swept>>
      /\ TypeOK /\ SchedInv
  BY DEF EndLoop, IInv, Structure
<1>2. SchedInv'
  BY <1>1, PopNoneSched
<1>3. \A d \in Depths : multi_queue[d] = <<>>
  BY <1>1, Exhausted DEF PopNone
<1>4. multi_queue' = multi_queue /\ levels' = levels
  BY <1>1 DEF PopNone
<1>5. \A n : Queued(n)' <=> Queued(n)
  BY <1>4, SameQueue
<1>6. TypeOK'
  BY <1>1, <1>2 DEF TypeOK, SchedInv, graph_vars, node_vars, queue_vars, Phases
<1>7. Structure'
  BY <1>1, <1>2, <1>3, <1>4, <1>6 DEF IInv, Structure, EdgesDescend, LevelsEnabled,
     StampsArePast, QueueWellPlaced, QueueEmptyAfterLoop, graph_vars, node_vars
<1>8. CycleInv'
  BY <1>1, <1>5 DEF IInv, CycleInv, CurrentAtCursor, BufferOfChildren, RanAboveCursor,
     StampedBelowWaits, NoLostTrigger, NoZombie, SweepPoisonsChildren, InCycle,
     PollPhases, LoopPhases, graph_vars, node_vars, queue_vars
<1>9. QED
  BY <1>7, <1>8 DEF IInv

\* Removing a node cannot leave its index behind in the queue: it is empty.
LEMMA SweepNextStep ==
  ASSUME IInv, NEW i \in Index, NEW D \in SUBSET Index,
         NEW S \in SUBSET Index, SweepNext(i, D, S)
  PROVE  IInv'
<1>1. /\ phase = "sweep" /\ phase' = "sweep"
      /\ UNCHANGED <<sched_vars, yields, deferred_spawns, epoch, current,
                     edge_buffer, ran>>
      /\ swept' \subseteq swept
      /\ graph' = graph \ {i} /\ edges' \subseteq edges
      /\ \A e \in edges' : e[1] # i /\ e[2] # i
      /\ depth' = [depth EXCEPT ![i] = 0]
      /\ sched_epoch' = [sched_epoch EXCEPT ![i] = 0]
      /\ mut_epoch' = [mut_epoch EXCEPT ![i] = 0]
      /\ poisoned' = [poisoned EXCEPT ![i] = FALSE]
      /\ TypeOK /\ SchedInv
  BY DEF SweepNext, EdgesWithout, IInv, Structure
<1>2. SchedInv' /\ \A n : Queued(n)' <=> Queued(n)
  BY <1>1, SameSched
<1>3. /\ rc' \in [Index -> {"held", "closure", "none"}]
      /\ \A n \in Index : rc'[n] = rc[n] \/ n = i \/ n \in D
      /\ removal_queue' \subseteq Index /\ stale' \subseteq Index
      /\ \A n \in Index \ {i} : n \in removal_queue \/ n \in D => n \in removal_queue'
  BY <1>1 DEF SweepNext, TypeOK
<1>4. 0 \in Depths
  BY MaxDepthAssumption DEF Depths
<1>5. TypeOK'
  BY <1>1, <1>2, <1>3, <1>4 DEF TypeOK, SchedInv
<1>6. \A n \in graph' : n # i /\ n \in graph /\ n \in Index /\ depth'[n] = depth[n]
        /\ poisoned'[n] = poisoned[n]
  BY <1>1 DEF TypeOK
<1>7. EdgesDescend'
  BY <1>1, <1>6 DEF IInv, Structure, EdgesDescend, TypeOK
<1>8. LevelsEnabled'
  BY <1>1, <1>6 DEF IInv, Structure, LevelsEnabled, sched_vars
<1>9. StampsArePast'
  BY <1>1 DEF IInv, Structure, StampsArePast, TypeOK
<1>10. QueueWellPlaced' /\ QueueEmptyAfterLoop'
  BY <1>1, EmptySeq DEF IInv, Structure, QueueWellPlaced, QueueEmptyAfterLoop,
     sched_vars
<1>11. Structure'
  BY <1>2, <1>5, <1>7, <1>8, <1>9, <1>10 DEF Structure
<1>12. NoZombie'
  BY <1>1, <1>2, <1>3, <1>6 DEF IInv, CycleInv, NoZombie
<1>13. CycleInv'
  BY <1>1, <1>12 DEF CycleInv, CurrentAtCursor, BufferOfChildren, RanAboveCursor,
     StampedBelowWaits, NoLostTrigger, SweepPoisonsChildren, InCycle, PollPhases,
     LoopPhases
<1>14. QED
  BY <1>11, <1>13 DEF IInv

-----------------------------------------------------------------------------
LEMMA StepInv == IInv /\ [Next]_vars => IInv'
<1> SUFFICES ASSUME IInv, [Next]_vars PROVE IInv'
  OBVIOUS
<1>1. CASE Client
  <2>1. ASSUME NEW i \in Index, NEW asks \in SUBSET (graph \X Relationship),
               NewNode(i, asks)
        PROVE  IInv'
    BY <2>1, AsksName, BuildStep DEF NewNode
  <2>2. ASSUME NEW i \in Index,
               \/ DropHandle(i) \/ DropStaleHandle(i) \/ MarkForSweep(i)
               \/ YieldNow(i)
        PROVE  IInv'
    BY <2>2, RequestStep
  <2>3. ASSUME NEW i \in Index, ScheduleNode(i) PROVE IInv'
    BY <2>3, ScheduleNodeStep
  <2>4. CASE SpawnSubgraph
    <3>1. current \in Index
      BY <2>4 DEF SpawnSubgraph, IInv, Structure, CycleInv, CurrentAtCursor, TypeOK
    <3>2. QED
      BY <2>4, <3>1, RequestStep
  <2>5. QED
    BY <1>1, <2>1, <2>2, <2>3, <2>4 DEF Client
<1>2. CASE BeginCycle
  BY <1>2, BeginCycleStep
<1>3. CASE Poll
  BY <1>3, PollStep DEF Poll
<1>4. CASE PollError
  BY <1>4, PhaseStep
<1>5. CASE Advance
  <2>1. ASSUME NEW i \in Index, PollYield(i) PROVE IInv'
    BY <2>1, PollStep
  <2>2. ASSUME NEW i \in Index, EnterNode(i) PROVE IInv'
    BY <2>2, EnterNodeStep
  <2>3. ASSUME NEW i \in Index, SweepDeadNode(i) PROVE IInv'
    BY <2>3, SweepDeadNodeStep
  <2>4. ASSUME NEW c \in Index, BroadcastTo(c) PROVE IInv'
    BY <2>4, BroadcastToStep
  <2>5. ASSUME NEW c \in Index, CascadeTo(c) PROVE IInv'
    BY <2>5, CascadeToStep
  <2>6. ASSUME NEW i \in Index, NEW D \in SUBSET Index, NEW S \in SUBSET Index,
               SweepNext(i, D, S)
        PROVE  IInv'
    BY <2>6, SweepNextStep
  <2>7. CASE ReturnBroadcast
    BY <2>7, ReturnBroadcastStep
  <2>8. CASE ReturnSweep
    BY <2>8, ReturnSweepStep
  <2>9. CASE EndLoop
    BY <2>9, EndLoopStep
  <2>10. CASE \/ NextStage \/ ReturnUnchanged \/ ReturnTerminate \/ EndOfChildren
              \/ EndSweep \/ RunSpawn \/ EndSpawn \/ EndCycle
    BY <2>10, PhaseStep
  <2>11. QED
    BY <1>5, <2>1, <2>2, <2>3, <2>4, <2>5, <2>6, <2>7, <2>8, <2>9, <2>10 DEF Advance
<1>6. CASE UNCHANGED vars
  <2>1. UNCHANGED <<sched_vars, graph_vars, sched_epoch, poisoned, node_vars,
                    queue_vars, epoch, phase, current, edge_buffer, hist_vars>>
    BY <1>6 DEF vars
  <2>2. SchedInv' /\ \A n : Queued(n)' <=> Queued(n)
    BY <2>1, SameSched DEF IInv, Structure
  <2>3. Structure'
    BY <2>1, <2>2 DEF IInv, Structure, TypeOK, SchedInv, EdgesDescend, LevelsEnabled,
       StampsArePast, QueueWellPlaced, QueueEmptyAfterLoop, sched_vars, graph_vars,
       node_vars, queue_vars, hist_vars
  <2>4. CycleInv'
    BY <2>1, <2>2 DEF IInv, CycleInv, CurrentAtCursor, BufferOfChildren, RanAboveCursor,
       StampedBelowWaits, NoLostTrigger, NoZombie, SweepPoisonsChildren, InCycle,
       Triggered, Children, sched_vars, graph_vars, node_vars, queue_vars, hist_vars
  <2>5. QED
    BY <2>3, <2>4 DEF IInv
<1>7. QED
  BY <1>1, <1>2, <1>3, <1>4, <1>5, <1>6 DEF Next

\* What has run lies at or above the cursor, so its parents lie above it, and
\* nothing that runs or waits does.
LEMMA ParentsFirstInv == IInv => DependencyOrder
<1> SUFFICES ASSUME IInv, InCycle, NEW e \in edges, e[2] \in ran
             PROVE  ~ Queued(e[1]) /\ (phase = "node" => current # e[1])
  BY DEF DependencyOrder
<1>1. TypeOK /\ SchedInv /\ QueueWellPlaced
  BY DEF IInv, Structure
<1>2. /\ e[1] \in graph /\ e[2] \in graph
      /\ depth[e[1]] < depth[e[2]] /\ depth[e[2]] <= curr_depth
  BY <1>1 DEF IInv, Structure, CycleInv, EdgesDescend, RanAboveCursor, TypeOK
<1>3. depth[e[1]] \in Nat /\ depth[e[2]] \in Nat /\ curr_depth \in Nat
  BY <1>1, <1>2, MaxDepthAssumption DEF TypeOK, SchedInv, SchedTypeOK, Depths
<1>4. ~ Queued(e[1])
  BY <1>1, <1>2, <1>3, QueuedPlace
<1>5. phase = "node" => current # e[1]
  BY <1>2, <1>3 DEF IInv, CycleInv, CurrentAtCursor
<1>6. QED
  BY <1>4, <1>5

\* A graph that the builders made, with every edge from a node to a deeper
\* one, satisfies the invariant before its first cycle.
LEMMA BuiltGraphInv ==
  ASSUME NEW N \in SUBSET Index, NEW D \in [Index -> 0 .. 2],
         NEW E \in SUBSET (N \X N \X Relationship),
         \A e \in E : D[e[1]] < D[e[2]],
         MaxDepth >= 2, BuiltGraph(N, D, E), yields \subseteq Index
  PROVE  IInv
<1>1. /\ multi_queue = [d \in Depths |-> <<>>]
      /\ levels = 3 /\ curr_depth = 0 /\ pending_events = 0
      /\ graph = N /\ edges = E /\ depth = D
      /\ epoch = 0 /\ phase = "idle" /\ current = NoNode /\ edge_buffer = {}
      /\ ran = {} /\ swept = {}
  BY DEF BuiltGraph
<1>2. MaxDepth \in Nat
  BY MaxDepthAssumption
<1>3. SchedTypeOK
  BY <1>1, <1>2, EmptySeq DEF SchedTypeOK, Depths
<1>4. Slots = {}
  BY <1>1, <1>3, SlotsMember, EmptySeq
<1>5. PendingIsExact
  BY <1>1, <1>4, FS_EmptySet DEF PendingIsExact
<1>6. SchedInv
  BY <1>1, <1>3, <1>5 DEF SchedInv, NothingStranded
<1>7. depth \in [Index -> Depths] /\ \A i \in Index : depth[i] < 3
  BY <1>1, <1>2 DEF Depths
<1>8. TypeOK
  BY <1>1, <1>3, <1>7, ExecutorAssumption
  DEF BuiltGraph, TypeOK, Phases, PollPhases, LoopPhases
<1>9. Structure
  BY <1>1, <1>6, <1>7, <1>8, EmptySeq, ExecutorAssumption
  DEF Structure, BuiltGraph, EdgesDescend, LevelsEnabled, StampsArePast,
      QueueWellPlaced, QueueEmptyAfterLoop
<1>10. CycleInv
  BY <1>1 DEF BuiltGraph, CycleInv, CurrentAtCursor, BufferOfChildren, RanAboveCursor,
     StampedBelowWaits, NoLostTrigger, NoZombie, SweepPoisonsChildren, InCycle,
     PollPhases, LoopPhases
<1>11. QED
  BY <1>9, <1>10 DEF IInv

\* What happens in a cycle without client code, module Executor allows.
-----------------------------------------------------------------------------
(* What the modules that give the nodes something to do build on.          *)

\* What it means that a cycle function returns
LEMMA ReturnsChange ==
  ASSUME ReturnBroadcast \/ ReturnUnchanged
  PROVE  /\ phase = "node" /\ phase' \in {"broadcast", "exec"}
         /\ UNCHANGED <<sched_vars, graph_vars, sched_epoch, yields, epoch, current, ran>>
         /\ phase' = "broadcast" <=> ReturnBroadcast
         /\ ReturnBroadcast => mut_epoch' = [mut_epoch EXCEPT ![current] = epoch]
         /\ ~ ReturnBroadcast => mut_epoch' = mut_epoch
BY DEF ReturnBroadcast, ReturnUnchanged, queue_vars, hist_vars, node_vars

\* No stamp is of the new epoch.
LEMMA EpochGrows ==
  ASSUME IInv, BeginCycle
  PROVE  /\ epoch \in Nat /\ epoch' = epoch + 1
         /\ \A i \in Index : sched_epoch[i] # epoch' /\ mut_epoch[i] # epoch'
BY ExecutorAssumption DEF BeginCycle, WrappingIncrement, IInv, Structure, TypeOK, StampsArePast

\* The loop is over when nothing waits.
LEMMA LoopOver ==
  ASSUME IInv, EndLoop
  PROVE  phase = "exec" /\ ~ InCycle' /\ \A i : ~ Queued(i)
<1>1. \A d \in Depths : ~ FirstWaiting(d)
  BY DEF EndLoop, PopNone
<1>2. \A d \in Depths : multi_queue[d] = <<>>
  BY <1>1, Exhausted DEF IInv, Structure, PopNoneIsExhaustive
<1>3. QED
  BY <1>2, EmptyNotQueued DEF EndLoop, InCycle, PollPhases, LoopPhases

\* A child runs after its parents, and not in the turn of one.
LEMMA EdgeOrder ==
  ASSUME IInv, NEW p, NEW c, NEW r, <<p, c, r>> \in edges
  PROVE  /\ phase \in {"node", "broadcast"} /\ current = p => c \notin ran
         /\ InCycle /\ c \in ran => ~ Queued(p) /\ ~ (phase = "node" /\ current = p)
<1>1. p \in Index /\ c \in Index /\ depth[p] < depth[c]
  BY DEF IInv, Structure, EdgesDescend, TypeOK
<1>2. /\ depth[p] \in Nat /\ depth[c] \in Nat /\ curr_depth \in Nat
  BY <1>1, MaxDepthAssumption DEF IInv, Structure, TypeOK, SchedTypeOK, Depths
<1>3. ASSUME phase \in {"node", "broadcast"}, current = p PROVE c \notin ran
  <2>1. InCycle /\ depth[p] = curr_depth
    BY <1>3 DEF InCycle, LoopPhases, IInv, CycleInv, CurrentAtCursor
  <2>2. QED
    BY <1>1, <1>2, <2>1 DEF IInv, CycleInv, RanAboveCursor
<1>4. DependencyOrder
  BY ParentsFirstInv
<1>5. QED
  BY <1>3, <1>4 DEF DependencyOrder

\* A trigger child of a node that mutated in this cycle has run by the time
\* nothing waits any more.
LEMMA TriggerReached ==
  ASSUME IInv, phase = "exec", \A i : ~ Queued(i),
         NEW p, NEW c, <<p, c, "Trigger">> \in edges, mut_epoch[p] = epoch
  PROVE  c \in ran
<1>1. InCycle
  BY DEF InCycle, LoopPhases
<1>2. QED
  BY <1>1 DEF IInv, CycleInv, NoLostTrigger

LEMMA QuietIsNext == QuietStep => Next
BY DEF QuietStep, Next, Advance

LEMMA AlwaysIInv == Spec => []IInv
BY InitInv, StepInv, PTL DEF Spec

-----------------------------------------------------------------------------
(* The theorems.  Each holds for every graph client code may build, every  *)
(* sequence of its calls, and with manual scheduling, failing polls and    *)
(* cycles resumed after Terminate as well.                                 *)

\* Every variable keeps its type; in particular edges never dangle after a
\* node was removed.
THEOREM TypeCorrect == Spec => []TypeOK
<1>1. IInv => TypeOK
  BY DEF IInv, Structure
<1>2. QED
  BY <1>1, AlwaysIInv, PTL

\* No index in the queue is stale and every level it is in exists: neither
\* schedule() nor the lookup of a popped node can panic.
THEOREM QueueIsWellPlaced == Spec => []QueueWellPlaced
<1>1. IInv => QueueWellPlaced
  BY DEF IInv, Structure
<1>2. QED
  BY <1>1, AlwaysIInv, PTL

\* Parents are always processed before their children.
THEOREM ParentsFirst == Spec => []DependencyOrder
<1>1. IInv => DependencyOrder
  BY ParentsFirstInv
<1>2. QED
  BY <1>1, AlwaysIInv, PTL

\* A broadcast reaches every child that is to be triggered, although the
\* epoch stamp may already have been consumed by another wake-up.
THEOREM TriggersAreNotLost == Spec => []NoLostTrigger
<1>1. IInv => NoLostTrigger
  BY DEF IInv, CycleInv
<1>2. QED
  BY <1>1, AlwaysIInv, PTL

\* A node that can never run again is on its way out.
THEOREM ZombiesAreSwept == Spec => []NoZombie
<1>1. IInv => NoZombie
  BY DEF IInv, CycleInv
<1>2. QED
  BY <1>1, AlwaysIInv, PTL

\* A node that swept itself takes all of its children with it.
THEOREM SweepCascades == Spec => []SweepPoisonsChildren
<1>1. IInv => SweepPoisonsChildren
  BY DEF IInv, CycleInv
<1>2. QED
  BY <1>1, AlwaysIInv, PTL

-----------------------------------------------------------------------------
(* What the epoch stamp of can_schedule() achieves.                        *)
(*                                                                         *)
(* Deduplication is exact only as long as every wake-up goes through the   *)
(* stamp and every cycle empties the queue; the runs of TLC show what      *)
(* happens otherwise.  So the theorems assume that cycle functions do not  *)
(* call schedule_node(), that polling the I/O sources does not fail and    *)
(* that cycle() is not called again after Terminate.                       *)

Disciplined == ~ ManualScheduling /\ ~ PollMayFail /\ ~ Resumable

\* M are nodes that cycle functions schedule by hand, past the stamp.  No
\* other node is in the queue twice.
UniqueSlots(M) ==
  \A d1, d2 \in Depths :
    \A k1 \in 1 .. Len(multi_queue[d1]), k2 \in 1 .. Len(multi_queue[d2]) :
      multi_queue[d1][k1] = multi_queue[d2][k2] /\ multi_queue[d1][k1] \notin M
        => d1 = d2 /\ k1 = k2

\* What waits was stamped in this cycle.
QueuedIsStamped(M) == \A i : Queued(i) /\ i \notin M => sched_epoch[i] = epoch

\* What has run was stamped in this cycle and does not wait again.
RanIsDone(M) ==
  InCycle => \A i \in ran \ M : sched_epoch[i] = epoch /\ ~ Queued(i)

\* Between cycles the queue is empty and the cursor is at the top; it is
\* still there while the event sources are polled.
CursorAtRest ==
  /\ phase \in {"idle", "sweep", "spawn", "spawn_fn"} =>
       curr_depth = 0 /\ \A d \in Depths : multi_queue[d] = <<>>
  /\ phase \in PollPhases => curr_depth = 0

OnceInv(M) ==
  /\ UniqueSlots(M) /\ QueuedIsStamped(M) /\ RanIsDone(M) /\ CursorAtRest
  /\ StampedIsServed /\ PollNeverPanics

-----------------------------------------------------------------------------
\* A node that does not wait yet may join the queue.
LEMMA PushUnique ==
  ASSUME NEW M, SchedTypeOK, UniqueSlots(M), NEW n \in Index, NEW d \in Depths,
         ScheduleOk(n, d), Queued(n) => n \in M
  PROVE  /\ UniqueSlots(M)'
         /\ \A i : Queued(i)' => Queued(i) \/ i = n
<1>1. multi_queue \in [Depths -> Seq(Index)]
      /\ multi_queue' = [multi_queue EXCEPT ![d] = Append(multi_queue[d], n)]
  BY DEF ScheduleOk, SchedTypeOK
<1>2. \A e \in Depths : multi_queue[e] \in Seq(Index) /\ Len(multi_queue[e]) \in Nat
  BY <1>1
<1>3. /\ Len(multi_queue'[d]) = Len(multi_queue[d]) + 1
      /\ multi_queue'[d][Len(multi_queue[d]) + 1] = n
      /\ \A k \in 1 .. Len(multi_queue[d]) : multi_queue'[d][k] = multi_queue[d][k]
  BY <1>1, <1>2
<1>4. \A e \in Depths \ {d} : multi_queue'[e] = multi_queue[e]
  BY <1>1
<1>5. \A e \in Depths : \A k \in 1 .. Len(multi_queue'[e]) :
         \/ /\ k \in 1 .. Len(multi_queue[e])
            /\ multi_queue'[e][k] = multi_queue[e][k]
            /\ multi_queue[e][k] = n => n \in M
         \/ e = d /\ k = Len(multi_queue[d]) + 1 /\ multi_queue'[e][k] = n
  <2> SUFFICES ASSUME NEW e \in Depths, NEW k \in 1 .. Len(multi_queue'[e])
               PROVE  \/ /\ k \in 1 .. Len(multi_queue[e])
                         /\ multi_queue'[e][k] = multi_queue[e][k]
                         /\ multi_queue[e][k] = n => n \in M
                      \/ /\ e = d /\ k = Len(multi_queue[d]) + 1
                         /\ multi_queue'[e][k] = n
    OBVIOUS
  <2>1. CASE e = d
    <3>1. k \in 1 .. Len(multi_queue[d]) \/ k = Len(multi_queue[d]) + 1
      BY <2>1, <1>2, <1>3
    <3>2. QED
      BY <3>1, <2>1, <1>3 DEF Queued
  <2>2. CASE e # d
    BY <2>2, <1>4 DEF Queued
  <2>3. QED
    BY <2>1, <2>2
<1>6. UniqueSlots(M)'
  <2> SUFFICES ASSUME NEW d1 \in Depths, NEW d2 \in Depths,
                      NEW k1 \in 1 .. Len(multi_queue'[d1]),
                      NEW k2 \in 1 .. Len(multi_queue'[d2]),
                      multi_queue'[d1][k1] = multi_queue'[d2][k2],
                      multi_queue'[d1][k1] \notin M
               PROVE  d1 = d2 /\ k1 = k2
    BY DEF UniqueSlots
  <2>1. CASE multi_queue'[d1][k1] = n
    BY <2>1, <1>5
  <2>2. CASE multi_queue'[d1][k1] # n
    BY <2>2, <1>5 DEF UniqueSlots
  <2>3. QED
    BY <2>1, <2>2
<1>7. \A i : Queued(i)' => Queued(i) \/ i = n
  BY <1>5 DEF Queued
<1>8. QED
  BY <1>6, <1>7

\* A node that is popped is gone from the queue.
LEMMA PopUnique ==
  ASSUME NEW M, SchedTypeOK, UniqueSlots(M), NEW n, PopSome(n)
  PROVE  /\ UniqueSlots(M)'
         /\ n \notin M => ~ Queued(n)'
         /\ \A i : Queued(i)' => Queued(i)
<1>1. PICK d \in Depths :
        /\ FirstWaiting(d)
        /\ n = Head(multi_queue[d])
        /\ multi_queue' = [multi_queue EXCEPT ![d] = Tail(multi_queue[d])]
  BY DEF PopSome
<1>2. /\ multi_queue \in [Depths -> Seq(Index)]
      /\ \A e \in Depths : multi_queue[e] \in Seq(Index) /\ Len(multi_queue[e]) \in Nat
  BY DEF SchedTypeOK
<1>3. multi_queue[d] # <<>>
  BY <1>1 DEF FirstWaiting
<1>4. /\ Len(multi_queue[d]) \in Nat \ {0}
      /\ multi_queue[d][1] = n
      /\ Len(multi_queue'[d]) = Len(multi_queue[d]) - 1
      /\ \A k \in 1 .. Len(multi_queue'[d]) : multi_queue'[d][k] = multi_queue[d][k + 1]
  <2>1. Len(multi_queue[d]) \in Nat \ {0}
    BY <1>2, <1>3, EmptySeq
  <2>2. multi_queue'[d] = Tail(multi_queue[d])
    BY <1>1, <1>2
  <2>3. QED
    BY <2>1, <2>2, <1>1, <1>2, <1>3
<1>5. \A e \in Depths \ {d} : multi_queue'[e] = multi_queue[e]
  BY <1>1, <1>2
<1> DEFINE was(e, k) == IF e = d THEN k + 1 ELSE k
<1>6. \A e \in Depths : \A k \in 1 .. Len(multi_queue'[e]) :
         /\ was(e, k) \in 1 .. Len(multi_queue[e])
         /\ multi_queue'[e][k] = multi_queue[e][was(e, k)]
         /\ multi_queue'[e][k] = n => n \in M
  <2> SUFFICES ASSUME NEW e \in Depths, NEW k \in 1 .. Len(multi_queue'[e])
               PROVE  /\ was(e, k) \in 1 .. Len(multi_queue[e])
                      /\ multi_queue'[e][k] = multi_queue[e][was(e, k)]
                      /\ multi_queue'[e][k] = n => n \in M
    OBVIOUS
  <2>1. 1 \in 1 .. Len(multi_queue[d])
    BY <1>4
  <2>2. CASE e = d
    <3>1. k + 1 \in 1 .. Len(multi_queue[d]) /\ k + 1 # 1
      BY <2>2, <1>4
    <3>2. multi_queue[d][k + 1] = n => n \in M
      BY <2>1, <3>1, <1>4 DEF UniqueSlots
    <3>3. QED
      BY <2>2, <3>1, <3>2, <1>4
  <2>3. CASE e # d
    BY <2>1, <2>3, <1>4, <1>5 DEF UniqueSlots
  <2>4. QED
    BY <2>2, <2>3
<1> HIDE DEF was
<1>7. UniqueSlots(M)'
  <2> SUFFICES ASSUME NEW d1 \in Depths, NEW d2 \in Depths,
                      NEW k1 \in 1 .. Len(multi_queue'[d1]),
                      NEW k2 \in 1 .. Len(multi_queue'[d2]),
                      multi_queue'[d1][k1] = multi_queue'[d2][k2],
                      multi_queue'[d1][k1] \notin M
               PROVE  d1 = d2 /\ k1 = k2
    BY DEF UniqueSlots
  <2>1. /\ was(d1, k1) \in 1 .. Len(multi_queue[d1])
        /\ was(d2, k2) \in 1 .. Len(multi_queue[d2])
        /\ multi_queue[d1][was(d1, k1)] = multi_queue[d2][was(d2, k2)]
        /\ multi_queue[d1][was(d1, k1)] \notin M
    BY <1>6
  <2>2. d1 = d2 /\ was(d1, k1) = was(d2, k2)
    BY <2>1 DEF UniqueSlots
  <2>3. k1 \in Nat /\ k2 \in Nat
    BY <1>2, <1>4, <1>5
  <2>4. QED
    BY <2>2, <2>3 DEF was
<1>8. n \notin M => ~ Queued(n)'
  BY <1>6 DEF Queued
<1>9. \A i : Queued(i)' => Queued(i)
  BY <1>6 DEF Queued
<1>10. QED
  BY <1>7, <1>8, <1>9

-----------------------------------------------------------------------------
(* Every action preserves OnceInv, given IInv.                             *)

LEMMA InitOnce ==
  ASSUME NEW M, Init \/ \E N, D, E : BuiltGraph(N, D, E)
  PROVE  OnceInv(M)
<1>1. curr_depth = 0 /\ \A d \in Depths : multi_queue[d] = <<>>
  BY DEF Init, SchedInit, BuiltGraph
<1>2. UniqueSlots(M) /\ \A i : ~ Queued(i)
  BY <1>1, EmptySeq, EmptyNotQueued DEF UniqueSlots
<1>3. QED
  BY <1>1, <1>2 DEF Init, BuiltGraph, OnceInv, QueuedIsStamped, RanIsDone, CursorAtRest,
     StampedIsServed, PollNeverPanics, InCycle, PollPhases, LoopPhases

\* A wake-up that is not above the cursor: it is dropped because the node
\* carries the stamp of this cycle, or it puts the node into the queue.
LEMMA WakeOnce ==
  ASSUME NEW M, IInv, OnceInv(M), NEW i \in Index, Wake(i), InCycle,
         UNCHANGED <<graph_vars, epoch, phase, ran>>,
         i \in graph => depth[i] >= curr_depth
  PROVE  OnceInv(M)'
<1>1. TypeOK /\ SchedInv /\ SchedTypeOK
  BY DEF IInv, Structure, SchedInv
<1>2. UNCHANGED <<graph, depth>>
  BY DEF graph_vars
<1>3. phase \notin {"idle", "sweep", "spawn", "spawn_fn"}
  BY DEF InCycle, PollPhases, LoopPhases
<1>4. CASE ~ CanSchedule(i)
  <2>1. UNCHANGED sched_vars /\ sched_epoch' = sched_epoch
    BY <1>4 DEF Wake
  <2>2. \A n : Queued(n)' <=> Queued(n)
    BY <1>1, <2>1, SameSched
  <2>3. QED
    BY <1>2, <2>1, <2>2 DEF OnceInv, UniqueSlots, QueuedIsStamped, RanIsDone,
       CursorAtRest, StampedIsServed, PollNeverPanics, InCycle, sched_vars
<1>5. CASE CanSchedule(i)
  <2>1. /\ i \in graph /\ sched_epoch[i] # epoch
        /\ sched_epoch' = [sched_epoch EXCEPT ![i] = epoch]
        /\ depth[i] \in Nat /\ depth[i] \in Depths /\ curr_depth \in Nat
    BY <1>1, <1>5, MaxDepthAssumption DEF Wake, CanSchedule, TypeOK, SchedTypeOK, Depths
  <2>2. ScheduleOk(i, depth[i])
    BY <1>5, <2>1 DEF Wake, ScheduleErr
  <2>3. Queued(i) => i \in M
    BY <2>1 DEF OnceInv, QueuedIsStamped
  <2>4. /\ UniqueSlots(M)'
        /\ \A n : Queued(n)' => Queued(n) \/ n = i
    BY <1>1, <2>1, <2>2, <2>3, PushUnique DEF OnceInv
  <2>5. Queued(i)' /\ \A n : Queued(n) => Queued(n)'
    BY <1>1, <2>1, <2>2, PushQueued
  <2>6. sched_epoch'[i] = epoch /\ \A n \in Index \ {i} : sched_epoch'[n] = sched_epoch[n]
    BY <1>1, <2>1 DEF TypeOK
  <2>7. \A n : Queued(n) => n \in Index
    BY <1>1, QueuedPlace DEF IInv, Structure, TypeOK
  <2>8. QueuedIsStamped(M)'
    BY <2>4, <2>6, <2>7 DEF OnceInv, QueuedIsStamped
  <2>9. RanIsDone(M)'
    BY <1>1, <2>1, <2>4, <2>6 DEF OnceInv, RanIsDone, TypeOK
  <2>10. StampedIsServed'
    BY <1>1, <1>2, <2>5, <2>6 DEF OnceInv, StampedIsServed, TypeOK
  <2>11. CursorAtRest' /\ PollNeverPanics'
    BY <1>3, <2>2 DEF OnceInv, CursorAtRest, PollNeverPanics, ScheduleOk
  <2>12. QED
    BY <2>4, <2>8, <2>9, <2>10, <2>11 DEF OnceInv
<1>6. QED
  BY <1>4, <1>5

\* While the sources are polled the cursor is at the top: nothing is rejected.
LEMMA PollOnce ==
  ASSUME NEW M, IInv, OnceInv(M), NEW i \in Index,
         PollNotification(i) \/ PollIo(i) \/ PollTimer(i) \/ PollYield(i)
  PROVE  OnceInv(M)'
<1>1. /\ Wake(i) /\ phase \in PollPhases
      /\ UNCHANGED <<graph_vars, epoch, hist_vars>>
      /\ phase' = phase \/ phase' = IF WakeRejected(i) THEN "panicked" ELSE phase
  BY DEF PollNotification, PollIo, PollExternal, PollTimer, PollYield, PollPhases
<1>2. curr_depth = 0 /\ InCycle
  BY <1>1 DEF OnceInv, CursorAtRest, InCycle
<1>3. i \in graph => depth[i] >= curr_depth /\ ~ (depth[i] < curr_depth)
  BY <1>2, MaxDepthAssumption DEF IInv, Structure, TypeOK, Depths
<1>4. phase' = phase
  BY <1>1, <1>3 DEF WakeRejected, CanSchedule
<1>5. QED
  BY <1>1, <1>2, <1>3, <1>4, WakeOnce DEF hist_vars

\* The children of the running node are below the cursor.
LEMMA ChildOnce ==
  ASSUME NEW M, IInv, OnceInv(M), NEW c \in Index, BroadcastTo(c) \/ CascadeTo(c)
  PROVE  OnceInv(M)'
<1>1. /\ Wake(c) /\ phase \in {"broadcast", "cascade"}
      /\ UNCHANGED <<graph_vars, epoch, phase, hist_vars>>
      /\ c \in edge_buffer
  BY DEF BroadcastTo, CascadeTo
<1>2. PICK r \in Relationship : <<current, c, r>> \in edges
  BY <1>1 DEF BroadcastTo, CascadeTo, IInv, CycleInv, BufferOfChildren, Triggered,
     Children, Relationship
<1>3. c \in graph /\ depth[current] < depth[c] /\ depth[current] = curr_depth
  BY <1>1, <1>2 DEF IInv, Structure, CycleInv, EdgesDescend, CurrentAtCursor, TypeOK
<1>4. depth[c] >= curr_depth
  BY <1>3, MaxDepthAssumption DEF IInv, Structure, TypeOK, SchedTypeOK, Depths
<1>5. InCycle
  BY <1>1 DEF InCycle, LoopPhases
<1>6. QED
  BY <1>1, <1>4, <1>5, WakeOnce DEF hist_vars

LEMMA PopOnce ==
  ASSUME NEW M, IInv, OnceInv(M), NEW i \in Index, EnterNode(i) \/ SweepDeadNode(i)
  PROVE  OnceInv(M)'
<1>1. /\ PopSome(i) /\ phase = "exec" /\ phase' \in {"node", "cascade"}
      /\ ran' = ran \cup {i}
      /\ UNCHANGED <<graph_vars, sched_epoch, epoch>>
  BY DEF EnterNode, SweepDeadNode, Cascade
<1>2. TypeOK /\ SchedTypeOK /\ QueueWellPlaced
  BY DEF IInv, Structure, SchedInv
<1>3. /\ UniqueSlots(M)' /\ (i \notin M => ~ Queued(i)')
      /\ \A n : Queued(n)' => Queued(n)
  BY <1>1, <1>2, PopUnique DEF OnceInv
<1>4. /\ Queued(i)
      /\ \A n : Queued(n) /\ n # i => Queued(n)'
  BY <1>1, <1>2, PopQueued
<1>5. InCycle
  BY <1>1 DEF InCycle, LoopPhases
<1>6. /\ \A n \in ran' : n \in ran \/ n = i
      /\ i \notin M => sched_epoch[i] = epoch
  BY <1>1, <1>4 DEF OnceInv, QueuedIsStamped
<1>9. QueuedIsStamped(M)' /\ RanIsDone(M)' /\ StampedIsServed'
  BY <1>6, <1>1, <1>3, <1>4, <1>5 DEF OnceInv, QueuedIsStamped, RanIsDone, StampedIsServed,
     graph_vars
<1>7. CursorAtRest' /\ PollNeverPanics'
  BY <1>1 DEF CursorAtRest, PollNeverPanics, PollPhases
<1>8. QED
  BY <1>3, <1>9, <1>7 DEF OnceInv

\* The other steps leave the queue as it is.
LEMMA FrameOnce ==
  ASSUME NEW M, IInv, OnceInv(M), UNCHANGED <<sched_vars, ran>>,
         phase \in {"idle", "sweep", "spawn", "spawn_fn"} =>
           phase' \in {"sweep", "spawn", "spawn_fn", "idle"},
         phase' \in {"idle", "sweep", "spawn", "spawn_fn"} =>
           phase \in {"idle", "sweep", "spawn", "spawn_fn"},
         phase' \in PollPhases => phase \in PollPhases,
         phase' # "panicked", InCycle' => InCycle,
         epoch' = epoch,
         \A n \in graph' : InCycle => n \in graph,
         \A n \in Index : phase \notin {"idle", "sweep", "spawn", "spawn_fn"} =>
           sched_epoch'[n] = sched_epoch[n]
  PROVE  OnceInv(M)'
<1>1. TypeOK /\ SchedInv
  BY DEF IInv, Structure
<1>2. \A n : Queued(n)' <=> Queued(n)
  BY <1>1, SameSched
<1>3. \A n : Queued(n) => /\ n \in Index
                          /\ n \notin M => sched_epoch[n] = epoch
                          /\ phase \notin {"idle", "sweep", "spawn", "spawn_fn"}
  BY <1>1, QueuedPlace, EmptyNotQueued DEF IInv, Structure, TypeOK, OnceInv,
     QueuedIsStamped, CursorAtRest
<1>4. InCycle => phase \notin {"idle", "sweep", "spawn", "spawn_fn"}
  BY DEF InCycle, PollPhases, LoopPhases
<1>5. UniqueSlots(M)' /\ QueuedIsStamped(M)'
  BY <1>2, <1>3 DEF OnceInv, UniqueSlots, QueuedIsStamped, sched_vars
<1>6. RanIsDone(M)' /\ StampedIsServed'
  BY <1>1, <1>2, <1>4 DEF OnceInv, RanIsDone, StampedIsServed, TypeOK
<1>7. CursorAtRest' /\ PollNeverPanics'
  BY DEF OnceInv, CursorAtRest, PollNeverPanics, sched_vars
<1>8. QED
  BY <1>5, <1>6, <1>7 DEF OnceInv

-----------------------------------------------------------------------------
LEMMA ManualOnce ==
  ASSUME NEW M, IInv, OnceInv(M), NEW i \in M, ScheduleNode(i)
  PROVE  OnceInv(M)'
<1>1. TypeOK /\ SchedInv /\ SchedTypeOK
  BY DEF IInv, Structure, SchedInv
<1>2. /\ i \in graph /\ i \in Index /\ depth[i] \in Depths /\ phase = "node"
      /\ UNCHANGED <<graph, sched_epoch, epoch, phase, ran>>
      /\ ScheduleOk(i, depth[i]) \/ ScheduleErr(i, depth[i])
  BY <1>1 DEF ScheduleNode, TypeOK, graph_vars, hist_vars
<1>3. CASE ScheduleErr(i, depth[i])
  <2>1. UNCHANGED sched_vars
    BY <1>3 DEF ScheduleErr
  <2>2. QED
    BY <1>2, <2>1, FrameOnce DEF PollPhases, InCycle
<1>4. CASE ScheduleOk(i, depth[i])
  <2>1. /\ UniqueSlots(M)'
        /\ \A n : Queued(n)' => Queued(n) \/ n = i
    BY <1>1, <1>2, <1>4, PushUnique DEF OnceInv
  <2>2. \A n : Queued(n) => Queued(n)'
    BY <1>1, <1>2, <1>4, PushQueued
  <2>3. QueuedIsStamped(M)' /\ RanIsDone(M)' /\ StampedIsServed'
    BY <1>2, <2>1, <2>2 DEF OnceInv, QueuedIsStamped, RanIsDone, StampedIsServed, InCycle
  <2>4. CursorAtRest' /\ PollNeverPanics'
    BY <1>2 DEF CursorAtRest, PollNeverPanics, PollPhases
  <2>5. QED
    BY <2>1, <2>3, <2>4 DEF OnceInv
<1>5. QED
  BY <1>2, <1>3, <1>4

LEMMA ClientOnce ==
  ASSUME NEW M, IInv, OnceInv(M), Client, \A i \in Index : ScheduleNode(i) => i \in M
  PROVE  OnceInv(M)'
<1>1. ASSUME NEW i \in Index, NEW asks \in SUBSET (graph \X Relationship),
             NewNode(i, asks)
      PROVE  OnceInv(M)'
  <2>1. /\ phase \in {"idle", "spawn_fn"} /\ phase' = phase /\ ran' = ran
        /\ multi_queue' = multi_queue /\ curr_depth' = curr_depth
    BY <1>1 DEF NewNode, Build, Spawn, Insert, ClientOwnsExecutor, EnableDepth, hist_vars
  <2>2. curr_depth = 0 /\ \A d \in Depths : multi_queue[d] = <<>>
    BY <2>1 DEF OnceInv, CursorAtRest
  <2>3. UniqueSlots(M)' /\ \A n : ~ Queued(n)'
    BY <2>1, <2>2, EmptyNotQueued, SameQueue DEF OnceInv, UniqueSlots
  <2>4. QED
    BY <2>1, <2>2, <2>3 DEF OnceInv, QueuedIsStamped, RanIsDone, CursorAtRest,
       StampedIsServed, PollNeverPanics, InCycle, PollPhases, LoopPhases
<1>2. ASSUME NEW i \in Index,
             \/ DropHandle(i) \/ DropStaleHandle(i) \/ MarkForSweep(i)
             \/ YieldNow(i) \/ SpawnSubgraph
      PROVE  OnceInv(M)'
  <2>1. UNCHANGED <<sched_vars, ran, phase, epoch, graph, sched_epoch>>
    BY <1>2 DEF DropHandle, DropStaleHandle, MarkForSweep, YieldNow, SpawnSubgraph,
       graph_vars, hist_vars
  <2>2. QED
    BY <2>1, FrameOnce DEF InCycle, OnceInv, PollNeverPanics
<1>3. ASSUME NEW i \in Index, ScheduleNode(i) PROVE OnceInv(M)'
  BY <1>3, ManualOnce
<1>4. CASE SpawnSubgraph
  <2>1. current \in Index
    BY <1>4 DEF SpawnSubgraph, IInv, Structure, CycleInv, CurrentAtCursor, TypeOK
  <2>2. QED
    BY <1>4, <1>2, <2>1
<1>5. QED
  BY <1>1, <1>2, <1>3, <1>4 DEF Client

LEMMA BeginOnce ==
  ASSUME NEW M, IInv, OnceInv(M), BeginCycle
  PROVE  OnceInv(M)'
<1>1. /\ phase = "idle" /\ phase' = "notify" /\ ran' = {}
      /\ UNCHANGED <<sched_vars, graph_vars, sched_epoch>>
      /\ epoch' = epoch + 1 /\ epoch \in Nat
  BY ExecutorAssumption
  DEF BeginCycle, WrappingIncrement, IInv, Structure, TypeOK
<1>2. curr_depth = 0 /\ \A d \in Depths : multi_queue[d] = <<>>
  BY <1>1 DEF OnceInv, CursorAtRest
<1>3. UniqueSlots(M)' /\ \A n : ~ Queued(n)'
  BY <1>1, <1>2, EmptyNotQueued, SameQueue DEF OnceInv, UniqueSlots, sched_vars
<1>4. \A n \in graph : sched_epoch[n] # epoch'
  BY <1>1 DEF IInv, Structure, StampsArePast, TypeOK
<1>5. QED
  BY <1>1, <1>2, <1>3, <1>4 DEF OnceInv, QueuedIsStamped, RanIsDone, CursorAtRest,
     StampedIsServed, PollNeverPanics, sched_vars, graph_vars

LEMMA AdvanceOnce ==
  ASSUME NEW M, IInv, OnceInv(M), Advance, ReturnTerminate => ~ Resumable
  PROVE  OnceInv(M)'
<1>1. ASSUME NEW i \in Index, PollYield(i) PROVE OnceInv(M)'
  BY <1>1, PollOnce
<1>2. ASSUME NEW i \in Index, EnterNode(i) \/ SweepDeadNode(i) PROVE OnceInv(M)'
  BY <1>2, PopOnce
<1>3. ASSUME NEW c \in Index, BroadcastTo(c) \/ CascadeTo(c) PROVE OnceInv(M)'
  BY <1>3, ChildOnce
<1>4. CASE EndLoop
  <2>1. /\ phase' = "sweep" /\ PopNone /\ ran' = {}
        /\ SchedInv
    BY <1>4 DEF EndLoop, IInv, Structure
  <2>2. \A d \in Depths : multi_queue[d] = <<>>
    BY <2>1, Exhausted DEF PopNone
  <2>3. UniqueSlots(M)' /\ \A n : ~ Queued(n)'
    BY <2>1, <2>2, EmptyNotQueued, SameQueue DEF OnceInv, UniqueSlots, PopNone
  <2>4. QED
    BY <2>1, <2>2, <2>3 DEF OnceInv, QueuedIsStamped, RanIsDone, CursorAtRest,
       StampedIsServed, PollNeverPanics, InCycle, PollPhases, LoopPhases, PopNone
<1>5. CASE \/ NextStage \/ ReturnUnchanged \/ ReturnTerminate \/ EndOfChildren
           \/ EndSweep \/ RunSpawn \/ EndSpawn \/ EndCycle
  <2>1. UNCHANGED <<sched_vars, ran, epoch, graph, sched_epoch>>
    BY <1>5 DEF NextStage, ReturnUnchanged, ReturnTerminate, EndOfChildren,
       EndSweep, RunSpawn, EndSpawn, EndCycle, graph_vars, hist_vars
  <2>2. /\ phase \in {"idle", "sweep", "spawn", "spawn_fn"} <=>
           phase' \in {"sweep", "spawn", "spawn_fn", "idle"}
        /\ phase' \in PollPhases => phase \in PollPhases
        /\ phase' # "panicked" /\ (InCycle' => InCycle)
    BY <1>5 DEF NextStage, ReturnUnchanged, ReturnTerminate,
       EndOfChildren, EndSweep, RunSpawn, EndSpawn, EndCycle, InCycle, PollPhases,
       LoopPhases
  <2>3. QED
    BY <2>1, <2>2, FrameOnce
<1>6. ASSUME NEW i \in Index, NEW D \in SUBSET Index, NEW S \in SUBSET Index,
             SweepNext(i, D, S)
      PROVE  OnceInv(M)'
  <2>1. /\ UNCHANGED <<sched_vars, ran, phase, epoch>>
        /\ phase = "sweep" /\ graph' \subseteq graph
    BY <1>6 DEF SweepNext
  <2>2. QED
    BY <2>1, FrameOnce DEF PollPhases, InCycle
<1>7. ASSUME ReturnBroadcast \/ ReturnSweep
      PROVE  OnceInv(M)'
  <2>1. /\ UNCHANGED <<sched_vars, ran, epoch, graph, sched_epoch>>
        /\ phase = "node" /\ phase' \in {"broadcast", "cascade"}
    BY <1>7 DEF ReturnBroadcast, ReturnSweep, Cascade, graph_vars, hist_vars
  <2>2. InCycle
    BY <2>1 DEF InCycle, LoopPhases
  <2>3. QED
    BY <2>1, <2>2, FrameOnce DEF PollPhases
<1>8. QED
  BY <1>1, <1>2, <1>3, <1>4, <1>5, <1>6, <1>7 DEF Advance

LEMMA StepOnce ==
  ASSUME Disciplined, IInv, OnceInv({}), [Next]_vars
  PROVE  OnceInv({})'
<1>1. CASE Client
  BY <1>1, ClientOnce DEF ScheduleNode, Disciplined
<1>2. CASE Poll
  BY <1>2, PollOnce DEF Poll
<1>3. CASE PollError
  BY <1>3 DEF PollError, Disciplined
<1>4. CASE BeginCycle
  BY <1>4, BeginOnce
<1>5. CASE Advance
  BY <1>5, AdvanceOnce DEF Disciplined
<1>6. CASE UNCHANGED vars
  <2>1. UNCHANGED <<sched_vars, ran, phase, epoch, graph, sched_epoch>>
    BY <1>6 DEF vars, graph_vars, hist_vars
  <2>2. QED
    BY <2>1, FrameOnce DEF InCycle, OnceInv, PollNeverPanics
<1>7. QED
  BY <1>1, <1>2, <1>3, <1>4, <1>5, <1>6 DEF Next

LEMMA AlwaysOnce == ASSUME Disciplined PROVE Spec => []OnceInv({})
<1>1. IInv /\ OnceInv({}) /\ [Next]_vars => OnceInv({})'
  BY StepOnce
<1>2. Init => OnceInv({})
  BY InitOnce
<1>3. QED
  BY <1>1, <1>2, AlwaysIInv, PTL DEF Spec

-----------------------------------------------------------------------------
\* "Prevents duplicate scheduling within cycles": a node waits at most once,
\* and not again once it has run in this cycle.
THEOREM RunsAtMostOnce == ASSUME Disciplined PROVE Spec => []AtMostOncePerCycle
<1>1. OnceInv({}) => AtMostOncePerCycle
  BY DEF OnceInv, UniqueSlots, RanIsDone, AtMostOncePerCycle
<1>2. QED
  BY <1>1, AlwaysOnce, PTL

\* The stamp of can_schedule() is never consumed in vain: a stamped node runs
\* or waits.
THEOREM StampsAreServed == ASSUME Disciplined PROVE Spec => []StampedIsServed
<1>1. OnceInv({}) => StampedIsServed
  BY DEF OnceInv
<1>2. QED
  BY <1>1, AlwaysOnce, PTL

\* The .expect() and the .unwrap() of the event sources never fire.
THEOREM PollsDoNotPanic == ASSUME Disciplined PROVE Spec => []PollNeverPanics
<1>1. OnceInv({}) => PollNeverPanics
  BY DEF OnceInv
<1>2. QED
  BY <1>1, AlwaysOnce, PTL
=============================================================================
