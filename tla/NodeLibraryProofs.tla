------------------------- MODULE NodeLibraryProofs -------------------------
(***************************************************************************)
(* The nodes of the library are clients of the executor like any other:    *)
(* every step they make is one that module Executor allows, so what was    *)
(* proved there holds for the graph of module NodeLibrary, although its    *)
(* router schedules nodes behind the back of the dependency tracking.      *)
(*                                                                         *)
(* On top of that the data of the library is right after every cycle.  The *)
(* invariant says of each derived node that it holds what its inputs give, *)
(* or that it has yet to run in this cycle and will be made to: an input   *)
(* of it has mutated, or it waits in the queue.                            *)
(***************************************************************************)
EXTENDS NodeLibrary, ExecutorProofs

-----------------------------------------------------------------------------
(* The graph.                                                              *)

LibDepth == [i \in Index |-> IF i \in Switches THEN 2
                             ELSE IF i \in Outputs \cup {Gate, Router} THEN 1 ELSE 0]

LibEdges ==
  Triggers({Left, Right}, Gate) \cup Triggers({Left, Right, Gate}, Pick)
  \cup Triggers({OutA, OutB, Gate}, Merge) \cup Triggers({Stream}, Router)
  \cup {Stream} \X Outputs \X {"Observe"}

\* No node joins or leaves the graph.
StaticInv == graph = LibNodes /\ edges = LibEdges /\ depth = LibDepth

LEMMA Apart ==
  /\ Left \notin {Right, Stream, Gate, Router, OutA, OutB, Pick, Merge}
  /\ Right \notin {Stream, Gate, Router, OutA, OutB, Pick, Merge}
  /\ Stream \notin {Gate, Router, OutA, OutB, Pick, Merge}
  /\ Gate \notin {Router, OutA, OutB, Pick, Merge}
  /\ Router \notin {OutA, OutB, Pick, Merge}
  /\ OutA \notin {OutB, Pick, Merge}
  /\ OutB \notin {Pick, Merge}
  /\ Pick # Merge
BY LibraryAssumption DEF Sources, Outputs, Switches

LEMMA InIndex ==
  /\ Left \in Index /\ Right \in Index /\ Stream \in Index
  /\ Gate \in Index /\ Router \in Index /\ OutA \in Index
  /\ OutB \in Index /\ Pick \in Index /\ Merge \in Index
BY LibraryAssumption DEF LibNodes, Sources, Outputs, Switches

LEMMA LibDepths ==
  /\ LibDepth \in [Index -> 0 .. 2]
  /\ LibDepth[Left] = 0 /\ LibDepth[Right] = 0 /\ LibDepth[Stream] = 0
  /\ LibDepth[Gate] = 1 /\ LibDepth[Router] = 1
  /\ LibDepth[OutA] = 1 /\ LibDepth[OutB] = 1
  /\ LibDepth[Pick] = 2 /\ LibDepth[Merge] = 2
BY Apart, InIndex DEF LibDepth, Outputs, Switches

LEMMA LibEdgesAre ==
  \A e \in LibEdges :
    \/ e[1] \in {Left, Right} /\ e[2] = Gate /\ e[3] = "Trigger"
    \/ e[1] \in {Left, Right, Gate} /\ e[2] = Pick /\ e[3] = "Trigger"
    \/ e[1] \in {OutA, OutB, Gate} /\ e[2] = Merge /\ e[3] = "Trigger"
    \/ e[1] = Stream /\ e[2] = Router /\ e[3] = "Trigger"
    \/ e[1] = Stream /\ e[2] \in {OutA, OutB} /\ e[3] = "Observe"
BY DEF LibEdges, Triggers, Outputs

LEMMA LibEdgesHas ==
  /\ <<Left, Gate, "Trigger">> \in LibEdges /\ <<Right, Gate, "Trigger">> \in LibEdges
  /\ <<Left, Pick, "Trigger">> \in LibEdges /\ <<Right, Pick, "Trigger">> \in LibEdges
  /\ <<Gate, Pick, "Trigger">> \in LibEdges /\ <<Gate, Merge, "Trigger">> \in LibEdges
  /\ <<OutA, Merge, "Trigger">> \in LibEdges /\ <<OutB, Merge, "Trigger">> \in LibEdges
BY DEF LibEdges, Triggers

LEMMA LibInitInv == LibInit => IInv /\ OnceInv(Outputs) /\ StaticInv
<1> SUFFICES ASSUME LibInit PROVE IInv /\ OnceInv(Outputs) /\ StaticInv
  OBVIOUS
<1>1. BuiltGraph(LibNodes, LibDepth, LibEdges)
  BY DEF LibInit, LibDepth, LibEdges
<1>2. LibNodes \in SUBSET Index /\ MaxDepth >= 2
  BY LibraryAssumption
<1>3. \A e \in LibEdges : LibDepth[e[1]] < LibDepth[e[2]]
  BY LibDepths, LibEdgesAre
<1>4. LibEdges \in SUBSET (LibNodes \X LibNodes \X Relationship)
  BY DEF LibEdges, Triggers, Outputs, Relationship, LibNodes, Sources, Switches
<1>5. yields \subseteq Index
  BY InIndex DEF LibInit
<1>6. IInv
  BY <1>1, <1>2, <1>3, <1>4, <1>5, LibDepths, BuiltGraphInv
<1>7. OnceInv(Outputs)
  BY <1>1, InitOnce
<1>8. QED
  BY <1>1, <1>6, <1>7 DEF BuiltGraph, StaticInv

-----------------------------------------------------------------------------
(* The steps.                                                              *)

\* What a cycle function of the library does, the executor allows its clients.
LEMMA LibStep == [LibNext]_<<vars, lib_vars>> => [Next]_vars
<1> SUFFICES ASSUME LibNext PROVE Next \/ UNCHANGED vars
  OBVIOUS
<1>1. CASE RunSource \/ EndRoute \/ RunOutput \/ RunGate \/ RunPick \/ RunMerge
  BY <1>1 DEF RunSource, EndRoute, RunOutput, RunGate, RunPick, RunMerge, Next, Advance
<1>2. CASE RouteItem
  BY <1>2, InIndex DEF RouteItem, Outputs, Next, Client
<1>3. CASE \E i \in LibNodes : EnterLibraryNode(i)
  BY <1>3, LibraryAssumption DEF EnterLibraryNode, Next, Advance
<1>4. CASE CycleStep
  BY <1>4, QuietIsNext, LibraryAssumption DEF CycleStep, Next, Poll, LibNodes
<1>5. QED
  BY <1>1, <1>2, <1>3, <1>4 DEF LibNext

\* A node of the library other than an output waits once and runs once.
LEMMA LibOnceStep ==
  ASSUME IInv, OnceInv(Outputs), LibNext
  PROVE  OnceInv(Outputs)'
<1>1. ASSUME ReturnBroadcast \/ ReturnUnchanged PROVE OnceInv(Outputs)'
  BY <1>1, AdvanceOnce DEF Advance, ReturnBroadcast, ReturnUnchanged, ReturnTerminate
<1>2. CASE RunSource \/ EndRoute \/ RunOutput \/ RunGate \/ RunPick \/ RunMerge
  BY <1>1, <1>2 DEF RunSource, EndRoute, RunOutput, RunGate, RunPick, RunMerge
<1>3. CASE RouteItem
  <2>1. CASE UNCHANGED vars
    BY <2>1 DEF vars, OnceInv, UniqueSlots, QueuedIsStamped, RanIsDone, CursorAtRest,
       StampedIsServed, PollNeverPanics, InCycle, Queued, sched_vars, graph_vars, hist_vars
  <2>2. CASE \E k \in Outputs : ScheduleNode(k)
    BY <2>2, ManualOnce
  <2>3. QED
    BY <1>3, <2>1, <2>2 DEF RouteItem
<1>4. CASE \E i \in LibNodes : EnterLibraryNode(i)
  BY <1>4, PopOnce, LibraryAssumption DEF EnterLibraryNode
<1>5. CASE CycleStep
  <2>1. CASE BeginCycle
    BY <2>1, BeginOnce
  <2>2. CASE \E i \in Sources : PollNotification(i)
    BY <2>2, PollOnce, InIndex DEF Sources
  <2>3. CASE QuietStep /\ ~ BeginCycle
    <3>1. Advance
      BY <2>3 DEF QuietStep, Advance
    <3>2. ~ ReturnTerminate
      BY <2>3 DEF QuietStep, ReturnTerminate, PollYield, NextStage, BroadcastTo,
         EndOfChildren, EndLoop, EndSweep, EndCycle
    <3>3. QED
      BY <3>1, <3>2, AdvanceOnce
  <2>4. QED
    BY <1>5, <2>1, <2>2, <2>3 DEF CycleStep
<1>6. QED
  BY <1>2, <1>3, <1>4, <1>5 DEF LibNext

\* The kinds of steps in which no node runs
Moves ==
  /\ phase' # phase /\ phase \notin {"idle", "node"}
  /\ phase' \notin {"node", "broadcast", "notify", "panicked"}
  /\ InCycle' = InCycle /\ AtRest' = AtRest
  /\ phase = "notify" => phase' = "yield"
  /\ phase = "yield" => yields = {}
  /\ UNCHANGED <<sched_vars, sched_epoch, mut_epoch, yields, epoch, current, ran,
                 edge_buffer, lib_vars>>

Wakes(i) ==
  /\ Wake(i)
  /\ \/ phase = "notify" /\ i \in Sources /\ yields' = yields
     \/ phase = "yield" /\ i \in yields /\ yields' = yields \ {i}
     \/ phase = "broadcast" /\ i \in Triggered(current) /\ yields' = yields
  /\ UNCHANGED <<graph_vars, mut_epoch, epoch, phase, current, ran, lib_vars>>

LEMMA LibKinds ==
  ASSUME IInv, OnceInv(Outputs), LibNext
  PROVE  \/ BeginCycle /\ UNCHANGED lib_vars
         \/ EndLoop /\ UNCHANGED lib_vars
         \/ Moves
         \/ \E i \in Index : Wakes(i)
         \/ \E i \in LibNodes : EnterLibraryNode(i)
         \/ RunSource \/ RouteItem \/ EndRoute \/ RunOutput
         \/ RunGate \/ RunPick \/ RunMerge
<1>1. CASE CycleStep
  <2>1. ASSUME NEW i \in Index, PollYield(i) PROVE Wakes(i)
    BY <1>1, <2>1 DEF PollYield, CycleStep, Wakes, hist_vars, queue_vars, node_vars
  <2>2. ASSUME NEW i \in Index, BroadcastTo(i) PROVE Wakes(i)
    BY <1>1, <2>2 DEF BroadcastTo, CycleStep, Wakes, hist_vars, queue_vars, node_vars,
       IInv, CycleInv, BufferOfChildren
  <2>3. ASSUME NEW i \in Sources, PollNotification(i) PROVE i \in Index /\ Wakes(i)
    <3>1. i \in Index /\ phase = "notify" /\ Wake(i)
      BY <2>3, InIndex DEF Sources, PollNotification, PollExternal
    <3>2. phase' = phase
      BY <2>3, <3>1, PollOnce DEF OnceInv, PollNeverPanics, PollNotification, PollExternal
    <3>3. QED
      BY <1>1, <2>3, <3>1, <3>2 DEF PollNotification, PollExternal, CycleStep, Wakes,
         hist_vars, queue_vars, node_vars
  <2>4. CASE NextStage \/ EndOfChildren \/ EndSweep \/ EndCycle
    BY <1>1, <2>4 DEF CycleStep, Moves, NextStage, EndOfChildren, EndSweep, EndCycle,
       InCycle, AtRest, PollPhases, LoopPhases, hist_vars, queue_vars, node_vars
  <2>5. QED
    BY <1>1, <2>1, <2>2, <2>3, <2>4 DEF CycleStep, QuietStep
<1>2. QED
  BY <1>1 DEF LibNext

LEMMA StaticStep ==
  ASSUME StaticInv, LibNext
  PROVE  StaticInv'
<1>1. UNCHANGED graph_vars
  <2>1. CASE CycleStep
    BY <2>1 DEF CycleStep, QuietStep, BeginCycle, PollYield, NextStage, BroadcastTo,
       EndOfChildren, EndLoop, EndSweep, EndCycle, PollNotification, PollExternal
  <2>2. CASE RouteItem
    BY <2>2 DEF RouteItem, ScheduleNode, vars
  <2>3. CASE \E i \in LibNodes : EnterLibraryNode(i)
    BY <2>3 DEF EnterLibraryNode, EnterNode
  <2>4. CASE RunSource \/ EndRoute \/ RunOutput \/ RunGate \/ RunPick \/ RunMerge
    BY <2>4 DEF RunSource, EndRoute, RunOutput, RunGate, RunPick, RunMerge,
       ReturnBroadcast, ReturnUnchanged
  <2>5. QED
    BY <2>1, <2>2, <2>3, <2>4 DEF LibNext
<1>2. QED
  BY <1>1 DEF StaticInv, graph_vars

-----------------------------------------------------------------------------
(* Types.                                                                  *)

Item == Keys \X Nat

LibTypes ==
  /\ value \in [{Left, Right, Gate, Pick} -> BOOLEAN]
  /\ items \in [{Stream, OutA, OutB, Merge} -> Seq(Item)]
  /\ cache_epoch \in [Outputs -> Nat]
  /\ \A k \in Outputs : cache_epoch[k] <= epoch
  /\ unrouted \in Seq(Item) /\ batch \in Seq(Item)
  /\ use_primary \in [Switches -> BOOLEAN]
  /\ config \in Config

LEMMA LibInitTypes == LibInit => LibTypes
<1> SUFFICES ASSUME LibInit PROVE LibTypes
  OBVIOUS
<1>1. config \in Config /\ epoch = 0
  BY LibraryAssumption DEF LibInit, BuiltGraph
<1>2. config.init \in BOOLEAN /\ config.bootstrap \in BOOLEAN
  BY <1>1 DEF Config
<1>3. value \in [{Left, Right, Gate, Pick} -> BOOLEAN]
  BY <1>2 DEF LibInit
<1>4. QED
  BY <1>1, <1>3 DEF LibInit, LibTypes

LEMMA LibTypesStep ==
  ASSUME IInv, OnceInv(Outputs), LibTypes, LibNext
  PROVE  LibTypes'
<1>1. epoch \in Nat /\ TypeOK
  BY DEF IInv, Structure, TypeOK
<1>2. CASE BeginCycle /\ UNCHANGED lib_vars
  <2>1. epoch' = epoch + 1
    BY <1>1, <1>2, ExecutorAssumption DEF BeginCycle, WrappingIncrement
  <2>2. QED
    BY <1>1, <1>2, <2>1 DEF LibTypes, lib_vars
<1>3. CASE \/ EndLoop /\ UNCHANGED lib_vars
           \/ Moves \/ \E i \in Index : Wakes(i)
  BY <1>3 DEF EndLoop, Moves, Wakes, LibTypes, lib_vars
<1>4. CASE EndRoute \/ RunOutput
  BY <1>4, ReturnsChange DEF EndRoute, RunOutput, LibTypes, lib_vars
<1>5. CASE \E i \in LibNodes : EnterLibraryNode(i)
  <2>1. epoch' = epoch /\ UNCHANGED <<value, cache_epoch, use_primary, config>>
    BY <1>5 DEF EnterLibraryNode, EnterNode
  <2>2. /\ unrouted' \in {unrouted, items[Stream]} /\ batch' \in {batch, items[Stream]}
        /\ items' \in {items, [items EXCEPT ![Stream] = <<>>]}
    BY <1>5 DEF EnterLibraryNode
  <2>3. <<>> \in Seq(Item) /\ items[Stream] \in Seq(Item)
    BY DEF LibTypes
  <2>4. unrouted' \in Seq(Item) /\ batch' \in Seq(Item)
    BY <2>2, <2>3 DEF LibTypes
  <2>5. items' \in [{Stream, OutA, OutB, Merge} -> Seq(Item)]
    BY <2>2, <2>3 DEF LibTypes
  <2>6. QED
    BY <2>1, <2>4, <2>5 DEF LibTypes
<1>6. CASE RunSource
  <2>1. epoch' = epoch /\ UNCHANGED <<cache_epoch, unrouted, batch, use_primary, config>>
    BY <1>6, ReturnsChange DEF RunSource
  <2>2. \/ items' = items
        \/ \E n \in 0 .. MaxBatch : \E key \in [1 .. n -> Keys] :
             items' = [items EXCEPT ![Stream] = [j \in 1 .. n |-> <<key[j], epoch>>]]
    BY <1>6 DEF RunSource
  <2>3. items' \in [{Stream, OutA, OutB, Merge} -> Seq(Item)]
    <3>1. ASSUME NEW n \in 0 .. MaxBatch, NEW key \in [1 .. n -> Keys]
          PROVE  [j \in 1 .. n |-> <<key[j], epoch>>] \in Seq(Item)
      BY <1>1, LibraryAssumption DEF Item
    <3>2. \/ items' = items
          \/ \E s \in Seq(Item) : items' = [items EXCEPT ![Stream] = s]
      BY <2>2, <3>1
    <3>3. QED
      BY <3>2 DEF LibTypes
  <2>4. value' \in [{Left, Right, Gate, Pick} -> BOOLEAN]
    BY <1>6 DEF RunSource, LibTypes
  <2>5. QED
    BY <2>1, <2>3, <2>4 DEF LibTypes
<1>7. CASE RouteItem
  <2>1. /\ UNCHANGED <<epoch, value, batch, use_primary, config>>
        /\ unrouted # <<>> /\ unrouted' = Tail(unrouted)
    BY <1>7 DEF RouteItem, ScheduleNode, vars
  <2>2. Head(unrouted) \in Item
    BY <2>1 DEF LibTypes
  <2>3. /\ \A k \in Outputs : Routed(k) \in Seq(Item)
        /\ \A k \in Outputs : items[k] \in Seq(Item)
    BY DEF Routed, LibTypes, Outputs
  <2>4. \/ UNCHANGED <<items, cache_epoch>>
        \/ \E k \in Outputs, s \in Seq(Item) :
             /\ items' = [items EXCEPT ![k] = s]
             /\ cache_epoch' = [cache_epoch EXCEPT ![k] = epoch]
    <3>1. \A k \in Outputs : Append(Routed(k), Head(unrouted)) \in Seq(Item)
      BY <2>2, <2>3
    <3>2. QED
      BY <1>7, <3>1 DEF RouteItem
  <2>5. CASE UNCHANGED <<items, cache_epoch>>
    BY <2>1, <2>5 DEF LibTypes
  <2>6. ASSUME NEW k \in Outputs, NEW s \in Seq(Item),
               items' = [items EXCEPT ![k] = s],
               cache_epoch' = [cache_epoch EXCEPT ![k] = epoch]
        PROVE  LibTypes'
    <3>1. items' \in [{Stream, OutA, OutB, Merge} -> Seq(Item)]
      BY <2>6 DEF LibTypes
    <3>2. cache_epoch' \in [Outputs -> Nat]
      BY <1>1, <2>6 DEF LibTypes
    <3>3. \A o \in Outputs : cache_epoch'[o] <= epoch
      BY <1>1, <2>6 DEF LibTypes
    <3>4. QED
      BY <2>1, <3>1, <3>2, <3>3 DEF LibTypes
  <2>7. QED
    BY <2>4, <2>5, <2>6
<1>8. CASE RunGate
  <2>1. epoch' = epoch /\ UNCHANGED <<items, cache_epoch, unrouted, batch, use_primary, config>>
    BY <1>8, ReturnsChange DEF RunGate
  <2>2. Apply(value[Left], value[Right]) \in BOOLEAN
    BY DEF Apply, LibTypes, Config
  <2>3. QED
    BY <1>8, <2>1, <2>2 DEF RunGate, LibTypes
<1>9. CASE RunPick \/ RunMerge
  <2>1. epoch' = epoch /\ UNCHANGED <<cache_epoch, unrouted, batch, config>>
    BY <1>9, ReturnsChange DEF RunPick, RunMerge
  <2>2. \A n \in Switches : Choice(n) \in BOOLEAN
    BY DEF Choice, LibTypes
  <2>3. /\ \A b \in BOOLEAN : Selected(Pick, b) \in {Left, Right}
        /\ \A b \in BOOLEAN : Selected(Merge, b) \in {OutA, OutB}
    BY Apart DEF Selected
  <2>4. use_primary' \in [Switches -> BOOLEAN]
    BY <1>9, <2>2 DEF RunPick, RunMerge, LibTypes, Switches
  <2>5. value' \in [{Left, Right, Gate, Pick} -> BOOLEAN]
    BY <1>9, <2>2, <2>3 DEF RunPick, RunMerge, LibTypes, Switches
  <2>6. items' \in [{Stream, OutA, OutB, Merge} -> Seq(Item)]
    BY <1>9, <2>2, <2>3 DEF RunPick, RunMerge, LibTypes, Switches
  <2>7. QED
    BY <2>1, <2>4, <2>5, <2>6 DEF LibTypes
<1>10. QED
  BY <1>2, <1>3, <1>4, <1>5, <1>6, <1>7, <1>8, <1>9, LibKinds

-----------------------------------------------------------------------------
(* What is queued, runs, has run and has mutated.                          *)

\* A node that has run in this cycle and returned
Ran(i) == i \in ran /\ ~ Runs(i)

Mutated(i) == InCycle /\ HasMutated(i)

\* Only the gate yields, and only to start.
YieldInv ==
  /\ yields \subseteq {Gate}
  /\ yields # {} => config.bootstrap
  /\ phase \notin {"idle", "notify", "yield"} => yields = {}
  /\ epoch = 0 => phase = "idle"
  /\ config.bootstrap /\ epoch = 0 => yields = {Gate}

\* The node whose turn it is has been entered, and one that broadcasts mutated.
TurnInv ==
  /\ phase \in {"node", "broadcast"} => current \in ran
  /\ phase = "broadcast" => HasMutated(current)

LEMMA YieldStep ==
  ASSUME IInv, OnceInv(Outputs), YieldInv, LibNext
  PROVE  YieldInv'
<1>1. CASE BeginCycle /\ UNCHANGED lib_vars
  BY <1>1, EpochGrows DEF BeginCycle, YieldInv, lib_vars, queue_vars
<1>2. CASE \/ EndLoop /\ UNCHANGED lib_vars
           \/ Moves \/ \E i \in Index : Wakes(i)
  BY <1>2 DEF EndLoop, Moves, Wakes, YieldInv, lib_vars, queue_vars
<1>3. CASE RunSource \/ EndRoute \/ RunOutput \/ RunGate \/ RunPick \/ RunMerge
  <2>1. ReturnBroadcast \/ ReturnUnchanged
    BY <1>3 DEF RunSource, EndRoute, RunOutput, RunGate, RunPick, RunMerge
  <2>2. config' = config
    BY <1>3 DEF RunSource, EndRoute, RunOutput, RunGate, RunPick, RunMerge, lib_vars
  <2>3. QED
    BY <2>1, <2>2, ReturnsChange DEF YieldInv
<1>4. CASE RouteItem \/ \E i \in LibNodes : EnterLibraryNode(i)
  <2>1. UNCHANGED <<config, yields, epoch>>
    BY <1>4 DEF RouteItem, ScheduleNode, EnterLibraryNode, EnterNode, vars, queue_vars
  <2>2. phase \notin {"idle", "notify", "yield"} /\ phase' \notin {"idle", "notify", "yield"}
    BY <1>4 DEF RouteItem, Runs, ScheduleNode, EnterLibraryNode, EnterNode, vars
  <2>3. QED
    BY <2>1, <2>2 DEF YieldInv
<1>5. QED
  BY <1>1, <1>2, <1>3, <1>4, LibKinds

LEMMA TurnStep ==
  ASSUME IInv, OnceInv(Outputs), TurnInv, LibNext
  PROVE  TurnInv'
<1>1. CASE BeginCycle \/ EndLoop
  BY <1>1 DEF BeginCycle, EndLoop, TurnInv
<1>2. CASE Moves \/ \E i \in Index : Wakes(i)
  BY <1>2 DEF Moves, Wakes, TurnInv, HasMutated
<1>3. CASE RunSource \/ EndRoute \/ RunOutput \/ RunGate \/ RunPick \/ RunMerge
  <2>1. ReturnBroadcast \/ ReturnUnchanged
    BY <1>3 DEF RunSource, EndRoute, RunOutput, RunGate, RunPick, RunMerge
  <2>2. current \in Index /\ mut_epoch \in [Index -> Nat]
    BY <2>1, ReturnsChange DEF IInv, Structure, CycleInv, CurrentAtCursor, TypeOK
  <2>3. QED
    BY <2>1, <2>2, ReturnsChange DEF TurnInv, HasMutated
<1>4. CASE RouteItem
  BY <1>4 DEF RouteItem, ScheduleNode, vars, TurnInv, HasMutated, Runs, hist_vars, node_vars
<1>5. CASE \E i \in LibNodes : EnterLibraryNode(i)
  BY <1>5 DEF EnterLibraryNode, EnterNode, TurnInv
<1>6. QED
  BY <1>1, <1>2, <1>3, <1>4, <1>5, LibKinds

\* In what order the nodes of the library run.
LEMMA OrderFacts ==
  ASSUME IInv, StaticInv, NEW p, NEW c, NEW r, <<p, c, r>> \in LibEdges
  PROVE  /\ phase \in {"node", "broadcast"} /\ current = p => c \notin ran
         /\ InCycle /\ c \in ran => ~ Queued(p) /\ ~ Runs(p)
BY EdgeOrder DEF StaticInv, Runs

\* A trigger child of a node that mutated in this cycle has run by the time the
\* queue is empty.
LEMMA MutatedReached ==
  ASSUME IInv, StaticInv, phase = "exec", \A i : ~ Queued(i),
         NEW p, NEW c, <<p, c, "Trigger">> \in LibEdges, Mutated(p)
  PROVE  Ran(c)
BY TriggerReached DEF StaticInv, Mutated, HasMutated, Ran, Runs

\* Who wakes up a node of the library that is not a source.
LEMMA WokenBy ==
  ASSUME IInv, OnceInv(Outputs), StaticInv, YieldInv, TurnInv,
         NEW i \in Index, Wakes(i)
  PROVE  /\ phase # "node" /\ InCycle /\ InCycle'
         /\ \A n : Queued(n) => Queued(n)'
         /\ Queued(i)' \/ sched_epoch' = sched_epoch
         /\ \A n \in Index \ {i} : sched_epoch'[n] = sched_epoch[n]
         /\ \A n : Queued(n)' => Queued(n) \/ n = i
         /\ \/ i \in Sources
            \/ i = Gate /\ config.bootstrap
            \/ \E p : Mutated(p) /\ <<p, i, "Trigger">> \in LibEdges
         /\ i \notin Sources => i \notin ran /\ Queued(i)'
<1>1. /\ phase \in {"notify", "yield", "broadcast"} /\ Wake(i)
      /\ UNCHANGED <<graph, depth, edges, epoch, phase>>
  BY DEF Wakes, graph_vars
<1>2. InCycle /\ InCycle' /\ phase # "node"
  BY <1>1 DEF InCycle, PollPhases, LoopPhases
<1>3. /\ \A n : Queued(n) => Queued(n)'
      /\ \A n \in Index \ {i} : sched_epoch'[n] = sched_epoch[n]
  BY <1>1, WakeStep DEF IInv, Structure
<1>4. /\ \/ i \in Sources
         \/ i = Gate /\ config.bootstrap
         \/ \E p : Mutated(p) /\ <<p, i, "Trigger">> \in LibEdges
      /\ i \notin Sources => i \in graph /\ i \notin ran
  <2>1. CASE phase = "notify"
    BY <2>1 DEF Wakes
  <2>2. CASE phase = "yield"
    <3>1. i = Gate /\ config.bootstrap
      BY <2>2 DEF Wakes, YieldInv
    <3>2. curr_depth = 0 /\ depth[Gate] = 1 /\ Gate \in graph
      BY <2>2, LibDepths DEF OnceInv, CursorAtRest, PollPhases, StaticInv, LibNodes
    <3>3. i \notin ran
      BY <1>2, <3>1, <3>2 DEF IInv, CycleInv, RanAboveCursor
    <3>4. QED
      BY <3>1, <3>2, <3>3
  <2>3. CASE phase = "broadcast"
    <3>1. <<current, i, "Trigger">> \in LibEdges
      BY <2>3 DEF Wakes, Triggered, StaticInv
    <3>2. i \notin ran
      BY <2>3, <3>1, OrderFacts
    <3>3. Mutated(current)
      BY <1>2, <2>3 DEF TurnInv, Mutated
    <3>4. i \in graph
      BY <3>1 DEF StaticInv, IInv, Structure, TypeOK
    <3>5. QED
      BY <3>1, <3>2, <3>3, <3>4
  <2>4. QED
    BY <1>1, <2>1, <2>2, <2>3
<1>5. /\ Queued(i)' \/ sched_epoch' = sched_epoch
      /\ CanSchedule(i) => Queued(i)'
      /\ \A n : Queued(n)' => Queued(n) \/ n = i
  <2>1. CASE ~ CanSchedule(i)
    BY <2>1, SameQueue DEF Wakes, Wake, sched_vars
  <2>2. CASE CanSchedule(i)
    <3>1. i \in graph /\ depth[i] \in Depths /\ depth[i] \in Nat /\ curr_depth \in Nat
      BY <2>2, MaxDepthAssumption
      DEF CanSchedule, IInv, Structure, TypeOK, SchedTypeOK, Depths
    <3>2. depth[i] >= curr_depth
      <4>1. CASE phase = "broadcast"
        <5>1. <<current, i, "Trigger">> \in edges
          BY <4>1 DEF Wakes, Triggered
        <5>2. depth[current] < depth[i] /\ depth[current] = curr_depth
          BY <4>1, <5>1 DEF IInv, Structure, CycleInv, EdgesDescend, CurrentAtCursor
        <5>3. QED
          BY <3>1, <5>2
      <4>2. CASE phase \in {"notify", "yield"}
        BY <3>1, <4>2 DEF OnceInv, CursorAtRest, PollPhases
      <4>3. QED
        BY <1>1, <4>1, <4>2
    <3>3. ScheduleOk(i, depth[i])
      BY <1>1, <2>2, <3>1, <3>2 DEF Wake, ScheduleErr
    <3>4. Queued(i)'
      BY <3>1, <3>3, PushQueued DEF IInv, Structure, SchedInv
    <3>5. \A n : Queued(n)' => Queued(n) \/ n = i
      BY <3>1, <3>3, PushQueued DEF IInv, Structure, SchedInv, Queued
    <3>6. QED
      BY <3>4, <3>5
  <2>3. QED
    BY <2>1, <2>2
<1>6. i \notin Sources => Queued(i)'
  <2> SUFFICES ASSUME i \notin Sources PROVE Queued(i)'
    OBVIOUS
  <2>1. CASE CanSchedule(i)
    BY <1>5, <2>1
  <2>2. CASE ~ CanSchedule(i)
    BY <1>2, <1>3, <1>4, <2>2 DEF CanSchedule, OnceInv, StampedIsServed
  <2>3. QED
    BY <2>1, <2>2
<1>7. QED
  BY <1>2, <1>3, <1>4, <1>5, <1>6

-----------------------------------------------------------------------------
(* The router and its outputs.                                             *)

\* An output waits or runs in a cycle exactly if it was given an item, after
\* the router has finished; and then it broadcasts.
OutputInv ==
  InCycle => \A o \in Outputs :
    /\ o \in ran \/ Queued(o) => cache_epoch[o] = epoch
    /\ cache_epoch[o] = epoch => Router \in ran /\ items[o] # <<>> /\ (Queued(o) \/ o \in ran)
    /\ HasMutated(o) => o \in ran
    /\ Ran(o) => HasMutated(o)
    /\ o \in ran => ~ Runs(Router)

\* What a turn of the router's loop does.
LEMMA RouteFacts ==
  ASSUME IInv, StaticInv, LibTypes, RouteItem
  PROVE  /\ phase = "node" /\ current = Router /\ InCycle /\ InCycle'
         /\ UNCHANGED <<mut_epoch, epoch, phase, current, ran, sched_epoch, yields>>
         /\ \A n : Queued(n) => Queued(n)'
         /\ \/ /\ Head(unrouted)[1] \notin Outputs
               /\ UNCHANGED <<items, cache_epoch>>
               /\ \A n : Queued(n)' => Queued(n)
            \/ \E k \in Outputs :
                 /\ k = Head(unrouted)[1]
                 /\ items' = [items EXCEPT ![k] = Append(Routed(k), Head(unrouted))]
                 /\ cache_epoch' = [cache_epoch EXCEPT ![k] = epoch]
                 /\ cache_epoch[k] # epoch => Queued(k)'
                 /\ \A n : Queued(n)' => Queued(n) \/ n = k
<1>1. /\ phase = "node" /\ current = Router
      /\ UNCHANGED <<mut_epoch, epoch, phase, current, ran, sched_epoch, yields>>
  BY DEF RouteItem, Runs, ScheduleNode, vars, hist_vars, node_vars, queue_vars
<1>2. InCycle /\ InCycle'
  BY <1>1 DEF InCycle, LoopPhases
<1>3. ASSUME UNCHANGED vars PROVE \A n : Queued(n)' <=> Queued(n)
  BY <1>3, SameQueue DEF vars, sched_vars
<1>4. ASSUME NEW k \in Outputs, ScheduleNode(k)
      PROVE  /\ Queued(k)'
             /\ \A n : Queued(n) => Queued(n)'
             /\ \A n : Queued(n)' => Queued(n) \/ n = k
  <2>1. k \in Index /\ depth[k] = 1 /\ depth[Router] = 1 /\ depth[k] \in Depths
    BY InIndex, LibDepths DEF Outputs, StaticInv, IInv, Structure, TypeOK
  <2>2. curr_depth = 1
    BY <1>1, <2>1 DEF IInv, CycleInv, CurrentAtCursor
  <2>3. ScheduleOk(k, depth[k])
    BY <1>4, <2>1, <2>2 DEF ScheduleNode, ScheduleErr
  <2>4. Queued(k)' /\ \A n : Queued(n) => Queued(n)'
    BY <2>1, <2>3, PushQueued DEF IInv, Structure, SchedInv
  <2>5. \A n : Queued(n)' => Queued(n) \/ n = k
    BY <2>1, <2>3, PushQueued DEF IInv, Structure, SchedInv, Queued
  <2>6. QED
    BY <2>4, <2>5
<1>5. CASE Head(unrouted)[1] \notin Outputs
  BY <1>1, <1>2, <1>3, <1>5 DEF RouteItem
<1>6. CASE Head(unrouted)[1] \in Outputs
  <2>1. PICK k \in Outputs : k = Head(unrouted)[1]
    BY <1>6
  <2>2. /\ items' = [items EXCEPT ![k] = Append(Routed(k), Head(unrouted))]
        /\ cache_epoch' = [cache_epoch EXCEPT ![k] = epoch]
        /\ IF FirstOfCycle(k) THEN ScheduleNode(k) ELSE UNCHANGED vars
    BY <2>1 DEF RouteItem
  <2>3. CASE FirstOfCycle(k)
    BY <1>1, <1>2, <1>4, <2>1, <2>2, <2>3
  <2>4. CASE ~ FirstOfCycle(k)
    BY <1>1, <1>2, <1>3, <2>1, <2>2, <2>4 DEF FirstOfCycle
  <2>5. QED
    BY <2>3, <2>4
<1>7. QED
  BY <1>5, <1>6

\* What entering a node does.
LEMMA EnterFacts ==
  ASSUME IInv, OnceInv(Outputs), NEW i \in LibNodes, EnterLibraryNode(i)
  PROVE  /\ phase = "exec" /\ phase' = "node" /\ InCycle /\ InCycle'
         /\ current' = i /\ ran' = ran \cup {i}
         /\ UNCHANGED <<mut_epoch, epoch, sched_epoch, yields, value, cache_epoch,
                        use_primary, config>>
         /\ Queued(i)
         /\ i \notin Outputs => i \notin ran
         /\ \A n : Queued(n) /\ n # i => Queued(n)'
         /\ \A n : Queued(n)' => Queued(n)
<1>1. /\ PopSome(i) /\ phase = "exec" /\ phase' = "node"
      /\ current' = i /\ ran' = ran \cup {i}
      /\ UNCHANGED <<mut_epoch, epoch, sched_epoch, yields, value, cache_epoch,
                     use_primary, config>>
  BY DEF EnterLibraryNode, EnterNode, node_vars, queue_vars
<1>2. InCycle /\ InCycle'
  BY <1>1 DEF InCycle, LoopPhases
<1>3. /\ Queued(i)
      /\ \A n : Queued(n) /\ n # i => Queued(n)'
  BY <1>1, PopQueued DEF IInv, Structure, SchedInv
<1>4. \A n : Queued(n)' => Queued(n)
  BY <1>1, PopAddsNone DEF IInv, Structure, SchedInv
<1>5. i \notin Outputs => i \notin ran
  BY <1>2, <1>3 DEF OnceInv, RanIsDone
<1>6. QED
  BY <1>1, <1>2, <1>3, <1>4, <1>5

\* What a node of the library that is not an output leaves to the outputs.
LEMMA OutputStep ==
  ASSUME IInv, OnceInv(Outputs), StaticInv, LibTypes, YieldInv, TurnInv, OutputInv, LibNext
  PROVE  OutputInv'
<1> USE DEF Outputs
<1>1. CASE BeginCycle /\ UNCHANGED lib_vars
  <2>1. \A n : ~ Queued(n)'
    BY <1>1, EmptyNotQueued, SameQueue DEF BeginCycle, OnceInv, CursorAtRest, sched_vars
  <2>2. \A o \in Outputs : cache_epoch'[o] # epoch' /\ mut_epoch'[o] # epoch'
    BY <1>1, EpochGrows, InIndex DEF LibTypes, lib_vars, BeginCycle, node_vars
  <2>3. ran' = {}
    BY <1>1 DEF BeginCycle
  <2>4. QED
    BY <2>1, <2>2, <2>3 DEF OutputInv, HasMutated, Ran
<1>2. CASE EndLoop
  BY <1>2 DEF EndLoop, OutputInv, InCycle, PollPhases, LoopPhases
<1>3. CASE Moves
  <2>1. \A n : Queued(n)' <=> Queued(n)
    BY <1>3, SameQueue DEF Moves, sched_vars
  <2>2. \A n : Ran(n)' => Ran(n)
    BY <1>3 DEF Moves, Ran, Runs
  <2>3. QED
    BY <1>3, <2>1, <2>2 DEF Moves, OutputInv, HasMutated, Runs, lib_vars
<1>4. ASSUME NEW i \in Index, Wakes(i) PROVE OutputInv'
  <2>1. i \notin Outputs
    BY <1>4, WokenBy, LibEdgesAre, Apart DEF Sources
  <2>2. /\ phase # "node" /\ InCycle
        /\ \A n : Queued(n) => Queued(n)'
        /\ \A n : Queued(n)' => Queued(n) \/ n = i
    BY <1>4, WokenBy
  <2>3. UNCHANGED <<mut_epoch, epoch, phase, current, ran, items, cache_epoch>>
    BY <1>4 DEF Wakes, lib_vars
  <2>4. QED
    BY <2>1, <2>2, <2>3 DEF OutputInv, HasMutated, Runs, Ran
<1>5. ASSUME NEW i \in LibNodes, EnterLibraryNode(i) PROVE OutputInv'
  <2>1. \A o \in Outputs : items'[o] = items[o]
    BY <1>5, Apart DEF EnterLibraryNode, LibTypes
  <2>2. i = Router => \A o \in Outputs : o \notin ran
    BY <1>5, EnterFacts, Apart DEF OutputInv
  <2>3. \A o \in Outputs : Ran(o)' => Ran(o)
    BY <1>5, EnterFacts DEF Ran, Runs
  <2>4. QED
    BY <1>5, <2>1, <2>2, <2>3, EnterFacts, Apart DEF OutputInv, HasMutated, Runs
<1>6. CASE RunSource \/ EndRoute \/ RunGate \/ RunPick \/ RunMerge
  <2>1. ReturnBroadcast \/ ReturnUnchanged
    BY <1>6 DEF RunSource, EndRoute, RunGate, RunPick, RunMerge
  <2>2. current \notin Outputs
    BY <1>6, Apart DEF RunSource, EndRoute, RunGate, RunPick, RunMerge, Runs, Sources
  <2>3. InCycle
    BY <2>1, ReturnsChange DEF InCycle, LoopPhases
  <2>4. /\ cache_epoch' = cache_epoch
        /\ \A o \in Outputs : items'[o] = items[o]
    BY <1>6, Apart DEF RunSource, EndRoute, RunGate, RunPick, RunMerge, lib_vars, LibTypes
  <2>5. \A o \in Outputs : mut_epoch'[o] = mut_epoch[o]
    BY <2>1, <2>2, ReturnsChange, InIndex DEF IInv, Structure, TypeOK
  <2>6. \A n : Queued(n)' <=> Queued(n)
    BY <2>1, ReturnsChange, SameQueue DEF sched_vars
  <2>7. \A o \in Outputs : (Ran(o)' => Ran(o)) /\ ~ Runs(Router)'
    BY <2>1, <2>2, ReturnsChange DEF Ran, Runs
  <2>8. UNCHANGED <<epoch, ran>>
    BY <2>1, ReturnsChange
  <2>9. QED
    BY <2>3, <2>4, <2>5, <2>6, <2>7, <2>8 DEF OutputInv, HasMutated
<1>7. CASE RunOutput
  <2>1. /\ current \in Outputs /\ phase = "node" /\ UNCHANGED lib_vars
        /\ IF items[current] # <<>> THEN ReturnBroadcast ELSE ReturnUnchanged
    BY <1>7 DEF RunOutput
  <2>2. InCycle /\ current \in ran
    BY <2>1 DEF InCycle, LoopPhases, TurnInv
  <2>3. ReturnBroadcast
    BY <2>1, <2>2 DEF OutputInv
  <2>4. mut_epoch' = [mut_epoch EXCEPT ![current] = epoch]
    BY <2>3, ReturnsChange
  <2>5. \A n : Queued(n)' <=> Queued(n)
    BY <2>3, ReturnsChange, SameQueue DEF sched_vars
  <2>6. \A o \in Outputs : Ran(o)' => Ran(o) \/ o = current
    BY <2>3, ReturnsChange DEF Ran, Runs
  <2>7. /\ mut_epoch'[current] = epoch
        /\ \A o \in Outputs : o # current => mut_epoch'[o] = mut_epoch[o]
    BY <2>1, <2>4, InIndex DEF IInv, Structure, TypeOK
  <2>8. UNCHANGED <<epoch, ran, items, cache_epoch>> /\ ~ Runs(Router)'
    BY <2>1, <2>3, ReturnsChange DEF lib_vars, Runs
  <2>9. QED
    BY <2>2, <2>5, <2>6, <2>7, <2>8 DEF OutputInv, HasMutated
<1>8. CASE RouteItem
  <2>1. /\ phase = "node" /\ current = Router /\ InCycle
        /\ UNCHANGED <<mut_epoch, epoch, phase, current, ran>>
        /\ Router \in ran
    BY <1>8, RouteFacts DEF TurnInv
  <2>2. \A o \in Outputs : o \notin ran
    BY <2>1 DEF OutputInv, Runs
  <2>3. CASE UNCHANGED <<items, cache_epoch>> /\ \A n : Queued(n)' <=> Queued(n)
    BY <2>1, <2>2, <2>3 DEF OutputInv, HasMutated, Ran
  <2>4. ASSUME NEW k \in Outputs,
               items' = [items EXCEPT ![k] = Append(Routed(k), Head(unrouted))],
               cache_epoch' = [cache_epoch EXCEPT ![k] = epoch],
               cache_epoch[k] # epoch => Queued(k)',
               \A n : Queued(n)' => Queued(n) \/ n = k,
               \A n : Queued(n) => Queued(n)'
        PROVE  OutputInv'
    <3>1. /\ cache_epoch'[k] = epoch
          /\ \A o \in Outputs : o # k => /\ cache_epoch'[o] = cache_epoch[o]
                                         /\ items'[o] = items[o]
      BY <2>4 DEF LibTypes
    <3>2. items'[k] # <<>>
      <4>1. Routed(k) \in Seq(Item)
        BY DEF Routed, LibTypes
      <4>2. items'[k] = Append(Routed(k), Head(unrouted))
        BY <2>4 DEF LibTypes
      <4>3. Len(items'[k]) = Len(Routed(k)) + 1 /\ Len(Routed(k)) \in Nat
        BY <4>1, <4>2
      <4>4. QED
        BY <4>3
    <3>3. Queued(k)'
      BY <2>1, <2>2, <2>4 DEF OutputInv
    <3>4. QED
      BY <2>1, <2>2, <2>4, <3>1, <3>2, <3>3 DEF OutputInv, HasMutated, Ran
  <2>5. QED
    BY <1>8, <2>3, <2>4, RouteFacts
<1>9. QED
  BY <1>1, <1>2, <1>3, <1>4, <1>5, <1>6, <1>7, <1>8, LibKinds

-----------------------------------------------------------------------------
(* The derived nodes.                                                      *)

LibInv ==
  /\ IInv /\ OnceInv(Outputs) /\ StaticInv /\ LibTypes
  /\ YieldInv /\ TurnInv /\ OutputInv

Started == sched_epoch[Gate] # 0 \/ (config.bootstrap /\ epoch # 0)

\* A gate that has started and does not fit its inputs has yet to run, and
\* will: an input of it has mutated, it yielded, or it waits.
GateInv ==
  Started /\ value[Gate] # Apply(value[Left], value[Right]) =>
    /\ InCycle /\ ~ Ran(Gate)
    /\ \/ Mutated(Left) \/ Mutated(Right)
       \/ Gate \in yields \/ Queued(Gate) \/ Runs(Gate)

\* A switch that does not follow the gate has yet to run, and the gate mutated.
ControlInv ==
  \A n \in Switches : use_primary[n] # value[Gate] => Mutated(Gate) /\ ~ Ran(n)

\* A switch that does not hold the selected input has yet to run, and will
\* find that its control or the input it knows has mutated.
PickInv ==
  mut_epoch[Pick] # 0 /\ value[Pick] # value[Selected(Pick, value[Gate])] =>
    /\ ~ Ran(Pick)
    /\ Mutated(Gate) \/ Mutated(Selected(Pick, use_primary[Pick]))

\* The items of an output change before it runs: while the router does.
MergeInv ==
  items[Merge] # items[Selected(Merge, value[Gate])] =>
    /\ InCycle /\ ~ Ran(Merge)
    /\ Mutated(Gate) \/ cache_epoch[Selected(Merge, use_primary[Merge])] = epoch

DataInv == GateInv /\ ControlInv /\ PickInv /\ MergeInv

LEMMA SelectedInputs ==
  /\ \A b \in BOOLEAN : Selected(Pick, b) \in {Left, Right}
  /\ \A b \in BOOLEAN : Selected(Merge, b) \in Outputs
  /\ \A n \in Switches, b \in BOOLEAN :
       <<Selected(n, b), n, "Trigger">> \in LibEdges
  /\ \A n \in Switches : <<Gate, n, "Trigger">> \in LibEdges
BY Apart, LibEdgesHas DEF Selected, Outputs, Switches

\* What the steps in which no node runs leave alone
LEMMA QuietFacts ==
  ASSUME Moves \/ \E i \in Index : Wakes(i)
  PROVE  /\ InCycle' = InCycle
         /\ UNCHANGED <<mut_epoch, epoch, lib_vars>>
         /\ \A n : (Ran(n)' <=> Ran(n)) /\ (Mutated(n)' <=> Mutated(n))
         /\ \A n : Runs(n) => ~ Moves
         /\ \A n : Runs(n)' <=> Runs(n)
<1>1. CASE Moves
  BY <1>1 DEF Moves, Ran, Runs, Mutated, HasMutated
<1>2. CASE \E i \in Index : Wakes(i)
  BY <1>2 DEF Moves, Wakes, Ran, Runs, Mutated, HasMutated, InCycle
<1>3. QED
  BY <1>1, <1>2

\* What it means that a node returns
LEMMA ReturnFacts ==
  ASSUME LibInv, ReturnBroadcast \/ ReturnUnchanged
  PROVE  /\ InCycle /\ InCycle' /\ current \in Index
         /\ epoch' = epoch /\ yields' = yields /\ sched_epoch' = sched_epoch
         /\ \A n : n # current => (Ran(n)' <=> Ran(n)) /\ ~ Runs(n)
         /\ \A n \in Index : Mutated(n) => Mutated(n)'
         /\ \A n \in Index : n # current => mut_epoch'[n] = mut_epoch[n]
         /\ ReturnBroadcast => Mutated(current)'
         /\ ReturnUnchanged => mut_epoch' = mut_epoch
         /\ \A n : Queued(n)' <=> Queued(n)
         /\ \A n : ~ Runs(n)'
<1>1. InCycle /\ InCycle'
  BY ReturnsChange DEF InCycle, LoopPhases
<1>2. current \in Index /\ mut_epoch \in [Index -> Nat]
  BY ReturnsChange DEF LibInv, IInv, Structure, CycleInv, CurrentAtCursor, TypeOK
<1>3. /\ \A n : n # current => (Ran(n)' <=> Ran(n)) /\ ~ Runs(n)
      /\ \A n : ~ Runs(n)'
  BY ReturnsChange DEF Ran, Runs
<1>4. \A n : Queued(n)' <=> Queued(n)
  BY ReturnsChange, SameQueue DEF sched_vars
<1>5. CASE ReturnBroadcast
  <2>1. /\ mut_epoch'[current] = epoch /\ epoch' = epoch
        /\ \A n \in Index : n # current => mut_epoch'[n] = mut_epoch[n]
        /\ ~ ReturnUnchanged
    BY <1>2, <1>5, ReturnsChange DEF ReturnUnchanged
  <2>2. \A n \in Index : Mutated(n) => Mutated(n)'
    BY <1>1, <2>1 DEF Mutated, HasMutated
  <2>3. Mutated(current)'
    <3>1. current' = current
      BY ReturnsChange
    <3>2. QED
      BY <1>1, <2>1, <3>1 DEF Mutated, HasMutated
  <2>4. QED
    BY <1>1, <1>2, <1>3, <1>4, <2>1, <2>2, <2>3, ReturnsChange
<1>6. CASE ~ ReturnBroadcast
  <2>1. \A n \in Index : Mutated(n) => Mutated(n)'
    BY <1>1, <1>6, ReturnsChange DEF Mutated, HasMutated
  <2>2. QED
    BY <1>1, <1>2, <1>3, <1>4, <1>6, <2>1, ReturnsChange
<1>7. QED
  BY <1>5, <1>6

LEMMA GateStep ==
  ASSUME LibInv, GateInv, LibNext
  PROVE  GateInv'
<1>0. /\ IInv /\ OnceInv(Outputs) /\ StaticInv /\ YieldInv /\ TurnInv
      /\ value \in [{Left, Right, Gate, Pick} -> BOOLEAN]
      /\ Left # Gate /\ Right # Gate /\ Pick \notin {Left, Right, Gate}
  BY Apart DEF LibInv, LibTypes
<1>1. CASE BeginCycle /\ UNCHANGED lib_vars
  <2>1. /\ UNCHANGED <<sched_epoch, yields, value, config>>
        /\ InCycle' /\ ~ InCycle /\ ran' = {}
    BY <1>1 DEF BeginCycle, lib_vars, InCycle, PollPhases, LoopPhases, queue_vars
  <2>2. ~ Started => (Started' => Gate \in yields')
    BY <1>0, <2>1 DEF Started, YieldInv
  <2>3. ~ Ran(Gate)'
    BY <2>1 DEF Ran
  <2>4. Apply(value[Left], value[Right])' = Apply(value[Left], value[Right])
    BY <2>1 DEF Apply
  <2>5. QED
    BY <2>1, <2>2, <2>3, <2>4 DEF GateInv
<1>2. CASE EndLoop /\ UNCHANGED lib_vars
  <2>1. /\ phase = "exec" /\ \A i : ~ Queued(i)
    BY <1>0, <1>2, LoopOver
  <2>2. UNCHANGED <<sched_epoch, yields, value, config, epoch>>
    BY <1>2 DEF EndLoop, lib_vars, queue_vars
  <2>3. Mutated(Left) \/ Mutated(Right) => Ran(Gate)
    BY <1>0, <2>1, MutatedReached, LibEdgesHas
  <2>4. ~ (Gate \in yields) /\ ~ Runs(Gate)
    BY <1>0, <2>1 DEF YieldInv, Runs
  <2>5. Apply(value[Left], value[Right])' = Apply(value[Left], value[Right])
    BY <2>2 DEF Apply
  <2>6. QED
    BY <2>1, <2>2, <2>3, <2>4, <2>5 DEF GateInv, Started
<1>3. CASE Moves
  <2>1. UNCHANGED <<sched_epoch, yields, value, config, epoch>>
    BY <1>3 DEF Moves, lib_vars
  <2>2. \A n : Queued(n)' <=> Queued(n)
    BY <1>3, SameQueue DEF Moves, sched_vars
  <2>3. Apply(value[Left], value[Right])' = Apply(value[Left], value[Right])
    BY <2>1 DEF Apply
  <2>4. QED
    BY <1>3, <2>1, <2>2, <2>3, QuietFacts DEF GateInv, Started
<1>4. ASSUME NEW i \in Index, Wakes(i) PROVE GateInv'
  <2>1. /\ UNCHANGED <<value, config, epoch>> /\ yields' \in {yields, yields \ {i}}
    BY <1>4 DEF Wakes, lib_vars
  <2>2. Apply(value[Left], value[Right])' = Apply(value[Left], value[Right])
    BY <2>1 DEF Apply
  <2>3. /\ InCycle' /\ \A n : Queued(n) => Queued(n)'
        /\ \A n \in Index \ {i} : sched_epoch'[n] = sched_epoch[n]
        /\ i \notin Sources => i \notin ran /\ Queued(i)'
    BY <1>0, <1>4, WokenBy
  <2>4. CASE i = Gate
    <3>1. Queued(Gate)' /\ ~ Ran(Gate)'
      BY <1>4, <2>3, <2>4, QuietFacts, Apart DEF Sources, Ran
    <3>2. QED
      BY <2>3, <3>1 DEF GateInv
  <2>5. CASE i # Gate
    <3>1. sched_epoch'[Gate] = sched_epoch[Gate] /\ (Gate \in yields => Gate \in yields')
      BY <2>1, <2>3, <2>5, InIndex
    <3>2. QED
      BY <1>4, <2>1, <2>2, <2>3, <3>1, QuietFacts DEF GateInv, Started
  <2>6. QED
    BY <2>4, <2>5
<1>5. ASSUME NEW i \in LibNodes, EnterLibraryNode(i) PROVE GateInv'
  <2>1. Apply(value[Left], value[Right])' = Apply(value[Left], value[Right])
    BY <1>5 DEF Apply, EnterLibraryNode
  <2>2. \A n : Mutated(n) => Mutated(n)'
    BY <1>0, <1>5, EnterFacts DEF Mutated, HasMutated
  <2>3. Ran(Gate)' => Ran(Gate) /\ i # Gate
    BY <1>0, <1>5, EnterFacts DEF Ran, Runs
  <2>4. i = Gate => Runs(Gate)'
    BY <1>0, <1>5, EnterFacts DEF Runs
  <2>5. ~ Runs(Gate)
    BY <1>0, <1>5, EnterFacts DEF Runs
  <2>6. QED
    BY <1>0, <1>5, <2>1, <2>2, <2>3, <2>4, <2>5, EnterFacts DEF GateInv, Started
<1>6. CASE RunSource
  <2>1. /\ ReturnBroadcast \/ ReturnUnchanged
        /\ phase = "node" /\ current \in Sources
        /\ \/ value' = value
           \/ /\ current # Stream /\ value' = [value EXCEPT ![current] = ~ @]
              /\ ReturnBroadcast
        /\ config' = config
    BY <1>6 DEF RunSource
  <2>2. current # Gate
    BY <2>1, Apart DEF Sources
  <2>3. CASE value' = value
    <3>1. Apply(value[Left], value[Right])' = Apply(value[Left], value[Right])
      BY <2>1, <2>3 DEF Apply
    <3>2. QED
      BY <2>1, <2>2, <2>3, <3>1, ReturnFacts, InIndex DEF GateInv, Started
  <2>4. CASE current # Stream /\ value' = [value EXCEPT ![current] = ~ @] /\ ReturnBroadcast
    <3>1. current \in {Left, Right} /\ Mutated(current)' /\ InCycle'
      BY <2>1, <2>4, ReturnFacts DEF Sources
    <3>2. Gate \notin ran
      BY <1>0, <2>1, <3>1, OrderFacts, LibEdgesHas
    <3>3. ~ Ran(Gate)'
      BY <2>1, <2>2, <3>2, ReturnFacts DEF Ran
    <3>4. current' = current
      BY <2>1, ReturnsChange
    <3>5. Mutated(Left)' \/ Mutated(Right)'
      BY <3>1, <3>4
    <3>6. QED
      BY <3>1, <3>3, <3>5 DEF GateInv
  <2>5. QED
    BY <2>1, <2>3, <2>4
<1>7. CASE RouteItem
  <2>1. /\ UNCHANGED <<value, config>>
        /\ UNCHANGED <<mut_epoch, epoch, phase, current, ran, sched_epoch, yields>>
        /\ InCycle' /\ \A n : Queued(n) => Queued(n)'
    BY <1>7, RouteFacts DEF RouteItem, LibInv
  <2>2. Apply(value[Left], value[Right])' = Apply(value[Left], value[Right])
    BY <2>1 DEF Apply
  <2>3. QED
    BY <2>1, <2>2 DEF GateInv, Started, Ran, Runs, Mutated, HasMutated
<1>8. CASE EndRoute \/ RunOutput \/ RunPick \/ RunMerge
  <2>1. /\ ReturnBroadcast \/ ReturnUnchanged
        /\ \A n \in {Left, Right, Gate} : value'[n] = value[n]
        /\ config' = config /\ current # Gate
    BY <1>0, <1>8, Apart DEF EndRoute, RunOutput, RunPick, RunMerge, lib_vars, Runs, Outputs
  <2>2. Apply(value[Left], value[Right])' = Apply(value[Left], value[Right])
    BY <2>1 DEF Apply
  <2>3. QED
    BY <2>1, <2>2, ReturnFacts, InIndex DEF GateInv, Started
<1>9. CASE RunGate
  <2>1. /\ value' = [value EXCEPT ![Gate] = Apply(value[Left], value[Right])]
        /\ config' = config
    BY <1>9 DEF RunGate
  <2>2. /\ value'[Left] = value[Left] /\ value'[Right] = value[Right]
        /\ value'[Gate] = Apply(value[Left], value[Right])
    BY <1>0, <2>1
  <2>3. Apply(value[Left], value[Right])' = Apply(value[Left], value[Right])
    BY <2>1, <2>2 DEF Apply
  <2>4. QED
    BY <2>2, <2>3 DEF GateInv
<1>10. QED
  BY <1>0, <1>1, <1>2, <1>3, <1>4, <1>5, <1>6, <1>7, <1>8, <1>9, LibKinds

LEMMA ControlStep ==
  ASSUME LibInv, ControlInv, LibNext
  PROVE  ControlInv'
<1>0. /\ IInv /\ OnceInv(Outputs) /\ StaticInv /\ TurnInv
      /\ value \in [{Left, Right, Gate, Pick} -> BOOLEAN]
      /\ use_primary \in [Switches -> BOOLEAN] /\ Switches \subseteq Index
      /\ Gate \notin Switches
  BY Apart, InIndex DEF LibInv, LibTypes, Switches
<1>1. CASE BeginCycle /\ UNCHANGED lib_vars
  BY <1>1 DEF BeginCycle, lib_vars, ControlInv, Mutated, InCycle, PollPhases, LoopPhases
<1>2. CASE EndLoop /\ UNCHANGED lib_vars
  <2>1. \A n \in Switches : Mutated(Gate) => Ran(n)
    BY <1>0, <1>2, LoopOver, MutatedReached, SelectedInputs
  <2>2. QED
    BY <1>2, <2>1 DEF ControlInv, lib_vars
<1>3. CASE Moves \/ \E i \in Index : Wakes(i)
  BY <1>3, QuietFacts DEF ControlInv, lib_vars
<1>4. ASSUME NEW i \in LibNodes, EnterLibraryNode(i) PROVE ControlInv'
  <2>1. \A n : Ran(n)' => Ran(n)
    BY <1>0, <1>4, EnterFacts DEF Ran, Runs
  <2>2. Mutated(Gate) => Mutated(Gate)'
    BY <1>0, <1>4, EnterFacts DEF Mutated, HasMutated
  <2>3. QED
    BY <1>0, <1>4, <2>1, <2>2, EnterFacts DEF ControlInv
<1>5. CASE RouteItem
  <2>1. UNCHANGED <<value, use_primary, mut_epoch, epoch, phase, current, ran>> /\ InCycle'
    BY <1>0, <1>5, RouteFacts DEF RouteItem, LibInv
  <2>2. QED
    BY <2>1 DEF ControlInv, Mutated, HasMutated, Ran, Runs
<1>6. CASE RunSource \/ EndRoute \/ RunOutput
  <2>1. /\ ReturnBroadcast \/ ReturnUnchanged
        /\ current \notin Switches /\ value'[Gate] = value[Gate] /\ use_primary' = use_primary
    BY <1>0, <1>6, Apart DEF RunSource, EndRoute, RunOutput, lib_vars, Runs, Sources,
       Outputs, Switches
  <2>2. QED
    BY <2>1, ReturnFacts, InIndex DEF ControlInv
<1>7. CASE RunGate
  <2>1. /\ ReturnBroadcast \/ ReturnUnchanged
        /\ value'[Gate] # value[Gate] => ReturnBroadcast
        /\ current = Gate /\ phase = "node" /\ use_primary' = use_primary
    BY <1>7 DEF RunGate, Runs
  <2>2. CASE value'[Gate] = value[Gate]
    BY <1>0, <2>1, <2>2, ReturnFacts, InIndex DEF ControlInv
  <2>3. CASE ReturnBroadcast
    <3>1. Mutated(Gate)'
      BY <2>1, <2>3, ReturnFacts, ReturnsChange
    <3>2. \A n \in Switches : n \notin ran
      BY <1>0, <2>1, OrderFacts, SelectedInputs
    <3>3. \A n \in Switches : ~ Ran(n)'
      BY <2>3, <3>2, ReturnsChange DEF Ran
    <3>4. QED
      BY <3>1, <3>3 DEF ControlInv
  <2>4. QED
    BY <2>1, <2>2, <2>3
<1>8. ASSUME NEW n \in Switches, Runs(n), ReturnBroadcast \/ ReturnUnchanged,
             use_primary' = [use_primary EXCEPT ![n] = Choice(n)],
             value'[Gate] = value[Gate]
      PROVE  ControlInv'
  <2>1. Choice(n) = value[Gate]
    <3>1. use_primary[n] # value[Gate] => HasMutated(Gate)
      BY DEF ControlInv, Mutated
    <3>2. QED
      BY <3>1 DEF Choice
  <2>2. use_primary'[n] = value'[Gate]
    BY <1>0, <1>8, <2>1
  <2>3. ASSUME NEW m \in Switches, m # n, use_primary'[m] # value'[Gate]
        PROVE  Mutated(Gate)' /\ ~ Ran(m)'
    <3>1. use_primary[m] # value[Gate]
      BY <1>0, <1>8, <2>3
    <3>2. Mutated(Gate) /\ ~ Ran(m) /\ m # current
      BY <1>8, <2>3, <3>1 DEF ControlInv, Runs
    <3>3. QED
      BY <1>8, <3>2, ReturnFacts, InIndex
  <2>4. QED
    BY <2>2, <2>3 DEF ControlInv
<1>9. CASE RunPick \/ RunMerge
  <2>1. CASE RunPick
    <3>1. Pick \in Switches /\ value'[Gate] = value[Gate]
      BY <1>0, <2>1, Apart DEF RunPick, Switches
    <3>2. QED
      BY <1>8, <2>1, <3>1 DEF RunPick
  <2>2. CASE RunMerge
    BY <1>8, <2>2 DEF RunMerge, Switches
  <2>3. QED
    BY <1>9, <2>1, <2>2
<1>10. QED
  BY <1>0, <1>1, <1>2, <1>3, <1>4, <1>5, <1>6, <1>7, <1>9, LibKinds

\* Once it runs, a switch follows the gate.
LEMMA ChoiceIsControl ==
  ASSUME ControlInv, NEW n \in Switches
  PROVE  Choice(n) = value[Gate]
<1>1. use_primary[n] # value[Gate] => HasMutated(Gate)
  BY DEF ControlInv, Mutated
<1>2. QED
  BY <1>1 DEF Choice

LEMMA PickStep ==
  ASSUME LibInv, ControlInv, PickInv, LibNext
  PROVE  PickInv'
<1>0. /\ IInv /\ OnceInv(Outputs) /\ StaticInv /\ TurnInv
      /\ value \in [{Left, Right, Gate, Pick} -> BOOLEAN]
      /\ use_primary \in [Switches -> BOOLEAN]
      /\ value[Gate] \in BOOLEAN /\ use_primary[Pick] \in BOOLEAN
      /\ Pick \in Switches /\ Pick \in Index
      /\ Pick \notin {Left, Right, Stream, Gate, Router, OutA, OutB, Merge}
      /\ Gate \notin {Left, Right} /\ Left \in Index /\ Right \in Index /\ Gate \in Index
  BY Apart, InIndex DEF LibInv, LibTypes, Switches
<1>a. \A b \in BOOLEAN : Selected(Pick, b) \in {Left, Right}
  BY SelectedInputs
<1>b. ASSUME UNCHANGED use_primary, \A n \in {Left, Right, Gate, Pick} : value'[n] = value[n],
             mut_epoch'[Pick] = mut_epoch[Pick], Ran(Pick)' => Ran(Pick),
             \A n \in Index : Mutated(n) => Mutated(n)'
      PROVE  PickInv'
  <2>1. /\ value'[Selected(Pick, value'[Gate])] = value[Selected(Pick, value[Gate])]
        /\ value'[Pick] = value[Pick]
    BY <1>0, <1>a, <1>b
  <2>2. Selected(Pick, use_primary[Pick]) \in Index
    BY <1>0, <1>a
  <2>3. QED
    BY <1>0, <1>b, <2>1, <2>2 DEF PickInv
<1>1. CASE BeginCycle /\ UNCHANGED lib_vars
  <2>1. ~ InCycle /\ UNCHANGED <<mut_epoch, value, use_primary>>
    BY <1>1 DEF BeginCycle, lib_vars, node_vars, InCycle, PollPhases, LoopPhases
  <2>2. QED
    BY <2>1 DEF PickInv, Mutated
<1>2. CASE EndLoop /\ UNCHANGED lib_vars
  <2>1. \A p \in {Left, Right, Gate} : Mutated(p) => Ran(Pick)
    BY <1>0, <1>2, LoopOver, MutatedReached, LibEdgesHas
  <2>2. UNCHANGED <<mut_epoch, value, use_primary>>
    BY <1>2 DEF EndLoop, lib_vars, node_vars
  <2>3. QED
    BY <1>0, <1>a, <2>1, <2>2 DEF PickInv
<1>3. CASE Moves \/ \E i \in Index : Wakes(i)
  BY <1>3, <1>b, QuietFacts DEF lib_vars
<1>4. ASSUME NEW i \in LibNodes, EnterLibraryNode(i) PROVE PickInv'
  <2>1. Ran(Pick)' => Ran(Pick)
    BY <1>0, <1>4, EnterFacts DEF Ran, Runs
  <2>2. \A n \in Index : Mutated(n) => Mutated(n)'
    BY <1>0, <1>4, EnterFacts DEF Mutated, HasMutated
  <2>3. QED
    BY <1>0, <1>4, <1>b, <2>1, <2>2, EnterFacts
<1>5. CASE RouteItem
  <2>1. UNCHANGED <<value, use_primary, mut_epoch, epoch, phase, current, ran>> /\ InCycle'
    BY <1>0, <1>5, RouteFacts DEF RouteItem, LibInv
  <2>2. QED
    BY <1>b, <2>1 DEF Mutated, HasMutated, Ran, Runs
<1>6. CASE EndRoute \/ RunOutput \/ RunMerge
  <2>1. /\ ReturnBroadcast \/ ReturnUnchanged
        /\ current # Pick /\ value' = value /\ use_primary'[Pick] = use_primary[Pick]
        /\ use_primary' \in {use_primary, [use_primary EXCEPT ![Merge] = Choice(Merge)]}
    BY <1>0, <1>6 DEF EndRoute, RunOutput, RunMerge, lib_vars, Runs, Outputs
  <2>2. /\ value'[Selected(Pick, value'[Gate])] = value[Selected(Pick, value[Gate])]
        /\ Selected(Pick, use_primary[Pick]) \in Index
    BY <1>0, <1>a, <2>1
  <2>3. QED
    BY <1>0, <2>1, <2>2, ReturnFacts DEF PickInv
<1>7. CASE RunSource
  <2>1. /\ ReturnBroadcast \/ ReturnUnchanged
        /\ phase = "node" /\ current \in Sources /\ use_primary' = use_primary
        /\ \/ value' = value
           \/ /\ current # Stream /\ value' = [value EXCEPT ![current] = ~ @]
              /\ ReturnBroadcast
    BY <1>7 DEF RunSource
  <2>2. current # Pick
    BY <1>0, <2>1 DEF Sources
  <2>3. CASE value' = value
    BY <1>0, <1>b, <2>1, <2>2, <2>3, ReturnFacts
  <2>4. CASE current # Stream /\ value' = [value EXCEPT ![current] = ~ @] /\ ReturnBroadcast
    <3>1. current \in {Left, Right} /\ Mutated(current)' /\ current' = current
      BY <2>1, <2>4, ReturnFacts, ReturnsChange DEF Sources
    <3>2. Pick \notin ran
      BY <1>0, <2>1, <3>1, OrderFacts, LibEdgesHas
    <3>3. ~ Ran(Pick)'
      BY <2>4, <3>2, ReturnsChange DEF Ran
    <3>4. value'[Gate] = value[Gate] /\ value'[Pick] = value[Pick]
      BY <1>0, <2>4, <3>1
    <3>5. mut_epoch'[Pick] = mut_epoch[Pick]
      BY <1>0, <2>1, <2>2, ReturnFacts
    <3>6. CASE Selected(Pick, value[Gate]) = current
      <4>1. CASE use_primary[Pick] = value[Gate]
        BY <2>1, <3>1, <3>3, <3>6, <4>1 DEF PickInv
      <4>2. CASE use_primary[Pick] # value[Gate]
        <5>1. Mutated(Gate)'
          BY <1>0, <2>1, <4>2, ReturnFacts DEF ControlInv
        <5>2. QED
          BY <3>3, <5>1 DEF PickInv
      <4>3. QED
        BY <4>1, <4>2
    <3>7. CASE Selected(Pick, value[Gate]) # current
      <4>1. value'[Selected(Pick, value[Gate])] = value[Selected(Pick, value[Gate])]
        BY <1>0, <1>a, <2>4, <3>1, <3>7
      <4>2. Selected(Pick, use_primary[Pick]) \in Index
        BY <1>0, <1>a
      <4>3. QED
        BY <1>0, <2>1, <3>3, <3>4, <3>5, <4>1, <4>2, ReturnFacts DEF PickInv
    <3>8. QED
      BY <3>6, <3>7
  <2>5. QED
    BY <2>1, <2>3, <2>4
<1>8. CASE RunGate
  <2>1. /\ ReturnBroadcast \/ ReturnUnchanged
        /\ value' = [value EXCEPT ![Gate] = Apply(value[Left], value[Right])]
        /\ value'[Gate] # value[Gate] => ReturnBroadcast
        /\ current = Gate /\ phase = "node" /\ use_primary' = use_primary
    BY <1>8 DEF RunGate, Runs
  <2>2. CASE value'[Gate] = value[Gate]
    BY <1>0, <1>b, <2>1, <2>2, ReturnFacts
  <2>3. CASE ReturnBroadcast
    <3>1. Mutated(Gate)'
      BY <2>1, <2>3, ReturnFacts, ReturnsChange
    <3>2. Pick \notin ran
      BY <1>0, <2>1, OrderFacts, SelectedInputs
    <3>3. QED
      BY <2>3, <3>1, <3>2, ReturnsChange DEF Ran, PickInv
  <2>4. QED
    BY <2>1, <2>2, <2>3
<1>9. CASE RunPick
  <2>1. /\ ReturnBroadcast \/ ReturnUnchanged
        /\ phase = "node" /\ current = Pick
        /\ Choice(Pick) = value[Gate]
    BY <1>0, <1>9, ChoiceIsControl DEF RunPick, Runs
  <2>2. CASE Adopts(Pick)
    <3>1. value' = [value EXCEPT ![Pick] = value[Selected(Pick, value[Gate])]]
      BY <1>9, <2>1, <2>2 DEF RunPick
    <3>2. value'[Pick] = value'[Selected(Pick, value'[Gate])]
      BY <1>0, <1>a, <3>1
    <3>3. QED
      BY <3>2 DEF PickInv
  <2>3. CASE ~ Adopts(Pick)
    <3>1. value' = value /\ ReturnUnchanged /\ mut_epoch' = mut_epoch
      BY <1>9, <2>3, ReturnFacts DEF RunPick
    <3>2. ~ HasMutated(Gate) /\ ~ HasMutated(Selected(Pick, use_primary[Pick]))
      BY <2>3 DEF Adopts
    <3>3. QED
      BY <3>1, <3>2 DEF PickInv, Mutated
  <2>4. QED
    BY <2>2, <2>3
<1>10. QED
  BY <1>0, <1>1, <1>2, <1>3, <1>4, <1>5, <1>6, <1>7, <1>8, <1>9, LibKinds

LEMMA MergeStep ==
  ASSUME LibInv, ControlInv, MergeInv, LibNext
  PROVE  MergeInv'
<1>0. /\ IInv /\ OnceInv(Outputs) /\ StaticInv /\ TurnInv /\ LibTypes /\ OutputInv
      /\ items \in [{Stream, OutA, OutB, Merge} -> Seq(Item)]
      /\ value[Gate] \in BOOLEAN /\ use_primary[Merge] \in BOOLEAN
      /\ Merge \in Switches /\ Merge \in Index /\ Gate \in Index
      /\ Merge \notin {Left, Right, Stream, Gate, Router, OutA, OutB, Pick}
      /\ Stream \notin {OutA, OutB} /\ Gate \notin {Left, Right, Pick}
  BY Apart, InIndex DEF LibInv, LibTypes, Switches
<1>a. \A b \in BOOLEAN : Selected(Merge, b) \in {OutA, OutB}
  BY SelectedInputs DEF Outputs
<1>b. ASSUME value'[Gate] = value[Gate], use_primary'[Merge] = use_primary[Merge],
             \A n \in {OutA, OutB, Merge} : items'[n] = items[n],
             UNCHANGED <<cache_epoch, epoch>>, InCycle => InCycle',
             Ran(Merge)' => Ran(Merge), Mutated(Gate) => Mutated(Gate)'
      PROVE  MergeInv'
  <2>1. items'[Selected(Merge, value'[Gate])] = items[Selected(Merge, value[Gate])]
    BY <1>0, <1>a, <1>b
  <2>2. QED
    BY <1>b, <2>1 DEF MergeInv
<1>1. CASE BeginCycle /\ UNCHANGED lib_vars
  <2>1. ~ InCycle /\ UNCHANGED <<value, items>>
    BY <1>1 DEF BeginCycle, lib_vars, InCycle, PollPhases, LoopPhases
  <2>2. QED
    BY <2>1 DEF MergeInv
<1>2. CASE EndLoop /\ UNCHANGED lib_vars
  <2>1. /\ \A i : ~ Queued(i)
        /\ phase = "exec" /\ UNCHANGED <<value, items>>
    BY <1>0, <1>2, LoopOver DEF lib_vars
  <2>2. \A p \in {Gate, OutA, OutB} : Mutated(p) => Ran(Merge)
    BY <1>0, <2>1, MutatedReached, LibEdgesHas
  <2>3. ASSUME InCycle, NEW s \in {OutA, OutB}, cache_epoch[s] = epoch
        PROVE  Mutated(s)
    <3>1. s \in ran
      BY <1>0, <2>1, <2>3 DEF OutputInv, Outputs
    <3>2. HasMutated(s)
      BY <1>0, <2>1, <2>3, <3>1 DEF OutputInv, Outputs, Ran, Runs
    <3>3. QED
      BY <2>3, <3>2 DEF Mutated
  <2>4. QED
    BY <1>0, <1>a, <2>1, <2>2, <2>3 DEF MergeInv
<1>3. CASE Moves \/ \E i \in Index : Wakes(i)
  BY <1>3, <1>b, QuietFacts DEF lib_vars
<1>4. ASSUME NEW i \in LibNodes, EnterLibraryNode(i) PROVE MergeInv'
  <2>1. Ran(Merge)' => Ran(Merge)
    BY <1>0, <1>4, EnterFacts DEF Ran, Runs
  <2>2. Mutated(Gate) => Mutated(Gate)'
    BY <1>0, <1>4, EnterFacts DEF Mutated, HasMutated
  <2>3. \A n \in {OutA, OutB, Merge} : items'[n] = items[n]
    BY <1>0, <1>4 DEF EnterLibraryNode
  <2>4. QED
    BY <1>0, <1>4, <1>b, <2>1, <2>2, <2>3, EnterFacts
<1>5. CASE RouteItem
  <2>1. /\ UNCHANGED <<value, use_primary, mut_epoch, epoch, phase, current, ran>>
        /\ InCycle' /\ phase = "node" /\ current = Router /\ InCycle
    BY <1>0, <1>5, RouteFacts DEF RouteItem
  <2>2. Merge \notin ran
    <3>1. curr_depth = 1 /\ depth[Merge] = 2
      BY <1>0, <2>1, LibDepths DEF StaticInv, IInv, CycleInv, CurrentAtCursor
    <3>2. QED
      BY <1>0, <2>1, <3>1 DEF IInv, CycleInv, RanAboveCursor
  <2>3. ~ Ran(Merge)' /\ (Mutated(Gate) => Mutated(Gate)')
    BY <2>1, <2>2 DEF Ran, Mutated, HasMutated
  <2>4. CASE UNCHANGED <<items, cache_epoch>>
    BY <2>1, <2>3, <2>4 DEF MergeInv
  <2>5. ASSUME NEW k \in Outputs, NEW q,
               items' = [items EXCEPT ![k] = q],
               cache_epoch' = [cache_epoch EXCEPT ![k] = epoch]
        PROVE  MergeInv'
    <3>1. /\ items'[Merge] = items[Merge]
          /\ \A n \in {OutA, OutB} : n # k => items'[n] = items[n]
          /\ cache_epoch'[k] = epoch'
          /\ \A n \in {OutA, OutB} : cache_epoch[n] = epoch => cache_epoch'[n] = epoch'
      BY <1>0, <2>1, <2>5 DEF LibTypes, Outputs
    <3>2. CASE use_primary[Merge] # value[Gate]
      <4>1. Mutated(Gate)'
        BY <1>0, <2>3, <3>2 DEF ControlInv
      <4>2. QED
        BY <2>1, <2>3, <4>1 DEF MergeInv
    <3>3. CASE use_primary[Merge] = value[Gate] /\ Selected(Merge, value[Gate]) = k
      BY <2>1, <2>3, <3>1, <3>3 DEF MergeInv
    <3>4. CASE use_primary[Merge] = value[Gate] /\ Selected(Merge, value[Gate]) # k
      <4>1. items'[Selected(Merge, value[Gate])] = items[Selected(Merge, value[Gate])]
        BY <1>0, <1>a, <3>1, <3>4
      <4>2. QED
        BY <1>0, <1>a, <2>1, <2>3, <3>1, <3>4, <4>1 DEF MergeInv
    <3>5. QED
      BY <3>2, <3>3, <3>4
  <2>6. QED
    BY <1>0, <1>5, <2>4, <2>5, RouteFacts
<1>6. CASE RunSource \/ EndRoute \/ RunOutput \/ RunPick
  <2>1. /\ ReturnBroadcast \/ ReturnUnchanged
        /\ current # Merge /\ cache_epoch' = cache_epoch
        /\ \A n \in {OutA, OutB, Merge} : items'[n] = items[n]
    BY <1>0, <1>6 DEF RunSource, EndRoute, RunOutput, RunPick, lib_vars, Runs, Outputs, Sources
  <2>2. value'[Gate] = value[Gate]
    BY <1>0, <1>6, Apart DEF RunSource, EndRoute, RunOutput, RunPick, lib_vars, Sources,
       LibTypes
  <2>3. use_primary'[Merge] = use_primary[Merge]
    BY <1>0, <1>6 DEF RunSource, EndRoute, RunOutput, RunPick, lib_vars, LibTypes
  <2>4. QED
    BY <1>0, <1>b, <2>1, <2>2, <2>3, ReturnFacts
<1>7. CASE RunGate
  <2>1. /\ ReturnBroadcast \/ ReturnUnchanged
        /\ value'[Gate] # value[Gate] => ReturnBroadcast
        /\ current = Gate /\ phase = "node"
        /\ UNCHANGED <<use_primary, items, cache_epoch>>
    BY <1>7 DEF RunGate, Runs
  <2>2. CASE value'[Gate] = value[Gate]
    BY <1>0, <1>b, <2>1, <2>2, ReturnFacts
  <2>3. CASE ReturnBroadcast
    <3>1. Mutated(Gate)' /\ InCycle'
      BY <2>1, <2>3, ReturnFacts, ReturnsChange
    <3>2. Merge \notin ran
      BY <1>0, <2>1, OrderFacts, SelectedInputs
    <3>3. QED
      BY <2>3, <3>1, <3>2, ReturnsChange DEF Ran, MergeInv
  <2>4. QED
    BY <2>1, <2>2, <2>3
<1>8. CASE RunMerge
  <2>1. /\ phase = "node" /\ current = Merge /\ value' = value
        /\ Choice(Merge) = value[Gate]
    BY <1>0, <1>8, ChoiceIsControl DEF RunMerge, Runs
  <2>2. CASE Adopts(Merge)
    <3>1. items' = [items EXCEPT ![Merge] = items[Selected(Merge, value[Gate])]]
      BY <1>8, <2>1, <2>2 DEF RunMerge
    <3>2. items'[Merge] = items'[Selected(Merge, value'[Gate])]
      BY <1>0, <1>a, <2>1, <3>1
    <3>3. QED
      BY <3>2 DEF MergeInv
  <2>3. CASE ~ Adopts(Merge)
    <3>1. items' = items /\ ReturnUnchanged /\ InCycle /\ Merge \in ran
      BY <1>0, <1>8, <2>1, <2>3, ReturnFacts DEF RunMerge, TurnInv
    <3>2. ~ HasMutated(Gate) /\ ~ HasMutated(Selected(Merge, use_primary[Merge]))
      BY <2>3 DEF Adopts
    <3>3. \A s \in {OutA, OutB} : ~ Queued(s) /\ ~ Runs(s)
      BY <1>0, <3>1, OrderFacts, LibEdgesHas
    <3>4. \A s \in {OutA, OutB} : cache_epoch[s] = epoch => HasMutated(s)
      BY <1>0, <3>1, <3>3 DEF OutputInv, Outputs, Ran
    <3>5. items[Merge] = items[Selected(Merge, value[Gate])]
      BY <1>0, <1>a, <3>2, <3>4 DEF MergeInv, Mutated
    <3>6. QED
      BY <2>1, <3>1, <3>5 DEF MergeInv
  <2>4. QED
    BY <2>2, <2>3
<1>9. QED
  BY <1>0, <1>1, <1>2, <1>3, <1>4, <1>5, <1>6, <1>7, <1>8, LibKinds

-----------------------------------------------------------------------------
(* Module Selections: what the recursion computes, item by item.           *)

Extend(s, S, f, n) ==
  IF n = 0 THEN <<>> ELSE IF s[n] \in S THEN Append(f[n - 1], s[n]) ELSE f[n - 1]

LEMMA SelectionsExist ==
  ASSUME NEW s, Len(s) \in Nat, NEW S
  PROVE  \E f : f = [n \in 0 .. Len(s) |-> Extend(s, S, f, n)]
<1> DEFINE Made(m) == \E f : f = [n \in 0 .. m |-> Extend(s, S, f, n)]
           Bad == {m \in Nat : ~ Made(m)}
<1>1. Made(0)
  <2> DEFINE f == [n \in 0 .. 0 |-> <<>>]
  <2>1. f = [n \in 0 .. 0 |-> Extend(s, S, f, n)]
    BY DEF Extend
  <2>2. QED
    BY <2>1
<1>2. ASSUME NEW m \in Nat, m > 0, Made(m - 1) PROVE Made(m)
  <2>1. PICK f : f = [n \in 0 .. m - 1 |-> Extend(s, S, f, n)]
    BY <1>2
  <2> DEFINE g == [n \in 0 .. m |-> IF n < m THEN f[n] ELSE Extend(s, S, f, m)]
  <2>2. \A n \in 0 .. m - 1 : g[n] = f[n]
    BY <1>2
  <2>3. \A n \in 0 .. m : Extend(s, S, g, n) = Extend(s, S, f, n)
    <3> SUFFICES ASSUME NEW n \in 0 .. m PROVE Extend(s, S, g, n) = Extend(s, S, f, n)
      OBVIOUS
    <3>1. n # 0 => g[n - 1] = f[n - 1]
      BY <1>2, <2>2
    <3> HIDE DEF g
    <3>2. QED
      BY <3>1 DEF Extend
  <2>4. \A n \in 0 .. m : g[n] = Extend(s, S, g, n)
    <3> SUFFICES ASSUME NEW n \in 0 .. m PROVE g[n] = Extend(s, S, f, n)
      BY <2>3
    <3>1. CASE n < m
      <4>1. n \in 0 .. m - 1
        BY <1>2, <3>1
      <4>2. f[n] = Extend(s, S, f, n)
        BY <2>1, <4>1
      <4>3. QED
        BY <2>2, <4>1, <4>2
    <3>2. CASE n = m
      BY <1>2, <3>2
    <3>3. QED
      BY <1>2, <3>1, <3>2
  <2>5. g = [n \in 0 .. m |-> g[n]]
    OBVIOUS
  <2> HIDE DEF g
  <2>6. g = [n \in 0 .. m |-> Extend(s, S, g, n)]
    BY <2>4, <2>5
  <2>7. QED
    BY <2>6
<1>3. Bad = {}
  <2> SUFFICES ASSUME Bad # {} PROVE FALSE
    OBVIOUS
  <2>1. Bad \in SUBSET Nat
    OBVIOUS
  <2> DEFINE R == OpToRel(<, Nat)
  <2>2. IsWellFoundedOn(R, Nat)
    BY NatLessThanWellFounded
  <2> HIDE DEF R, Bad
  <2>3. PICK m \in Bad : \A e \in Bad : ~ (<<e, m>> \in R)
    BY <2>1, <2>2, WFMin
  <2>4. m \in Nat /\ ~ Made(m)
    BY <2>3 DEF Bad
  <2>5. m > 0 /\ m - 1 \in Nat /\ m - 1 < m
    <3>1. m # 0
      BY <1>1, <2>4
    <3>2. QED
      BY <2>4, <3>1
  <2>6. <<m - 1, m>> \in R
    BY <2>4, <2>5 DEF R, OpToRel
  <2>7. Made(m - 1)
    BY <2>3, <2>5, <2>6 DEF Bad
  <2>8. QED
    BY <1>2, <2>4, <2>5, <2>7
<1>4. QED
  BY <1>3

LEMMA SelectionsAre ==
  ASSUME NEW s, Len(s) \in Nat, NEW S
  PROVE  /\ Selections(s, S)[0] = <<>>
         /\ \A n \in 1 .. Len(s) :
              Selections(s, S)[n] =
                IF s[n] \in S THEN Append(Selections(s, S)[n - 1], s[n])
                              ELSE Selections(s, S)[n - 1]
<1>1. PICK f : f = [n \in 0 .. Len(s) |-> Extend(s, S, f, n)]
  BY SelectionsExist
<1>2. f = [n \in 0 .. Len(s) |->
             IF n = 0 THEN <<>>
             ELSE IF s[n] \in S THEN Append(f[n - 1], s[n]) ELSE f[n - 1]]
  BY <1>1 DEF Extend
<1>3. \A g : g = Selections(s, S) =>
        g = [n \in 0 .. Len(s) |->
               IF n = 0 THEN <<>>
               ELSE IF s[n] \in S THEN Append(g[n - 1], s[n]) ELSE g[n - 1]]
  BY <1>2 DEF Selections
<1>4. PICK g : g = Selections(s, S)
  OBVIOUS
<1>5. g = [n \in 0 .. Len(s) |->
             IF n = 0 THEN <<>>
             ELSE IF s[n] \in S THEN Append(g[n - 1], s[n]) ELSE g[n - 1]]
  BY <1>3, <1>4
<1>6. \A n \in 0 .. Len(s) :
        g[n] = IF n = 0 THEN <<>>
               ELSE IF s[n] \in S THEN Append(g[n - 1], s[n]) ELSE g[n - 1]
  BY <1>5
<1>7. g[0] = <<>> /\ \A n \in 1 .. Len(s) :
        g[n] = IF s[n] \in S THEN Append(g[n - 1], s[n]) ELSE g[n - 1]
  BY <1>6
<1>8. QED
  BY <1>4, <1>7

-----------------------------------------------------------------------------
(* The router.                                                             *)

\* The router runs or has run in this cycle, or in the one that just ended.
Routing ==
  \/ InCycle /\ Router \in ran
  \/ AtRest /\ epoch # 0 /\ sched_epoch[Router] = epoch

\* The items of k among those the router has come to
Given(k) == Selections(batch, {k} \X Nat)[Len(batch) - Len(unrouted)]

\* What the router has not come to is the rest of the batch, and each output
\* holds its items of what comes before.
RoutingInv ==
  Routing =>
    /\ unrouted # <<>> => Runs(Router)
    /\ Len(unrouted) <= Len(batch)
    /\ \A j \in 1 .. Len(unrouted) :
         unrouted[j] = batch[Len(batch) - Len(unrouted) + j]
    /\ \A k \in Outputs :
         IF cache_epoch[k] = epoch THEN items[k] = Given(k) /\ items[k] # <<>>
                                   ELSE Given(k) = <<>>

\* After the cycle the outputs that were given an item have mutated.
ServedInv ==
  AtRest /\ epoch # 0 =>
    \A k \in Outputs : HasMutated(k) <=> cache_epoch[k] = epoch

LEMMA ServedStep ==
  ASSUME LibInv, ServedInv, LibNext
  PROVE  ServedInv'
<1>0. IInv /\ OnceInv(Outputs) /\ StaticInv /\ OutputInv
  BY DEF LibInv
<1>1. CASE BeginCycle
  BY <1>1 DEF BeginCycle, ServedInv, AtRest
<1>2. CASE EndLoop /\ UNCHANGED lib_vars
  <2>1. InCycle /\ phase = "exec" /\ \A i : ~ Queued(i)
    BY <1>0, <1>2, LoopOver DEF InCycle, LoopPhases
  <2>2. \A k \in Outputs : HasMutated(k) <=> cache_epoch[k] = epoch
    BY <1>0, <2>1 DEF OutputInv, Ran, Runs
  <2>3. UNCHANGED <<mut_epoch, epoch, cache_epoch>>
    BY <1>2 DEF EndLoop, node_vars, lib_vars
  <2>4. QED
    BY <2>2, <2>3 DEF ServedInv, HasMutated
<1>3. CASE Moves
  BY <1>3 DEF Moves, ServedInv, HasMutated, lib_vars
<1>4. ASSUME InCycle' PROVE ServedInv'
  BY <1>4 DEF ServedInv, InCycle, AtRest, PollPhases, LoopPhases
<1>5. CASE \E i \in Index : Wakes(i)
  BY <1>0, <1>4, <1>5, WokenBy DEF LibInv
<1>6. CASE RouteItem \/ \E i \in LibNodes : EnterLibraryNode(i)
  BY <1>0, <1>4, <1>6, RouteFacts, EnterFacts DEF LibInv
<1>7. CASE RunSource \/ EndRoute \/ RunOutput \/ RunGate \/ RunPick \/ RunMerge
  <2>1. ReturnBroadcast \/ ReturnUnchanged
    BY <1>7 DEF RunSource, EndRoute, RunOutput, RunGate, RunPick, RunMerge
  <2>2. QED
    BY <1>4, <2>1, ReturnFacts
<1>8. QED
  BY <1>0, <1>1, <1>2, <1>3, <1>5, <1>6, <1>7, LibKinds

\* The turn of the router's loop that comes to the item x
LEMMA NextItem ==
  ASSUME LibInv, Routing, RoutingInv, RouteItem
  PROVE  /\ unrouted # <<>> /\ unrouted' = Tail(unrouted) /\ batch' = batch
         /\ Head(unrouted) \in Item
         /\ Len(unrouted') <= Len(batch)
         /\ \A j \in 1 .. Len(unrouted') :
              unrouted'[j] = batch[Len(batch) - Len(unrouted') + j]
         /\ \A k \in Outputs :
              Given(k)' = IF Head(unrouted)[1] = k THEN Append(Given(k), Head(unrouted))
                                                   ELSE Given(k)
<1>1. /\ unrouted # <<>> /\ unrouted' = Tail(unrouted) /\ batch' = batch
      /\ unrouted \in Seq(Item) /\ batch \in Seq(Item)
  BY DEF RouteItem, LibInv, LibTypes
<1>2. /\ Len(unrouted) \in Nat /\ Len(unrouted) > 0 /\ Len(batch) \in Nat
      /\ Len(unrouted) <= Len(batch)
      /\ Len(unrouted') = Len(unrouted) - 1
      /\ Head(unrouted) = unrouted[1] /\ Head(unrouted) \in Item
      /\ \A j \in 1 .. Len(unrouted') : unrouted'[j] = unrouted[j + 1]
  BY <1>1 DEF RoutingInv
<1>3. \A j \in 1 .. Len(unrouted) : unrouted[j] = batch[Len(batch) - Len(unrouted) + j]
  BY DEF RoutingInv
<1>4. PICK n \in 1 .. Len(batch) : n = Len(batch) - Len(unrouted')
  <2>1. Len(unrouted') \in Nat /\ Len(unrouted') < Len(batch)
    BY <1>2
  <2>2. Len(batch) - Len(unrouted') \in 1 .. Len(batch)
    BY <1>2, <2>1
  <2>3. QED
    BY <2>2
<1>5. n - 1 = Len(batch) - Len(unrouted) /\ batch[n] = Head(unrouted)
  BY <1>2, <1>3, <1>4
<1>6. ASSUME NEW j \in 1 .. Len(unrouted')
      PROVE  unrouted'[j] = batch[Len(batch) - Len(unrouted') + j]
  <2>1. j + 1 \in 1 .. Len(unrouted) /\ unrouted'[j] = unrouted[j + 1]
    BY <1>2
  <2>2. unrouted[j + 1] = batch[Len(batch) - Len(unrouted) + (j + 1)]
    BY <1>3, <2>1
  <2>3. Len(batch) - Len(unrouted) + (j + 1) = Len(batch) - Len(unrouted') + j
    BY <1>2
  <2>4. QED
    BY <2>1, <2>2, <2>3
<1>7. ASSUME NEW k \in Outputs
      PROVE  Given(k)' = IF Head(unrouted)[1] = k THEN Append(Given(k), Head(unrouted))
                                                  ELSE Given(k)
  <2>1. Selections(batch, {k} \X Nat)[n] =
          IF batch[n] \in {k} \X Nat
            THEN Append(Selections(batch, {k} \X Nat)[n - 1], batch[n])
            ELSE Selections(batch, {k} \X Nat)[n - 1]
    BY <1>2, SelectionsAre
  <2>2. batch[n] \in {k} \X Nat <=> Head(unrouted)[1] = k
    BY <1>2, <1>5 DEF Item
  <2>3. Given(k) = Selections(batch, {k} \X Nat)[n - 1]
    BY <1>5 DEF Given
  <2>4. Given(k)' = Selections(batch, {k} \X Nat)[n]
    BY <1>1, <1>4 DEF Given
  <2>5. QED
    BY <1>5, <2>1, <2>2, <2>3, <2>4
<1>8. Len(unrouted') <= Len(batch)
  BY <1>2
<1>9. QED
  BY <1>1, <1>2, <1>6, <1>7, <1>8

LEMMA RoutingStep ==
  ASSUME LibInv, RoutingInv, LibNext
  PROVE  RoutingInv'
<1>0. /\ IInv /\ OnceInv(Outputs) /\ StaticInv /\ OutputInv /\ LibTypes /\ TurnInv
      /\ items \in [{Stream, OutA, OutB, Merge} -> Seq(Item)]
      /\ Router \notin Outputs /\ Router \in graph /\ Router \in Index
      /\ Router \notin {Left, Right, Stream, Gate, Pick, Merge}
      /\ Stream \notin Outputs /\ Merge \notin Outputs
  BY Apart, InIndex DEF LibInv, LibTypes, Outputs, StaticInv, LibNodes
<1>a. ASSUME Routing' => Routing,
             UNCHANGED <<unrouted, batch, cache_epoch, epoch>>,
             \A k \in Outputs : items'[k] = items[k],
             Runs(Router) => Runs(Router)' \/ unrouted = <<>>
      PROVE  RoutingInv'
  <2>1. \A k \in Outputs : Given(k)' = Given(k)
    BY <1>a DEF Given
  <2>2. QED
    BY <1>a, <2>1 DEF RoutingInv
<1>b. ASSUME InCycle' PROVE Routing' <=> Router \in ran'
  BY <1>b DEF Routing, InCycle, AtRest, PollPhases, LoopPhases
<1>1. CASE BeginCycle
  <2>1. ~ Routing'
    BY <1>1 DEF BeginCycle, Routing, AtRest
  <2>2. QED
    BY <2>1 DEF RoutingInv
<1>2. CASE EndLoop /\ UNCHANGED lib_vars
  <2>1. InCycle /\ phase = "exec" /\ \A i : ~ Queued(i)
    BY <1>0, <1>2, LoopOver DEF InCycle, LoopPhases
  <2>2. UNCHANGED <<sched_epoch, epoch>> /\ ~ InCycle'
    BY <1>0, <1>2, LoopOver DEF EndLoop
  <2>3. Routing' => Routing
    BY <1>0, <2>1, <2>2 DEF Routing, OnceInv, StampedIsServed
  <2>4. QED
    BY <1>a, <1>2, <2>1, <2>2, <2>3 DEF lib_vars, Runs
<1>3. CASE Moves
  <2>1. Routing' => Routing
    BY <1>3 DEF Moves, Routing
  <2>2. QED
    BY <1>a, <1>3, <2>1 DEF Moves, Runs, lib_vars
<1>4. ASSUME NEW i \in Index, Wakes(i) PROVE RoutingInv'
  <2>1. InCycle /\ InCycle' /\ UNCHANGED <<ran, epoch, phase, current, lib_vars>>
    BY <1>0, <1>4, WokenBy DEF LibInv, Wakes
  <2>2. Routing' => Routing
    BY <1>b, <2>1 DEF Routing
  <2>3. QED
    BY <1>a, <2>1, <2>2 DEF lib_vars, Runs
<1>5. ASSUME NEW i \in LibNodes, EnterLibraryNode(i) PROVE RoutingInv'
  <2>1. /\ InCycle /\ InCycle' /\ phase = "exec" /\ ran' = ran \cup {i}
        /\ epoch' = epoch /\ cache_epoch' = cache_epoch
        /\ i \notin Outputs => i \notin ran
        /\ phase' = "node" /\ current' = i
    BY <1>0, <1>5, EnterFacts
  <2>2. \A k \in Outputs : items'[k] = items[k]
    BY <1>0, <1>5 DEF EnterLibraryNode, Outputs
  <2>3. CASE i = Router
    <3>1. unrouted' = items[Stream] /\ batch' = items[Stream] /\ items[Stream] \in Seq(Item)
      BY <1>0, <1>5, <2>3 DEF EnterLibraryNode
    <3>2. Runs(Router)' /\ Router \notin ran
      BY <1>0, <2>1, <2>3 DEF Runs
    <3>3. \A k \in Outputs : cache_epoch'[k] # epoch'
      BY <1>0, <2>1, <3>2 DEF OutputInv
    <3>4. Len(batch') \in Nat /\ Len(batch') - Len(unrouted') = 0
      BY <3>1
    <3>5. \A k \in Outputs : Given(k)' = <<>>
      BY <3>4, SelectionsAre DEF Given
    <3>6. /\ Len(unrouted') <= Len(batch')
          /\ \A j \in 1 .. Len(unrouted') :
               unrouted'[j] = batch'[Len(batch') - Len(unrouted') + j]
      BY <3>1, <3>4
    <3>7. QED
      BY <3>2, <3>3, <3>5, <3>6 DEF RoutingInv
  <2>4. CASE i # Router
    <3>1. UNCHANGED <<unrouted, batch>>
      BY <1>5, <2>4 DEF EnterLibraryNode
    <3>2. Routing' => Routing
      BY <1>b, <2>1, <2>4 DEF Routing
    <3>3. ~ Runs(Router)
      BY <2>1 DEF Runs
    <3>4. QED
      BY <1>a, <2>1, <2>2, <3>1, <3>2, <3>3
  <2>5. QED
    BY <2>3, <2>4
<1>6. CASE RunSource \/ EndRoute \/ RunOutput \/ RunGate \/ RunPick \/ RunMerge
  <2>1. /\ ReturnBroadcast \/ ReturnUnchanged
        /\ UNCHANGED <<unrouted, batch, cache_epoch>>
    BY <1>6 DEF RunSource, EndRoute, RunOutput, RunGate, RunPick, RunMerge, lib_vars
  <2>2. \A k \in Outputs : items'[k] = items[k]
    <3>1. \/ items' = items
          \/ \E q : items' = [items EXCEPT ![Stream] = q] \/ items' = [items EXCEPT ![Merge] = q]
      BY <1>6 DEF RunSource, EndRoute, RunOutput, RunGate, RunPick, RunMerge, lib_vars
    <3>2. QED
      BY <1>0, <3>1 DEF Outputs
  <2>3. InCycle /\ InCycle' /\ ran' = ran /\ epoch' = epoch
    BY <2>1, ReturnFacts, ReturnsChange
  <2>4. Routing' => Routing
    BY <1>b, <2>3 DEF Routing
  <2>5. Runs(Router) => unrouted = <<>>
    BY <1>0, <1>6 DEF RunSource, EndRoute, RunOutput, RunGate, RunPick, RunMerge, Runs, Sources
  <2>6. QED
    BY <1>a, <2>1, <2>2, <2>3, <2>4, <2>5
<1>7. CASE RouteItem
  <2>1. /\ InCycle /\ InCycle' /\ UNCHANGED <<ran, epoch, phase, current>>
        /\ phase = "node" /\ current = Router
    BY <1>0, <1>7, RouteFacts
  <2>2. Routing /\ Runs(Router)'
    BY <1>0, <2>1 DEF Routing, TurnInv, Runs
  <2>3. /\ Head(unrouted) \in Item
        /\ batch' = batch /\ Len(unrouted') <= Len(batch)
        /\ \A j \in 1 .. Len(unrouted') :
             unrouted'[j] = batch[Len(batch) - Len(unrouted') + j]
        /\ \A k \in Outputs :
             Given(k)' = IF Head(unrouted)[1] = k THEN Append(Given(k), Head(unrouted))
                                                  ELSE Given(k)
    BY <1>7, <2>2, NextItem
  <2>4. ASSUME NEW k \in Outputs
        PROVE  IF cache_epoch'[k] = epoch' THEN items'[k] = Given(k)' /\ items'[k] # <<>>
                                           ELSE Given(k)' = <<>>
    <3>1. CASE Head(unrouted)[1] # k
      <4>1. items'[k] = items[k] /\ cache_epoch'[k] = cache_epoch[k]
        BY <1>0, <1>7, <3>1, RouteFacts DEF LibTypes, Outputs
      <4>2. QED
        BY <2>1, <2>2, <2>3, <3>1, <4>1 DEF RoutingInv
    <3>2. CASE Head(unrouted)[1] = k
      <4>1. /\ items'[k] = Append(Routed(k), Head(unrouted))
            /\ cache_epoch'[k] = epoch
        BY <1>0, <1>7, <3>2, RouteFacts DEF LibTypes, Outputs
      <4>2. Routed(k) = Given(k)
        BY <2>2 DEF RoutingInv, Routed, FirstOfCycle
      <4>3. Routed(k) \in Seq(Item)
        BY <1>0 DEF Routed, Outputs
      <4>4. Append(Routed(k), Head(unrouted)) # <<>>
        <5>1. Len(Append(Routed(k), Head(unrouted))) = Len(Routed(k)) + 1
              /\ Len(Routed(k)) \in Nat
          BY <2>3, <4>3
        <5>2. QED
          BY <5>1
      <4>5. QED
        BY <2>1, <2>3, <3>2, <4>1, <4>2, <4>4
    <3>3. QED
      BY <3>1, <3>2
  <2>5. QED
    BY <2>2, <2>3, <2>4 DEF RoutingInv
<1>8. QED
  BY <1>0, <1>1, <1>2, <1>3, <1>4, <1>5, <1>6, <1>7, LibKinds

-----------------------------------------------------------------------------
(* The theorems.                                                           *)

LEMMA LibInitAll == LibInit => LibInv /\ DataInv /\ ServedInv /\ RoutingInv
<1> SUFFICES ASSUME LibInit PROVE LibInv /\ DataInv /\ ServedInv /\ RoutingInv
  OBVIOUS
<1>1. /\ phase = "idle" /\ epoch = 0 /\ ran = {}
      /\ \A i \in Index : sched_epoch[i] = 0 /\ mut_epoch[i] = 0
  BY DEF LibInit, BuiltGraph
<1>2. YieldInv /\ TurnInv
  BY <1>1 DEF LibInit, YieldInv, TurnInv
<1>3. OutputInv /\ ServedInv /\ RoutingInv
  BY <1>1 DEF OutputInv, ServedInv, RoutingInv, Routing, InCycle, AtRest, PollPhases, LoopPhases
<1>4. GateInv /\ PickInv
  BY <1>1, InIndex DEF GateInv, PickInv, Started
<1>5. ControlInv /\ MergeInv
  <2>1. \A n \in Switches : use_primary[n] = value[Gate]
    BY DEF LibInit
  <2>2. value[Gate] \in BOOLEAN
    BY LibInitTypes DEF LibTypes
  <2>3. items[Merge] = items[Selected(Merge, value[Gate])]
    BY <2>2, SelectedInputs DEF LibInit, Switches, Outputs
  <2>4. QED
    BY <2>1, <2>3 DEF ControlInv, MergeInv
<1>6. QED
  BY <1>2, <1>3, <1>4, <1>5, LibInitInv, LibInitTypes DEF LibInv, DataInv

LEMMA LibAlways == LibSpec => [](LibInv /\ DataInv /\ ServedInv /\ RoutingInv)
<1> DEFINE All == LibInv /\ DataInv /\ ServedInv /\ RoutingInv
<1>1. LibInit => All
  BY LibInitAll
<1>2. All /\ [LibNext]_<<vars, lib_vars>> => All'
  <2> SUFFICES ASSUME All, [LibNext]_<<vars, lib_vars>> PROVE All'
    OBVIOUS
  <2>1. CASE LibNext
    <3>1. LibInv'
      BY <2>1, LibStep, StepInv, LibOnceStep, StaticStep, LibTypesStep, YieldStep,
         TurnStep, OutputStep DEF LibInv
    <3>2. DataInv'
      BY <2>1, GateStep, ControlStep, PickStep, MergeStep DEF DataInv
    <3>3. QED
      BY <2>1, <3>1, <3>2, ServedStep, RoutingStep
  <2>2. CASE UNCHANGED <<vars, lib_vars>>
    <3>1. IInv'
      BY <2>2, StepInv DEF LibInv
    <3>2. OnceInv(Outputs)'
      BY <2>2 DEF LibInv, vars, OnceInv, UniqueSlots, QueuedIsStamped, RanIsDone,
         CursorAtRest, StampedIsServed, PollNeverPanics, InCycle, Queued, sched_vars,
         graph_vars, hist_vars
    <3>3. UNCHANGED <<multi_queue, graph, edges, depth, sched_epoch, mut_epoch, yields, epoch,
                      phase, current, ran, lib_vars>>
      BY <2>2 DEF vars, sched_vars, graph_vars, node_vars, queue_vars, hist_vars
    <3>4. \A i : (Queued(i)' <=> Queued(i)) /\ (Runs(i)' <=> Runs(i)) /\ (Ran(i)' <=> Ran(i))
                 /\ (Mutated(i)' <=> Mutated(i)) /\ (HasMutated(i)' <=> HasMutated(i))
      BY <3>3, SameQueue DEF Runs, Ran, Mutated, HasMutated, InCycle
    <3>5. LibInv'
      BY <3>1, <3>2, <3>3, <3>4 DEF LibInv, StaticInv, LibTypes, YieldInv, TurnInv,
         OutputInv, InCycle, lib_vars
    <3>6. DataInv'
      BY <3>3, <3>4 DEF DataInv, GateInv, Started, ControlInv, PickInv, MergeInv, Apply,
         InCycle, lib_vars
    <3>7. ServedInv' /\ RoutingInv'
      BY <3>3, <3>4 DEF ServedInv, RoutingInv, Routing, Given, InCycle, AtRest, lib_vars
    <3>8. QED
      BY <3>5, <3>6, <3>7
  <2>3. QED
    BY <2>1, <2>2
<1>3. QED
  BY <1>1, <1>2, PTL DEF LibSpec

\* The library implements the executor's next-state relation.
THEOREM LibraryIsClient == LibSpec => [][Next]_vars
BY LibStep, PTL DEF LibSpec

\* In the graph of the library parents run before their children, although
\* outputs are scheduled by the router, which is not their parent.
THEOREM LibraryParentsFirst == LibSpec => []DependencyOrder
<1>1. LibInv => DependencyOrder
  BY ParentsFirstInv DEF LibInv
<1>2. QED
  BY <1>1, LibAlways, PTL

\* A source, gate or switch that broadcast has each of its children queued, or
\* it ran afterwards.
THEOREM LibraryTriggers == LibSpec => []NoLostTrigger
<1>1. LibInv => NoLostTrigger
  BY DEF LibInv, IInv, CycleInv
<1>2. QED
  BY <1>1, LibAlways, PTL

\* After every cycle the gate and the switches hold what their inputs, as they
\* are now, give.
THEOREM LibraryIsGlitchFree == LibSpec => []GlitchFree
<1>1. DataInv => GlitchFree
  <2> SUFFICES ASSUME DataInv, AtRest
               PROVE  /\ Started => value[Gate] = Apply(value[Left], value[Right])
                      /\ \A n \in Switches : use_primary[n] = value[Gate]
                      /\ mut_epoch[Pick] # 0 =>
                           value[Pick] = value[Selected(Pick, value[Gate])]
                      /\ items[Merge] = items[Selected(Merge, value[Gate])]
    BY DEF GlitchFree, Started
  <2>1. ~ InCycle
    BY DEF InCycle, AtRest, PollPhases, LoopPhases
  <2>2. QED
    BY <2>1 DEF DataInv, GateInv, ControlInv, PickInv, MergeInv, Mutated
<1>2. QED
  BY <1>1, LibAlways, PTL

\* Each output gets exactly its items of the batch that was routed, in their
\* order, and broadcasts if and only if it got one.
THEOREM LibraryRoutesExactly == LibSpec => []RoutedExactly
<1>1. LibInv /\ ServedInv /\ RoutingInv => RoutedExactly
  <2> SUFFICES ASSUME LibInv, ServedInv, RoutingInv, AtRest, epoch # 0,
                      sched_epoch[Router] = epoch, NEW k \in Outputs
               PROVE  LET mine == Select(batch, {k} \X Nat)
                      IN  /\ HasMutated(k) <=> mine # <<>>
                          /\ mine # <<>> => items[k] = mine
    BY DEF RoutedExactly
  <2>1. Routing /\ ~ Runs(Router)
    BY DEF Routing, AtRest, Runs
  <2>2. unrouted = <<>>
    BY <2>1 DEF RoutingInv
  <2>3. Len(batch) - Len(unrouted) = Len(batch)
    BY <2>2 DEF LibInv, LibTypes
  <2>4. Select(batch, {k} \X Nat) = Given(k)
    BY <2>3 DEF Select, Given
  <2>5. QED
    BY <2>1, <2>4 DEF ServedInv, RoutingInv
<1>2. QED
  BY <1>1, LibAlways, PTL
=============================================================================
