---------------------------- MODULE NodeLibrary ----------------------------
(***************************************************************************)
(* Nodes of the wavelet standard node library over the executor: a router  *)
(* with its outputs and a stream switch (wsnl/control.rs), a value switch, *)
(* and a logic gate (wsnl/logic.rs), wired into one graph.                 *)
(*                                                                         *)
(*   Left, Right   -> Gate          Left, Right, Gate -> Pick (switch)     *)
(*   Stream        -> Router ....> OutA, OutB (scheduled by the router)    *)
(*   OutA, OutB, Gate -> Merge (stream switch)                             *)
(*                                                                         *)
(* Module Executor lets a cycle function do anything; here each node does  *)
(* what its cycle function does, by the executor's own actions, and has    *)
(* data.  The point is what an incremental computation promises: that      *)
(* after every cycle the data is what computing everything anew would      *)
(* give.  A routing key is named by the output node made for it.           *)
(***************************************************************************)
EXTENDS Executor, Selections

CONSTANTS Left, Right, Stream, Gate, Router, OutA, OutB, Pick, Merge,
          Configs,  \* the ways to build the graph that are explored
          MaxBatch  \* bound: items in a batch of the stream

Sources  == {Left, Right, Stream}
Outputs  == {OutA, OutB}
Switches == {Pick, Merge}
LibNodes == Sources \cup Outputs \cup Switches \cup {Gate, Router}

\* Routing keys; nobody made an output for NoNode.
Keys == Outputs \cup {NoNode}

\* Which gate, which router, is the gate made with a bootstrap, and its
\* initial value otherwise
Config == [gate : {"and", "or", "xor"}, take : BOOLEAN, bootstrap : BOOLEAN,
           init : BOOLEAN]

ASSUME LibraryAssumption ==
  /\ Configs \subseteq Config
  /\ LibNodes \subseteq Index
  /\ Left # Right /\ Left # Stream /\ Right # Stream
  /\ OutA # OutB /\ Pick # Merge /\ Gate # Router
  /\ Sources \cap Outputs = {} /\ Sources \cap Switches = {}
  /\ Outputs \cap Switches = {}
  /\ {Gate, Router} \cap (Sources \cup Outputs \cup Switches) = {}
  /\ MaxDepth >= 2
  /\ MaxBatch \in Nat
  /\ ManualScheduling

VARIABLES
  value,        \* of Left, Right, Gate and Pick
  items,        \* the Vec of Stream, the outputs and Merge: <<key, epoch>>
  cache_epoch,  \* the epoch in the router's cache entry of each key
  unrouted,     \* items the router's loop has not come to
  batch,        \* history: what the router was given when it last ran
  use_primary,  \* captured by each switch
  config        \* how the graph was built

lib_vars == <<value, items, cache_epoch, unrouted, batch, use_primary, config>>

\* The graph as the builders leave it, sources and Pick starting from FALSE.
LibInit ==
  /\ config \in Configs
  /\ value = [n \in {Left, Right, Gate, Pick} |->
               n = Gate /\ config.init /\ ~ config.bootstrap]
  /\ use_primary = [n \in Switches |-> value[Gate]]
  /\ items = [n \in {Stream, OutA, OutB, Merge} |-> <<>>]
  /\ cache_epoch = [k \in Outputs |-> 0]
  /\ unrouted = <<>> /\ batch = <<>>
  /\ BuiltGraph(LibNodes,
                [i \in Index |-> IF i \in Switches THEN 2
                                 ELSE IF i \in Outputs \cup {Gate, Router} THEN 1 ELSE 0],
                Triggers({Left, Right}, Gate) \cup Triggers({Left, Right, Gate}, Pick)
                \cup Triggers({OutA, OutB, Gate}, Merge) \cup Triggers({Stream}, Router)
                \cup {Stream} \X Outputs \X {"Observe"})
  /\ yields = IF config.bootstrap THEN {Gate} ELSE {}

-----------------------------------------------------------------------------
Runs(i) == phase = "node" /\ current = i

\* A source has new data, or nothing to say.
RunSource ==
  /\ phase = "node" /\ current \in Sources
  /\ \/ /\ current # Stream
        /\ value' = [value EXCEPT ![current] = ~ @]
        /\ UNCHANGED items
        /\ ReturnBroadcast
     \/ /\ current = Stream
        /\ \E n \in 0 .. MaxBatch : \E key \in [1 .. n -> Keys] :
             items' = [items EXCEPT ![Stream] = [j \in 1 .. n |-> <<key[j], epoch>>]]
        /\ UNCHANGED value
        /\ ReturnBroadcast
     \/ ReturnUnchanged /\ UNCHANGED <<value, items>>
  /\ UNCHANGED <<cache_epoch, unrouted, batch, use_primary, config>>

\* Mutant: every item schedules its output.
FirstOfCycle_Always(k) == TRUE

\* The router's test of the epoch in its cache
FirstOfCycle(k) == cache_epoch[k] # epoch

\* Mutant: an output is not cleared before the first item of a cycle.
Routed_Kept(k) == items[k]

\* What is in an output when the next item is pushed: it was cleared before
\* the first item of the cycle.
Routed(k) == IF FirstOfCycle(k) THEN <<>> ELSE items[k]

\* One turn of the loop of the router's cycle function; an item without an
\* output is dropped.  The .expect() on schedule_node() is left to the
\* property RoutedExactly: an output that was refused would not broadcast.
RouteItem ==
  /\ Runs(Router)
  /\ unrouted # <<>>
  /\ LET k == Head(unrouted)[1] IN
     \/ /\ k \notin Outputs
        /\ UNCHANGED <<items, cache_epoch, vars>>
     \/ /\ k \in Outputs
        /\ items' = [items EXCEPT ![k] = Append(Routed(k), Head(unrouted))]
        /\ cache_epoch' = [cache_epoch EXCEPT ![k] = epoch]
        /\ IF FirstOfCycle(k) THEN ScheduleNode(k) ELSE UNCHANGED vars
  /\ unrouted' = Tail(unrouted)
  /\ UNCHANGED <<value, batch, use_primary, config>>

EndRoute ==
  /\ Runs(Router)
  /\ unrouted = <<>>
  /\ ReturnUnchanged
  /\ UNCHANGED lib_vars

\* Router::new_node(): an output broadcasts unless it is empty.
RunOutput ==
  /\ phase = "node" /\ current \in Outputs
  /\ IF items[current] # <<>> THEN ReturnBroadcast ELSE ReturnUnchanged
  /\ UNCHANGED lib_vars

Apply(l, r) ==
  CASE config.gate = "and" -> l /\ r
    [] config.gate = "or"  -> l \/ r
    [] config.gate = "xor" -> l # r

\* and_node(), or_node(), xor_node(): broadcast when the value changes
RunGate ==
  /\ Runs(Gate)
  /\ value' = [value EXCEPT ![Gate] = Apply(value[Left], value[Right])]
  /\ IF value'[Gate] # value[Gate] THEN ReturnBroadcast ELSE ReturnUnchanged
  /\ UNCHANGED <<items, cache_epoch, unrouted, batch, use_primary, config>>

Selected(n, primary) ==
  IF n = Pick THEN IF primary THEN Left ELSE Right
              ELSE IF primary THEN OutA ELSE OutB

\* Mutant: the inputs are looked at before the control.
Choice_InputsFirst(n) ==
  IF HasMutated(Gate) /\ ~ HasMutated(Selected(n, use_primary[n]))
    THEN value[Gate] ELSE use_primary[n]

\* A mutated control takes precedence over the inputs.
Choice(n) == IF HasMutated(Gate) THEN value[Gate] ELSE use_primary[n]

Adopts(n) == HasMutated(Gate) \/ HasMutated(Selected(n, use_primary[n]))

\* switch_node()
RunPick ==
  /\ Runs(Pick)
  /\ use_primary' = [use_primary EXCEPT ![Pick] = Choice(Pick)]
  /\ \/ /\ Adopts(Pick)
        /\ value' = [value EXCEPT ![Pick] = value[Selected(Pick, Choice(Pick))]]
        /\ ReturnBroadcast
     \/ ~ Adopts(Pick) /\ UNCHANGED value /\ ReturnUnchanged
  /\ UNCHANGED <<items, cache_epoch, unrouted, batch, config>>

\* switch_stream_node() broadcasts only if it has something.
RunMerge ==
  /\ Runs(Merge)
  /\ use_primary' = [use_primary EXCEPT ![Merge] = Choice(Merge)]
  /\ \/ /\ Adopts(Merge)
        /\ items' = [items EXCEPT ![Merge] = items[Selected(Merge, Choice(Merge))]]
        /\ IF items'[Merge] # <<>> THEN ReturnBroadcast ELSE ReturnUnchanged
     \/ ~ Adopts(Merge) /\ UNCHANGED items /\ ReturnUnchanged
  /\ UNCHANGED <<value, cache_epoch, unrouted, batch, config>>

\* The executor enters a node.  The router goes over the items of the stream,
\* and takes them away if it was made by take_route_stream_node().
EnterLibraryNode(i) ==
  /\ EnterNode(i)
  /\ IF i = Router
       THEN /\ unrouted' = items[Stream] /\ batch' = items[Stream]
            /\ items' = IF config.take THEN [items EXCEPT ![Stream] = <<>>] ELSE items
       ELSE UNCHANGED <<unrouted, batch, items>>
  /\ UNCHANGED <<value, cache_epoch, use_primary, config>>

\* The steps of the executor in which no node runs.  Only the sources hear
\* from outside.
CycleStep ==
  /\ QuietStep \/ \E i \in Sources : PollNotification(i)
  /\ UNCHANGED lib_vars

LibNext ==
  \/ RunSource \/ RouteItem \/ EndRoute \/ RunOutput
  \/ RunGate \/ RunPick \/ RunMerge
  \/ \E i \in LibNodes : EnterLibraryNode(i)
  \/ CycleStep

LibSpec == LibInit /\ [][LibNext]_<<vars, lib_vars>>

-----------------------------------------------------------------------------
\* After every cycle the derived nodes hold what their inputs, as they are
\* now, give: the gate from its first run on (with a bootstrap: from the first
\* cycle on), the value switch from its first broadcast on, the stream switch
\* always, and both switches follow the gate.  The inputs of a switch lie at
\* different depths, and its control and its inputs may change in one cycle.
GlitchFree ==
  AtRest =>
    /\ sched_epoch[Gate] # 0 \/ (config.bootstrap /\ epoch # 0) =>
         value[Gate] = Apply(value[Left], value[Right])
    /\ \A n \in Switches : use_primary[n] = value[Gate]
    /\ mut_epoch[Pick] # 0 => value[Pick] = value[Selected(Pick, value[Gate])]
    /\ items[Merge] = items[Selected(Merge, value[Gate])]

\* In the cycle in which a batch is routed each output gets exactly its items,
\* in their order, and broadcasts if and only if it got one.
RoutedExactly ==
  AtRest /\ epoch # 0 /\ sched_epoch[Router] = epoch =>
    \A k \in Outputs :
      LET mine == Select(batch, {k} \X Nat)
      IN  /\ HasMutated(k) <=> mine # <<>>
          /\ mine # <<>> => items[k] = mine
=============================================================================
