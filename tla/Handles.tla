------------------------------- MODULE Handles -------------------------------
(***************************************************************************)
(* Who keeps a node alive, and what becomes of those who refer to it: the  *)
(* handles Node, WeakNode, ExclusiveNode and RawHandle (runtime/node.rs),  *)
(* and the two places that look nodes up by key, a Router with its outputs *)
(* (wsnl/control.rs) and the factories (factory/simple.rs, keyed.rs).      *)
(*                                                                         *)
(* Module Executor knows only whether a node is held.  Here the references *)
(* are counted, and the graph is reduced to what ownership depends on: the *)
(* occupied slots, the edges, and the handles that each cycle function     *)
(* owns.  A cycle runs and sweeps nodes in any order; that a sweep takes   *)
(* all descendants along is what module Executor shows.                    *)
(***************************************************************************)
EXTENDS Naturals, Sequences, FiniteSets

CONSTANTS Node,        \* the nodes (NodeInner) that are built in a run
          Slot,        \* indices of the graph
          Key,         \* routing keys, and keys of the keyed factory
          Unit,        \* stands for the one node of a SimpleFactory
          None,
          MaxHandles,  \* bound: Node handles that clients hold of one node
          MaxWeaks     \* bound: WeakNodes that clients hold of one node

ASSUME HandlesAssumption ==
  /\ None \notin Node \cup Slot \cup Key \cup {Unit}
  /\ Unit \notin Key
  /\ MaxHandles \in Nat \ {0} /\ MaxWeaks \in Nat

VARIABLES
  made, slot,           \* the nodes built so far, and NodeInner::index
  graph, edges,         \* the nodes whose cycle function is in the graph
  owned,                \* the nodes whose handle each cycle function owns
  handles, weaks,       \* Node handles and WeakNodes of clients
  exclusive,            \* the nodes that exist as an ExclusiveNode
  phase, running,       \* where the executor is, and the node it runs
  removal_queue,        \* GarbageCollector
  dying,                \* NodeInner::drop has yet to run: no reference is left
  router, parent, parent_slot, \* a Router, its source and the RawHandle of it
  cache, output_key,    \* Router::cache, and the key each output was made for
  memo, factory, building, \* the factories: cached nodes, attached functions,
                           \* and the keys whose function runs, innermost first
  got,                  \* history: what get() returned
  swept, foreign        \* history: nodes swept with their parents or their
                        \* router; was a slot marked for a node that had left it?

graph_vars  == <<made, slot, graph, edges, owned>>
count_vars  == <<handles, weaks, exclusive>>
cycle_vars  == <<phase, running>>
gc_vars     == <<removal_queue, swept, foreign>>
router_vars == <<router, parent, parent_slot, cache, output_key>>
memo_vars   == <<memo, factory, building, got>>
handle_vars == <<graph_vars, count_vars, cycle_vars, gc_vars, dying,
                 router_vars, memo_vars>>

FactoryKeys == Key \cup {Unit}
Factories   == {"simple", "keyed"}

FactoryOf(k) == IF k = Unit THEN "simple" ELSE "keyed"

HandlesInit ==
  /\ made = {} /\ slot = [n \in Node |-> None]
  /\ graph = {} /\ edges = {}
  /\ owned = [n \in Node |-> {}]
  /\ handles = [n \in Node |-> 0] /\ weaks = [n \in Node |-> 0]
  /\ exclusive = {}
  /\ phase = "idle" /\ running = None
  /\ removal_queue = {} /\ dying = {}
  /\ router = None /\ parent = None /\ parent_slot = None
  /\ cache = [k \in Key |-> None]
  /\ output_key = [n \in Node |-> None]
  /\ memo = [k \in FactoryKeys |-> None]
  /\ factory = [f \in Factories |-> FALSE]
  /\ building = <<>>
  /\ got = [k \in FactoryKeys |-> {}]
  /\ swept = {} /\ foreign = FALSE

-----------------------------------------------------------------------------
(* References.                                                             *)

Owners(n)   == {m \in graph : n \in owned[m]}
Memoised(n) == \E k \in FactoryKeys : memo[k] = n
Cached(n)   == \E k \in Key : cache[k] = n

\* The strong count is not zero.  A running node is upgraded by its closure.
Alive(n) ==
  \/ handles[n] > 0 \/ n \in exclusive \/ running = n
  \/ Owners(n) # {} \/ Memoised(n)

\* The nodes that lose their last reference in a step.
Lost == {n \in made : Alive(n) /\ ~ Alive(n)'}

\* strong_count() == 1, of a node with a Node handle in a client's hands
OnlyHandle(n) ==
  handles[n] = 1 /\ running # n /\ Owners(n) = {} /\ ~ Memoised(n)

\* The WeakNode in the closure that build() put into the graph
ClosureRefers(n) == n \in graph /\ n \notin owned[n]

\* Mutant: only the strong references are counted.
OnlyWeak_Unchecked(n) == TRUE

\* weak_count() == 1
OnlyWeak(n) ==
  weaks[n] + (IF ClosureRefers(n) THEN 1 ELSE 0) + (IF Cached(n) THEN 1 ELSE 0) = 1

\* Drop::drop runs at once: nobody acts while a node is dying.
ClientRuns         == dying = {} /\ (phase = "idle" \/ running # None)
ClientOwnsExecutor == dying = {} /\ phase = "idle"

HandleCall ==
  /\ UNCHANGED <<graph_vars, cycle_vars, gc_vars, router_vars, memo_vars>>
  /\ dying' = dying \cup Lost

\* Node::clone()
Clone(n) ==
  /\ ClientRuns
  /\ handles[n] > 0 /\ handles[n] < MaxHandles
  /\ handles' = [handles EXCEPT ![n] = @ + 1]
  /\ UNCHANGED <<weaks, exclusive>>
  /\ HandleCall

DropHandle(n) ==
  /\ ClientRuns
  /\ handles[n] > 0
  /\ handles' = [handles EXCEPT ![n] = @ - 1]
  /\ UNCHANGED <<weaks, exclusive>>
  /\ HandleCall

\* Node::downgrade()
Downgrade(n) ==
  /\ ClientRuns
  /\ handles[n] > 0
  /\ weaks[n] < MaxWeaks
  /\ weaks' = [weaks EXCEPT ![n] = @ + 1]
  /\ UNCHANGED <<handles, exclusive>>
  /\ HandleCall

DropWeak(n) ==
  /\ ClientRuns
  /\ weaks[n] > 0
  /\ weaks' = [weaks EXCEPT ![n] = @ - 1]
  /\ UNCHANGED <<handles, exclusive>>
  /\ HandleCall

\* Mutant: the WeakNode is taken at its word.
UpgradeWeak_Unchecked(n) ==
  /\ ClientRuns
  /\ weaks[n] > 0
  /\ handles[n] < MaxHandles
  /\ handles' = [handles EXCEPT ![n] = @ + 1]
  /\ UNCHANGED <<weaks, exclusive>>
  /\ HandleCall

\* WeakNode::upgrade() gives a handle of a node that is alive.
UpgradeWeak(n) ==
  /\ ClientRuns
  /\ weaks[n] > 0
  /\ Alive(n)
  /\ handles[n] < MaxHandles
  /\ handles' = [handles EXCEPT ![n] = @ + 1]
  /\ UNCHANGED <<weaks, exclusive>>
  /\ HandleCall

\* Node::upgrade() takes the handle; when there is another reference it
\* returns None, and the handle is gone.
Upgrade(n) ==
  /\ ClientRuns
  /\ handles[n] > 0
  /\ handles' = [handles EXCEPT ![n] = @ - 1]
  /\ exclusive' = IF OnlyHandle(n) /\ OnlyWeak(n) THEN exclusive \cup {n} ELSE exclusive
  /\ UNCHANGED weaks
  /\ HandleCall

\* An ExclusiveNode that no closure has taken
InHand(n) == n \in exclusive /\ Owners(n) = {}

\* ExclusiveNode::downgrade() makes it a Node again.
Share(n) ==
  /\ ClientRuns
  /\ InHand(n)
  /\ exclusive' = exclusive \ {n}
  /\ handles' = [handles EXCEPT ![n] = @ + 1]
  /\ UNCHANGED weaks
  /\ HandleCall

DropExclusive(n) ==
  /\ ClientRuns
  /\ InHand(n)
  /\ exclusive' = exclusive \ {n}
  /\ UNCHANGED <<handles, weaks>>
  /\ HandleCall

-----------------------------------------------------------------------------
(* Building nodes.                                                         *)

\* The node n in the vacant slot i, below the nodes P that have the slots its
\* builder was given, with a cycle function that owns handles of O: clients
\* move an ExclusiveNode or one of their Node handles into it.
Insert(n, i, P, O) ==
  /\ ClientOwnsExecutor
  /\ n \in Node \ made
  /\ \A m \in graph : slot[m] # i
  /\ \A o \in O : o \in made /\ (InHand(o) \/ handles[o] > 0)
  /\ made' = made \cup {n}
  /\ slot' = [slot EXCEPT ![n] = i]
  /\ graph' = graph \cup {n}
  /\ edges' = edges \cup P \X {n}
  /\ UNCHANGED <<weaks, exclusive, cycle_vars, gc_vars, dying>>

Moved(O) == [m \in Node |-> IF m \in O \ exclusive THEN handles[m] - 1 ELSE handles[m]]

\* build(): one handle for the caller
Build(n, i, P, O) ==
  /\ Insert(n, i, P, O)
  /\ owned' = [owned EXCEPT ![n] = O]
  /\ handles' = [Moved(O) EXCEPT ![n] = 1]
  /\ UNCHANGED <<router_vars, memo_vars>>

\* spawn(): the cycle function owns the node itself.
Spawn(n, i, P) ==
  /\ Insert(n, i, P, {})
  /\ owned' = [owned EXCEPT ![n] = {n}]
  /\ UNCHANGED <<handles, router_vars, memo_vars>>

\* route_stream_node(), take_route_stream_node(): a router below its source,
\* whose cycle function owns the source and whose data has a RawHandle of it.
\* One router is built in a run.
BuildRouter(n, i, s) ==
  /\ router = None
  /\ s \in graph
  /\ Insert(n, i, {s}, {s})
  /\ owned' = [owned EXCEPT ![n] = {s}]
  /\ handles' = [Moved({s}) EXCEPT ![n] = 1]
  /\ router' = n /\ parent' = s /\ parent_slot' = slot[s]
  /\ UNCHANGED <<cache, output_key, memo_vars>>

\* channel_route_stream_node(): a router without a source
BuildChannelRouter(n, i) ==
  /\ router = None
  /\ Insert(n, i, {}, {})
  /\ handles' = [handles EXCEPT ![n] = 1]
  /\ router' = n
  /\ UNCHANGED <<owned, parent, parent_slot, cache, output_key, memo_vars>>

-----------------------------------------------------------------------------
(* Router::route(), called through a handle of the router.                 *)

\* The WeakNode in the cache can be upgraded.
Served(k) == \E n \in made : cache[k] = n /\ Alive(n)

\* A client has a handle of the router.
RouterInHand == router # None /\ handles[router] > 0

RouteHit(k) ==
  /\ ClientOwnsExecutor
  /\ RouterInHand
  /\ Served(k)
  /\ handles[cache[k]] < MaxHandles
  /\ handles' = [handles EXCEPT ![cache[k]] = @ + 1]
  /\ UNCHANGED <<weaks, exclusive>>
  /\ HandleCall

\* Mutant: an output that is cached already is made anew.
RouteMiss_Always(k, n, i) ==
  /\ RouterInHand
  /\ \E P \in SUBSET graph :
       /\ P = {m \in graph : slot[m] = parent_slot}
       /\ parent_slot # None => P # {}
       /\ Insert(n, i, P, {})
  /\ handles' = [handles EXCEPT ![n] = 1]
  /\ cache' = [cache EXCEPT ![k] = n]
  /\ output_key' = [output_key EXCEPT ![n] = k]
  /\ UNCHANGED <<owned, router, parent, parent_slot, memo_vars>>

\* new_node(): the output observes whatever has the source's slot now.
RouteMiss(k, n, i) ==
  /\ RouterInHand
  /\ ~ Served(k)
  /\ \E P \in SUBSET graph :
       /\ P = {m \in graph : slot[m] = parent_slot}
       /\ parent_slot # None => P # {}
       /\ Insert(n, i, P, {})
  /\ handles' = [handles EXCEPT ![n] = 1]
  /\ cache' = [cache EXCEPT ![k] = n]
  /\ output_key' = [output_key EXCEPT ![n] = k]
  /\ UNCHANGED <<owned, router, parent, parent_slot, memo_vars>>

\* Nothing has it: petgraph panics in add_edge().
RoutePanics(k) ==
  /\ ClientOwnsExecutor
  /\ RouterInHand
  /\ ~ Served(k)
  /\ parent_slot # None /\ \A m \in graph : slot[m] # parent_slot
  /\ phase' = "panicked"
  /\ UNCHANGED <<graph_vars, count_vars, running, gc_vars, dying, router_vars,
                 memo_vars>>

-----------------------------------------------------------------------------
(* SimpleFactory and KeyedFactory.                                         *)

\* The RefCell of the factory of k is not borrowed.
Free(f) == \A j \in 1 .. Len(building) : FactoryOf(building[j]) # f

\* attach() asserts that there is no function.
Attach(f) ==
  /\ ClientOwnsExecutor
  /\ Free(f)
  /\ ~ factory[f]
  /\ factory' = [factory EXCEPT ![f] = TRUE]
  /\ UNCHANGED <<graph_vars, count_vars, cycle_vars, gc_vars, dying,
                 router_vars, memo, building, got>>

\* get() of a key that has its node
GetHit(k) ==
  /\ ClientOwnsExecutor
  /\ Free(FactoryOf(k))
  /\ memo[k] # None
  /\ handles[memo[k]] < MaxHandles
  /\ handles' = [handles EXCEPT ![memo[k]] = @ + 1]
  /\ got' = [got EXCEPT ![k] = @ \cup {memo[k]}]
  /\ UNCHANGED <<graph_vars, weaks, exclusive, cycle_vars, gc_vars, dying,
                 router_vars, memo, factory, building>>

\* Mutant: a factory may be asked while its function runs.
GetMiss_Reentrant(k) ==
  /\ ClientOwnsExecutor
  /\ Len(building) < 2
  /\ memo[k] = None
  /\ factory[FactoryOf(k)]
  /\ building' = <<k>> \o building
  /\ UNCHANGED <<graph_vars, count_vars, cycle_vars, gc_vars, dying,
                 router_vars, memo, factory, got>>

\* get() of a key that has none calls the factory function; the RefCell stays
\* borrowed meanwhile.  A SimpleFactory gives its function away.
GetMiss(k) ==
  /\ ClientOwnsExecutor
  /\ Free(FactoryOf(k))
  /\ memo[k] = None
  /\ factory[FactoryOf(k)]
  /\ building' = <<k>> \o building
  /\ factory' = [factory EXCEPT !["simple"] = @ /\ k # Unit]
  /\ UNCHANGED <<graph_vars, count_vars, cycle_vars, gc_vars, dying,
                 router_vars, memo, got>>

\* The factory function, which is client code, returns the node n: the factory
\* keeps the handle and returns a clone of it.
GetReturns(n) ==
  /\ ClientOwnsExecutor
  /\ building # <<>>
  /\ handles[n] > 0
  /\ building' = Tail(building)
  /\ memo' = [memo EXCEPT ![Head(building)] = n]
  /\ got' = [got EXCEPT ![Head(building)] = @ \cup {n}]
  /\ UNCHANGED <<graph_vars, count_vars, cycle_vars, gc_vars, dying,
                 router_vars, factory>>

\* It panics, as it does when it asks its own factory: nothing is cached.
GetPanics ==
  /\ ClientOwnsExecutor
  /\ building # <<>>
  /\ building' = Tail(building)
  /\ UNCHANGED <<graph_vars, count_vars, cycle_vars, gc_vars, dying,
                 router_vars, memo, factory, got>>

-----------------------------------------------------------------------------
(* A cycle of the executor.                                                *)

BeginCycle ==
  /\ ClientOwnsExecutor
  /\ building = <<>>
  /\ phase' = "loop"
  /\ UNCHANGED <<graph_vars, count_vars, running, gc_vars, dying, router_vars,
                 memo_vars>>

\* The closure of a node upgrades its WeakNode and runs the cycle function.
Enter(n) ==
  /\ phase = "loop" /\ dying = {} /\ running = None
  /\ n \in graph \ swept /\ Alive(n)
  /\ running' = n
  /\ UNCHANGED <<graph_vars, count_vars, phase, gc_vars, dying, router_vars,
                 memo_vars>>

\* It returns Broadcast or Unchanged.
Return ==
  /\ running # None /\ dying = {}
  /\ running' = None
  /\ UNCHANGED <<graph_vars, count_vars, phase, gc_vars, router_vars, memo_vars>>
  /\ dying' = Lost

\* n and all below it: what every set of nodes contains that contains n and
\* the children of its nodes
Descendants(n) ==
  LET Families == {S \in SUBSET graph :
                     n \in S /\ \A e \in edges : e[1] \in S => e[2] \in S}
  IN  {m \in graph : \A S \in Families : m \in S}

\* Mutant: the children of a swept node stay.
Sweep_Alone(n) ==
  /\ phase = "loop" /\ dying = {}
  /\ n \in graph
  /\ running = n \/ (running = None /\ ~ Alive(n))
  /\ removal_queue' = removal_queue \cup {slot[n]}
  /\ swept' = swept \cup {n}
  /\ running' = None
  /\ UNCHANGED <<graph_vars, count_vars, phase, foreign, router_vars, memo_vars>>
  /\ dying' = Lost

\* A node returns Sweep, or its closure does because it cannot be upgraded:
\* all its descendants are marked by the end of the loop.
Sweep(n) ==
  /\ phase = "loop" /\ dying = {}
  /\ n \in graph
  /\ running = n \/ (running = None /\ ~ Alive(n))
  /\ removal_queue' = removal_queue \cup {slot[m] : m \in Descendants(n)}
  /\ swept' = swept \cup Descendants(n)
  /\ running' = None
  /\ UNCHANGED <<graph_vars, count_vars, phase, foreign, router_vars, memo_vars>>
  /\ dying' = Lost

EndLoop ==
  /\ phase = "loop" /\ dying = {} /\ running = None
  /\ phase' = "sweep"
  /\ UNCHANGED <<graph_vars, count_vars, running, gc_vars, dying, router_vars,
                 memo_vars>>

\* Mutant: the edges of a removed node stay.
Remove_KeepsEdges(i) ==
  /\ phase = "sweep" /\ dying = {}
  /\ i \in removal_queue
  /\ removal_queue' = removal_queue \ {i}
  /\ LET gone == {m \in graph : slot[m] = i} IN
       /\ graph' = graph \ gone
       /\ owned' = [m \in Node |-> IF m \in gone THEN {} ELSE owned[m]]
       /\ exclusive' = {n \in exclusive : Owners(n) \cap gone = {}}
  /\ UNCHANGED <<made, slot, edges, handles, weaks, cycle_vars, swept, foreign,
                 router_vars, memo_vars>>
  /\ dying' = Lost

\* Graph::remove_node() of a marked slot drops the closure of the node that
\* has it, with the handles that the closure owns.
Remove(i) ==
  /\ phase = "sweep" /\ dying = {}
  /\ i \in removal_queue
  /\ removal_queue' = removal_queue \ {i}
  /\ LET gone == {m \in graph : slot[m] = i} IN
       /\ graph' = graph \ gone
       /\ edges' = {e \in edges : e[1] \notin gone /\ e[2] \notin gone}
       /\ owned' = [m \in Node |-> IF m \in gone THEN {} ELSE owned[m]]
       /\ exclusive' = {n \in exclusive : Owners(n) \cap gone = {}}
  /\ UNCHANGED <<made, slot, handles, weaks, cycle_vars, swept, foreign,
                 router_vars, memo_vars>>
  /\ dying' = Lost

EndSweep ==
  /\ phase = "sweep" /\ dying = {}
  /\ removal_queue = {}
  /\ phase' = "idle"
  /\ UNCHANGED <<graph_vars, count_vars, running, gc_vars, dying, router_vars,
                 memo_vars>>

\* A mark for n hits what is, or will be, another node's slot.  In the sweep
\* loop nothing is built, and a vacant slot is marked in vain.
Misses(n) ==
  n \notin graph /\ (phase # "sweep" \/ \E m \in graph : slot[m] = slot[n])

\* Outputs that the on_drop callback of the router reaches through its cache
LiveOutputs == {n \in Node : Cached(n) /\ Alive(n)}

\* NodeInner::drop(): the slot is marked, then the on_drop callback runs.  An
\* output removes the entry of its key from the cache; a router marks its
\* outputs and clears the cache.
Destroy(n) ==
  /\ n \in dying
  /\ dying' = dying \ {n}
  /\ LET outputs == IF n = router THEN LiveOutputs ELSE {} IN
       /\ removal_queue' = removal_queue \cup {slot[m] : m \in outputs \cup {n}}
       /\ swept' = swept \cup outputs
       /\ foreign' = (foreign \/ \E m \in outputs \cup {n} : Misses(m))
  /\ cache' = [k \in Key |-> IF n = router \/ output_key[n] = k THEN None ELSE cache[k]]
  /\ UNCHANGED <<graph_vars, count_vars, cycle_vars, router, parent,
                 parent_slot, output_key, memo_vars>>

-----------------------------------------------------------------------------
Client ==
  \/ \E n \in Node :
       \/ Clone(n) \/ DropHandle(n) \/ Downgrade(n) \/ DropWeak(n)
       \/ UpgradeWeak(n) \/ Upgrade(n) \/ Share(n) \/ DropExclusive(n)
       \/ GetReturns(n)
  \/ \E n \in Node \ made, i \in Slot :
       \/ \E P \in SUBSET graph, O \in SUBSET made : Build(n, i, P, O)
       \/ \E P \in SUBSET graph : Spawn(n, i, P)
       \/ \E s \in graph : BuildRouter(n, i, s)
       \/ BuildChannelRouter(n, i)
       \/ \E k \in Key : RouteMiss(k, n, i)
  \/ \E k \in Key : RouteHit(k) \/ RoutePanics(k)
  \/ \E f \in Factories : Attach(f)
  \/ \E k \in FactoryKeys : GetHit(k) \/ GetMiss(k)
  \/ GetPanics

HandlesNext ==
  \/ Client
  \/ BeginCycle
  \/ \E n \in Node : Enter(n) \/ Sweep(n) \/ Destroy(n)
  \/ Return \/ EndLoop
  \/ \E i \in Slot : Remove(i)
  \/ EndSweep

HandlesSpec == HandlesInit /\ [][HandlesNext]_handle_vars

-----------------------------------------------------------------------------
HandlesTypeOK ==
  /\ made \subseteq Node /\ graph \subseteq made
  /\ slot \in [Node -> Slot \cup {None}]
  /\ edges \subseteq graph \X graph
  /\ owned \in [Node -> SUBSET made]
  /\ handles \in [Node -> Nat] /\ weaks \in [Node -> Nat]
  /\ exclusive \subseteq made
  /\ phase \in {"idle", "loop", "sweep", "panicked"}
  /\ running \in graph \cup {None}
  /\ removal_queue \subseteq Slot
  /\ dying \subseteq made
  /\ router \in made \cup {None} /\ parent \in made \cup {None}
  /\ parent_slot \in Slot \cup {None}
  /\ cache \in [Key -> made \cup {None}]
  /\ output_key \in [Node -> Key \cup {None}]
  /\ memo \in [FactoryKeys -> made \cup {None}]
  /\ factory \in [Factories -> BOOLEAN]
  /\ building \in Seq(FactoryKeys)
  /\ got \in [FactoryKeys -> SUBSET made]
  /\ swept \subseteq made
  /\ foreign \in BOOLEAN

\* ExclusiveNode::borrow_mut(): "we enforce that at this point there is
\* exclusive access to the node".  As long as the node is in the graph nobody
\* else has a reference to it: no handle, no WeakNode that could become one,
\* no second closure, no router's cache and no factory.
ExclusiveIsSole ==
  \A n \in exclusive \cap graph :
    /\ handles[n] = 0 /\ weaks[n] = 0
    /\ ~ Memoised(n) /\ ~ Cached(n)
    /\ \A m1, m2 \in Owners(n) : m1 = m2

\* "The returned Node<T> handle keeps the node alive": a node that anybody
\* holds, be it a client, a cycle function or a factory, leaves the graph only
\* when it is swept, or a handle that outlived its own node marks the slot.
HeldStays ==
  \A n \in made \ graph : Alive(n) => n \in swept \/ foreign

\* As long as the router lives, its cache leads to every output that is alive:
\* there is one output per key, and none that the router would never serve.
OutputsAreRouted ==
  \A n \in made :
    output_key[n] # None /\ Alive(n) /\ Alive(router) => cache[output_key[n]] = n

\* As long as the router is in the graph its RawHandle names its source, whose
\* slot route() gives to the builder of an output.
RawHandleIsValid ==
  router \in graph /\ parent # None =>
    \/ parent \in graph /\ slot[parent] = parent_slot
    \/ slot[router] \in removal_queue
    \/ foreign

\* "conn1 and conn2 are the same node instance": whatever the factory function
\* does, get() answers the same node for the same key for ever.
OneNodePerKey ==
  \A k \in FactoryKeys : \A m, n \in got[k] : m = n
=============================================================================
