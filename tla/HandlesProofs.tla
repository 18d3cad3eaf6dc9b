---------------------------- MODULE HandlesProofs ----------------------------
(***************************************************************************)
(* Proofs about the handles, for every number of nodes, slots, keys and    *)
(* references: exclusive access, the outputs of a router and the nodes of  *)
(* the factories.                                                          *)
(***************************************************************************)
EXTENDS Handles, TLAPS

(* The types that the proofs need.  Nobody refers to a node that was not   *)
(* built, and a closure that is not in the graph owns nothing.             *)
RefTypes ==
  /\ made \in SUBSET Node /\ graph \in SUBSET made
  /\ owned \in [Node -> SUBSET made]
  /\ handles \in [Node -> Nat] /\ weaks \in [Node -> Nat]
  /\ exclusive \in SUBSET made
  /\ running \in made \cup {None}
  /\ dying \in SUBSET made
  /\ router \in made \cup {None}
  /\ cache \in [Key -> made \cup {None}]
  /\ output_key \in [Node -> Key \cup {None}]
  /\ memo \in [FactoryKeys -> made \cup {None}]
  /\ \A n \in Node : handles[n] > 0 \/ weaks[n] > 0 => n \in made
  /\ \A n \in Node \ graph : owned[n] = {}

LEMMA RefTypesInit == HandlesInit => RefTypes
BY DEF HandlesInit, RefTypes

LEMMA RefTypesStep == RefTypes /\ HandlesNext => RefTypes'
<1> SUFFICES ASSUME RefTypes, HandlesNext PROVE RefTypes'
  OBVIOUS
<1> USE HandlesAssumption DEF RefTypes
<1>1. CASE \E n \in Node : Clone(n) \/ DropHandle(n) \/ Downgrade(n) \/ DropWeak(n)
                           \/ UpgradeWeak(n) \/ Upgrade(n) \/ Share(n) \/ DropExclusive(n)
  <2>1. UNCHANGED <<graph_vars, cycle_vars, gc_vars, router_vars, memo_vars>>
        /\ dying' = dying \cup Lost
    BY <1>1 DEF Clone, DropHandle, Downgrade, DropWeak, UpgradeWeak, Upgrade, Share,
                DropExclusive, HandleCall
  <2>2. exclusive' \in SUBSET made
    BY <1>1 DEF Clone, DropHandle, Downgrade, DropWeak, UpgradeWeak, Upgrade, Share,
                DropExclusive
  <2>3. /\ handles' \in [Node -> Nat] /\ weaks' \in [Node -> Nat]
        /\ \A n \in Node : handles'[n] > 0 \/ weaks'[n] > 0 => n \in made
    BY <1>1 DEF Clone, DropHandle, Downgrade, DropWeak, UpgradeWeak, Upgrade, Share,
                DropExclusive, InHand, ClientRuns
  <2>4. QED
    BY <2>1, <2>2, <2>3 DEF Lost, graph_vars, cycle_vars, router_vars, memo_vars
<1>2. CASE \E n \in Node \ made, i \in Slot, P \in SUBSET graph, O \in SUBSET made : Build(n, i, P, O)
  <2>1. PICK n \in Node \ made, i \in Slot, P \in SUBSET graph, O \in SUBSET made : Build(n, i, P, O)
    BY <1>2
  <2>2. /\ made' = made \cup {n} /\ graph' = graph \cup {n}
        /\ owned' = [owned EXCEPT ![n] = O]
        /\ handles' = [Moved(O) EXCEPT ![n] = 1]
        /\ \A o \in O : InHand(o) \/ handles[o] > 0
        /\ UNCHANGED <<weaks, exclusive, running, dying, router, cache, output_key, memo>>
    BY <2>1 DEF Build, Insert, cycle_vars, router_vars, memo_vars
  <2>3. \A m \in Node : m \in O \ exclusive => handles[m] > 0
    BY <2>2 DEF InHand
  <2>4. /\ handles' \in [Node -> Nat]
        /\ \A m \in Node : handles'[m] > 0 => m \in made'
    BY <2>1, <2>2, <2>3 DEF Moved
  <2>5. owned' \in [Node -> SUBSET made']
    BY <2>1, <2>2
  <2>6. QED
    BY <2>1, <2>2, <2>4, <2>5
<1>3. CASE \E n \in Node \ made, i \in Slot, P \in SUBSET graph : Spawn(n, i, P)
  <2>1. PICK n \in Node \ made, i \in Slot, P \in SUBSET graph : Spawn(n, i, P)
    BY <1>3
  <2>2. /\ made' = made \cup {n} /\ graph' = graph \cup {n}
        /\ owned' = [owned EXCEPT ![n] = {n}]
        /\ UNCHANGED <<handles, weaks, exclusive, running, dying, router, cache,
                       output_key, memo>>
    BY <2>1 DEF Spawn, Insert, cycle_vars, router_vars, memo_vars
  <2>3. owned' \in [Node -> SUBSET made']
    BY <2>1, <2>2
  <2>4. QED
    BY <2>1, <2>2, <2>3
<1>4. CASE \E n \in Node \ made, i \in Slot, s \in graph : BuildRouter(n, i, s)
  <2>1. PICK n \in Node \ made, i \in Slot, s \in graph : BuildRouter(n, i, s)
    BY <1>4
  <2>2. /\ made' = made \cup {n} /\ graph' = graph \cup {n}
        /\ owned' = [owned EXCEPT ![n] = {s}]
        /\ handles' = [Moved({s}) EXCEPT ![n] = 1]
        /\ InHand(s) \/ handles[s] > 0
        /\ router' = n
        /\ UNCHANGED <<weaks, exclusive, running, dying, cache, output_key, memo>>
    BY <2>1 DEF BuildRouter, Insert, cycle_vars, memo_vars
  <2>3. s \notin exclusive => handles[s] > 0
    BY <2>2 DEF InHand
  <2>4. /\ handles' \in [Node -> Nat]
        /\ \A m \in Node : handles'[m] > 0 => m \in made'
    BY <2>1, <2>2, <2>3 DEF Moved
  <2>5. owned' \in [Node -> SUBSET made']
    BY <2>1, <2>2
  <2>6. /\ made' \in SUBSET Node /\ graph' \in SUBSET made'
        /\ exclusive' \in SUBSET made' /\ dying' \in SUBSET made'
        /\ running' \in made' \cup {None} /\ router' \in made' \cup {None}
    BY <2>1, <2>2
  <2>7. /\ cache' \in [Key -> made' \cup {None}]
        /\ output_key' \in [Node -> Key \cup {None}]
        /\ memo' \in [FactoryKeys -> made' \cup {None}]
    BY <2>2
  <2>8. weaks' \in [Node -> Nat] /\ \A m \in Node : weaks'[m] > 0 => m \in made'
    BY <2>2
  <2>9. \A m \in Node \ graph' : owned'[m] = {}
    BY <2>1, <2>2
  <2>10. QED
    BY <2>4, <2>5, <2>6, <2>7, <2>8, <2>9
<1>5. CASE \E n \in Node \ made, i \in Slot : BuildChannelRouter(n, i)
  BY <1>5 DEF BuildChannelRouter, Insert, cycle_vars, memo_vars
<1>6. CASE \E n \in Node \ made, i \in Slot, k \in Key : RouteMiss(k, n, i)
  BY <1>6 DEF RouteMiss, Insert, cycle_vars, memo_vars
<1>7. CASE \E k \in Key : RouteHit(k)
  <2>1. PICK k \in Key : RouteHit(k)
    BY <1>7
  <2>2. cache[k] \in made
    BY <2>1 DEF RouteHit, Served
  <2>3. QED
    BY <2>1, <2>2 DEF RouteHit, HandleCall, Lost, graph_vars, cycle_vars,
                      router_vars, memo_vars
<1>8. CASE \E k \in FactoryKeys : GetHit(k)
  <2>1. PICK k \in FactoryKeys : GetHit(k)
    BY <1>8
  <2>2. memo[k] \in made
    BY <2>1 DEF GetHit
  <2>3. QED
    BY <2>1, <2>2 DEF GetHit, graph_vars, cycle_vars, router_vars
<1>9. CASE \E n \in Node : GetReturns(n)
  BY <1>9 DEF GetReturns, graph_vars, count_vars, cycle_vars, router_vars
<1>10. CASE \/ \E k \in Key : RoutePanics(k)
            \/ \E f \in Factories : Attach(f)
            \/ \E k \in FactoryKeys : GetMiss(k)
            \/ GetPanics \/ BeginCycle \/ EndLoop \/ EndSweep
  BY <1>10 DEF RoutePanics, Attach, GetMiss, GetPanics, BeginCycle, EndLoop, EndSweep,
               graph_vars, count_vars, cycle_vars, router_vars, memo_vars
<1>11. CASE \E n \in Node : Enter(n)
  BY <1>11 DEF Enter, graph_vars, count_vars, router_vars, memo_vars
<1>12. CASE Return \/ \E n \in Node : Sweep(n)
  BY <1>12 DEF Return, Sweep, Lost, graph_vars, count_vars, router_vars, memo_vars
<1>13. CASE \E i \in Slot : Remove(i)
  BY <1>13 DEF Remove, Lost, cycle_vars, router_vars, memo_vars
<1>14. CASE \E n \in Node : Destroy(n)
  BY <1>14 DEF Destroy, graph_vars, count_vars, cycle_vars, memo_vars
<1>15. QED
  BY <1>1, <1>2, <1>3, <1>4, <1>5, <1>6, <1>7, <1>8, <1>9, <1>10, <1>11, <1>12,
     <1>13, <1>14 DEF HandlesNext, Client

-----------------------------------------------------------------------------
(* A node that has lost its last reference stays without.                  *)

LEMMA AliveIsMade == RefTypes => \A n \in Node : Alive(n) => n \in made
<1> SUFFICES ASSUME RefTypes, NEW n \in Node, Alive(n) PROVE n \in made
  OBVIOUS
<1>1. CASE handles[n] > 0 \/ n \in exclusive \/ running = n
  BY <1>1, HandlesAssumption DEF RefTypes
<1>2. CASE Owners(n) # {}
  BY <1>2 DEF RefTypes, Owners
<1>3. CASE Memoised(n)
  BY <1>3, HandlesAssumption DEF RefTypes, Memoised
<1>4. QED
  BY <1>1, <1>2, <1>3 DEF Alive

\* A step makes nobody alive who was built before.
LEMMA AliveStep ==
  ASSUME RefTypes, HandlesNext, NEW n \in made, Alive(n)'
  PROVE  Alive(n)
<1> USE HandlesAssumption DEF RefTypes
<1> USE DEF Alive, Owners, Memoised
<1>1. CASE \E m \in Node : Clone(m) \/ DropHandle(m) \/ Downgrade(m) \/ DropWeak(m)
                           \/ UpgradeWeak(m) \/ Upgrade(m) \/ Share(m) \/ DropExclusive(m)
  <2>1. UNCHANGED <<graph, owned, running, memo>>
    BY <1>1 DEF Clone, DropHandle, Downgrade, DropWeak, UpgradeWeak, Upgrade, Share,
                DropExclusive, HandleCall, graph_vars, cycle_vars, memo_vars
  <2>2. handles'[n] > 0 \/ n \in exclusive' => Alive(n)
    BY <1>1 DEF Clone, DropHandle, Downgrade, DropWeak, UpgradeWeak, Upgrade, Share,
                DropExclusive, InHand
  <2>3. QED
    BY <2>1, <2>2
<1>2. CASE \E m \in Node \ made, i \in Slot, P \in SUBSET graph, O \in SUBSET made : Build(m, i, P, O)
  <2>1. PICK m \in Node \ made, i \in Slot, P \in SUBSET graph, O \in SUBSET made : Build(m, i, P, O)
    BY <1>2
  <2>2. /\ graph' = graph \cup {m}
        /\ owned' = [owned EXCEPT ![m] = O]
        /\ handles' = [Moved(O) EXCEPT ![m] = 1]
        /\ \A o \in O : o \in exclusive \/ handles[o] > 0
        /\ UNCHANGED <<exclusive, running, memo>>
    BY <2>1 DEF Build, Insert, InHand, cycle_vars, memo_vars
  <2>3. handles'[n] > 0 => handles[n] > 0
    BY <2>1, <2>2 DEF Moved
  <2>4. n \in O => Alive(n)
    BY <2>2
  <2>5. QED
    BY <2>1, <2>2, <2>3, <2>4
<1>3. CASE \E m \in Node \ made, i \in Slot, P \in SUBSET graph : Spawn(m, i, P)
  BY <1>3 DEF Spawn, Insert, cycle_vars, router_vars, memo_vars
<1>4. CASE \E m \in Node \ made, i \in Slot, s \in graph : BuildRouter(m, i, s)
  <2>1. PICK m \in Node \ made, i \in Slot, s \in graph : BuildRouter(m, i, s)
    BY <1>4
  <2>2. /\ graph' = graph \cup {m}
        /\ owned' = [owned EXCEPT ![m] = {s}]
        /\ handles' = [Moved({s}) EXCEPT ![m] = 1]
        /\ s \in exclusive \/ handles[s] > 0
        /\ UNCHANGED <<exclusive, running, memo>>
    BY <2>1 DEF BuildRouter, Insert, InHand, cycle_vars, memo_vars
  <2>3. handles'[n] > 0 => handles[n] > 0
    BY <2>1, <2>2 DEF Moved
  <2>4. n = s => Alive(n)
    BY <2>2
  <2>5. QED
    BY <2>1, <2>2, <2>3, <2>4
<1>5. CASE \E m \in Node \ made, i \in Slot : BuildChannelRouter(m, i)
  BY <1>5 DEF BuildChannelRouter, Insert, cycle_vars, memo_vars
<1>6. CASE \E m \in Node \ made, i \in Slot, k \in Key : RouteMiss(k, m, i)
  BY <1>6 DEF RouteMiss, Insert, cycle_vars, memo_vars
<1>7. CASE \E k \in Key : RouteHit(k)
  <2>1. PICK k \in Key : RouteHit(k)
    BY <1>7
  <2>2. Alive(cache[k]) /\ cache[k] \in made
    BY <2>1 DEF RouteHit, Served
  <2>3. /\ handles' = [handles EXCEPT ![cache[k]] = @ + 1]
        /\ UNCHANGED <<graph, owned, exclusive, running, memo>>
    BY <2>1 DEF RouteHit, HandleCall, graph_vars, cycle_vars, memo_vars
  <2>4. CASE n = cache[k]
    BY <2>2, <2>4
  <2>5. CASE n # cache[k]
    BY <2>3, <2>5
  <2>6. QED
    BY <2>4, <2>5
<1>8. CASE \E k \in FactoryKeys : GetHit(k)
  <2>1. PICK k \in FactoryKeys : GetHit(k)
    BY <1>8
  <2>2. /\ memo[k] \in made
        /\ handles' = [handles EXCEPT ![memo[k]] = @ + 1]
        /\ UNCHANGED <<graph, owned, exclusive, running, memo>>
    BY <2>1 DEF GetHit, graph_vars, cycle_vars
  <2>3. CASE n = memo[k]
    BY <2>3
  <2>4. CASE n # memo[k]
    BY <2>2, <2>4
  <2>5. QED
    BY <2>3, <2>4
<1>9. CASE \E m \in Node : GetReturns(m)
  <2>1. PICK m \in Node : GetReturns(m)
    BY <1>9
  <2>2. /\ memo' = [memo EXCEPT ![Head(building)] = m] /\ handles[m] > 0
        /\ UNCHANGED <<graph, owned, handles, exclusive, running>>
    BY <2>1 DEF GetReturns, graph_vars, count_vars, cycle_vars
  <2>3. \A k \in FactoryKeys : memo'[k] = n => memo[k] = n \/ n = m
    BY <2>2
  <2>4. QED
    BY <2>2, <2>3
<1>10. CASE \/ \E k \in Key : RoutePanics(k)
            \/ \E f \in Factories : Attach(f)
            \/ \E k \in FactoryKeys : GetMiss(k)
            \/ GetPanics \/ BeginCycle \/ EndLoop \/ EndSweep
  BY <1>10 DEF RoutePanics, Attach, GetMiss, GetPanics, BeginCycle, EndLoop, EndSweep,
               graph_vars, count_vars, cycle_vars, router_vars, memo_vars
<1>11. CASE \E m \in Node : Enter(m)
  BY <1>11 DEF Enter, graph_vars, count_vars, router_vars, memo_vars
<1>12. CASE Return \/ \E m \in Node : Sweep(m)
  BY <1>12 DEF Return, Sweep, graph_vars, count_vars, router_vars, memo_vars
<1>13. CASE \E i \in Slot : Remove(i)
  BY <1>13 DEF Remove, cycle_vars, router_vars, memo_vars
<1>14. CASE \E m \in Node : Destroy(m)
  BY <1>14 DEF Destroy, graph_vars, count_vars, cycle_vars, memo_vars
<1>15. QED
  BY <1>1, <1>2, <1>3, <1>4, <1>5, <1>6, <1>7, <1>8, <1>9, <1>10, <1>11, <1>12,
     <1>13, <1>14 DEF HandlesNext, Client

-----------------------------------------------------------------------------
(* Exclusive access.                                                       *)

\* upgrade() takes the last reference, and from then on nobody has one that
\* another could be made from.
LEMMA SoleStep ==
  ASSUME RefTypes, ExclusiveIsSole, HandlesNext
  PROVE  ExclusiveIsSole'
<1> SUFFICES ASSUME NEW n \in exclusive' \cap graph'
             PROVE  /\ handles'[n] = 0 /\ weaks'[n] = 0
                    /\ ~ Memoised(n)' /\ ~ Cached(n)'
                    /\ \A m1, m2 \in Owners(n)' : m1 = m2
  BY DEF ExclusiveIsSole
<1> USE HandlesAssumption DEF RefTypes, ExclusiveIsSole, Memoised, Cached, Owners
<1>1. CASE \E m \in Node : Clone(m) \/ DropHandle(m) \/ Downgrade(m) \/ DropWeak(m)
                           \/ UpgradeWeak(m) \/ Share(m) \/ DropExclusive(m)
  <2>1. UNCHANGED <<graph, owned, cache, memo>> /\ n \in exclusive
    BY <1>1 DEF Clone, DropHandle, Downgrade, DropWeak, UpgradeWeak, Share,
                DropExclusive, HandleCall, graph_vars, router_vars, memo_vars
  <2>2. handles'[n] = 0 /\ weaks'[n] = 0
    BY <1>1, <2>1 DEF Clone, DropHandle, Downgrade, DropWeak, UpgradeWeak, Share,
                      DropExclusive, InHand
  <2>3. QED
    BY <2>1, <2>2
<1>2. CASE \E m \in Node : Upgrade(m)
  <2>1. PICK m \in Node : Upgrade(m)
    BY <1>2
  <2>2. /\ UNCHANGED <<graph, owned, cache, memo, weaks>>
        /\ handles' = [handles EXCEPT ![m] = @ - 1] /\ handles[m] > 0
    BY <2>1 DEF Upgrade, HandleCall, graph_vars, router_vars, memo_vars
  <2>3. CASE n \in exclusive
    BY <2>2, <2>3
  <2>4. CASE n \notin exclusive
    <3>1. n = m /\ OnlyHandle(n) /\ OnlyWeak(n)
      BY <2>1, <2>4 DEF Upgrade
    <3>2. ClosureRefers(n)
      BY <2>2, <3>1 DEF ClosureRefers, OnlyHandle
    <3>3. weaks[n] = 0 /\ ~ Cached(n)
      BY <3>1, <3>2 DEF OnlyWeak
    <3>4. QED
      BY <2>2, <3>1, <3>3 DEF OnlyHandle
  <2>5. QED
    BY <2>3, <2>4
<1>3. CASE \E m \in Node \ made, i \in Slot, P \in SUBSET graph, O \in SUBSET made : Build(m, i, P, O)
  <2>1. PICK m \in Node \ made, i \in Slot, P \in SUBSET graph, O \in SUBSET made : Build(m, i, P, O)
    BY <1>3
  <2>2. /\ graph' = graph \cup {m}
        /\ owned' = [owned EXCEPT ![m] = O]
        /\ handles' = [Moved(O) EXCEPT ![m] = 1]
        /\ \A o \in O : InHand(o) \/ handles[o] > 0
        /\ UNCHANGED <<weaks, exclusive, cache, memo>>
    BY <2>1 DEF Build, Insert, router_vars, memo_vars
  <2>3. n \in exclusive /\ n \in graph /\ n # m
    BY <2>1, <2>2
  <2>4. handles'[n] = 0
    BY <2>2, <2>3 DEF Moved
  <2>5. n \in O => Owners(n) = {}
    BY <2>2, <2>3 DEF InHand
  <2>6. QED
    BY <2>1, <2>2, <2>3, <2>4, <2>5
<1>4. CASE \E m \in Node \ made, i \in Slot, P \in SUBSET graph : Spawn(m, i, P)
  BY <1>4 DEF Spawn, Insert, router_vars, memo_vars
<1>5. CASE \E m \in Node \ made, i \in Slot, s \in graph : BuildRouter(m, i, s)
  <2>1. PICK m \in Node \ made, i \in Slot, s \in graph : BuildRouter(m, i, s)
    BY <1>5
  <2>2. /\ graph' = graph \cup {m}
        /\ owned' = [owned EXCEPT ![m] = {s}]
        /\ handles' = [Moved({s}) EXCEPT ![m] = 1]
        /\ InHand(s) \/ handles[s] > 0
        /\ UNCHANGED <<weaks, exclusive, cache, memo>>
    BY <2>1 DEF BuildRouter, Insert, memo_vars
  <2>3. n \in exclusive /\ n \in graph /\ n # m
    BY <2>1, <2>2
  <2>4. handles'[n] = 0
    BY <2>2, <2>3 DEF Moved
  <2>5. n = s => Owners(n) = {}
    BY <2>2, <2>3 DEF InHand
  <2>6. QED
    BY <2>1, <2>2, <2>3, <2>4, <2>5
<1>6. CASE \E m \in Node \ made, i \in Slot : BuildChannelRouter(m, i)
  BY <1>6 DEF BuildChannelRouter, Insert, memo_vars
<1>7. CASE \E m \in Node \ made, i \in Slot, k \in Key : RouteMiss(k, m, i)
  BY <1>7 DEF RouteMiss, Insert, memo_vars
<1>8. CASE \E k \in Key : RouteHit(k)
  BY <1>8 DEF RouteHit, Served, HandleCall, graph_vars, router_vars, memo_vars
<1>9. CASE \E k \in FactoryKeys : GetHit(k)
  BY <1>9 DEF GetHit, graph_vars, router_vars
<1>10. CASE \E m \in Node : GetReturns(m)
  BY <1>10 DEF GetReturns, graph_vars, count_vars, router_vars
<1>11. CASE \/ \E k \in Key : RoutePanics(k)
            \/ \E f \in Factories : Attach(f)
            \/ \E k \in FactoryKeys : GetMiss(k)
            \/ GetPanics \/ BeginCycle \/ EndLoop \/ EndSweep \/ Return
            \/ \E m \in Node : Enter(m) \/ Sweep(m)
  BY <1>11 DEF RoutePanics, Attach, GetMiss, GetPanics, BeginCycle, EndLoop, EndSweep,
               Return, Enter, Sweep, graph_vars, count_vars, router_vars, memo_vars
<1>12. CASE \E i \in Slot : Remove(i)
  BY <1>12 DEF Remove, router_vars, memo_vars
<1>13. CASE \E m \in Node : Destroy(m)
  BY <1>13 DEF Destroy, graph_vars, count_vars, memo_vars
<1>14. QED
  BY <1>1, <1>2, <1>3, <1>4, <1>5, <1>6, <1>7, <1>8, <1>9, <1>10, <1>11, <1>12,
     <1>13 DEF HandlesNext, Client

-----------------------------------------------------------------------------
(* The outputs of a router.                                                *)

\* A node whose on_drop callback has yet to run is dead already.
DyingIsDead == \A n \in dying : ~ Alive(n)

\* An output stays in the cache of a living router until its on_drop callback
\* has run; before there is a router there are no outputs.
RoutedInv ==
  /\ \A n \in made :
       /\ output_key[n] # None /\ router # None /\ Alive(router)
       /\ Alive(n) \/ n \in dying
       => cache[output_key[n]] = n
  /\ router = None => \A n \in Node : output_key[n] = None
  /\ \A n \in Node \ made : output_key[n] = None

LEMMA DyingStep == HandlesNext => dying' \in SUBSET (dying \cup Lost)
<1> SUFFICES ASSUME HandlesNext PROVE dying' \in SUBSET (dying \cup Lost)
  OBVIOUS
<1>1. CASE \/ \E n \in Node :
                \/ Clone(n) \/ DropHandle(n) \/ Downgrade(n) \/ DropWeak(n)
                \/ UpgradeWeak(n) \/ Upgrade(n) \/ Share(n) \/ DropExclusive(n)
           \/ \E k \in Key : RouteHit(k)
  <2>1. HandleCall
    BY <1>1 DEF Clone, DropHandle, Downgrade, DropWeak, UpgradeWeak, Upgrade, Share,
                DropExclusive, RouteHit
  <2>2. QED
    BY <2>1 DEF HandleCall
<1>2. CASE \E n \in Node \ made, i \in Slot :
             \/ \E P \in SUBSET graph, O \in SUBSET made : Build(n, i, P, O)
             \/ \E P \in SUBSET graph : Spawn(n, i, P)
             \/ \E s \in graph : BuildRouter(n, i, s)
             \/ BuildChannelRouter(n, i)
             \/ \E k \in Key : RouteMiss(k, n, i)
  <2>1. PICK n \in Node \ made, i \in Slot :
          \/ \E P \in SUBSET graph, O \in SUBSET made : Build(n, i, P, O)
          \/ \E P \in SUBSET graph : Spawn(n, i, P)
          \/ \E s \in graph : BuildRouter(n, i, s)
          \/ BuildChannelRouter(n, i)
          \/ \E k \in Key : RouteMiss(k, n, i)
    BY <1>2
  <2>2. \E P, O : Insert(n, i, P, O)
    BY <2>1 DEF Build, Spawn, BuildRouter, BuildChannelRouter, RouteMiss
  <2>3. UNCHANGED dying
    BY <2>2 DEF Insert
  <2>4. QED
    BY <2>3
<1>3. CASE \/ \E n \in Node : GetReturns(n) \/ Enter(n)
           \/ \E k \in Key : RoutePanics(k)
           \/ \E f \in Factories : Attach(f)
           \/ \E k \in FactoryKeys : GetHit(k) \/ GetMiss(k)
           \/ GetPanics \/ BeginCycle \/ EndLoop \/ EndSweep
  <2>1. UNCHANGED dying
    BY <1>3 DEF GetReturns, Enter, RoutePanics, Attach, GetHit, GetMiss, GetPanics,
                BeginCycle, EndLoop, EndSweep
  <2>2. QED
    BY <2>1
<1>4. CASE Return \/ (\E n \in Node : Sweep(n)) \/ \E i \in Slot : Remove(i)
  <2>1. dying' = Lost
    BY <1>4 DEF Return, Sweep, Remove
  <2>2. QED
    BY <2>1
<1>5. CASE \E n \in Node : Destroy(n)
  BY <1>5 DEF Destroy
<1>6. QED
  BY <1>1, <1>2, <1>3, <1>4, <1>5 DEF HandlesNext, Client

LEMMA DyingIsDeadStep ==
  ASSUME RefTypes, DyingIsDead, HandlesNext
  PROVE  DyingIsDead'
<1> SUFFICES ASSUME NEW n \in dying' PROVE ~ Alive(n)'
  BY DEF DyingIsDead
<1>1. CASE n \in dying
  <2>1. n \in made /\ ~ Alive(n)
    BY <1>1 DEF RefTypes, DyingIsDead
  <2>2. QED
    BY <2>1, AliveStep
<1>2. CASE n \in Lost
  BY <1>2 DEF Lost
<1>3. QED
  BY <1>1, <1>2, DyingStep

\* Whoever builds no output and destroys nobody.
LEMMA RoutedElsewhere ==
  ASSUME RefTypes, RoutedInv, HandlesNext, UNCHANGED <<router, cache, output_key>>,
         made' \in SUBSET Node, made \in SUBSET made'
  PROVE  RoutedInv'
<1>1. \A n \in made : Alive(n)' \/ n \in dying' => Alive(n) \/ n \in dying
  <2> SUFFICES ASSUME NEW n \in made, Alive(n)' \/ n \in dying'
               PROVE  Alive(n) \/ n \in dying
    OBVIOUS
  <2>1. CASE Alive(n)'
    BY <2>1, AliveStep
  <2>2. CASE n \in dying'
    BY <2>2, DyingStep DEF Lost
  <2>3. QED
    BY <2>1, <2>2
<1>2. router # None /\ Alive(router)' => Alive(router)
  <2> SUFFICES ASSUME NEW r \in made, r = router, r = router', Alive(router)'
               PROVE  Alive(r)
    BY DEF RefTypes
  <2>1. Alive(r)'
    BY DEF Alive, Owners, Memoised
  <2>2. QED
    BY <2>1, AliveStep
<1>3. QED
  BY <1>1, <1>2 DEF RoutedInv, RefTypes

LEMMA RoutedStep ==
  ASSUME RefTypes, DyingIsDead, RoutedInv, HandlesNext
  PROVE  RoutedInv'
<1> USE HandlesAssumption
<1>1. CASE \/ \E n \in Node \ made, i \in Slot, s \in graph : BuildRouter(n, i, s)
           \/ \E n \in Node \ made, i \in Slot : BuildChannelRouter(n, i)
  <2>1. /\ router = None /\ UNCHANGED <<cache, output_key>>
        /\ made \in SUBSET made'
    BY <1>1 DEF BuildRouter, BuildChannelRouter, Insert
  <2>2. \A n \in Node : output_key'[n] = None
    BY <2>1 DEF RoutedInv
  <2>3. made' \in SUBSET Node
    BY RefTypesStep DEF RefTypes
  <2>4. QED
    BY <2>2, <2>3 DEF RoutedInv
<1>2. CASE \E n \in Node \ made, i \in Slot, k \in Key : RouteMiss(k, n, i)
  <2>1. PICK n \in Node \ made, i \in Slot, k \in Key : RouteMiss(k, n, i)
    BY <1>2
  <2>2. /\ router # None /\ Alive(router) /\ ~ Served(k)
        /\ dying = {} /\ dying' = {}
        /\ made' = made \cup {n}
        /\ cache' = [cache EXCEPT ![k] = n]
        /\ output_key' = [output_key EXCEPT ![n] = k]
        /\ UNCHANGED router
    BY <2>1 DEF RouteMiss, RouterInHand, Insert, ClientOwnsExecutor, Alive
  <2>3. \A m \in made : Alive(m)' /\ output_key[m] # None =>
          output_key[m] # k /\ cache[output_key[m]] = m
    <3> SUFFICES ASSUME NEW m \in made, Alive(m)', output_key[m] # None
                 PROVE  output_key[m] # k /\ cache[output_key[m]] = m
      OBVIOUS
    <3>1. Alive(m)
      BY AliveStep
    <3>2. cache[output_key[m]] = m
      BY <2>2, <3>1 DEF RoutedInv
    <3>3. QED
      BY <2>2, <3>1, <3>2 DEF Served
  <2>4. \A m \in made' : Alive(m)' /\ output_key'[m] # None => cache'[output_key'[m]] = m
    BY <2>1, <2>2, <2>3 DEF RefTypes
  <2>5. \A m \in Node \ made' : output_key'[m] = None
    BY <2>2 DEF RoutedInv, RefTypes
  <2>6. QED
    BY <2>2, <2>4, <2>5 DEF RoutedInv
<1>3. CASE \E n \in Node : Destroy(n)
  <2>1. PICK n \in Node : Destroy(n)
    BY <1>3
  <2>2. /\ n \in dying /\ dying' = dying \ {n}
        /\ cache' = [k \in Key |-> IF n = router \/ output_key[n] = k THEN None ELSE cache[k]]
        /\ UNCHANGED <<made, graph, owned, handles, exclusive, running, memo,
                       router, output_key>>
    BY <2>1 DEF Destroy, graph_vars, count_vars, cycle_vars, memo_vars
  <2>3. \A m \in Node : Alive(m)' <=> Alive(m)
    BY <2>2 DEF Alive, Owners, Memoised
  <2>4. ~ Alive(n)
    BY <2>2 DEF DyingIsDead
  <2>5. router # None /\ Alive(router)' => Alive(router) /\ router # n
    BY <2>2, <2>4 DEF Alive, Owners, Memoised
  <2>6. ASSUME NEW m \in made', output_key'[m] # None, router' # None,
               Alive(router)', Alive(m)' \/ m \in dying'
        PROVE  cache'[output_key'[m]] = m
    <3>1. m \in made /\ n \in made /\ m # n /\ (Alive(m) \/ m \in dying)
      BY <2>2, <2>3, <2>4, <2>6 DEF RefTypes
    <3>2. cache[output_key[m]] = m
      BY <2>2, <2>5, <2>6, <3>1 DEF RoutedInv
    <3>3. output_key[n] # output_key[m]
      BY <2>2, <2>5, <2>6, <3>1, <3>2 DEF RoutedInv
    <3>4. output_key[m] \in Key
      BY <2>2, <2>6, <3>1 DEF RefTypes
    <3>5. QED
      BY <2>2, <2>5, <2>6, <3>2, <3>3, <3>4
  <2>7. QED
    BY <2>2, <2>6 DEF RoutedInv
<1>4. CASE /\ UNCHANGED <<router, cache, output_key>>
           /\ made' \in SUBSET Node /\ made \in SUBSET made'
  BY <1>4, RoutedElsewhere
<1>5. made' \in SUBSET Node
  BY RefTypesStep DEF RefTypes
<1>6. CASE \E n \in Node \ made, i \in Slot :
             \/ \E P \in SUBSET graph, O \in SUBSET made : Build(n, i, P, O)
             \/ \E P \in SUBSET graph : Spawn(n, i, P)
  <2>1. UNCHANGED <<router, cache, output_key>> /\ made \in SUBSET made'
    BY <1>6 DEF Build, Spawn, Insert, router_vars
  <2>2. QED
    BY <1>4, <1>5, <2>1
<1>7. CASE \/ \E n \in Node :
                \/ Clone(n) \/ DropHandle(n) \/ Downgrade(n) \/ DropWeak(n)
                \/ UpgradeWeak(n) \/ Upgrade(n) \/ Share(n) \/ DropExclusive(n)
           \/ \E k \in Key : RouteHit(k)
  <2>1. HandleCall
    BY <1>7 DEF Clone, DropHandle, Downgrade, DropWeak, UpgradeWeak, Upgrade, Share,
                DropExclusive, RouteHit
  <2>2. UNCHANGED <<router, cache, output_key, made>>
    BY <2>1 DEF HandleCall, graph_vars, router_vars
  <2>3. QED
    BY <1>4, <1>5, <2>2
<1>8. CASE \/ \E n \in Node : GetReturns(n) \/ Enter(n) \/ Sweep(n)
           \/ \E k \in Key : RoutePanics(k)
           \/ \E f \in Factories : Attach(f)
           \/ \E k \in FactoryKeys : GetHit(k) \/ GetMiss(k)
           \/ \E i \in Slot : Remove(i)
           \/ GetPanics \/ BeginCycle \/ EndLoop \/ EndSweep \/ Return
  <2>1. UNCHANGED <<router_vars, made>>
    BY <1>8 DEF GetReturns, Enter, Sweep, RoutePanics, Attach, GetHit, GetMiss, Remove,
                GetPanics, BeginCycle, EndLoop, EndSweep, Return, graph_vars
  <2>2. QED
    BY <1>4, <1>5, <2>1 DEF router_vars
<1>9. QED
  BY <1>1, <1>2, <1>3, <1>6, <1>7, <1>8 DEF HandlesNext, Client

-----------------------------------------------------------------------------
(* The factories.                                                          *)

\* What get() answered for a key is the node that the factory keeps, and while
\* the function of a factory runs its key has no node and nobody else is let in.
FactoryInv ==
  /\ memo \in [FactoryKeys -> Node \cup {None}]
  /\ got \in [FactoryKeys -> SUBSET Node]
  /\ building \in Seq(FactoryKeys)
  /\ \A k \in FactoryKeys : got[k] \in SUBSET ({memo[k]} \ {None})
  /\ \A j \in 1 .. Len(building) : memo[building[j]] = None
  /\ \A j1, j2 \in 1 .. Len(building) :
       FactoryOf(building[j1]) = FactoryOf(building[j2]) => j1 = j2

LEMMA FactoryStep ==
  ASSUME FactoryInv, HandlesNext
  PROVE  FactoryInv'
<1> USE HandlesAssumption
<1>1. CASE \E k \in FactoryKeys : GetHit(k)
  BY <1>1 DEF GetHit, FactoryInv
<1>2. CASE \E k \in FactoryKeys : GetMiss(k)
  <2>1. PICK k \in FactoryKeys : GetMiss(k)
    BY <1>2
  <2>2. /\ building' = <<k>> \o building /\ memo[k] = None
        /\ \A j \in 1 .. Len(building) : FactoryOf(building[j]) # FactoryOf(k)
        /\ UNCHANGED <<memo, got>>
    BY <2>1 DEF GetMiss, Free
  <2>3. /\ building' \in Seq(FactoryKeys)
        /\ Len(building') = Len(building) + 1 /\ Len(building) \in Nat
        /\ building'[1] = k
        /\ \A j \in 2 .. Len(building') :
             j - 1 \in 1 .. Len(building) /\ building'[j] = building[j - 1]
    BY <2>2 DEF FactoryInv
  <2>4. \A j \in 1 .. Len(building') : j = 1 \/ j \in 2 .. Len(building')
    BY <2>3
  <2>5. \A j \in 1 .. Len(building') : memo[building'[j]] = None
    BY <2>2, <2>3, <2>4 DEF FactoryInv
  <2>6. ASSUME NEW j1 \in 1 .. Len(building'), NEW j2 \in 1 .. Len(building'),
               FactoryOf(building'[j1]) = FactoryOf(building'[j2])
        PROVE  j1 = j2
    <3>1. CASE j1 = 1 /\ j2 = 1
      BY <3>1
    <3>2. CASE j1 = 1 /\ j2 \in 2 .. Len(building')
      BY <2>2, <2>3, <2>6, <3>2
    <3>3. CASE j1 \in 2 .. Len(building') /\ j2 = 1
      BY <2>2, <2>3, <2>6, <3>3
    <3>4. CASE j1 \in 2 .. Len(building') /\ j2 \in 2 .. Len(building')
      <4>1. FactoryOf(building[j1 - 1]) = FactoryOf(building[j2 - 1])
        BY <2>3, <2>6, <3>4
      <4>2. j1 - 1 \in 1 .. Len(building) /\ j2 - 1 \in 1 .. Len(building)
        BY <2>3, <3>4
      <4>3. j1 - 1 = j2 - 1
        BY <4>1, <4>2 DEF FactoryInv
      <4>4. QED
        BY <4>3
    <3>5. QED
      BY <2>4, <3>1, <3>2, <3>3, <3>4
  <2>7. QED
    BY <2>2, <2>3, <2>5, <2>6 DEF FactoryInv
<1>3. CASE (\E n \in Node : GetReturns(n)) \/ GetPanics
  <2>1. /\ building # <<>> /\ building' = Tail(building)
        /\ \/ UNCHANGED <<memo, got>>
           \/ \E n \in Node :
                /\ memo' = [memo EXCEPT ![Head(building)] = n]
                /\ got' = [got EXCEPT ![Head(building)] = @ \cup {n}]
    BY <1>3 DEF GetReturns, GetPanics
  <2>2. /\ building' \in Seq(FactoryKeys)
        /\ Head(building) = building[1] /\ Head(building) \in FactoryKeys
        /\ 1 \in 1 .. Len(building)
        /\ \A j \in 1 .. Len(building') :
             /\ j + 1 \in 1 .. Len(building) /\ j + 1 # 1
             /\ building'[j] = building[j + 1]
    BY <2>1 DEF FactoryInv
  <2>3. \A j \in 1 .. Len(building') :
          memo[building'[j]] = None /\ building'[j] # Head(building)
    BY <2>2 DEF FactoryInv
  <2>4. \A j1, j2 \in 1 .. Len(building') :
          FactoryOf(building'[j1]) = FactoryOf(building'[j2]) => j1 = j2
    <3> SUFFICES ASSUME NEW j1 \in 1 .. Len(building'), NEW j2 \in 1 .. Len(building'),
                        FactoryOf(building'[j1]) = FactoryOf(building'[j2])
                 PROVE  j1 = j2
      OBVIOUS
    <3>1. j1 + 1 = j2 + 1
      BY <2>2 DEF FactoryInv
    <3>2. QED
      BY <3>1
  <2>5. memo[Head(building)] = None /\ got[Head(building)] = {}
    BY <2>2 DEF FactoryInv
  <2>6. CASE UNCHANGED <<memo, got>>
    BY <2>2, <2>3, <2>4, <2>6 DEF FactoryInv
  <2>7. CASE \E n \in Node :
               /\ memo' = [memo EXCEPT ![Head(building)] = n]
               /\ got' = [got EXCEPT ![Head(building)] = @ \cup {n}]
    <3>1. PICK n \in Node :
            /\ memo' = [memo EXCEPT ![Head(building)] = n]
            /\ got' = [got EXCEPT ![Head(building)] = @ \cup {n}]
      BY <2>7
    <3>2. \A k \in FactoryKeys : got'[k] \in SUBSET ({memo'[k]} \ {None})
      BY <2>5, <3>1 DEF FactoryInv
    <3>3. \A j \in 1 .. Len(building') : memo'[building'[j]] = None
      BY <2>2, <2>3, <3>1 DEF FactoryInv
    <3>4. /\ memo' \in [FactoryKeys -> Node \cup {None}]
          /\ got' \in [FactoryKeys -> SUBSET Node]
      BY <3>1 DEF FactoryInv
    <3>5. QED
      BY <2>2, <2>4, <3>2, <3>3, <3>4 DEF FactoryInv
  <2>8. QED
    BY <2>1, <2>6, <2>7
<1>4. CASE UNCHANGED <<memo, got, building>>
  BY <1>4 DEF FactoryInv
<1>5. CASE \/ \E n \in Node :
                \/ Clone(n) \/ DropHandle(n) \/ Downgrade(n) \/ DropWeak(n)
                \/ UpgradeWeak(n) \/ Upgrade(n) \/ Share(n) \/ DropExclusive(n)
           \/ \E k \in Key : RouteHit(k)
  <2>1. HandleCall
    BY <1>5 DEF Clone, DropHandle, Downgrade, DropWeak, UpgradeWeak, Upgrade, Share,
                DropExclusive, RouteHit
  <2>2. QED
    BY <1>4, <2>1 DEF HandleCall, memo_vars
<1>6. CASE \E n \in Node \ made, i \in Slot :
             \/ \E P \in SUBSET graph, O \in SUBSET made : Build(n, i, P, O)
             \/ \E P \in SUBSET graph : Spawn(n, i, P)
             \/ \E s \in graph : BuildRouter(n, i, s)
             \/ BuildChannelRouter(n, i)
             \/ \E k \in Key : RouteMiss(k, n, i)
  <2>1. UNCHANGED memo_vars
    BY <1>6 DEF Build, Spawn, BuildRouter, BuildChannelRouter, RouteMiss
  <2>2. QED
    BY <1>4, <2>1 DEF memo_vars
<1>7. CASE \/ \E n \in Node : Enter(n) \/ Sweep(n) \/ Destroy(n)
           \/ \E k \in Key : RoutePanics(k)
           \/ \E f \in Factories : Attach(f)
           \/ \E i \in Slot : Remove(i)
           \/ BeginCycle \/ EndLoop \/ EndSweep \/ Return
  <2>1. UNCHANGED <<memo, got, building>>
    BY <1>7 DEF Enter, Sweep, Destroy, RoutePanics, Attach, Remove, BeginCycle,
                EndLoop, EndSweep, Return, memo_vars
  <2>2. QED
    BY <1>4, <2>1
<1>8. QED
  BY <1>1, <1>2, <1>3, <1>5, <1>6, <1>7 DEF HandlesNext, Client

-----------------------------------------------------------------------------
(* Slots, and the marks in the queue of the garbage collector.  What the   *)
(* proofs need of a step is what it does to the graph, the queue and the   *)
(* router; the many operations that touch none of them are one kind.       *)

\* The node n gets the vacant slot i, below P.
Placed(n, i, P) ==
  /\ phase = "idle" /\ dying = {}
  /\ \A m \in graph : slot[m] # i
  /\ made' = made \cup {n} /\ graph' = graph \cup {n}
  /\ slot' = [slot EXCEPT ![n] = i]
  /\ edges' = edges \cup P \X {n}
  /\ \A m \in graph : owned'[m] = owned[m]
  /\ UNCHANGED <<cycle_vars, gc_vars>>

\* It is an output, the router, the router below P, or none of these.
PlacedAs(n, i, P) ==
  \/ UNCHANGED router_vars
  \/ \E k \in Key : /\ router # None
                    /\ cache' = [cache EXCEPT ![k] = n]
                    /\ output_key' = [output_key EXCEPT ![n] = k]
                    /\ UNCHANGED <<router, parent, parent_slot>>
  \/ router = None /\ router' = n /\ UNCHANGED <<parent, parent_slot, cache, output_key>>
  \/ \E s \in P : /\ router = None /\ router' = n
                  /\ parent' = s /\ parent_slot' = slot[s]
                  /\ owned'[n] = {s}
                  /\ UNCHANGED <<cache, output_key>>

Places == \E n \in Node \ made, i \in Slot, P \in SUBSET graph :
            Placed(n, i, P) /\ PlacedAs(n, i, P)

Quiet == UNCHANGED <<graph_vars, cycle_vars, gc_vars, router_vars>>

PhaseStep == BeginCycle \/ EndLoop \/ EndSweep \/ \E k \in Key : RoutePanics(k)

LEMMA StepKinds ==
  ASSUME RefTypes, HandlesNext
  PROVE  \/ Quiet \/ Places \/ PhaseStep \/ Return
         \/ \E n \in Node : Enter(n) \/ Sweep(n) \/ Destroy(n)
         \/ \E i \in Slot : Remove(i)
<1>1. CASE \E n \in Node \ made, i \in Slot :
             \E P \in SUBSET graph, O \in SUBSET made : Build(n, i, P, O)
  <2>1. PICK n \in Node \ made, i \in Slot, P \in SUBSET graph, O \in SUBSET made :
          Build(n, i, P, O)
    BY <1>1
  <2>2. Placed(n, i, P) /\ PlacedAs(n, i, P)
    BY <2>1 DEF Build, Insert, ClientOwnsExecutor, RefTypes, Placed, PlacedAs
  <2>3. QED
    BY <2>2 DEF Places
<1>2. CASE \E n \in Node \ made, i \in Slot : \E P \in SUBSET graph : Spawn(n, i, P)
  <2>1. PICK n \in Node \ made, i \in Slot, P \in SUBSET graph : Spawn(n, i, P)
    BY <1>2
  <2>2. Placed(n, i, P) /\ PlacedAs(n, i, P)
    BY <2>1 DEF Spawn, Insert, ClientOwnsExecutor, RefTypes, Placed, PlacedAs
  <2>3. QED
    BY <2>2 DEF Places
<1>3. CASE \E n \in Node \ made, i \in Slot : \E s \in graph : BuildRouter(n, i, s)
  <2>1. PICK n \in Node \ made, i \in Slot, s \in graph : BuildRouter(n, i, s)
    BY <1>3
  <2>2. Placed(n, i, {s}) /\ PlacedAs(n, i, {s})
    BY <2>1 DEF BuildRouter, Insert, ClientOwnsExecutor, RefTypes, Placed, PlacedAs
  <2>3. QED
    BY <2>2 DEF Places
<1>4. CASE \E n \in Node \ made, i \in Slot : BuildChannelRouter(n, i)
  <2>1. PICK n \in Node \ made, i \in Slot : BuildChannelRouter(n, i)
    BY <1>4
  <2>2. Placed(n, i, {}) /\ PlacedAs(n, i, {})
    BY <2>1 DEF BuildChannelRouter, Insert, ClientOwnsExecutor, RefTypes, Placed, PlacedAs
  <2>3. QED
    BY <2>2 DEF Places
<1>5. CASE \E n \in Node \ made, i \in Slot : \E k \in Key : RouteMiss(k, n, i)
  <2>1. PICK n \in Node \ made, i \in Slot, k \in Key : RouteMiss(k, n, i)
    BY <1>5
  <2>2. PICK P \in SUBSET graph : Insert(n, i, P, {})
    BY <2>1 DEF RouteMiss
  <2>3. Placed(n, i, P)
    BY <2>1, <2>2 DEF RouteMiss, Insert, ClientOwnsExecutor, RefTypes, Placed
  <2>4. PlacedAs(n, i, P)
    BY <2>1 DEF RouteMiss, RouterInHand, PlacedAs
  <2>5. QED
    BY <2>3, <2>4 DEF Places
<1>6. CASE \/ \E n \in Node :
                \/ Clone(n) \/ DropHandle(n) \/ Downgrade(n) \/ DropWeak(n)
                \/ UpgradeWeak(n) \/ Upgrade(n) \/ Share(n) \/ DropExclusive(n)
           \/ \E k \in Key : RouteHit(k)
  <2>1. HandleCall
    BY <1>6 DEF Clone, DropHandle, Downgrade, DropWeak, UpgradeWeak, Upgrade, Share,
                DropExclusive, RouteHit
  <2>2. QED
    BY <2>1 DEF HandleCall, Quiet
<1>7. CASE \/ \E n \in Node : GetReturns(n)
           \/ \E f \in Factories : Attach(f)
           \/ \E k \in FactoryKeys : GetHit(k) \/ GetMiss(k)
           \/ GetPanics
  <2>1. Quiet
    BY <1>7 DEF GetReturns, Attach, GetHit, GetMiss, GetPanics, Quiet
  <2>2. QED
    BY <2>1
<1>8. QED
  BY <1>1, <1>2, <1>3, <1>4, <1>5, <1>6, <1>7 DEF HandlesNext, Client, PhaseStep

\* Slots in the graph are unique, edges join nodes of the graph, and a node
\* runs in the graph only.
SlotInv ==
  /\ slot \in [Node -> Slot \cup {None}]
  /\ \A n \in made : slot[n] \in Slot
  /\ \A m, n \in graph : slot[m] = slot[n] => m = n
  /\ edges \in SUBSET (graph \X graph)
  /\ phase \in {"idle", "loop", "sweep", "panicked"}
  /\ running # None => phase = "loop" /\ running \in graph
  /\ removal_queue \in SUBSET Slot
  /\ swept \in SUBSET made /\ foreign \in BOOLEAN
  /\ parent \in made \cup {None} /\ parent_slot \in Slot \cup {None}

LEMMA SlotStep ==
  ASSUME RefTypes, SlotInv, HandlesNext
  PROVE  SlotInv'
<1> USE HandlesAssumption DEF SlotInv
<1>1. CASE Quiet
  BY <1>1 DEF Quiet, graph_vars, cycle_vars, gc_vars, router_vars
<1>2. CASE Places
  <2>1. PICK n \in Node \ made, i \in Slot, P \in SUBSET graph :
          Placed(n, i, P) /\ PlacedAs(n, i, P)
    BY <1>2 DEF Places
  <2>2. /\ made' = made \cup {n} /\ graph' = graph \cup {n}
        /\ slot' = [slot EXCEPT ![n] = i]
        /\ \A m \in graph : slot[m] # i /\ m # n
        /\ edges' = edges \cup P \X {n}
        /\ UNCHANGED <<phase, running, removal_queue, swept, foreign>>
    BY <2>1 DEF Placed, cycle_vars, gc_vars, RefTypes
  <2>3. /\ slot' \in [Node -> Slot \cup {None}]
        /\ \A m \in made' : slot'[m] \in Slot
    BY <2>1, <2>2 DEF RefTypes
  <2>4. \A l, m \in graph' : slot'[l] = slot'[m] => l = m
    BY <2>1, <2>2 DEF RefTypes
  <2>5. edges' \in SUBSET (graph' \X graph')
    BY <2>1, <2>2
  <2>6. parent' \in made' \cup {None} /\ parent_slot' \in Slot \cup {None}
    BY <2>1, <2>2 DEF PlacedAs, router_vars, RefTypes
  <2>7. QED
    BY <2>2, <2>3, <2>4, <2>5, <2>6
<1>3. CASE PhaseStep
  BY <1>3 DEF PhaseStep, BeginCycle, EndLoop, EndSweep, RoutePanics, ClientOwnsExecutor,
              graph_vars, gc_vars, router_vars
<1>4. CASE Return \/ \E n \in Node : Enter(n)
  BY <1>4 DEF Return, Enter, graph_vars, gc_vars, router_vars
<1>5. CASE \E n \in Node : Sweep(n)
  <2>1. PICK n \in Node : Sweep(n)
    BY <1>5
  <2>2. Descendants(n) \in SUBSET made /\ \A m \in Descendants(n) : slot[m] \in Slot
    BY DEF Descendants, RefTypes
  <2>3. QED
    BY <2>1, <2>2 DEF Sweep, graph_vars, router_vars
<1>6. CASE \E i \in Slot : Remove(i)
  <2>1. PICK i \in Slot : Remove(i)
    BY <1>6
  <2>2. /\ graph' \in SUBSET graph /\ edges' \in SUBSET (graph' \X graph')
        /\ removal_queue' \in SUBSET Slot
        /\ running = None
        /\ UNCHANGED <<made, slot, phase, running, swept, foreign, parent, parent_slot>>
    BY <2>1 DEF Remove, cycle_vars, router_vars
  <2>3. QED
    BY <2>2
<1>7. CASE \E n \in Node : Destroy(n)
  <2>1. PICK n \in Node : Destroy(n)
    BY <1>7
  <2>2. LiveOutputs \in SUBSET made /\ n \in made
    BY <2>1 DEF LiveOutputs, Cached, RefTypes, Destroy
  <2>3. /\ removal_queue' \in SUBSET Slot /\ swept' \in SUBSET made
        /\ foreign' \in BOOLEAN
    BY <2>1, <2>2 DEF Destroy
  <2>4. UNCHANGED <<graph_vars, cycle_vars, parent, parent_slot>>
    BY <2>1 DEF Destroy
  <2>5. QED
    BY <2>3, <2>4 DEF graph_vars, cycle_vars
<1>8. QED
  BY <1>1, <1>2, <1>3, <1>4, <1>5, <1>6, <1>7, StepKinds

-----------------------------------------------------------------------------
(* Marks.  A mark for the slot i hits a node that was swept or that nobody *)
(* holds, unless it was set for a node that had left the slot (foreign);   *)
(* in the sweep loop it may also hit a vacant slot, which stays vacant.    *)

Deserved(i) == \E n \in graph : slot[n] = i /\ (n \in swept \/ ~ Alive(n))

Vacant(i) == \A n \in graph : slot[n] # i

MarkInv ==
  /\ \A i \in removal_queue : foreign \/ Deserved(i) \/ (phase = "sweep" /\ Vacant(i))
  /\ \A n \in swept \cap graph : slot[n] \in removal_queue

\* Neither the swept nor the dead come back.
LEMMA DeservedStays ==
  ASSUME RefTypes, HandlesNext, NEW i \in Slot, Deserved(i),
         \A n \in graph : slot[n] = i => n \in graph' /\ slot'[n] = i,
         swept \in SUBSET swept'
  PROVE  Deserved(i)'
<1>1. PICK n \in graph : slot[n] = i /\ (n \in swept \/ ~ Alive(n))
  BY DEF Deserved
<1>2. n \in graph' /\ slot'[n] = i /\ n \in made
  BY <1>1 DEF RefTypes
<1>3. n \in swept' \/ ~ Alive(n)'
  BY <1>1, <1>2, AliveStep
<1>4. QED
  BY <1>2, <1>3 DEF Deserved

LEMMA MarkStep ==
  ASSUME RefTypes, SlotInv, DyingIsDead, MarkInv, HandlesNext
  PROVE  MarkInv'
<1> DEFINE Good(i) == foreign \/ Deserved(i) \/ (phase = "sweep" /\ Vacant(i))
<1>1. CASE /\ UNCHANGED <<slot, graph, removal_queue, swept, foreign>>
           /\ phase = "sweep" => phase' = "sweep" \/ removal_queue = {}
  <2>1. ASSUME NEW i \in removal_queue PROVE Good(i)'
    <3>1. Deserved(i) => Deserved(i)'
      BY <1>1, <2>1, DeservedStays DEF SlotInv
    <3>2. Vacant(i) => Vacant(i)'
      BY <1>1 DEF Vacant
    <3>3. QED
      BY <1>1, <2>1, <3>1, <3>2 DEF MarkInv
  <2>2. QED
    BY <1>1, <2>1 DEF MarkInv
<1>2. CASE Places
  <2>1. PICK n \in Node \ made, s \in Slot, P \in SUBSET graph : Placed(n, s, P)
    BY <1>2 DEF Places
  <2>2. /\ graph' = graph \cup {n} /\ n \notin graph /\ n \notin swept
        /\ \A m \in graph : slot'[m] = slot[m]
        /\ phase # "sweep"
        /\ UNCHANGED <<removal_queue, swept, foreign>>
    BY <2>1 DEF Placed, gc_vars, RefTypes, SlotInv
  <2>3. ASSUME NEW i \in removal_queue PROVE Good(i)'
    BY <2>2, <2>3, DeservedStays DEF MarkInv, SlotInv
  <2>4. QED
    BY <2>2, <2>3 DEF MarkInv
<1>3. CASE \E n \in Node : Sweep(n)
  <2>1. PICK n \in Node : Sweep(n)
    BY <1>3
  <2>2. /\ removal_queue' = removal_queue \cup {slot[m] : m \in Descendants(n)}
        /\ swept' = swept \cup Descendants(n)
        /\ phase # "sweep"
        /\ UNCHANGED <<slot, graph, foreign>>
    BY <2>1 DEF Sweep, graph_vars
  <2>3. ASSUME NEW i \in removal_queue PROVE Good(i)'
    BY <2>2, <2>3, DeservedStays DEF MarkInv, SlotInv
  <2>4. ASSUME NEW m \in Descendants(n) PROVE Deserved(slot[m])'
    BY <2>2 DEF Descendants, Deserved
  <2>5. QED
    BY <2>2, <2>3, <2>4 DEF MarkInv
<1>4. CASE \E i \in Slot : Remove(i)
  <2>1. PICK s \in Slot : Remove(s)
    BY <1>4
  <2>2. /\ removal_queue' = removal_queue \ {s}
        /\ graph' = {m \in graph : slot[m] # s}
        /\ UNCHANGED <<slot, phase, swept, foreign>>
    BY <2>1 DEF Remove, cycle_vars
  <2>3. ASSUME NEW i \in removal_queue' PROVE Good(i)'
    <3>1. Deserved(i) => Deserved(i)'
      BY <2>2, <2>3, DeservedStays DEF SlotInv
    <3>2. Vacant(i) => Vacant(i)'
      BY <2>2 DEF Vacant
    <3>3. QED
      BY <2>2, <2>3, <3>1, <3>2 DEF MarkInv
  <2>4. QED
    BY <2>2, <2>3 DEF MarkInv
<1>5. CASE \E n \in Node : Destroy(n)
  <2>1. PICK n \in Node : Destroy(n)
    BY <1>5
  <2> DEFINE outputs == IF n = router THEN LiveOutputs ELSE {}
  <2>2. /\ n \in dying
        /\ removal_queue' = removal_queue \cup {slot[m] : m \in outputs \cup {n}}
        /\ swept' = swept \cup outputs
        /\ foreign' = (foreign \/ \E m \in outputs \cup {n} : Misses(m))
        /\ UNCHANGED <<slot, graph, phase>>
    BY <2>1 DEF Destroy, graph_vars, cycle_vars
  <2>3. outputs \in SUBSET made /\ n \in made
    BY <2>2, HandlesAssumption DEF LiveOutputs, Cached, RefTypes
  <2> HIDE DEF outputs
  <2>4. foreign => foreign'
    BY <2>2
  <2>5. ASSUME NEW i \in removal_queue PROVE Good(i)'
    <3>1. Deserved(i) => Deserved(i)'
      BY <2>2, <2>5, DeservedStays DEF SlotInv
    <3>2. Vacant(i) => Vacant(i)'
      BY <2>2 DEF Vacant
    <3>3. QED
      BY <2>2, <2>4, <2>5, <3>1, <3>2 DEF MarkInv
  <2>6. ASSUME NEW m \in outputs \cup {n} PROVE Good(slot[m])'
    <3>1. CASE m \in graph
      <4>1. m \in swept' \/ ~ Alive(m)'
        BY <2>2, <2>3, <2>6, AliveStep DEF DyingIsDead
      <4>2. QED
        BY <2>2, <3>1, <4>1 DEF Deserved
    <3>2. CASE m \notin graph
      <4>1. Misses(m) => foreign'
        BY <2>2, <2>6
      <4>2. ~ Misses(m) => phase' = "sweep" /\ Vacant(slot[m])'
        BY <2>2, <3>2 DEF Misses, Vacant
      <4>3. QED
        BY <2>2, <4>1, <4>2
    <3>3. QED
      BY <3>1, <3>2
  <2>7. \A i \in removal_queue' : Good(i)'
    BY <2>2, <2>5, <2>6
  <2>8. \A m \in swept' \cap graph' : slot'[m] \in removal_queue'
    BY <2>2 DEF MarkInv
  <2>9. QED
    BY <2>7, <2>8 DEF MarkInv
<1>6. CASE Quiet \/ PhaseStep \/ Return \/ \E n \in Node : Enter(n)
  <2>1. UNCHANGED <<slot, graph, removal_queue, swept, foreign>>
    BY <1>6 DEF Quiet, PhaseStep, BeginCycle, EndLoop, EndSweep, RoutePanics, Return,
                Enter, graph_vars, gc_vars
  <2>2. phase = "sweep" => phase' = "sweep" \/ removal_queue = {}
    BY <1>6 DEF Quiet, PhaseStep, BeginCycle, EndLoop, EndSweep, RoutePanics, Return,
                Enter, ClientOwnsExecutor, cycle_vars
  <2>3. QED
    BY <1>1, <2>1, <2>2
<1>7. QED
  BY <1>2, <1>3, <1>4, <1>5, <1>6, StepKinds

\* Whoever leaves the graph was marked; sweeps and foreign marks are remembered.
LEMMA WhoLeaves ==
  ASSUME RefTypes, HandlesNext
  PROVE  /\ swept \in SUBSET swept'
         /\ foreign => foreign'
         /\ \A n \in made' \ graph' : n \in made /\ (n \in graph => slot[n] \in removal_queue)
<1>1. CASE Quiet \/ PhaseStep \/ Return \/ \E m \in Node : Enter(m)
  <2>1. UNCHANGED <<graph_vars, gc_vars>>
    BY <1>1 DEF Quiet, PhaseStep, BeginCycle, EndLoop, EndSweep, RoutePanics, Return, Enter
  <2>2. QED
    BY <2>1 DEF graph_vars, gc_vars
<1>2. CASE Places
  BY <1>2 DEF Places, Placed, gc_vars, RefTypes
<1>3. CASE \E m \in Node : Sweep(m)
  BY <1>3 DEF Sweep, graph_vars
<1>4. CASE \E m \in Node : Destroy(m)
  BY <1>4 DEF Destroy, graph_vars
<1>5. CASE \E i \in Slot : Remove(i)
  BY <1>5 DEF Remove
<1>6. QED
  BY <1>1, <1>2, <1>3, <1>4, <1>5, StepKinds

LEMMA HeldStep ==
  ASSUME RefTypes, SlotInv, MarkInv, HeldStays, HandlesNext
  PROVE  HeldStays'
<1> SUFFICES ASSUME NEW n \in made' \ graph', Alive(n)'
             PROVE  n \in swept' \/ foreign'
  BY DEF HeldStays
<1>1. Alive(n) /\ n \in made
  BY WhoLeaves, AliveStep
<1>2. CASE n \notin graph
  BY <1>1, <1>2, WhoLeaves DEF HeldStays
<1>3. CASE n \in graph
  <2>1. slot[n] \in removal_queue
    BY <1>3, WhoLeaves
  <2>2. foreign \/ Deserved(slot[n])
    BY <1>3, <2>1 DEF MarkInv, Vacant
  <2>3. Deserved(slot[n]) => n \in swept
    BY <1>1, <1>3 DEF Deserved, SlotInv
  <2>4. QED
    BY <2>2, <2>3, WhoLeaves
<1>4. QED
  BY <1>2, <1>3

\* As long as nothing is swept, nobody but the dead leave the graph, and no
\* slot is marked for a node that has left it: a node that leaves was
\* destroyed before, and is not destroyed twice.
UnsweptInv ==
  swept = {} =>
    /\ ~ foreign
    /\ \A n \in made \ graph : ~ Alive(n) /\ n \notin dying

LEMMA UnsweptStep ==
  ASSUME RefTypes, SlotInv, MarkInv, UnsweptInv, HandlesNext
  PROVE  UnsweptInv'
<1> SUFFICES ASSUME swept' = {}
             PROVE  /\ ~ foreign'
                    /\ \A n \in made' \ graph' : ~ Alive(n)' /\ n \notin dying'
  BY DEF UnsweptInv
<1>1. swept = {} /\ ~ foreign
  BY WhoLeaves DEF UnsweptInv
<1>2. ~ foreign'
  <2>1. CASE \E n \in Node : Destroy(n)
    <3>1. PICK n \in Node : Destroy(n)
      BY <2>1
    <3> DEFINE outputs == IF n = router THEN LiveOutputs ELSE {}
    <3>2. /\ n \in dying /\ n \in made
          /\ swept' = swept \cup outputs
          /\ foreign' = (foreign \/ \E m \in outputs \cup {n} : Misses(m))
      BY <3>1 DEF Destroy, RefTypes
    <3> HIDE DEF outputs
    <3>3. outputs = {} /\ ~ Misses(n)
      BY <1>1, <3>2 DEF UnsweptInv, Misses
    <3>4. QED
      BY <1>1, <3>2, <3>3
  <2>2. CASE UNCHANGED foreign
    BY <1>1, <2>2
  <2>3. CASE Quiet \/ Places \/ PhaseStep \/ Return
             \/ (\E n \in Node : Enter(n) \/ Sweep(n)) \/ \E i \in Slot : Remove(i)
    <3>1. UNCHANGED foreign
      BY <2>3 DEF Quiet, Places, Placed, PhaseStep, BeginCycle, EndLoop, EndSweep,
                  RoutePanics, Return, Enter, Sweep, Remove, gc_vars
    <3>2. QED
      BY <2>2, <3>1
  <2>4. QED
    BY <2>1, <2>3, StepKinds
<1>3. ASSUME NEW n \in made' \ graph' PROVE ~ Alive(n)' /\ n \notin dying'
  <2>1. n \in made
    BY WhoLeaves
  <2>2. ~ Alive(n)
    <3>1. CASE n \notin graph
      BY <1>1, <2>1, <3>1 DEF UnsweptInv
    <3>2. CASE n \in graph
      <4>1. Deserved(slot[n])
        BY <1>1, <1>3, <3>2, WhoLeaves DEF MarkInv, Vacant
      <4>2. QED
        BY <1>1, <3>2, <4>1 DEF Deserved, SlotInv
    <3>3. QED
      BY <3>1, <3>2
  <2>3. n \notin dying
    <3>1. CASE n \notin graph
      BY <1>1, <2>1, <3>1 DEF UnsweptInv
    <3>2. CASE n \in graph
      <4>1. \E i \in Slot : Remove(i)
        <5>1. CASE Quiet \/ PhaseStep \/ Return
                   \/ \E m \in Node : Enter(m) \/ Sweep(m) \/ Destroy(m)
          <6>1. UNCHANGED graph_vars
            BY <5>1 DEF Quiet, PhaseStep, BeginCycle, EndLoop, EndSweep, RoutePanics,
                        Return, Enter, Sweep, Destroy
          <6>2. QED
            BY <1>3, <3>2, <6>1 DEF graph_vars
        <5>2. CASE Places
          BY <1>3, <3>2, <5>2 DEF Places, Placed
        <5>3. QED
          BY <5>1, <5>2, StepKinds
      <4>2. QED
        BY <4>1 DEF Remove
    <3>3. QED
      BY <3>1, <3>2
  <2>4. ~ Alive(n)'
    BY <2>1, <2>2, AliveStep
  <2>5. n \notin dying'
    BY <2>2, <2>3, DyingStep DEF Lost
  <2>6. QED
    BY <2>4, <2>5
<1>4. QED
  BY <1>2, <1>3

-----------------------------------------------------------------------------
(* The RawHandle of a router.  The router owns its source, so that the     *)
(* source stays alive as long as the router is in the graph, and the edge  *)
(* below the source takes the router along when the source is swept.  The  *)
(* on_drop callback of the router sweeps outputs only, and the source was  *)
(* built before there were any.                                            *)

\* Before there is a router, nothing that is still in the graph was swept in
\* an earlier cycle: what BuildRouter() gives as the source is not marked.
NoRouterYet ==
  router = None =>
    /\ parent = None
    /\ phase = "idle" => swept \cap graph = {}

CacheHasOutputs == \A k \in Key : cache[k] # None => output_key[cache[k]] # None

SourceInv ==
  parent # None =>
    /\ parent # router /\ parent_slot = slot[parent] /\ output_key[parent] = None
    /\ router \in graph =>
         /\ owned[router] = {parent}
         /\ parent \in graph => <<parent, router>> \in edges
         /\ parent \notin graph \/ parent \in swept =>
              slot[router] \in removal_queue \/ foreign

RawInv == NoRouterYet /\ CacheHasOutputs /\ SourceInv

LEMMA CacheStep ==
  ASSUME RefTypes, RoutedInv, CacheHasOutputs, HandlesNext
  PROVE  CacheHasOutputs'
<1> USE HandlesAssumption
<1>1. CASE UNCHANGED <<cache, output_key>>
  BY <1>1 DEF CacheHasOutputs
<1>2. CASE Places
  <2>1. PICK n \in Node \ made, i \in Slot, P \in SUBSET graph : PlacedAs(n, i, P)
    BY <1>2 DEF Places
  <2>2. CASE \E k \in Key : /\ cache' = [cache EXCEPT ![k] = n]
                           /\ output_key' = [output_key EXCEPT ![n] = k]
    BY <2>1, <2>2 DEF CacheHasOutputs, RefTypes
  <2>3. QED
    BY <1>1, <2>1, <2>2 DEF PlacedAs, router_vars
<1>3. CASE \E n \in Node : Destroy(n)
  BY <1>3 DEF Destroy, CacheHasOutputs
<1>4. CASE Quiet \/ PhaseStep \/ Return \/ (\E n \in Node : Enter(n) \/ Sweep(n))
           \/ \E i \in Slot : Remove(i)
  <2>1. UNCHANGED router_vars
    BY <1>4 DEF Quiet, PhaseStep, BeginCycle, EndLoop, EndSweep, RoutePanics, Return,
                Enter, Sweep, Remove
  <2>2. QED
    BY <1>1, <2>1 DEF router_vars
<1>5. QED
  BY <1>2, <1>3, <1>4, StepKinds

LEMMA RouterStep ==
  ASSUME RefTypes, SlotInv, RoutedInv, MarkInv, RawInv, HandlesNext
  PROVE  NoRouterYet' /\ SourceInv'
<1> USE HandlesAssumption
<1>1. CASE Quiet
  BY <1>1 DEF Quiet, RawInv, NoRouterYet, SourceInv, graph_vars, cycle_vars, gc_vars,
              router_vars
<1>2. CASE Places
  <2>1. PICK n \in Node \ made, i \in Slot, P \in SUBSET graph :
          Placed(n, i, P) /\ PlacedAs(n, i, P)
    BY <1>2 DEF Places
  <2>2. /\ phase = "idle" /\ UNCHANGED <<phase, removal_queue, swept, foreign>>
        /\ graph' = graph \cup {n} /\ edges' = edges \cup P \X {n}
        /\ \A m \in made : m # n /\ slot'[m] = slot[m]
        /\ \A m \in graph : owned'[m] = owned[m]
        /\ n \notin swept /\ n \notin graph
    BY <2>1 DEF Placed, cycle_vars, gc_vars, RefTypes, SlotInv
  <2>3. CASE UNCHANGED router_vars
    BY <2>1, <2>2, <2>3 DEF router_vars, RawInv, NoRouterYet, SourceInv, RefTypes, SlotInv
  <2>4. CASE \E k \in Key : /\ router # None
                           /\ output_key' = [output_key EXCEPT ![n] = k]
                           /\ UNCHANGED <<router, parent, parent_slot>>
    BY <2>1, <2>2, <2>4 DEF RawInv, NoRouterYet, SourceInv, RefTypes, SlotInv
  <2>5. CASE router = None /\ router' = n /\ UNCHANGED parent
    BY <2>1, <2>5 DEF RawInv, NoRouterYet, SourceInv
  <2>6. CASE \E s \in P : /\ router = None /\ router' = n
                         /\ parent' = s /\ parent_slot' = slot[s]
                         /\ owned'[n] = {s}
                         /\ UNCHANGED output_key
    <3>1. PICK s \in P : /\ router = None /\ router' = n
                         /\ parent' = s /\ parent_slot' = slot[s]
                         /\ owned'[n] = {s}
                         /\ UNCHANGED output_key
      BY <2>6
    <3>2. s \in graph /\ s \in made /\ s \notin swept /\ output_key[s] = None
      BY <2>2, <3>1 DEF RefTypes, RawInv, NoRouterYet, RoutedInv
    <3>3. QED
      BY <2>1, <2>2, <3>1, <3>2 DEF NoRouterYet, SourceInv
  <2>7. QED
    BY <2>1, <2>3, <2>4, <2>5, <2>6 DEF PlacedAs
<1>3. CASE PhaseStep
  <2>1. UNCHANGED <<graph_vars, gc_vars, router_vars>>
    BY <1>3 DEF PhaseStep, BeginCycle, EndLoop, EndSweep, RoutePanics
  <2>2. phase' = "idle" => removal_queue = {}
    BY <1>3 DEF PhaseStep, BeginCycle, EndLoop, EndSweep, RoutePanics
  <2>3. removal_queue = {} => swept \cap graph = {}
    BY DEF MarkInv
  <2>4. QED
    BY <2>1, <2>2, <2>3 DEF RawInv, NoRouterYet, SourceInv, graph_vars, gc_vars,
                            router_vars
<1>4. CASE Return \/ \E n \in Node : Enter(n)
  BY <1>4 DEF Return, Enter, RawInv, NoRouterYet, SourceInv, graph_vars, gc_vars,
              router_vars
<1>5. CASE \E n \in Node : Sweep(n)
  <2>1. PICK n \in Node : Sweep(n)
    BY <1>5
  <2>2. /\ removal_queue' = removal_queue \cup {slot[m] : m \in Descendants(n)}
        /\ swept' = swept \cup Descendants(n)
        /\ phase' # "idle"
        /\ UNCHANGED <<graph_vars, foreign, router_vars>>
    BY <2>1 DEF Sweep
  <2>3. \A m \in Descendants(n), r \in graph : <<m, r>> \in edges => r \in Descendants(n)
    BY DEF Descendants
  <2>4. Descendants(n) \in SUBSET graph
    BY DEF Descendants
  <2>5. QED
    BY <2>2, <2>3, <2>4 DEF RawInv, NoRouterYet, SourceInv, graph_vars, router_vars
<1>6. CASE \E i \in Slot : Remove(i)
  <2>1. PICK i \in Slot : Remove(i)
    BY <1>6
  <2> DEFINE gone == {m \in graph : slot[m] = i}
  <2>2. /\ i \in removal_queue /\ removal_queue' = removal_queue \ {i}
        /\ graph' = graph \ gone
        /\ edges' = {e \in edges : e[1] \notin gone /\ e[2] \notin gone}
        /\ owned' = [m \in Node |-> IF m \in gone THEN {} ELSE owned[m]]
        /\ phase # "idle"
        /\ UNCHANGED <<slot, phase, swept, foreign, router_vars>>
    BY <2>1 DEF Remove, cycle_vars
  <2>3. NoRouterYet'
    BY <2>2 DEF RawInv, NoRouterYet, router_vars
  <2>4. ASSUME parent # None, router \in graph'
        PROVE  /\ owned'[router] = {parent}
               /\ parent \in graph' => <<parent, router>> \in edges'
    BY <2>2, <2>4 DEF RawInv, SourceInv, RefTypes
  <2>5. ASSUME parent # None, router \in graph', parent \notin graph' \/ parent \in swept
        PROVE  slot[router] \in removal_queue' \/ foreign
    <3>1. router \in graph /\ slot[router] # i
      BY <2>2, <2>5
    <3>2. CASE parent \notin graph \/ parent \in swept
      BY <2>2, <2>5, <3>1, <3>2 DEF RawInv, SourceInv
    <3>3. CASE parent \in graph /\ parent \notin swept
      <4>1. slot[parent] = i
        BY <2>2, <2>5, <3>3
      <4>2. foreign \/ Deserved(i)
        BY <2>2, <3>3, <4>1 DEF MarkInv, Vacant
      <4>3. Alive(parent)
        BY <2>5, <3>1 DEF RawInv, SourceInv, Alive, Owners
      <4>4. ~ Deserved(i)
        BY <3>3, <4>1, <4>3 DEF Deserved, SlotInv
      <4>5. QED
        BY <4>2, <4>4
    <3>4. QED
      BY <3>2, <3>3
  <2>6. QED
    BY <2>2, <2>3, <2>4, <2>5 DEF RawInv, SourceInv, router_vars
<1>7. CASE \E n \in Node : Destroy(n)
  <2>1. PICK n \in Node : Destroy(n)
    BY <1>7
  <2> DEFINE outputs == IF n = router THEN LiveOutputs ELSE {}
  <2>2. /\ removal_queue \in SUBSET removal_queue'
        /\ swept' = swept \cup outputs
        /\ foreign => foreign'
        /\ UNCHANGED <<graph_vars, cycle_vars, router, parent, parent_slot, output_key>>
    BY <2>1 DEF Destroy
  <2>3. \A m \in outputs : output_key[m] # None
    BY DEF LiveOutputs, Cached, RawInv, CacheHasOutputs
  <2>4. router = None => outputs = {}
    OBVIOUS
  <2> HIDE DEF outputs
  <2>5. parent # None => (parent \in swept' <=> parent \in swept)
    BY <2>2, <2>3 DEF RawInv, SourceInv
  <2>6. QED
    BY <2>2, <2>4, <2>5 DEF RawInv, NoRouterYet, SourceInv, graph_vars, cycle_vars
<1>8. QED
  BY <1>1, <1>2, <1>3, <1>4, <1>5, <1>6, <1>7, StepKinds

-----------------------------------------------------------------------------
\* A factory has its function, or it has been given away.
AttachedTypes == factory \in [Factories -> BOOLEAN]

LEMMA AttachedStep == AttachedTypes /\ HandlesNext => AttachedTypes'
<1> SUFFICES ASSUME AttachedTypes, HandlesNext PROVE AttachedTypes'
  OBVIOUS
<1>1. CASE UNCHANGED factory
  BY <1>1 DEF AttachedTypes
<1>2. CASE \E f \in Factories : Attach(f)
  BY <1>2 DEF Attach, AttachedTypes
<1>3. CASE \E k \in FactoryKeys : GetMiss(k)
  <2>1. PICK k \in FactoryKeys : factory' = [factory EXCEPT !["simple"] = @ /\ k # Unit]
    BY <1>3 DEF GetMiss
  <2>2. \A f \in Factories : factory'[f] \in BOOLEAN
    BY <2>1 DEF AttachedTypes, Factories
  <2>3. QED
    BY <2>1, <2>2 DEF AttachedTypes
<1>4. CASE \/ \E n \in Node :
                \/ Clone(n) \/ DropHandle(n) \/ Downgrade(n) \/ DropWeak(n)
                \/ UpgradeWeak(n) \/ Upgrade(n) \/ Share(n) \/ DropExclusive(n)
           \/ \E k \in Key : RouteHit(k)
  <2>1. HandleCall
    BY <1>4 DEF Clone, DropHandle, Downgrade, DropWeak, UpgradeWeak, Upgrade, Share,
                DropExclusive, RouteHit
  <2>2. QED
    BY <1>1, <2>1 DEF HandleCall, memo_vars
<1>5. CASE \E n \in Node \ made, i \in Slot :
             \/ \E P \in SUBSET graph, O \in SUBSET made : Build(n, i, P, O)
             \/ \E P \in SUBSET graph : Spawn(n, i, P)
             \/ \E s \in graph : BuildRouter(n, i, s)
             \/ BuildChannelRouter(n, i)
             \/ \E k \in Key : RouteMiss(k, n, i)
  <2>1. UNCHANGED memo_vars
    BY <1>5 DEF Build, Spawn, BuildRouter, BuildChannelRouter, RouteMiss
  <2>2. QED
    BY <1>1, <2>1 DEF memo_vars
<1>6. CASE \/ \E n \in Node : Enter(n) \/ Sweep(n) \/ Destroy(n) \/ GetReturns(n)
           \/ \E k \in Key : RoutePanics(k)
           \/ \E k \in FactoryKeys : GetHit(k)
           \/ \E i \in Slot : Remove(i)
           \/ GetPanics \/ BeginCycle \/ EndLoop \/ EndSweep \/ Return
  <2>1. UNCHANGED factory
    BY <1>6 DEF Enter, Sweep, Destroy, GetReturns, RoutePanics, GetHit, Remove,
                GetPanics, BeginCycle, EndLoop, EndSweep, Return, memo_vars
  <2>2. QED
    BY <1>1, <2>1
<1>7. QED
  BY <1>2, <1>3, <1>4, <1>5, <1>6 DEF HandlesNext, Client

-----------------------------------------------------------------------------
HandlesInv ==
  /\ RefTypes /\ SlotInv /\ AttachedTypes
  /\ ExclusiveIsSole /\ DyingIsDead /\ RoutedInv /\ FactoryInv
  /\ MarkInv /\ HeldStays /\ UnsweptInv /\ RawInv

LEMMA HandlesAlwaysInv == HandlesSpec => []HandlesInv
<1>1. HandlesInit => HandlesInv
  <2> SUFFICES ASSUME HandlesInit PROVE HandlesInv
    OBVIOUS
  <2>1. RefTypes /\ ExclusiveIsSole /\ DyingIsDead /\ RoutedInv /\ FactoryInv
    BY RefTypesInit
       DEF HandlesInit, ExclusiveIsSole, DyingIsDead, RoutedInv, FactoryInv
  <2>2. SlotInv /\ AttachedTypes
    BY DEF HandlesInit, SlotInv, AttachedTypes
  <2>3. MarkInv /\ HeldStays /\ UnsweptInv /\ RawInv
    BY DEF HandlesInit, MarkInv, HeldStays, UnsweptInv, RawInv, NoRouterYet, CacheHasOutputs,
           SourceInv
  <2>4. QED
    BY <2>1, <2>2, <2>3 DEF HandlesInv
<1>2. HandlesInv /\ [HandlesNext]_handle_vars => HandlesInv'
  <2> SUFFICES ASSUME HandlesInv, [HandlesNext]_handle_vars PROVE HandlesInv'
    OBVIOUS
  <2>1. CASE HandlesNext
    <3>1. RefTypes' /\ SlotInv' /\ AttachedTypes'
      BY <2>1, RefTypesStep, SlotStep, AttachedStep DEF HandlesInv
    <3>2. ExclusiveIsSole' /\ DyingIsDead' /\ RoutedInv' /\ FactoryInv'
      BY <2>1, SoleStep, DyingIsDeadStep, RoutedStep, FactoryStep DEF HandlesInv
    <3>3. MarkInv' /\ HeldStays' /\ UnsweptInv' /\ RawInv'
      BY <2>1, MarkStep, HeldStep, UnsweptStep, CacheStep, RouterStep DEF HandlesInv, RawInv
    <3>4. QED
      BY <3>1, <3>2, <3>3 DEF HandlesInv
  <2>2. CASE UNCHANGED handle_vars
    <3> USE <2>2 DEF handle_vars, graph_vars, count_vars, cycle_vars, gc_vars,
                     router_vars, memo_vars, Alive, Owners, Memoised, Cached
    <3>1. RefTypes' /\ SlotInv' /\ AttachedTypes'
      BY DEF HandlesInv, RefTypes, SlotInv, AttachedTypes
    <3>2. ExclusiveIsSole' /\ DyingIsDead' /\ RoutedInv' /\ FactoryInv'
      BY DEF HandlesInv, ExclusiveIsSole, DyingIsDead, RoutedInv, FactoryInv
    <3>3. MarkInv'
      BY DEF HandlesInv, MarkInv, Deserved, Vacant
    <3>4. HeldStays' /\ UnsweptInv' /\ RawInv'
      BY DEF HandlesInv, HeldStays, UnsweptInv, RawInv, NoRouterYet, CacheHasOutputs, SourceInv
    <3>5. QED
      BY <3>1, <3>2, <3>3, <3>4 DEF HandlesInv
  <2>3. QED
    BY <2>1, <2>2
<1>3. QED
  BY <1>1, <1>2, PTL DEF HandlesSpec

-----------------------------------------------------------------------------
\* "There is exclusive access to the node": what ExclusiveNode::borrow_mut()
\* relies on, since it takes the reference without a check.
THEOREM ExclusiveAccess == HandlesSpec => []ExclusiveIsSole
BY HandlesAlwaysInv, PTL DEF HandlesInv

\* The cache of a living router leads to every output that is alive, also
\* while outputs die one by one and their keys are routed again.
THEOREM RouterServesItsOutputs == HandlesSpec => []OutputsAreRouted
<1>1. HandlesInv => OutputsAreRouted
  BY DEF HandlesInv, RefTypes, RoutedInv, OutputsAreRouted
<1>2. QED
  BY <1>1, HandlesAlwaysInv, PTL

\* A factory answers the same node for the same key for ever, whatever the
\* factory function does and however often it panics.
THEOREM FactoriesAreStable == HandlesSpec => []OneNodePerKey
<1>1. HandlesInv => OneNodePerKey
  BY DEF HandlesInv, FactoryInv, OneNodePerKey
<1>2. QED
  BY <1>1, HandlesAlwaysInv, PTL

\* References name nodes that were built, edges join nodes of the graph, and the
\* queue holds slots: no sweep, drop or route leaves a dangling one.
THEOREM HandlesTypes == HandlesSpec => []HandlesTypeOK
<1>1. HandlesInv => HandlesTypeOK
  <2> SUFFICES ASSUME HandlesInv PROVE HandlesTypeOK
    OBVIOUS
  <2>1. got \in [FactoryKeys -> SUBSET made] /\ building \in Seq(FactoryKeys)
    BY DEF HandlesInv, FactoryInv, RefTypes
  <2>2. /\ made \subseteq Node /\ graph \subseteq made
        /\ owned \in [Node -> SUBSET made]
        /\ handles \in [Node -> Nat] /\ weaks \in [Node -> Nat]
        /\ exclusive \subseteq made /\ dying \subseteq made
        /\ router \in made \cup {None}
        /\ cache \in [Key -> made \cup {None}]
        /\ output_key \in [Node -> Key \cup {None}]
        /\ memo \in [FactoryKeys -> made \cup {None}]
    BY DEF HandlesInv, RefTypes
  <2>3. /\ slot \in [Node -> Slot \cup {None}]
        /\ edges \subseteq graph \X graph
        /\ phase \in {"idle", "loop", "sweep", "panicked"}
        /\ running \in graph \cup {None}
        /\ removal_queue \subseteq Slot
        /\ parent \in made \cup {None} /\ parent_slot \in Slot \cup {None}
        /\ swept \subseteq made /\ foreign \in BOOLEAN
    BY DEF HandlesInv, SlotInv
  <2>4. factory \in [Factories -> BOOLEAN]
    BY DEF HandlesInv, AttachedTypes
  <2>5. QED
    BY <2>1, <2>2, <2>3, <2>4 DEF HandlesTypeOK
<1>2. QED
  BY <1>1, HandlesAlwaysInv, PTL

\* "The returned Node<T> handle keeps the node alive": whoever is held stays in
\* the graph, unless swept on purpose or hit by a mark for another node.
THEOREM HandlesKeepNodes == HandlesSpec => []HeldStays
BY HandlesAlwaysInv, PTL DEF HandlesInv

\* In a run in which nothing is swept that promise is kept without exception:
\* whoever is held is in the graph, however slots and handles are reused.
HandleIsEnough == swept = {} => \A n \in made : Alive(n) => n \in graph

THEOREM HandlesAreEnough == HandlesSpec => []HandleIsEnough
<1>1. HandlesInv => HandleIsEnough
  BY DEF HandlesInv, UnsweptInv, HandleIsEnough
<1>2. QED
  BY <1>1, HandlesAlwaysInv, PTL

\* The RawHandle that a router keeps of its source names the source as long as
\* the router is in the graph, but for the sweep that is about to remove it.
THEOREM RawHandlesAreValid == HandlesSpec => []RawHandleIsValid
<1>1. HandlesInv => RawHandleIsValid
  BY DEF HandlesInv, RawInv, SourceInv, RawHandleIsValid
<1>2. QED
  BY <1>1, HandlesAlwaysInv, PTL
=============================================================================
