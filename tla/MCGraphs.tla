----------------------------- MODULE MCGraphs ------------------------------
(* The TLC instance of the executor on larger graphs.                     *)
EXTENDS Executor, TLC

NodeSymmetry == Permutations(Index)

Named == graph \cup removal_queue \cup stale

\* A cycle in which nothing goes wrong
Healthy ==
  \/ BeginCycle \/ Poll \/ Advance
  \/ phase = "node" /\ \E i \in Index : DropHandle(i)

\* All that the constants allow to happen to a small graph, and one cycle of a
\* healthy executor on every graph, until it removes a node.
LookedAt ==
  IF Cardinality(Named \cup Named') <= 2
    THEN pending_events' <= 2
    ELSE /\ epoch' <= 1 /\ Named \subseteq Named'
         /\ removal_queue \cup stale \subseteq graph
         /\ IF graph' # graph THEN epoch = 0 /\ removal_queue = {} ELSE Healthy
=============================================================================
