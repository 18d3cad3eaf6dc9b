----------------------------- MODULE DepthQueue -----------------------------
(***************************************************************************)
(* What the executor needs from its scheduler, without the way it is       *)
(* implemented: a priority queue of nodes by graph depth that is first-in  *)
(* first-out within a depth, never goes back to a shallower depth until it *)
(* has been drained, and reports "nothing left" only when nothing is left. *)
(*                                                                         *)
(* There is no event counter and no cursor that walks over empty levels;   *)
(* module Scheduler, translated from runtime/scheduler.rs, implements this *)
(* specification with both.                                                *)
(***************************************************************************)
EXTENDS Naturals, Sequences

CONSTANTS Index,    \* node indices
          MaxDepth  \* the deepest level of the graph

Depths == 0 .. MaxDepth

VARIABLES waiting,  \* waiting[d]: nodes to run at depth d, oldest first
          floor     \* nothing shallower than this is accepted

queueVars == <<waiting, floor>>

QueueInit ==
  /\ waiting = [d \in Depths |-> <<>>]
  /\ floor = 0

\* A node at or below the floor joins the end of its depth's line.
Accept(n, d) ==
  /\ d >= floor
  /\ waiting' = [waiting EXCEPT ![d] = Append(@, n)]
  /\ UNCHANGED floor

\* The oldest node of the shallowest waiting depth leaves, and the floor
\* rises to that depth.
Take(n, d) ==
  /\ waiting[d] # <<>>
  /\ \A e \in Depths : e < d => waiting[e] = <<>>
  /\ n = Head(waiting[d])
  /\ waiting' = [waiting EXCEPT ![d] = Tail(@)]
  /\ floor' = d

\* Only a queue without a single waiting node starts over at depth 0.
StartOver ==
  /\ \A d \in Depths : waiting[d] = <<>>
  /\ floor' = 0
  /\ UNCHANGED waiting

QueueNext ==
  \/ \E n \in Index, d \in Depths : Accept(n, d)
  \/ \E n \in Index, d \in Depths : Take(n, d)
  \/ StartOver

QueueSpec == QueueInit /\ [][QueueNext]_queueVars
=============================================================================
