----------------------------- MODULE MCHandles -----------------------------
(* TLC instances of the handles; the .cfg file chooses the bounds.  A run  *)
(* is about weak and exclusive handles, a router, or the factories.        *)
EXTENDS Handles, TLC

VARIABLE kit

Sizes == [handles |-> 3, router |-> 4, factory |-> 2]

SlotsOf == [handles |-> 2, router |-> 3, factory |-> 2]

\* In the router's part only the router owns a handle, and only the router
\* and its outputs have parents.
Plain ==
  /\ \A n \in Node \ {router} : owned[n] = {}
  /\ \A e \in edges : e[2] = router \/ output_key[e[2]] # None
  /\ \A n \in exclusive : output_key[n] # None
  /\ Cardinality({n \in made : n # router /\ output_key[n] = None}) <= 2

\* In the part about handles, one node at a time has two handles, and one a
\* WeakNode.
Few ==
  /\ Cardinality(edges) <= 1
  /\ Cardinality({n \in Node : handles[n] > 1}) <= 1
  /\ Cardinality({n \in Node : weaks[n] > 0}) <= 1

MCInit == HandlesInit /\ kit \in DOMAIN Sizes

MCNext ==
  /\ HandlesNext
  /\ Cardinality(made') <= Sizes[kit]
  /\ Cardinality({slot'[n] : n \in made'}) <= SlotsOf[kit]
  /\ IF kit = "handles" THEN Few' ELSE weaks' = weaks
  /\ IF kit = "router" THEN Plain' /\ \A n \in Node : handles'[n] <= 1
                       ELSE router_vars' = router_vars
  /\ IF kit = "factory" THEN TRUE ELSE memo_vars' = memo_vars
  /\ UNCHANGED kit

MCSpec == MCInit /\ [][MCNext]_<<handle_vars, kit>>

HandlesSymmetry == Permutations(Node) \cup Permutations(Slot)
=============================================================================
