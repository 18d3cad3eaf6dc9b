---------------------------- MODULE MCEventDriver ----------------------------
(* TLC instances of the event driver; the .cfg files choose the bounds.      *)
EXTENDS EventDriver, TLC

VARIABLE part

\* A runtime whose nodes use timers and yields and that may get a signal, or
\* one whose nodes use I/O sources.
PartsInit == EventInit /\ part \in {"timers", "sources"}

PartsNext ==
  /\ EventNext
  /\ IF part = "timers" THEN sources' = {}
                         ELSE timers' = {} /\ yields' = {} /\ ~ shutdown'
  /\ UNCHANGED part

parts_vars == <<event_vars, part>>

PartsSpec ==
  /\ PartsInit /\ [][PartsNext]_parts_vars
  /\ WF_parts_vars(Loop /\ UNCHANGED part)
  /\ \A t \in Thread : WF_parts_vars(NotifyWake(t) /\ UNCHANGED part)
  /\ WF_parts_vars(Tick /\ UNCHANGED part)
=============================================================================
