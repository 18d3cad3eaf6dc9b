--------------------------- MODULE SchedulerProofs ---------------------------
(***************************************************************************)
(* Proofs about the scheduler, for every set of indices, every depth and   *)
(* every sequence of calls.  The lemmas about the single operations are    *)
(* also what the proofs about the executor use.                            *)
(***************************************************************************)
EXTENDS Scheduler, FiniteSetTheorems, SequenceTheorems, TLAPS

\* What the operations preserve: the counter is exact and no node is out of
\* the reach of pop().
SchedInv == SchedTypeOK /\ PendingIsExact /\ NothingStranded

\* A set of depths that is not empty has a least element.
LEMMA LeastDepth ==
  ASSUME NEW D \in SUBSET Depths, D # {}
  PROVE  \E d \in D : \A e \in D : d <= e
<1>1. D \in SUBSET Nat
  BY MaxDepthAssumption DEF Depths
<1>2. PICK d \in D : \A e \in D : <<e, d>> \notin OpToRel(<, Nat)
  <2> DEFINE R == OpToRel(<, Nat)
  <2>1. IsWellFoundedOn(R, Nat)
    BY NatLessThanWellFounded
  <2> HIDE DEF R
  <2>2. \E d \in D : \A e \in D : ~ (<<e, d>> \in R)
    BY <1>1, <2>1, WFMin
  <2>3. QED
    BY <2>2 DEF R
<1>3. \A e \in D : ~ (e < d)
  BY <1>1, <1>2 DEF OpToRel
<1>4. QED
  BY <1>1, <1>3

LEMMA SlotsMember ==
  ASSUME SchedTypeOK
  PROVE  \A s : s \in Slots <=> \E d \in Depths :
                                  \E k \in 1 .. Len(multi_queue[d]) : s = <<d, k>>
BY DEF Slots, SchedTypeOK

\* A node leaves: the last place of its queue is gone.
LEMMA PopSlots ==
  ASSUME SchedTypeOK, NEW d \in Depths, multi_queue[d] # <<>>,
         multi_queue' = [multi_queue EXCEPT ![d] = Tail(multi_queue[d])]
  PROVE  /\ multi_queue' \in [Depths -> Seq(Index)]
         /\ <<d, Len(multi_queue[d])>> \in Slots
         /\ Slots' = Slots \ {<<d, Len(multi_queue[d])>>}
<1>1. /\ multi_queue[d] \in Seq(Index)
      /\ Tail(multi_queue[d]) \in Seq(Index)
      /\ Len(multi_queue[d]) \in Nat \ {0}
      /\ Len(Tail(multi_queue[d])) = Len(multi_queue[d]) - 1
  BY HeadTailProperties, EmptySeq DEF SchedTypeOK
<1>2. multi_queue' \in [Depths -> Seq(Index)]
  BY <1>1 DEF SchedTypeOK
<1>3. /\ multi_queue'[d] = Tail(multi_queue[d])
      /\ \A e \in Depths \ {d} : multi_queue'[e] = multi_queue[e]
      /\ \A e \in Depths : Len(multi_queue[e]) \in Nat
  BY LenProperties DEF SchedTypeOK
<1>4. <<d, Len(multi_queue[d])>> \in Slots
  BY <1>1, SlotsMember
<1>5. \A s : s \in Slots' <=> \E e \in Depths :
                                 \E k \in 1 .. Len(multi_queue'[e]) : s = <<e, k>>
  BY <1>2 DEF Slots
<1>6. \A s : s \in Slots' <=> s \in Slots /\ s # <<d, Len(multi_queue[d])>>
  <2>1. ASSUME NEW e \in Depths, NEW k \in 1 .. Len(multi_queue'[e])
        PROVE  /\ k \in 1 .. Len(multi_queue[e])
               /\ <<e, k>> # <<d, Len(multi_queue[d])>>
    <3>1. CASE e = d
      <4>1. k \in 1 .. Len(multi_queue[d]) - 1
        BY <1>1, <1>3, <2>1, <3>1
      <4>2. k \in 1 .. Len(multi_queue[d]) /\ k # Len(multi_queue[d])
        BY <4>1, <1>1
      <4>3. QED
        BY <4>2, <3>1
    <3>2. CASE e # d
      BY <1>3, <2>1, <3>2
    <3>3. QED
      BY <3>1, <3>2
  <2>2. ASSUME NEW e \in Depths, NEW k \in 1 .. Len(multi_queue[e]),
               <<e, k>> # <<d, Len(multi_queue[d])>>
        PROVE  k \in 1 .. Len(multi_queue'[e])
    <3>1. CASE e = d
      BY <1>1, <1>3, <2>2, <3>1
    <3>2. CASE e # d
      BY <1>3, <2>2, <3>2
    <3>3. QED
      BY <3>1, <3>2
  <2>3. QED
    BY <2>1, <2>2, <1>5, SlotsMember
<1>7. QED
  BY <1>2, <1>4, <1>6

\* A node arrives: its queue has one more place.
LEMMA PushSlots ==
  ASSUME SchedTypeOK, NEW n \in Index, NEW d \in Depths,
         multi_queue' = [multi_queue EXCEPT ![d] = Append(multi_queue[d], n)]
  PROVE  /\ multi_queue' \in [Depths -> Seq(Index)]
         /\ <<d, Len(multi_queue[d]) + 1>> \notin Slots
         /\ Slots' = Slots \cup {<<d, Len(multi_queue[d]) + 1>>}
<1>1. /\ multi_queue[d] \in Seq(Index)
      /\ Append(multi_queue[d], n) \in Seq(Index)
      /\ Len(multi_queue[d]) \in Nat
      /\ Len(Append(multi_queue[d], n)) = Len(multi_queue[d]) + 1
  BY AppendProperties, LenProperties DEF SchedTypeOK
<1>2. multi_queue' \in [Depths -> Seq(Index)]
  BY <1>1 DEF SchedTypeOK
<1>3. /\ multi_queue'[d] = Append(multi_queue[d], n)
      /\ \A e \in Depths \ {d} : multi_queue'[e] = multi_queue[e]
      /\ \A e \in Depths : Len(multi_queue[e]) \in Nat
  BY LenProperties DEF SchedTypeOK
<1>4. <<d, Len(multi_queue[d]) + 1>> \notin Slots
  BY <1>1, SlotsMember
<1>5. \A s : s \in Slots' <=> \E e \in Depths :
                                 \E k \in 1 .. Len(multi_queue'[e]) : s = <<e, k>>
  BY <1>2 DEF Slots
<1>6. \A s : s \in Slots' <=> s \in Slots \/ s = <<d, Len(multi_queue[d]) + 1>>
  <2>1. ASSUME NEW e \in Depths, NEW k \in 1 .. Len(multi_queue'[e]),
               <<e, k>> # <<d, Len(multi_queue[d]) + 1>>
        PROVE  k \in 1 .. Len(multi_queue[e])
    <3>1. CASE e = d
      BY <1>1, <1>3, <2>1, <3>1
    <3>2. CASE e # d
      BY <1>3, <2>1, <3>2
    <3>3. QED
      BY <3>1, <3>2
  <2>2. ASSUME NEW e \in Depths, NEW k \in 1 .. Len(multi_queue[e])
        PROVE  k \in 1 .. Len(multi_queue'[e])
    <3>1. CASE e = d
      BY <1>1, <1>3, <2>2, <3>1
    <3>2. CASE e # d
      BY <1>3, <2>2, <3>2
    <3>3. QED
      BY <3>1, <3>2
  <2>3. Len(multi_queue[d]) + 1 \in 1 .. Len(multi_queue'[d])
    BY <1>1, <1>3
  <2>4. QED
    BY <2>1, <2>2, <2>3, <1>5, SlotsMember
<1>7. QED
  BY <1>2, <1>4, <1>6

\* The counter that says "nothing pending" is right about every queue.
LEMMA NoPendingNoWaiting ==
  ASSUME SchedInv, pending_events = 0
  PROVE  \A d \in Depths : multi_queue[d] = <<>>
<1>1. Slots = {}
  BY FS_EmptySet DEF SchedInv, PendingIsExact
<1>2. SUFFICES ASSUME NEW d \in Depths, multi_queue[d] # <<>> PROVE FALSE
  OBVIOUS
<1>3. Len(multi_queue[d]) \in Nat \ {0}
  <2>1. multi_queue[d] \in Seq(Index)
    BY DEF SchedInv, SchedTypeOK
  <2>2. QED
    BY <2>1, <1>2, EmptySeq
<1>4. <<d, 1>> \in Slots
  BY <1>3, SlotsMember DEF SchedInv
<1>5. QED
  BY <1>1, <1>4

-----------------------------------------------------------------------------
LEMMA InitSched == SchedInit => SchedInv
<1> SUFFICES ASSUME SchedInit PROVE SchedInv
  OBVIOUS
<1>1. SchedTypeOK
  BY MaxDepthAssumption, EmptySeq DEF SchedInit, SchedTypeOK, Depths
<1>2. Slots = {}
  BY <1>1, SlotsMember, EmptySeq DEF SchedInit
<1>3. PendingIsExact
  BY <1>2, FS_EmptySet DEF PendingIsExact, SchedInit
<1>4. NothingStranded
  BY DEF NothingStranded, SchedInit
<1>5. QED
  BY <1>1, <1>3, <1>4 DEF SchedInv

LEMMA EnableDepthSched ==
  ASSUME SchedInv, NEW d \in Depths, EnableDepth(d)
  PROVE  SchedInv'
BY MaxDepthAssumption DEF SchedInv, SchedTypeOK, PendingIsExact, Slots,
   NothingStranded, EnableDepth, Depths

LEMMA ScheduleSched ==
  ASSUME SchedInv, NEW n \in Index, NEW d \in Depths, d < levels,
         ScheduleOk(n, d)
  PROVE  SchedInv'
<1>1. multi_queue' = [multi_queue EXCEPT ![d] = Append(multi_queue[d], n)]
  BY DEF ScheduleOk
<1>2. SchedTypeOK'
  BY <1>1, PushSlots DEF SchedInv, SchedTypeOK, ScheduleOk
<1>3. PendingIsExact'
  <2> DEFINE s == <<d, Len(multi_queue[d]) + 1>>
  <2>1. s \notin Slots /\ Slots' = Slots \cup {s}
    BY <1>1, PushSlots DEF SchedInv
  <2>2. IsFiniteSet(Slots) /\ pending_events = Cardinality(Slots)
    BY DEF SchedInv, PendingIsExact
  <2>3. /\ IsFiniteSet(Slots \cup {s})
        /\ Cardinality(Slots \cup {s}) = Cardinality(Slots) + 1
    BY <2>1, <2>2, FS_AddElement
  <2>4. pending_events' = pending_events + 1
    BY DEF ScheduleOk
  <2>5. QED
    BY <2>1, <2>2, <2>3, <2>4 DEF PendingIsExact
<1>4. NothingStranded'
  BY <1>1 DEF SchedInv, SchedTypeOK, NothingStranded, ScheduleOk
<1>5. QED
  BY <1>2, <1>3, <1>4 DEF SchedInv

LEMMA PopSomeSched ==
  ASSUME SchedInv, NEW n, PopSome(n)
  PROVE  SchedInv'
<1>1. PICK d \in Depths :
        /\ FirstWaiting(d)
        /\ n = Head(multi_queue[d])
        /\ multi_queue' = [multi_queue EXCEPT ![d] = Tail(multi_queue[d])]
        /\ pending_events' = pending_events - 1
        /\ curr_depth' = d
        /\ UNCHANGED levels
  BY DEF PopSome
<1>2. /\ multi_queue[d] # <<>>
      /\ pending_events \in Nat \ {0}
  BY <1>1 DEF FirstWaiting, has_pending_event, SchedInv, SchedTypeOK
<1>3. SchedTypeOK'
  BY <1>1, <1>2, PopSlots DEF SchedInv, SchedTypeOK
<1>4. PendingIsExact'
  <2> DEFINE s == <<d, Len(multi_queue[d])>>
  <2>1. s \in Slots /\ Slots' = Slots \ {s}
    BY <1>1, <1>2, PopSlots DEF SchedInv
  <2>2. IsFiniteSet(Slots) /\ pending_events = Cardinality(Slots)
    BY DEF SchedInv, PendingIsExact
  <2>3. /\ IsFiniteSet(Slots \ {s})
        /\ Cardinality(Slots \ {s}) = Cardinality(Slots) - 1
    BY <2>1, <2>2, FS_RemoveElement
  <2>4. QED
    BY <2>1, <2>2, <2>3, <1>1 DEF PendingIsExact
<1>5. NothingStranded'
  <2> SUFFICES ASSUME NEW e \in Depths, multi_queue'[e] # <<>>
               PROVE  d <= e /\ e < levels
    BY <1>1 DEF NothingStranded
  <2>1. multi_queue[e] # <<>>
    BY <1>1, <1>2 DEF SchedInv, SchedTypeOK
  <2>2. curr_depth <= e /\ e < levels
    BY <2>1 DEF SchedInv, NothingStranded
  <2>3. ~ (e < d)
    BY <2>1, <2>2, <1>1 DEF FirstWaiting
  <2>4. QED
    BY <2>2, <2>3 DEF Depths
<1>6. QED
  BY <1>3, <1>4, <1>5 DEF SchedInv

\* pop() returns None only when nothing is queued: first the counter, then
\* the levels from the cursor on.
LEMMA Exhausted ==
  ASSUME SchedInv, \A d \in Depths : ~ FirstWaiting(d)
  PROVE  pending_events = 0 /\ \A d \in Depths : multi_queue[d] = <<>>
<1>1. CASE pending_events = 0
  BY <1>1, NoPendingNoWaiting
<1>2. CASE pending_events # 0
  <2>1. has_pending_event
    BY <1>2 DEF has_pending_event, SchedInv, SchedTypeOK
  <2>2. PICK s \in Slots : TRUE
    BY <1>2, FS_EmptySet DEF SchedInv, PendingIsExact
  <2> DEFINE Waiting == {e \in Depths : multi_queue[e] # <<>>}
  <2>3. Waiting # {}
    <3>1. PICK d \in Depths : \E k \in 1 .. Len(multi_queue[d]) : s = <<d, k>>
      BY <2>2, SlotsMember DEF SchedInv
    <3>2. multi_queue[d] # <<>>
      BY <3>1, EmptySeq
    <3>3. QED
      BY <3>2
  <2>4. PICK d \in Waiting : (\A e \in Waiting : d <= e)
    BY <2>3, LeastDepth
  <2>5. FirstWaiting(d)
    BY <2>1, <2>4 DEF FirstWaiting, SchedInv, NothingStranded, Depths
  <2>6. QED
    BY <2>5
<1>3. QED
  BY <1>1, <1>2

LEMMA PopNoneSched ==
  ASSUME SchedInv, PopNone
  PROVE  SchedInv'
<1>1. \A d \in Depths : multi_queue[d] = <<>>
  BY Exhausted DEF PopNone
<1>2. QED
  BY <1>1, MaxDepthAssumption
  DEF SchedInv, SchedTypeOK, PendingIsExact, Slots, NothingStranded, PopNone, Depths

-----------------------------------------------------------------------------
\* A client only schedules at depths that exist, which is what keeps the
\* index into multi_queue in bounds.
LEMMA SchedStep == SchedInv /\ [SchedNext]_sched_vars => SchedInv'
<1> SUFFICES ASSUME SchedInv, [SchedNext]_sched_vars PROVE SchedInv'
  OBVIOUS
<1>1. ASSUME NEW d \in Depths, EnableDepth(d) PROVE SchedInv'
  BY <1>1, EnableDepthSched
<1>2. ASSUME NEW n \in Index, NEW d \in Depths, Schedule(n, d) PROVE SchedInv'
  <2>1. CASE ScheduleOk(n, d)
    BY <1>2, <2>1, ScheduleSched DEF Schedule
  <2>2. CASE ScheduleErr(n, d)
    BY <2>2 DEF ScheduleErr, sched_vars, SchedInv, SchedTypeOK, PendingIsExact,
                Slots, NothingStranded
  <2>3. QED
    BY <1>2, <2>1, <2>2 DEF Schedule
<1>3. ASSUME NEW n \in Index, PopSome(n) PROVE SchedInv'
  BY <1>3, PopSomeSched
<1>4. CASE PopNone
  BY <1>4, PopNoneSched
<1>5. CASE UNCHANGED sched_vars
  BY <1>5 DEF sched_vars, SchedInv, SchedTypeOK, PendingIsExact, Slots,
              NothingStranded
<1>6. QED
  BY <1>1, <1>2, <1>3, <1>4, <1>5 DEF SchedNext

\* The counter pending_events is the number of queued nodes, whatever the
\* client does: poll() may rely on has_pending_event() to decide to sleep.
THEOREM CounterIsExact == SchedSpec => []PendingIsExact
<1>1. SchedInv => PendingIsExact
  BY DEF SchedInv
<1>2. QED
  BY <1>1, InitSched, SchedStep, PTL DEF SchedSpec

\* No node is ever at a depth that pop() has passed.
THEOREM NothingIsStranded == SchedSpec => []NothingStranded
<1>1. SchedInv => NothingStranded
  BY DEF SchedInv
<1>2. QED
  BY <1>1, InitSched, SchedStep, PTL DEF SchedSpec

\* The debug_assert of pop() holds: when it gives up, it has exhausted the
\* queue.
THEOREM PopExhausts == SchedSpec => []PopNoneIsExhaustive
<1>1. SchedInv => PopNoneIsExhaustive
  BY Exhausted DEF PopNoneIsExhaustive
<1>2. QED
  BY <1>1, InitSched, SchedStep, PTL DEF SchedSpec

\* The queue with its counter and its moving cursor is a FIFO priority queue
\* by depth.
THEOREM SchedulerImplementsDepthQueue == SchedSpec => ImplementsDepthQueue
<1>1. SchedInit => Abstract!QueueInit
  BY DEF SchedInit, Abstract!QueueInit, Abstract!Depths, Depths
<1>2. SchedInv /\ [SchedNext]_sched_vars
        => [Abstract!QueueNext]_(Abstract!queueVars)
  <2> SUFFICES ASSUME SchedInv, [SchedNext]_sched_vars
               PROVE  [Abstract!QueueNext]_(Abstract!queueVars)
    OBVIOUS
  <2>1. Abstract!Depths = Depths
    BY DEF Abstract!Depths, Depths
  <2>2. ASSUME NEW d \in Depths, EnableDepth(d)
        PROVE  UNCHANGED Abstract!queueVars
    BY <2>2 DEF EnableDepth, Abstract!queueVars
  <2>3. ASSUME NEW n \in Index, NEW d \in Depths, Schedule(n, d)
        PROVE  Abstract!Accept(n, d) \/ UNCHANGED Abstract!queueVars
    BY <2>3 DEF Schedule, ScheduleOk, ScheduleErr, sched_vars,
                Abstract!Accept, Abstract!queueVars
  <2>4. ASSUME NEW n \in Index, PopSome(n)
        PROVE  \E d \in Depths : Abstract!Take(n, d)
    <3>1. PICK d \in Depths :
            /\ FirstWaiting(d)
            /\ n = Head(multi_queue[d])
            /\ multi_queue' = [multi_queue EXCEPT ![d] = Tail(multi_queue[d])]
            /\ curr_depth' = d
      BY <2>4 DEF PopSome
    <3>2. \A e \in Depths : e < d => multi_queue[e] = <<>>
      BY <3>1 DEF FirstWaiting, SchedInv, NothingStranded
    <3>3. Abstract!Take(n, d)
      BY <3>1, <3>2, <2>1 DEF Abstract!Take, FirstWaiting
    <3>4. QED
      BY <3>3
  <2>5. ASSUME PopNone PROVE Abstract!StartOver
    BY <2>5, <2>1, Exhausted DEF PopNone, Abstract!StartOver
  <2>6. CASE UNCHANGED sched_vars
    BY <2>6 DEF sched_vars, Abstract!queueVars
  <2>7. QED
    <3>1. CASE \E n \in Index, d \in Depths : Schedule(n, d)
      BY <3>1, <2>1, <2>3 DEF Abstract!QueueNext
    <3>2. CASE \E n \in Index : PopSome(n)
      BY <3>2, <2>1, <2>4 DEF Abstract!QueueNext
    <3>3. CASE PopNone
      BY <3>3, <2>5 DEF Abstract!QueueNext
    <3>4. CASE \E d \in Depths : EnableDepth(d)
      BY <3>4, <2>2
    <3>5. QED
      BY <2>6, <3>1, <3>2, <3>3, <3>4 DEF SchedNext
<1>3. QED
  BY <1>1, <1>2, InitSched, SchedStep, PTL
  DEF SchedSpec, ImplementsDepthQueue, Abstract!QueueSpec
=============================================================================
