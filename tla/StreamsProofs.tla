---------------------------- MODULE StreamsProofs ----------------------------
(***************************************************************************)
(* What the stream nodes of module Streams promise, for every number of    *)
(* pushes, every size of a batch and every way the switch is turned.       *)
(*                                                                         *)
(* An item is in one place at a time: pushed, in a feed, or emitted; and   *)
(* what a transform lacks is exactly the batch that Drain broadcast in     *)
(* this cycle, until the transform has run.                                *)
(***************************************************************************)
EXTENDS Streams, ExecutorProofs

-----------------------------------------------------------------------------
(* The graph.                                                              *)

StreamDepth ==
  [n \in Index |-> IF n \in Transforms THEN 2 ELSE IF n = Drain THEN 1 ELSE 0]

StreamEdges ==
  Triggers(Feeds \cup {Toggle}, Drain) \cup {Drain} \X Transforms \X {"Trigger"}

\* No node joins or leaves the graph, and none yields.
StaticInv ==
  /\ graph = StreamNodes /\ edges = StreamEdges /\ depth = StreamDepth
  /\ yields = {}

LEMMA Apart ==
  /\ FeedA \notin {FeedB, Toggle, Drain, Total, PerBatch, Distinct, Kept}
  /\ FeedB \notin {Toggle, Drain, Total, PerBatch, Distinct, Kept}
  /\ Toggle \notin {Drain, Total, PerBatch, Distinct, Kept}
  /\ Drain \notin {Total, PerBatch, Distinct, Kept}
  /\ Total \notin {PerBatch, Distinct, Kept}
  /\ PerBatch \notin {Distinct, Kept} /\ Distinct # Kept
BY StreamsAssumption DEF Feeds, Transforms

LEMMA InIndex ==
  /\ FeedA \in Index /\ FeedB \in Index /\ Toggle \in Index /\ Drain \in Index
  /\ Feeds \subseteq Index /\ Transforms \subseteq Index
BY StreamsAssumption DEF StreamNodes, VecNodes, Feeds, Transforms

LEMMA StreamDepths ==
  /\ StreamDepth \in [Index -> 0 .. 2]
  /\ \A n \in Feeds \cup {Toggle} : StreamDepth[n] = 0
  /\ StreamDepth[Drain] = 1
  /\ \A n \in Transforms : StreamDepth[n] = 2
BY Apart, InIndex DEF StreamDepth, Feeds, Transforms

LEMMA StreamEdgesAre ==
  /\ \A e \in StreamEdges :
       \/ e[1] \in Feeds \cup {Toggle} /\ e[2] = Drain /\ e[3] = "Trigger"
       \/ e[1] = Drain /\ e[2] \in Transforms /\ e[3] = "Trigger"
  /\ \A n \in Transforms : <<Drain, n, "Trigger">> \in StreamEdges
BY DEF StreamEdges, Triggers

LEMMA StreamInitInv == StreamInit => IInv /\ OnceInv({}) /\ StaticInv
<1> SUFFICES ASSUME StreamInit PROVE IInv /\ OnceInv({}) /\ StaticInv
  OBVIOUS
<1>1. BuiltGraph(StreamNodes, StreamDepth, StreamEdges)
  BY DEF StreamInit, StreamDepth, StreamEdges
<1>2. StreamNodes \in SUBSET Index /\ MaxDepth >= 2
  BY StreamsAssumption
<1>3. \A e \in StreamEdges : StreamDepth[e[1]] < StreamDepth[e[2]]
  BY StreamDepths, StreamEdgesAre
<1>4. StreamEdges \in SUBSET (StreamNodes \X StreamNodes \X Relationship)
  BY DEF StreamEdges, Triggers, Relationship, StreamNodes, VecNodes
<1>5. yields = {}
  BY DEF StreamInit
<1>6. IInv
  BY <1>1, <1>2, <1>3, <1>4, <1>5, StreamDepths, BuiltGraphInv
<1>7. OnceInv({})
  BY <1>1, InitOnce
<1>8. QED
  BY <1>1, <1>5, <1>6, <1>7 DEF BuiltGraph, StaticInv

-----------------------------------------------------------------------------
(* The steps.                                                              *)

Runs(i) == phase = "node" /\ current = i

\* A node that has run in this cycle and returned
Ran(i) == i \in ran /\ ~ Runs(i)

Mutated(i) == InCycle /\ HasMutated(i)

Sources == Feeds \cup {Toggle}

\* The kinds of steps in which no node runs
Moves ==
  /\ phase' # phase /\ phase \notin {"idle", "node"}
  /\ phase' \notin {"node", "broadcast", "notify", "panicked"}
  /\ InCycle' = InCycle
  /\ UNCHANGED <<sched_vars, graph_vars, sched_epoch, mut_epoch, yields, epoch, current,
                 ran, stream_vars>>

Wakes(i) ==
  /\ Wake(i)
  /\ \/ phase = "notify" /\ i \in Sources
     \/ phase = "broadcast" /\ i \in Triggered(current)
  /\ UNCHANGED <<graph_vars, mut_epoch, epoch, phase, yields, current, ran,
                 push_data, push_toggle, pushed, data, toggle, from_a, by_value, out_vars>>
  /\ notified' \subseteq notified

Enters(i) == EnterNode(i) /\ UNCHANGED stream_vars

Pushes ==
  /\ UNCHANGED vars
  /\ (\E f \in Feeds, n \in 0 .. 2 : Push(f, n)) \/ \E b \in BOOLEAN : PushToggle(b)

LEMMA StreamKinds ==
  ASSUME IInv, OnceInv({}), StaticInv, notified \subseteq Sources, StreamNext
  PROVE  \/ Pushes
         \/ BeginCycle /\ UNCHANGED stream_vars
         \/ EndLoop /\ UNCHANGED stream_vars
         \/ Moves
         \/ \E i \in Index : Wakes(i)
         \/ \E i \in StreamNodes : Enters(i)
         \/ phase = "node" /\ (RunPush \/ RunTake \/ RunTransform)
<1>1. CASE \/ \E f \in Feeds, n \in 0 .. 2 : Push(f, n)
           \/ \E b \in BOOLEAN : PushToggle(b)
  <2>1. UNCHANGED vars
    BY <1>1 DEF Push, PushToggle
  <2>2. QED
    BY <1>1, <2>1 DEF Pushes
<1>2. CASE RunStreamNode
  BY <1>2 DEF RunStreamNode
<1>3. CASE StreamCycleStep
  <2>1. UNCHANGED <<push_data, push_toggle, pushed, data, toggle, from_a, by_value, out_vars>>
    BY <1>3 DEF StreamCycleStep
  <2>2. ASSUME NEW i \in notified, PollNotification(i), notified' = notified \ {i}
        PROVE  i \in Index /\ Wakes(i)
    <3>1. i \in Index /\ i \in Sources /\ phase = "notify" /\ Wake(i)
      BY <2>2, InIndex DEF Sources, PollNotification, PollExternal
    <3>2. phase' = phase
      BY <2>2, <3>1, PollOnce DEF OnceInv, PollNeverPanics, PollNotification, PollExternal
    <3>3. QED
      BY <2>1, <2>2, <3>1, <3>2 DEF PollNotification, PollExternal, Wakes,
         hist_vars, queue_vars, node_vars
  <2>3. ASSUME QuietStep \/ \E n \in StreamNodes : EnterNode(n), UNCHANGED notified
        PROVE  \/ BeginCycle /\ UNCHANGED stream_vars
               \/ EndLoop /\ UNCHANGED stream_vars
               \/ Moves \/ \E i \in Index : Wakes(i)
               \/ \E i \in StreamNodes : Enters(i)
    <3>1. UNCHANGED stream_vars
      BY <2>1, <2>3 DEF stream_vars, push_vars
    <3>2. \A i \in Index : ~ PollYield(i)
      BY DEF StaticInv, PollYield
    <3>3. ASSUME NEW i \in Index, BroadcastTo(i) PROVE Wakes(i)
      BY <2>1, <2>3, <3>3 DEF BroadcastTo, Wakes, hist_vars, queue_vars, node_vars,
         IInv, CycleInv, BufferOfChildren
    <3>4. CASE NextStage \/ EndOfChildren \/ EndSweep \/ EndCycle
      BY <3>1, <3>4 DEF Moves, NextStage, EndOfChildren, EndSweep, EndCycle,
         InCycle, PollPhases, LoopPhases, hist_vars, queue_vars, node_vars
    <3>5. QED
      BY <2>3, <3>1, <3>2, <3>3, <3>4 DEF QuietStep, Enters
  <2>4. QED
    BY <1>3, <2>2, <2>3 DEF StreamCycleStep
<1>4. QED
  BY <1>1, <1>2, <1>3 DEF StreamNext

\* What the nodes do, the executor allows its clients.
LEMMA StreamStep ==
  ASSUME notified \subseteq Sources, StreamNext
  PROVE  Next \/ UNCHANGED vars
<1>1. CASE RunStreamNode
  BY <1>1 DEF RunStreamNode, RunPush, RunTake, RunTransform, Next, Advance
<1>2. CASE StreamCycleStep
  <2>1. notified \subseteq Index /\ StreamNodes \subseteq Index
    BY InIndex, StreamsAssumption DEF Sources
  <2>2. QED
    BY <1>2, <2>1, QuietIsNext DEF StreamCycleStep, Next, Poll, Advance
<1>3. QED
  BY <1>1, <1>2 DEF StreamNext, Push, PushToggle

LEMMA FrameVars ==
  ASSUME NEW M, OnceInv(M), UNCHANGED vars
  PROVE  OnceInv(M)'
BY DEF vars, OnceInv, UniqueSlots, QueuedIsStamped, RanIsDone, CursorAtRest,
   StampedIsServed, PollNeverPanics, InCycle, Queued, sched_vars, graph_vars, hist_vars

LEMMA StreamOnceStep ==
  ASSUME IInv, OnceInv({}), notified \subseteq Sources, StreamNext
  PROVE  OnceInv({})'
<1>1. CASE UNCHANGED vars
  BY <1>1, FrameVars
<1>2. CASE RunStreamNode
  BY <1>2, AdvanceOnce DEF RunStreamNode, RunPush, RunTake, RunTransform, Advance,
     ReturnBroadcast, ReturnUnchanged, ReturnTerminate
<1>3. CASE StreamCycleStep
  <2>1. CASE BeginCycle
    BY <2>1, BeginOnce
  <2>2. CASE \E i \in notified : PollNotification(i)
    BY <2>2, PollOnce, InIndex DEF Sources
  <2>3. CASE \E i \in StreamNodes : EnterNode(i)
    BY <2>3, PopOnce, StreamsAssumption
  <2>4. CASE QuietStep /\ ~ BeginCycle
    <3>1. Advance
      BY <2>4 DEF QuietStep, Advance
    <3>2. ~ ReturnTerminate
      BY <2>4 DEF QuietStep, ReturnTerminate, PollYield, NextStage, BroadcastTo,
         EndOfChildren, EndLoop, EndSweep, EndCycle
    <3>3. QED
      BY <3>1, <3>2, AdvanceOnce
  <2>5. QED
    BY <1>3, <2>1, <2>2, <2>3, <2>4 DEF StreamCycleStep
<1>4. QED
  BY <1>1, <1>2, <1>3 DEF StreamNext, Push, PushToggle

-----------------------------------------------------------------------------
(* Items.                                                                  *)

ItemsIn(s) == {s[i] : i \in 1 .. Len(s)}

Consecutive(s) == \A i \in 1 .. Len(s) : s[i] = s[1] + (i - 1)

NoRepeat(s) == \A i, j \in 1 .. Len(s) : s[i] = s[j] => i = j

LEMMA NoItems ==
  /\ ItemsIn(<<>>) = {} /\ Consecutive(<<>>) /\ NoRepeat(<<>>)
  /\ <<>> \in Seq(Nat) /\ Len(<<>>) = 0
BY DEF ItemsIn, Consecutive, NoRepeat

\* Appending a batch of fresh items
LEMMA Appending ==
  ASSUME NEW s \in Seq(Nat), NEW t \in Seq(Nat), NoRepeat(s), Consecutive(t),
         ItemsIn(s) \cap ItemsIn(t) = {}
  PROVE  /\ s \o t \in Seq(Nat) /\ NoRepeat(s \o t)
         /\ ItemsIn(s \o t) = ItemsIn(s) \cup ItemsIn(t)
<1>1. /\ s \o t \in Seq(Nat) /\ Len(s \o t) = Len(s) + Len(t)
      /\ Len(s) \in Nat /\ Len(t) \in Nat
      /\ \A i \in 1 .. Len(s) : (s \o t)[i] = s[i] /\ s[i] \in Nat
      /\ \A i \in 1 .. Len(t) : (s \o t)[Len(s) + i] = t[i] /\ t[i] \in Nat
  OBVIOUS
<1>2. \A i \in 1 .. Len(s \o t) :
        \/ i \in 1 .. Len(s) /\ (s \o t)[i] = s[i]
        \/ i - Len(s) \in 1 .. Len(t) /\ (s \o t)[i] = t[i - Len(s)]
  <2> SUFFICES ASSUME NEW i \in 1 .. Len(s \o t)
               PROVE  \/ i \in 1 .. Len(s) /\ (s \o t)[i] = s[i]
                      \/ i - Len(s) \in 1 .. Len(t) /\ (s \o t)[i] = t[i - Len(s)]
    OBVIOUS
  <2>1. CASE i <= Len(s)
    BY <1>1, <2>1
  <2>2. CASE i > Len(s)
    <3>1. i - Len(s) \in 1 .. Len(t) /\ Len(s) + (i - Len(s)) = i
      BY <1>1, <2>2
    <3>2. QED
      BY <1>1, <3>1
  <2>3. QED
    BY <1>1, <2>1, <2>2
<1>3. \A i \in 1 .. Len(s), j \in 1 .. Len(t) : s[i] # t[j]
  BY DEF ItemsIn
<1>4. \A i, j \in 1 .. Len(t) : t[i] = t[j] => i = j
  <2> SUFFICES ASSUME NEW i \in 1 .. Len(t), NEW j \in 1 .. Len(t), t[i] = t[j]
               PROVE  i = j
    OBVIOUS
  <2>1. i \in Nat /\ j \in Nat /\ 1 \in 1 .. Len(t)
    BY <1>1
  <2>2. PICK a \in Nat : a = t[1]
    BY <1>1, <2>1
  <2>3. t[i] = a + (i - 1) /\ t[j] = a + (j - 1)
    BY <2>2 DEF Consecutive
  <2>4. a + (i - 1) = a + (j - 1)
    BY <2>3
  <2>5. QED
    BY <2>1, <2>4
<1>5. NoRepeat(s \o t)
  <2> SUFFICES ASSUME NEW i \in 1 .. Len(s \o t), NEW j \in 1 .. Len(s \o t),
                      (s \o t)[i] = (s \o t)[j]
               PROVE  i = j
    BY DEF NoRepeat
  <2>1. CASE i \in 1 .. Len(s) /\ (s \o t)[i] = s[i]
    <3>1. j \in 1 .. Len(s) /\ (s \o t)[j] = s[j]
      BY <1>2, <1>3, <2>1
    <3>2. QED
      BY <2>1, <3>1 DEF NoRepeat
  <2>2. CASE i - Len(s) \in 1 .. Len(t) /\ (s \o t)[i] = t[i - Len(s)]
    <3>1. j - Len(s) \in 1 .. Len(t) /\ (s \o t)[j] = t[j - Len(s)]
      BY <1>2, <1>3, <2>2
    <3>2. i - Len(s) = j - Len(s)
      BY <1>4, <2>2, <3>1
    <3>3. QED
      BY <1>1, <3>2
  <2>3. QED
    BY <1>2, <2>1, <2>2
<1>6. ItemsIn(s \o t) = ItemsIn(s) \cup ItemsIn(t)
  <2>1. ItemsIn(s \o t) \subseteq ItemsIn(s) \cup ItemsIn(t)
    BY <1>2 DEF ItemsIn
  <2>2. ItemsIn(s) \subseteq ItemsIn(s \o t)
    <3> SUFFICES ASSUME NEW i \in 1 .. Len(s) PROVE s[i] \in ItemsIn(s \o t)
      BY DEF ItemsIn
    <3>1. i \in 1 .. Len(s \o t) /\ (s \o t)[i] = s[i]
      BY <1>1
    <3>2. QED
      BY <3>1 DEF ItemsIn
  <2>3. ItemsIn(t) \subseteq ItemsIn(s \o t)
    <3> SUFFICES ASSUME NEW i \in 1 .. Len(t) PROVE t[i] \in ItemsIn(s \o t)
      BY DEF ItemsIn
    <3>1. Len(s) + i \in 1 .. Len(s \o t) /\ (s \o t)[Len(s) + i] = t[i]
      BY <1>1
    <3>2. QED
      BY <3>1 DEF ItemsIn
  <2>4. QED
    BY <2>1, <2>2, <2>3
<1>7. QED
  BY <1>1, <1>5, <1>6

\* The items of a push
LEMMA FreshItems ==
  ASSUME NEW n \in 0 .. 2, NEW p \in Nat, NEW q, q = [j \in 1 .. n |-> p + j]
  PROVE  /\ q \in Seq(Nat) /\ Consecutive(q)
         /\ \A x \in ItemsIn(q) : p < x /\ x <= p + n
<1>1. q \in Seq(Nat) /\ Len(q) = n /\ \A j \in 1 .. n : q[j] = p + j
  OBVIOUS
<1>2. \A j \in 1 .. n : q[j] = q[1] + (j - 1)
  BY <1>1
<1>3. QED
  BY <1>1, <1>2 DEF Consecutive, ItemsIn

-----------------------------------------------------------------------------
(* Types, and what the nodes do to the data.                               *)

StreamTypes ==
  /\ push_data \in [Feeds -> Seq(Nat)] /\ push_toggle \in BOOLEAN
  /\ notified \subseteq Sources /\ pushed \in Nat
  /\ data = [n \in VecNodes |-> data[n]]
  /\ \A n \in Feeds \cup {Drain, Total} : data[n] \in Seq(Nat)
  /\ toggle \in BOOLEAN /\ from_a \in BOOLEAN /\ by_value \in BOOLEAN
  /\ sent \in Seq(Nat) /\ emitted \in Seq(Nat)

\* A feed, or Toggle, takes what was pushed.
LEMMA PushFacts ==
  ASSUME StreamTypes, phase = "node", RunPush
  PROVE  /\ current \in Sources /\ ReturnBroadcast
         /\ UNCHANGED <<notified, pushed, from_a, by_value, out_vars>>
         /\ toggle' \in BOOLEAN /\ push_toggle' \in BOOLEAN
         /\ data' = [n \in VecNodes |-> data'[n]]
         /\ \A n \in VecNodes \ {current} : data'[n] = data[n]
         /\ push_data' \in [Feeds -> Seq(Nat)]
         /\ \A f \in Feeds \ {current} : push_data'[f] = push_data[f]
         /\ current \in Feeds =>
              data'[current] = push_data[current] /\ push_data'[current] = <<>>
<1>1. CASE current \in Feeds
  <2>1. /\ data' = [data EXCEPT ![current] = push_data[current]]
        /\ push_data' = [push_data EXCEPT ![current] = <<>>]
        /\ UNCHANGED <<toggle, push_toggle>>
    BY <1>1, Apart DEF RunPush, Feeds
  <2>2. current \in VecNodes
    BY <1>1 DEF VecNodes
  <2>3. data' = [n \in VecNodes |-> data'[n]]
    BY <2>1 DEF StreamTypes
  <2>4. /\ data'[current] = push_data[current]
        /\ \A n \in VecNodes \ {current} : data'[n] = data[n]
    BY <2>1, <2>2 DEF StreamTypes
  <2>5. /\ push_data' \in [Feeds -> Seq(Nat)] /\ push_data'[current] = <<>>
        /\ \A f \in Feeds \ {current} : push_data'[f] = push_data[f]
    BY <1>1, <2>1, NoItems DEF StreamTypes
  <2>6. QED
    BY <1>1, <2>1, <2>3, <2>4, <2>5 DEF RunPush, StreamTypes, Sources
<1>2. CASE current \notin Feeds
  BY <1>2 DEF RunPush, StreamTypes, Sources
<1>3. QED
  BY <1>1, <1>2

\* Drain takes the items of the selected feed, or does not look.
LEMMA TakeFacts ==
  ASSUME StreamTypes, phase = "node", RunTake
  PROVE  /\ current = Drain
         /\ ReturnBroadcast \/ ReturnUnchanged
         /\ UNCHANGED <<push_vars, toggle, by_value>>
         /\ from_a' \in BOOLEAN
         /\ data' = [n \in VecNodes |-> data'[n]]
         /\ \/ /\ ReturnBroadcast
               /\ \E f \in Feeds :
                    /\ data'[Drain] = data[f] /\ data'[f] = <<>>
                    /\ \A n \in VecNodes \ {Drain, f} : data'[n] = data[n]
                    /\ sent' = data[f] /\ emitted' = emitted \o data[f]
            \/ /\ ReturnUnchanged /\ UNCHANGED out_vars
               /\ \A n \in VecNodes \ {Drain} : data'[n] = data[n]
               /\ data'[Drain] \in Seq(Nat)
<1>1. /\ current = Drain /\ UNCHANGED <<push_vars, toggle, by_value>>
      /\ from_a' \in BOOLEAN
  BY DEF RunTake, TakesA, StreamTypes
<1>2. CASE Takes
  <2>1. PICK f \in Feeds : f = Input(TakesA)
    BY DEF Input, Feeds
  <2>2. /\ data' = [data EXCEPT ![Drain] = data[f], ![f] = <<>>]
        /\ IF by_value \/ data'[Drain] # <<>>
             THEN /\ ReturnBroadcast
                  /\ sent' = data'[Drain] /\ emitted' = emitted \o data'[Drain]
             ELSE ReturnUnchanged /\ UNCHANGED out_vars
    BY <1>2, <2>1 DEF RunTake, Taken
  <2>3. f \in VecNodes /\ Drain \in VecNodes /\ f # Drain
    BY Apart DEF VecNodes, Feeds
  <2>4. /\ data' = [n \in VecNodes |-> data'[n]]
        /\ data'[Drain] = data[f] /\ data'[f] = <<>>
        /\ \A n \in VecNodes \ {Drain, f} : data'[n] = data[n]
    BY <2>2, <2>3 DEF StreamTypes
  <2>5. data[f] \in Seq(Nat)
    BY DEF StreamTypes
  <2>6. CASE by_value \/ data'[Drain] # <<>>
    BY <1>1, <2>2, <2>4, <2>6
  <2>7. CASE ~ (by_value \/ data'[Drain] # <<>>)
    <3>1. data[f] = <<>>
      BY <2>4, <2>7
    <3>2. \A n \in VecNodes \ {Drain} : data'[n] = data[n]
      BY <2>4, <3>1
    <3>3. QED
      BY <1>1, <2>2, <2>4, <2>5, <2>7, <3>2
  <2>8. QED
    BY <2>6, <2>7
<1>3. CASE ~ Takes
  BY <1>1, <1>3 DEF RunTake, StreamTypes
<1>4. QED
  BY <1>2, <1>3

\* A transform computes its output.
LEMMA TransformFacts ==
  ASSUME StreamTypes, phase = "node", RunTransform
  PROVE  /\ current \in Transforms
         /\ ReturnBroadcast \/ ReturnUnchanged
         /\ UNCHANGED <<push_vars, toggle, from_a, by_value, out_vars>>
         /\ data' = [n \in VecNodes |-> data'[n]]
         /\ data'[current] = Output(current)
         /\ \A n \in VecNodes \ {current} : data'[n] = data[n]
         /\ ReturnUnchanged => current \notin {Total, PerBatch} /\ data'[current] = <<>>
<1>1. /\ current \in Transforms
      /\ data' = [data EXCEPT ![current] = Output(current)]
      /\ IF current \in {Total, PerBatch} \/ data'[current] # <<>>
           THEN ReturnBroadcast ELSE ReturnUnchanged
      /\ UNCHANGED <<push_vars, toggle, from_a, by_value, out_vars>>
  BY DEF RunTransform
<1>2. current \in VecNodes
  BY <1>1 DEF VecNodes
<1>3. /\ data' = [n \in VecNodes |-> data'[n]]
      /\ data'[current] = Output(current)
      /\ \A n \in VecNodes \ {current} : data'[n] = data[n]
  BY <1>1, <1>2 DEF StreamTypes
<1>4. ~ (ReturnBroadcast /\ ReturnUnchanged)
  BY DEF ReturnBroadcast, ReturnUnchanged
<1>5. QED
  BY <1>1, <1>3, <1>4

LEMMA FeedAndTotal ==
  /\ Feeds \subseteq VecNodes /\ Transforms \subseteq VecNodes
  /\ Drain \in VecNodes /\ Total \in Transforms /\ PerBatch \in Transforms
  /\ Drain \notin Feeds /\ Drain \notin Transforms /\ Feeds \cap Transforms = {}
  /\ Sources \cap Transforms = {} /\ Drain \notin Sources /\ Feeds \subseteq Sources
  /\ Total # PerBatch
BY Apart DEF VecNodes, Feeds, Transforms, Sources

LEMMA OutputsAre ==
  ASSUME StreamTypes
  PROVE  /\ Output(Total) = data[Total] \o data[Drain]
         /\ Output(Total) \in Seq(Nat)
         /\ Output(PerBatch) = data[Drain]
         /\ Output(Distinct) = FirstOfKeys(data[Drain])
         /\ Output(Kept) = Filtered(data[Drain])
<1>1. data[Total] \in Seq(Nat) /\ data[Drain] \in Seq(Nat)
  BY DEF StreamTypes
<1>2. Start(Total) = data[Total] /\ Start(PerBatch) = <<>>
  BY Apart DEF Start
<1>3. Output(Total) = Start(Total) \o data[Drain] /\ Output(PerBatch) = Start(PerBatch) \o data[Drain]
  BY Apart DEF Output
<1>4. \A s \in Seq(Nat) : <<>> \o s = s
  OBVIOUS
<1>5. /\ Output(Distinct) = FirstOfKeys(data[Drain])
      /\ Output(Kept) = Filtered(data[Drain])
  BY Apart DEF Output
<1>6. QED
  BY <1>1, <1>2, <1>3, <1>4, <1>5

LEMMA StreamTypesStep ==
  ASSUME IInv, OnceInv({}), StaticInv, StreamTypes, StreamNext
  PROVE  StreamTypes'
<1>1. ASSUME NEW f \in Feeds, NEW n \in 0 .. 2, Push(f, n) PROVE StreamTypes'
  <2>1. /\ push_data' = [push_data EXCEPT ![f] = [j \in 1 .. n |-> pushed + j]]
        /\ pushed' = pushed + n /\ notified' = notified \cup {f}
        /\ UNCHANGED <<push_toggle, data, toggle, from_a, by_value, sent, emitted>>
    BY <1>1 DEF Push, out_vars
  <2>2. PICK q : q = [j \in 1 .. n |-> pushed + j]
    OBVIOUS
  <2>3. q \in Seq(Nat)
    BY <2>2, FreshItems DEF StreamTypes
  <2>4. QED
    BY <2>1, <2>2, <2>3 DEF StreamTypes, Sources
<1>2. CASE \E b \in BOOLEAN : PushToggle(b)
  BY <1>2 DEF PushToggle, StreamTypes, Sources, out_vars
<1>3. CASE \/ BeginCycle /\ UNCHANGED stream_vars
           \/ EndLoop /\ UNCHANGED stream_vars
           \/ Moves \/ \E i \in StreamNodes : Enters(i)
  BY <1>3 DEF Moves, Enters, stream_vars, push_vars, out_vars, StreamTypes
<1>4. CASE \E i \in Index : Wakes(i)
  BY <1>4 DEF Wakes, out_vars, StreamTypes
<1>5. CASE phase = "node" /\ RunPush
  <2>1. \A n \in Feeds \cup {Drain, Total} : data'[n] \in Seq(Nat)
    BY <1>5, PushFacts, FeedAndTotal DEF StreamTypes
  <2>2. QED
    BY <1>5, <2>1, PushFacts DEF StreamTypes, out_vars
<1>6. CASE phase = "node" /\ RunTake
  <2>1. UNCHANGED <<push_data, push_toggle, notified, pushed>>
    BY <1>6, TakeFacts DEF push_vars
  <2>2. CASE ReturnUnchanged /\ UNCHANGED out_vars
             /\ (\A n \in VecNodes \ {Drain} : data'[n] = data[n])
             /\ data'[Drain] \in Seq(Nat)
    BY <1>6, <2>1, <2>2, TakeFacts, FeedAndTotal DEF StreamTypes, out_vars
  <2>3. ASSUME NEW f \in Feeds, data'[Drain] = data[f], data'[f] = <<>>,
               \A n \in VecNodes \ {Drain, f} : data'[n] = data[n],
               sent' = data[f], emitted' = emitted \o data[f]
        PROVE  StreamTypes'
    <3>1. data[f] \in Seq(Nat) /\ emitted \in Seq(Nat)
      BY DEF StreamTypes
    <3>2. emitted' \in Seq(Nat) /\ sent' \in Seq(Nat)
      BY <2>3, <3>1
    <3>3. \A n \in Feeds \cup {Drain, Total} : data'[n] \in Seq(Nat)
      BY <2>3, <3>1, FeedAndTotal, NoItems DEF StreamTypes
    <3>4. QED
      BY <1>6, <2>1, <3>2, <3>3, TakeFacts DEF StreamTypes
  <2>4. QED
    BY <1>6, <2>2, <2>3, TakeFacts
<1>7. CASE phase = "node" /\ RunTransform
  <2>1. current = Total => data'[Total] \in Seq(Nat)
    BY <1>7, TransformFacts, OutputsAre
  <2>2. \A n \in Feeds \cup {Drain, Total} : data'[n] \in Seq(Nat)
    BY <1>7, <2>1, TransformFacts, FeedAndTotal DEF StreamTypes
  <2>3. QED
    BY <1>7, <2>2, TransformFacts DEF StreamTypes, push_vars, out_vars
<1>8. QED
  BY <1>1, <1>2, <1>3, <1>4, <1>5, <1>6, <1>7, StreamKinds DEF StreamTypes, Pushes

-----------------------------------------------------------------------------
(* What runs, has run, waits and has mutated.                              *)

\* The node whose turn it is has been entered, one that broadcasts mutated,
\* and a node mutates when it returns.
TurnInv ==
  /\ phase \in {"node", "broadcast"} => current \in ran
  /\ phase = "broadcast" => HasMutated(current)
  /\ \A i \in StreamNodes : Mutated(i) => Ran(i)

\* Transforms wait and run only because Drain broadcast.
WaitInv ==
  InCycle => \A n \in Transforms : n \in ran \/ Queued(n) => HasMutated(Drain)

StreamInv ==
  /\ IInv /\ OnceInv({}) /\ StaticInv /\ StreamTypes /\ TurnInv /\ WaitInv

LEMMA ReturnFacts ==
  ASSUME IInv, ReturnBroadcast \/ ReturnUnchanged
  PROVE  /\ InCycle /\ InCycle' /\ current \in Index
         /\ UNCHANGED <<epoch, yields, current, ran, graph_vars>>
         /\ \A n : n # current => (Ran(n)' <=> Ran(n))
         /\ current \in ran => Ran(current)'
         /\ phase = "node" /\ ~ Ran(current)
         /\ \A n \in Index : n # current =>
              mut_epoch'[n] = mut_epoch[n] /\ (Mutated(n)' <=> Mutated(n))
         /\ ReturnBroadcast => mut_epoch'[current] = epoch /\ Mutated(current)'
         /\ ReturnUnchanged => mut_epoch' = mut_epoch /\ \A n : Mutated(n)' <=> Mutated(n)
         /\ \A n : Queued(n)' <=> Queued(n)
         /\ phase' # "node"
         /\ phase' = "broadcast" => ReturnBroadcast
<1>1. InCycle /\ InCycle'
  BY ReturnsChange DEF InCycle, LoopPhases
<1>2. current \in Index /\ mut_epoch \in [Index -> Nat]
  BY ReturnsChange DEF IInv, Structure, CycleInv, CurrentAtCursor, TypeOK
<1>3. /\ \A n : n # current => (Ran(n)' <=> Ran(n))
      /\ current \in ran => Ran(current)'
      /\ phase = "node" /\ ~ Ran(current)
      /\ phase' # "node"
      /\ phase' = "broadcast" => ReturnBroadcast
  BY ReturnsChange DEF Ran, Runs
<1>4. \A n : Queued(n)' <=> Queued(n)
  BY ReturnsChange, SameQueue DEF sched_vars
<1>5. UNCHANGED <<epoch, yields, current, ran, graph_vars>>
  BY ReturnsChange
<1>6. CASE ReturnBroadcast
  <2>1. /\ mut_epoch'[current] = epoch /\ ~ ReturnUnchanged
        /\ \A n \in Index : n # current => mut_epoch'[n] = mut_epoch[n]
    BY <1>2, <1>6, ReturnsChange DEF ReturnUnchanged
  <2>2. /\ \A n \in Index : n # current => (Mutated(n)' <=> Mutated(n))
        /\ Mutated(current)'
    BY <1>1, <1>5, <2>1 DEF Mutated, HasMutated
  <2>3. QED
    BY <1>1, <1>2, <1>3, <1>4, <1>5, <2>1, <2>2
<1>7. CASE ~ ReturnBroadcast
  <2>1. mut_epoch' = mut_epoch /\ \A n : Mutated(n)' <=> Mutated(n)
    BY <1>1, <1>5, <1>7, ReturnsChange DEF Mutated, HasMutated
  <2>2. QED
    BY <1>1, <1>2, <1>3, <1>4, <1>5, <1>7, <2>1
<1>8. QED
  BY <1>6, <1>7

LEMMA EnterFacts ==
  ASSUME IInv, OnceInv({}), NEW i \in StreamNodes, Enters(i)
  PROVE  /\ phase = "exec" /\ phase' = "node" /\ InCycle /\ InCycle'
         /\ current' = i /\ ran' = ran \cup {i}
         /\ UNCHANGED <<mut_epoch, epoch, yields, graph_vars, stream_vars>>
         /\ Queued(i) /\ i \notin ran
         /\ \A n : Queued(n)' => Queued(n)
         /\ \A n : Ran(n)' <=> Ran(n)
         /\ \A n : Mutated(n)' <=> Mutated(n)
<1>1. /\ PopSome(i) /\ phase = "exec" /\ phase' = "node"
      /\ current' = i /\ ran' = ran \cup {i}
      /\ UNCHANGED <<mut_epoch, epoch, yields, graph_vars, stream_vars>>
  BY DEF Enters, EnterNode, node_vars, queue_vars
<1>2. InCycle /\ InCycle'
  BY <1>1 DEF InCycle, LoopPhases
<1>3. Queued(i) /\ \A n : Queued(n)' => Queued(n)
  BY <1>1, PopQueued, PopAddsNone DEF IInv, Structure, SchedInv
<1>4. i \notin ran
  BY <1>2, <1>3 DEF OnceInv, RanIsDone
<1>5. \A n : (Ran(n)' <=> Ran(n)) /\ (Mutated(n)' <=> Mutated(n))
  BY <1>1, <1>2, <1>4 DEF Ran, Runs, Mutated, HasMutated
<1>6. QED
  BY <1>1, <1>2, <1>3, <1>4, <1>5

LEMMA WakeFacts ==
  ASSUME IInv, StaticInv, TurnInv, NEW i \in Index, Wakes(i)
  PROVE  /\ InCycle /\ InCycle' /\ phase # "node"
         /\ UNCHANGED <<mut_epoch, epoch, phase, current, ran, yields, graph_vars,
                        push_data, pushed, data, sent, emitted>>
         /\ \A n : Queued(n)' => Queued(n) \/ n = i
         /\ \A n : (Ran(n)' <=> Ran(n)) /\ (Mutated(n)' <=> Mutated(n))
         /\ i \in Transforms => HasMutated(Drain)
<1>1. /\ phase \in {"notify", "broadcast"} /\ Wake(i)
      /\ UNCHANGED <<mut_epoch, epoch, phase, current, ran, yields, graph_vars,
                     push_data, pushed, data, sent, emitted>>
  BY DEF Wakes, out_vars
<1>2. InCycle /\ InCycle' /\ phase # "node"
  BY <1>1 DEF InCycle, PollPhases, LoopPhases
<1>3. \A n : Queued(n)' => Queued(n) \/ n = i
  <2>1. CASE UNCHANGED sched_vars
    BY <2>1, SameQueue DEF sched_vars
  <2>2. CASE CanSchedule(i) /\ ScheduleOk(i, depth[i])
    <3>1. depth[i] \in Depths
      BY DEF IInv, Structure, TypeOK
    <3>2. QED
      BY <2>2, <3>1, PushQueued DEF IInv, Structure, SchedInv, Queued
  <2>3. QED
    BY <1>1, <2>1, <2>2 DEF Wake, ScheduleErr
<1>4. \A n : (Ran(n)' <=> Ran(n)) /\ (Mutated(n)' <=> Mutated(n))
  BY <1>1, <1>2 DEF Ran, Runs, Mutated, HasMutated
<1>5. i \in Transforms => HasMutated(Drain)
  <2> SUFFICES ASSUME i \in Transforms PROVE HasMutated(Drain)
    OBVIOUS
  <2>1. phase = "broadcast" /\ <<current, i, "Trigger">> \in StreamEdges
    BY FeedAndTotal DEF Wakes, Triggered, StaticInv
  <2>2. current = Drain
    BY <2>1, StreamEdgesAre, FeedAndTotal
  <2>3. QED
    BY <2>1, <2>2 DEF TurnInv
<1>6. QED
  BY <1>1, <1>2, <1>3, <1>4, <1>5

LEMMA QuietFacts ==
  ASSUME Moves
  PROVE  /\ InCycle' = InCycle /\ phase # "node"
         /\ UNCHANGED <<mut_epoch, epoch, ran, current, yields, graph_vars, stream_vars>>
         /\ phase' \notin {"node", "broadcast"}
         /\ \A n : Queued(n)' <=> Queued(n)
         /\ \A n : (Ran(n)' <=> Ran(n)) /\ (Mutated(n)' <=> Mutated(n))
<1>1. \A n : Queued(n)' <=> Queued(n)
  BY SameQueue DEF Moves, sched_vars
<1>2. QED
  BY <1>1 DEF Moves, Ran, Runs, Mutated, HasMutated

\* What the beginning and the end of a cycle do
LEMMA BoundaryFacts ==
  ASSUME IInv, OnceInv({})
  PROVE  /\ BeginCycle =>
              /\ ~ InCycle /\ InCycle' /\ ran' = {} /\ phase' = "notify"
              /\ UNCHANGED <<mut_epoch, yields, graph_vars>>
              /\ \A n : ~ Queued(n)'
              /\ \A n : ~ Mutated(n)
              /\ \A n \in Index : ~ Mutated(n)'
         /\ EndLoop =>
              /\ phase = "exec" /\ phase' = "sweep" /\ ~ InCycle'
              /\ UNCHANGED <<mut_epoch, epoch, yields, graph_vars>>
              /\ \A n : ~ Queued(n)
              /\ \A n : ~ Mutated(n)'
<1>1. ASSUME BeginCycle
      PROVE  /\ ~ InCycle /\ InCycle' /\ ran' = {} /\ phase' = "notify"
             /\ UNCHANGED <<mut_epoch, yields, graph_vars>>
             /\ \A n : ~ Queued(n)'
             /\ \A n : ~ Mutated(n)
             /\ \A n \in Index : ~ Mutated(n)'
  <2>1. /\ ~ InCycle /\ InCycle' /\ ran' = {} /\ phase' = "notify"
        /\ UNCHANGED <<mut_epoch, yields, graph_vars, sched_vars>>
    BY <1>1 DEF BeginCycle, InCycle, PollPhases, LoopPhases, queue_vars, node_vars
  <2>2. \A n : ~ Queued(n)'
    BY <1>1, <2>1, EmptyNotQueued, SameQueue DEF BeginCycle, OnceInv, CursorAtRest, sched_vars
  <2>3. \A n \in Index : ~ Mutated(n)'
    BY <1>1, <2>1, EpochGrows DEF Mutated, HasMutated
  <2>4. QED
    BY <2>1, <2>2, <2>3 DEF Mutated
<1>2. ASSUME EndLoop
      PROVE  /\ phase = "exec" /\ phase' = "sweep" /\ ~ InCycle'
             /\ UNCHANGED <<mut_epoch, epoch, yields, graph_vars>>
             /\ \A n : ~ Queued(n)
             /\ \A n : ~ Mutated(n)'
  BY <1>2, LoopOver DEF EndLoop, node_vars, queue_vars, Mutated
<1>3. QED
  BY <1>1, <1>2

\* By the end of the loop every transform has run if Drain mutated.
LEMMA DrainReached ==
  ASSUME IInv, StaticInv, phase = "exec", \A n : ~ Queued(n), Mutated(Drain),
         NEW n \in Transforms
  PROVE  Ran(n)
<1>1. <<Drain, n, "Trigger">> \in edges
  BY StreamEdgesAre DEF StaticInv
<1>2. QED
  BY <1>1, TriggerReached DEF Mutated, HasMutated, Ran, Runs

\* While Drain runs no transform has run, and Drain has not mutated.
LEMMA DrainFirst ==
  ASSUME IInv, StaticInv, TurnInv, phase = "node", current = Drain
  PROVE  ~ Mutated(Drain) /\ \A n \in Transforms : n \notin ran
<1>1. \A n \in Transforms : <<Drain, n, "Trigger">> \in edges
  BY StreamEdgesAre DEF StaticInv
<1>2. Drain \in StreamNodes
  BY DEF StreamNodes, VecNodes
<1>3. QED
  BY <1>1, <1>2, EdgeOrder DEF TurnInv, Ran, Runs

\* While a transform runs Drain has mutated.
LEMMA TransformLater ==
  ASSUME WaitInv, TurnInv, phase = "node", current \in Transforms
  PROVE  Mutated(Drain)
BY DEF WaitInv, TurnInv, Mutated, InCycle, LoopPhases

LEMMA PushesKeep ==
  ASSUME Pushes
  PROVE  /\ UNCHANGED <<mut_epoch, epoch, phase, ran, current, yields, graph_vars,
                        data, sent, emitted>>
         /\ phase = "idle" /\ InCycle' = InCycle
         /\ \A n : Queued(n)' <=> Queued(n)
         /\ \A n : (Ran(n)' <=> Ran(n)) /\ (Mutated(n)' <=> Mutated(n))
<1>1. UNCHANGED <<mut_epoch, epoch, phase, ran, current, yields, graph_vars, multi_queue>>
  BY DEF Pushes, vars, sched_vars, node_vars, queue_vars, hist_vars
<1>2. phase = "idle" /\ UNCHANGED <<data, sent, emitted>>
  BY DEF Pushes, Push, PushToggle, out_vars
<1>3. \A n : Queued(n)' <=> Queued(n)
  BY <1>1, SameQueue
<1>4. QED
  BY <1>1, <1>2, <1>3 DEF Ran, Runs, Mutated, HasMutated, InCycle

\* The nodes return.
LEMMA NodeReturns ==
  ASSUME phase = "node", RunPush \/ RunTake \/ RunTransform
  PROVE  ReturnBroadcast \/ ReturnUnchanged
BY DEF RunPush, RunTake, RunTransform

LEMMA StaticStep ==
  ASSUME StreamInv, StreamNext
  PROVE  StaticInv'
<1>1. UNCHANGED <<yields, graph_vars>>
  BY StreamKinds, PushesKeep, BoundaryFacts, QuietFacts, WakeFacts, EnterFacts,
     NodeReturns, ReturnFacts DEF StreamInv, StreamTypes
<1>2. QED
  BY <1>1 DEF StreamInv, StaticInv, graph_vars

LEMMA TurnStep ==
  ASSUME StreamInv, StreamNext
  PROVE  TurnInv'
<1>0. /\ IInv /\ OnceInv({}) /\ StaticInv /\ TurnInv /\ notified \subseteq Sources
      /\ StreamNodes \subseteq Index
  BY StreamsAssumption DEF StreamInv, StreamTypes
<1>1. CASE Pushes
  BY <1>0, <1>1, PushesKeep DEF TurnInv
<1>2. CASE BeginCycle \/ EndLoop
  BY <1>0, <1>2, BoundaryFacts DEF TurnInv
<1>3. CASE Moves
  BY <1>0, <1>3, QuietFacts DEF TurnInv
<1>4. CASE \E i \in Index : Wakes(i)
  BY <1>0, <1>4, WakeFacts DEF TurnInv, HasMutated
<1>5. CASE \E i \in StreamNodes : Enters(i)
  BY <1>0, <1>5, EnterFacts DEF TurnInv
<1>6. CASE phase = "node" /\ (RunPush \/ RunTake \/ RunTransform)
  <2>1. current \in ran
    BY <1>0, <1>6 DEF TurnInv
  <2>2. \A i \in StreamNodes : Mutated(i)' => Ran(i)'
    BY <1>0, <1>6, <2>1, NodeReturns, ReturnFacts DEF TurnInv
  <2>3. phase' = "broadcast" => HasMutated(current)'
    BY <1>0, <1>6, NodeReturns, ReturnFacts DEF Mutated
  <2>4. QED
    BY <1>0, <1>6, <2>1, <2>2, <2>3, NodeReturns, ReturnFacts DEF TurnInv
<1>7. QED
  BY <1>0, <1>1, <1>2, <1>3, <1>4, <1>5, <1>6, StreamKinds

LEMMA WaitStep ==
  ASSUME StreamInv, StreamNext
  PROVE  WaitInv'
<1>0. /\ IInv /\ OnceInv({}) /\ StaticInv /\ TurnInv /\ WaitInv /\ notified \subseteq Sources
      /\ Drain \in Index
  BY InIndex DEF StreamInv, StreamTypes
<1>1. CASE Pushes
  BY <1>1, <1>0, PushesKeep DEF WaitInv, HasMutated
<1>2. CASE BeginCycle \/ EndLoop
  BY <1>0, <1>2, BoundaryFacts DEF WaitInv
<1>3. CASE Moves
  BY <1>0, <1>3, QuietFacts DEF WaitInv, HasMutated
<1>4. CASE \E i \in Index : Wakes(i)
  BY <1>0, <1>4, WakeFacts DEF WaitInv, HasMutated
<1>5. CASE \E i \in StreamNodes : Enters(i)
  BY <1>0, <1>5, EnterFacts DEF WaitInv, HasMutated
<1>6. CASE phase = "node" /\ (RunPush \/ RunTake \/ RunTransform)
  <2>1. InCycle /\ (Mutated(Drain) => Mutated(Drain)') /\ ran' = ran
        /\ \A n : Queued(n)' <=> Queued(n)
    BY <1>0, <1>6, NodeReturns, ReturnFacts
  <2>2. QED
    BY <1>0, <2>1 DEF WaitInv, Mutated
<1>7. QED
  BY <1>0, <1>1, <1>2, <1>3, <1>4, <1>5, <1>6, StreamKinds

-----------------------------------------------------------------------------
(* Every item is in one place.                                             *)

OutItems     == ItemsIn(emitted)
FeedItems(f) == ItemsIn(data[f])
PushItems(f) == ItemsIn(push_data[f])

\* The batches are runs of numbers, and what came out did so once.
BatchInv ==
  /\ NoRepeat(emitted) /\ Consecutive(sent)
  /\ \A f \in Feeds : Consecutive(data[f]) /\ Consecutive(push_data[f])

\* No item is there before it is pushed.
KnownInv ==
  /\ \A x \in OutItems : x <= pushed
  /\ \A f \in Feeds : \A x \in FeedItems(f) \cup PushItems(f) : x <= pushed

\* No item is in two places.
PlaceInv ==
  /\ \A f \in Feeds : OutItems \cap (FeedItems(f) \cup PushItems(f)) = {}
  /\ \A f, g \in Feeds : FeedItems(f) \cap PushItems(g) = {}
  /\ \A f, g \in Feeds : f # g => /\ FeedItems(f) \cap FeedItems(g) = {}
                                  /\ PushItems(f) \cap PushItems(g) = {}

OnceEach == BatchInv /\ KnownInv /\ PlaceInv

LEMMA ItemsAreNumbers ==
  ASSUME StreamTypes
  PROVE  /\ OutItems \subseteq Nat
         /\ \A f \in Feeds : FeedItems(f) \subseteq Nat /\ PushItems(f) \subseteq Nat
<1>1. \A s \in Seq(Nat) : ItemsIn(s) \subseteq Nat
  BY DEF ItemsIn
<1>2. emitted \in Seq(Nat) /\ \A f \in Feeds : data[f] \in Seq(Nat) /\ push_data[f] \in Seq(Nat)
  BY DEF StreamTypes
<1>3. QED
  BY <1>1, <1>2 DEF OutItems, FeedItems, PushItems

\* A push replaces the items of one push node by new ones.
LEMMA PushOnce ==
  ASSUME StreamTypes, OnceEach, NEW f \in Feeds, NEW n \in 0 .. 2, Push(f, n)
  PROVE  OnceEach'
<1>1. /\ push_data' = [push_data EXCEPT ![f] = [j \in 1 .. n |-> pushed + j]]
      /\ pushed' = pushed + n /\ UNCHANGED <<data, sent, emitted>>
  BY DEF Push, out_vars
<1>2. PICK q : q = [j \in 1 .. n |-> pushed + j]
  OBVIOUS
<1>3. /\ pushed \in Nat /\ q \in Seq(Nat) /\ Consecutive(q)
      /\ \A x \in ItemsIn(q) : pushed < x /\ x <= pushed + n
  BY <1>2, FreshItems DEF StreamTypes
<1>4. push_data'[f] = q /\ \A g \in Feeds \ {f} : push_data'[g] = push_data[g]
  BY <1>1, <1>2 DEF StreamTypes
<1>5. /\ OutItems' = OutItems /\ \A g \in Feeds : FeedItems(g)' = FeedItems(g)
      /\ PushItems(f)' = ItemsIn(q)
      /\ \A g \in Feeds \ {f} : PushItems(g)' = PushItems(g)
  BY <1>1, <1>4 DEF OutItems, FeedItems, PushItems
<1>6. ItemsIn(q) \subseteq Nat
  BY <1>3 DEF ItemsIn
<1>7. BatchInv'
  BY <1>1, <1>3, <1>4 DEF OnceEach, BatchInv
<1>8. KnownInv'
  <2>1. \A x \in Nat : x <= pushed => x <= pushed'
    BY <1>1, <1>3
  <2>2. \A x \in ItemsIn(q) : x <= pushed'
    BY <1>1, <1>3
  <2>3. /\ \A x \in OutItems : x <= pushed'
        /\ \A g \in Feeds : \A x \in FeedItems(g) \cup PushItems(g) : x <= pushed'
    BY <2>1, ItemsAreNumbers DEF OnceEach, KnownInv
  <2>4. QED
    BY <1>5, <2>2, <2>3 DEF KnownInv
<1>9. PlaceInv'
  <2>1. \A x \in ItemsIn(q) : ~ (x <= pushed)
    BY <1>3, <1>6
  <2>2. /\ ItemsIn(q) \cap OutItems = {}
        /\ \A g \in Feeds : ItemsIn(q) \cap FeedItems(g) = {} /\ ItemsIn(q) \cap PushItems(g) = {}
    BY <2>1 DEF OnceEach, KnownInv
  <2>3. QED
    BY <1>5, <2>2 DEF OnceEach, PlaceInv
<1>10. QED
  BY <1>7, <1>8, <1>9 DEF OnceEach

\* A push node moves its items on.
LEMMA TakePushedOnce ==
  ASSUME StreamTypes, OnceEach, phase = "node", RunPush
  PROVE  OnceEach'
<1>1. UNCHANGED <<pushed, sent, emitted>> /\ Feeds \subseteq VecNodes
  BY PushFacts, FeedAndTotal DEF out_vars
<1>2. \A g \in Feeds \ {current} : data'[g] = data[g] /\ push_data'[g] = push_data[g]
  BY <1>1, PushFacts
<1>3. current \in Feeds =>
        data'[current] = push_data[current] /\ push_data'[current] = <<>>
  BY PushFacts
<1>4. /\ OutItems' = OutItems
      /\ \A g \in Feeds \ {current} :
           FeedItems(g)' = FeedItems(g) /\ PushItems(g)' = PushItems(g)
      /\ \A g \in Feeds : g = current =>
           FeedItems(g)' = PushItems(g) /\ PushItems(g)' = {}
  BY <1>1, <1>2, <1>3, NoItems DEF OutItems, FeedItems, PushItems
<1>5. BatchInv'
  BY <1>1, <1>2, <1>3, NoItems DEF OnceEach, BatchInv
<1>6. KnownInv'
  BY <1>1, <1>4 DEF OnceEach, KnownInv
<1>7. PlaceInv'
  BY <1>4 DEF OnceEach, PlaceInv
<1>8. QED
  BY <1>5, <1>6, <1>7 DEF OnceEach

\* Drain moves the items of a feed out.
LEMMA DrainOnce ==
  ASSUME StreamTypes, OnceEach, phase = "node", RunTake
  PROVE  OnceEach'
<1>0. UNCHANGED <<push_data, pushed>> /\ Feeds \subseteq VecNodes /\ Drain \notin Feeds
  BY TakeFacts, FeedAndTotal DEF push_vars
<1>1. CASE UNCHANGED out_vars /\ \A n \in VecNodes \ {Drain} : data'[n] = data[n]
  <2>1. UNCHANGED <<sent, emitted>> /\ \A g \in Feeds : data'[g] = data[g]
    BY <1>0, <1>1 DEF out_vars
  <2>2. QED
    BY <1>0, <2>1 DEF OnceEach, BatchInv, KnownInv, PlaceInv, OutItems, FeedItems, PushItems
<1>2. ASSUME NEW f \in Feeds, data'[f] = <<>>,
             \A n \in VecNodes \ {Drain, f} : data'[n] = data[n],
             sent' = data[f], emitted' = emitted \o data[f]
      PROVE  OnceEach'
  <2>1. \A g \in Feeds \ {f} : data'[g] = data[g]
    BY <1>0, <1>2
  <2>2. /\ emitted \in Seq(Nat) /\ data[f] \in Seq(Nat) /\ NoRepeat(emitted)
        /\ Consecutive(data[f]) /\ ItemsIn(emitted) \cap ItemsIn(data[f]) = {}
    BY DEF StreamTypes, OnceEach, BatchInv, PlaceInv, OutItems, FeedItems
  <2>3. NoRepeat(emitted') /\ OutItems' = OutItems \cup FeedItems(f)
    BY <1>2, <2>2, Appending DEF OutItems, FeedItems
  <2>4. /\ FeedItems(f)' = {} /\ \A g \in Feeds \ {f} : FeedItems(g)' = FeedItems(g)
        /\ \A g \in Feeds : PushItems(g)' = PushItems(g)
    BY <1>0, <1>2, <2>1, NoItems DEF FeedItems, PushItems
  <2>5. BatchInv'
    BY <1>0, <1>2, <2>1, <2>2, <2>3, NoItems DEF OnceEach, BatchInv
  <2>6. KnownInv'
    BY <1>0, <2>3, <2>4 DEF OnceEach, KnownInv
  <2>7. PlaceInv'
    BY <2>3, <2>4 DEF OnceEach, PlaceInv
  <2>8. QED
    BY <2>5, <2>6, <2>7 DEF OnceEach
<1>3. QED
  BY <1>1, <1>2, TakeFacts

LEMMA OnceEachStep ==
  ASSUME StreamInv, OnceEach, StreamNext
  PROVE  OnceEach'
<1>0. /\ IInv /\ OnceInv({}) /\ StaticInv /\ StreamTypes /\ TurnInv
      /\ notified \subseteq Sources
  BY DEF StreamInv, StreamTypes
<1>1. ASSUME UNCHANGED <<pushed, sent, emitted, push_data>>,
             \A f \in Feeds : data'[f] = data[f]
      PROVE  OnceEach'
  BY <1>1 DEF OnceEach, BatchInv, KnownInv, PlaceInv, OutItems, FeedItems, PushItems
<1>2. CASE Pushes
  <2>1. CASE \E b \in BOOLEAN : PushToggle(b)
    BY <1>1, <2>1 DEF PushToggle, out_vars
  <2>2. QED
    BY <1>0, <1>2, <2>1, PushOnce DEF Pushes
<1>3. CASE \/ BeginCycle /\ UNCHANGED stream_vars
           \/ EndLoop /\ UNCHANGED stream_vars
           \/ Moves \/ \E i \in StreamNodes : Enters(i)
  <2>1. UNCHANGED stream_vars
    BY <1>3 DEF Moves, Enters
  <2>2. QED
    BY <1>1, <2>1 DEF stream_vars, push_vars, out_vars
<1>4. CASE \E i \in Index : Wakes(i)
  BY <1>0, <1>1, <1>4, WakeFacts
<1>5. CASE phase = "node" /\ RunPush
  BY <1>0, <1>5, TakePushedOnce
<1>6. CASE phase = "node" /\ RunTake
  BY <1>0, <1>6, DrainOnce
<1>7. CASE phase = "node" /\ RunTransform
  <2>1. \A f \in Feeds : data'[f] = data[f]
    BY <1>0, <1>7, TransformFacts, FeedAndTotal
  <2>2. QED
    BY <1>0, <1>1, <1>7, <2>1, TransformFacts DEF push_vars, out_vars
<1>8. QED
  BY <1>0, <1>2, <1>3, <1>4, <1>5, <1>6, <1>7, StreamKinds

-----------------------------------------------------------------------------
(* What a transform lacks.                                                 *)

\* Drain broadcast in this cycle, and the transform has not run yet.
Late(n) == Mutated(Drain) /\ ~ Ran(n)

\* What the transforms make of a batch
Want(n) == IF n = PerBatch THEN sent
           ELSE IF n = Distinct THEN FirstOfKeys(sent) ELSE Filtered(sent)

TotalInv == emitted = IF Late(Total) THEN data[Total] \o data[Drain] ELSE data[Total]

DerivedInv ==
  /\ Mutated(Drain) => data[Drain] = sent
  /\ \A n \in Transforms \ {Total} : Late(n) \/ data[n] = Want(n)

\* A transform broadcasts with Drain, or it has nothing to broadcast.
WithInv ==
  \A n \in Transforms :
    \/ Late(n)
    \/ mut_epoch[n] = mut_epoch[Drain]
    \/ n \notin {Total, PerBatch} /\ data[n] = <<>>

BatchesInv == TotalInv /\ DerivedInv /\ WithInv

\* Only Drain and the transforms disturb it.
LEMMA LateKeeps ==
  ASSUME StreamInv, StreamNext, ~ (phase = "node" /\ (RunTake \/ RunTransform))
  PROVE  /\ UNCHANGED <<sent, emitted>>
         /\ \A n \in Transforms \cup {Drain} :
              data'[n] = data[n] /\ mut_epoch'[n] = mut_epoch[n]
         /\ Mutated(Drain)' => Mutated(Drain)
         /\ \A n \in Transforms : Late(n)' <=> Late(n)
<1>0. /\ IInv /\ OnceInv({}) /\ StaticInv /\ StreamTypes /\ TurnInv
      /\ notified \subseteq Sources
      /\ Drain \in Index /\ Transforms \subseteq Index
  BY InIndex DEF StreamInv, StreamTypes
<1>1. CASE Pushes
  BY <1>1, PushesKeep DEF Late
<1>2. CASE BeginCycle /\ UNCHANGED stream_vars
  BY <1>0, <1>2, BoundaryFacts DEF Late, stream_vars, out_vars
<1>3. CASE EndLoop /\ UNCHANGED stream_vars
  BY <1>0, <1>3, BoundaryFacts, DrainReached DEF Late, stream_vars, out_vars
<1>4. CASE Moves
  BY <1>4, QuietFacts DEF Late, stream_vars, out_vars
<1>5. CASE \E i \in Index : Wakes(i)
  BY <1>0, <1>5, WakeFacts DEF Late
<1>6. CASE \E i \in StreamNodes : Enters(i)
  BY <1>0, <1>6, EnterFacts DEF Late, stream_vars, out_vars
<1>7. CASE phase = "node" /\ RunPush
  <2>1. /\ current \in Sources /\ UNCHANGED <<sent, emitted>>
        /\ \A n \in VecNodes \ {current} : data'[n] = data[n]
    BY <1>0, <1>7, PushFacts DEF out_vars
  <2>2. \A n \in Transforms \cup {Drain} : n # current /\ n \in VecNodes /\ n \in Index
    BY <1>0, <2>1, FeedAndTotal
  <2>3. \A n \in Transforms \cup {Drain} :
          mut_epoch'[n] = mut_epoch[n] /\ (Mutated(n)' <=> Mutated(n)) /\ (Ran(n)' <=> Ran(n))
    BY <1>0, <1>7, <2>2, NodeReturns, ReturnFacts
  <2>4. QED
    BY <2>1, <2>2, <2>3 DEF Late
<1>8. QED
  BY <1>0, <1>1, <1>2, <1>3, <1>4, <1>5, <1>6, <1>7, StreamKinds

\* Drain sends a batch, which the transforms lack then, or nothing.
LEMMA DrainSends ==
  ASSUME StreamInv, BatchesInv, phase = "node", RunTake
  PROVE  BatchesInv'
<1>0. /\ IInv /\ StaticInv /\ StreamTypes /\ TurnInv /\ current = Drain
      /\ Transforms \subseteq VecNodes /\ Drain \notin Transforms /\ Drain \notin Feeds
      /\ Feeds \cap Transforms = {} /\ Transforms \subseteq Index /\ Drain \in Index
      /\ Total \in Transforms
  BY TakeFacts, FeedAndTotal, InIndex DEF StreamInv
<1>1. ~ Mutated(Drain) /\ \A n \in Transforms : n \notin ran
  BY <1>0, DrainFirst
<1>2. /\ emitted = data[Total]
      /\ \A n \in Transforms \ {Total} : data[n] = Want(n)
      /\ \A n \in Transforms : \/ mut_epoch[n] = mut_epoch[Drain]
                               \/ n \notin {Total, PerBatch} /\ data[n] = <<>>
  BY <1>1 DEF BatchesInv, TotalInv, DerivedInv, WithInv, Late
<1>3. /\ ReturnBroadcast \/ ReturnUnchanged
      /\ ran' = ran
      /\ \A n \in Transforms : mut_epoch'[n] = mut_epoch[n]
      /\ ReturnBroadcast => Mutated(Drain)'
      /\ ReturnUnchanged => mut_epoch' = mut_epoch /\ ~ Mutated(Drain)'
  BY <1>0, <1>1, NodeReturns, ReturnFacts
<1>4. CASE ReturnUnchanged /\ UNCHANGED out_vars
           /\ \A n \in VecNodes \ {Drain} : data'[n] = data[n]
  <2>1. /\ UNCHANGED <<sent, emitted>>
        /\ \A n \in Transforms : data'[n] = data[n] /\ ~ Late(n)'
    BY <1>0, <1>3, <1>4 DEF Late, out_vars
  <2>2. QED
    BY <1>0, <1>2, <1>3, <1>4, <2>1 DEF BatchesInv, TotalInv, DerivedInv, WithInv, Want
<1>5. ASSUME ReturnBroadcast, NEW f \in Feeds, data'[Drain] = data[f],
             \A n \in VecNodes \ {Drain, f} : data'[n] = data[n],
             sent' = data[f], emitted' = emitted \o data[f]
      PROVE  BatchesInv'
  <2>1. \A n \in Transforms : data'[n] = data[n]
    BY <1>0, <1>5
  <2>2. \A n \in Transforms : Late(n)'
    BY <1>1, <1>3, <1>5 DEF Late, Ran
  <2>3. QED
    BY <1>0, <1>2, <1>5, <2>1, <2>2 DEF BatchesInv, TotalInv, DerivedInv, WithInv
<1>6. QED
  BY <1>0, <1>4, <1>5, TakeFacts

\* A transform makes up for what it lacked.
LEMMA TransformCatchesUp ==
  ASSUME StreamInv, BatchesInv, phase = "node", RunTransform
  PROVE  BatchesInv'
<1>0. /\ IInv /\ WaitInv /\ StreamTypes /\ TurnInv
      /\ Transforms \subseteq VecNodes /\ Drain \notin Transforms /\ Drain \in VecNodes
      /\ Transforms \subseteq Index /\ Drain \in Index /\ Total \in Transforms
  BY FeedAndTotal, InIndex DEF StreamInv
<1>1. /\ current \in Transforms /\ UNCHANGED <<sent, emitted>>
      /\ data'[current] = Output(current)
      /\ \A n \in VecNodes \ {current} : data'[n] = data[n]
      /\ ReturnUnchanged => current \notin {Total, PerBatch} /\ data'[current] = <<>>
  BY <1>0, TransformFacts DEF out_vars
<1>2. Mutated(Drain) /\ data[Drain] = sent
  BY <1>0, <1>1, TransformLater DEF BatchesInv, DerivedInv
<1>3. /\ ReturnBroadcast \/ ReturnUnchanged
      /\ epoch' = epoch /\ current' = current /\ current \in ran
      /\ \A n \in Transforms \cup {Drain} :
           n # current => mut_epoch'[n] = mut_epoch[n] /\ (Mutated(n)' <=> Mutated(n))
                          /\ (Ran(n)' <=> Ran(n))
      /\ ReturnBroadcast => mut_epoch'[current] = epoch
      /\ Ran(current)' /\ ~ Ran(current)
  BY <1>0, NodeReturns, ReturnFacts DEF TurnInv
<1>4. Drain # current /\ data'[Drain] = data[Drain]
  BY <1>0, <1>1
<1>5. /\ \A n \in Transforms : n = current => ~ Late(n)' /\ Late(n)
      /\ \A n \in Transforms \ {current} : (Late(n)' <=> Late(n)) /\ data'[n] = data[n]
  BY <1>0, <1>1, <1>2, <1>3, <1>4 DEF Late
<1>6. mut_epoch'[Drain] = epoch /\ (Mutated(Drain)' => data'[Drain] = sent')
  BY <1>1, <1>2, <1>3, <1>4 DEF Mutated, HasMutated
<1>7. TotalInv'
  <2>1. CASE current = Total
    BY <1>0, <1>1, <1>5, <2>1, OutputsAre DEF BatchesInv, TotalInv
  <2>2. CASE current # Total
    BY <1>0, <1>1, <1>4, <1>5, <2>2 DEF BatchesInv, TotalInv
  <2>3. QED
    BY <2>1, <2>2
<1>8. DerivedInv'
  <2>1. ASSUME NEW n \in Transforms \ {Total} PROVE Late(n)' \/ data'[n] = Want(n)'
    <3>1. Want(n)' = Want(n)
      BY <1>1 DEF Want, FirstOfKeys, Filtered
    <3>2. CASE n = current
      <4>1. Output(n) = Want(n)
        BY <1>0, <1>2, Apart, OutputsAre DEF Want, Transforms
      <4>2. QED
        BY <1>1, <3>1, <3>2, <4>1
    <3>3. CASE n # current
      BY <1>5, <3>1, <3>3 DEF BatchesInv, DerivedInv
    <3>4. QED
      BY <3>2, <3>3
  <2>2. QED
    BY <1>6, <2>1 DEF DerivedInv
<1>9. WithInv'
  <2>1. ASSUME NEW n \in Transforms
        PROVE  \/ Late(n)'
               \/ mut_epoch'[n] = mut_epoch'[Drain]
               \/ n \notin {Total, PerBatch} /\ data'[n] = <<>>
    <3>1. CASE n = current
      BY <1>1, <1>3, <1>6, <3>1
    <3>2. CASE n # current
      BY <1>3, <1>4, <1>5, <3>2 DEF BatchesInv, WithInv
    <3>3. QED
      BY <3>1, <3>2
  <2>2. QED
    BY <2>1 DEF WithInv
<1>10. QED
  BY <1>7, <1>8, <1>9 DEF BatchesInv

LEMMA BatchesStep ==
  ASSUME StreamInv, BatchesInv, StreamNext
  PROVE  BatchesInv'
<1>1. CASE ~ (phase = "node" /\ (RunTake \/ RunTransform))
  <2>1. /\ UNCHANGED <<sent, emitted>>
        /\ \A n \in Transforms \cup {Drain} :
             data'[n] = data[n] /\ mut_epoch'[n] = mut_epoch[n]
        /\ Mutated(Drain)' => Mutated(Drain)
        /\ \A n \in Transforms : Late(n)' <=> Late(n)
    BY <1>1, LateKeeps
  <2>2. \A n : Want(n)' = Want(n)
    BY <2>1 DEF Want, FirstOfKeys, Filtered
  <2>3. QED
    BY <2>1, <2>2, FeedAndTotal DEF BatchesInv, TotalInv, DerivedInv, WithInv
<1>2. QED
  BY <1>1, DrainSends, TransformCatchesUp

-----------------------------------------------------------------------------
(* The theorems.                                                           *)

\* Nothing is made of nothing.
LEMMA SelectNothing == \A S : Select(<<>>, S) = <<>>
<1> SUFFICES ASSUME NEW S PROVE Select(<<>>, S) = <<>>
  OBVIOUS
<1> DEFINE KeptAt(f, n) == IF n = 0 THEN <<>>
                          ELSE IF <<>>[n] \in S THEN Append(f[n - 1], <<>>[n]) ELSE f[n - 1]
           k == CHOOSE f : f = [n \in 0 .. Len(<<>>) |-> KeptAt(f, n)]
<1>1. \E f : f = [n \in 0 .. Len(<<>>) |-> KeptAt(f, n)]
  <2>1. [n \in 0 .. 0 |-> <<>>] = [n \in 0 .. Len(<<>>) |-> KeptAt([m \in 0 .. 0 |-> <<>>], n)]
    OBVIOUS
  <2>2. QED
    BY <2>1
<1>2. k = [n \in 0 .. Len(<<>>) |-> KeptAt(k, n)]
  BY <1>1
<1>3. Selections(<<>>, S) = k
  BY DEF Selections
<1> HIDE DEF k
<1>4. k[0] = <<>>
  BY <1>2
<1>5. QED
  BY <1>3, <1>4 DEF Select

LEMMA StreamInitAll == StreamInit => StreamInv /\ OnceEach /\ BatchesInv
<1> SUFFICES ASSUME StreamInit PROVE StreamInv /\ OnceEach /\ BatchesInv
  OBVIOUS
<1>1. /\ phase = "idle" /\ epoch = 0 /\ ran = {}
      /\ \A i \in Index : sched_epoch[i] = 0 /\ mut_epoch[i] = 0
  BY DEF StreamInit, BuiltGraph
<1>2. ~ InCycle
  BY <1>1 DEF InCycle, PollPhases, LoopPhases
<1>3. /\ \A n \in VecNodes : data[n] = <<>>
      /\ \A f \in Feeds : push_data[f] = <<>>
      /\ sent = <<>> /\ emitted = <<>> /\ pushed = 0
      /\ data = [n \in VecNodes |-> <<>>] /\ push_data = [f \in Feeds |-> <<>>]
  BY DEF StreamInit
<1>4. StreamTypes
  <2>1. /\ \A n \in Feeds \cup {Drain, Total} : data[n] \in Seq(Nat)
        /\ push_data \in [Feeds -> Seq(Nat)]
    BY <1>3, FeedAndTotal, NoItems
  <2>2. data = [n \in VecNodes |-> data[n]]
    BY <1>3
  <2>3. toggle \in BOOLEAN /\ from_a \in BOOLEAN /\ by_value \in BOOLEAN
        /\ push_toggle \in BOOLEAN /\ notified \subseteq Sources
    BY DEF StreamInit
  <2>4. QED
    BY <1>3, <2>1, <2>2, <2>3, NoItems DEF StreamTypes
<1>5. TurnInv /\ WaitInv
  BY <1>1, <1>2 DEF TurnInv, WaitInv, Mutated
<1>6. OnceEach
  BY <1>3, FeedAndTotal, NoItems
     DEF OnceEach, BatchInv, KnownInv, PlaceInv, OutItems, FeedItems, PushItems
<1>7. \A n \in Transforms : data[n] = <<>> /\ mut_epoch[n] = mut_epoch[Drain]
  BY <1>1, <1>3, FeedAndTotal, InIndex
<1>8. \A n : Want(n) = <<>>
  BY <1>3, SelectNothing DEF Want, FirstOfKeys, Filtered
<1>9. BatchesInv
  BY <1>2, <1>3, <1>7, <1>8, FeedAndTotal
     DEF BatchesInv, TotalInv, DerivedInv, WithInv, Late, Mutated
<1>10. QED
  BY <1>4, <1>5, <1>6, <1>9, StreamInitInv DEF StreamInv

LEMMA StreamAlways == StreamSpec => [](StreamInv /\ OnceEach /\ BatchesInv)
<1> DEFINE All == StreamInv /\ OnceEach /\ BatchesInv
<1>1. StreamInit => All
  BY StreamInitAll
<1>2. All /\ [StreamNext]_<<vars, stream_vars>> => All'
  <2> SUFFICES ASSUME All, [StreamNext]_<<vars, stream_vars>> PROVE All'
    OBVIOUS
  <2>0. notified \subseteq Sources
    BY DEF StreamInv, StreamTypes
  <2>1. CASE StreamNext
    <3>1. StreamInv'
      BY <2>0, <2>1, StreamStep, StepInv, StreamOnceStep, StaticStep, StreamTypesStep,
         TurnStep, WaitStep DEF StreamInv
    <3>2. QED
      BY <2>1, <3>1, OnceEachStep, BatchesStep
  <2>2. CASE UNCHANGED <<vars, stream_vars>>
    <3>1. IInv' /\ OnceInv({})'
      BY <2>2, StepInv, FrameVars DEF StreamInv
    <3>2. UNCHANGED <<multi_queue, graph, edges, depth, mut_epoch, yields, epoch,
                      phase, current, ran>>
      BY <2>2 DEF vars, sched_vars, graph_vars, node_vars, queue_vars, hist_vars
    <3>3. UNCHANGED <<push_data, push_toggle, notified, pushed, data, toggle, from_a,
                      by_value, sent, emitted>>
      BY <2>2 DEF stream_vars, push_vars, out_vars
    <3>4. \A i : (Queued(i)' <=> Queued(i)) /\ (Ran(i)' <=> Ran(i))
                 /\ (Mutated(i)' <=> Mutated(i)) /\ (HasMutated(i)' <=> HasMutated(i))
      BY <3>2, SameQueue DEF Runs, Ran, Mutated, HasMutated, InCycle
    <3>5. StaticInv' /\ StreamTypes'
      BY <3>2, <3>3 DEF StreamInv, StaticInv, StreamTypes
    <3>6. TurnInv' /\ WaitInv'
      BY <3>2, <3>4 DEF StreamInv, TurnInv, WaitInv, InCycle
    <3>7. OnceEach'
      BY <3>3 DEF OnceEach, BatchInv, KnownInv, PlaceInv, OutItems, FeedItems, PushItems
    <3>8. \A n : Want(n)' = Want(n) /\ (Late(n)' <=> Late(n))
      BY <3>3, <3>4 DEF Want, FirstOfKeys, Filtered, Late
    <3>9. BatchesInv'
      BY <3>2, <3>3, <3>4, <3>8 DEF BatchesInv, TotalInv, DerivedInv, WithInv
    <3>10. QED
      BY <3>1, <3>5, <3>6, <3>7, <3>9 DEF StreamInv
  <2>3. QED
    BY <2>1, <2>2
<1>3. QED
  BY <1>1, <1>2, PTL DEF StreamSpec

\* The stream nodes do nothing that the executor does not let its nodes do.
THEOREM StreamsAreClients == StreamSpec => [][Next]_vars
<1>1. StreamInv /\ [StreamNext]_<<vars, stream_vars>> => [Next]_vars
  BY StreamStep DEF StreamInv, StreamTypes
<1>2. QED
  BY <1>1, StreamAlways, PTL DEF StreamSpec

\* Whatever is pushed and whichever way the switch is turned, an item comes out
\* of Drain at most once, a batch in its order, and the accumulator has folded
\* in all that came out, once, in that order.
THEOREM StreamsConsumeOnce == StreamSpec => []ConsumedOnce
<1>1. StreamInv /\ OnceEach /\ BatchesInv => ConsumedOnce
  <2> SUFFICES ASSUME StreamInv, OnceEach, BatchesInv PROVE ConsumedOnce
    OBVIOUS
  <2>1. emitted \in Seq(Nat) /\ sent \in Seq(Nat)
    BY DEF StreamInv, StreamTypes
  <2>2. \A i, j \in DOMAIN emitted : emitted[i] = emitted[j] => i = j
    BY <2>1 DEF OnceEach, BatchInv, NoRepeat
  <2>3. ASSUME NEW i \in 1 .. Len(sent) - 1 PROVE sent[i + 1] = sent[i] + 1
    <3>1. /\ i \in 1 .. Len(sent) /\ i + 1 \in 1 .. Len(sent) /\ i \in Nat
          /\ 1 \in 1 .. Len(sent)
      BY <2>1
    <3>2. PICK a \in Nat : a = sent[1]
      BY <2>1, <3>1
    <3>3. sent[i] = a + (i - 1) /\ sent[i + 1] = a + ((i + 1) - 1)
      BY <3>1, <3>2 DEF OnceEach, BatchInv, Consecutive
    <3>4. QED
      BY <3>1, <3>3
  <2>4. AtRest => data[Total] = emitted
    BY DEF BatchesInv, TotalInv, Late, Mutated, InCycle, AtRest, PollPhases, LoopPhases
  <2>5. QED
    BY <2>2, <2>3, <2>4 DEF ConsumedOnce
<1>2. QED
  BY <1>1, StreamAlways, PTL

\* After every cycle the stateless transforms hold what the last batch gives,
\* and they broadcast in the cycle of that batch or have nothing to broadcast.
THEOREM StreamsDeriveFromLastBatch == StreamSpec => []DerivedFromLastBatch
<1>1. BatchesInv => DerivedFromLastBatch
  <2> SUFFICES ASSUME BatchesInv, AtRest PROVE DerivedFromLastBatch
    BY DEF DerivedFromLastBatch
  <2>1. \A n \in Transforms : ~ Late(n)
    BY DEF Late, Mutated, InCycle, AtRest, PollPhases, LoopPhases
  <2>2. \A n \in {PerBatch, Distinct, Kept} : data[n] = Want(n)
    BY <2>1, Apart DEF BatchesInv, DerivedInv, Transforms
  <2>3. QED
    BY <2>1, <2>2, Apart DEF BatchesInv, WithInv, DerivedFromLastBatch, Want
<1>2. QED
  BY <1>1, StreamAlways, PTL
=============================================================================
