------------------------------- MODULE Streams -------------------------------
(***************************************************************************)
(* Streams over the executor: push nodes (testing.rs), a switch that takes *)
(* its input away (take_switch_stream_node and take_switch_node of         *)
(* wsnl/control.rs) and the transforms of wsnl/transform.rs below it.      *)
(*                                                                         *)
(*   FeedA, FeedB, Toggle -> Drain -> Total, PerBatch, Distinct, Kept       *)
(*                                                                         *)
(* An item is the number it was pushed under.  Two numbers in a row may    *)
(* have the same key, and the predicate of the filter is that the number   *)
(* is odd.  Pushes are made on the executor's thread between cycles.       *)
(***************************************************************************)
EXTENDS Executor, Selections

CONSTANTS FeedA, FeedB, Toggle, Drain, Total, PerBatch, Distinct, Kept,
          MaxPushed  \* bound: items pushed in a run

Feeds       == {FeedA, FeedB}
Transforms  == {Total, PerBatch, Distinct, Kept}
VecNodes    == Feeds \cup Transforms \cup {Drain}
StreamNodes == VecNodes \cup {Toggle}

ASSUME StreamsAssumption ==
  /\ StreamNodes \subseteq Index
  /\ FeedA # FeedB /\ Toggle # Drain
  /\ {Toggle, Drain} \cap (Feeds \cup Transforms) = {} /\ Feeds \cap Transforms = {}
  /\ Total \notin {PerBatch, Distinct, Kept}
  /\ PerBatch \notin {Distinct, Kept} /\ Distinct # Kept
  /\ MaxDepth >= 2
  /\ MaxPushed \in Nat

VARIABLES
  push_data, push_toggle, \* PushInner::data, of the feeds and of Toggle
  notified,               \* the notifications of the push nodes
  data, toggle,           \* the data of the nodes
  from_a,                 \* use_primary, captured by Drain
  by_value,               \* is Drain a take_switch_node() of whole batches?
  pushed, sent, emitted   \* history: items pushed, the batch that Drain
                          \* broadcast last, and all that it broadcast

push_vars   == <<push_data, push_toggle, notified, pushed>>
out_vars    == <<sent, emitted>>
stream_vars == <<push_vars, data, toggle, from_a, by_value, out_vars>>

StreamInit ==
  /\ by_value \in BOOLEAN
  /\ push_data = [f \in Feeds |-> <<>>] /\ push_toggle = FALSE
  /\ notified = {} /\ pushed = 0
  /\ data = [n \in VecNodes |-> <<>>] /\ toggle = FALSE
  /\ from_a = toggle
  /\ sent = <<>> /\ emitted = <<>>
  /\ BuiltGraph(StreamNodes,
                [n \in Index |-> IF n \in Transforms THEN 2 ELSE IF n = Drain THEN 1 ELSE 0],
                Triggers(Feeds \cup {Toggle}, Drain)
                \cup {Drain} \X Transforms \X {"Trigger"})
  /\ yields = {}

-----------------------------------------------------------------------------
\* PushInner::push(): what is there and was not taken is lost.
Push(f, n) ==
  /\ phase = "idle"
  /\ pushed + n <= MaxPushed
  /\ push_data' = [push_data EXCEPT ![f] = [j \in 1 .. n |-> pushed + j]]
  /\ pushed' = pushed + n
  /\ notified' = notified \cup {f}
  /\ UNCHANGED <<vars, push_toggle, data, toggle, from_a, by_value, out_vars>>

PushToggle(b) ==
  /\ phase = "idle"
  /\ push_toggle' = b
  /\ notified' = notified \cup {Toggle}
  /\ UNCHANGED <<vars, push_data, pushed, data, toggle, from_a, by_value,
                 out_vars>>

\* push_node(): the cycle function takes what was pushed, leaving the default.
RunPush ==
  /\ \/ /\ current \in Feeds
        /\ data' = [data EXCEPT ![current] = push_data[current]]
        /\ push_data' = [push_data EXCEPT ![current] = <<>>]
        /\ UNCHANGED <<toggle, push_toggle>>
     \/ /\ current = Toggle
        /\ toggle' = push_toggle
        /\ push_toggle' = FALSE
        /\ UNCHANGED <<data, push_data>>
  /\ ReturnBroadcast
  /\ UNCHANGED <<notified, pushed, from_a, by_value, out_vars>>

Input(primary) == IF primary THEN FeedA ELSE FeedB

\* A mutated switch takes precedence over the inputs.
TakesA == IF HasMutated(Toggle) THEN toggle ELSE from_a

Takes == HasMutated(Toggle) \/ HasMutated(Input(from_a))

\* Mutant: the items are cloned, and stay in the input.
Taken_Cloned(f) == [data EXCEPT ![Drain] = data[f]]

\* drain(..), mem::take()
Taken(f) == [data EXCEPT ![Drain] = data[f], ![f] = <<>>]

\* take_switch_stream_node() broadcasts only what is not empty.
RunTake ==
  /\ current = Drain
  /\ from_a' = TakesA
  /\ \/ /\ Takes
        /\ data' = Taken(Input(TakesA))
        /\ IF by_value \/ data'[Drain] # <<>>
             THEN /\ ReturnBroadcast
                  /\ sent' = data'[Drain] /\ emitted' = emitted \o data'[Drain]
             ELSE ReturnUnchanged /\ UNCHANGED out_vars
     \/ ~ Takes /\ ReturnUnchanged /\ UNCHANGED <<data, out_vars>>
  /\ UNCHANGED <<push_vars, toggle, by_value>>

KeyOf(item) == (item + 1) \div 2

\* deduplicate_stream_node(): the first item of each key
FirstOfKeys(s) ==
  Select(s, {x \in Nat : \A i, j \in DOMAIN s :
                           s[j] = x /\ i < j => KeyOf(s[i]) # KeyOf(x)})

\* filter_stream_node()
Filtered(s) == Select(s, {x \in Nat : x % 2 = 1})

\* Mutant: accumulate_stream_with_reset_node() does not reset.
Start_Kept(n) == data[n]

\* What the items are folded into: only accumulate_stream_node() goes on from
\* the batch before.
Start(n) == IF n = Total THEN data[n] ELSE <<>>

Output(n) ==
  CASE n \in {Total, PerBatch} -> Start(n) \o data[Drain]
    [] n = Distinct            -> FirstOfKeys(data[Drain])
    [] n = Kept                -> Filtered(data[Drain])

RunTransform ==
  /\ current \in Transforms
  /\ data' = [data EXCEPT ![current] = Output(current)]
  /\ IF current \in {Total, PerBatch} \/ data'[current] # <<>>
       THEN ReturnBroadcast ELSE ReturnUnchanged
  /\ UNCHANGED <<push_vars, toggle, from_a, by_value, out_vars>>

RunStreamNode == phase = "node" /\ (RunPush \/ RunTake \/ RunTransform)

\* The steps of the executor in which no node runs
StreamCycleStep ==
  /\ \/ /\ \E n \in notified : PollNotification(n) /\ notified' = notified \ {n}
     \/ /\ QuietStep \/ \E n \in StreamNodes : EnterNode(n)
        /\ phase = "notify" => notified = {}
        /\ UNCHANGED notified
  /\ UNCHANGED <<push_data, push_toggle, pushed, data, toggle, from_a, by_value,
                 out_vars>>

StreamNext ==
  \/ \E f \in Feeds, n \in 0 .. 2 : Push(f, n)
  \/ \E b \in BOOLEAN : PushToggle(b)
  \/ RunStreamNode
  \/ StreamCycleStep

StreamSpec == StreamInit /\ [][StreamNext]_<<vars, stream_vars>>

-----------------------------------------------------------------------------
\* take_switch_stream_node() consumes: whatever is pushed and whichever way
\* the switch is turned, an item comes out at most once, and the items of one
\* batch in their order; and the accumulator has folded in what came out, all
\* of it, once, and in that order.
ConsumedOnce ==
  /\ \A i, j \in DOMAIN emitted : emitted[i] = emitted[j] => i = j
  /\ \A i \in 1 .. Len(sent) - 1 : sent[i + 1] = sent[i] + 1
  /\ AtRest => data[Total] = emitted

\* After every cycle the stateless transforms hold what the batch that Drain
\* broadcast last gives, nothing of an earlier one, though their own runs and
\* those of Drain may be cycles apart, and they broadcast with it or not at all.
DerivedFromLastBatch ==
  AtRest =>
    /\ data[PerBatch] = sent
    /\ data[Distinct] = FirstOfKeys(sent)
    /\ data[Kept] = Filtered(sent)
    /\ \A n \in Transforms :
         mut_epoch[n] = mut_epoch[Drain] \/ (n \notin {Total, PerBatch} /\ data[n] = <<>>)
=============================================================================
