----------------------------- MODULE Selections -----------------------------
(***************************************************************************)
(* SelectSeq() of module Sequences takes the test as an operator, about    *)
(* which the provers know nothing.  Here the items to keep are a set, and  *)
(* the selection is a recursive function, so that it can be reasoned about.*)
(***************************************************************************)
EXTENDS Naturals, Sequences

\* The items in S among the first n items of s, for every n
Selections(s, S) ==
  LET kept[n \in 0 .. Len(s)] ==
        IF n = 0 THEN <<>>
        ELSE IF s[n] \in S THEN Append(kept[n - 1], s[n]) ELSE kept[n - 1]
  IN  kept

\* The items of s that are in S, in their order
Select(s, S) == Selections(s, S)[Len(s)]
=============================================================================
