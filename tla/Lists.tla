-------------------------------- MODULE Lists --------------------------------
(***************************************************************************)
(* What the code does with lists, as recursive functions over the length   *)
(* of the list, so that ListLemmas can say what they do for every length.  *)
(***************************************************************************)
EXTENDS Integers, Sequences

(* Array.prototype.filter, and a WHERE over an ordered table: the elements *)
(* of s that are in S, in their order.                                     *)
Filter(s, S) ==
  LET kept[n \in 0 .. Len(s)] ==
        IF n = 0 THEN <<>>
        ELSE IF s[n] \in S THEN Append(kept[n - 1], s[n]) ELSE kept[n - 1]
  IN  kept[Len(s)]

(* What a filter on timestamps asks for.                                   *)
LaterThan(t) == {s \in Int : s > t}

(* SELECT SUM(column): the sum of a list of integers.                      *)
SumOf(s) ==
  LET sum[n \in 0 .. Len(s)] == IF n = 0 THEN 0 ELSE sum[n - 1] + s[n]
  IN  sum[Len(s)]
=============================================================================
