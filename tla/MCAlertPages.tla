----------------------------- MODULE MCAlertPages -----------------------------
(***************************************************************************)
(* Instances of AlertPages for TLC: a largest page of one row, and a walk  *)
(* that asks for two at a time.                                            *)
(***************************************************************************)
EXTENDS AlertPages, TLC

CONSTANTS
  o1, o2, n1, n2,
  WalkTime      (* bound: the last tick at which a walk goes on             *)

PagesSymmetry == Permutations(OnRamps) \cup Permutations(Instances)

(* What a walk sees is checked up to a time; audits, which neither see the *)
(* walk nor whether it is over, are checked up to MaxTime.                 *)
WalkBound == walk.stage = "before" \/ (walk.stage = "on" /\ now <= WalkTime)
=============================================================================
