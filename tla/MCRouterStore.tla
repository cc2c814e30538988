---------------------------- MODULE MCRouterStore ----------------------------
(***************************************************************************)
(* Instances of RouterStore for TLC. Two calls give every race between a   *)
(* result, a count and a snapshot; PersistEvery = 2 is the least at which  *)
(* a result can be unsaved between calls.                                  *)
(***************************************************************************)
EXTENDS RouterStore

CONSTANTS p1, p2, c1, c2

TwoProviders == {p1, p2}
TwoCalls == {c1, c2}
Symmetry == Permutations(TwoCalls) \cup Permutations(TwoProviders)
==============================================================================
