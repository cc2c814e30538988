--------------------------- MODULE MCProviderRouting ---------------------------
(***************************************************************************)
(* Instances of ProviderRouting for TLC. Two calls are enough for every    *)
(* race of two reports, and of a report with a filter or an admission.     *)
(***************************************************************************)
EXTENDS ProviderRouting

CONSTANTS p1, p2, c1, c2

TwoProviders == {p1, p2}
OneProvider == {p1}
TwoCalls == {c1, c2}
===============================================================================
