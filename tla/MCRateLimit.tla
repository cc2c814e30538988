------------------------------ MODULE MCRateLimit ------------------------------
(***************************************************************************)
(* An instance of RateLimit for TLC: two keys of one merchant with two     *)
(* limits (one of them the default), and a key that was deactivated. Three *)
(* requests exceed each limit, and the window of two units opens again     *)
(* before MaxTime. Two faults let a request that was counted twice still   *)
(* go uncounted.                                                           *)
(***************************************************************************)
EXTENDS RateLimit, TLC

CONSTANTS r1, r2, r3, shop

ThreeRequests == {r1, r2, r3}
Keys ==
    [strict  |-> [merchant |-> shop, active |-> TRUE,  limit |-> 1],
     default |-> [merchant |-> shop, active |-> TRUE,  limit |-> 0],
     revoked |-> [merchant |-> shop, active |-> FALSE, limit |-> 1]]
Symmetry == Permutations(ThreeRequests)
==============================================================================
