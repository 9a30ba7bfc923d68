----------------------------- MODULE MCRouting -----------------------------
(***************************************************************************)
(* Routing for TLC.  Nothing distinguishes two IDs, two routers or two     *)
(* middlewares: CHOOSE is only applied to numbers, and all properties are  *)
(* about states and steps.                                                 *)
(***************************************************************************)
EXTENDS Routing

MCSymmetry ==
  Permutations(Ids) \cup Permutations(Routers) \cup Permutations(Middlewares)
=============================================================================
