------------------------- MODULE MCRouterLifecycle -------------------------
(* RouterLifecycle for TLC: tasks and containers are interchangeable. *)
EXTENDS RouterLifecycle, TLC

Symmetry == Permutations(Task) \union Permutations(Container)
==============================================================================
