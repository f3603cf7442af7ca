----------------------------- MODULE MCRouting -----------------------------
EXTENDS Routing, TLC
\* the slots are alike
Symmetry == Permutations(Tasks)
(* The latest ROUTE is read only to find a Builder, and no other step nor  *)
(* property of this run depends on that.                                   *)
WithoutBuilder == <<avail, runs, weights, mode, told, frozen, canaries, routes, proc, settled, torn>>
(* Bounds: freeze records are not read where they count (see the README),  *)
(* so one is as good as two; one task at a time has been to the rung.      *)
Few == Cardinality(frozen) <= 1 /\ (\A t, u \in Tasks : t # u => Len(routes[t]) + Len(routes[u]) <= 3)
=============================================================================
