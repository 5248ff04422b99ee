--------------------------- MODULE MCEngineTree ---------------------------
(* Values for TLC: a category of three engines, one of one, one of none. *)
EXTENDS EngineTree, TLC

CONSTANTS c1, c2, c3, e1, e2, e3, e4

MCCategories == {c1, c2, c3}
MCEngines == {e1, e2, e3, e4}
MCParent == [e \in {e1, e2, e3} |-> c1] @@ [e \in {e4} |-> c2]
Symmetry == Permutations({e1, e2, e3})
===========================================================================
