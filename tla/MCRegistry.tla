------------------------------ MODULE MCRegistry ------------------------------
(* Constants for the runs of module Registry. *)
EXTENDS Registry, TLC

CONSTANTS f1, f2, g1, g2, k1, new1, new2, box, local, a1, a2

MintedBy == [g \in Agents |-> IF g = g1 THEN new1 ELSE new2]

\* No file, a line nobody filled in, and a token line too many.
EnvFilesSeen == {<<>>, <<Nil>>, <<k1, Nil>>}

Shown(form, key) == [addr |-> a1, form |-> form, key |-> key]
Kept(b, l) == [n \in Names |-> IF n = local THEN l ELSE b]
FleetsSeen == {Kept(Shown("old", k1), Shown("bad", Nil))}

FrontSymmetry == Permutations(Fronts)
===============================================================================
