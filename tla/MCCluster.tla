----------------------------- MODULE MCCluster -----------------------------
(* Two nodes that both activate x, which the second also spawns; the first *)
(* activates y, whose kind only the second has.  The three restarts of an  *)
(* actor are scaled down to one on the first node and none on the second.  *)
EXTENDS Cluster

CONSTANTS a, b, x, y, player, inventory

KindsMC == {player, inventory}
LocalKindsMC == [n \in Nodes |-> IF n = a THEN {player} ELSE {player, inventory}]
KindOfMC == [i \in Ids |-> IF i = x THEN player ELSE inventory]
BootstrapMC == [n \in Nodes |-> IF n = a THEN {} ELSE {a}]
RestartsMC == [n \in Nodes |-> IF n = a THEN 1 ELSE 0]
CallsMC == {[num |-> 1, node |-> a, id |-> x], [num |-> 2, node |-> b, id |-> x],
            [num |-> 3, node |-> a, id |-> y]}
DeactivateMC == {[host |-> b, id |-> x], None}
SpawnsMC == {[host |-> b, id |-> x]}
=============================================================================
