----------------------------- MODULE MCLineCreep -----------------------------
(* A board of 4 x 3 grids with hills at its left edge: a creep of the     *)
(* other team, a tower that guards a barrack, a tree that hides the tower, *)
(* and checkpoints at two ends.  In LineCreep.cfg the points are small and *)
(* an attack costs 2 of 6; in LineCreepStuck.cfg they are those of the     *)
(* creeps of the game in 1/10000: 100 points, 50.467 for an attack and     *)
(* 9.5479 for a walk (characterConfiguration: speeds 0.9 and 325).         *)
EXTENDS LineCreep, TLC

CONSTANTS creep, tower, barrack

MCEnemies == {creep, tower, barrack}
MCEnemyAt == (creep :> <<1, 1>>) @@ (tower :> <<3, 2>>) @@ (barrack :> <<2, 2>>)
MCLife == (creep :> 2) @@ (tower :> 1) @@ (barrack :> 1)
MCGuards == (creep :> {}) @@ (tower :> {}) @@ (barrack :> {tower})
MCRemovable == {creep}
MCCheckpoints == << <<3, 2>>, <<0, 2>> >>
MCTerrain == [c \in Cells |-> IF c[1] = 0 THEN 1 ELSE 0]
MCTrees == {<<3, 0>>}
MCFriends == {<<0, 2>>}
MCStarts == {<<1, 0>>}
MCCliffs == {<<0, 1>>, <<3, 1>>}
=============================================================================
