---------------------------- MODULE MCGameBoard ----------------------------
(* A board of 3 x 2 grids whose diamonds hold exactly as many grids as     *)
(* there are characters.                                                   *)
EXTENDS GameBoard, TLC

CONSTANTS hero1, hero2, creep1, creep2, tower

MCWalkers == {hero1, hero2}
MCCreeps == {creep1, creep2}
MCTerrain == [c \in Cells |-> IF c[1] = 1 THEN 1 ELSE 0]
MCCliffs == {<<2, 0>>} \cap Cells
MCInitial == (hero1 :> <<0, 0>>) @@ (hero2 :> <<1, Height - 1>>) @@ (tower :> <<Width - 1, 0>>)
MCHeroSpawn == (hero1 :> <<0, 0>>) @@ (hero2 :> <<1, Height - 1>>)
MCCreepSpawn == [n \in MCCreeps |-> <<0, Height - 1>>]

\* The board is large enough for NobodyLost to say something, unless it is to be crowded.
ASSUME MCRoom == RoomForAll <=> Cardinality(Names) < Cardinality(Cells)

\* Line creeps are interchangeable: same spawn point, no other difference.
MCSymmetry == Permutations(MCCreeps)
=============================================================================
