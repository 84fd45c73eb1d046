------------------------------- MODULE MCWaves -------------------------------
(* Two fronts with two barracks each; waves in every second round, a level *)
(* up in every third, siege creeps in the eighth.                          *)
EXTENDS Waves

MCInitial == [s \in Species |-> IF s = "melee" THEN 3 ELSE 1]

MCMaximum == [s \in Species |-> IF s = "melee" THEN 5 ELSE 2]

MCIncreaseEvery == [s \in Species |-> IF s = "melee" THEN 3 ELSE 5]
=============================================================================
