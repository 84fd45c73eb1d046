------------------------------ MODULE MCCombat ------------------------------
(* The user fights for team 1, of which there is the ancient alone.  Team  *)
(* 2 has two towers, a barrack and its ancient, all of one front.          *)
EXTENDS Combat

CONSTANTS hero, rival, creep1, creep2, outer, inner, barrack, ancient1, ancient2

MCTeam == [n \in Characters |-> IF n \in {hero, creep1, ancient1} THEN 1 ELSE 2]

MCFront == [n \in Characters |-> IF n = ancient1 THEN 5 ELSE 0]

MCOrder == [t \in Towers |-> IF t = inner THEN 1 ELSE 0]

MCMaxHP == [n \in Characters |-> IF n = hero THEN 2 ELSE 1]

MCHPGain == [n \in Characters |-> IF n \in Heroes THEN 1 ELSE 0]

MCNoBounty == [n \in Characters |-> 0]

MCBounty == [n \in Characters |-> IF n = rival THEN 2 ELSE IF n \in Ancients THEN 0 ELSE 1]
=============================================================================
