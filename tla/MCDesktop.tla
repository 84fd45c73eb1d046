------------------------------ MODULE MCDesktop ------------------------------
(* Three grids, the hero on the second and a tree on the third: a treant, a  *)
(* sprout and a creep walk to and fro between grids that endRound has        *)
(* visited and others.                                                       *)
EXTENDS Desktop

CONSTANTS treant, sprout

MCDuration == [u \in {treant, sprout} |-> IF u = treant THEN 2 ELSE 1]
=============================================================================
