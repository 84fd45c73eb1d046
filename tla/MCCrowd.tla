------------------------------ MODULE MCCrowd ------------------------------
(* The board of MCGameBoard with one creep more than there is room for,  *)
(* and side by side with it the queue that prices the grids around a     *)
(* character, wherever others stand: part names the one that moves.  The *)
(* upper row is a hill: the grid on it that is diagonal to the start is  *)
(* priced from below before it is from the side.                         *)
EXTENDS MCGameBoard, FloodFill

CONSTANT creep3

VARIABLE part

MCCrowd == {creep1, creep2, creep3}
MCHill == [c \in Cells |-> c[2]]
MCCrowdSpawn == [n \in MCCrowd |-> <<0, Height - 1>>]
MCCrowdSymmetry == Permutations(MCCrowd)

MCAlone == [start |-> <<0, 0>>, occupied |-> {<<0, 0>>}, perGrid |-> 2, unreached |-> 3]

CrowdInit ==
    /\ part \in {"board", "prices"} /\ Init /\ FloodInit
    /\ part = "board" => call = MCAlone

CrowdNext ==
    /\ UNCHANGED part
    /\ \/ part = "board" /\ Next /\ UNCHANGED floodVars
       \/ part = "prices" /\ FloodNext /\ UNCHANGED vars

CrowdSpec == CrowdInit /\ [][CrowdNext]_<<part, vars, floodVars>>
=============================================================================
