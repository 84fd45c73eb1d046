----------------------------- MODULE FloodFill -----------------------------
(***************************************************************************)
(* One call of getLowestMoveAPConsumptionMap: the queue that prices the    *)
(* grids around a character.  Grid says what comes out of it, and every    *)
(* other module takes the call as one step with that result.               *)
(***************************************************************************)
EXTENDS Grid, Sequences

CONSTANTS PerGrids,     \* values of APUsedInMovingOneGrid, in the unit of move costs
          Unreached     \* values of currentActionPoint + 1 in that unit

ASSUME FloodAssumption ==
    /\ PerGrids \subseteq Nat
    /\ Unreached \subseteq Nat \ {0}

VARIABLES call,         \* what the call is given: start, and what it reads and nobody changes
          map,          \* price of every grid
          q             \* grids whose neighbours have still to be priced

floodVars == <<call, map, q>>

Calls == [start : Cells, occupied : SUBSET Cells, perGrid : PerGrids, unreached : Unreached]

FloodInit ==
    /\ call \in {c \in Calls : c.start \in c.occupied}
    /\ map = [c \in Cells |-> IF c = call.start THEN 0 ELSE call.unreached]
    /\ q = <<call.start>>

-----------------------------------------------------------------------------
dirs == << <<-1, 0>>, <<1, 0>>, <<0, -1>>, <<0, 1>> >>

Beside(c, i) == <<c[1] + dirs[i][1], c[2] + dirs[i][2]>>

\* Mutant of Lowered: grids where somebody stands are walked through.
MutantLoweredThrough(c) ==
    {d \in ({Beside(c, i) : i \in 1..4} \cap Cells) \ Cliffs : StepCost(call.perGrid, c, d) < map[d]}

\* The grids that c has a lower price for.
Lowered(c) ==
    {d \in ({Beside(c, i) : i \in 1..4} \cap Cells) \ (call.occupied \cup Cliffs) :
        StepCost(call.perGrid, c, d) < map[d]}

\* q.add, in the order of dirs
Added(c, i) == IF Beside(c, i) \in Lowered(c) THEN <<Beside(c, i)>> ELSE << >>

\* One round of the loop.  What is added to a price is the price of one step, never
\* that of the way to the grid the step is from.
PricesNeighbours(c) ==
    /\ q # << >> /\ c = Head(q)
    /\ map' = [d \in Cells |-> IF d \in Lowered(c) THEN StepCost(call.perGrid, c, d) ELSE map[d]]
    /\ q' = Tail(q) \o Added(c, 1) \o Added(c, 2) \o Added(c, 3) \o Added(c, 4)
    /\ UNCHANGED call

FloodNext == \E c \in Cells : PricesNeighbours(c)

FloodSpec == FloodInit /\ [][FloodNext]_floodVars

-----------------------------------------------------------------------------
\* A price is never above that of a grid that is not reached.
FloodTypeOK ==
    /\ call \in Calls
    /\ map \in [Cells -> 0..call.unreached]
    /\ q \in Seq(Cells)

\* However grids are priced from one side while they wait in the queue for
\* another, what the call returns are the prices of Grid, which know no order.
PricesAreLowest ==
    q = << >> => map = getLowestMoveAPConsumptionMap(
                          call.perGrid, call.unreached, call.occupied, call.start)

\* The call returns: prices only fall, and a round that lowers none leaves one grid
\* less in the queue.
RoundsAreSpent ==
    [][/\ \A c \in Cells : map'[c] <= map[c]
       /\ map' = map => Len(q') < Len(q)]_floodVars
=============================================================================
