-------------------------------- MODULE Grid --------------------------------
(***************************************************************************)
(* The rectangular board of the Android game and the two searches that     *)
(* BasicGameMaster runs over it: the diamond search for a free grid and    *)
(* the flood fill that prices the grids a character can walk to.           *)
(***************************************************************************)
EXTENDS Integers, FiniteSets, FiniteSetsExt

CONSTANTS Width,      \* GameState.gridWidth
          Height,     \* GameState.gridHeight
          Cliffs,     \* grids whose terrainType is TERRAIN_TYPE_CLIFF
          Terrain     \* height of every grid, in the unit of move costs

Columns == 0 .. (Width - 1)
Rows == 0 .. (Height - 1)

\* Every grid of the board, as a pair <<x, y>>.
Cells == Columns \X Rows

\* Java's null where an int[] position is expected.
NoCell == << >>

ASSUME GridAssumption ==
    /\ Width \in Nat \ {0}
    /\ Height \in Nat \ {0}
    /\ Cliffs \subseteq Cells
    /\ Terrain \in [Cells -> Nat]

Diff(a, b) == IF a < b THEN b - a ELSE a - b

\* Manhattan distance, the metric of every range test in BasicGameMaster.
Distance(c, d) == Diff(c[1], d[1]) + Diff(c[2], d[2])

-----------------------------------------------------------------------------
(* getNearestFreeGrid: r = 1, 2, ..., then x ascending, then the lower of  *)
(* the two grids of that column.  The centre itself is never a candidate,  *)
(* and r stops at the largest distance to an edge along one axis.          *)

SearchLimit(pos) == Max({pos[1], Width - pos[1], pos[2], Height - pos[2]})

ScannedBefore(pos, c, d) ==
    \/ Distance(pos, c) < Distance(pos, d)
    \/ /\ Distance(pos, c) = Distance(pos, d)
       /\ \/ c[1] < d[1]
          \/ c[1] = d[1] /\ c[2] <= d[2]

FreeWithinLimit(pos, occupied) ==
    {c \in Cells \ occupied : 1 <= Distance(pos, c) /\ Distance(pos, c) <= SearchLimit(pos)}

\* Mutant of getNearestFreeGrid: r < limit where r <= limit is meant.
MutantNearestFreeGrid(pos, occupied) ==
    LET candidates == {c \in FreeWithinLimit(pos, occupied) : Distance(pos, c) < SearchLimit(pos)}
    IN  IF candidates = {} THEN NoCell
        ELSE CHOOSE c \in candidates : \A d \in candidates : ScannedBefore(pos, c, d)

getNearestFreeGrid(pos, occupied) ==
    LET candidates == FreeWithinLimit(pos, occupied)
    IN  IF candidates = {} THEN NoCell
        ELSE CHOOSE c \in candidates : \A d \in candidates : ScannedBefore(pos, c, d)

-----------------------------------------------------------------------------
(* getLowestMoveAPConsumptionMap, as the fixed point its queue reaches.    *)
(* The code adds nothing to the price of the grid it comes from, so a      *)
(* grid's price is that of the cheapest single step into it.               *)

Neighbours(c) == {d \in Cells : Distance(c, d) = 1}

\* Price of the step from c to d; climbing costs extra, descending does not.
StepCost(perGrid, c, d) ==
    perGrid + (IF Terrain[d] > Terrain[c] THEN Terrain[d] - Terrain[c] ELSE 0)

\* The steps out of c that lower a price from its initial value "unreached".
Relaxed(perGrid, unreached, occupied, c) ==
    {d \in Neighbours(c) \ (occupied \cup Cliffs) : StepCost(perGrid, c, d) < unreached}

\* What is reached from start with as many steps as the number says, or fewer
Waves(perGrid, unreached, occupied, start) ==
    LET wave[k \in 0 .. (Width * Height)] ==
            IF k = 0 THEN {start}
            ELSE UNION {before \cup UNION {Relaxed(perGrid, unreached, occupied, c) : c \in before} :
                        before \in {wave[k - 1]}}
    IN  wave

\* No way needs more steps than there are grids.
Reachable(perGrid, unreached, occupied, start) ==
    Waves(perGrid, unreached, occupied, start)[Width * Height]

getLowestMoveAPConsumptionMap(perGrid, unreached, occupied, start) ==
    LET reach == Reachable(perGrid, unreached, occupied, start)
        Steps(d) == {c \in reach \cap Neighbours(d) : d \in Relaxed(perGrid, unreached, occupied, c)}
    IN  [d \in Cells |->
            IF d = start THEN 0
            ELSE Min({unreached} \cup {StepCost(perGrid, c, d) : c \in Steps(d)})]
=============================================================================
