------------------------------ MODULE LineCreep ------------------------------
(***************************************************************************)
(* The turns of one automated line creep: the loop of autoLineCreep, which *)
(* looks for enemies, attacks what it may attack, walks when there are     *)
(* enemies it may not attack, and otherwise walks to its next checkpoint.  *)
(* Nobody else acts in its turn.  The queues of the loop are sets: their   *)
(* order decides only whom the creep attacks first, which is left open.    *)
(***************************************************************************)
EXTENDS Grid, Sequences

CONSTANTS Enemies,        \* characters of the other team on the board
          NoEnemy,        \* nobody
          EnemyAt,        \* their grids
          Life,           \* attacks with damage that an enemy survives, plus one
          Removable,      \* enemies that leave the board when they die: line creeps
          Guards,         \* the structures that protect an enemy while they stand
          Trees,          \* grids of trees
          Friends,        \* grids of the own team
          Starts,         \* where the creep may stand first
          Checkpoints,    \* grids of the checkpoints of its front, in order
          Radius,         \* Automation-Checkpoints-Radius
          Sight, MaxActionPoint,
          PerGrid,        \* APUsedInMovingOneGrid, in 1/Unit action points
          AttackCost,     \* APUsedWhenAttack, in 1/Unit action points
          Unit

ASSUME LineCreepAssumption ==
    /\ NoEnemy \notin Enemies /\ IsFiniteSet(Enemies)
    /\ EnemyAt \in [Enemies -> Cells] /\ Life \in [Enemies -> Nat \ {0}]
    /\ Removable \subseteq Enemies /\ Guards \in [Enemies -> SUBSET Enemies]
    /\ Trees \subseteq Cells /\ Friends \subseteq Cells
    /\ Starts \subseteq Cells /\ Checkpoints \in Seq(Cells)
    /\ {Radius, Sight, MaxActionPoint} \subseteq Nat
    /\ {PerGrid, AttackCost, Unit} \subseteq Nat \ {0}

VARIABLES
    stage,        \* where the loop is: "look", "fight", "walk"; "done" after it
    pos, currentActionPoint,
    life,         \* what is left of every enemy
    seen,         \* enemies on grids in the sight of the creep's team
    attackQueue,  \* attackTargetPriorityQueue, filled and never emptied
    possible,     \* possibleTargetPriorityQueue
    pending,      \* targets that the attacks of this round have not come to
    aim,          \* the target under attack
    checkpoints,  \* those that are still ahead
    apMap,        \* the prices of walks, while the creep walks
    stranded      \* did the last round of the loop end with a walk nowhere?

vars == <<stage, pos, currentActionPoint, life, seen, attackQueue, possible, pending, aim,
          checkpoints, apMap, stranded>>

NoMap == << >>

Alive(t) == life[t] > 0

OnBoard == {t \in Enemies : Alive(t) \/ t \notin Removable}

Occupied == {EnemyAt[t] : t \in OnBoard} \cup Trees \cup Friends \cup {pos}

Init ==
    /\ stage = "look" /\ pos \in Starts /\ currentActionPoint = MaxActionPoint
    /\ life = Life /\ seen \in SUBSET Enemies
    /\ attackQueue = {} /\ possible = {} /\ pending = {} /\ aim = NoEnemy
    /\ checkpoints = Checkpoints /\ apMap = NoMap /\ stranded = FALSE

\* The team sees what refreshSightMaps comes to.
refreshSightMaps == seen' \in SUBSET Enemies

-----------------------------------------------------------------------------
(* Looking for enemies.                                                    *)

\* The other grid of the same column and distance.
Twin(c) == <<c[1], 2 * pos[2] - c[2]>>

\* A tree in the lower grid of a column ends the look at that column.
Hidden(c) == c[2] > pos[2] /\ Twin(c) \in Trees

\* The enemy that is found at distance r, if any: the first one in the scan.
FoundAt(r) ==
    LET ring == {t \in OnBoard : Distance(pos, EnemyAt[t]) = r /\ ~Hidden(EnemyAt[t])}
    IN  {t \in ring : \A u \in ring : ScannedBefore(pos, EnemyAt[t], EnemyAt[u])}

Found == UNION {FoundAt(r) : r \in 1..Sight}

\* requestActionPossible of an attack by a creep: in sight, at any distance.
MayAttack(t) ==
    /\ t \in OnBoard /\ t \in seen
    /\ currentActionPoint * Unit > AttackCost
    /\ \A g \in Guards[t] : ~Alive(g)

Look ==
    /\ stage = "look" /\ currentActionPoint > 0
    /\ attackQueue' = attackQueue \cup {t \in Found : MayAttack(t)}
    /\ possible' = {t \in Found : ~MayAttack(t)}
    /\ pending' = attackQueue'
    /\ stage' = "fight" /\ stranded' = FALSE
    /\ UNCHANGED <<pos, currentActionPoint, life, seen, aim, checkpoints, apMap>>

-----------------------------------------------------------------------------
(* Attacks.                                                                *)

\* Mutant of KeepsAttacking: what is in the queue is attacked.
MutantKeepsAttacking(t) == t # NoEnemy /\ currentActionPoint * Unit > AttackCost

\* The condition of the loop of attacks on one target.
KeepsAttacking(t) == t # NoEnemy /\ MayAttack(t) /\ Alive(t)

NextTarget(t) ==
    /\ stage = "fight" /\ t \in pending /\ ~KeepsAttacking(aim)
    /\ aim' = t /\ pending' = pending \ {t}
    /\ UNCHANGED <<stage, pos, currentActionPoint, life, seen, attackQueue, possible,
                   checkpoints, apMap, stranded>>

\* Mutant of Left: the price is added.
MutantLeft(price) == (currentActionPoint * Unit + price) \div Unit

\* The points that are left after a price: the setter truncates to an int and
\* does not go below zero.
Left(price) == Max({0, (currentActionPoint * Unit - price) \div Unit})

\* attack, with the sight refreshed by a death; damage may be nothing
Attack(damage) ==
    /\ stage = "fight" /\ KeepsAttacking(aim)
    /\ currentActionPoint' = Left(AttackCost)
    /\ life' = [life EXCEPT ![aim] = Max({0, @ - damage})]
    /\ IF life'[aim] = 0 THEN refreshSightMaps ELSE UNCHANGED seen
    /\ UNCHANGED <<stage, pos, attackQueue, possible, pending, aim, checkpoints, apMap,
                   stranded>>

\* With points left the loop goes on to walk, and asks for the prices.
FightIsOver ==
    /\ stage = "fight" /\ pending = {} /\ ~KeepsAttacking(aim)
    /\ IF currentActionPoint > 0
         THEN /\ stage' = "walk"
              /\ apMap' = getLowestMoveAPConsumptionMap(
                             PerGrid, (currentActionPoint + 1) * Unit, Occupied, pos)
         ELSE stage' = "look" /\ UNCHANGED apMap
    /\ aim' = NoEnemy
    /\ UNCHANGED <<pos, currentActionPoint, life, seen, attackQueue, possible, pending,
                   checkpoints, stranded>>

-----------------------------------------------------------------------------
(* Walking.                                                                *)

Affordable(centre, distances) ==
    {c \in Cells : Distance(centre, c) \in distances /\ apMap[c] <= currentActionPoint * Unit}

FirstInScan(centre, grids) == {c \in grids : \A d \in grids : ScannedBefore(centre, c, d)}

\* Mutant of Searched: the search begins at its centre.
MutantSearched(centre, limit) ==
    FirstInScan(centre, Affordable(centre, 0..limit))

\* The grid that a search around centre finds: the first in the scan that has a
\* price within the points of the creep.
Searched(centre, limit) ==
    FirstInScan(centre, Affordable(centre, 1..limit))

\* Mutant of Moved: a walk is free.
MutantMoved(c) ==
    /\ pos' = c /\ refreshSightMaps
    /\ UNCHANGED currentActionPoint

\* move, which wants the price to be less than the points; the map that it
\* asks for is the same.
Moved(c) ==
    /\ IF c \notin Occupied /\ apMap[c] < currentActionPoint * Unit
         THEN pos' = c /\ currentActionPoint' = Left(apMap[c])
         ELSE UNCHANGED <<pos, currentActionPoint>>
    /\ refreshSightMaps

\* move to c, where searched is {c}, or nothing at all
MoveTo(searched) ==
    \/ \E c \in searched : Moved(c)
    \/ searched = {} /\ UNCHANGED <<pos, currentActionPoint, seen>>

Engaging == possible \cap OnBoard # {}

\* Every enemy left in the second queue makes the creep search around its own
\* first grid, with the points it had there: only the first search moves it.
Approach ==
    /\ stage = "walk" /\ Engaging
    /\ MoveTo(Searched(pos, SearchLimit(pos)))
    /\ stage' = "look" /\ possible' = {} /\ apMap' = NoMap /\ stranded' = (pos' = pos)
    /\ UNCHANGED <<life, attackQueue, pending, aim, checkpoints>>

\* What is left of the checkpoints, those within the radius removed.
Ahead ==
    LET far == {i \in 1..Len(checkpoints) : Distance(checkpoints[i], pos) > Radius}
    IN  IF far = {} THEN << >> ELSE SubSeq(checkpoints, Min(far), Len(checkpoints))

\* No enemy: to the next checkpoint, and that is the end of the turn.
March ==
    /\ stage = "walk" /\ ~Engaging
    /\ checkpoints' = Ahead
    /\ IF checkpoints' = << >>
         THEN UNCHANGED <<pos, currentActionPoint, seen>>
         ELSE MoveTo(Searched(checkpoints'[1], SearchLimit(checkpoints'[1]) - 1))
    /\ stage' = "done" /\ possible' = {} /\ apMap' = NoMap
    /\ UNCHANGED <<life, attackQueue, pending, aim, stranded>>

\* The condition of the loop.
OutOfPoints ==
    /\ stage = "look" /\ currentActionPoint = 0
    /\ stage' = "done"
    /\ UNCHANGED <<pos, currentActionPoint, life, seen, attackQueue, possible, pending, aim,
                   checkpoints, apMap, stranded>>

\* Its next turn, in another round: full points, new queues, other sight.
NextTurn ==
    /\ stage = "done" /\ stage' = "look"
    /\ currentActionPoint' = MaxActionPoint
    /\ attackQueue' = {} /\ possible' = {} /\ refreshSightMaps
    /\ UNCHANGED <<pos, life, pending, aim, checkpoints, apMap, stranded>>

Automation ==
    \/ Look \/ FightIsOver \/ Approach \/ March \/ OutOfPoints
    \/ \E t \in Enemies : NextTarget(t)
    \/ \E damage \in 0..1 : Attack(damage)

Next == Automation \/ NextTurn

\* The thread of the creep runs, and its turn comes again.
Spec == Init /\ [][Next]_vars /\ WF_vars(Automation) /\ WF_vars(NextTurn)

-----------------------------------------------------------------------------
TypeOK ==
    /\ stage \in {"look", "fight", "walk", "done"}
    /\ pos \in Cells /\ currentActionPoint \in 0..MaxActionPoint
    /\ life \in [Enemies -> Nat] /\ \A t \in Enemies : life[t] <= Life[t]
    /\ {seen, attackQueue, possible, pending} \subseteq SUBSET Enemies
    /\ aim \in Enemies \cup {NoEnemy}
    /\ checkpoints \in Seq(Cells) /\ stranded \in BOOLEAN
    /\ stage = "walk" <=> apMap # NoMap

\* The queue of targets is never cleared, and the sight, the board and the points
\* change while it is worked off: points are only spent on a walk or on the target
\* under attack if it is alive, on the board, in sight and not protected, and only
\* that target is hurt, never for nothing.
StaleTargetsSpared ==
    [][/\ currentActionPoint' < currentActionPoint =>
              \/ pos' # pos
              \/ /\ aim \in seen \cap OnBoard /\ Alive(aim)
                 /\ \A g \in Guards[aim] : ~Alive(g)
       /\ \A t \in Enemies : life'[t] # life[t] =>
              t = aim /\ pos' = pos /\ currentActionPoint' < currentActionPoint]_vars

\* A round of the loop leads nowhere only when an enemy is around that cannot be
\* attacked, and no walk within the search is affordable, or one is but the search has
\* found a grid before it that costs exactly what is left: it asks for <=, move for <.
StrandedOnlyBroke ==
    stranded =>
        /\ currentActionPoint > 0 /\ Found # {}
        /\ LET left == currentActionPoint * Unit
               prices == getLowestMoveAPConsumptionMap(PerGrid, left + Unit, Occupied, pos)
           IN  \A c \in Cells :
                  Distance(pos, c) \in 1..SearchLimit(pos) /\ prices[c] < left =>
                      \E d \in Cells : ScannedBefore(pos, d, c) /\ prices[d] = left

\* Every other round of the loop of autoLineCreep spends points, so that its turn
\* ends.
EndsUnlessStranded == stage = "look" ~> stage = "done" \/ stranded

\* "force nextRound" (GameState.nextTurn): after the automation of a character
\* the turn is handed on, so that the automation comes to an end.
TurnEnds == stage = "look" ~> stage = "done"
=============================================================================
