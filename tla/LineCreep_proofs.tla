--------------------------- MODULE LineCreep_proofs ---------------------------
(***************************************************************************)
(* Proofs about LineCreep, for every board, price and number of points: on *)
(* what a line creep spends its points, and when a round of its loop leads *)
(* nowhere.  The second rests on what the loop still knows when it walks:  *)
(* the prices are those of the grid where it stands (WalkInv), and the     *)
(* enemies that are left in the queue would be found again (FoundInv).     *)
(***************************************************************************)
EXTENDS LineCreep, SequenceTheorems, WellFoundedInduction, TLAPS

-----------------------------------------------------------------------------
(* Numbers and grids.                                                      *)

\* A nonempty set of naturals has a smallest element.
LEMMA Smallest == ASSUME NEW S, S \subseteq Nat, S # {} PROVE \E x \in S : \A y \in S : x <= y
<1>. DEFINE R == OpToRel(<, Nat)
<1>1. IsWellFoundedOn(R, Nat)
  BY NatLessThanWellFounded
<1>2. PICK x \in S : \A y \in S : ~ (<<y, x>> \in R)
  BY <1>1, WFMin
<1>3. \A y \in S : ~ (y < x)
  BY <1>2 DEF OpToRel
<1>. QED  BY <1>3

LEMMA MinIsMember == ASSUME NEW S, S \subseteq Nat, S # {} PROVE Min(S) \in S
BY Smallest DEF Min

LEMMA MaxOfTwo ==
    ASSUME NEW a \in Int, NEW b \in Int
    PROVE  Max({a, b}) \in {a, b} /\ Max({a, b}) >= a /\ Max({a, b}) >= b
<1>1. \E x \in {a, b} : \A y \in {a, b} : x >= y
  OBVIOUS
<1>. QED  BY <1>1 DEF Max

\* What is left after a price is between 0 and what there was.
LEMMA LeftType == ASSUME NEW price \in Nat, TypeOK PROVE Left(price) \in 0..currentActionPoint
<1>. DEFINE a == currentActionPoint
            q == (a * Unit - price) \div Unit
            r == (a * Unit - price) % Unit
<1>1. a \in Nat /\ Unit \in Nat \ {0}
  BY LineCreepAssumption DEF TypeOK
<1>2. a * Unit \in Nat
  BY <1>1
<1>3. q \in Int /\ r \in 0..(Unit - 1) /\ a * Unit - price = Unit * q + r
  BY <1>1, <1>2
<1>4. q <= a
  BY <1>1, <1>2, <1>3, SMTT(60)
<1>. HIDE DEF q
<1>5. Max({0, q}) \in {0, q} /\ Max({0, q}) >= 0
  <2>1. 0 \in Int /\ q \in Int
    BY <1>3
  <2>. QED  BY <2>1, MaxOfTwo
<1>6. Max({0, q}) \in 0..a
  BY <1>1, <1>3, <1>4, <1>5
<1>. QED  BY <1>6 DEF Left, q

LEMMA DistanceType ==
    ASSUME NEW c \in Cells, NEW d \in Cells
    PROVE  Distance(c, d) \in Nat /\ d[1] \in Nat /\ d[2] \in Nat /\ Distance(c, c) = 0
BY GridAssumption DEF Distance, Diff, Cells, Columns, Rows

\* The scan of a search has a first grid: the nearest, of these the leftmost, of
\* these the lowest.
LEMMA ScanHasFirst ==
    ASSUME NEW centre \in Cells, NEW S, S \subseteq Cells, S # {}
    PROVE  FirstInScan(centre, S) # {}
<1>1. PICK r \in {Distance(centre, c) : c \in S} : \A y \in {Distance(centre, c) : c \in S} : r <= y
  <2>1. {Distance(centre, c) : c \in S} \subseteq Nat /\ {Distance(centre, c) : c \in S} # {}
    BY DistanceType
  <2>. QED  BY <2>1, Smallest
<1>. DEFINE G == {c \in S : Distance(centre, c) = r}
<1>2. PICK x \in {c[1] : c \in G} : \A y \in {c[1] : c \in G} : x <= y
  <2>1. {c[1] : c \in G} \subseteq Nat /\ {c[1] : c \in G} # {}
    BY <1>1, DistanceType
  <2>. QED  BY <2>1, Smallest
<1>. DEFINE H == {c \in G : c[1] = x}
<1>3. PICK z \in {c[2] : c \in H} : \A y \in {c[2] : c \in H} : z <= y
  <2>1. {c[2] : c \in H} \subseteq Nat /\ {c[2] : c \in H} # {}
    BY <1>2, DistanceType
  <2>. QED  BY <2>1, Smallest
<1>4. PICK first \in H : first[2] = z
  BY <1>3
<1>5. ASSUME NEW d \in S PROVE ScannedBefore(centre, first, d)
  <2>1. /\ Distance(centre, first) = r /\ first[1] = x /\ first[2] = z
        /\ Distance(centre, d) \in Nat /\ d[1] \in Nat /\ d[2] \in Nat
        /\ r \in Nat /\ x \in Nat /\ z \in Nat
    BY <1>4, DistanceType
  <2>2. CASE r < Distance(centre, d)
    BY <2>1, <2>2 DEF ScannedBefore
  <2>3. CASE r = Distance(centre, d)
    <3>1. d \in G /\ x <= d[1]
      BY <1>2, <2>3
    <3>2. d[1] = x => z <= d[2]
      BY <1>3, <3>1
    <3>. QED  BY <2>1, <2>3, <3>1, <3>2 DEF ScannedBefore
  <2>. QED  BY <1>1, <2>1, <2>2, <2>3
<1>. QED  BY <1>4, <1>5 DEF FirstInScan

\* A price is a natural, and that of an occupied grid is what is not reached.
LEMMA PriceType ==
    ASSUME NEW unreached \in Nat, NEW occupied, NEW start \in Cells, NEW d \in Cells
    PROVE  LET price == getLowestMoveAPConsumptionMap(PerGrid, unreached, occupied, start)[d]
           IN  price \in Nat /\ (d \in occupied /\ d # start => price = unreached)
<1>. DEFINE reach == Reachable(PerGrid, unreached, occupied, start)
            steps == {c \in reach \cap Neighbours(d) : d \in Relaxed(PerGrid, unreached, occupied, c)}
            prices == {unreached} \cup {StepCost(PerGrid, c, d) : c \in steps}
<1>1. prices \subseteq Nat
  <2>1. ASSUME NEW c \in steps PROVE StepCost(PerGrid, c, d) \in Nat
    <3>1. c \in Cells
      BY DEF Neighbours
    <3>2. Terrain[c] \in Nat /\ Terrain[d] \in Nat /\ PerGrid \in Nat
      BY <3>1, GridAssumption, LineCreepAssumption
    <3>. QED  BY <3>2 DEF StepCost
  <2>. QED  BY <2>1
<1>2. Min(prices) \in prices
  BY <1>1, MinIsMember
<1>3. d \in occupied => prices = {unreached}
  BY DEF Relaxed
<1>. QED  BY <1>1, <1>2, <1>3 DEF getLowestMoveAPConsumptionMap

-----------------------------------------------------------------------------
(* The inductive invariant.                                                *)

\* The prices that the creep has asked for when it walks.
WalkInv ==
    IF stage = "walk"
      THEN /\ currentActionPoint > 0
           /\ apMap = getLowestMoveAPConsumptionMap(PerGrid, (currentActionPoint + 1) * Unit,
                                                    Occupied, pos)
      ELSE apMap = NoMap

\* Whoever is left in the queue and on the board would be found again.
FoundInv == stage \in {"fight", "walk"} => possible \cap OnBoard \subseteq Found

IInv ==
    /\ TypeOK /\ WalkInv /\ FoundInv
    /\ stranded => stage = "look"
    /\ StrandedOnlyBroke

\* The map of prices is a map.
LEMMA MapIsMap ==
    ASSUME NEW unreached, NEW occupied, NEW start \in Cells
    PROVE  getLowestMoveAPConsumptionMap(PerGrid, unreached, occupied, start) # NoMap
<1>1. DOMAIN getLowestMoveAPConsumptionMap(PerGrid, unreached, occupied, start) = Cells
  BY DEF getLowestMoveAPConsumptionMap
<1>2. DOMAIN NoMap = {}
  BY DEF NoMap
<1>. QED  BY <1>1, <1>2

LEMMA FoundType == Found \subseteq Enemies
BY DEF Found, FoundAt, OnBoard

\* When enemies die, those that were found and are still on the board are found.
LEMMA FoundAgain ==
    ASSUME UNCHANGED pos, OnBoard' \subseteq OnBoard
    PROVE  Found \cap OnBoard' \subseteq Found'
<1>. SUFFICES ASSUME NEW t \in Found, t \in OnBoard' PROVE t \in Found'
  OBVIOUS
<1>1. PICK r \in 1..Sight : t \in FoundAt(r)
  BY DEF Found
<1>2. t \in FoundAt(r)'
  BY <1>1 DEF FoundAt, Hidden, Twin
<1>. QED  BY <1>2 DEF Found

LEMMA InitInv == Init => IInv
<1>. SUFFICES ASSUME Init PROVE IInv
  OBVIOUS
<1>1. TypeOK
  <2>1. MaxActionPoint \in Nat /\ Starts \subseteq Cells /\ Checkpoints \in Seq(Cells)
        /\ Life \in [Enemies -> Nat \ {0}]
    BY LineCreepAssumption
  <2>2. stage = "look" /\ apMap = NoMap /\ stranded \in BOOLEAN
    BY DEF Init
  <2>3. currentActionPoint \in 0..MaxActionPoint /\ life \in [Enemies -> Nat]
        /\ \A t \in Enemies : life[t] <= Life[t]
    BY <2>1 DEF Init
  <2>4. pos \in Cells /\ checkpoints \in Seq(Cells) /\ aim \in Enemies \cup {NoEnemy}
        /\ {seen, attackQueue, possible, pending} \subseteq SUBSET Enemies
    BY <2>1 DEF Init
  <2>. QED  BY <2>2, <2>3, <2>4 DEF TypeOK
<1>. QED  BY <1>1 DEF Init, IInv, WalkInv, FoundInv, StrandedOnlyBroke

-----------------------------------------------------------------------------
(* The steps of the loop.                                                  *)

\* Looking around: the queue is filled with what is found.
LEMMA LookInv == ASSUME IInv, Look PROVE IInv'
<1>. USE DEF Look
<1>1. TypeOK'
  BY FoundType DEF IInv, TypeOK, WalkInv
<1>2. WalkInv' /\ ~stranded'
  BY DEF IInv, WalkInv
<1>3. FoundInv'
  <2>1. Found' = Found
    BY DEF Found, FoundAt, OnBoard, Alive, Hidden, Twin
  <2>. QED  BY <2>1 DEF FoundInv
<1>. QED  BY <1>1, <1>2, <1>3 DEF IInv, StrandedOnlyBroke

LEMMA NextTargetInv == ASSUME IInv, NEW t \in Enemies, NextTarget(t) PROVE IInv'
<1>. USE DEF NextTarget
<1>1. TypeOK'
  BY DEF IInv, TypeOK
<1>2. WalkInv' /\ ~stranded'
  BY DEF IInv, WalkInv
<1>3. FoundInv'
  BY DEF IInv, FoundInv, Found, FoundAt, OnBoard, Alive, Hidden, Twin
<1>. QED  BY <1>1, <1>2, <1>3 DEF IInv, StrandedOnlyBroke

\* What an attack leaves of a life.
LEMMA LifeType ==
    ASSUME NEW l \in Nat, NEW damage \in 0..1
    PROVE  Max({0, l - damage}) \in Nat /\ Max({0, l - damage}) <= l
<1>. DEFINE rest == l - damage
<1>1. rest \in Int /\ rest <= l /\ 0 \in Int
  OBVIOUS
<1>. HIDE DEF rest
<1>2. Max({0, rest}) \in {0, rest} /\ Max({0, rest}) >= 0
  BY <1>1, MaxOfTwo
<1>3. Max({0, rest}) \in Nat /\ Max({0, rest}) <= l
  BY <1>1, <1>2
<1>. QED  BY <1>3 DEF rest

\* An attack, after which an enemy may have left the board.
LEMMA AttackInv == ASSUME IInv, NEW damage \in 0..1, Attack(damage) PROVE IInv'
<1>0. /\ stage = "fight" /\ currentActionPoint' = Left(AttackCost)
      /\ life' = [life EXCEPT ![aim] = Max({0, @ - damage})]
      /\ seen' \in SUBSET Enemies \/ UNCHANGED seen
      /\ UNCHANGED <<stage, pos, attackQueue, possible, pending, aim, checkpoints, apMap, stranded>>
  BY DEF Attack, refreshSightMaps
<1>1. aim \in Enemies /\ life \in [Enemies -> Nat] /\ life[aim] \in Nat
  BY DEF Attack, KeepsAttacking, MayAttack, OnBoard, IInv, TypeOK
<1>2. Max({0, life[aim] - damage}) \in Nat /\ Max({0, life[aim] - damage}) <= life[aim]
  BY <1>1, LifeType
<1>3. life' \in [Enemies -> Nat] /\ \A t \in Enemies : life'[t] <= life[t]
  BY <1>0, <1>1, <1>2
<1>4. currentActionPoint' \in 0..currentActionPoint
  BY <1>0, LeftType, LineCreepAssumption DEF IInv
<1>5. TypeOK'
  <2>1. currentActionPoint' \in 0..MaxActionPoint
    BY <1>4, LineCreepAssumption DEF IInv, TypeOK
  <2>2. \A t \in Enemies : life'[t] <= Life[t]
    <3>. SUFFICES ASSUME NEW t \in Enemies PROVE life'[t] <= Life[t]
      OBVIOUS
    <3>1. Life[t] \in Nat /\ life[t] \in Nat /\ life[t] <= Life[t]
      BY LineCreepAssumption DEF IInv, TypeOK
    <3>2. life'[t] \in Nat /\ life'[t] <= life[t]
      BY <1>3
    <3>. QED  BY <3>1, <3>2
  <2>3. seen' \in SUBSET Enemies
    BY <1>0 DEF IInv, TypeOK
  <2>. QED  BY <1>0, <1>3, <2>1, <2>2, <2>3 DEF IInv, TypeOK
<1>6. WalkInv' /\ ~stranded'
  BY <1>0 DEF IInv, WalkInv
<1>7. FoundInv'
  <2>1. OnBoard' \subseteq OnBoard
    <3>1. \A t \in Enemies : life'[t] > 0 => life[t] > 0
      <4>. TAKE t \in Enemies
      <4>1. life[t] \in Nat /\ life'[t] \in Nat /\ life'[t] <= life[t]
        BY <1>1, <1>3
      <4>. QED  BY <4>1
    <3>. QED  BY <3>1 DEF OnBoard, Alive
  <2>2. Found \cap OnBoard' \subseteq Found'
    BY <1>0, <2>1, FoundAgain
  <2>3. possible \cap OnBoard' \subseteq Found
    BY <1>0, <2>1 DEF IInv, FoundInv
  <2>. QED  BY <1>0, <2>2, <2>3 DEF FoundInv
<1>. QED  BY <1>5, <1>6, <1>7 DEF IInv, StrandedOnlyBroke

\* The prices are asked for.
LEMMA FightIsOverInv == ASSUME IInv, FightIsOver PROVE IInv'
<1>. USE DEF FightIsOver
<1>1. UNCHANGED <<pos, life, currentActionPoint, possible>> /\ stage = "fight" /\ apMap = NoMap
  BY DEF IInv, WalkInv
<1>2. Occupied' = Occupied /\ OnBoard' = OnBoard /\ Found' = Found
  BY <1>1 DEF Occupied, Found, FoundAt, OnBoard, Alive, Hidden, Twin
<1>3. CASE currentActionPoint > 0
  <2>1. apMap' # NoMap
    BY <1>3, MapIsMap DEF IInv, TypeOK
  <2>2. TypeOK'
    BY <1>3, <2>1 DEF IInv, TypeOK
  <2>3. WalkInv' /\ ~stranded'
    BY <1>1, <1>2, <1>3 DEF WalkInv, IInv
  <2>4. FoundInv'
    BY <1>1, <1>2 DEF FoundInv, IInv
  <2>. QED  BY <2>2, <2>3, <2>4 DEF IInv, StrandedOnlyBroke
<1>4. CASE ~(currentActionPoint > 0)
  <2>1. TypeOK' /\ WalkInv' /\ FoundInv' /\ ~stranded'
    BY <1>1, <1>4 DEF IInv, TypeOK, WalkInv, FoundInv
  <2>. QED  BY <2>1 DEF IInv, StrandedOnlyBroke
<1>. QED  BY <1>3, <1>4

\* A walk to the grid that a search has found costs points, if it takes place.
LEMMA MoveToType ==
    ASSUME IInv, stage = "walk", NEW searched \in SUBSET Cells, MoveTo(searched)
    PROVE  /\ pos' \in Cells /\ currentActionPoint' \in 0..MaxActionPoint
           /\ seen' \in SUBSET Enemies
           /\ pos' = pos => currentActionPoint' = currentActionPoint
<1>0. pos \in Cells /\ currentActionPoint \in 0..MaxActionPoint /\ seen \in SUBSET Enemies
      /\ MaxActionPoint \in Nat
  BY LineCreepAssumption DEF IInv, TypeOK
<1>1. ASSUME NEW c \in searched, Moved(c), c \notin Occupied, pos' = c,
             currentActionPoint' = Left(apMap[c])
      PROVE  pos' \in Cells /\ pos' # pos /\ currentActionPoint' \in 0..MaxActionPoint
  <2>1. (currentActionPoint + 1) * Unit \in Nat
    BY <1>0, LineCreepAssumption
  <2>2. apMap[c] \in Nat
    BY <1>0, <2>1, PriceType DEF IInv, WalkInv
  <2>3. Left(apMap[c]) \in 0..currentActionPoint
    BY <2>2, LeftType DEF IInv
  <2>. QED  BY <1>0, <1>1, <2>3 DEF Occupied
<1>2. CASE searched = {} /\ UNCHANGED <<pos, currentActionPoint, seen>>
  BY <1>0, <1>2
<1>3. ASSUME NEW c \in searched, Moved(c)
      PROVE  /\ pos' \in Cells /\ currentActionPoint' \in 0..MaxActionPoint
             /\ seen' \in SUBSET Enemies
             /\ pos' = pos => currentActionPoint' = currentActionPoint
  <2>1. seen' \in SUBSET Enemies
    BY <1>3 DEF Moved, refreshSightMaps
  <2>2. CASE UNCHANGED <<pos, currentActionPoint>>
    BY <1>0, <2>1, <2>2
  <2>3. CASE c \notin Occupied /\ pos' = c /\ currentActionPoint' = Left(apMap[c])
    BY <1>1, <1>3, <2>1, <2>3
  <2>. QED  BY <1>3, <2>2, <2>3 DEF Moved
<1>. QED  BY <1>2, <1>3 DEF MoveTo

\* With an enemy that may not be attacked the creep walks to the first affordable
\* grid of its search; if it does not, that grid costs all it has.
LEMMA ApproachInv == ASSUME IInv, Approach PROVE IInv'
<1>. DEFINE searched == Searched(pos, SearchLimit(pos))
            left == currentActionPoint * Unit
            prices == getLowestMoveAPConsumptionMap(PerGrid, left + Unit, Occupied, pos)
<1>0. /\ searched \subseteq Cells /\ MoveTo(searched) /\ stage = "walk"
      /\ stage' = "look" /\ apMap' = NoMap /\ possible' = {} /\ stranded' = (pos' = pos)
      /\ UNCHANGED <<life, attackQueue, pending, aim, checkpoints>>
  BY DEF Approach, Searched, FirstInScan, Affordable
<1>1. /\ pos' \in Cells /\ currentActionPoint' \in 0..MaxActionPoint /\ seen' \in SUBSET Enemies
      /\ pos' = pos => currentActionPoint' = currentActionPoint
  BY <1>0, MoveToType
<1>2. TypeOK'
  BY <1>0, <1>1 DEF IInv, TypeOK
<1>3. WalkInv' /\ FoundInv'
  BY <1>0 DEF WalkInv, FoundInv
<1>4. ASSUME stranded' PROVE StrandedOnlyBroke'
  <2>0. /\ pos \in Cells /\ currentActionPoint \in Nat /\ Unit \in Nat \ {0}
        /\ left \in Nat /\ left + Unit \in Nat /\ (currentActionPoint + 1) * Unit = left + Unit
    BY LineCreepAssumption DEF IInv, TypeOK
  <2>1. UNCHANGED <<pos, life, currentActionPoint>>
    BY <1>0, <1>1, <1>4
  <2>2. Occupied' = Occupied /\ Found' = Found /\ apMap = prices /\ currentActionPoint > 0
    BY <1>0, <2>0, <2>1 DEF Occupied, Found, FoundAt, OnBoard, Alive, Hidden, Twin, IInv, WalkInv
  <2>3. Found # {}
    BY <1>0 DEF Approach, Engaging, IInv, FoundInv
  <2>4. ASSUME NEW c \in Cells, Distance(pos, c) \in 1..SearchLimit(pos), prices[c] < left
        PROVE  \E d \in Cells : ScannedBefore(pos, d, c) /\ prices[d] = left
    <3>1. c \in Affordable(pos, 1..SearchLimit(pos))
      <4>1. prices[c] \in Nat
        BY <2>0, PriceType
      <4>. QED  BY <2>0, <2>2, <2>4, <4>1 DEF Affordable
    <3>2. searched # {}
      BY <2>0, <3>1, ScanHasFirst DEF Searched, Affordable
    <3>3. PICK d \in searched : Moved(d)
      BY <1>0, <3>2 DEF MoveTo
    <3>4. /\ d \in Cells /\ Distance(pos, d) \in 1..SearchLimit(pos) /\ prices[d] <= left
          /\ ScannedBefore(pos, d, c)
      BY <2>2, <3>1, <3>3 DEF Searched, FirstInScan, Affordable
    <3>5. d # pos
      BY <2>0, <3>4, DistanceType
    <3>6. d \in Occupied \/ ~(prices[d] < left)
      BY <2>1, <2>2, <3>3, <3>5 DEF Moved
    <3>7. prices[d] \in Nat /\ (d \in Occupied => prices[d] = left + Unit)
      BY <2>0, <3>4, <3>5, PriceType
    <3>8. prices[d] = left
      BY <2>0, <3>4, <3>6, <3>7
    <3>. QED  BY <3>4, <3>8
  <2>. QED  BY <2>1, <2>2, <2>3, <2>4 DEF StrandedOnlyBroke
<1>. QED  BY <1>0, <1>2, <1>3, <1>4 DEF IInv, StrandedOnlyBroke

\* What is left of the checkpoints is a sequence of checkpoints.
LEMMA AheadType == ASSUME TypeOK PROVE Ahead \in Seq(Cells)
<1>. DEFINE far == {i \in 1..Len(checkpoints) : Distance(checkpoints[i], pos) > Radius}
<1>1. checkpoints \in Seq(Cells) /\ far \subseteq Nat
  BY DEF TypeOK
<1>2. CASE far = {}
  BY <1>2 DEF Ahead
<1>3. CASE far # {}
  <2>1. Min(far) \in far
    BY <1>1, <1>3, MinIsMember
  <2>2. Min(far) \in 1..Len(checkpoints)
    BY <2>1
  <2>3. ASSUME NEW first \in 1..Len(checkpoints)
        PROVE  SubSeq(checkpoints, first, Len(checkpoints)) \in Seq(Cells)
    <3>1. /\ first \in Int /\ Len(checkpoints) \in Int
          /\ \A i \in first..Len(checkpoints) : checkpoints[i] \in Cells
      BY <1>1
    <3>. QED  BY <3>1, SubSeqProperties
  <2>. HIDE DEF far
  <2>4. Ahead = SubSeq(checkpoints, Min(far), Len(checkpoints))
    BY <1>3 DEF Ahead, far
  <2>. QED  BY <2>2, <2>3, <2>4
<1>. QED  BY <1>2, <1>3

LEMMA MarchInv == ASSUME IInv, March PROVE IInv'
<1>0. /\ checkpoints' = Ahead /\ stage = "walk" /\ stage' = "done" /\ possible' = {}
      /\ apMap' = NoMap /\ UNCHANGED <<life, attackQueue, pending, aim, stranded>>
  BY DEF March
<1>1. /\ pos' \in Cells /\ currentActionPoint' \in 0..MaxActionPoint /\ seen' \in SUBSET Enemies
  <2>1. CASE checkpoints' = << >>
    BY <2>1 DEF March, IInv, TypeOK
  <2>2. CASE checkpoints' # << >>
    <3>1. PICK searched \in SUBSET Cells : MoveTo(searched)
      BY <2>2 DEF March, Searched, FirstInScan, Affordable
    <3>. QED  BY <1>0, <3>1, MoveToType
  <2>. QED  BY <2>1, <2>2
<1>2. TypeOK'
  BY <1>0, <1>1, AheadType DEF IInv, TypeOK
<1>3. WalkInv' /\ FoundInv' /\ ~stranded'
  BY <1>0 DEF IInv, WalkInv, FoundInv
<1>. QED  BY <1>2, <1>3 DEF IInv, StrandedOnlyBroke

\* The end of a turn, and the next one: only a creep with points is stranded.
LEMMA TurnInv == ASSUME IInv, OutOfPoints \/ NextTurn PROVE IInv'
<1>. USE DEF OutOfPoints, NextTurn
<1>1. TypeOK'
  BY LineCreepAssumption DEF IInv, TypeOK, refreshSightMaps
<1>2. WalkInv' /\ FoundInv'
  BY DEF IInv, WalkInv, FoundInv
<1>3. ~stranded'
  BY DEF IInv, StrandedOnlyBroke
<1>. QED  BY <1>1, <1>2, <1>3 DEF IInv, StrandedOnlyBroke

LEMMA NextInv == IInv /\ [Next]_vars => IInv'
<1>. SUFFICES ASSUME IInv, [Next]_vars PROVE IInv'
  OBVIOUS
<1>1. CASE UNCHANGED vars
  <2>1. Occupied' = Occupied /\ Found' = Found /\ OnBoard' = OnBoard
    BY <1>1 DEF vars, Occupied, Found, FoundAt, OnBoard, Alive, Hidden, Twin
  <2>. QED  BY <1>1, <2>1 DEF vars, IInv, TypeOK, WalkInv, FoundInv, StrandedOnlyBroke
<1>. QED
  BY <1>1, LookInv, NextTargetInv, AttackInv, FightIsOverInv, ApproachInv, MarchInv, TurnInv
  DEF Next, Automation

LEMMA InductiveInv == Spec => []IInv
BY InitInv, NextInv, PTL DEF Spec

-----------------------------------------------------------------------------
(* The theorems.                                                           *)

\* Every variable keeps its type: points stay between 0 and the maximum and life
\* never grows, for every price, unit, board and cast of enemies.
THEOREM TypeCorrect == Spec => []TypeOK
<1>1. IInv => TypeOK
  BY DEF IInv
<1>. QED  BY <1>1, InductiveInv, PTL

\* A round of the loop leads nowhere only when nothing in the search is affordable,
\* or a grid before it costs exactly what is left.
THEOREM OnlyBrokeIsStranded == Spec => []StrandedOnlyBroke
<1>1. IInv => StrandedOnlyBroke
  BY DEF IInv
<1>. QED  BY <1>1, InductiveInv, PTL

\* An attack costs points, however the points that are left are rounded.
LEMMA AttackSpends ==
    ASSUME currentActionPoint \in Nat, currentActionPoint * Unit > AttackCost
    PROVE  Left(AttackCost) < currentActionPoint
<1>. DEFINE a == currentActionPoint
            q == (a * Unit - AttackCost) \div Unit
            r == (a * Unit - AttackCost) % Unit
<1>1. a \in Nat /\ Unit \in Nat \ {0} /\ AttackCost \in Nat \ {0}
  BY LineCreepAssumption
<1>2. a * Unit \in Nat /\ a * Unit - AttackCost \in Int
  BY <1>1
<1>3. q \in Int /\ r \in Nat /\ a * Unit - AttackCost = Unit * q + r
  BY <1>1, <1>2
<1>4. a # 0
  BY <1>1
<1>5. q < a
  <2>1. Unit * q < Unit * a
    BY <1>1, <1>2, <1>3
  <2>2. ASSUME q >= a PROVE FALSE
    <3>1. Unit * q >= Unit * a
      BY <1>1, <1>3, <2>2
    <3>. QED  BY <1>1, <1>3, <2>1, <3>1
  <2>. QED  BY <1>1, <1>3, <2>2
<1>. HIDE DEF q
<1>6. Max({0, q}) \in {0, q}
  <2>1. 0 \in Int /\ q \in Int
    BY <1>3
  <2>. QED  BY <2>1, MaxOfTwo
<1>7. Max({0, q}) < a
  BY <1>1, <1>3, <1>4, <1>5, <1>6
<1>. QED  BY <1>7 DEF Left, q

\* Points are spent on walks and on the target under attack, which is alive, on the
\* board, in sight and not protected at that moment; nobody else is hurt, and no hurt
\* is free.  What stays in the queue after it died, went out of sight or became
\* protected costs the creep nothing.
THEOREM StaleTargetsCostNothing == Spec => StaleTargetsSpared
<1>. DEFINE Charged ==
        currentActionPoint' < currentActionPoint =>
            \/ pos' # pos
            \/ /\ aim \in seen \cap OnBoard /\ Alive(aim)
               /\ \A g \in Guards[aim] : ~Alive(g)
     Hurt ==
        \A t \in Enemies : life'[t] # life[t] =>
            t = aim /\ pos' = pos /\ currentActionPoint' < currentActionPoint
<1>1. IInv /\ [Next]_vars => [Charged /\ Hurt]_vars
  <2>. SUFFICES ASSUME IInv, Next PROVE Charged /\ Hurt
    BY DEF vars
  <2>0. currentActionPoint \in 0..MaxActionPoint /\ MaxActionPoint \in Nat
    BY LineCreepAssumption DEF IInv, TypeOK
  <2>1. ASSUME UNCHANGED life, currentActionPoint' \in Nat,
               currentActionPoint' >= currentActionPoint \/ pos' # pos
        PROVE  Charged /\ Hurt
    BY <2>0, <2>1
  <2>2. ASSUME NEW damage \in 0..1, Attack(damage) PROVE Charged /\ Hurt
    <3>1. Charged
      BY <2>2 DEF Attack, KeepsAttacking, MayAttack
    <3>2. currentActionPoint' < currentActionPoint
      BY <2>0, <2>2, AttackSpends DEF Attack, KeepsAttacking, MayAttack
    <3>3. \A t \in Enemies : t # aim => life'[t] = life[t]
      BY <2>2 DEF Attack, IInv, TypeOK
    <3>. QED  BY <2>2, <3>1, <3>2, <3>3 DEF Attack
  <2>3. ASSUME NEW searched \in SUBSET Cells, stage = "walk", MoveTo(searched), UNCHANGED life
        PROVE  Charged /\ Hurt
    <3>1. currentActionPoint' \in Nat /\ (currentActionPoint' >= currentActionPoint \/ pos' # pos)
      BY <2>0, <2>3, MoveToType
    <3>. QED  BY <2>1, <2>3, <3>1
  <2>4. CASE Approach
    BY <2>3, <2>4 DEF Approach, Searched, FirstInScan, Affordable
  <2>5. CASE March
    <3>1. CASE checkpoints' = << >>
      BY <2>0, <2>1, <2>5, <3>1 DEF March
    <3>2. CASE checkpoints' # << >>
      BY <2>3, <2>5, <3>2 DEF March, Searched, FirstInScan, Affordable
    <3>. QED  BY <3>1, <3>2
  <2>6. CASE NextTurn
    BY <2>0, <2>1, <2>6 DEF NextTurn
  <2>7. CASE UNCHANGED <<life, currentActionPoint>>
    BY <2>0, <2>1, <2>7
  <2>. QED
    BY <2>2, <2>4, <2>5, <2>6, <2>7
    DEF Next, Automation, Look, NextTarget, FightIsOver, OutOfPoints
<1>2. [Charged /\ Hurt]_vars <=>
      [/\ currentActionPoint' < currentActionPoint =>
              \/ pos' # pos
              \/ /\ aim \in seen \cap OnBoard /\ Alive(aim)
                 /\ \A g \in Guards[aim] : ~Alive(g)
       /\ \A t \in Enemies : life'[t] # life[t] =>
              t = aim /\ pos' = pos /\ currentActionPoint' < currentActionPoint]_vars
  OBVIOUS
<1>. QED  BY <1>1, <1>2, InductiveInv, PTL DEF Spec, StaleTargetsSpared
=============================================================================
