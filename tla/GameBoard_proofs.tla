--------------------------- MODULE GameBoard_proofs ---------------------------
(***************************************************************************)
(* Proofs about GameBoard, for every board and every cast of characters,   *)
(* and about FloodFill, which prices its moves.  The queue of FloodFill    *)
(* comes to the prices of Grid because                                     *)
(*  - the waves of Grid come to an end: the grids are as many as there are *)
(*    waves, and a wave that reaches no new grid is the last one           *)
(*    (ReachableIsClosed, ReachableIsLeast);                               *)
(*  - a grid with a price waits in the queue or has no lower price for a   *)
(*    neighbour, and every price is that of a step out of a grid with a    *)
(*    price (FloodInv), so that an empty queue leaves nothing to lower.    *)
(***************************************************************************)
EXTENDS GameBoard, FloodFill, FiniteSetTheorems, FunctionTheorems, SequenceTheorems,
        WellFoundedInduction, TLAPS

-----------------------------------------------------------------------------
(* Smallest elements.                                                      *)

\* A nonempty set of naturals has a smallest element: the loops of the two
\* searches, which run upwards, stop at it.
LEMMA SmallestExists ==
    ASSUME NEW S, S \subseteq Nat, S # {}
    PROVE  \E x \in S : \A y \in S : x <= y
<1> DEFINE R == OpToRel(<, Nat)
<1>1. IsWellFoundedOn(R, Nat)
  BY NatLessThanWellFounded
<1>2. PICK x \in S : \A y \in S : ~ (<<y, x>> \in R)
  BY <1>1, WFMin
<1>3. \A y \in S : ~ (y < x)
  BY <1>2 DEF OpToRel
<1> QED
  BY <1>3

\* So Min, which the prices of grids are built from, is an element of its set.
LEMMA MinOfNaturals ==
    ASSUME NEW S, S \subseteq Nat, S # {}
    PROVE  Min(S) \in S
BY SmallestExists DEF Min

\* A square of the board and its distance to another.
LEMMA DistanceType ==
    ASSUME NEW c \in Cells, NEW d \in Cells
    PROVE  /\ Distance(c, d) \in Nat
           /\ c[1] \in Nat /\ c[2] \in Nat
           /\ Distance(c, c) = 0
BY GridAssumption DEF Distance, Diff, Cells, Columns, Rows

\* getNearestFreeGrid answers null only when no grid within its limit is free;
\* otherwise it answers a free grid other than the centre.
LEMMA NearestFreeGrid ==
    ASSUME NEW pos \in Cells, NEW occupied,
           FreeWithinLimit(pos, occupied) # {}
    PROVE  getNearestFreeGrid(pos, occupied) \in FreeWithinLimit(pos, occupied)
<1> DEFINE F == FreeWithinLimit(pos, occupied)
<1>1. F \subseteq Cells
  BY DEF FreeWithinLimit
<1>2. PICK r \in {Distance(pos, c) : c \in F} : \A y \in {Distance(pos, c) : c \in F} : r <= y
  BY <1>1, DistanceType, SmallestExists
<1> DEFINE G == {c \in F : Distance(pos, c) = r}
<1>3. PICK x \in {c[1] : c \in G} : \A y \in {c[1] : c \in G} : x <= y
  <2>1. {c[1] : c \in G} \subseteq Nat
    BY <1>1, DistanceType
  <2>2. {c[1] : c \in G} # {}
    BY <1>2
  <2> QED
    BY <2>1, <2>2, SmallestExists
<1> DEFINE H == {c \in G : c[1] = x}
<1>4. PICK z \in {c[2] : c \in H} : \A y \in {c[2] : c \in H} : z <= y
  <2>1. {c[2] : c \in H} \subseteq Nat
    BY <1>1, DistanceType
  <2>2. {c[2] : c \in H} # {}
    BY <1>3
  <2> QED
    BY <2>1, <2>2, SmallestExists
<1>5. PICK best \in H : best[2] = z
  BY <1>4
<1>6. ASSUME NEW d \in F
      PROVE  ScannedBefore(pos, best, d)
  <2>1. /\ Distance(pos, best) = r /\ best[1] = x /\ best[2] = z
        /\ Distance(pos, d) \in Nat /\ d[1] \in Nat /\ d[2] \in Nat
        /\ r \in Nat /\ x \in Nat /\ z \in Nat
    BY <1>1, <1>5, DistanceType
  <2>2. r <= Distance(pos, d)
    BY <1>2
  <2>3. CASE r < Distance(pos, d)
    BY <2>1, <2>3 DEF ScannedBefore
  <2>4. CASE r = Distance(pos, d)
    <3>1. d \in G /\ x <= d[1]
      BY <1>3, <2>4
    <3>2. d[1] = x => z <= d[2]
      BY <1>4, <3>1
    <3> QED
      BY <2>1, <2>4, <3>1, <3>2 DEF ScannedBefore
  <2> QED
    BY <2>1, <2>2, <2>3, <2>4
<1>7. best \in F
  BY <1>5
<1> QED
  BY <1>6, <1>7 DEF getNearestFreeGrid

-----------------------------------------------------------------------------
(* Prices and action points.                                               *)

\* Every grid has a price; only the start is free.
LEMMA PriceType ==
    ASSUME NEW unreached \in Nat \ {0}, NEW occupied, NEW start \in Cells, NEW d \in Cells
    PROVE  LET price == getLowestMoveAPConsumptionMap(PerGrid, unreached, occupied, start)[d]
           IN  price \in Nat /\ (d # start => price > 0)
<1> DEFINE reach == Reachable(PerGrid, unreached, occupied, start)
           steps == {c \in reach \cap Neighbours(d) : d \in Relaxed(PerGrid, unreached, occupied, c)}
           prices == {unreached} \cup {StepCost(PerGrid, c, d) : c \in steps}
<1>1. prices \subseteq Nat \ {0}
  <2>1. ASSUME NEW c \in steps
        PROVE  StepCost(PerGrid, c, d) \in Nat \ {0}
    <3>1. c \in Cells
      BY DEF Neighbours
    <3>2. Terrain[c] \in Nat /\ Terrain[d] \in Nat
      BY <3>1, GridAssumption
    <3>3. PerGrid \in Nat \ {0}
      BY BoardAssumption
    <3> QED
      BY <3>2, <3>3 DEF StepCost
  <2> QED
    BY <2>1
<1>2. Min(prices) \in prices
  BY <1>1, MinOfNaturals
<1>3. Min(prices) \in Nat \ {0}
  BY <1>1, <1>2
<1>4. Min(prices) \in Nat /\ Min(prices) > 0
  BY <1>3
<1> QED
  BY <1>4 DEF getLowestMoveAPConsumptionMap

\* Truncating what is left after a price below a * u leaves 0 .. a points, and
\* fewer than a if the price is positive.
LEMMA Truncation ==
    ASSUME NEW a \in Nat, NEW u \in Nat \ {0}, NEW p \in Nat, p < a * u
    PROVE  /\ (a * u - p) \div u \in 0 .. a
           /\ p > 0 => (a * u - p) \div u < a
<1> DEFINE quot == (a * u - p) \div u
           r == (a * u - p) % u
<1>1. a * u \in Nat
  OBVIOUS
<1>2. quot \in Int /\ r \in 0 .. (u - 1) /\ a * u - p = u * quot + r
  BY <1>1
<1> QED
  BY <1>1, <1>2, SMTT(60)

-----------------------------------------------------------------------------
(* setCharacterPosition.                                                   *)

\* Java's null is no position of the board.
LEMMA NoCellIsNoCell == NoCell \notin Cells
BY DEF NoCell, Cells

\* The call keeps the two maps inverse to each other, moves nobody else, and
\* does what it is asked to when the grid is free.
LEMMA SetPosition ==
    ASSUME TypeOK, PositionsConsistent,
           NEW n \in Names, NEW p \in Cells \cup {NoCell},
           setCharacterPosition(n, p)
    PROVE  /\ objPositions' \in [Names -> Cells \cup {NoCell}]
           /\ posReverseLookup' \in [Cells -> Names \cup {NoName}]
           /\ thrown' \in BOOLEAN
           /\ PositionsConsistent'
           /\ \A m \in Names \ {n} : objPositions'[m] = objPositions[m]
           /\ p \in Cells \ Occupied => objPositions'[n] = p
           /\ p \in Occupied => objPositions'[n] = objPositions[n]
           /\ p = NoCell => objPositions'[n] = NoCell
           /\ thrown' = (p = NoCell /\ objPositions[n] = NoCell)
<1> USE NoCellIsNoCell, BoardAssumption DEF TypeOK
<1>1. CASE p \in Cells \ Occupied
  <2>1. /\ posReverseLookup' = [Vacated(n) EXCEPT ![p] = n]
        /\ objPositions' = [objPositions EXCEPT ![n] = p]
        /\ thrown' = FALSE
    BY <1>1 DEF setCharacterPosition, Put
  <2>2. posReverseLookup[p] = NoName
    BY <1>1 DEF Occupied
  <2>3. posReverseLookup' \in [Cells -> Names \cup {NoName}]
    BY <1>1, <2>1 DEF Vacated
  <2>4. PositionsConsistent'
    <3> SUFFICES ASSUME NEW m \in Names, NEW c \in Cells
                 PROVE  objPositions'[m] = c <=> posReverseLookup'[c] = m
      BY DEF PositionsConsistent
    <3>1. CASE c = p
      BY <1>1, <2>1, <2>2, <3>1 DEF Vacated, PositionsConsistent
    <3>2. CASE c # p
      BY <1>1, <2>1, <3>2 DEF Vacated, PositionsConsistent
    <3> QED
      BY <3>1, <3>2
  <2> QED
    BY <1>1, <2>1, <2>3, <2>4
<1>2. CASE p \in Occupied
  <2>1. UNCHANGED positions /\ thrown' = FALSE /\ p \in Cells
    BY <1>2 DEF setCharacterPosition, Put, Occupied
  <2> QED
    BY <1>2, <2>1 DEF positions, PositionsConsistent
<1>3. CASE p = NoCell
  <2>1. /\ posReverseLookup' = Vacated(n)
        /\ objPositions' = [objPositions EXCEPT ![n] = NoCell]
        /\ thrown' = (p = NoCell /\ objPositions[n] = NoCell)
    BY <1>3 DEF setCharacterPosition, Clear
  <2>2. posReverseLookup' \in [Cells -> Names \cup {NoName}]
    BY <2>1 DEF Vacated
  <2>3. PositionsConsistent'
    BY <2>1 DEF Vacated, PositionsConsistent
  <2>4. p \notin Occupied
    BY <1>3 DEF Occupied
  <2> QED
    BY <1>3, <2>1, <2>2, <2>3, <2>4
<1> QED
  BY <1>1, <1>2, <1>3 DEF Occupied

-----------------------------------------------------------------------------
(* Room around the spawn points.                                           *)

SpawnPoints == {HeroSpawnPoint[n] : n \in Heroes} \cup {CreepSpawnPoint[n] : n \in Creeps}

\* If some character stands outside the diamond of a spawn point, the others
\* cannot fill it: the search for a free grid succeeds.
LEMMA RoomLeft ==
    ASSUME TypeOK, PositionsConsistent, RoomForAll,
           NEW s \in SpawnPoints, NEW m \in Names,
           \A c \in FreeWithinLimit(s, {}) : posReverseLookup[c] # m
    PROVE  FreeWithinLimit(s, Occupied) # {}
<1> DEFINE ring == FreeWithinLimit(s, {})
           f == [c \in ring |-> posReverseLookup[c]]
<1> SUFFICES ASSUME FreeWithinLimit(s, Occupied) = {}
             PROVE  FALSE
  OBVIOUS
<1>1. ring \subseteq Cells /\ ring \subseteq Occupied
  BY DEF FreeWithinLimit
<1>2. f \in [ring -> Names \ {m}]
  BY <1>1 DEF Occupied, TypeOK
<1>3. \A c, d \in ring : f[c] = f[d] => c = d
  <2> SUFFICES ASSUME NEW c \in ring, NEW d \in ring, f[c] = f[d]
               PROVE  c = d
    OBVIOUS
  <2>1. c \in Cells /\ d \in Cells /\ f[c] \in Names
    BY <1>1, <1>2
  <2>2. objPositions[f[c]] = c /\ objPositions[f[c]] = d
    BY <2>1 DEF PositionsConsistent
  <2> QED
    BY <2>2
<1>4. f \in Injection(ring, Names \ {m})
  BY <1>2, <1>3 DEF Injection, IsInjective
<1>5. /\ IsFiniteSet(Names \ {m})
      /\ Cardinality(Names \ {m}) = Cardinality(Names) - 1
      /\ Cardinality(Names) \in Nat
  BY BoardAssumption, FS_RemoveElement, FS_CardinalityType
<1>6. /\ IsFiniteSet(ring)
      /\ Cardinality(ring) <= Cardinality(Names \ {m})
  BY <1>4, <1>5, FS_Injection
<1>7. Cardinality(ring) \in Nat
  BY <1>6, FS_CardinalityType
<1>8. Cardinality(ring) >= Cardinality(Names)
  BY DEF RoomForAll, SpawnPoints
<1> QED
  BY <1>5, <1>6, <1>7, <1>8

\* Where a revived hero is put is a grid of the board or nothing, and never an
\* occupied grid; with room for all it is a grid.
LEMMA RevivePositionType ==
    ASSUME TypeOK, PositionsConsistent, NEW n \in Heroes
    PROVE  /\ RevivePosition(n) \in (Cells \ Occupied) \cup {NoCell}
           /\ RoomForAll => RevivePosition(n) # NoCell
<1> DEFINE s == HeroSpawnPoint[n]
<1>1. s \in Cells /\ s \in SpawnPoints
  BY BoardAssumption DEF SpawnPoints
<1>2. CASE s \notin Occupied
  BY <1>1, <1>2, NoCellIsNoCell DEF RevivePosition
<1>3. CASE s \in Occupied
  <2>1. RevivePosition(n) = getNearestFreeGrid(s, Occupied)
    BY <1>3 DEF RevivePosition
  <2>2. FreeWithinLimit(s, Occupied) # {} => RevivePosition(n) \in Cells \ Occupied
    BY <1>1, <2>1, NearestFreeGrid DEF FreeWithinLimit
  <2>3. FreeWithinLimit(s, Occupied) = {} => RevivePosition(n) = NoCell
    BY <2>1 DEF getNearestFreeGrid
  <2>4. RoomForAll => FreeWithinLimit(s, Occupied) # {}
    <3> DEFINE m == posReverseLookup[s]
    <3>1. m \in Names
      BY <1>1, <1>3 DEF Occupied, TypeOK
    <3>2. \A c \in FreeWithinLimit(s, {}) : c \in Cells /\ c # s
      BY <1>1, DistanceType DEF FreeWithinLimit
    <3>3. \A c \in FreeWithinLimit(s, {}) : posReverseLookup[c] # m
      BY <1>1, <3>1, <3>2 DEF PositionsConsistent
    <3> QED
      BY <1>1, <3>1, <3>3, RoomLeft
  <2> QED
    BY <2>2, <2>3, <2>4, NoCellIsNoCell
<1> QED
  BY <1>2, <1>3

\* The same for the grid a line creep is spawned on.
LEMMA SpawnPositionType ==
    ASSUME TypeOK, PositionsConsistent, NEW n \in Creeps
    PROVE  LET p == getNearestFreeGrid(CreepSpawnPoint[n], Occupied)
           IN  /\ p \in (Cells \ Occupied) \cup {NoCell}
               /\ RoomForAll /\ objPositions[n] = NoCell => p # NoCell
<1> DEFINE s == CreepSpawnPoint[n]
           p == getNearestFreeGrid(s, Occupied)
<1>1. s \in Cells /\ s \in SpawnPoints
  BY BoardAssumption DEF SpawnPoints
<1>2. FreeWithinLimit(s, Occupied) # {} => p \in Cells \ Occupied
  BY <1>1, NearestFreeGrid DEF FreeWithinLimit
<1>3. FreeWithinLimit(s, Occupied) = {} => p = NoCell
  BY DEF getNearestFreeGrid
<1>4. RoomForAll /\ objPositions[n] = NoCell => FreeWithinLimit(s, Occupied) # {}
  <2> SUFFICES ASSUME RoomForAll, objPositions[n] = NoCell
               PROVE  FreeWithinLimit(s, Occupied) # {}
    OBVIOUS
  <2>1. \A c \in FreeWithinLimit(s, {}) : posReverseLookup[c] # n
    BY NoCellIsNoCell DEF PositionsConsistent, Names, FreeWithinLimit
  <2> QED
    BY <1>1, <2>1, RoomLeft DEF Names
<1> QED
  BY <1>2, <1>3, <1>4, NoCellIsNoCell

-----------------------------------------------------------------------------
(* The inductive invariant: what the loops of EndRound and BeginRound know *)
(* about the names they have still to visit.                               *)

Bookkeeping ==
    /\ Heroes \cup Fixtures \subseteq chars
    /\ \A n \in Names : roundsToRevive[n] > 0 => n \in Heroes
    /\ phase = "turn" => todo = {}
    /\ phase = "EndRound" => todo \subseteq chars
    /\ phase = "BeginRound" => todo \subseteq Creeps \ chars

IInv == TypeOK /\ PositionsConsistent /\ OnlyRegistered /\ Bookkeeping /\ NobodyLost

\* initialise() puts every hero and structure on a grid of its own.
LEMMA InitIInv == Init => IInv
<1> SUFFICES ASSUME Init PROVE IInv
  OBVIOUS
<1> USE BoardAssumption, NoCellIsNoCell DEF Init
<1> DEFINE At(c) == {n \in Heroes \cup Fixtures : InitialPosition[n] = c}
<1>1. ASSUME NEW c \in Cells
      PROVE  /\ posReverseLookup[c] \in Names \cup {NoName}
             /\ \A n \in Names : n \in At(c) => posReverseLookup[c] = n
             /\ \A n \in Names : posReverseLookup[c] = n => n \in At(c)
  <2>1. CASE At(c) = {}
    BY <2>1 DEF Names
  <2>2. CASE At(c) # {}
    <3>1. PICK n \in Heroes \cup Fixtures : InitialPosition[n] = c
      BY <2>2
    <3>2. posReverseLookup[c] = n
      BY <3>1
    <3> QED
      BY <3>1, <3>2 DEF Names
  <2> QED
    BY <2>1, <2>2
<1>2. TypeOK
  <2>1. objPositions \in [Names -> Cells \cup {NoCell}]
    BY DEF Names
  <2>2. posReverseLookup \in [Cells -> Names \cup {NoName}]
    <3>1. posReverseLookup = [c \in Cells |-> posReverseLookup[c]]
      OBVIOUS
    <3> QED
      BY <1>1, <3>1
  <2>3. /\ currentActionPoint \in [Names -> 0 .. MaxActionPoint]
        /\ roundsToRevive \in [Names -> 0 .. ReviveRounds]
    OBVIOUS
  <2> QED
    BY <2>1, <2>2, <2>3 DEF TypeOK, Names
<1>3. PositionsConsistent
  BY <1>1 DEF PositionsConsistent, Names
<1>4. OnlyRegistered /\ Bookkeeping /\ NobodyLost
  BY DEF OnlyRegistered, Bookkeeping, NobodyLost, Names
<1> QED
  BY <1>2, <1>3, <1>4 DEF IInv

\* A move: the price is below the points of the character, so what is left is
\* truncated into 0 .. what it had, less than before.
LEMMA MoveStep ==
    ASSUME IInv, NEW n \in Names, NEW target \in Cells, Move(n, target)
    PROVE  IInv' /\ currentActionPoint'[n] < currentActionPoint[n]
<1> USE BoardAssumption, NoCellIsNoCell DEF IInv
<1> DEFINE a == currentActionPoint[n]
           price == MoveMap(n)[target]
<1>1. target \in Cells \ Occupied /\ objPositions[n] \in Cells /\ n \in chars
  BY DEF Move, TypeOK, Alive
<1>2. a \in Nat /\ a <= MaxActionPoint /\ Unit \in Nat \ {0}
  BY DEF TypeOK
<1>3. objPositions[n] # target
  BY <1>1 DEF Occupied, PositionsConsistent
<1>4. price \in Nat /\ price > 0
  <2>1. (a + 1) * Unit \in Nat \ {0}
    BY <1>2
  <2> QED
    BY <1>1, <1>3, <2>1, PriceType DEF MoveMap
<1>5. price < a * Unit /\ a \in Nat
  BY <1>2 DEF Move
<1>6. (a * Unit - price) \div Unit \in 0 .. a /\ (a * Unit - price) \div Unit < a
  <2> HIDE DEF a, price
  <2> QED
    BY <1>2, <1>4, <1>5, Truncation
<1>7. /\ currentActionPoint' = [currentActionPoint EXCEPT ![n] = (a * Unit - price) \div Unit]
      /\ UNCHANGED <<chars, roundsToRevive, phase, todo>>
      /\ setCharacterPosition(n, target)
  BY DEF Move
<1>8. /\ currentActionPoint' \in [Names -> 0 .. MaxActionPoint]
      /\ currentActionPoint'[n] < currentActionPoint[n]
  <2> HIDE DEF price
  <2>1. (a * Unit - price) \div Unit \in 0 .. MaxActionPoint
    BY <1>2, <1>6
  <2> HIDE DEF a
  <2>2. currentActionPoint'[n] = (a * Unit - price) \div Unit
    BY <1>7 DEF TypeOK
  <2> QED
    BY <1>6, <1>7, <2>1, <2>2 DEF TypeOK, a
<1>9. /\ objPositions' \in [Names -> Cells \cup {NoCell}]
      /\ posReverseLookup' \in [Cells -> Names \cup {NoName}]
      /\ thrown' = FALSE
      /\ PositionsConsistent'
      /\ \A m \in Names \ {n} : objPositions'[m] = objPositions[m]
      /\ objPositions'[n] = target
  BY <1>1, <1>7, SetPosition
<1>10. TypeOK'
  BY <1>7, <1>8, <1>9 DEF TypeOK
<1>11. OnlyRegistered' /\ Bookkeeping'
  BY <1>1, <1>7, <1>9 DEF OnlyRegistered, Bookkeeping
<1>12. NobodyLost'
  BY <1>1, <1>7, <1>9 DEF NobodyLost, TypeOK, RoomForAll, FreeWithinLimit
<1> QED
  BY <1>8, <1>9, <1>10, <1>11, <1>12

\* A visit of EndRound: the count goes down, and at zero the hero is put on a
\* free grid.
LEMMA EndRoundStep ==
    ASSUME IInv, NEW n \in Names, EndRoundOf(n)
    PROVE  IInv'
<1> USE BoardAssumption, NoCellIsNoCell DEF IInv
<1>1. /\ n \in todo /\ n \in chars /\ phase = "EndRound" /\ thrown = FALSE
      /\ todo' = todo \ {n} /\ UNCHANGED <<chars, phase>>
      /\ roundsToRevive[n] \in 0 .. ReviveRounds
  BY DEF EndRoundOf, TypeOK, Bookkeeping
<1>2. /\ roundsToRevive' \in [Names -> 0 .. ReviveRounds]
      /\ \A m \in Names : roundsToRevive'[m] > 0 => m \in Heroes
  <2> DEFINE k == IF roundsToRevive[n] > 0 THEN roundsToRevive[n] - 1 ELSE roundsToRevive[n]
  <2>1. k \in 0 .. ReviveRounds /\ (k > 0 => roundsToRevive[n] > 0)
    BY <1>1
  <2>2. roundsToRevive' = [roundsToRevive EXCEPT ![n] = k]
    BY DEF EndRoundOf
  <2> HIDE DEF k
  <2> QED
    BY <2>1, <2>2 DEF TypeOK, Bookkeeping
<1>3. currentActionPoint' \in [Names -> 0 .. MaxActionPoint]
  BY DEF EndRoundOf, TypeOK
<1>4. /\ objPositions' \in [Names -> Cells \cup {NoCell}]
      /\ posReverseLookup' \in [Cells -> Names \cup {NoName}]
      /\ thrown' \in BOOLEAN
      /\ PositionsConsistent'
      /\ \A m \in Names \ {n} : objPositions'[m] = objPositions[m]
      /\ NobodyLost'
  <2>1. CASE roundsToRevive[n] # 1
    <3>1. UNCHANGED <<chars, objPositions, posReverseLookup, thrown>>
      BY <1>1, <2>1 DEF EndRoundOf
    <3> QED
      BY <3>1 DEF TypeOK, PositionsConsistent, NobodyLost, RoomForAll, FreeWithinLimit
  <2>2. CASE roundsToRevive[n] = 1
    <3> DEFINE p == RevivePosition(n)
    <3>1. n \in Heroes /\ setCharacterPosition(n, p)
      BY <2>2 DEF EndRoundOf, Bookkeeping
    <3>2. p \in (Cells \ Occupied) \cup {NoCell} /\ (RoomForAll => p # NoCell)
      BY <3>1, RevivePositionType
    <3> HIDE DEF p
    <3>3. /\ objPositions' \in [Names -> Cells \cup {NoCell}]
          /\ posReverseLookup' \in [Cells -> Names \cup {NoName}]
          /\ thrown' \in BOOLEAN
          /\ PositionsConsistent'
          /\ \A m \in Names \ {n} : objPositions'[m] = objPositions[m]
          /\ p \in Cells \ Occupied => objPositions'[n] = p
          /\ thrown' = (p = NoCell /\ objPositions[n] = NoCell)
      BY <3>1, <3>2, SetPosition
    <3>4. NobodyLost'
      <4> SUFFICES ASSUME RoomForAll
                   PROVE  ~thrown' /\ \A m \in chars : objPositions'[m] # NoCell
        BY <1>1 DEF NobodyLost, RoomForAll, FreeWithinLimit
      <4>1. ~thrown' /\ objPositions'[n] # NoCell
        BY <3>2, <3>3
      <4> QED
        BY <3>3, <4>1 DEF NobodyLost, TypeOK
    <3> QED
      BY <3>3, <3>4
  <2> QED
    BY <2>1, <2>2
<1>5. TypeOK'
  BY <1>1, <1>2, <1>3, <1>4 DEF TypeOK
<1>6. OnlyRegistered' /\ Bookkeeping'
  BY <1>1, <1>2, <1>4 DEF OnlyRegistered, Bookkeeping
<1> QED
  BY <1>4, <1>5, <1>6

\* A spawn: addCharacter, then the nearest free grid.
LEMMA SpawnStep ==
    ASSUME IInv, NEW n \in Creeps, SpawnCreep(n)
    PROVE  IInv'
<1> USE BoardAssumption, NoCellIsNoCell DEF IInv
<1> DEFINE p == getNearestFreeGrid(CreepSpawnPoint[n], Occupied)
<1>1. /\ n \in Names /\ n \notin chars /\ phase = "BeginRound" /\ thrown = FALSE
      /\ todo' = todo \ {n} /\ chars' = chars \cup {n}
      /\ UNCHANGED <<roundsToRevive, phase>>
      /\ setCharacterPosition(n, p)
  BY DEF SpawnCreep, TypeOK, Bookkeeping
<1>2. objPositions[n] = NoCell
  BY <1>1 DEF OnlyRegistered
<1>3. p \in (Cells \ Occupied) \cup {NoCell} /\ (RoomForAll => p # NoCell)
  BY <1>2, SpawnPositionType
<1> HIDE DEF p
<1>4. /\ objPositions' \in [Names -> Cells \cup {NoCell}]
      /\ posReverseLookup' \in [Cells -> Names \cup {NoName}]
      /\ thrown' \in BOOLEAN
      /\ PositionsConsistent'
      /\ \A m \in Names \ {n} : objPositions'[m] = objPositions[m]
      /\ p \in Cells \ Occupied => objPositions'[n] = p
      /\ thrown' = (p = NoCell /\ objPositions[n] = NoCell)
  BY <1>1, <1>3, SetPosition
<1>5. currentActionPoint' \in [Names -> 0 .. MaxActionPoint]
  BY DEF SpawnCreep, TypeOK
<1>6. TypeOK'
  BY <1>1, <1>4, <1>5 DEF TypeOK
<1>7. OnlyRegistered' /\ Bookkeeping'
  BY <1>1, <1>4 DEF OnlyRegistered, Bookkeeping
<1>8. NobodyLost'
  <2> SUFFICES ASSUME RoomForAll
               PROVE  ~thrown' /\ \A m \in chars' : objPositions'[m] # NoCell
    BY DEF NobodyLost, RoomForAll, FreeWithinLimit
  <2>1. ~thrown' /\ objPositions'[n] # NoCell
    BY <1>3, <1>4
  <2> QED
    BY <1>1, <1>4, <2>1 DEF NobodyLost, TypeOK
<1> QED
  BY <1>4, <1>6, <1>7, <1>8

\* removeCharacter: both entries go, and the name with them.
LEMMA RemoveStep ==
    ASSUME IInv, NEW n \in Creeps, removeCharacter(n)
    PROVE  IInv'
<1> USE BoardAssumption, NoCellIsNoCell DEF IInv
<1>1. /\ n \in Names /\ n \in chars /\ phase = "turn" /\ thrown = FALSE
      /\ chars' = (IF thrown' THEN chars ELSE chars \ {n})
      /\ UNCHANGED <<currentActionPoint, roundsToRevive, phase, todo>>
      /\ setCharacterPosition(n, NoCell)
  BY DEF removeCharacter, Names
<1>2. /\ objPositions' \in [Names -> Cells \cup {NoCell}]
      /\ posReverseLookup' \in [Cells -> Names \cup {NoName}]
      /\ thrown' \in BOOLEAN
      /\ PositionsConsistent'
      /\ \A m \in Names \ {n} : objPositions'[m] = objPositions[m]
      /\ objPositions'[n] = NoCell
      /\ thrown' = (objPositions[n] = NoCell)
  BY <1>1, SetPosition
<1>3. TypeOK'
  BY <1>1, <1>2 DEF TypeOK
<1>4. OnlyRegistered' /\ Bookkeeping'
  BY <1>1, <1>2 DEF OnlyRegistered, Bookkeeping
<1>5. NobodyLost'
  <2> SUFFICES ASSUME RoomForAll
               PROVE  ~thrown' /\ \A m \in chars' : objPositions'[m] # NoCell
    BY DEF NobodyLost, RoomForAll, FreeWithinLimit
  <2>1. ~thrown'
    BY <1>1, <1>2 DEF NobodyLost
  <2> QED
    BY <1>1, <1>2, <2>1 DEF NobodyLost, TypeOK
<1> QED
  BY <1>2, <1>3, <1>4, <1>5

\* The steps that leave both position maps alone.
LEMMA OtherStep ==
    ASSUME IInv,
           \/ \E n \in Names : MoveFromNowhere(n)
           \/ \E n \in Heroes : HeroDies(n)
           \/ EndRound \/ BeginRound \/ NextRound
           \/ UNCHANGED vars
    PROVE  IInv'
<1> USE BoardAssumption DEF IInv
<1>1. UNCHANGED positions
  BY DEF MoveFromNowhere, HeroDies, EndRound, BeginRound, NextRound, vars, positions
<1>2. PositionsConsistent' /\ chars' = chars
  BY <1>1 DEF PositionsConsistent, positions, MoveFromNowhere, HeroDies, EndRound,
              BeginRound, NextRound, vars
<1>3. CASE \E n \in Names : MoveFromNowhere(n)
  <2>1. ~RoomForAll
    BY <1>3 DEF MoveFromNowhere, Alive, NobodyLost
  <2> QED
    BY <1>1, <1>2, <1>3, <2>1 DEF MoveFromNowhere, TypeOK, OnlyRegistered, Bookkeeping,
                                 NobodyLost, RoomForAll, FreeWithinLimit, positions
<1>4. CASE \E n \in Heroes : HeroDies(n)
  BY <1>1, <1>2, <1>4 DEF HeroDies, TypeOK, OnlyRegistered, Bookkeeping,
                         NobodyLost, RoomForAll, FreeWithinLimit, positions
<1>5. CASE EndRound \/ BeginRound \/ NextRound
  <2>1. UNCHANGED <<currentActionPoint, roundsToRevive, thrown>> /\ UNCHANGED positions
    BY <1>1, <1>5 DEF EndRound, BeginRound, NextRound
  <2>2. /\ phase' \in {"turn", "EndRound", "BeginRound"}
        /\ phase' = "turn" => todo' = {}
        /\ phase' = "EndRound" => todo' \subseteq chars
        /\ phase' = "BeginRound" => todo' \subseteq Creeps \ chars
    BY <1>5 DEF EndRound, BeginRound, NextRound
  <2>3. todo' \subseteq Names
    BY <2>2 DEF TypeOK, Names
  <2>4. TypeOK'
    BY <1>2, <2>1, <2>2, <2>3 DEF TypeOK, positions
  <2>5. OnlyRegistered' /\ Bookkeeping'
    BY <1>2, <2>1, <2>2 DEF OnlyRegistered, Bookkeeping, positions
  <2>6. NobodyLost'
    BY <1>2, <2>1 DEF NobodyLost, RoomForAll, FreeWithinLimit, positions
  <2> QED
    BY <1>2, <2>4, <2>5, <2>6
<1>6. CASE UNCHANGED vars
  BY <1>1, <1>2, <1>6 DEF vars, TypeOK, OnlyRegistered, Bookkeeping,
                         NobodyLost, RoomForAll, FreeWithinLimit, positions
<1> QED
  BY <1>3, <1>4, <1>5, <1>6

\* Every action keeps the inductive invariant.
LEMMA StepIInv == IInv /\ [Next]_vars => IInv'
<1> SUFFICES ASSUME IInv, [Next]_vars PROVE IInv'
  OBVIOUS
<1>1. CASE \E n \in Names, target \in Cells : Move(n, target)
  BY <1>1, MoveStep
<1>2. CASE \E n \in Creeps : removeCharacter(n)
  BY <1>2, RemoveStep
<1>3. CASE \E n \in Names : EndRoundOf(n)
  BY <1>3, EndRoundStep
<1>4. CASE \E n \in Creeps : SpawnCreep(n)
  BY <1>4, SpawnStep
<1>5. CASE \/ \E n \in Names : MoveFromNowhere(n)
           \/ \E n \in Heroes : HeroDies(n)
           \/ EndRound \/ BeginRound \/ NextRound
           \/ UNCHANGED vars
  BY <1>5, OtherStep
<1> QED
  BY <1>1, <1>2, <1>3, <1>4, <1>5 DEF Next

\* The inductive invariant holds in every state that initialise() and the rules
\* lead to.
THEOREM Invariance == Spec => []IInv
BY InitIInv, StepIInv, PTL DEF Spec

\* On every board the state keeps its type (GameState, BasicGameMaster).
THEOREM TypeCorrect == Spec => []TypeOK
BY Invariance, PTL DEF IInv

\* On every board, whatever is moved, killed, revived and spawned, and in whatever
\* order the hash maps are walked, objPositions and posReverseLookup stay inverse.
THEOREM PositionMapsAgree == Spec => []PositionsConsistent
BY Invariance, PTL DEF IInv

\* removeCharacter leaves nobody on the board who is not registered.
THEOREM NoGhosts == Spec => []OnlyRegistered
BY Invariance, PTL DEF IInv

\* If the diamond around each spawn point holds as many grids as there are
\* characters, no revival or spawn ever loses a character or throws: the search
\* limit of getNearestFreeGrid is wide enough.
THEOREM NobodyIsLost == Spec => []NobodyLost
BY Invariance, PTL DEF IInv

\* Every move of a character costs at least one action point.
THEOREM EveryMovePays == Spec => WalkingCosts
<1>1. ASSUME IInv, [Next]_vars, NEW n \in Names, phase = "turn",
             objPositions[n] # objPositions'[n],
             objPositions[n] # NoCell, objPositions'[n] # NoCell
      PROVE  currentActionPoint'[n] < currentActionPoint[n]
  <2>1. PICK m \in Names, target \in Cells : Move(m, target)
    <3>1. ~ \E m \in Creeps : removeCharacter(m)
      BY <1>1 DEF removeCharacter, setCharacterPosition, Clear, IInv, TypeOK
    <3> QED
      BY <1>1, <3>1 DEF Next, vars, MoveFromNowhere, HeroDies, EndRound, BeginRound, NextRound,
                        EndRoundOf, SpawnCreep
  <2>2. m = n
    BY <1>1, <2>1, SetPosition DEF Move, IInv
  <2> QED
    BY <1>1, <2>1, <2>2, MoveStep
<1>2. IInv /\ [Next]_vars =>
        [\A n \in Names :
          /\ phase = "turn" /\ objPositions[n] # objPositions'[n]
          /\ objPositions[n] # NoCell /\ objPositions'[n] # NoCell
          => currentActionPoint'[n] < currentActionPoint[n]]_vars
  BY <1>1
<1> QED
  BY <1>2, Invariance, PTL DEF Spec, WalkingCosts

-----------------------------------------------------------------------------
(* The flood fill: the waves of Grid come to an end.                       *)

\* A set with 0 and with every successor holds all naturals.
LEMMA AllNaturals ==
    ASSUME NEW P \in SUBSET Nat, 0 \in P, \A n \in P : n + 1 \in P
    PROVE  P = Nat
<1> SUFFICES ASSUME Nat \ P # {}
             PROVE  FALSE
  OBVIOUS
<1>1. PICK m \in Nat \ P : \A k \in Nat \ P : m <= k
  BY SmallestExists
<1>2. m # 0 /\ m - 1 \in Nat /\ m - 1 < m
  OBVIOUS
<1>3. m - 1 \in P /\ (m - 1) + 1 = m
  BY <1>1, <1>2
<1> QED BY <1>1, <1>3

LEMMA GridSize == Width * Height \in Nat /\ 0 < Width * Height
<1>1. Width \in Nat \ {0} /\ Height \in Nat \ {0}
  BY GridAssumption
<1> QED BY ONLY <1>1

\* Grids are numbered row by row, as the arrays of the code are.
LEMMA CellsFinite ==
    IsFiniteSet(Cells) /\ Cardinality(Cells) <= Width * Height
<1>1. Width \in Nat \ {0} /\ Height \in Nat \ {0}
  BY GridAssumption
<1> DEFINE N == Width * Height
           f == [c \in Cells |-> c[1] + c[2] * Width]
<1>2. N \in Nat /\ 0 < N
  BY GridSize
<1>3. ASSUME NEW c \in Cells
      PROVE  /\ c[1] \in Nat /\ c[1] < Width /\ c[2] \in Nat /\ c[2] <= Height - 1
             /\ c = <<c[1], c[2]>>
  BY <1>1 DEF Cells, Columns, Rows
<1>4. ASSUME NEW x \in Nat, NEW y \in Nat, x < Width, y <= Height - 1
      PROVE  x + y * Width \in 0..(N - 1)
  <2>1. y * Width <= (Height - 1) * Width
    BY ONLY <1>1, <1>4
  <2>2. (Height - 1) * Width = N - Width
    BY ONLY <1>1
  <2>3. y * Width \in Nat
    BY ONLY <1>1, <1>4
  <2> HIDE DEF N
  <2> QED BY ONLY <1>1, <1>2, <1>4, <2>1, <2>2, <2>3
<1>5. ASSUME NEW x \in Nat, NEW y \in Nat, NEW u \in Nat, NEW v \in Nat,
             x < Width, u < Width, y < v
      PROVE  x + y * Width # u + v * Width
  <2>1. (y + 1) * Width <= v * Width
    BY ONLY <1>1, <1>5
  <2>2. (y + 1) * Width = y * Width + Width
    BY ONLY <1>1, <1>5
  <2>3. y * Width \in Nat /\ v * Width \in Nat
    BY ONLY <1>1, <1>5
  <2> QED BY ONLY <1>1, <1>5, <2>1, <2>2, <2>3
<1>6. f \in [Cells -> 0..(N - 1)]
  BY <1>3, <1>4
<1>7. ASSUME NEW c \in Cells, NEW d \in Cells, f[c] = f[d]
      PROVE  c = d
  <2>1. c[1] + c[2] * Width = d[1] + d[2] * Width
    BY <1>7
  <2>2. c[2] = d[2]
    BY <1>3, <1>5, <2>1
  <2>3. c[2] * Width \in Nat /\ c[2] * Width = d[2] * Width
    BY <1>1, <1>3, <2>2
  <2>4. c[1] = d[1]
    BY <1>3, <2>1, <2>3
  <2> QED BY <1>3, <2>2, <2>4
<1> HIDE DEF f, N
<1>8. f \in Injection(Cells, 0..(N - 1))
  BY <1>6, <1>7 DEF Injection, IsInjective
<1>9. IsFiniteSet(0..(N - 1)) /\ Cardinality(0..(N - 1)) = N
  <2>1. 0 \in Int /\ N - 1 \in Int /\ ~(0 > N - 1) /\ (N - 1) - 0 + 1 = N
    BY ONLY <1>2
  <2> QED BY <2>1, FS_Interval
<1> QED BY <1>8, <1>9, FS_Injection DEF N

\* The waves exist: each can be followed by the next.
LEMMA WavesDefined ==
    ASSUME NEW perGrid, NEW unreached, NEW occupied, NEW start
    PROVE  Waves(perGrid, unreached, occupied, start) = [k \in 0..(Width * Height) |-> IF k = 0 THEN {start} ELSE UNION {before \cup UNION {Relaxed(perGrid, unreached, occupied, c) : c \in before} : before \in {Waves(perGrid, unreached, occupied, start)[k - 1]}}]
<1> DEFINE N == (Width * Height)
           Defines(f, i) == f = [k \in 0..i |-> IF k = 0 THEN {start} ELSE UNION {before \cup UNION {Relaxed(perGrid, unreached, occupied, c) : c \in before} : before \in {f[k - 1]}}]
           P == {i \in Nat : \E f : Defines(f, i)}
<1>1. N \in Nat
  BY GridSize
<1> HIDE DEF N
<1>2. 0 \in P
  <2> DEFINE g == [k \in 0..0 |-> {start}]
  <2>1. \A k \in 0..0 : k = 0
    OBVIOUS
  <2>2. g = [k \in 0..0 |-> IF k = 0 THEN {start} ELSE UNION {before \cup UNION {Relaxed(perGrid, unreached, occupied, c) : c \in before} : before \in {g[k - 1]}}]
    BY <2>1
  <2>3. Defines(g, 0)
    BY <2>2
  <2> HIDE DEF Defines
  <2> QED BY <2>3
<1>3. ASSUME NEW i \in P
      PROVE  i + 1 \in P
  <2>1. PICK f : Defines(f, i)
    BY <1>3
  <2> DEFINE g == [k \in 0..(i + 1) |-> IF k = 0 THEN {start} ELSE UNION {before \cup UNION {Relaxed(perGrid, unreached, occupied, c) : c \in before} : before \in {f[k - 1]}}]
  <2>2. ASSUME NEW k \in 0..i
        PROVE  g[k] = f[k]
    <3>1. f[k] = (IF k = 0 THEN {start} ELSE UNION {before \cup UNION {Relaxed(perGrid, unreached, occupied, c) : c \in before} : before \in {f[k - 1]}})
      BY ONLY <2>1, <2>2
    <3>2. k \in 0..(i + 1)
      BY ONLY <1>3, <2>2
    <3> QED BY ONLY <3>1, <3>2
  <2> HIDE DEF g
  <2>3. ASSUME NEW k \in 0..(i + 1)
        PROVE  (IF k = 0 THEN {start} ELSE UNION {before \cup UNION {Relaxed(perGrid, unreached, occupied, c) : c \in before} : before \in {f[k - 1]}}) = (IF k = 0 THEN {start} ELSE UNION {before \cup UNION {Relaxed(perGrid, unreached, occupied, c) : c \in before} : before \in {g[k - 1]}})
    <3>1. CASE k = 0
      BY <3>1
    <3>2. CASE k # 0
      <4>1. k - 1 \in 0..i
        BY <1>3, <2>3, <3>2
      <4> QED BY <2>2, <3>2, <4>1
    <3> QED BY <3>1, <3>2
  <2>4. g = [k \in 0..(i + 1) |-> IF k = 0 THEN {start} ELSE UNION {before \cup UNION {Relaxed(perGrid, unreached, occupied, c) : c \in before} : before \in {g[k - 1]}}]
    BY <2>3 DEF g
  <2>5. Defines(g, i + 1)
    BY <2>4
  <2> HIDE DEF Defines
  <2> QED BY <1>3, <2>5
<1>4. N \in P
  <2> HIDE DEF P
  <2>1. P \subseteq Nat
    BY DEF P
  <2> QED BY <1>1, <1>2, <1>3, <2>1, AllNaturals
<1>5. PICK f : Defines(f, N)
  BY <1>4
<1> QED BY <1>5 DEF N, Waves

Wider(perGrid, unreached, occupied, S) ==
    S \cup UNION {Relaxed(perGrid, unreached, occupied, c) : c \in S}

LEMMA WaveAfterWave ==
    ASSUME NEW perGrid, NEW unreached, NEW occupied, NEW start \in Cells
    PROVE  LET wave == Waves(perGrid, unreached, occupied, start)
           IN  /\ wave[0] = {start}
               /\ \A k \in 0..(Width * Height - 1) :
                     wave[k + 1] = Wider(perGrid, unreached, occupied, wave[k])
<1> DEFINE w == Waves(perGrid, unreached, occupied, start)
           N == Width * Height
<1>1. w = [k \in 0..N |-> IF k = 0 THEN {start} ELSE UNION {before \cup UNION {Relaxed(perGrid, unreached, occupied, c) : c \in before} : before \in {w[k - 1]}}]
  BY WavesDefined
<1> HIDE DEF w, N
<1>2. N \in Nat /\ 0 < N
  BY GridSize DEF N
<1>3. w[0] = {start}
  <2>1. 0 \in 0..N
    BY <1>2
  <2> QED BY <1>1, <2>1
<1>4. ASSUME NEW k \in 0..(N - 1)
      PROVE  w[k + 1] = Wider(perGrid, unreached, occupied, w[k])
  <2>1. k + 1 \in 0..N /\ k + 1 # 0 /\ (k + 1) - 1 = k
    BY <1>2
  <2>2. w[k + 1] = UNION {before \cup UNION {Relaxed(perGrid, unreached, occupied, c) : c \in before} : before \in {w[k]}}
    BY ONLY <1>1, <2>1
  <2> QED BY <2>2 DEF Wider
<1> QED BY <1>3, <1>4 DEF w, N

\* What the waves reach is closed under steps: one of them has come to nothing new,
\* since each of the others has reached one grid more.
LEMMA ReachableIsClosed ==
    ASSUME NEW perGrid, NEW unreached, NEW occupied, NEW start \in Cells
    PROVE  LET reach == Reachable(perGrid, unreached, occupied, start)
           IN  /\ start \in reach
               /\ \A c \in reach : Relaxed(perGrid, unreached, occupied, c) \subseteq reach
<1> DEFINE w == Waves(perGrid, unreached, occupied, start)
           N == Width * Height
           More(S) == Wider(perGrid, unreached, occupied, S)
<1>1. w[0] = {start} /\ \A k \in 0..(N - 1) : w[k + 1] = More(w[k])
  BY WaveAfterWave
<1>2. ASSUME NEW S
      PROVE  S \subseteq More(S) /\ (S \subseteq Cells => More(S) \subseteq Cells)
  BY DEF Wider, Relaxed, Neighbours
<1>3. Reachable(perGrid, unreached, occupied, start) = w[N]
  BY DEF Reachable
<1>4. IsFiniteSet(Cells) /\ Cardinality(Cells) \in Nat /\ Cardinality(Cells) <= N
  BY CellsFinite, FS_CardinalityType
<1>5. N \in Nat /\ 0 < N
  BY GridSize
<1>6. ASSUME NEW c, c \in w[N], More(w[N]) = w[N]
      PROVE  Relaxed(perGrid, unreached, occupied, c) \subseteq w[N]
  BY <1>6 DEF Wider
<1> HIDE DEF w, N, More
<1>7. \A k \in Nat : k <= N => w[k] \subseteq Cells /\ start \in w[k]
  <2> DEFINE P == {k \in Nat : k <= N => w[k] \subseteq Cells /\ start \in w[k]}
  <2>1. 0 \in P
    BY <1>1
  <2>2. ASSUME NEW k \in P
        PROVE  k + 1 \in P
    <3> SUFFICES ASSUME k + 1 <= N
                 PROVE  w[k + 1] \subseteq Cells /\ start \in w[k + 1]
      OBVIOUS
    <3>1. k <= N /\ k \in 0..(N - 1)
      BY <1>5
    <3> QED BY <1>1, <1>2, <3>1
  <2>3. P = Nat
    <3> HIDE DEF P
    <3>1. P \in SUBSET Nat
      BY DEF P
    <3> QED BY <2>1, <2>2, <3>1, AllNaturals
  <2> QED BY <2>3
<1>8. PICK k \in 0..(N - 1) : w[k + 1] = w[k]
  <2> SUFFICES ASSUME \A k \in 0..(N - 1) : w[k + 1] # w[k]
               PROVE  FALSE
    OBVIOUS
  <2> DEFINE P == {k \in Nat : k <= N => Cardinality(w[k]) >= k + 1}
  <2>1. 0 \in P
    BY <1>1, FS_Singleton
  <2>2. ASSUME NEW k \in P
        PROVE  k + 1 \in P
    <3> SUFFICES ASSUME k + 1 <= N
                 PROVE  Cardinality(w[k + 1]) >= (k + 1) + 1
      OBVIOUS
    <3>1. k <= N /\ k \in 0..(N - 1) /\ Cardinality(w[k]) >= k + 1 /\ k \in Nat
      BY <1>5
    <3>2. w[k + 1] = More(w[k]) /\ w[k] \subseteq w[k + 1] /\ w[k + 1] # w[k]
      BY <1>1, <1>2, <2>2, <3>1
    <3>3. w[k + 1] \subseteq Cells
      BY <1>7, <3>1
    <3>4. IsFiniteSet(w[k + 1])
      BY <1>4, <3>3, FS_Subset
    <3>5. /\ Cardinality(w[k]) <= Cardinality(w[k + 1])
          /\ Cardinality(w[k + 1]) # Cardinality(w[k]) /\ IsFiniteSet(w[k])
      BY <3>2, <3>4, FS_Subset
    <3>6. Cardinality(w[k]) \in Nat /\ Cardinality(w[k + 1]) \in Nat
      BY <3>4, <3>5, FS_CardinalityType
    <3> QED BY ONLY <3>1, <3>5, <3>6
  <2>3. P = Nat
    <3> HIDE DEF P
    <3>1. P \in SUBSET Nat
      BY DEF P
    <3> QED BY <2>1, <2>2, <3>1, AllNaturals
  <2>4. Cardinality(w[N]) >= N + 1
    BY <1>5, <2>3
  <2>5. w[N] \subseteq Cells
    BY <1>5, <1>7
  <2>6. Cardinality(w[N]) <= Cardinality(Cells) /\ IsFiniteSet(w[N])
    BY <1>4, <2>5, FS_Subset
  <2>7. Cardinality(w[N]) \in Nat
    BY <2>6, FS_CardinalityType
  <2> QED BY ONLY <1>4, <1>5, <2>4, <2>6, <2>7
<1>9. w[N] = w[k]
  <2> DEFINE P == {i \in Nat : k + i <= N => w[k + i] = w[k]}
  <2>1. 0 \in P
    OBVIOUS
  <2>2. ASSUME NEW i \in P
        PROVE  i + 1 \in P
    <3> SUFFICES ASSUME k + (i + 1) <= N
                 PROVE  w[k + (i + 1)] = w[k]
      OBVIOUS
    <3>1. k + i <= N /\ k + i \in 0..(N - 1) /\ (k + i) + 1 = k + (i + 1)
      BY <1>5
    <3>2. w[k + i] = w[k]
      BY <2>2, <3>1
    <3>3. w[k + (i + 1)] = More(w[k])
      BY <1>1, <3>1, <3>2
    <3> QED BY <1>1, <1>8, <3>3
  <2>3. P = Nat
    <3> HIDE DEF P
    <3>1. P \in SUBSET Nat
      BY DEF P
    <3> QED BY <2>1, <2>2, <3>1, AllNaturals
  <2>4. N - k \in Nat /\ k + (N - k) = N
    BY <1>5
  <2> QED BY <2>3, <2>4
<1>10. More(w[N]) = w[N]
  BY <1>1, <1>8, <1>9
<1>11. start \in w[N]
  BY <1>5, <1>7
<1> QED BY <1>3, <1>6, <1>10, <1>11

\* and whatever is closed and has the start has all of it.
LEMMA ReachableIsLeast ==
    ASSUME NEW perGrid, NEW unreached, NEW occupied, NEW start \in Cells,
           NEW S, start \in S, \A c \in S : Relaxed(perGrid, unreached, occupied, c) \subseteq S
    PROVE  Reachable(perGrid, unreached, occupied, start) \subseteq S
<1> DEFINE w == Waves(perGrid, unreached, occupied, start)
           N == Width * Height
<1>1. w[0] = {start} /\ \A k \in 0..(N - 1) : w[k + 1] = Wider(perGrid, unreached, occupied, w[k])
  BY WaveAfterWave
<1>2. ASSUME NEW T, T \subseteq S
      PROVE  Wider(perGrid, unreached, occupied, T) \subseteq S
  BY <1>2 DEF Wider
<1>3. Reachable(perGrid, unreached, occupied, start) = w[N]
  BY DEF Reachable
<1>4. N \in Nat /\ 0 < N
  BY GridSize
<1> HIDE DEF w, N
<1> DEFINE P == {k \in Nat : k <= N => w[k] \subseteq S}
<1>5. 0 \in P
  BY <1>1
<1>6. ASSUME NEW k \in P
      PROVE  k + 1 \in P
  <2> SUFFICES ASSUME k + 1 <= N
               PROVE  w[k + 1] \subseteq S
    OBVIOUS
  <2>1. k <= N /\ k \in 0..(N - 1)
    BY <1>4
  <2> QED BY <1>1, <1>2, <2>1
<1>7. P = Nat
  <2> HIDE DEF P
  <2>1. P \in SUBSET Nat
    BY DEF P
  <2> QED BY <1>5, <1>6, <2>1, AllNaturals
<1> QED BY <1>3, <1>4, <1>7

-----------------------------------------------------------------------------
(* The flood fill: the queue.                                              *)

\* The steps out of c that the call may take
Steps(c) == Relaxed(call.perGrid, call.unreached, call.occupied, c)

Cost(c, d) == StepCost(call.perGrid, c, d)

Reach == Reachable(call.perGrid, call.unreached, call.occupied, call.start)

Priced == {d \in Cells : map[d] < call.unreached}

Waiting == {d \in Cells : \E i \in 1..Len(q) : q[i] = d}

\* Whoever has a price has it from a step out of another one, and either waits in the
\* queue or has no lower price for anybody.
FloodInv ==
    /\ FloodTypeOK
    /\ map[call.start] = 0
    /\ Waiting \subseteq Priced /\ Priced \subseteq Reach
    /\ \A c \in Priced : c \in Waiting \/ \A d \in Steps(c) : map[d] <= Cost(c, d)
    /\ \A d \in Priced \ {call.start} : \E c \in Priced : d \in Steps(c) /\ map[d] = Cost(c, d)

\* dirs leads to the neighbours.
LEMMA BesideIsNeighbour ==
    ASSUME NEW c \in Cells
    PROVE  Neighbours(c) = {Beside(c, i) : i \in 1..4} \cap Cells
<1>1. /\ Beside(c, 1) = <<c[1] - 1, c[2]>> /\ Beside(c, 2) = <<c[1] + 1, c[2]>>
      /\ Beside(c, 3) = <<c[1], c[2] - 1>> /\ Beside(c, 4) = <<c[1], c[2] + 1>>
  <2>1. c[1] \in Nat /\ c[2] \in Nat
    BY DistanceType
  <2>2. /\ Beside(c, 1) = <<c[1] + (-1), c[2] + 0>> /\ Beside(c, 2) = <<c[1] + 1, c[2] + 0>>
        /\ Beside(c, 3) = <<c[1] + 0, c[2] + (-1)>> /\ Beside(c, 4) = <<c[1] + 0, c[2] + 1>>
    BY DEF Beside, dirs
  <2>3. /\ c[1] + (-1) = c[1] - 1 /\ c[2] + 0 = c[2] /\ c[1] + 0 = c[1] /\ c[2] + (-1) = c[2] - 1
    BY ONLY <2>1
  <2> QED BY ONLY <2>2, <2>3
<1>2. {Beside(c, i) : i \in 1..4} = {Beside(c, 1), Beside(c, 2), Beside(c, 3), Beside(c, 4)}
  <2>1. 1..4 = {1, 2, 3, 4}
    OBVIOUS
  <2> QED BY <2>1
<1>3. ASSUME NEW d \in Cells
      PROVE  Distance(c, d) = 1 <=>
                d \in {<<c[1] - 1, c[2]>>, <<c[1] + 1, c[2]>>, <<c[1], c[2] - 1>>, <<c[1], c[2] + 1>>}
  <2>1. c[1] \in Nat /\ c[2] \in Nat /\ d[1] \in Nat /\ d[2] \in Nat /\ d = <<d[1], d[2]>>
    BY DEF Cells, Columns, Rows
  <2>2. Distance(c, d) = 1 <=>
          \/ d[1] = c[1] - 1 /\ d[2] = c[2]
          \/ d[1] = c[1] + 1 /\ d[2] = c[2]
          \/ d[1] = c[1] /\ d[2] = c[2] - 1
          \/ d[1] = c[1] /\ d[2] = c[2] + 1
    BY ONLY <2>1 DEF Distance, Diff
  <2>3. ASSUME NEW x, NEW y
        PROVE  d = <<x, y>> <=> d[1] = x /\ d[2] = y
    BY ONLY <2>1
  <2> QED BY <2>2, <2>3
<1> QED BY <1>1, <1>2, <1>3 DEF Neighbours

LEMMA CostType ==
    ASSUME NEW c \in Cells, NEW d \in Cells, call \in Calls
    PROVE  Cost(c, d) \in Nat
<1>1. Terrain[c] \in Nat /\ Terrain[d] \in Nat
  BY GridAssumption
<1>2. call.perGrid \in Nat
  BY FloodAssumption DEF Calls
<1> QED BY ONLY <1>1, <1>2 DEF Cost, StepCost

\* A lower price is that of a step that the call may take.
LEMMA LoweredIsStep ==
    ASSUME NEW c \in Cells, FloodTypeOK
    PROVE  /\ Lowered(c) \subseteq Steps(c) /\ Steps(c) \subseteq Neighbours(c)
           /\ Steps(c) \subseteq Cells
           /\ \A d \in Steps(c) : Cost(c, d) \in Nat /\ Cost(c, d) < call.unreached
           /\ \A d \in Steps(c) : d \in Lowered(c) <=> Cost(c, d) < map[d]
<1>1. Steps(c) = {d \in Neighbours(c) \ (call.occupied \cup Cliffs) : Cost(c, d) < call.unreached}
  BY DEF Steps, Relaxed, Cost
<1>2. Lowered(c) = {d \in Neighbours(c) \ (call.occupied \cup Cliffs) : Cost(c, d) < map[d]}
  BY BesideIsNeighbour DEF Lowered, Cost
<1>3. Neighbours(c) \subseteq Cells
  BY DEF Neighbours
<1>4. ASSUME NEW d \in Cells
      PROVE  Cost(c, d) \in Nat /\ map[d] \in Nat /\ map[d] <= call.unreached /\ call.unreached \in Nat
  <2>1. call \in Calls /\ map \in [Cells -> 0..call.unreached]
    BY DEF FloodTypeOK
  <2>2. call.unreached \in Nat
    BY <2>1, FloodAssumption DEF Calls
  <2>3. map[d] \in 0..call.unreached
    BY <2>1
  <2> QED BY <2>1, <2>2, <2>3, CostType
<1>5. ASSUME NEW d \in Cells, Cost(c, d) < map[d]
      PROVE  Cost(c, d) < call.unreached
  BY ONLY <1>4, <1>5
<1> HIDE DEF Cost, Lowered
<1> QED BY ONLY <1>1, <1>2, <1>3, <1>4, <1>5

LEMMA FloodInvInit == FloodInit => FloodInv
<1> SUFFICES ASSUME FloodInit
             PROVE  FloodInv
  OBVIOUS
<1>1. call \in Calls /\ call.start \in Cells /\ call.unreached \in Nat \ {0}
  BY FloodAssumption DEF FloodInit, Calls
<1>2. map = [c \in Cells |-> IF c = call.start THEN 0 ELSE call.unreached] /\ q = <<call.start>>
  BY DEF FloodInit
<1>3. FloodTypeOK
  BY <1>1, <1>2 DEF FloodTypeOK
<1>4. map[call.start] = 0 /\ Priced = {call.start} /\ Waiting = {call.start}
  <2>1. Priced = {call.start}
    BY <1>1, <1>2 DEF Priced
  <2>2. Len(q) = 1 /\ q[1] = call.start /\ 1..1 = {1}
    BY <1>2
  <2> QED BY <1>1, <1>2, <2>1, <2>2 DEF Waiting
<1>5. call.start \in Reach
  BY <1>1, ReachableIsClosed DEF Reach
<1> QED BY <1>3, <1>4, <1>5 DEF FloodInv

Holds(s, d) == \E i \in 1..Len(s) : s[i] = d

\* What is in a queue to which something is added
LEMMA AddedToQueue ==
    ASSUME NEW S, NEW s \in Seq(S), NEW t \in Seq(S)
    PROVE  /\ s \o t \in Seq(S)
           /\ \A d : Holds(s \o t, d) <=> Holds(s, d) \/ Holds(t, d)
<1> DEFINE u == s \o t
           m == Len(s)
           n == Len(t)
<1>1. /\ u \in Seq(S) /\ Len(u) = m + n /\ m \in Nat /\ n \in Nat
      /\ \A i \in 1..(m + n) : u[i] = IF i <= m THEN s[i] ELSE t[i - m]
  BY ConcatProperties, LenProperties
<1>2. /\ \A d : Holds(s, d) <=> \E i \in 1..m : s[i] = d
      /\ \A d : Holds(t, d) <=> \E i \in 1..n : t[i] = d
      /\ \A d : Holds(u, d) <=> \E i \in 1..(m + n) : u[i] = d
  BY <1>1 DEF Holds
<1> HIDE DEF u, m, n
<1>3. ASSUME NEW i \in 1..m
      PROVE  i \in 1..(m + n) /\ u[i] = s[i]
  BY ONLY <1>1, <1>3
<1>4. ASSUME NEW i \in 1..n
      PROVE  i + m \in 1..(m + n) /\ u[i + m] = t[i]
  <2>1. i + m \in 1..(m + n) /\ ~(i + m <= m) /\ (i + m) - m = i
    BY ONLY <1>1, <1>4
  <2> QED BY ONLY <1>1, <2>1
<1>5. ASSUME NEW i \in 1..(m + n), ~(i \in 1..m)
      PROVE  i - m \in 1..n /\ u[i] = t[i - m]
  <2>1. i - m \in 1..n /\ ~(i <= m)
    BY ONLY <1>1, <1>5
  <2> QED BY ONLY <1>1, <1>5, <2>1
<1>6. ASSUME NEW d
      PROVE  Holds(u, d) <=> Holds(s, d) \/ Holds(t, d)
  <2>1. Holds(s, d) \/ Holds(t, d) => Holds(u, d)
    BY ONLY <1>2, <1>3, <1>4
  <2>2. Holds(u, d) => Holds(s, d) \/ Holds(t, d)
    BY ONLY <1>2, <1>3, <1>5
  <2> QED BY ONLY <2>1, <2>2
<1> QED BY <1>1, <1>6 DEF u

\* After a round those wait who did, but for the head, and those with a lower price.
LEMMA QueueAfter ==
    ASSUME NEW c \in Cells, FloodTypeOK, PricesNeighbours(c)
    PROVE  /\ q' \in Seq(Cells)
           /\ Waiting' \subseteq Waiting \cup Lowered(c)
           /\ Lowered(c) \subseteq Waiting' /\ Waiting \ {c} \subseteq Waiting'
<1> DEFINE A(i) == Added(c, i)
<1>1. q \in Seq(Cells) /\ q # << >> /\ c = q[1] /\ Tail(q) \in Seq(Cells)
  BY DEF FloodTypeOK, PricesNeighbours
<1>2. q' = Tail(q) \o A(1) \o A(2) \o A(3) \o A(4)
  BY DEF PricesNeighbours
<1>3. Lowered(c) \subseteq Cells /\ Lowered(c) \subseteq {Beside(c, i) : i \in 1..4}
  BY DEF Lowered
<1>4. ASSUME NEW i \in 1..4
      PROVE  /\ A(i) \in Seq(Cells)
             /\ \A d : Holds(A(i), d) <=> d = Beside(c, i) /\ d \in Lowered(c)
  <2>1. CASE Beside(c, i) \in Lowered(c)
    <3>1. A(i) = <<Beside(c, i)>> /\ Beside(c, i) \in Cells
      BY <1>3, <2>1 DEF Added
    <3>2. Len(A(i)) = 1 /\ A(i)[1] = Beside(c, i) /\ 1..1 = {1} /\ A(i) \in Seq(Cells)
      BY <3>1
    <3> QED BY <2>1, <3>2 DEF Holds
  <2>2. CASE Beside(c, i) \notin Lowered(c)
    <3>1. A(i) = << >>
      BY <2>2 DEF Added
    <3>2. Len(A(i)) = 0 /\ 1..0 = {} /\ A(i) \in Seq(Cells)
      BY <3>1
    <3> QED BY <2>2, <3>2 DEF Holds
  <2> QED BY <2>1, <2>2
<1>5. ASSUME NEW d
      PROVE  /\ Holds(Tail(q), d) => Holds(q, d)
             /\ Holds(q, d) /\ d # c => Holds(Tail(q), d)
  <2>1. Len(q) \in Nat /\ Len(Tail(q)) = Len(q) - 1 /\ \A i \in 1..Len(Tail(q)) : Tail(q)[i] = q[i + 1]
    BY <1>1, HeadTailProperties, LenProperties
  <2>2. ASSUME NEW i \in 1..Len(Tail(q))
        PROVE  i + 1 \in 1..Len(q) /\ Tail(q)[i] = q[i + 1]
    BY ONLY <2>1, <2>2
  <2>3. ASSUME NEW i \in 1..Len(q), i # 1
        PROVE  i - 1 \in 1..Len(Tail(q)) /\ Tail(q)[i - 1] = q[i]
    <3>1. i - 1 \in 1..Len(Tail(q)) /\ (i - 1) + 1 = i
      BY ONLY <2>1, <2>3
    <3> QED BY ONLY <2>1, <3>1
  <2> QED BY <1>1, <2>2, <2>3 DEF Holds
<1> HIDE DEF A
<1>6. /\ q' \in Seq(Cells)
      /\ \A d : Holds(q', d) <=> Holds(Tail(q), d) \/ Holds(A(1), d) \/ Holds(A(2), d) \/ Holds(A(3), d) \/ Holds(A(4), d)
  <2>1. A(1) \in Seq(Cells) /\ A(2) \in Seq(Cells) /\ A(3) \in Seq(Cells) /\ A(4) \in Seq(Cells)
    BY <1>4
  <2> DEFINE s1 == Tail(q) \o A(1)
             s2 == s1 \o A(2)
             s3 == s2 \o A(3)
  <2>2. s1 \in Seq(Cells) /\ \A d : Holds(s1, d) <=> Holds(Tail(q), d) \/ Holds(A(1), d)
    BY <1>1, <2>1, AddedToQueue
  <2> HIDE DEF s1
  <2>3. s2 \in Seq(Cells) /\ \A d : Holds(s2, d) <=> Holds(s1, d) \/ Holds(A(2), d)
    BY <2>1, <2>2, AddedToQueue
  <2> HIDE DEF s2
  <2>4. s3 \in Seq(Cells) /\ \A d : Holds(s3, d) <=> Holds(s2, d) \/ Holds(A(3), d)
    BY <2>1, <2>3, AddedToQueue
  <2> HIDE DEF s3
  <2>5. q' = s3 \o A(4)
    BY <1>2 DEF s1, s2, s3
  <2>6. q' \in Seq(Cells) /\ \A d : Holds(q', d) <=> Holds(s3, d) \/ Holds(A(4), d)
    BY <2>1, <2>4, <2>5, AddedToQueue
  <2> QED BY ONLY <2>2, <2>3, <2>4, <2>6
<1>7. \A d : d \in Lowered(c) <=> Holds(A(1), d) \/ Holds(A(2), d) \/ Holds(A(3), d) \/ Holds(A(4), d)
  <2>1. 1..4 = {1, 2, 3, 4}
    OBVIOUS
  <2> QED BY <1>3, <1>4, <2>1
<1>8. Waiting' = {d \in Cells : Holds(q', d)} /\ Waiting = {d \in Cells : Holds(q, d)}
  BY DEF Waiting, Holds
<1> QED BY ONLY <1>3, <1>5, <1>6, <1>7, <1>8

LEMMA FloodInvStep == FloodInv /\ [FloodNext]_floodVars => FloodInv'
<1> SUFFICES ASSUME FloodInv, [FloodNext]_floodVars
             PROVE  FloodInv'
  OBVIOUS
<1>1. CASE UNCHANGED floodVars
  BY <1>1 DEF FloodInv, floodVars, FloodTypeOK, Waiting, Priced, Reach, Steps, Cost
<1>2. ASSUME NEW c \in Cells, PricesNeighbours(c)
      PROVE  FloodInv'
  <2>1. /\ FloodTypeOK /\ call' = call /\ c = Head(q) /\ q # << >> /\ q \in Seq(Cells)
        /\ map' = [d \in Cells |-> IF d \in Lowered(c) THEN Cost(c, d) ELSE map[d]]
    BY <1>2 DEF FloodInv, FloodTypeOK, PricesNeighbours, Cost
  <2>2. /\ call \in Calls /\ call.start \in Cells /\ call.unreached \in Nat
        /\ \A d \in Cells : map[d] \in Nat /\ map[d] <= call.unreached
    <3>1. call \in Calls /\ map \in [Cells -> 0..call.unreached]
      BY <2>1 DEF FloodTypeOK
    <3>2. call.start \in Cells /\ call.unreached \in Nat
      BY <3>1, FloodAssumption DEF Calls
    <3>3. ASSUME NEW d \in Cells
          PROVE  map[d] \in Nat /\ map[d] <= call.unreached
      <4>1. map[d] \in 0..call.unreached
        BY <3>1
      <4> QED BY ONLY <3>2, <4>1
    <3> QED BY <3>1, <3>2, <3>3
  <2>3. /\ Lowered(c) \subseteq Steps(c) /\ Steps(c) \subseteq Cells
        /\ \A d \in Steps(c) : Cost(c, d) \in Nat /\ Cost(c, d) < call.unreached
        /\ \A d \in Steps(c) : d \in Lowered(c) <=> Cost(c, d) < map[d]
    BY <2>1, LoweredIsStep
  <2>4. /\ q' \in Seq(Cells)
        /\ Waiting' \subseteq Waiting \cup Lowered(c)
        /\ Lowered(c) \subseteq Waiting' /\ Waiting \ {c} \subseteq Waiting'
    BY <1>2, <2>1, QueueAfter
  <2>5. c \in Priced
    <3>1. 1 \in 1..Len(q) /\ q[1] = c
      BY <2>1
    <3>2. c \in Waiting
      BY <3>1 DEF Waiting
    <3> QED BY <3>2 DEF FloodInv
  <2>6. ASSUME NEW d \in Cells
        PROVE  /\ d \in Lowered(c) => map'[d] = Cost(c, d) /\ map'[d] < map[d]
               /\ d \notin Lowered(c) => map'[d] = map[d]
               /\ map'[d] \in Nat /\ map'[d] <= map[d]
    <3>1. map'[d] = IF d \in Lowered(c) THEN Cost(c, d) ELSE map[d]
      BY <2>1
    <3>2. d \in Lowered(c) => Cost(c, d) \in Nat /\ Cost(c, d) < map[d]
      BY <2>3
    <3>3. map[d] \in Nat
      BY <2>2
    <3> QED BY ONLY <3>1, <3>2, <3>3
  <2>7. Steps(c)' = Steps(c) /\ Reach' = Reach /\ \A x, d : Steps(x)' = Steps(x) /\ Cost(x, d)' = Cost(x, d)
    BY <2>1 DEF Steps, Reach, Cost
  <2>8. Priced' = Priced \cup Lowered(c)
    <3>1. Priced' = {d \in Cells : map'[d] < call.unreached}
      BY <2>1 DEF Priced
    <3>2. Priced = {d \in Cells : map[d] < call.unreached}
      BY DEF Priced
    <3>3. ASSUME NEW d \in Cells
          PROVE  map'[d] < call.unreached <=> map[d] < call.unreached \/ d \in Lowered(c)
      <4>1. map[d] \in Nat /\ map'[d] \in Nat /\ call.unreached \in Nat /\ map[d] <= call.unreached
        BY <2>2, <2>6
      <4> QED BY ONLY <2>6, <4>1
    <3> QED BY <2>3, <3>1, <3>2, <3>3
  <2>9. FloodTypeOK'
    <3>1. map' \in [Cells -> 0..call.unreached]
      <4>1. ASSUME NEW d \in Cells
            PROVE  map'[d] \in 0..call.unreached
        <5>1. map[d] \in Nat /\ map'[d] \in Nat /\ map'[d] <= map[d] /\ map[d] <= call.unreached
              /\ call.unreached \in Nat
          BY <2>2, <2>6
        <5> QED BY ONLY <5>1
      <4> QED BY <2>1, <4>1
    <3> QED BY <2>1, <2>2, <2>4, <3>1 DEF FloodTypeOK
  <2>10. map'[call.start] = 0
    <3>1. map[call.start] = 0
      BY DEF FloodInv
    <3>2. map'[call.start] \in Nat /\ map'[call.start] <= map[call.start]
      BY <2>2, <2>6
    <3> QED BY ONLY <3>1, <3>2
  <2>11. Waiting' \subseteq Priced'
    BY <2>4, <2>8 DEF FloodInv
  <2>12. Priced' \subseteq Reach
    <3>1. c \in Reach /\ Priced \subseteq Reach
      BY <2>5 DEF FloodInv
    <3>2. Steps(c) \subseteq Reach
      BY <2>2, <3>1, ReachableIsClosed DEF Reach, Steps
    <3> QED BY <2>3, <2>8, <3>1, <3>2
  <2>13. ASSUME NEW x \in Priced', x \notin Waiting', NEW d \in Steps(x)
         PROVE  map'[d] <= Cost(x, d)
    <3>1. x \in Priced /\ x \in Cells /\ (x = c \/ x \notin Waiting)
      BY <2>4, <2>8, <2>13 DEF Priced
    <3>2. d \in Cells /\ Cost(x, d) \in Nat
      BY <2>1, <2>13, <3>1, LoweredIsStep
    <3>3. map[d] \in Nat /\ map'[d] \in Nat /\ map'[d] <= map[d]
      BY <2>2, <2>6, <3>2
    <3>4. CASE x = c
      <4>1. d \in Lowered(c) => map'[d] = Cost(c, d)
        BY <2>6, <3>2
      <4>2. d \notin Lowered(c) => ~(Cost(c, d) < map[d])
        BY <2>3, <2>13, <3>4
      <4> QED BY ONLY <3>2, <3>3, <3>4, <4>1, <4>2
    <3>5. CASE x \notin Waiting
      <4>1. map[d] <= Cost(x, d)
        BY <2>13, <3>1, <3>5 DEF FloodInv
      <4> QED BY ONLY <3>2, <3>3, <4>1
    <3> QED BY <3>1, <3>4, <3>5
  <2>14. ASSUME NEW d \in Priced' \ {call.start}
         PROVE  \E x \in Priced' : d \in Steps(x) /\ map'[d] = Cost(x, d)
    <3>1. CASE d \in Lowered(c)
      BY <2>3, <2>5, <2>6, <2>8, <3>1
    <3>2. CASE d \notin Lowered(c)
      <4>1. d \in Priced /\ d \in Cells
        BY <2>8, <3>2 DEF Priced
      <4>2. PICK x \in Priced : d \in Steps(x) /\ map[d] = Cost(x, d)
        BY <2>14, <4>1 DEF FloodInv
      <4> QED BY <2>6, <2>8, <3>2, <4>1, <4>2
    <3> QED BY <3>1, <3>2
  <2>15. /\ map'[call'.start] = 0 /\ Priced' \subseteq Reach'
         /\ \A x \in Priced' : x \in Waiting' \/ \A d \in Steps(x)' : map'[d] <= Cost(x, d)'
         /\ \A d \in Priced' \ {call'.start} : \E x \in Priced' : d \in Steps(x)' /\ map'[d] = Cost(x, d)'
    BY <2>1, <2>7, <2>10, <2>12, <2>13, <2>14
  <2> QED BY <2>9, <2>11, <2>15 DEF FloodInv
<1> QED BY <1>1, <1>2 DEF FloodNext

LEMMA EmptyQueueIsExact == FloodInv => PricesAreLowest
<1> SUFFICES ASSUME FloodInv, q = << >>
             PROVE  map = getLowestMoveAPConsumptionMap(
                             call.perGrid, call.unreached, call.occupied, call.start)
  BY DEF PricesAreLowest
<1>1. /\ FloodTypeOK /\ call \in Calls /\ call.start \in Cells /\ call.unreached \in Nat \ {0}
      /\ map \in [Cells -> 0..call.unreached]
  BY FloodAssumption DEF FloodInv, FloodTypeOK, Calls
<1>2. \A d \in Cells : map[d] \in Nat /\ map[d] <= call.unreached
  <2> TAKE d \in Cells
  <2>1. map[d] \in 0..call.unreached
    BY <1>1
  <2> QED BY ONLY <1>1, <2>1
<1>3. Waiting = {}
  <2>1. Len(q) = 0 /\ 1..0 = {}
    OBVIOUS
  <2> QED BY <2>1 DEF Waiting
<1>4. ASSUME NEW c \in Priced, NEW d \in Steps(c)
      PROVE  /\ c \in Cells /\ d \in Cells /\ map[d] <= Cost(c, d) /\ Cost(c, d) \in Nat
             /\ Cost(c, d) < call.unreached /\ d \in Neighbours(c)
  <2>1. c \in Cells
    BY DEF Priced
  <2> QED BY <1>1, <1>3, <2>1, LoweredIsStep DEF FloodInv
<1>5. ASSUME NEW c \in Priced
      PROVE  Steps(c) \subseteq Priced
  <2> SUFFICES ASSUME NEW d \in Steps(c)
               PROVE  d \in Priced
    OBVIOUS
  <2>1. map[d] < call.unreached
    <3>1. map[d] \in Nat /\ call.unreached \in Nat
      BY <1>1, <1>2, <1>4
    <3> QED BY ONLY <1>4, <3>1
  <2> QED BY <1>4, <2>1 DEF Priced
<1>6. call.start \in Priced /\ map[call.start] = 0
  BY <1>1 DEF FloodInv, Priced
<1>7. Reach = Priced
  <2>1. Reach \subseteq Priced
    BY <1>1, <1>5, <1>6, ReachableIsLeast DEF Reach, Steps
  <2> QED BY <2>1 DEF FloodInv
<1> DEFINE From(d) == {c \in Reach \cap Neighbours(d) : d \in Steps(c)}
           T(d) == {call.unreached} \cup {Cost(c, d) : c \in From(d)}
<1>8. ASSUME NEW d \in Cells, d # call.start
      PROVE  map[d] = Min(T(d))
  <2>1. \A x \in T(d) : map[d] <= x
    BY <1>2, <1>4, <1>7
  <2>2. T(d) \subseteq Nat
    BY <1>1, <1>4, <1>7
  <2>3. map[d] \in T(d)
    <3>1. CASE d \in Priced
      <4>1. PICK c \in Priced : d \in Steps(c) /\ map[d] = Cost(c, d)
        BY <1>8, <3>1 DEF FloodInv
      <4>2. c \in Cells /\ d \in Neighbours(c)
        BY <1>4, <4>1
      <4>3. c \in Neighbours(d)
        <5>1. Distance(c, d) = Distance(d, c)
          <6>1. c[1] \in Nat /\ c[2] \in Nat /\ d[1] \in Nat /\ d[2] \in Nat
            BY <4>2, DistanceType
          <6> QED BY ONLY <6>1 DEF Distance, Diff
        <5> QED BY <4>2, <5>1 DEF Neighbours
      <4> QED BY <1>7, <4>1, <4>3
    <3>2. CASE d \notin Priced
      <4>1. ~(map[d] < call.unreached) /\ map[d] \in Nat /\ map[d] <= call.unreached
            /\ call.unreached \in Nat
        BY <1>1, <1>2, <3>2 DEF Priced
      <4>2. map[d] = call.unreached
        BY ONLY <4>1
      <4> QED BY <4>2
    <3> QED BY <3>1, <3>2
  <2> HIDE DEF T
  <2>4. ASSUME NEW x \in T(d), \A y \in T(d) : x <= y
        PROVE  x = map[d]
    <3>1. x <= map[d] /\ map[d] <= x /\ x \in Nat /\ map[d] \in Nat
      BY <2>1, <2>2, <2>3, <2>4
    <3> QED BY ONLY <3>1
  <2>5. Min(T(d)) \in T(d) /\ \A y \in T(d) : Min(T(d)) <= y
    BY <2>1, <2>3 DEF Min
  <2> QED BY <2>4, <2>5
<1>9. getLowestMoveAPConsumptionMap(call.perGrid, call.unreached, call.occupied, call.start)
        = [d \in Cells |-> IF d = call.start THEN 0 ELSE Min(T(d))]
  BY DEF getLowestMoveAPConsumptionMap, Reach, Steps, Cost
<1> HIDE DEF T
<1>10. \A d \in Cells : map[d] = IF d = call.start THEN 0 ELSE Min(T(d))
  BY <1>6, <1>8
<1> QED BY <1>1, <1>9, <1>10

LEMMA FloodInvariance == FloodSpec => []FloodInv
BY FloodInvInit, FloodInvStep, PTL DEF FloodSpec

\* The prices that move asks for do not depend on the order in which the queue comes
\* to the grids, on any board and with any prices of a step.
THEOREM LowestPrices == FloodSpec => []PricesAreLowest
BY FloodInvariance, EmptyQueueIsExact, PTL

\* The types of a flood fill.
THEOREM FloodTypeCorrect == FloodSpec => []FloodTypeOK
<1>1. FloodInv => FloodTypeOK
  BY DEF FloodInv
<1> QED BY <1>1, FloodInvariance, PTL

\* One round lowers prices, or there is nothing to add to the queue.
LEMMA RoundSpent ==
    ASSUME FloodInv, NEW c \in Cells, PricesNeighbours(c)
    PROVE  /\ \A d \in Cells : map'[d] <= map[d]
           /\ map' = map => Len(q') < Len(q)
<1>1. /\ FloodTypeOK /\ q # << >> /\ q \in Seq(Cells) /\ call \in Calls /\ c = Head(q)
      /\ map' = [d \in Cells |-> IF d \in Lowered(c) THEN StepCost(call.perGrid, c, d) ELSE map[d]]
      /\ q' = Tail(q) \o Added(c, 1) \o Added(c, 2) \o Added(c, 3) \o Added(c, 4)
  BY DEF FloodInv, FloodTypeOK, PricesNeighbours
<1>2. ASSUME NEW d \in Cells
      PROVE  map[d] \in Nat
  <2>1. map[d] \in 0..call.unreached /\ call.unreached \in Nat
    BY <1>1, FloodAssumption DEF FloodTypeOK, Calls
  <2> QED BY ONLY <2>1
<1>3. ASSUME NEW d \in Lowered(c)
      PROVE  d \in Cells /\ map'[d] \in Nat /\ map'[d] < map[d]
  <2>1. d \in Cells /\ d \in Steps(c) /\ Cost(c, d) \in Nat /\ Cost(c, d) < map[d]
    BY <1>1, LoweredIsStep
  <2> QED BY <1>1, <2>1 DEF Cost
<1>4. ASSUME NEW d \in Cells
      PROVE  map'[d] <= map[d]
  <2>1. CASE d \in Lowered(c)
    <3>1. map'[d] \in Nat /\ map[d] \in Nat /\ map'[d] < map[d]
      BY <1>2, <1>3, <2>1
    <3> QED BY ONLY <3>1
  <2>2. CASE d \notin Lowered(c)
    <3>1. map'[d] = map[d] /\ map[d] \in Nat
      BY <1>1, <1>2, <2>2
    <3> QED BY ONLY <3>1
  <2> QED BY <2>1, <2>2
<1>5. ASSUME map' = map
      PROVE  Len(q') < Len(q)
  <2>1. ASSUME NEW d \in Lowered(c)
        PROVE  FALSE
    <3>1. d \in Cells /\ map[d] \in Nat /\ map'[d] < map[d] /\ map'[d] = map[d]
      BY <1>2, <1>3, <1>5
    <3> QED BY ONLY <3>1
  <2>2. /\ Added(c, 1) = << >> /\ Added(c, 2) = << >>
        /\ Added(c, 3) = << >> /\ Added(c, 4) = << >>
    BY <2>1 DEF Added
  <2>3. Tail(q) \in Seq(Cells) /\ Len(Tail(q)) = Len(q) - 1 /\ Len(q) \in Nat
    BY <1>1
  <2>4. Tail(q) \o << >> \o << >> \o << >> \o << >> = Tail(q)
    BY <2>3
  <2>5. q' = Tail(q)
    BY <1>1, <2>2, <2>4
  <2> QED BY <2>3, <2>5
<1> QED BY <1>4, <1>5

\* A call goes through finitely many rounds: each one lowers a price, of which there are
\* finitely many that can only fall to 0, or leaves one grid less in the queue.
THEOREM RoundsAreFinite == FloodSpec => RoundsAreSpent
<1>1. ASSUME FloodInv, [FloodNext]_floodVars
      PROVE  [/\ \A c \in Cells : map'[c] <= map[c]
              /\ map' = map => Len(q') < Len(q)]_floodVars
  <2>1. CASE UNCHANGED floodVars
    BY <2>1
  <2>2. CASE FloodNext
    <3>1. PICK c \in Cells : PricesNeighbours(c)
      BY <2>2 DEF FloodNext
    <3> QED BY <1>1, <3>1, RoundSpent
  <2> QED BY <1>1, <2>1, <2>2
<1> QED BY <1>1, FloodInvariance, PTL DEF FloodSpec, RoundsAreSpent
=============================================================================
