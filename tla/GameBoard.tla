------------------------------ MODULE GameBoard ------------------------------
(***************************************************************************)
(* Who stands where.  GameState keeps the positions twice: objPositions    *)
(* maps a name to its grid, posReverseLookup a grid to its name.  Every    *)
(* rule of BasicGameMaster that moves, spawns, revives or removes a        *)
(* character goes through setCharacterPosition; here each of those rules   *)
(* is one action, and the loops of "EndRound" and "BeginRound" are one     *)
(* action per character (the code walks a hash map, so in any order).      *)
(***************************************************************************)
EXTENDS Grid

CONSTANTS Heroes,           \* revivable characters
          Creeps,           \* names that BeginRound may give to line creeps
          Fixtures,         \* towers, barracks, ancients, trees: never moved or removed
          NoName,           \* Java's null where a name is expected
          InitialPosition,  \* position of every hero and fixture after initialise()
          HeroSpawnPoint,   \* teamConfig[team].heroSpawnPoint, per hero
          CreepSpawnPoint,  \* front.creepSpawnPoint, per creep
          PerGrid,          \* APUsedInMovingOneGrid, in 1/Unit action points
          Unit,             \* fractions of an action point the costs are counted in
          MaxActionPoint,
          ReviveRounds      \* 1 + 2 * level of a hero that dies

Names == Heroes \cup Creeps \cup Fixtures

ASSUME BoardAssumption ==
    /\ NoName \notin Names /\ IsFiniteSet(Names)
    /\ Heroes \cap Creeps = {} /\ Heroes \cap Fixtures = {} /\ Creeps \cap Fixtures = {}
    /\ InitialPosition \in [Heroes \cup Fixtures -> Cells]
    /\ \A m, n \in Heroes \cup Fixtures :
          m # n => InitialPosition[m] # InitialPosition[n]
    /\ HeroSpawnPoint \in [Heroes -> Cells]
    /\ CreepSpawnPoint \in [Creeps -> Cells]
    /\ PerGrid \in Nat \ {0} /\ Unit \in Nat \ {0}
    /\ MaxActionPoint \in Nat /\ ReviveRounds \in Nat \ {0}

VARIABLES
    chars,               \* domain of GameState.chars
    objPositions,        \* name -> grid, NoCell where the map has no entry
    posReverseLookup,    \* grid -> name, NoName where the map has no entry
    currentActionPoint,
    roundsToRevive,
    phase,               \* "turn", or the rule of applyRule that is running
    todo,                \* entries that the running rule has still to visit
    thrown               \* a RuntimeException left the game thread

vars == <<chars, objPositions, posReverseLookup, currentActionPoint,
          roundsToRevive, phase, todo, thrown>>

positions == <<objPositions, posReverseLookup>>

Occupied == {c \in Cells : posReverseLookup[c] # NoName}

-----------------------------------------------------------------------------
(* setCharacterPosition, a synchronized method.                            *)

\* Mutant: the grid that n leaves is not removed from the reverse map.
MutantVacated(n) == posReverseLookup

\* posReverseLookup without the entry of n's grid.
Vacated(n) == [c \in Cells |-> IF c = objPositions[n] THEN NoName ELSE posReverseLookup[c]]

\* position != null: out of the board or on an occupied grid (n's own grid
\* included) the call returns without a trace.
Put(n, position) ==
    IF position \in Cells \ Occupied
      THEN /\ posReverseLookup' = [Vacated(n) EXCEPT ![position] = n]
           /\ objPositions' = [objPositions EXCEPT ![n] = position]
      ELSE UNCHANGED positions

\* position == null: both entries go.
Clear(n) ==
    /\ posReverseLookup' = Vacated(n)
    /\ objPositions' = [objPositions EXCEPT ![n] = NoCell]

\* new GridPointIndex(null) throws: clearing a character that stands nowhere.
setCharacterPosition(n, position) ==
    /\ IF position # NoCell THEN Put(n, position) ELSE Clear(n)
    /\ thrown' = (position = NoCell /\ objPositions[n] = NoCell)

-----------------------------------------------------------------------------
Init ==
    /\ chars = Heroes \cup Fixtures
    /\ objPositions = [n \in Names |-> IF n \in Creeps THEN NoCell ELSE InitialPosition[n]]
    /\ posReverseLookup =
         [c \in Cells |->
            IF \E n \in Heroes \cup Fixtures : InitialPosition[n] = c
              THEN CHOOSE n \in Heroes \cup Fixtures : InitialPosition[n] = c
              ELSE NoName]
    /\ currentActionPoint = [n \in Names |-> MaxActionPoint]
    /\ roundsToRevive = [n \in Names |-> 0]
    /\ phase = "turn" /\ todo = {} /\ thrown = FALSE

Alive(n) == n \in chars /\ roundsToRevive[n] = 0

\* The prices move() reads: an unreached grid costs one point more than n has.
MoveMap(n) ==
    getLowestMoveAPConsumptionMap(PerGrid, (currentActionPoint[n] + 1) * Unit,
                                  Occupied, objPositions[n])

\* Mutant: the price of the target is not compared with the points left.
MutantMoveUnpriced(n, target) ==
    /\ phase = "turn" /\ ~thrown
    /\ Alive(n) /\ n \notin Fixtures /\ objPositions[n] # NoCell
    /\ currentActionPoint[n] > 0
    /\ target \notin Occupied
    /\ setCharacterPosition(n, target)
    /\ currentActionPoint' = [currentActionPoint EXCEPT
          ![n] = (@ * Unit - MoveMap(n)[target]) \div Unit]
    /\ UNCHANGED <<chars, roundsToRevive, phase, todo>>

\* Mutant: the price of the move is forgotten.
MutantMoveFree(n, target) ==
    /\ phase = "turn" /\ ~thrown
    /\ Alive(n) /\ n \notin Fixtures /\ objPositions[n] # NoCell
    /\ currentActionPoint[n] > 0
    /\ target \notin Occupied
    /\ MoveMap(n)[target] < currentActionPoint[n] * Unit
    /\ setCharacterPosition(n, target)
    /\ UNCHANGED <<chars, currentActionPoint, roundsToRevive, phase, todo>>

\* GameAction "Move" of the character whose turn it is; the remaining points
\* are truncated to an int by setCharacterProperty.
Move(n, target) ==
    /\ phase = "turn" /\ ~thrown
    /\ Alive(n) /\ n \notin Fixtures /\ objPositions[n] # NoCell
    /\ currentActionPoint[n] > 0
    /\ target \notin Occupied
    /\ MoveMap(n)[target] < currentActionPoint[n] * Unit
    /\ setCharacterPosition(n, target)
    /\ currentActionPoint' = [currentActionPoint EXCEPT
          ![n] = (@ * Unit - MoveMap(n)[target]) \div Unit]
    /\ UNCHANGED <<chars, roundsToRevive, phase, todo>>

\* The same request of a character that is alive but has no position: reading
\* the coordinates of its null position throws.
MoveFromNowhere(n) ==
    /\ phase = "turn" /\ ~thrown
    /\ Alive(n) /\ n \notin Fixtures /\ objPositions[n] = NoCell
    /\ currentActionPoint[n] > 0
    /\ thrown' = TRUE
    /\ UNCHANGED <<chars, objPositions, posReverseLookup, currentActionPoint,
                   roundsToRevive, phase, todo>>

\* checkCharacterDamage for a hero out of hit points: the corpse stays put.
HeroDies(n) ==
    /\ phase = "turn" /\ ~thrown
    /\ n \in Heroes /\ Alive(n)
    /\ roundsToRevive' = [roundsToRevive EXCEPT ![n] = ReviveRounds]
    /\ UNCHANGED <<chars, objPositions, posReverseLookup, currentActionPoint, phase, todo, thrown>>

\* checkCharacterDamage for a line creep out of hit points: removeCharacter.
\* An exception of setCharacterPosition leaves the name registered.
removeCharacter(n) ==
    /\ phase = "turn" /\ ~thrown
    /\ n \in Creeps \cap chars
    /\ setCharacterPosition(n, NoCell)
    /\ chars' = IF thrown' THEN chars ELSE chars \ {n}
    /\ UNCHANGED <<currentActionPoint, roundsToRevive, phase, todo>>

-----------------------------------------------------------------------------
(* GameAction "EndRound": one visit per registered character.              *)

EndRound ==
    /\ phase = "turn" /\ ~thrown
    /\ phase' = "EndRound" /\ todo' = chars
    /\ UNCHANGED <<chars, objPositions, posReverseLookup, currentActionPoint, roundsToRevive, thrown>>

\* Where a hero whose count reaches zero is put: the spawn point, else the
\* nearest free grid, else null (the code tests the wrong variable for null).
RevivePosition(n) ==
    IF HeroSpawnPoint[n] \notin Occupied THEN HeroSpawnPoint[n]
    ELSE getNearestFreeGrid(HeroSpawnPoint[n], Occupied)

EndRoundOf(n) ==
    /\ phase = "EndRound" /\ ~thrown
    /\ n \in todo /\ todo' = todo \ {n}
    /\ roundsToRevive' = [roundsToRevive EXCEPT ![n] = IF @ > 0 THEN @ - 1 ELSE @]
    /\ IF roundsToRevive[n] = 1
         THEN setCharacterPosition(n, RevivePosition(n))
         ELSE UNCHANGED <<objPositions, posReverseLookup, thrown>>
    /\ currentActionPoint' = [currentActionPoint EXCEPT
          ![n] = IF roundsToRevive[n] <= 1 THEN MaxActionPoint ELSE @]
    /\ UNCHANGED <<chars, phase>>

\* GameAction "BeginRound": any set of unused names is spawned, one by one.
BeginRound ==
    /\ phase = "EndRound" /\ todo = {} /\ ~thrown
    /\ phase' = "BeginRound"
    /\ todo' \in SUBSET (Creeps \ chars)
    /\ UNCHANGED <<chars, objPositions, posReverseLookup, currentActionPoint, roundsToRevive, thrown>>

\* addCharacter, creep.initialise() and the first free grid near the spawn point.
SpawnCreep(n) ==
    /\ phase = "BeginRound" /\ ~thrown
    /\ n \in todo /\ todo' = todo \ {n}
    /\ chars' = chars \cup {n}
    /\ setCharacterPosition(n, getNearestFreeGrid(CreepSpawnPoint[n], Occupied))
    /\ currentActionPoint' = [currentActionPoint EXCEPT ![n] = MaxActionPoint]
    /\ UNCHANGED <<roundsToRevive, phase>>

NextRound ==
    /\ phase = "BeginRound" /\ todo = {} /\ ~thrown
    /\ phase' = "turn"
    /\ UNCHANGED <<chars, objPositions, posReverseLookup, currentActionPoint, roundsToRevive, todo, thrown>>

Next ==
    \/ \E n \in Names, target \in Cells : Move(n, target)
    \/ \E n \in Names : MoveFromNowhere(n)
    \/ \E n \in Heroes : HeroDies(n)
    \/ \E n \in Creeps : removeCharacter(n)
    \/ EndRound
    \/ \E n \in Names : EndRoundOf(n)
    \/ BeginRound
    \/ \E n \in Creeps : SpawnCreep(n)
    \/ NextRound

Spec == Init /\ [][Next]_vars

-----------------------------------------------------------------------------
\* Every variable keeps its type; action points stay between 0 and the maximum
\* although they are truncated after every move.
TypeOK ==
    /\ chars \subseteq Names
    /\ objPositions \in [Names -> Cells \cup {NoCell}]
    /\ posReverseLookup \in [Cells -> Names \cup {NoName}]
    /\ currentActionPoint \in [Names -> 0 .. MaxActionPoint]
    /\ roundsToRevive \in [Names -> 0 .. ReviveRounds]
    /\ phase \in {"turn", "EndRound", "BeginRound"}
    /\ todo \subseteq Names
    /\ thrown \in BOOLEAN

\* GameState's two position maps are inverse to each other after any sequence of
\* moves, deaths, revivals, spawns and removals: no grid names a character that
\* stands elsewhere, and no two characters share a grid.
PositionsConsistent ==
    \A n \in Names, c \in Cells : objPositions[n] = c <=> posReverseLookup[c] = n

\* Only registered characters stand on the board: removeCharacter leaves no ghost.
OnlyRegistered == \A n \in Names : objPositions[n] # NoCell => n \in chars

\* The diamond around every spawn point, as far as getNearestFreeGrid looks,
\* has a grid for every character.
RoomForAll ==
    \A s \in {HeroSpawnPoint[n] : n \in Heroes} \cup {CreepSpawnPoint[n] : n \in Creeps} :
        Cardinality(FreeWithinLimit(s, {})) >= Cardinality(Names)

\* With that much room the search of getNearestFreeGrid never comes back empty:
\* no revival or spawn loses a character, and no rule throws.
NobodyLost ==
    RoomForAll => /\ ~thrown
                  /\ \A n \in chars : objPositions[n] # NoCell

\* A character that walks pays for it, so that a turn has only finitely many
\* moves: truncating the remaining points never makes a step free.
WalkingCosts ==
    [][\A n \in Names :
          /\ phase = "turn" /\ objPositions[n] # objPositions'[n]
          /\ objPositions[n] # NoCell /\ objPositions'[n] # NoCell
          => currentActionPoint'[n] < currentActionPoint[n]]_vars
=============================================================================
