-------------------------------- MODULE Sight --------------------------------
(***************************************************************************)
(* The sight maps of the teams.  refreshSightMaps clears them and starts a *)
(* thread per character, in a pool that the call makes for itself: it      *)
(* joins a thread only to put another one in its slot, so that the last    *)
(* ones run on while the game does, also into the next refresh.  A thread  *)
(* looks at one grid after the other, as they are at that moment.          *)
(* requestActionPossible reads the maps without waiting for anybody.       *)
(***************************************************************************)
EXTENDS Grid, SequencesExt

CONSTANTS Units,          \* characters other than trees
          TeamOf,
          SightOf,        \* the property "sight"
          Movers,         \* units that move, or revive somewhere else
          Comers,         \* units that come and go
          SightStarts,    \* their grids at the first "BeginTurn"
          Grounds,        \* grids that are walked on
          ObstacleHeight, \* terrainSightPenaltyHeightDifferenceThreshold
          PoolSize,
          MaxThreads,     \* bounds on the threads at a time
          MaxRefreshes,   \* and on the refreshes
          Hides(_, _, _)  \* Hides(p, o, c): from p, the centre of c is in the arc of o

ASSUME SightAssumption ==
    /\ IsFiniteSet(Units)
    /\ SightOf \in [Units -> Nat] /\ SightStarts \subseteq [Units -> Cells \cup {NoCell}]
    /\ Movers \subseteq Units /\ Comers \subseteq Units
    /\ Grounds \subseteq Cells /\ ObstacleHeight \in Nat
    /\ PoolSize \in Nat \ {0} /\ {MaxThreads, MaxRefreshes} \subseteq Nat

VARIABLES
    registered,      \* chars without its trees
    unitAt,          \* objPositions, NoCell for a unit that is nowhere
    teamSharedSight, \* the grids that a team's map holds as seen
    rules,           \* what the rules do: "play", "pass", "clear", "start", "closed"
    toSight,         \* units that the loop of refreshSightMaps has not come to
    count,           \* its next slot in the pool
    sighting,        \* the threads of getSight, by number
    refreshes,       \* how many there have been
    late,            \* teams whose map was cleared while a thread could write to it
    sightFailure     \* an exception in a thread, which ends the application

standingVars == <<registered, unitAt>>
refreshVars == <<toSight, count, refreshes, late>>
sightVars == <<registered, unitAt, teamSharedSight, rules, toSight, count, sighting,
               refreshes, late, sightFailure>>

SightTeams == {TeamOf[u] : u \in Units}
Unbroken == sightFailure = "none"

\* The slot of a thread of an earlier refresh; those of the pool count from 0.
NoSlot == PoolSize

Sighters == 1..MaxThreads
Ended == << >>
Running == {i \in Sighters : sighting[i] # Ended}

SightInit ==
    /\ unitAt \in SightStarts /\ registered = {u \in Units : unitAt[u] # NoCell}
    /\ teamSharedSight = [t \in SightTeams |-> {}]
    /\ rules = "clear" /\ toSight = {} /\ count = 0
    /\ sighting = [i \in Sighters |-> Ended] /\ refreshes = 0 /\ late = {} /\ sightFailure = "none"

Standing == {unitAt[u] : u \in registered} \ {NoCell}

Free == Grounds \ Standing

-----------------------------------------------------------------------------
(* What a unit sees: getSight walks around it in rings.                    *)

Square(n) == n * n

WithinSight(p, c, sight) == Square(c[1] - p[1]) + Square(c[2] - p[2]) <= Square(sight)

Up(n, Cell(_)) == [i \in 1..n |-> Cell(i - 1)]

\* The four loops of a ring: along the top and down the right edge, back along
\* the bottom and up the left edge, cut off at the edges of the board.
Ring(p, r) ==
    LET left == Max({0, p[1] - r})    right == Min({Width - 1, p[1] + r})
        top == Max({0, p[2] - r})     bottom == Min({Height - 1, p[2] + r})
    IN  (IF p[2] >= r
           THEN Up(Min({Width, p[1] + r}) - left, LAMBDA i : <<left + i, p[2] - r>>) ELSE << >>)
        \o (IF p[1] + r < Width
              THEN Up(Min({Height, p[2] + r}) - top, LAMBDA i : <<p[1] + r, top + i>>) ELSE << >>)
        \o (IF p[2] + r < Height
              THEN Up(right - left, LAMBDA i : <<right - i, p[2] + r>>) ELSE << >>)
        \o (IF p[1] >= r
              THEN Up(bottom - top, LAMBDA i : <<p[1] - r, bottom - i>>) ELSE << >>)

\* The looks of a unit with this sight that stands on p, in their order
Looks(p, sight) ==
    LET around == FlattenSeq([r \in 1..sight |-> Ring(p, r)])
    IN  FlattenSeq([k \in DOMAIN around |->
                       IF WithinSight(p, around[k], sight) THEN <<around[k]>> ELSE << >>])

LooksOf == [u \in Units |-> [p \in Cells |-> Looks(p, SightOf[u])]]

\* sightCalc: somebody stands there, or the terrain is too high to look over.
Obstacle(p, c) == c \in Standing \/ Terrain[c] - Terrain[p] > ObstacleHeight

-----------------------------------------------------------------------------
(* The rules that need new maps.                                           *)

Refresh == rules' = "clear"

MayPlay == Unbroken /\ rules = "play" /\ refreshes < MaxRefreshes

\* move, which refreshes also when it was refused
UnitMoves(u, c) ==
    /\ MayPlay
    /\ u \in registered /\ unitAt[u] # NoCell
    /\ unitAt' = [unitAt EXCEPT ![u] = c]
    /\ Refresh
    /\ UNCHANGED <<registered, teamSharedSight, refreshVars, sighting, sightFailure>>

\* checkCharacterDamage of a creep that dies.  Heroes and structures stay
\* where they are and see on: for them it is a move to their own grid.
UnitFalls(u) ==
    /\ MayPlay /\ u \in registered
    /\ registered' = registered \ {u}
    /\ unitAt' = [unitAt EXCEPT ![u] = NoCell]
    /\ Refresh
    /\ UNCHANGED <<teamSharedSight, refreshVars, sighting, sightFailure>>

\* nextTurn
TurnPasses ==
    /\ MayPlay /\ rules' = "pass"
    /\ UNCHANGED <<standingVars, teamSharedSight, refreshVars, sighting, sightFailure>>

\* The spawns of "BeginRound" and the revivals of "EndRound", without new maps
Placed(u, c) ==
    /\ Unbroken /\ rules = "pass"
    /\ registered' = registered \cup {u}
    /\ unitAt' = [unitAt EXCEPT ![u] = c]
    /\ UNCHANGED <<rules, teamSharedSight, refreshVars, sighting, sightFailure>>

\* Mutant of BeginTurn: the maps of the last turn will do.
MutantBeginTurn ==
    /\ Unbroken /\ rules = "pass" /\ rules' = "play"
    /\ UNCHANGED <<standingVars, teamSharedSight, refreshVars, sighting, sightFailure>>

\* The rule "BeginTurn"
BeginTurn ==
    /\ Unbroken /\ rules = "pass" /\ Refresh
    /\ UNCHANGED <<standingVars, teamSharedSight, refreshVars, sighting, sightFailure>>

\* GameState.close takes the characters away.
CloseGame ==
    /\ MayPlay /\ rules' = "closed"
    /\ UNCHANGED <<standingVars, teamSharedSight, refreshVars, sighting, sightFailure>>

-----------------------------------------------------------------------------
(* refreshSightMaps.                                                       *)

\* The loop begins: its pool is a new one, and whoever still runs is in no slot.
NewPool ==
    /\ refreshes' = refreshes + 1
    /\ toSight' = registered /\ count' = 0
    /\ sighting' = [i \in Sighters |->
                       IF i \in Running THEN [sighting[i] EXCEPT !.slot = NoSlot] ELSE Ended]
    /\ late' = {TeamOf[sighting[i].unit] : i \in Running}

\* Arrays.fill
ClearMaps ==
    /\ Unbroken /\ rules = "clear" /\ rules' = "start"
    /\ teamSharedSight' = [t \in SightTeams |-> {}]
    /\ NewPool
    /\ UNCHANGED <<standingVars, sightFailure>>

NextSlot == IF count = PoolSize THEN 0 ELSE count

\* One round of the loop: join the thread in the slot and start another one.
StartThread(u) ==
    /\ Unbroken /\ rules = "start" /\ u \in toSight
    /\ \A i \in Running : sighting[i].slot # NextSlot
    /\ Running # Sighters
    /\ sighting' = [sighting EXCEPT ![Min(Sighters \ Running)] =
                       [unit |-> u, slot |-> NextSlot, at |-> "position",
                        grid |-> NoCell, look |-> 1, obstacles |-> {}]]
    /\ count' = NextSlot + 1 /\ toSight' = toSight \ {u}
    /\ UNCHANGED <<standingVars, teamSharedSight, rules, refreshes, late, sightFailure>>

RefreshReturns ==
    /\ Unbroken /\ rules = "start" /\ toSight = {} /\ rules' = "play"
    /\ UNCHANGED <<standingVars, teamSharedSight, refreshVars, sighting, sightFailure>>

-----------------------------------------------------------------------------
(* getSight, on a thread of its own.                                       *)

LooksFrom(i) == LooksOf[sighting[i].unit][sighting[i].grid]

threadsOnly == <<standingVars, rules, refreshVars>>

\* Where does the unit stand?  There is no map of positions in a closed game.
LooksUpPosition(i) ==
    /\ Unbroken /\ i \in Running /\ sighting[i].at = "position"
    /\ LET u == sighting[i].unit IN
       \/ /\ rules = "closed" /\ sightFailure' = "game is closed" /\ UNCHANGED sighting
       \/ /\ rules # "closed" /\ UNCHANGED sightFailure
          /\ sighting' = [sighting EXCEPT ![i] =
                             IF unitAt[u] = NoCell THEN Ended
                             ELSE [@ EXCEPT !.at = "sight", !.grid = unitAt[u]]]
    /\ UNCHANGED <<threadsOnly, teamSharedSight>>

\* Its property "sight", which is null if the unit is not registered any more;
\* after that its own grid is seen.
LooksUpSight(i) ==
    /\ Unbroken /\ i \in Running /\ sighting[i].at = "sight"
    /\ LET u == sighting[i].unit IN
       \/ /\ rules = "closed" /\ sightFailure' = "game is closed"
          /\ UNCHANGED <<sighting, teamSharedSight>>
       \/ /\ rules # "closed" /\ u \notin registered /\ sightFailure' = "unit is gone"
          /\ UNCHANGED <<sighting, teamSharedSight>>
       \/ /\ rules # "closed" /\ u \in registered /\ UNCHANGED sightFailure
          /\ teamSharedSight' = [teamSharedSight EXCEPT ![TeamOf[u]] = @ \cup {sighting[i].grid}]
          /\ sighting' = [sighting EXCEPT ![i] =
                             IF LooksFrom(i) = << >> THEN Ended ELSE [@ EXCEPT !.at = "look"]]
    /\ UNCHANGED threadsOnly

\* sightCalc: the grid is seen unless it is in a shadow, and may cast one.
sightCalc(i) ==
    /\ Unbroken /\ i \in Running /\ sighting[i].at = "look"
    /\ LET s == sighting[i]
           c == LooksFrom(i)[s.look]
       IN  /\ teamSharedSight' = [teamSharedSight EXCEPT ![TeamOf[s.unit]] =
                 IF \E o \in s.obstacles : Hides(s.grid, o, c) THEN @ ELSE @ \cup {c}]
           /\ sighting' = [sighting EXCEPT ![i] =
                 IF s.look = Len(LooksFrom(i)) THEN Ended
                 ELSE [s EXCEPT !.look = s.look + 1,
                         !.obstacles = IF Obstacle(s.grid, c) THEN s.obstacles \cup {c} ELSE s.obstacles]]
    /\ UNCHANGED <<threadsOnly, sightFailure>>

Sighting(i) == LooksUpPosition(i) \/ LooksUpSight(i) \/ sightCalc(i)

SightNext ==
    \/ \E u \in Movers : \E c \in Free \cup {unitAt[u]} : UnitMoves(u, c)
    \/ \E u \in Comers : UnitFalls(u)
    \/ \E u \in (Comers \ registered) \cup (Movers \cap registered), c \in Free : Placed(u, c)
    \/ TurnPasses \/ BeginTurn \/ CloseGame
    \/ ClearMaps \/ RefreshReturns \/ \E u \in Units : StartThread(u)
    \/ \E i \in Sighters : Sighting(i)

SightSpec == SightInit /\ [][SightNext]_sightVars

-----------------------------------------------------------------------------
\* The loops along the bottom and up the left edge of a ring begin where the
\* corner has been cut off, and stop before 0: a unit that stands near the left
\* or the upper edge of the board does not see some grids of that edge.
LeftOut(p, c) ==
    \/ c[1] = 0 /\ c[2] > p[2] /\ p[1] < c[2] - p[2]
    \/ c[2] = 0 /\ c[1] < p[1] /\ p[2] < p[1] - c[1]

LookedAtBefore(u, p, o, c) ==
    \E j, k \in DOMAIN LooksOf[u][p] : j < k /\ LooksOf[u][p][j] = o /\ LooksOf[u][p][k] = c

\* What a unit sees from where it stands.
SeenBy(u) ==
    LET p == unitAt[u] IN
    {p} \cup {c \in Cells \ {p} :
        /\ WithinSight(p, c, SightOf[u]) /\ ~LeftOut(p, c)
        /\ \A o \in Cells : LookedAtBefore(u, p, o, c) /\ Obstacle(p, o) => ~Hides(p, o, c)}

SeenByTeam(t) == UNION {SeenBy(u) : u \in {v \in registered : TeamOf[v] = t /\ unitAt[v] # NoCell}}

\* When the threads of a refresh have ended, a team sees everything that its
\* units see from where they stand now, however the rules, the threads and the
\* moves of others interleave; and nothing else, unless a thread of the refresh
\* before was still writing to its map when that was cleared.
SightIsExact ==
    Unbroken /\ rules = "play" /\ Running = {} =>
        \A t \in SightTeams :
            /\ SeenByTeam(t) \subseteq teamSharedSight[t]
            /\ t \notin late => teamSharedSight[t] = SeenByTeam(t)
=============================================================================
