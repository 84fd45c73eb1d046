------------------------------- MODULE Desktop -------------------------------
(***************************************************************************)
(* The desktop edition: what a click on a grid does with a pending action, *)
(* and endRound, which visits the grids one by one, lets whoever stands    *)
(* there act, takes a round off the summons, and then begins the next      *)
(* round.  Units are told apart by who controls them.  Ranges, sight,      *)
(* points and damage are left open, except that a treant knows whether it  *)
(* still has all of its points.                                            *)
(***************************************************************************)
EXTENDS Integers, Sequences, Functions

CONSTANTS LastGrid,   \* grids are 0 .. LastGrid, in the order endRound visits them
          Spawn,      \* playerStartingXPos, playerStartingYPos
          Forest,     \* treeMap
          Hero,       \* the hero of the player, the only one
          Tree,       \* whatever tree
          Nobody,     \* no character
          Treants,    \* summons of Nature's Call, which the player controls
          Sprouts,    \* summons of Sprout, which cannot move nor attack
          Creeps,     \* creeps and structures of any team
          Duration,   \* rounds that a summon lasts
          DeathCounts \* calculateDeathCount at the levels a hero may have

Grids == 0 .. LastGrid
Summons == Treants \cup Sprouts
Units == {Hero, Tree} \cup Summons \cup Creeps

ASSUME DesktopAssumption ==
    /\ LastGrid \in Nat /\ Spawn \in Grids /\ Forest \subseteq Grids \ {Spawn}
    /\ Treants \cap Sprouts = {} /\ Summons \cap Creeps = {}
    /\ {Hero, Tree} \cap (Summons \cup Creeps) = {} /\ Hero # Tree /\ Nobody \notin Units
    /\ Duration \in [Summons -> Nat \ {0}] /\ DeathCounts \subseteq Nat \ {0}

VARIABLES
    stage,        \* "turn" of the user; endRound at "scan", "reset", "select"
    visited,      \* the grid that endRound visits
    on,           \* gridButtonMap: who stands on a grid
    left,         \* currentDuration of the summons
    rested,       \* treants that have all of their points
    playerPos,    \* Screen.user.player
    reviveQueue,  \* rounds until the hero revives
    ready,        \* readyToAct, readyToMove, readyToAttack, readyToCastSpell
    selected      \* selectedXPos, selectedYPos

desktopVars == <<stage, visited, on, left, rested, playerPos, reviveQueue, ready, selected>>

\* The board with new units, each on its grid of where.
Summoned(board, who, where) ==
    [g \in Grids |-> IF \E u \in who : where[u] = g THEN CHOOSE u \in who : where[u] = g
                                                    ELSE board[g]]

Begun == [g \in Grids |-> IF g = Spawn THEN Hero ELSE IF g \in Forest THEN Tree ELSE Nobody]

\* Creeps come later, structures stand there from the beginning.
DesktopInit ==
    /\ stage = "turn" /\ visited = 0
    /\ \E who \in SUBSET Creeps : \E where \in Injection(who, {g \in Grids : Begun[g] = Nobody}) :
           on = Summoned(Begun, who, where)
    /\ left = [u \in Summons |-> 0] /\ rested = {}
    /\ playerPos = Spawn /\ reviveQueue = << >>
    /\ ready = {} /\ selected = Spawn

-----------------------------------------------------------------------------
FreeGrids == {g \in Grids : on[g] = Nobody}
OnBoard(u) == \E g \in Grids : on[g] = u
IsPlayer(u) == u = Hero \/ u \in Treants
Walks(u) == IsPlayer(u) \/ u \in Creeps

Foes(u) == IF IsPlayer(u) THEN Creeps
           ELSE IF u \in Creeps THEN ({Hero} \cup Summons \cup Creeps) \ {u} ELSE {}

\* Mutant of SetPlayer: without the look whether it is the hero.
MutantSetPlayer(u, g) == IF IsPlayer(u) THEN playerPos' = g ELSE UNCHANGED playerPos

\* move and teleport: the player is where the hero is.
SetPlayer(u, g) == IF u = Hero THEN playerPos' = g ELSE UNCHANGED playerPos

\* checkIfHeroIsDead
HeroIsDead(u) ==
    IF u = Hero
      THEN /\ playerPos' = Spawn
           /\ \E n \in DeathCounts : reviveQueue' = Append(reviveQueue, n)
      ELSE UNCHANGED <<playerPos, reviveQueue>>

\* The bounty of a treant goes to the hero where the player is, and there must be one.
BountyThrows(u, board) == u \in Treants /\ board[playerPos] # Hero

-----------------------------------------------------------------------------
(* Clicks.  Whoever stands on the grid selected before is to act.          *)

Clicking == stage \in {"turn", "select"} /\ stage' = "turn" /\ UNCHANGED visited

Order == << "move", "attack", "spell" >>

\* The pending action that the chain of else-ifs comes to.
Doing(i) == "act" \in ready /\ Order[i] \in ready /\ \A j \in 1..(i - 1) : Order[j] \notin ready

Actor == on[selected]

\* The flags of an action that is over; others that are set stay.
Over(i) == ready' = ready \ {Order[i], "act"}

\* updateWhenNoActionInvoked, or readyToAct without any other flag.
ClickLooks(g) ==
    /\ Clicking /\ \A i \in 1..3 : ~Doing(i)
    /\ selected' = g
    /\ UNCHANGED <<on, left, rested, playerPos, reviveQueue, ready>>

\* Nobody there to act, or somebody who is no Hero to cast: an exception, which
\* leaves the flags as they are.
ClickThrows(g) ==
    /\ Clicking
    /\ Doing(1) \/ Doing(2) => Actor = Nobody
    /\ Doing(3) => Actor # Hero
    /\ \E i \in 1..3 : Doing(i)
    /\ selected' = g
    /\ UNCHANGED <<on, left, rested, playerPos, reviveQueue, ready>>

\* The grid that was selected before is meant, but its coordinates are taken one
\* grid further and with the present scroll position: some grid, or none.
Reselected == selected' \in Grids

ClickMoves(g) ==
    /\ Clicking /\ Doing(1) /\ Walks(Actor) /\ g \in FreeGrids
    /\ on' = [on EXCEPT ![selected] = Nobody, ![g] = Actor]
    /\ SetPlayer(Actor, g) /\ rested' = rested \ {Actor}
    /\ Over(1) /\ selected' = g
    /\ UNCHANGED <<left, reviveQueue>>

\* out of range, or not a free grid, or not enough points
ClickRefused ==
    /\ Clicking /\ Actor # Nobody
    /\ Doing(1) \/ Doing(2)
    /\ IF Doing(1) THEN Over(1) ELSE Over(2)
    /\ Reselected
    /\ UNCHANGED <<on, left, rested, playerPos, reviveQueue>>

ClickHits(g) ==
    /\ Clicking /\ Doing(2) /\ on[g] \in Foes(Actor)
    /\ rested' = rested \ {Actor}
    /\ Over(2) /\ Reselected
    /\ UNCHANGED <<on, left, playerPos, reviveQueue>>

\* attack, when it kills; without a hero the bounty of a treant throws.
ClickKills(g) ==
    /\ Clicking /\ Doing(2) /\ on[g] \in Foes(Actor)
    /\ rested' = rested \ {Actor}
    /\ IF BountyThrows(Actor, on)
         THEN selected' = g /\ UNCHANGED <<on, playerPos, reviveQueue, ready>>
         ELSE /\ on' = [on EXCEPT ![g] = Nobody] /\ HeroIsDead(on[g])
              /\ Over(2) /\ Reselected
    /\ UNCHANGED left

-----------------------------------------------------------------------------
(* Spells, cast by the hero.  In which range is left open.                 *)

Casting == Clicking /\ Doing(3) /\ Actor = Hero

Castless == UNCHANGED <<on, left, rested, playerPos, reviveQueue>>

\* cooling down, no points, out of range, no effect
CastRefused(g) == Casting /\ Over(3) /\ selected' = g /\ Castless

teleport(g) ==
    /\ Casting /\ g \in FreeGrids
    /\ on' = [on EXCEPT ![selected] = Nobody, ![g] = Hero]
    /\ SetPlayer(Hero, g)
    /\ Over(3) /\ selected' = g
    /\ UNCHANGED <<left, rested, reviveQueue>>

Away(S) == {u \in S : ~OnBoard(u)}

\* The durations when new summons have come.
Lasting(who) == [u \in Summons |-> IF u \in who THEN Duration[u] ELSE left[u]]

summonStationaryCreatures(g) ==
    /\ Casting
    /\ \E who \in SUBSET Away(Sprouts) : \E where \in Injection(who, FreeGrids) :
           on' = Summoned(on, who, where) /\ left' = Lasting(who)
    /\ Over(3) /\ selected' = g
    /\ UNCHANGED <<rested, playerPos, reviveQueue>>

\* attackAllEnemies, which does not ask whether the game has ended.
attackAllEnemies(g) ==
    /\ Casting
    /\ \E dead \in SUBSET {h \in Grids : on[h] \in Creeps} :
           on' = [h \in Grids |-> IF h \in dead THEN Nobody ELSE on[h]]
    /\ Over(3) /\ selected' = g
    /\ UNCHANGED <<left, rested, playerPos, reviveQueue>>

\* Trees become treants, or grass when there are too many.  The search does not
\* stop at the edge of the board, and there an exception leaves the flags.
convertTreeToCreatures(g) ==
    /\ Casting
    /\ \E cut \in SUBSET {h \in Grids : on[h] = Tree} :
       \E who \in SUBSET Away(Treants) : \E where \in Injection(who, cut) :
           /\ on' = Summoned([h \in Grids |-> IF h \in cut THEN Nobody ELSE on[h]], who, where)
           /\ left' = Lasting(who) /\ rested' = rested \cup who
    /\ Over(3) \/ UNCHANGED ready
    /\ selected' = g
    /\ UNCHANGED <<playerPos, reviveQueue>>

CastSpell(g) ==
    \/ CastRefused(g) \/ teleport(g) \/ summonStationaryCreatures(g)
    \/ attackAllEnemies(g) \/ convertTreeToCreatures(g)

\* GridFrame.invokeLeftClickEvent on a grid
invokeLeftClickEvent(g) ==
    \/ ClickLooks(g) \/ ClickThrows(g) \/ ClickMoves(g) \/ ClickRefused
    \/ ClickHits(g) \/ ClickKills(g) \/ CastSpell(g)

-----------------------------------------------------------------------------
(* Buttons and keys.                                                       *)

\* readyToMove and readyToAttack: a unit of the player is selected.
Press(flag) ==
    /\ stage = "turn" /\ IsPlayer(Actor)
    /\ ready' = ready \cup {"act", flag}
    /\ UNCHANGED <<stage, visited, on, left, rested, playerPos, reviveQueue, selected>>

\* playerHeroCastSpell: also for a treant, but the hero must be where the player is.
PressSkill ==
    /\ stage = "turn" /\ IsPlayer(Actor) /\ on[playerPos] = Hero
    /\ ready' = ready \cup {"act", "spell"}
    /\ UNCHANGED <<stage, visited, on, left, rested, playerPos, reviveQueue, selected>>

EndRound ==
    /\ stage = "turn" /\ stage' = "scan" /\ visited' = 0
    /\ UNCHANGED <<on, left, rested, playerPos, reviveQueue, ready, selected>>

-----------------------------------------------------------------------------
(* endRound.                                                               *)

Acting == on[visited]

GoOn ==
    IF visited = LastGrid THEN stage' = "reset" /\ visited' = 0
                          ELSE visited' = visited + 1 /\ UNCHANGED stage

\* An exception leaves endRound, and what has been done is done.
Abort == stage' = "turn" /\ visited' = 0

\* Mutant of MayAct: treants with points left act.
MutantMayAct(u) == u \in Creeps \/ u \in Treants

\* AICharacter: treants only if the user has not used them.
MayAct(u) == u \in Creeps \/ u \in rested

\* Which of move and attack the automation of u calls; both clear the flag of the
\* user's own action of that name.  A sprout may try a move to its own grid.
CallsOf(u) ==
    IF MayAct(u) THEN SUBSET {"move", "attack"}
    ELSE IF u \in Sprouts THEN SUBSET {"move"} ELSE {{}}

\* The board after u has moved from the visited grid to another, or stayed.
Walked(u, to) == [on EXCEPT ![visited] = Nobody, ![to] = u]

Tired(u, acts, to) ==
    rested' = IF to # visited \/ "attack" \in acts THEN rested \ {u} ELSE rested

\* A summon that still stands on the visited grid is a round older.
Aged(u, board) ==
    IF board[visited] = u /\ u \in Summons
      THEN /\ left' = [left EXCEPT ![u] = @ - 1]
           /\ on' = IF left[u] = 1 THEN [board EXCEPT ![visited] = Nobody] ELSE board
      ELSE on' = board /\ UNCHANGED left

\* Where u may go, and whom it may attack from there.
Turns(u) ==
    {play \in CallsOf(u) \X (FreeGrids \cup {visited}) :
        /\ play[2] # visited => "move" \in play[1] /\ MayAct(u)
        /\ "attack" \in play[1] => \E g \in Grids : on[g] \in Foes(u)}

VisitNobody ==
    /\ stage = "scan" /\ Acting \in {Nobody, Hero, Tree} /\ GoOn
    /\ UNCHANGED <<on, left, rested, playerPos, reviveQueue, ready, selected>>

\* The automation of whoever stands there, without a kill.
VisitActs ==
    /\ stage = "scan" /\ GoOn
    /\ Acting \in Summons \cup Creeps
    /\ \E play \in Turns(Acting) :
          /\ ready' = ready \ play[1] /\ Tired(Acting, play[1], play[2])
          /\ Aged(Acting, Walked(Acting, play[2]))
    /\ UNCHANGED <<playerPos, reviveQueue, selected>>

\* With a kill, the last attack of a turn.
VisitKills ==
    /\ stage = "scan" /\ GoOn
    /\ \E play \in Turns(Acting) : \E g \in Grids :
          LET board == Walked(Acting, play[2])
          IN  /\ "attack" \in play[1] /\ board[g] \in Foes(Acting)
              /\ ~BountyThrows(Acting, board)
              /\ ready' = ready \ play[1] /\ Tired(Acting, play[1], play[2])
              /\ HeroIsDead(board[g])
              /\ Aged(Acting, [board EXCEPT ![g] = Nobody])
    /\ UNCHANGED selected

\* With a kill whose bounty throws, or a creep without a target left to go to.
VisitThrows ==
    /\ stage = "scan" /\ Abort
    /\ \/ \E play \in Turns(Acting) :
             /\ "attack" \in play[1] /\ BountyThrows(Acting, Walked(Acting, play[2]))
             /\ on' = Walked(Acting, play[2]) /\ Tired(Acting, play[1], play[2])
             /\ ready' \in {ready \ play[1], ready \ (play[1] \ {"attack"})}
       \/ Acting \in Creeps /\ UNCHANGED <<on, rested, ready>>
    /\ UNCHANGED <<left, playerPos, reviveQueue, selected>>

(* The rest of endRound: points, revival, trees, creeps, and the selection. *)

\* The hero revives on the spawn point, whoever stands there.
Revived(board, queue) ==
    IF queue # << >> /\ queue[1] = 1
      THEN <<[board EXCEPT ![Spawn] = Hero], << >> >>
      ELSE <<board, [i \in DOMAIN queue |-> queue[i] - 1]>>

\* Tree.treeRevive, in some rounds: on every free grid of treeMap.
TreesRevived(board) ==
    [g \in Grids |-> IF g \in Forest /\ board[g] = Nobody THEN Tree ELSE board[g]]

\* spawnNewWave of both kinds of creeps: some, on free grids.
WaveSpawned(board) ==
    LET room == {g \in Grids : board[g] = Nobody}
    IN  UNION {{Summoned(board, who, where) : where \in Injection(who, room)} :
                  who \in SUBSET (Creeps \ {board[g] : g \in Grids})}

\* Everybody gets his points back before the revival, which tells no treant.
NextRound ==
    /\ stage = "reset" /\ stage' = "select"
    /\ rested' = {u \in Treants : OnBoard(u)}
    /\ LET revival == Revived(on, reviveQueue)
       IN  /\ reviveQueue' = revival[2]
           /\ \E trees \in {revival[1], TreesRevived(revival[1])} : on' \in WaveSpawned(trees)
    /\ UNCHANGED <<visited, left, playerPos, ready, selected>>

\* The last click was beside the grids, or on a grid: endRound clicks there again,
\* at its coordinates on the screen, wherever they lie now.
Reselect ==
    \/ /\ stage = "select" /\ stage' = "turn"
       /\ UNCHANGED <<visited, on, left, rested, playerPos, reviveQueue, ready, selected>>
    \/ stage = "select" /\ \E g \in Grids : invokeLeftClickEvent(g)

DesktopNext ==
    \/ stage = "turn" /\ \E g \in Grids : invokeLeftClickEvent(g)
    \/ \E flag \in {"move", "attack"} : Press(flag)
    \/ PressSkill \/ EndRound
    \/ VisitNobody \/ VisitActs \/ VisitKills \/ VisitThrows
    \/ NextRound \/ Reselect

-----------------------------------------------------------------------------
\* Every variable keeps its type, and nobody stands on two grids.
DesktopTypeOK ==
    /\ stage \in {"turn", "scan", "reset", "select"}
    /\ visited \in Grids
    /\ on \in [Grids -> Units \cup {Nobody}]
    /\ left \in [Summons -> Nat]
    /\ rested \subseteq Treants
    /\ playerPos \in Grids
    /\ reviveQueue \in Seq(DeathCounts \cup Nat)
    /\ ready \subseteq {"act", "move", "attack", "spell"}
    /\ selected \in Grids
    /\ \A g, h \in Grids : on[g] = on[h] => g = h \/ on[g] \in {Nobody, Tree}

\* Hero, player and queue are three records of one fact, kept by move, teleport,
\* checkIfHeroIsDead and endRound: the hero is where the player is said to be and
\* waits for no revival, or he is nowhere, waits for one and the player is at the
\* spawn point; whatever treants, which the player controls too, do meanwhile.
HeroInOnePlace ==
    \/ reviveQueue = << >> /\ {g \in Grids : on[g] = Hero} = {playerPos}
    \/ Len(reviveQueue) = 1 /\ ~OnBoard(Hero) /\ playerPos = Spawn

\* "reduce the current duration for summon character" is done where endRound
\* comes to it: one that walks ahead of it is counted twice, one that walks back
\* behind it not at all.  However a summon walks, and whichever endRounds throw:
\* if rounds go on ending, it is gone one day.
SummonsExpire ==
    []<>(stage = "scan") /\ []<>(stage = "reset") =>
        \A u \in Summons : OnBoard(u) ~> ~OnBoard(u)

\* "execute player's hero's action if previously selected character is controlled
\* by player": no click walks a creep to another grid.
OnlyOwnUnitsAct ==
    [][stage = "turn" \/ stage = "select" =>
          \A c \in Creeps, g, h \in Grids : on[g] = c /\ on'[h] = c => g = h]_desktopVars

DesktopSpec == DesktopInit /\ [][DesktopNext]_desktopVars
=============================================================================
