# Dot-A-Grid: a TLA+ model of the game

Dot-A-Grid is a turn-based strategy game in two editions: an Android game (`src/android`, Java with a
native support library) and a desktop game (`src/javaADT`, Swing). The rules are written down in
`src/Game Logic & Basic Game Rules.txt`. This directory models the Android edition: its game logic, the
application around it and its native objects; and of the desktop edition what a click and the end of a round do
to the units on the board. TLC checks the model, TLAPS proves parts of it.

Both editions have classes of the same names. In the following, a class without a path is one of
`src/android/src/edu/nus/comp/dotagridandroid/`, except where the desktop edition is named.

## 1. The system

### Components of the Android edition

| Component | State | Operations | Interacts with | Correct if |
|---|---|---|---|---|
| Board (`GameState`, `BasicGameMaster`) | `objPositions`, `posReverseLookup`, `chars`, terrain | `setCharacterPosition`, `addCharacter`, `removeCharacter`, `move`, `getNearestFreeGrid`, `getLowestMoveAPConsumptionMap`, the spawns of "BeginRound", the revivals of "EndRound" | every rule goes through it | both maps agree, nobody is lost, every step costs |
| Turn engine (`GameState`) | `roundOrder`, `currentCharacter`, `roundCount`, `automatonThread` | `nextTurn`, the automaton thread's `run`, `close`, `initialise` | calls the rules; is called by the user thread, by automaton threads, by the script engine | one thread at a time plays, everybody gets a turn, `close` waits |
| Fights (`BasicGameMaster`, `GameCharacter`, `Hero`) | hit points, action points, `roundsToRevive`, money, experience, `teamStrength` | `requestActionPossible`, `attack`, `checkCharacterDamage`, `autoTower`, the rules "EndTurn" and "EndRound" | asks the board who stands where and the sight maps who is seen; notifies the scene of the verdict | structures fall in order and for good, nobody is between life and death, the verdict is right |
| Waves (`BasicGameMaster`) | `teamCreepLevel`, round number, barracks that stand | rule "BeginRound" | reads what the fights have destroyed; puts creeps on the board and in the queue | waves never weaken, fronts keep pace |
| Line creep automation (`BasicGameMaster.autoLineCreep`) | the creep's checkpoints, `teamEnemyAttackPrioritised`, two queues | one turn of a line creep | searches the board, attacks, moves | the turn ends, no points are lost on targets that are gone |
| Sight (`refreshSightMaps`, `getSight`, `SegmentNode`) | `teamSharedSight`, a pool of threads, a tree of shadows | recalculation after moves, deaths and at "BeginTurn" | read by `requestActionPossible` | the map shows what the units see |
| Attributes (`GameCharacter`, `Hero`, `Item`, `CalculateLevelInfo`) | about thirty numbers per character | setters that clamp; `updateProperties` | written through `setCharacterProperty`, by reflection | numbers stay in their bounds |
| Application (`Main`, `GameLogicManager`, `MainSceneRenderer`, scenes) | current scene, current game, ready state | scene switch, events, life cycle | passes events to `GameState.processEvent`, is notified of updates | a scene shows its own game, buttons reach their scene, closing ends |
| Script engine (`ExtensionEngine`, native) | a JavaScript isolate, its lock, a delegate | lets scripts call `nextTurn` and the setters | optional replacement of the game master | one thread at a time runs a script and gives the lock back |
| Native resources (`ResourceManager.cpp`) | OpenGL buffers and textures by name | load, draw, delete | held by `GameState`, used by the renderers | draws stay within their buffer, nothing leaks |
| Sound (`SoundEngine.cpp`) | OpenSL objects, a queue of buffers | create, play, destroy, callback | `GameLogicManager`, the life cycle of `Main` | parents outlive children, what plays is live memory |
| Renderers and mathematics | OpenGL state | drawing | | |

### Components of the desktop edition

| Component | State | Operations | Interacts with | Correct if |
|---|---|---|---|---|
| Rounds and characters (`GameButtonActions`, `Character`, `Hero`, `CharacterActions`) | `gridButtonMap`, `Screen.user.player`, `reviveQueue`, points | `move`, `attack`, `checkIfHeroIsDead`, `endRound` | called by clicks and by the automation | hero, player and queue tell the same story |
| Creeps and automation (`AICharacter`, `FindPath`, `LineCreepSpawnPoint`, `NeutralCreepSpawnPoint`) | targets, sight maps, waves | one visit of `endRound`, new waves | uses `move` and `attack`, and the fields of the user's own actions | whoever is alive acts |
| Items and skills (`Item`, `ItemActions`, `Skill`, `SkillActions`, `SummonCharacter`) | inventory, cooldowns, `currentDuration` | the four spells, shop, upgrade | puts summons on the board, which `endRound` takes away | summons go away |
| Frame and input (`GridFrame`, `GridButtonActions`, `Screen`) | the flags `readyToAct`, `readyToMove`, `readyToAttack`, `readyToCastSpell`; selection, scroll position | clicks, buttons | `endRound` repeats the last click | only units of the user act for the user |
| Databases | tables of constants | | | |

The iOS directory is a prototype without game logic; `libpng`, `libzip`, `libwebsockets`, `jsoncpp` and `v8` are
vendored: of the 81 000 lines of C and C++ below `src/android/jni` about 2 600 are the game's own, the rest of
the program is Java.

### Hard behaviours

* **Threads.** The turn of an automated character runs on a thread of its own, which ends by calling
  `nextTurn` itself. `nextTurn` is not synchronized and publishes `currentCharacter` while it is still looking
  for a living character; the user thread reads that field to decide whether the user may act. `close` spins
  on a field that `nextTurn` assigns only after the thread it names has started. `refreshSightMaps` leaves
  threads behind that write to maps which the next refresh clears. OpenSL calls back on a thread of its own,
  OpenGL draws on another.
* **Order.** Who may be attacked depends on what has fallen before; the verdict is asked for at the end of
  every turn and the game goes on afterwards. Native objects have to be destroyed in the order of their
  dependence. Scenes are switched by the thread that ends the game.
* **Partial failure.** Positions are kept in two maps; `setCharacterPosition` fails silently; "BeginRound" can
  be left by an exception between two fronts; a model file can fail in the middle of an index.
* **Limits.** Searches for a free grid have a limit, action points are truncated from `double` to `int`, hit
  points are clamped, levels and wave sizes are capped.
* **State of two actors in one field.** On the desktop the automation calls the same `move` and `attack` as the
  user, with the user's pending action half entered; the end of a round visits grids while units walk between
  them, and repeats the user's last click at the end.
* **Liveness.** The loops of `nextTurn`, `autoTower` and `autoLineCreep` must end, the turn must come back
  to the user, a closing game must close, sound must stop, and what was summoned for some rounds must go.

Every hazard is listed in `PROJECT.json` at its line, with the properties that cover it or the reason why none
does.

## 2. Modules

| Module | Models | State and actions in the code |
|---|---|---|
| `Grid` | the board's geometry, the free-grid search, the price map of moves | operators; `getNearestFreeGrid` picks the first grid of the diamond search by the order in which the loops visit grids, `getLowestMoveAPConsumptionMap` is the fixed point that the queue of the code reaches |
| `FloodFill` | that queue: one call of `getLowestMoveAPConsumptionMap` | `PricesNeighbours` is one round of its loop, with the four directions in the order of `dirs`; `call` is what it is given and what it reads of the board, which does not change while it runs |
| `GameBoard` | who stands where | one action per rule that changes a position: `Move`, `removeCharacter`, `EndRoundOf` (one character of the loop of "EndRound"), `SpawnCreep` (one creep of "BeginRound"), and the exceptions they run into. `phase` and `todo` are the position within a loop over a hash map, so that every order is explored |
| `Sight` | the sight maps and their threads | the calls of `refreshSightMaps` by `move`, by deaths and by "BeginTurn"; one action per thread started and per grid looked at. `Ring` walks around a unit as the four loops of `getSight` do |
| `SegmentTree` | the tree of shadows of one look around | `SegmentNode` with `insert`, `balance`, `find` and `findContaining`; the way down and back up of an insertion (`Way`, `Grown`) and the nodes that a search asks (`AskedFor`, `AskedToContain`) are functions of the depth; `sightCalc` adds arcs |
| `TurnEngine` | `nextTurn` and its threads | one action per statement that reads or writes a shared field (`CheckHead`, `Rotate`, `AddBack`, `Scan`, `Look`, `Skip`, ... `Launch`, `Assign`, `Yield`); `run` of the automaton thread; `Close`, `CloseIsAlive`, `Initialise`; the user's `PressNextTurn` and kills between any two statements |
| `Rounds` | what the turn engine promises (abstract) | a queue of turns that goes round, out of which only the dead drop |
| `FrontLine` | what the structures promise (abstract) | the set of standing structures; they fall one at a time, unprotected, for good |
| `Combat` | fights, deaths, rewards, revivals, verdict | `PlayerAttacks`, `CreepAttacks`, the four steps of `autoTower`, `TurnEnds` with the rule "EndTurn", `TurnBegins`, `RoundPasses` with "EndRound" and "BeginRound" |
| `Waves` | what "BeginRound" spawns | `BeginRound`, `BeginSiegeRound` (the round that throws), `BarrackFalls` |
| `LineCreep` | one turn of a line creep | the scan for enemies, the queue of targets that is never cleared, attacks, the approach, the checkpoints and the end of the loop |
| `Scenes` | scenes, games and the life cycle | the locks of `MainSceneRenderer`, `switchScene` from three threads, the ready states, `onSurfaceCreated`, `onStop`, the buttons |
| `SoundEngine` | the objects of OpenSL and the life cycle that makes and destroys them | one action per statement of the destructor, the callback of the queue player, plays and stops of sounds |
| `Resources` | the objects of OpenGL of one or more resource managers | reading an index entry by entry, broken files, `refreshResource`, the destructor, draws |
| `ScriptEngine` | who runs scripts | `applyRule` before and under the recursive lock, the delegate, re-entry through `turnNextRound`, destruction |
| `Desktop` | the desktop edition: clicks, pending actions, spells, summons, deaths and `endRound` | `invokeLeftClickEvent` with one disjunct per way a click ends (`ClickMoves`, `ClickHits`, `ClickKills`, `ClickRefused`, `ClickThrows`, `ClickLooks`, and the four spells); the buttons (`Press`, `PressSkill`, `EndRound`); one `Visit...` per grid that `endRound` comes to, `NextRound` for revival, trees and waves, and `Reselect` for the repeated click. `on` is `gridButtonMap`, `ready` the four flags, `left` the `currentDuration` of summons |
| `MCGameBoard`, `MCCrowd`, `MCSight`, `MCTurnEngine`, `MCCombat`, `MCWaves`, `MCLineCreep`, `MCDesktop`, `MCParts` | | instances for TLC |
| `GameBoard_proofs`, `TurnEngine_proofs`, `Combat_proofs`, `LineCreep_proofs`, `Desktop_proofs`, `Sight_proofs`, `SegmentTree_proofs` | | theorems about the module of that name |
| `Parts_proofs` | | theorems about `Waves`, `Scenes`, `SoundEngine`, `Resources` and `ScriptEngine`, and about all parts of `MCParts` side by side |

`GameBoard`, `Combat` and `Sight` are views of the same rules: the first knows positions and leaves open who
dies, the second knows hit points and leaves open who stands in whose reach (an attack "may or may not be in
sight"), the third knows positions and who is registered and leaves open why they change. Each action of one
over-approximates what the others decide, so that an invariant of any of them holds of the program.
`TurnEngine` leaves all of this open and knows only who is registered and alive. `Combat` takes one whole
`nextTurn` as `TurnEnds` and `TurnBegins`, which `TurnEngine` justifies: one thread at a time plays
(`OneTurnAtATime`). `Waves` leaves open which barrack falls when. `LineCreep` is one turn of one creep among
enemies that it may kill or lose sight of; `Combat` has what such turns do to the rest. `Scenes` knows a game
by who holds it and whether its automaton plays or ends it, which stands for `TurnEngine`: that the turn always
comes back from the automaton (`TurnComesBack`, if automations return) is the strong fairness that `Scenes` assumes of it.
`Desktop` knows who controls a unit and where it stands; ranges, sight, points and damage are left open, so that
a click may be refused and an attack may kill whatever the numbers say, except that a treant knows whether it has
all of its points, which decides whether the automation plays it.

Definitions named `Mutant...` are not part of the model. Each is a plausible error in the definition it
precedes and is there to see that a property notices it (`PROJECT.json`, "mutants").

### What is abstracted

* Sight, reach and damage in `Combat`: any target may be in reach; damage is any member of `Damages`, 0
  included (`getActualDamage` truncates to an `int`).
* Prices are counted in fractions `1/Unit` of an action point, so that the truncation of the remaining points
  is an integer division, as exact as the code's `(int)`.
* Names are model values. A name for a new creep is any that nothing in the program mentions any more (the code
  draws UUIDs).
* Numbers of rounds, levels and hit points are small; where the code has `2^31` there is no arithmetic close to
  it with the configuration shipped in `src/android/dotagrid_data`.
* Trees are never moved, attacked or controlled; they are among the `Fixtures` of `GameBoard`. In `Sight` they
  are terrain that is too high to look over.
* `Sight` takes `setCharacterPosition` as one step. The moment in which the mover stands nowhere can only be
  seen by threads of an older refresh, about whose teams `SightIsExact` promises less (`late`). The maps are
  plain arrays; that one thread sees what another one has written only after a join, as the Java memory model
  has it, is not modelled.
* `Sight` asks `Hides` what an obstacle hides and `SegmentTree` orders arcs by integers: angles are `double` in
  the code, and rounding is left out. `MCSight` has the geometry of squares for `Hides`. That no grid covers one
  looked at before it, which the guards of `CastsShadow` and `CastsWideShadow` take for granted, is proved of the
  squares around an eye (`NoneCoversEarlier`), and TLC confirms it on a 9 x 9 board (`MCNoneCovers`). What `ArcAssumption` says of arcs follows from where the corners of grids
  are: none lies on the axis through the middle of the eye's grid, so that no arc begins or ends at the angle 0,
  and an arc is wide exactly if its ends are more than half a circle apart.
* `Scenes` has three surfaces, no drawing, and of the dialogs only what switches scenes. `SoundEngine`,
  `Resources` and `ScriptEngine` take the calls of OpenSL, OpenGL and V8 by what the code relies on; these
  definitions are marked external.
* `Desktop` takes a spell as one step and has one attack that kills per turn of the automation, the last one.
  Trees come back in any round in which their grid is free.

## 3. Runs

| Run | Checks | Outcome |
|---|---|---|
| `board` (`GameBoard.cfg`, `MCSight`) | `TypeOK`, `SightIsExact`, `ShadowsAreExact`, `NobodyLost`; `WalkingCosts` | holds; 717 551 states, of which 108 104 are the board's and 49 986 the shadows' |
| `board_crowded` (`GameBoardCrowded.cfg`, `MCCrowd`) | `PositionsConsistent`, `PricesAreLowest` | holds; 427 723 states, of which 3 793 are the price map's |
| `turns` (`TurnEngine.cfg`) | `TypeOK`, `RoundOrderNotCorrupted`, `NoThreadFindsNull`, `OneTurnAtATime`, `CloseWaits`; `HandOverEnds`, `TurnComesBack`, `TurnsGoRound` | holds; 221 591 states |
| `turns_eager` (`TurnEngineEager.cfg`) | `RoundOrderNotCorrupted` | violated |
| `combat` (`Combat.cfg`) | `TypeOK`, `NoZombies`, `FallInOrder`, `VerdictIsRight`; `LineHolds`, `TowerRests` | holds; 254 010 states |
| `combat_rewards` (`CombatRewards.cfg`) | `KillsAreRewarded` | violated |
| `combat_corpse` (`CombatCorpse.cfg`) | `WaitingGetsShorter` | violated |
| `waves_siege` (`WavesSiege.cfg`) | `SiegeCreepsSpawn` | violated |
| `line_creep` (`LineCreep.cfg`) | `TypeOK`, `StrandedOnlyBroke`; `StaleTargetsSpared`, `EndsUnlessStranded` | holds; 14 900 states |
| `line_creep_stuck` (`LineCreepStuck.cfg`) | `TurnEnds` | violated |
| `parts` (`Parts.cfg`) | `TypeOK`, `GameBehindScene`, `StatisticsOfAnEnd`, `ButtonsReachTheirScene`, `ParentsOutliveChildren`, `PlaysFromLiveMemory`, `DrawsWithinBuffer`, `NothingElseLeaks`, `OneScriptAtATime`, `FrontsKeepPace`, `HeroInOnePlace`; `ClosingEnds`, `FallsSilent`, `WavesNeverWeaken`, `SummonsExpire` | holds; 328 237 states |
| `desktop_pending` (`DesktopPending.cfg`) | `OnlyOwnUnitsAct` | violated |

The six violations are the findings of `PROJECT.json`, each against a sentence of the rules, a comment or the
code's own exception. Two more deviations of "BeginRound" from the rules need no run to be seen. The condition
of `BasicGameMaster.java:469` groups `&&` and `||` so that a ranged creep gets the upgrade of its species
whether or not the opponent's barrack for ranged creeps has fallen (the rules, line 250, ask for that barrack).
And `:424` raises a team's creeps to the maximum level as soon as *one* front of the opponent has lost its
barracks, where the rules, lines 258-259, say it of all of them. `Waves` models both as the code has them.

### Bounds

* `board`: a 3 x 2 board with a cliff and a ridge, two heroes, a tower and two line creeps: the diamonds around
  the spawn points hold exactly as many grids as there are characters, so that the search for a free grid is
  driven to its last candidate. A step costs one and a half points out of two and climbing a whole point more,
  so that truncation happens, reaches 0, and some grids are out of reach. `ReviveRounds = 2` lets two heroes
  wait and revive in the same round or in different ones. The two creeps are interchangeable (symmetry). The
  sight maps are explored on the same board by themselves: three units of two teams, on a column of which a hill
  rises, and a pool of two threads where the code has three, so that the third unit already waits for the first
  (`PoolSize`); at most three threads live at a time (`MaxThreads`), and two refreshes overlap (`MaxRefreshes`),
  of which the second finds what the first left behind. The tree of shadows takes its arcs from ten narrow and
  one wide one whose ends are integers from 0 to 9 around the circle, at most eight at a time (`MaxArcs`): trees
  of up to eight nodes in every order of insertion, which the rebuilding of `balance` visits with both an even
  and an odd number of nodes.
* `board_crowded`: the board of `board` with a hill along its upper row and a third line creep, one character more
  than the diamonds have grids. Searches fail, characters stand nowhere, "EndRound" and "BeginRound" throw, and
  the run stops there: deadlock is not checked. By itself, on the same board, the queue that prices grids: every
  choice of the grids where somebody stands, the start among them, a step that costs one or two, and points that
  reach the neighbours only, some of the grids or all. The grid on the hill that is diagonal to the start is
  priced from below before it is from the side. A call ends with its queue empty.
* `turns`: the hero of the user, one tower and two line creeps, on three threads besides the user's. A thread that
  has handed over may still be about to record its child while that child has played, handed over and ended: with
  three threads an assignment overtakes another one, names a thread that has ended, or comes in the middle of a
  later turn, and three threads wait to assign at once. A fourth thread was tried once and showed nothing
  else; the proofs are for any number. `SpawnEvery = 2` gives rounds with and without spawns and
  `ReviveRounds = 2` makes `nextTurn` pass whole rounds with nobody alive. After an exception the game has
  stopped: deadlock is not checked. `turns_eager` has one creep less; its counterexample needs none.
* `combat`: two towers, a barrack and an ancient in one front, the player's own ancient in another, a hero of
  each team and a creep of the enemy. The hero has two hit points and everybody else one, an attack does no
  damage or one point, and everybody has one more action point than an attack costs: attacks without effect,
  targets that die in the middle of a turn, and turns that end for lack of points or of targets all happen.
  Purses are empty in this run (no bounty), as no property of it depends on them; `combat_rewards` has
  bounties, with `MaxMoney` as the bound.
* `waves_siege`, and the waves among the parts of `parts`: two teams with two fronts and two barracks for each
  front; waves in every second round, a level up in every third (maximum 3), siege creeps in the eighth round,
  which is the last. The shipped configuration has the same relations on a larger scale (10, 200, 50, maximum
  30). Any barrack may fall between any two rounds.
* `line_creep`: a board of 4 x 3 with a hill along one edge and two cliffs, a tree, a creep's friend, and three
  enemies: a creep that takes two blows and leaves the board, a tower, and a barrack that is protected while
  the tower stands. Checkpoints are at both ends, so that a creep turns round. Six points and an attack for two
  give turns of several rounds of the loop with queues that hold targets of earlier rounds.
  `line_creep_stuck` is the same board with the numbers of the game in 1/10000: 100 points, 50.467 for an attack
  and 9.5479 for a walk.
* `parts`: six parts (scenes, sound, resources, scripts, waves, desktop) which share no state that a property is
  about; each is explored by itself and the others stand still (`part`). Three surfaces make a renderer stale twice; two taps overlap. The queue of the
  player has four buffers where the code has ten, which fills and empties within a run. An index names two
  models, one of them twice, and one texture, in at most three buffers and two textures. Three threads enter the
  script engine, which comes back into itself up to twice under its recursive lock. The desktop has a row of three
  grids with the hero on the second and a tree on the third, a treant that lasts two rounds, a sprout that lasts
  one and a creep: a unit can stand before, on and after the grid that `endRound` visits, and summons can walk
  ahead of it and back behind it. The hero waits one or two rounds for his revival. With four grids (281 809
  states of the desktop alone) the same properties hold. `desktop_pending` is the desktop by itself.

### Fairness, and what is assumed about scheduling

* `TurnEngine`: every thread that can run does (weak fairness of each thread's next statement), because they
  are ordinary Java threads that never block. Nothing is assumed about how long the rule "Automation" takes or
  whether it returns: `TurnComesBack` has as its premise that it does (`AutomationsReturn`). `TowerRests` shows
  that for towers and `EndsUnlessStranded` for line creeps, except where `line_creep_stuck` shows that it does
  not. Nothing is assumed about the user, who need never press anything.
* `Combat`: the thread of a tower runs until its turn is over. `LineCreep`: so does that of a creep.
* `GameBoard`, `FloodFill`: nothing.
* `Sight`: nothing; `SightIsExact` is about the states in which the threads have ended.
* `Scenes`: the user's thread finishes what it has begun (weak fairness of `BackToWelcome` and `GameStopped`), an
  automaton that is back from its automation hands over (weak fairness), and if automatons are back again and again
  one of them hands over to the player (strong fairness of `HandOver("player")`), which is what `TurnComesBack` of
  `TurnEngine` says. An automation need not end (no fairness of `AutomationIsOver`): `ClosingEnds` then has `close`
  wait for ever. `ClosingEnds` is about closing by the buttons of the game; see below for the button that does not
  end.
* `SoundEngine`: OpenSL finishes the buffer it plays and calls back, and a destructor that has begun goes on.
* `Waves`, `Resources`, `ScriptEngine`, `Desktop`: nothing. `SummonsExpire` has as its premise that rounds begin
  and come to their end again and again: one that throws may well be followed by others.
* The run `turns` assumes a **patient user** (`EagerUser = FALSE`: no input while another thread is inside
  `nextTurn`, but for its last statement). `turns_eager` shows what goes wrong without. Nothing is assumed
  about the thread that starts another one: it may execute the statement after `Thread.start` (513) at any later
  time.

### What goes wrong

Four things go wrong that contradict no line of documentation. They are hazards and not findings, and the properties
name them as their exceptions.

* `close` returns while a character plays (`CloseWaits`). A thread starts its child (512) and is so slow to record
  it (513) that the child plays its turn, hands over and ends in between. The late assignment then puts the dead
  thread over the one that plays; `close` sees a dead thread and releases the game. `overtaken` remembers that an
  assignment was that late, and `CloseWaits` says that nothing else makes `close` return early. A thread that still
  plays in a closed game throws at the first field that is null, or goes on in the next game: `TurnEngine` follows
  it no further (`failure = "closed in play"`). What is said of queues, turns and lookups is said of behaviours up
  to there.
* The closed game is drawn (`GameBehindScene`). `onStop` closes the game and leaves it the current one, and nothing
  tells the rendering thread to pause. A frame that is loaded or drawn before the surface is gone asks the closed
  game for a texture, and `GameState.getModelTexture` (535) throws, because `resMan` is null. `GameBehindScene` says
  that this is the only moment: a frame on the screen, a touch and a notification find an open game.
* The Back button of the statistics holds the lock of the renderer while `close` waits for the automaton, and an
  automaton that ends the game at that moment needs the same lock in `switchScene`: neither goes on (`Deadlocked`,
  in `ClosingEnds`). `close` also waits for ever if an automation never ends, as that of `line_creep_stuck`.
* After a rotation the scene that a button was laid out for can be another one than the scene that is drawn
  (`ButtonsReachTheirScene`).

## 4. Proofs

All theorems are checked by `tlapm` for every value of the constants that satisfies the assumptions in the
modules (`GridAssumption`, `BoardAssumption`, `CombatAssumption`, ...). Each proof states an inductive invariant,
proves that the initial predicate has it and that every action keeps it, with one step per action, and
derives the properties from it.

`GameBoard_proofs`. `IInv == TypeOK /\ PositionsConsistent /\ OnlyRegistered /\ Bookkeeping /\ NobodyLost`.
`PositionsConsistent` alone is not inductive: it needs to know that whoever is visited by a loop is registered
and that whoever is to be spawned is not (`Bookkeeping`). The lemma `NearestFreeGrid` says what the diamond
search returns, `PriceType` that every grid but the start has a positive price, `Truncation` that the remaining
points stay within bounds and shrink, `SetPosition` what one call does to both maps, and `RoomLeft` is the
counting argument: as long as one character stands outside of a diamond, the others cannot fill it. From the
invariant follow `TypeCorrect`, `PositionMapsAgree`, `NoGhosts`, `NobodyIsLost`, and the action property
`EveryMovePays`.

The same module has the proofs about `FloodFill` (`LowestPrices`, `FloodTypeCorrect`,
`RoundsAreFinite`): on any board, and whatever
the order in which the queue comes to the grids, what it leaves are the prices of `Grid`, which every other module
takes for the result of the call.

* `FloodInv` says that a grid with a price waits in the queue or has no lower price for a neighbour, that every
  price is that of a step out of a grid with a price, and that grids with a price are within `Reachable`. With an
  empty queue the grids with a price are closed under steps, and so are all of `Reachable` (`ReachableIsLeast`).
* That `Reachable`, after as many waves as there are grids, is closed under steps itself (`ReachableIsClosed`) is a
  counting argument: each wave reaches one grid more or is the last one, and there are no more grids than waves
  (`CellsFinite` numbers them row by row as the arrays of the code do). It is needed to see that the queue never
  leaves `Reachable`, and it shows that `Grid` gives the price of every grid that can be walked to.
* A round lowers a price or leaves one grid less in the queue, and prices never rise (`RoundsAreSpent`): as the loop
  waits for nobody, a call returns.

`Combat_proofs`. `IInv == TypeOK /\ Kinds /\ NoZombies /\ FallInOrder /\ VerdictIsRight`, where `Kinds` says
which values of `roundsToRevive` heroes, creeps and structures can have. `NoZombies` is what makes the others
inductive: a structure that is not alive has no hit points *and* the count -1, so that the end of a round neither
revives nor regenerates it. `OrderIsKept` shows that order and verdict depend only on which structures have
fallen, and `AttackFells` that an attack fells its target, unprotected, or nothing; with these
`CombatImplementsFrontLine` proves the refinement of `FrontLine`, and `DefeatIsFinal` the action property.

`TurnEngine_proofs`, under the assumption of the patient user (`~EagerUser`), in two layers.

* The threads: `IInv == ThreadTypes /\ Alone /\ NotThePlayer /\ ClosedInv /\ ThreadInv`. At most one thread plays or
  hands over (`Alone`), and it does not play for the user (`NotThePlayer`); any number of others may still have to
  assign the child they have started. What `close` would see is `Awaited`: while a worker plays, `automatonThread`
  names it, or names a thread that has started it and not recorded it yet and is therefore alive, or the user's own
  thread has not, or an assignment was overtaken. `ClosedInv` adds to `CloseWaits` that the exception ends the
  behaviour. `OneTurn` and `CloseIsSafe` follow.
* The queue: `OrderInv` says of the only thread that can be within the loop of `nextTurn` what it carries
  (`CarryInv`: what was polled and not yet added again is in no other place), that nobody is in the queue twice and
  that all who live are in it or carried (`QueueInv`), that only creeps are ever missing from the registered
  (`Mortals`), what a thread that has read the head knows of it although others may be killed meanwhile (`AtHead`),
  and whose turn it is (`PlaceInv`). From both layers follow `TypeCorrect`, `RoundOrder`, `NoNull` and
  `NobodyDropsOut` (everyone who lives is in the queue once or carried by one thread), and step by
  step the refinement of `Rounds` (`Refinement`, whose property is `TurnsGoRound`). The abstract queue is the
  concrete one with what a thread carries put where `Rounds` has it (`TurnQueue`): while a thread is still to take
  out the head, the head counts as moved to the end already, and what has been taken out and not added yet counts as
  added at the end. Taking a character out, adding it again and reading flags are thereby stutters, and what is left
  is the steps of `Rounds`. Most lemmas are about sequences without duplicates: what
  `RemoveFirst`, `Tail` and a concatenation keep.

`Sight_proofs`, for every board and for any geometry of shadows (`Hides` is a parameter), in two layers.

* The loops: `LooksWalk` says that the looks of a unit are its grids within sight without those `LeftOut`, each of
  them once. There is one lemma per loop of a ring; that rings have nothing in common and that `FlattenSeq` keeps
  what its parts have is an induction over the naturals (`AllNaturals`, from the library's theorem about smallest
  elements, on sets instead of predicates). That no grid comes twice matters: a second look at a grid would come
  after more obstacles.
* The threads: `SightInv == SightTypes /\ (\A i \in Running : ThreadInv(i)) /\ (rules \in {"start", "play"} =>
  Refreshed)`. `SightIsExact` speaks only of the end of a refresh. `Refreshed` says what holds in between: a unit
  still waits for its thread, or has one, or has been seen to; a thread of the present refresh has written everything
  that it has behind it and remembers the obstacles among that (`UpToDate`); and a map that is not late holds only
  what its team sees. `ThreadInv` says that threads of an earlier refresh write to late maps only.
  `SightMapsAreExact` follows.

`SegmentTree_proofs`, for every circle, every set of arcs and any number of obstacles. `ShadowsExact` states that
`find` says "shadow" for exactly the angles that an obstacle covers. That is far from inductive: it says nothing of
how the tree is built. `ShadowInv` says that the tree is `Good`, that it holds arcs of obstacles and nothing else
(`Held`), and that every arc cast lies within one that it holds (`Represented`; an arc that `findContaining` finds
room for is never inserted).

* A tree is `Good` if of every node the depth is right and the two sides differ by one at most (`Level`), the ends
  are in order (`Sorted`), and `min` is no larger than any start below (`LowMin`). That `min` is *equal* to the
  smallest start, as its name says, is not an invariant: a single rotation leaves the old number in the node that
  goes down ("TODO min", 1341), which has lost a subtree since. It can only be too small, so that a search takes a
  longer way and misses nothing, and this is what `LowMin` keeps of it.
* Four lemmas say what the rotations do to the arcs, the depth and `LowMin` (`RotatesRight`, `RotatesTwiceRight`
  and their mirror images). One level of `balance` needs to know that its sides differ by two at most (`Balances`).
  An insertion goes down to a missing child and comes back through `balance` on every level: by induction over the
  levels the tree is good again, holds one arc more, and is no more than one deeper (`InsertGrew`).
* `FindIsExact`: in a good tree `find` comes to every segment that covers the angle, since on the way to it
  neither `min` nor the order of the ends turns the search away. `FoundContains` is the half of the same about
  `findContaining`: what it finds does contain the arc. That it finds every segment that does is false (it compares
  with the end of the left child, where a node further down may end later), and not needed: an arc is then
  inserted although it is covered already.

* `NoneCoversEarlier` is about the squares themselves, on boards of any size: a grid covers only grids that are
  further out, in the sense of the rings of `getSight`. It is proved for the first eighth of the plane
  (`FirstEighth`: the slopes of the outer corners leave only the grid itself) and carried to the others by mirroring
  and turning.

The predicates speak of the nodes of a tree as what a path of children leads to (`Has`), the depth being the bound
of every recursion; nothing is an induction over trees.

`LineCreep_proofs`. `IInv == TypeOK /\ WalkInv /\ FoundInv /\ (stranded => stage = "look") /\ StrandedOnlyBroke`:
what the creep has found is as the board was when it looked, and a round of its loop is left without a step only
with a price equal to the points left. `OnlyBrokeIsStranded` and `StaleTargetsCostNothing` follow. For the second,
`AttackSpends` and `MoveToType` show that an attack and a walk cost something in spite of the rounding of the
points.

`Desktop_proofs`. `DesktopInv == SmallTypes /\ Ordered(on, left, playerPos, reviveQueue)`. `HeroInOnePlace` is not
inductive: it needs that nobody is on two grids (else a kill or a walk would leave a second hero), and that every
turn in the queue of revivals is above zero (else the hero would be overtaken by his own revival). That nobody is
on two grids in turn needs that whoever is summoned was not there, and the type of `left` that a summon on the
board has rounds left. Because `endRound` moves, kills and ages within one step, `Ordered` is stated of a board, and
there is one lemma per operation on boards (`MovedOrdered`, `KilledOrdered`, `ClearedOrdered`, `SummonedOrdered`,
`AgedOrdered`, `RevivedOrdered`, `TreesOrdered`); the actions compose them. `HeroStaysInOnePlace` and
`DesktopTypeCorrect` follow, for boards of any size and any number of summons and creeps.

`Parts_proofs` has one section per part.

* `Waves` (`Escalation`, `FrontsStayEqual`). `WavesTypeOK` and `Recorded` (what has been spawned is what the levels
  say) are inductive.
* `Scenes` (`GameIsBehindScene`, `StatisticsAreOfAnEnd`, `ButtonsReachScene`). `SceneInv` adds to the properties
  which scene the manager and its renderer agree on when they are not the present ones (`ManagerInv`), what is true
  while a touch waits for a game to close (`TouchInv`), and when a game is open (`GameInv`: an automaton implies one,
  and so does a prepared scene that is on the screen, or has a surface while the game is being closed).
* `SoundEngine` (`ParentsLast`, `LiveMemory`): who owns what between the calls of the life cycle (`ActivityInv`),
  how far the destructor is (`DestructorInv`), and what the queue holds (`QueueInv`).
* `Resources` (`DrawsStayWithin`, `NoOtherLeak`): names generated and not deleted are those that are held or lost
  (`Counted`, `HandlerInv`, `LeakInv`).
* `ScriptEngine` (`OneScript`): whoever has an isolate entered holds the lock as often (`StackInv`).
* All of them, with the waves and the desktop edition: every step of `MCParts` is a step of one part that leaves
  the others alone (`PartsStep`), so that the invariants of the parts hold side by side, and with them the type
  invariant of the run (`PartsTypeCorrect`).

`NoGhosts`, `NobodyDropsOut`, `FloodTypeCorrect`, `RoundsAreFinite` and `DefeatIsFinal` state properties that no run checks: an
instance would not add to the proofs.

### Only model-checked

* Liveness (`HandOverEnds`, `TurnComesBack`, `TowerRests`, `EndsUnlessStranded`, `ClosingEnds`, `FallsSilent`,
  `SummonsExpire`): fairness and `ENABLED` are out of this prover's reach.
* What holds of the turn engine when the user does not wait: the run `turns_eager` explores it.

## 5. Plan

What is left: items and attributes of the Android edition beyond what fights need; shop and items of the desktop.

## 6. Not modelled

* **Drawing and formats.** The renderers, the layout, the mathematics of matrices and projections, and
  `GridRendererGraphicsImpl`: they read the game and change nothing in it. Contents of models and images: a file is
  read or is not (`Resources`).
* **Vendored libraries.** What the game relies on is in the external definitions. As these libraries are 78 of
  the 81 thousand lines of C and C++ and the game itself is mostly Java, the lines that the definitions name are a
  small share of the repository's C and C++ and a large one of the game logic.
* **Attributes.** The formulas of `updateProperties` and `CalculateLevelInfo` are floating point without control
  flow worth exploring; `setCharacterProperty` works by reflection.
* **Script engine.** Its timers, whose fields are read before anything has assigned them and which nothing in the
  program starts, and the conversion between JSON and Java.
* **Multi-player server, iOS prototype, desktop databases.** Stubs, a template, and tables of constants.
* **Between press and release.** A touch that goes down in one scene and up in another; `Scenes` has taps.
* **Inside a close.** `GameState.close` may run on the user interface thread while the drawing thread uses the
  same resource manager. `Resources` has a close on either thread, but as one step and never in the middle of a
  draw.
* **Desktop.** Items, shop, selling, the upgrade of skills, numbers of hit and action points, protection of
  structures, terrain other than trees, dialogs, and which grid the automation chooses.

Reading the desktop edition showed more that no property is about. Files are those of
`src/javaADT/src/edu/nus/comp/dotagrid/`:

* `createWave` overwrites the set of level 30 in a team's spawn when all barracks of the opponent have fallen
  (`BuildingDatabase`, `LineCreepSpawnPoint`), against the rules, lines 258-259.
* `endRound` visits a creep that walks to a grid further on a second time. `Desktop` has that; it gives creeps
  more than one turn per round.
* The `do ... while` of `AICharacter`'s attack attacks once without action points, and its sight map is indexed
  with the new position after a move.
* The four flags do not exclude each other although the comment at `GridButtonActions.java:45` says so. With a
  treant selected, a skill button followed by a click ends in a `ClassCastException`, and the flags stay.
* The click after an attack selects by coordinates on the screen, one grid further than the grid that was meant,
  and after scrolling a different one.
* A line creep that has reached its last target throws in `AICharacter` in this and every later `endRound`; no
  unit that is visited after it acts any more, and no round begins.
* Structures can be attacked until the first `endRound` and protection changes only at the end of a round.
* `Screen.run` waits on flags that are not volatile and may miss a repaint.
* Selling an item while the hero is dead throws. A victim whose kill threw stays on the board without life.
