-------------------------------- MODULE Scenes --------------------------------
(***************************************************************************)
(* The scenes of the Android application.  The rendering thread prepares   *)
(* and draws the scene of the present MainSceneRenderer; touches come in   *)
(* on the user interface thread; the automaton thread of a game reports    *)
(* its end.  Each of them works under the lock of a renderer.  A new       *)
(* surface (rotation, return to the activity) makes a new renderer, while  *)
(* a game still knows the scene, and so the renderer, that prepared it.    *)
(* A critical section is one step, except for the touch that closes a      *)
(* game: it waits for the automaton with the lock in its hand.             *)
(***************************************************************************)
EXTENDS Naturals

CONSTANT MaxRenderers    \* bound on the surfaces of a behaviour

ASSUME ScenesAssumption == MaxRenderers \in Nat \ {0}

Renderers == 1..MaxRenderers
SceneNames == {"Welcome", "Game", "Statistics"}

VARIABLES
    renderer,      \* MainRenderer.r, counted from the first
    surface,       \* is there a surface, and MainRenderer not closed?
    sceneName,     \* scene of every renderer, "none" before the first
    readyState,    \* of every renderer: "null", "notTested", "Verified"
    currentScene,  \* GameLogicManager.currentSceneKey
    application,   \* the renderer of applicationSceneRenderer
    gameScene,     \* the renderer of GameState.currentSceneRenderer, 0 if null
    currentState,  \* has the GameLogicManager a current game?
    initialised,   \* is that game open?
    over,          \* has an ancient fallen?
    turn,          \* "player", "automaton", or "verdict": it reports the end
    ui,            \* "idle", or it waits in GameState.close: "back", "stop"
    touched,       \* the renderer whose lock the touch holds, 0 for none
    shown,         \* is the activity on the screen?
    sceneFailure   \* what was thrown, if anything

sceneVars == <<renderer, surface, sceneName, readyState, currentScene, application, gameScene,
               currentState, initialised, over, turn, ui, touched, shown, sceneFailure>>

gameVars == <<currentState, initialised, over, turn>>
screenVars == <<sceneName, readyState, currentScene, application>>

ScenesInit ==
    /\ renderer = 1 /\ surface = TRUE
    /\ sceneName = [r \in Renderers |-> IF r = 1 THEN "Welcome" ELSE "none"]
    /\ readyState = [r \in Renderers |-> "null"]
    /\ currentScene = "Welcome" /\ application = 1 /\ gameScene = 0
    /\ currentState = FALSE /\ initialised = FALSE
    /\ over = FALSE /\ turn = "player"
    /\ ui = "idle" /\ touched = 0 /\ shown = TRUE
    /\ sceneFailure = "none"

Unharmed == sceneFailure = "none"

\* A game is held, and its resources are not released.
OpenGame == currentState /\ initialised

\* Mutant of switchScene: the manager does not hear of the new scene.
MutantSwitchSilently(r, name) ==
    /\ sceneName' = [sceneName EXCEPT ![r] = name]
    /\ readyState' = [readyState EXCEPT ![r] = "null"]
    /\ currentScene' = name /\ UNCHANGED application

switchScene(r, name) ==
    /\ sceneName' = [sceneName EXCEPT ![r] = name]
    /\ readyState' = [readyState EXCEPT ![r] = "null"]
    /\ currentScene' = name /\ application' = r

-----------------------------------------------------------------------------
(* The rendering thread.                                                   *)

\* Mutant of onSurfaceChanged: a new renderer begins without a scene.
MutantSurfaceChanged ==
    /\ Unharmed /\ shown /\ ~surface /\ renderer < MaxRenderers
    /\ renderer' = renderer + 1 /\ surface' = TRUE
    /\ switchScene(renderer', "none")
    /\ UNCHANGED <<gameVars, gameScene, ui, touched, shown, sceneFailure>>

\* onSurfaceChanged: a new renderer shows the current scene again.
onSurfaceChanged ==
    /\ Unharmed /\ shown /\ ~surface /\ renderer < MaxRenderers
    /\ renderer' = renderer + 1 /\ surface' = TRUE
    /\ switchScene(renderer', currentScene)
    /\ UNCHANGED <<gameVars, gameScene, ui, touched, shown, sceneFailure>>

\* The lock of the present renderer is free, and there is something to draw on.
MayDraw == Unharmed /\ surface /\ touched # renderer

\* setRenderReady of a scene without a game
PrepareScene ==
    /\ MayDraw /\ readyState[renderer] = "null" /\ sceneName[renderer] # "Game"
    /\ readyState' = [readyState EXCEPT ![renderer] = "notTested"]
    /\ UNCHANGED <<renderer, surface, sceneName, currentScene, application, gameScene,
                   gameVars, ui, touched, shown, sceneFailure>>

\* Mutant of PrepareGame: only a game that is new is opened.
MutantPrepareGame ==
    /\ MayDraw /\ readyState[renderer] = "null" /\ sceneName[renderer] = "Game"
    /\ readyState' = [readyState EXCEPT ![renderer] = "notTested"]
    /\ currentState' = TRUE /\ initialised' = (initialised \/ ~currentState)
    /\ over' = (over /\ initialised)
    /\ gameScene' = renderer
    /\ UNCHANGED <<renderer, surface, sceneName, currentScene, application, turn, ui, touched,
                   shown, sceneFailure>>

\* setRenderReady of GameScene, which opens the game unless it is open.
PrepareGame ==
    /\ MayDraw /\ readyState[renderer] = "null" /\ sceneName[renderer] = "Game"
    /\ readyState' = [readyState EXCEPT ![renderer] = "notTested"]
    /\ currentState' = TRUE /\ initialised' = TRUE
    /\ over' = (over /\ initialised)
    /\ gameScene' = renderer
    /\ UNCHANGED <<renderer, surface, sceneName, currentScene, application, turn, ui, touched,
                   shown, sceneFailure>>

\* GameScene takes textures, characters and whose turn it is from the current game.
LooksAtGame ==
    sceneFailure' = IF sceneName[renderer] = "Game" /\ ~OpenGame THEN "no game" ELSE "none"

\* getReadyState of the scene: the grid of a GameScene (GridRenderer) loads its map
\* and its characters.
Verify ==
    /\ MayDraw /\ readyState[renderer] = "notTested"
    /\ LooksAtGame
    /\ readyState' = [readyState EXCEPT ![renderer] = IF sceneFailure' = "none" THEN "Verified" ELSE @]
    /\ UNCHANGED <<renderer, surface, sceneName, currentScene, application, gameScene,
                   gameVars, ui, touched, shown>>

\* The frame of the status takes its texture from the resources of the game.
draw ==
    /\ MayDraw /\ readyState[renderer] = "Verified" /\ sceneName[renderer] = "Game"
    /\ LooksAtGame
    /\ UNCHANGED <<renderer, surface, screenVars, gameScene, gameVars, ui, touched, shown>>

-----------------------------------------------------------------------------
(* The user interface thread.                                              *)

\* passEvent reaches a scene that is ready.
MayTouch(name) ==
    /\ Unharmed /\ shown /\ surface /\ ui = "idle"
    /\ sceneName[renderer] = name /\ readyState[renderer] = "Verified"

\* What an APPLICATION event does that is none of the scene it comes to.  The
\* renderers of a GameScene look at the current game, and exist once prepared.
Ignored ==
    sceneFailure' = IF sceneName[application] = "Game"
                         /\ ~(OpenGame /\ readyState[application] # "null")
                      THEN "no game" ELSE "none"

\* Button NewGame of the welcome scene
NewGame ==
    /\ MayTouch("Welcome")
    /\ IF sceneName[application] = "Welcome"
         THEN switchScene(application, "Game") /\ UNCHANGED sceneFailure
         ELSE Ignored /\ UNCHANGED screenVars
    /\ UNCHANGED <<renderer, surface, gameScene, gameVars, ui, touched, shown>>

\* Button Back of the statistics; setCurrentGameState(null) closes an open game.
Back ==
    /\ MayTouch("Statistics")
    /\ IF sceneName[application] = "Statistics"
         THEN ui' = "back" /\ touched' = renderer /\ UNCHANGED sceneFailure
         ELSE Ignored /\ UNCHANGED <<ui, touched>>
    /\ UNCHANGED <<renderer, surface, screenVars, gameScene, gameVars, shown>>

\* Mutant of Closed: the wait is not for the automaton.
MutantClosed == ~initialised

\* close has waited for the automaton, or nothing is open.  That close misses a
\* thread in the one case of TurnEngine's CloseWaits is left out here.
Closed == ~initialised \/ turn = "player"

BackToWelcome ==
    /\ Unharmed /\ ui = "back" /\ Closed
    /\ initialised' = FALSE /\ currentState' = FALSE
    /\ switchScene(application, "Welcome")
    /\ ui' = "idle" /\ touched' = 0
    /\ UNCHANGED <<renderer, surface, gameScene, over, turn, shown, sceneFailure>>

\* The player takes part in the fight.
PlayerFights ==
    /\ MayTouch("Game") /\ turn = "player"
    /\ IF initialised THEN over' = TRUE /\ UNCHANGED sceneFailure
                      ELSE sceneFailure' = "no game" /\ UNCHANGED over
    /\ UNCHANGED <<renderer, surface, screenVars, gameScene, currentState, initialised, turn,
                   ui, touched, shown>>

\* Mutant of EndTurn: an end is reported whatever has fallen.
MutantEndTurn(ends) == switchScene(gameScene, "Statistics")

\* Rule "EndTurn": the scene of the game is told if it is over.
EndTurn(ends) ==
    IF ends THEN switchScene(gameScene, "Statistics") ELSE UNCHANGED screenVars

\* Button NextTurn: EndTurn, and an automaton plays.
NextTurn ==
    /\ MayTouch("Game") /\ turn = "player" /\ initialised
    /\ EndTurn(over)
    /\ turn' = "automaton"
    /\ UNCHANGED <<renderer, surface, gameScene, currentState, initialised, over, ui, touched,
                   shown, sceneFailure>>

\* onConfigurationChanged: MainRenderer is closed until its surface has changed.
onConfigurationChanged ==
    /\ Unharmed /\ shown /\ surface /\ ui = "idle"
    /\ surface' = FALSE
    /\ UNCHANGED <<renderer, screenVars, gameScene, gameVars, ui, touched, shown, sceneFailure>>

\* onStop closes the game and leaves it the current one.
onStopActivity ==
    /\ Unharmed /\ shown /\ ui = "idle"
    /\ shown' = FALSE /\ ui' = "stop"
    /\ UNCHANGED <<renderer, surface, screenVars, gameScene, gameVars, touched, sceneFailure>>

GameStopped ==
    /\ Unharmed /\ ui = "stop" /\ Closed
    /\ initialised' = FALSE /\ ui' = "idle"
    /\ UNCHANGED <<renderer, surface, screenVars, gameScene, currentState, over, turn, touched,
                   shown, sceneFailure>>

\* A stopped activity loses its surface, before it is on the screen again.
SurfaceDestroyed ==
    /\ Unharmed /\ ~shown /\ surface
    /\ surface' = FALSE
    /\ UNCHANGED <<renderer, screenVars, gameScene, gameVars, ui, touched, shown, sceneFailure>>

onResumeActivity ==
    /\ Unharmed /\ ~shown /\ ~surface /\ ui = "idle"
    /\ shown' = TRUE
    /\ UNCHANGED <<renderer, surface, screenVars, gameScene, gameVars, ui, touched,
                   sceneFailure>>

-----------------------------------------------------------------------------
(* The automaton threads (TurnEngine).                                     *)

AutomatonFights ==
    /\ Unharmed /\ turn = "automaton"
    /\ over' = TRUE
    /\ UNCHANGED <<renderer, surface, screenVars, gameScene, currentState, initialised, turn,
                   ui, touched, shown, sceneFailure>>

\* The automation is over, nextTurn applies EndTurn.
AutomationIsOver ==
    /\ Unharmed /\ turn = "automaton"
    /\ turn' = "verdict"
    /\ UNCHANGED <<renderer, surface, screenVars, gameScene, currentState, initialised, over,
                   ui, touched, shown, sceneFailure>>

\* It takes the lock to switch the scene, and hands the turn to n.
HandOver(n) ==
    /\ Unharmed /\ turn = "verdict"
    /\ over => touched # gameScene
    /\ EndTurn(over)
    /\ turn' = n
    /\ UNCHANGED <<renderer, surface, gameScene, currentState, initialised, over, ui, touched,
                   shown, sceneFailure>>

-----------------------------------------------------------------------------
Touch ==
    \/ NewGame \/ Back \/ BackToWelcome \/ PlayerFights \/ NextTurn
    \/ onConfigurationChanged \/ onStopActivity \/ GameStopped \/ SurfaceDestroyed
    \/ onResumeActivity

Draw == onSurfaceChanged \/ PrepareScene \/ PrepareGame \/ Verify \/ draw

Automate == AutomatonFights \/ AutomationIsOver \/ \E n \in {"player", "automaton"} : HandOver(n)

ScenesNext == Touch \/ Draw \/ Automate

\* The threads run.  If automations return again and again, one of them hands over
\* to the player (TurnComesBack of TurnEngine); that they return is not assumed.
ScenesFairness ==
    /\ WF_sceneVars(BackToWelcome) /\ WF_sceneVars(GameStopped)
    /\ WF_sceneVars(\E n \in {"player", "automaton"} : HandOver(n))
    /\ SF_sceneVars(HandOver("player"))

ScenesSpec == ScenesInit /\ [][ScenesNext]_sceneVars /\ ScenesFairness

-----------------------------------------------------------------------------
\* Every variable keeps its type.
ScenesTypeOK ==
    /\ renderer \in Renderers
    /\ sceneName \in [Renderers -> SceneNames \cup {"none"}]
    /\ readyState \in [Renderers -> {"null", "notTested", "Verified"}]
    /\ currentScene \in SceneNames
    /\ application \in Renderers /\ gameScene \in Renderers \cup {0}
    /\ {surface, currentState, initialised, over, shown} \subseteq BOOLEAN
    /\ turn \in {"player", "automaton", "verdict"}
    /\ ui \in {"idle", "back", "stop"} /\ touched \in Renderers \cup {0}
    /\ sceneFailure \in {"none", "no game"}

\* Whatever surfaces come and go, GameScene never loads, draws, handles a touch or
\* is notified without an open game behind it.  The exception is the rendering
\* thread between the stop of the activity, which closes the game under the scene,
\* and the loss of the surface.
GameBehindScene == Unharmed \/ (~shown /\ surface /\ ui = "idle")

\* The statistics are on the screen only when the game has ended, or when the end
\* of the one before was reported to an earlier renderer.
StatisticsOfAnEnd ==
    sceneName[renderer] = "Statistics" =>
        over \/ \E r \in 1..renderer - 1 : sceneName[r] = "Statistics"

\* Buttons reach the scene they are on.  The exception is a game that was prepared
\* by an earlier renderer: it reports its end there, and that renderer's scene is
\* the one that hears the buttons from then on.
ButtonsReachTheirScene ==
    application # renderer /\ sceneName[renderer] # "Game" =>
        over /\ gameScene \in 1..renderer - 1

\* The touch that closes the game holds the lock that the automaton it waits for
\* needs to report the end.
Deadlocked == ui = "back" /\ turn = "verdict" /\ over /\ touched = gameScene

\* A touch or a stop that closes a game comes to its end, unless it meets this
\* deadlock, or the automation it waits for never ends (TurnEnds of LineCreep has
\* one that does not).
ClosingEnds == ui # "idle" ~> ui = "idle" \/ Deadlocked \/ [](turn = "automaton")
===============================================================================
