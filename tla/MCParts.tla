------------------------------- MODULE MCParts -------------------------------
(***************************************************************************)
(* What is around the game, side by side: the scenes, the native parts,    *)
(* the waves of creeps, and the desktop edition.  They have no state in    *)
(* common that a property is about, so that each is explored by itself:    *)
(* part names the one that moves, and the others keep still.               *)
(* Three surfaces make a renderer stale twice.  Four buffers stand for the *)
(* ten of the queue player, and two taps overlap; an index has two models, *)
(* one of which may be named twice; three threads enter the script engine, *)
(* which comes back into itself twice; waves have two fronts with two      *)
(* barracks each; on the desktop a treant, a sprout and a creep walk to    *)
(* and fro between grids that endRound has visited and others.             *)
(***************************************************************************)
EXTENDS Scenes, SoundEngine, Resources, ScriptEngine, MCWaves, MCDesktop

VARIABLE part

nativeVars == <<soundVars, resVars, scriptVars>>

Init ==
    /\ part \in {"scenes", "sound", "resources", "script", "waves", "desktop"}
    /\ ScenesInit /\ SoundInit /\ ResInit /\ ScriptInit /\ WavesInit /\ DesktopInit
    /\ part # "desktop" => on = Begun

NativeNext ==
    \/ part = "sound" /\ SoundNext /\ UNCHANGED <<resVars, scriptVars>>
    \/ part = "resources" /\ ResNext /\ UNCHANGED <<soundVars, scriptVars>>
    \/ part = "script" /\ ScriptNext /\ UNCHANGED <<soundVars, resVars>>

Next ==
    /\ UNCHANGED part
    /\ \/ part = "scenes" /\ ScenesNext /\ UNCHANGED <<nativeVars, wavesVars, desktopVars>>
       \/ NativeNext /\ UNCHANGED <<sceneVars, wavesVars, desktopVars>>
       \/ part = "waves" /\ WavesNext /\ UNCHANGED <<sceneVars, nativeVars, desktopVars>>
       \/ part = "desktop" /\ DesktopNext /\ UNCHANGED <<sceneVars, nativeVars, wavesVars>>

Spec ==
    /\ Init /\ [][Next]_<<part, sceneVars, nativeVars, wavesVars, desktopVars>>
    /\ ScenesFairness /\ SoundFairness

\* The types of the parts, among them: every renderer is in a state of
\* GLSurfaceView's, queues and locks stay within their bounds, no count of
\* buffers, textures or locks goes below zero, and no unit is on two grids.
TypeOK ==
    /\ ScenesTypeOK /\ SoundTypeOK /\ ResTypeOK /\ ScriptTypeOK
    /\ WavesTypeOK /\ DesktopTypeOK
=============================================================================
