----------------------------- MODULE SoundEngine -----------------------------
(***************************************************************************)
(* The native sound engine and those who use it: the activity, which makes *)
(* an engine in onCreate and another one in its first onResume and destroys *)
(* its engine in every onStop; the threads of single taps, which play a    *)
(* sound some time after the tap; and the thread of OpenSL, which plays    *)
(* the queued buffers and calls back.  The destructor runs statement by    *)
(* statement against all of them.  What a freed engine does when it is     *)
(* used is undefined: the model records the use and stops.                 *)
(***************************************************************************)
EXTENDS Naturals, Sequences, FiniteSets, SequencesExt

CONSTANTS BUFFER_COUNT,   \* buffers of the queue player
          Taps,           \* threads of single taps
          NoEngine        \* a null pointer

ASSUME SoundAssumption ==
    /\ BUFFER_COUNT \in Nat \ {0}
    /\ NoEngine \notin 1..2

\* GameLogicManagers of one activity, each with the engine it makes.
SoundEngines == 1..2
Buffers == 0..BUFFER_COUNT - 1

VARIABLES
    activity,      \* life cycle of Main
    manager,       \* the GameLogicManager that Main holds
    se,            \* the engine a manager points to
    objects,       \* OpenSL objects of an engine that are not destroyed
    masterBuffer,  \* is the memory of the queued buffers allocated?
    allocated,     \* engines that are constructed and not freed
    queued,        \* indices of the buffers OpenSL has still to play
    bqHead, bqTail,
    calling,       \* is the callback of the queue player in progress?
    clickPlaying,  \* play state of the asset player "click"
    destructor,    \* the next statement of an engine's destructor
    tap,           \* what a tap thread does next
    soundFailure        \* a use of freed memory, if any

soundVars == <<activity, manager, se, objects, masterBuffer, allocated, queued, bqHead,
          bqTail, calling, clickPlaying, destructor, tap, soundFailure>>

\* What a constructed and prepared engine owns; the first two are the parents.
AllObjects == {"engine", "outputMix", "bufferQueuePlayer", "assetPlayer"}

DestructorSteps == {"bufferQueuePlayer", "assetPlayers", "outputMix", "engine",
                    "masterBuffer", "free"}

SoundInit ==
    /\ activity = "new"
    /\ manager = 1
    /\ se = [m \in SoundEngines |-> NoEngine]
    /\ objects = [e \in SoundEngines |-> {}]
    /\ masterBuffer = [e \in SoundEngines |-> FALSE]
    /\ allocated = {}
    /\ queued = [e \in SoundEngines |-> << >>]
    /\ bqHead = [e \in SoundEngines |-> 0]
    /\ bqTail = [e \in SoundEngines |-> 0]
    /\ calling = [e \in SoundEngines |-> FALSE]
    /\ clickPlaying = [e \in SoundEngines |-> FALSE]
    /\ destructor = [e \in SoundEngines |-> "none"]
    /\ tap = [t \in Taps |-> "none"]
    /\ soundFailure = "none"

SoundRunning == soundFailure = "none"

\* The user interface thread is busy while a destructor runs on it.
Idle == \A e \in SoundEngines : destructor[e] = "none"

-----------------------------------------------------------------------------
(* Construction: Create, prepareBufferQueuePlayer, prepareAssetPlayer.     *)

\* SoundEngine(): the engine and its output mix
Create == {"engine", "outputMix"}

\* What prepareBufferQueuePlayer queues before it starts the player.
Enqueued == [i \in 1..BUFFER_COUNT |-> i - 1]

prepareBufferQueuePlayer(e) ==
    /\ masterBuffer' = [masterBuffer EXCEPT ![e] = TRUE]
    /\ queued' = [queued EXCEPT ![e] = Enqueued]
    /\ bqHead' = [bqHead EXCEPT ![e] = 0]
    /\ bqTail' = [bqTail EXCEPT ![e] = 0]

\* prepareAssetPlayer: one player, not playing yet
prepareAssetPlayer(e) == clickPlaying' = [clickPlaying EXCEPT ![e] = FALSE]

\* initiateSoundEngine of manager m: engine, queue player and asset player
initiateSoundEngine(m) ==
    /\ se' = [se EXCEPT ![m] = m]
    /\ allocated' = allocated \cup {m}
    /\ objects' = [objects EXCEPT ![m] = Create \cup {"bufferQueuePlayer", "assetPlayer"}]
    /\ prepareBufferQueuePlayer(m)
    /\ prepareAssetPlayer(m)
    /\ UNCHANGED <<calling, destructor>>

onCreate ==
    /\ SoundRunning /\ activity = "new"
    /\ initiateSoundEngine(manager)
    /\ activity' = "created"
    /\ UNCHANGED <<manager, tap, soundFailure>>

\* The first onResume replaces the manager and makes a second engine.
onResumeFirst ==
    /\ SoundRunning /\ activity = "created"
    /\ manager' = 2
    /\ initiateSoundEngine(manager')
    /\ activity' = "resumed"
    /\ UNCHANGED <<tap, soundFailure>>

onResumeAgain ==
    /\ SoundRunning /\ Idle /\ activity = "stopped"
    /\ activity' = "resumed"
    /\ UNCHANGED <<manager, se, objects, masterBuffer, allocated, queued, bqHead, bqTail,
                   calling, clickPlaying, destructor, tap, soundFailure>>

-----------------------------------------------------------------------------
(* Destruction, on the user interface thread.                              *)

\* close: the pointer stays what it was
onStop ==
    /\ SoundRunning /\ activity = "resumed"
    /\ activity' = "stopped"
    /\ IF se[manager] \in allocated
         THEN destructor' = [destructor EXCEPT ![se[manager]] = "bufferQueuePlayer"]
              /\ UNCHANGED soundFailure
         ELSE soundFailure' = "destroyed twice" /\ UNCHANGED destructor
    /\ UNCHANGED <<manager, se, objects, masterBuffer, allocated, queued, bqHead, bqTail,
                   calling, clickPlaying, tap>>

\* Destroy on an OpenSL object returns when no callback of it is in progress.
DestroyObject(e, o) ==
    /\ o = "bufferQueuePlayer" => ~calling[e]
    /\ objects' = [objects EXCEPT ![e] = @ \ {o}]
    /\ queued' = IF o = "bufferQueuePlayer" THEN [queued EXCEPT ![e] = << >>] ELSE queued

Statement(e, here, next) ==
    /\ SoundRunning /\ destructor[e] = here
    /\ destructor' = [destructor EXCEPT ![e] = next]
    /\ UNCHANGED <<activity, manager, se, bqHead, bqTail, calling, tap, soundFailure>>

\* Mutant of DestroyBufferQueuePlayer: the player is left to its engine.
MutantKeepsQueuePlayer(e) ==
    /\ Statement(e, "bufferQueuePlayer", "assetPlayers")
    /\ UNCHANGED <<objects, queued, masterBuffer, allocated, clickPlaying>>

DestroyBufferQueuePlayer(e) ==
    /\ Statement(e, "bufferQueuePlayer", "assetPlayers")
    /\ DestroyObject(e, "bufferQueuePlayer")
    /\ UNCHANGED <<masterBuffer, allocated, clickPlaying>>

\* Mutant of DestroyAssetPlayers: the players of the map are forgotten.
MutantForgetsAssetPlayers(e) ==
    /\ Statement(e, "assetPlayers", "outputMix")
    /\ UNCHANGED <<objects, queued, masterBuffer, allocated, clickPlaying>>

DestroyAssetPlayers(e) ==
    /\ Statement(e, "assetPlayers", "outputMix")
    /\ DestroyObject(e, "assetPlayer")
    /\ clickPlaying' = [clickPlaying EXCEPT ![e] = FALSE]
    /\ UNCHANGED <<masterBuffer, allocated>>

DestroyOutputMix(e) ==
    /\ Statement(e, "outputMix", "engine")
    /\ DestroyObject(e, "outputMix")
    /\ UNCHANGED <<masterBuffer, allocated, clickPlaying>>

DestroyEngineObject(e) ==
    /\ Statement(e, "engine", "masterBuffer")
    /\ DestroyObject(e, "engine")
    /\ UNCHANGED <<masterBuffer, allocated, clickPlaying>>

DeleteMasterBuffer(e) ==
    /\ Statement(e, "masterBuffer", "free")
    /\ masterBuffer' = [masterBuffer EXCEPT ![e] = FALSE]
    /\ UNCHANGED <<objects, queued, allocated, clickPlaying>>

Free(e) ==
    /\ Statement(e, "free", "none")
    /\ allocated' = allocated \ {e}
    /\ UNCHANGED <<objects, queued, masterBuffer, clickPlaying>>

-----------------------------------------------------------------------------
(* The thread of OpenSL.                                                   *)

\* A buffer has been played, the callback starts.
BufferDone(e) ==
    /\ SoundRunning /\ queued[e] # << >> /\ ~calling[e]
    /\ queued' = [queued EXCEPT ![e] = Tail(@)]
    /\ calling' = [calling EXCEPT ![e] = TRUE]
    /\ UNCHANGED <<activity, manager, se, objects, masterBuffer, allocated, bqHead, bqTail,
                   clickPlaying, destructor, tap, soundFailure>>

\* bufferQueuePop
Popped(i) == IF i + 1 = BUFFER_COUNT THEN 0 ELSE i + 1

\* Mutant of bufferQueuePlayerCallBack: the test of the indices is inverted.
MutantCallBackRefills(e) ==
    /\ SoundRunning /\ calling[e]
    /\ calling' = [calling EXCEPT ![e] = FALSE]
    /\ queued' = [queued EXCEPT ![e] = Append(@, bqHead[e])]
    /\ bqHead' = [bqHead EXCEPT ![e] = Popped(@)]
    /\ UNCHANGED <<activity, manager, se, objects, masterBuffer, allocated, bqTail,
                   clickPlaying, destructor, tap, soundFailure>>

bufferQueuePlayerCallBack(e) ==
    /\ SoundRunning /\ calling[e]
    /\ calling' = [calling EXCEPT ![e] = FALSE]
    /\ IF bqHead[e] # bqTail[e]
         THEN /\ queued' = [queued EXCEPT ![e] = Append(@, bqHead[e])]
              /\ bqHead' = [bqHead EXCEPT ![e] = Popped(@)]
         ELSE UNCHANGED <<queued, bqHead>>
    /\ UNCHANGED <<activity, manager, se, objects, masterBuffer, allocated, bqTail,
                   clickPlaying, destructor, tap, soundFailure>>

-----------------------------------------------------------------------------
(* Single taps: playAssetSound("click") after the time of a double tap.    *)

TapDown(t) ==
    /\ SoundRunning /\ Idle /\ activity = "resumed" /\ tap[t] = "none"
    /\ tap' = [tap EXCEPT ![t] = "stop"]
    /\ UNCHANGED <<activity, manager, se, objects, masterBuffer, allocated, queued, bqHead,
                   bqTail, calling, clickPlaying, destructor, soundFailure>>

\* One call on the asset player of the manager's engine.
OnAssetPlayer(t, here, next, playing) ==
    /\ SoundRunning /\ tap[t] = here
    /\ tap' = [tap EXCEPT ![t] = next]
    /\ IF "assetPlayer" \in objects[se[manager]]
         THEN clickPlaying' = [clickPlaying EXCEPT ![se[manager]] = playing]
              /\ UNCHANGED soundFailure
         ELSE soundFailure' = "used after free" /\ UNCHANGED clickPlaying
    /\ UNCHANGED <<activity, manager, se, objects, masterBuffer, allocated, queued, bqHead,
                   bqTail, calling, destructor>>

setAssetPlayerStop(t) == OnAssetPlayer(t, "stop", "play", FALSE)

setAssetPlayerPlayState(t) == OnAssetPlayer(t, "play", "none", TRUE)

\* The click has been played to its end.
ClickEnds(e) ==
    /\ SoundRunning /\ clickPlaying[e]
    /\ clickPlaying' = [clickPlaying EXCEPT ![e] = FALSE]
    /\ UNCHANGED <<activity, manager, se, objects, masterBuffer, allocated, queued, bqHead,
                   bqTail, calling, destructor, tap, soundFailure>>

-----------------------------------------------------------------------------
Destruct(e) ==
    \/ DestroyBufferQueuePlayer(e) \/ DestroyAssetPlayers(e) \/ DestroyOutputMix(e)
    \/ DestroyEngineObject(e) \/ DeleteMasterBuffer(e) \/ Free(e)

SoundNext ==
    \/ onCreate \/ onResumeFirst \/ onResumeAgain \/ onStop
    \/ \E e \in SoundEngines : Destruct(e) \/ BufferDone(e) \/ bufferQueuePlayerCallBack(e)
                          \/ ClickEnds(e)
    \/ \E t \in Taps : TapDown(t) \/ setAssetPlayerStop(t) \/ setAssetPlayerPlayState(t)

\* OpenSL goes on playing, and a callback and a destructor that have started end.
SoundFairness ==
    \A e \in SoundEngines : /\ WF_soundVars(BufferDone(e))
                       /\ WF_soundVars(bufferQueuePlayerCallBack(e))
                       /\ WF_soundVars(Destruct(e))

SoundSpec == SoundInit /\ [][SoundNext]_soundVars /\ SoundFairness

-----------------------------------------------------------------------------
SoundTypeOK ==
    /\ activity \in {"new", "created", "resumed", "stopped"}
    /\ manager \in SoundEngines
    /\ se \in [SoundEngines -> SoundEngines \cup {NoEngine}]
    /\ objects \in [SoundEngines -> SUBSET AllObjects]
    /\ masterBuffer \in [SoundEngines -> BOOLEAN]
    /\ allocated \subseteq SoundEngines
    /\ queued \in [SoundEngines -> Seq(Buffers)]
    /\ bqHead \in [SoundEngines -> Buffers] /\ bqTail \in [SoundEngines -> Buffers]
    /\ calling \in [SoundEngines -> BOOLEAN]
    /\ clickPlaying \in [SoundEngines -> BOOLEAN]
    /\ destructor \in [SoundEngines -> DestructorSteps \cup {"none"}]
    /\ tap \in [Taps -> {"none", "stop", "play"}]
    /\ soundFailure \in {"none", "destroyed twice", "used after free"}

\* OpenSL objects go in the order in which they depend on each other: while a
\* player exists so does the output mix it plays into, and the engine outlives
\* both, at every statement of ~SoundEngine.
ParentsOutliveChildren ==
    \A e \in SoundEngines :
        /\ objects[e] \cap {"bufferQueuePlayer", "assetPlayer"} # {} => "outputMix" \in objects[e]
        /\ "outputMix" \in objects[e] => "engine" \in objects[e]

\* The memory OpenSL reads is there as long as it reads it: while buffers are
\* queued or the callback runs, neither masterBuffer nor the engine is freed.
PlaysFromLiveMemory ==
    \A e \in SoundEngines :
        queued[e] # << >> \/ calling[e] => masterBuffer[e] /\ e \in allocated

\* Every engine falls silent: bufferQueuePlayerCallBack refills the queue only
\* when bqHead and bqTail differ, and nothing ever sets them apart.
FallsSilent ==
    \A e \in SoundEngines : e \in allocated ~> queued[e] = << >> \/ ~SoundRunning
==============================================================================
