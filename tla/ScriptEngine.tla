----------------------------- MODULE ScriptEngine -----------------------------
(***************************************************************************)
(* The native ExtensionEngine, which plays the rules of a package as a     *)
(* script.  Threads enter it through applyRule: the threads of the user    *)
(* and those of automated characters.  A thread first makes the callbacks  *)
(* of the engine its own, then looks at the delegate, and only then takes  *)
(* the lock of the isolate; the script may call turnNextRound, which comes *)
(* back into the engine on the same thread (EndTurn, BeginTurn, ...).      *)
(***************************************************************************)
EXTENDS Naturals, FiniteSets

CONSTANTS Callers,     \* threads that apply rules
          NoCaller,    \* nobody
          MaxCalls     \* bound on the calls of turnNextRound from one script

ASSUME ScriptAssumption == NoCaller \notin Callers /\ MaxCalls \in Nat

VARIABLES
    engine,         \* "none", "alive", "destroyed"
    gameDelegate,   \* has a script set it?
    callbackEnv,    \* the thread whose JNIEnv the callbacks have captured
    lockOwner,      \* owner of the v8::Locker, which is recursive
    lockCount,
    at,             \* where the innermost applyRule of a thread is
    depth,          \* applyRule calls of a thread that have not returned
    calls,          \* calls a thread's scripts may still make
    scriptFailure   \* undefined behaviour or an exception nobody catches

scriptVars == <<engine, gameDelegate, callbackEnv, lockOwner, lockCount, at, depth, calls, scriptFailure>>

ScriptInit ==
    /\ engine = "none" /\ gameDelegate = FALSE
    /\ callbackEnv = NoCaller
    /\ lockOwner = NoCaller /\ lockCount = 0
    /\ at = [t \in Callers |-> "idle"]
    /\ depth = [t \in Callers |-> 0]
    /\ calls = [t \in Callers |-> 0]
    /\ scriptFailure = "none"

Works == engine = "alive" /\ scriptFailure = "none"

\* v8::Locker: recursive
MayLock(t) == lockOwner \in {NoCaller, t}

Lock(t) == lockOwner' = t /\ lockCount' = lockCount + 1

\* Mutant of Unlock: the innermost script gives the isolate back.
MutantUnlock == lockCount' = lockCount - 1 /\ lockOwner' = NoCaller

Unlock ==
    /\ lockCount' = lockCount - 1
    /\ lockOwner' = IF lockCount = 1 THEN NoCaller ELSE lockOwner

GoTo(t, label) == at' = [at EXCEPT ![t] = label]

\* applyRule returns to the script it was called from, or to its caller.
Leave(t) ==
    /\ depth' = [depth EXCEPT ![t] = @ - 1]
    /\ GoTo(t, IF depth[t] = 1 THEN "idle" ELSE "script")

-----------------------------------------------------------------------------
\* execute: the script may set the delegate and may use the interface, which
\* throws when no callback has been set.
Executed(setsDelegate, usesInterface) ==
    /\ gameDelegate' = (gameDelegate \/ setsDelegate)
    /\ scriptFailure' = IF usesInterface /\ callbackEnv = NoCaller
                          THEN "bad_function_call" ELSE scriptFailure

\* GameState.initialise: Create, loadScript, execute, before any applyRule
CreateAndExecute(setsDelegate, usesInterface) ==
    /\ engine = "none"
    /\ engine' = "alive"
    /\ Executed(setsDelegate, usesInterface)
    /\ UNCHANGED <<callbackEnv, lockOwner, lockCount, at, depth, calls>>

\* The callbacks capture env and obj of the call, before the lock is taken: a
\* script that waits for the lock may run with the environment of another thread.
setupExtensionCallback(t) == callbackEnv' = t

\* JNI applyRule, from Java
applyRule(t) ==
    /\ Works /\ at[t] = "idle"
    /\ setupExtensionCallback(t)
    /\ depth' = [depth EXCEPT ![t] = 1]
    /\ calls' = [calls EXCEPT ![t] = MaxCalls]
    /\ GoTo(t, "check")
    /\ UNCHANGED <<engine, gameDelegate, lockOwner, lockCount, scriptFailure>>

\* if (currentInterface->gameDelegate.IsEmpty()), without the lock
CheckDelegate(t) ==
    /\ Works /\ at[t] = "check"
    /\ GoTo(t, IF gameDelegate THEN "lock" ELSE "execute")
    /\ UNCHANGED <<engine, gameDelegate, callbackEnv, lockOwner, lockCount, depth, calls, scriptFailure>>

\* execute(), with the lock for its own
ExecuteAgain(t, setsDelegate, usesInterface) ==
    /\ Works /\ at[t] = "execute" /\ MayLock(t)
    /\ Executed(setsDelegate, usesInterface)
    /\ GoTo(t, "lock")
    /\ UNCHANGED <<engine, callbackEnv, lockOwner, lockCount, depth, calls>>

\* The lock, and the delegate unless it is still empty
CallDelegate(t) ==
    /\ Works /\ at[t] = "lock" /\ MayLock(t)
    /\ IF gameDelegate
         THEN /\ Lock(t) /\ GoTo(t, "script") /\ UNCHANGED depth
         ELSE Leave(t) /\ UNCHANGED <<lockOwner, lockCount>>
    /\ UNCHANGED <<engine, gameDelegate, callbackEnv, calls, scriptFailure>>

\* turnNextRound of the script: nextTurn applies rules on the same thread.
turnNextRound(t) ==
    /\ Works /\ at[t] = "script" /\ calls[t] > 0
    /\ calls' = [calls EXCEPT ![t] = @ - 1]
    /\ setupExtensionCallback(t)
    /\ depth' = [depth EXCEPT ![t] = @ + 1]
    /\ GoTo(t, "check")
    /\ UNCHANGED <<engine, gameDelegate, lockOwner, lockCount, scriptFailure>>

\* The delegate returns.
ScriptReturns(t) ==
    /\ Works /\ at[t] = "script"
    /\ Unlock /\ Leave(t)
    /\ UNCHANGED <<engine, gameDelegate, callbackEnv, calls, scriptFailure>>

\* GameState.close deletes the engine.  It has waited for automatonThread, not
\* for the threads of the user nor for one that has handed its turn over.
Destroy ==
    /\ Works
    /\ engine' = "destroyed"
    /\ scriptFailure' = IF \E t \in Callers : at[t] # "idle" THEN "destroyed in use" ELSE "none"
    /\ UNCHANGED <<gameDelegate, callbackEnv, lockOwner, lockCount, at, depth, calls>>

CallerStep(t) ==
    \/ CheckDelegate(t) \/ CallDelegate(t) \/ turnNextRound(t) \/ ScriptReturns(t)
    \/ \E setsDelegate, usesInterface \in BOOLEAN : ExecuteAgain(t, setsDelegate, usesInterface)

ScriptNext ==
    \/ \E setsDelegate, usesInterface \in BOOLEAN :
          CreateAndExecute(setsDelegate, usesInterface)
    \/ \E t \in Callers : applyRule(t) \/ CallerStep(t)
    \/ Destroy

ScriptSpec == ScriptInit /\ [][ScriptNext]_scriptVars

-----------------------------------------------------------------------------
Labels == {"idle", "check", "execute", "lock", "script"}

ScriptTypeOK ==
    /\ engine \in {"none", "alive", "destroyed"}
    /\ gameDelegate \in BOOLEAN
    /\ callbackEnv \in Callers \cup {NoCaller}
    /\ lockOwner \in Callers \cup {NoCaller} /\ lockCount \in 0..MaxCalls + 1
    /\ at \in [Callers -> Labels]
    /\ depth \in [Callers -> 0..MaxCalls + 1] /\ calls \in [Callers -> 0..MaxCalls]
    /\ scriptFailure \in {"none", "bad_function_call", "destroyed in use"}

\* The script runs on the thread that owns the isolate and on no other, and the
\* recursive lock is held once for every script on its stack.
OneScriptAtATime ==
    /\ \A t \in Callers : at[t] = "script" => lockOwner = t
    /\ lockCount = IF lockOwner = NoCaller THEN 0
                   ELSE IF at[lockOwner] = "script" THEN depth[lockOwner]
                   ELSE depth[lockOwner] - 1
=============================================================================
