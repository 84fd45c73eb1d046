-------------------------- MODULE TurnEngine_proofs ---------------------------
(***************************************************************************)
(* Proofs about TurnEngine, for any number of threads and characters and   *)
(* any revival and spawn rounds, with a patient user.                      *)
(*                                                                         *)
(* First the threads: at most one plays or hands over, and close waits for *)
(* it.  Neither is inductive.  What is missing is why close does not return *)
(* while a thread plays: automatonThread refers to it, or to a thread that *)
(* has still to assign its child, or the user interface thread itself has, *)
(* unless a thread was overtaken by its child (IInv).                      *)
(*                                                                         *)
(* Then, from IInv, the queue: nextTurn never finds the queue corrupted    *)
(* nor a character missing.  What is inductive is that the queue and what  *)
(* a thread carries are the registered characters and the flag, each once, *)
(* that whoever plays is at the head, and what each statement of nextTurn  *)
(* has found out about the head (OrderInv).                                *)
(*                                                                         *)
(* At last, from both, every step of the threads is one of Rounds, or none.*)
(***************************************************************************)
EXTENDS TurnEngine, FiniteSetTheorems, SequenceTheorems, TLAPS

\* Where a thread is while it plays, and while it hands over.
RunSteps == {"begin", "automation", "force"}
TurnSteps == NextTurnSteps \ {"assign"}

ThreadTypes ==
    /\ pc \in [Threads -> NextTurnSteps \cup RunSteps \cup {"idle", "dead", "close", "isAlive"}]
    /\ pc[UI] \in NextTurnSteps \cup {"idle", "close", "isAlive"}
    /\ \A w \in Workers : pc[w] \in NextTurnSteps \cup RunSteps \cup {"dead"}
    /\ child \in [Threads -> Workers \cup {NoThread}]
    /\ automatonThread \in Workers \cup {NoThread}

\* What close would wait for while w plays.
Awaited(w) ==
    \/ overtaken \/ automatonThread = w
    \/ \E t \in {UI, automatonThread} \cap Threads : pc[t] = "assign"

ThreadInv ==
    /\ \A t \in Threads : pc[t] = "assign" => child[t] \in Workers \ {t}
    /\ \A w \in Workers \cap Busy : Awaited(w)

\* Whoever plays is not the player of the user interface.
NotThePlayer == \A w \in Workers : pc[w] \in RunSteps => currentCharacter # Player

Alone == \A t, u \in Busy : t = u

\* While a thread plays the game is not closed, or the behaviour ends with it.
ClosedInv == ~initialised => Busy = {} \/ (overtaken /\ failure # "none")

IInv ==
    /\ ThreadTypes
    /\ Alone
    /\ NotThePlayer
    /\ ClosedInv
    /\ ThreadInv

LEMMA Labels ==
    /\ NextTurnSteps \cap RunSteps = {}
    /\ Busy = {t \in Threads : pc[t] \in TurnSteps \cup RunSteps}
BY DEF NextTurnSteps, RunSteps, TurnSteps, Busy

LEMMA InitInv == Init => IInv
<1>. SUFFICES ASSUME Init PROVE IInv
  OBVIOUS
<1>1. UI \notin Workers
  BY TurnAssumption
<1>2. \A t \in Threads : pc[t] = IF t = UI THEN "idle" ELSE "dead"
  BY DEF Init
<1>3. Busy = {}
  BY <1>2, Labels DEF TurnSteps, RunSteps, NextTurnSteps
<1>4. ThreadTypes
  BY <1>1, <1>2 DEF Init, ThreadTypes, Threads
<1>5. \A t \in Threads : pc[t] # "assign" /\ pc[t] \notin RunSteps
  BY <1>2 DEF RunSteps
<1>. QED
  BY <1>3, <1>4, <1>5 DEF IInv, Alone, NotThePlayer, ClosedInv, ThreadInv, Threads

-----------------------------------------------------------------------------
(* nextTurn.                                                               *)

\* A step of nextTurn on its way: thread t, which hands over, stays in it or
\* returns, and may make another character the current one.
LEMMA HandingOverInv ==
    ASSUME IInv, NEW t \in Threads, pc[t] \in TurnSteps,
           NEW label \in TurnSteps \cup {Returned(t)}, pc' = [pc EXCEPT ![t] = label],
           Running, UNCHANGED <<automatonThread, child, initialised, overtaken>>
    PROVE  IInv'
<1>0. UI \notin Workers
  BY TurnAssumption
<1>1. /\ Busy' \subseteq Busy /\ t \in Busy
      /\ \A u \in Threads \ {t} : pc'[u] = pc[u]
      /\ pc'[t] \notin RunSteps \cup {"assign"} /\ pc[t] \notin RunSteps \cup {"assign"}
  <2>1. pc'[t] = label /\ \A u \in Threads \ {t} : pc'[u] = pc[u]
    BY DEF IInv, ThreadTypes
  <2>2. label \notin RunSteps \cup {"assign"} /\ pc[t] \notin RunSteps \cup {"assign"}
    BY DEF Returned, TurnSteps, RunSteps, NextTurnSteps
  <2>3. t \in Busy
    BY Labels
  <2>4. Busy' \subseteq Busy
    BY <2>1, <2>3 DEF Busy
  <2>. QED  BY <2>1, <2>2, <2>3, <2>4
<1>2. ThreadTypes'
  BY <1>0 DEF IInv, ThreadTypes, Returned, Threads, TurnSteps
<1>3. Alone'
  BY <1>1 DEF IInv, Alone
<1>4. NotThePlayer'
  <2>. SUFFICES ASSUME NEW w \in Workers, pc'[w] \in RunSteps PROVE FALSE
    BY DEF NotThePlayer
  <2>1. w # t /\ pc[w] \in RunSteps
    BY <1>1 DEF Threads
  <2>2. w \in Busy
    BY <2>1, Labels DEF Threads
  <2>. QED  BY <1>1, <2>1, <2>2 DEF IInv, Alone
<1>5. ClosedInv'
  BY DEF ClosedInv, Running
<1>6. ThreadInv'
  <2>0. ThreadInv
    BY DEF IInv
  <2>1. \A u \in Threads : pc'[u] = "assign" <=> pc[u] = "assign"
    BY <1>1
  <2>. QED  BY <1>1, <2>0, <2>1 DEF ThreadInv, Awaited
<1>. QED  BY <1>2, <1>3, <1>4, <1>5, <1>6 DEF IInv

\* A thread that begins, goes on with or stops playing stays the one that plays.
LEMMA PlayingInv ==
    ASSUME IInv, NEW w \in Workers, pc[w] \in RunSteps, Running,
           NEW label \in RunSteps \cup TurnSteps \cup {"dead"}, pc' = [pc EXCEPT ![w] = label],
           UNCHANGED <<automatonThread, child, initialised, currentCharacter, overtaken>>
    PROVE  IInv'
<1>1. /\ Busy' \subseteq Busy /\ w \in Busy /\ w \in Threads
      /\ pc'[w] = label /\ \A u \in Threads \ {w} : pc'[u] = pc[u]
      /\ label # "assign" /\ pc[w] # "assign"
  <2>1. w \in Threads /\ pc'[w] = label /\ \A u \in Threads \ {w} : pc'[u] = pc[u]
    BY DEF IInv, ThreadTypes, Threads
  <2>2. label # "assign" /\ pc[w] # "assign"
    BY DEF TurnSteps, RunSteps
  <2>3. w \in Busy
    BY <2>1, Labels
  <2>4. Busy' \subseteq Busy
    BY <2>1, <2>3 DEF Busy
  <2>. QED  BY <2>1, <2>2, <2>3, <2>4
<1>2. ThreadTypes'
  <2>1. UI \notin Workers
    BY TurnAssumption
  <2>2. label \in NextTurnSteps \cup RunSteps \cup {"dead"}
    BY DEF TurnSteps
  <2>. QED  BY <2>1, <2>2 DEF IInv, ThreadTypes, Threads
<1>3. Alone'
  BY <1>1 DEF IInv, Alone
<1>4. NotThePlayer'
  BY <1>1 DEF IInv, NotThePlayer, Threads
<1>5. ClosedInv'
  BY DEF ClosedInv, Running
<1>6. ThreadInv'
  <2>0. ThreadInv
    BY DEF IInv
  <2>1. \A u \in Threads : pc'[u] = "assign" <=> pc[u] = "assign"
    BY <1>1
  <2>. QED  BY <1>1, <2>0, <2>1 DEF ThreadInv, Awaited
<1>. QED  BY <1>2, <1>3, <1>4, <1>5, <1>6 DEF IInv

\* The thread of the next automated character starts and its parent, which is not
\* busy any more, has still to assign it.
LEMMA LaunchInv == ASSUME IInv, NEW t \in Threads, Launch(t) PROVE IInv'
<1>. USE DEF Launch, At
<1>0. pc[t] = "launch" /\ "launch" \in TurnSteps /\ Running
  BY DEF TurnSteps, NextTurnSteps
<1>1. CASE currentCharacter \notin chars
  BY <1>0, <1>1, HandingOverInv DEF Throw, Goto
<1>2. CASE currentCharacter \in chars /\ currentCharacter = Player
  <2>1. "yield" \in TurnSteps
    BY DEF TurnSteps, NextTurnSteps
  <2>2. pc' = [pc EXCEPT ![t] = "yield"]
    BY <1>2 DEF Goto
  <2>3. UNCHANGED <<automatonThread, child, initialised, overtaken>>
    BY <1>2
  <2>. QED  BY <1>0, <2>1, <2>2, <2>3, HandingOverInv
<1>3. CASE currentCharacter \in chars /\ currentCharacter # Player
  <2>1. PICK w \in Unused : /\ child' = [child EXCEPT ![t] = w]
                            /\ pc' = [pc EXCEPT ![t] = "assign", ![w] = "begin"]
    BY <1>3
  <2>2. /\ w \in Workers /\ w \in Threads /\ w # t /\ w # UI
        /\ pc[w] = "dead"
    BY <1>0, TurnAssumption DEF Unused, Threads
  <2>3. /\ pc'[t] = "assign" /\ pc'[w] = "begin" /\ child'[t] = w
        /\ \A u \in Threads \ {t, w} : pc'[u] = pc[u]
    BY <2>1, <2>2 DEF IInv, ThreadTypes
  <2>4. t \in Busy /\ UNCHANGED <<currentCharacter, automatonThread, initialised, failure, overtaken>>
    BY <1>0, <1>3, Labels
  <2>5. Busy' = {w}
    <3>1. \A u \in Threads \ {t, w} : u \notin Busy'
      BY <2>3, <2>4 DEF IInv, Alone, Busy
    <3>2. w \in Busy' /\ t \notin Busy'
      BY <2>2, <2>3 DEF Busy
    <3>. QED  BY <3>1, <3>2 DEF Busy
  <2>6. ThreadTypes'
    BY <2>1, <2>2, <2>4 DEF IInv, ThreadTypes, NextTurnSteps, RunSteps, Threads
  <2>7. Alone'
    BY <2>5 DEF Alone
  <2>8. NotThePlayer'
    <3>1. ASSUME NEW v \in Workers, pc'[v] \in RunSteps PROVE v = w
      BY <2>5, <3>1 DEF Busy, RunSteps, Threads
    <3>. QED  BY <1>3, <2>4, <3>1 DEF NotThePlayer
  <2>9. ClosedInv'
    BY <1>0, <2>4 DEF ClosedInv, Running
  <2>10. ThreadInv'
    <3>0. ThreadInv
      BY DEF IInv
    <3>1. \A u \in Threads : pc'[u] = "assign" <=> pc[u] = "assign" \/ u = t
      BY <1>0, <2>2, <2>3
    <3>2. \A u \in Threads : pc'[u] = "assign" => child'[u] \in Workers \ {u}
      BY <2>1, <2>2, <2>3, <3>0, <3>1 DEF IInv, ThreadTypes, ThreadInv
    <3>3. Awaited(w)'
      <4>1. CASE t = UI
        BY <2>3, <4>1 DEF Awaited, Threads
      <4>2. CASE t # UI
        <5>1. t \in Workers \cap Busy
          BY <2>4, <4>2 DEF Threads
        <5>2. Awaited(t)
          BY <3>0, <5>1 DEF ThreadInv
        <5>. QED  BY <2>4, <3>1, <5>2 DEF Awaited
      <4>. QED  BY <4>1, <4>2
    <3>. QED  BY <2>5, <3>2, <3>3 DEF ThreadInv
  <2>. QED  BY <2>6, <2>7, <2>8, <2>9, <2>10 DEF IInv
<1>. QED  BY <1>1, <1>2, <1>3

\* The parent assigns its child and returns.
LEMMA AssignInv == ASSUME IInv, NEW t \in Threads, Assign(t) PROVE IInv'
<1>. USE DEF Assign, Goto
<1>0. ThreadInv /\ UI \notin Workers
  BY TurnAssumption DEF IInv
<1>1. /\ pc'[t] \in {"idle", "dead"} /\ pc[t] = "assign"
      /\ child[t] \in Workers \ {t} /\ automatonThread' = child[t]
      /\ \A u \in Threads \ {t} : pc'[u] = pc[u] /\ child'[u] = child[u]
  BY <1>0 DEF Returned, IInv, ThreadTypes, ThreadInv
<1>2. Busy' = Busy
  <2>1. t \notin Busy /\ t \notin Busy'
    BY <1>1 DEF Busy, NextTurnSteps
  <2>2. \A u \in Threads \ {t} : u \in Busy' <=> u \in Busy
    BY <1>1 DEF Busy
  <2>. QED  BY <2>1, <2>2 DEF Busy
<1>3. ThreadTypes'
  BY <1>0, <1>1 DEF IInv, ThreadTypes, Threads, Returned
<1>4. Alone'
  BY <1>2 DEF IInv, Alone
<1>5. ClosedInv'
  BY <1>2 DEF IInv, ClosedInv
<1>6. NotThePlayer'
  BY <1>1 DEF IInv, NotThePlayer, Threads, RunSteps
<1>7. ThreadInv'
  <2>1. \A u \in Threads : pc'[u] = "assign" => child'[u] \in Workers \ {u}
    BY <1>0, <1>1 DEF ThreadInv
  <2>2. ASSUME NEW w \in Workers \cap Busy' PROVE Awaited(w)'
    <3>. DEFINE c == child[t]
    <3>1. c \in Threads \ {t} /\ pc'[c] = pc[c]
      BY <1>1 DEF Threads
    <3>2. CASE pc[c] = "dead"
      BY <3>2 DEF Awaited
    <3>3. CASE pc[c] = "assign"
      BY <1>1, <3>1, <3>3 DEF Awaited
    <3>4. CASE pc[c] \notin {"dead", "assign"}
      <4>1. c \in Busy
        BY <1>1, <3>1, <3>4 DEF IInv, ThreadTypes, Busy, RunSteps
      <4>2. w = c
        BY <1>2, <4>1 DEF IInv, Alone
      <4>. QED  BY <1>1, <4>2 DEF Awaited
    <3>. QED  BY <3>2, <3>3, <3>4
  <2>. QED  BY <2>1, <2>2 DEF ThreadInv
<1>. QED  BY <1>3, <1>4, <1>5, <1>6, <1>7 DEF IInv

\* It is the player's turn: nobody plays.
LEMMA YieldInv == ASSUME IInv, NEW t \in Threads, Yield(t) PROVE IInv'
<1>. USE DEF Yield, At, Goto
<1>0. UI \notin Workers /\ ThreadInv /\ pc[t] = "yield" /\ t \in Busy
  <2>1. pc[t] = "yield" /\ "yield" \in TurnSteps
    BY DEF TurnSteps, NextTurnSteps
  <2>. QED  BY <2>1, TurnAssumption, Labels DEF IInv, Running
<1>1. pc'[t] \in {"idle", "dead"} /\ \A u \in Threads \ {t} : pc'[u] = pc[u]
  BY DEF Returned, IInv, ThreadTypes
<1>2. Busy' = {}
  <2>1. t \notin Busy'
    BY <1>1 DEF Busy, NextTurnSteps
  <2>2. \A u \in Threads \ {t} : u \notin Busy
    BY <1>0 DEF IInv, Alone
  <2>3. \A u \in Threads \ {t} : u \notin Busy'
    BY <1>1, <2>2 DEF Busy
  <2>. QED  BY <2>1, <2>3 DEF Busy
<1>3. ThreadTypes'
  BY <1>0 DEF IInv, ThreadTypes, Threads, Returned
<1>4. Alone' /\ ClosedInv' /\ NotThePlayer'
  BY <1>2, Labels DEF Alone, ClosedInv, NotThePlayer, Busy, RunSteps, Threads
<1>5. ThreadInv'
  BY <1>0, <1>1, <1>2 DEF ThreadInv
<1>. QED  BY <1>3, <1>4, <1>5 DEF IInv

-----------------------------------------------------------------------------
(* The other steps of threads, and those of the user.                      *)

LEMMA NextTurnInv == ASSUME IInv, NEW t \in Threads, nextTurn(t) PROVE IInv'
<1>. USE DEF At
<1>1. ASSUME NEW from, NEW label \in TurnSteps \cup {Returned(t)},
             At(t, from), from \in TurnSteps, pc' = [pc EXCEPT ![t] = label],
             UNCHANGED <<automatonThread, child, initialised, overtaken>>
      PROVE  IInv'
  BY <1>1, HandingOverInv
<1>2. {"check", "rotate", "add", "scan", "look", "skip", "endRound", "flag", "flagAdd", "launch"}
         \subseteq TurnSteps
  BY DEF TurnSteps, NextTurnSteps
<1>3. CASE CheckHead(t)
  BY <1>1, <1>2, <1>3 DEF CheckHead, Goto, Throw
<1>4. CASE Rotate(t)
  BY <1>1, <1>2, <1>4 DEF Rotate, Goto, Throw
<1>5. CASE AddBack(t)
  BY <1>1, <1>2, <1>5 DEF AddBack, Goto
<1>6. CASE Scan(t)
  BY <1>1, <1>2, <1>6 DEF Scan, Goto
<1>7. CASE Look(t)
  BY <1>1, <1>2, <1>7 DEF Look, Goto, Throw
<1>8. CASE Skip(t)
  BY <1>1, <1>2, <1>8 DEF Skip, Goto, Throw
<1>9. CASE EndRound(t)
  BY <1>1, <1>2, <1>9 DEF EndRound, Goto
<1>10. CASE PollFlag(t)
  BY <1>1, <1>2, <1>10 DEF PollFlag, Goto, Throw
<1>11. CASE AddFlag(t)
  BY <1>1, <1>2, <1>11 DEF AddFlag, Goto
<1>. QED
  BY <1>3, <1>4, <1>5, <1>6, <1>7, <1>8, <1>9, <1>10, <1>11, LaunchInv, AssignInv, YieldInv
  DEF nextTurn

LEMMA RunInv == ASSUME IInv, NEW w \in Workers, run(w) PROVE IInv'
<1>. USE DEF At, Goto, Throw
<1>0. RunSteps = {"begin", "automation", "force"} /\ "check" \in TurnSteps /\ w # UI
  BY TurnAssumption DEF RunSteps, TurnSteps, NextTurnSteps
<1>1. CASE BeginAutomation(w)
  BY <1>0, <1>1, PlayingInv DEF BeginAutomation
<1>2. CASE AutomationEnds(w)
  <2>1. CASE currentCharacter \in chars
    BY <1>0, <1>2, <2>1, PlayingInv DEF AutomationEnds
  <2>2. CASE currentCharacter \notin chars
    BY <1>0, <1>2, <2>2, PlayingInv DEF AutomationEnds, Returned
  <2>. QED  BY <2>1, <2>2
<1>3. CASE ForceNextTurn(w)
  <2>1. CASE me[w] = currentCharacter
    BY <1>0, <1>3, <2>1, PlayingInv DEF ForceNextTurn
  <2>2. CASE me[w] # currentCharacter
    BY <1>0, <1>3, <2>2, PlayingInv DEF ForceNextTurn
  <2>. QED  BY <2>1, <2>2
<1>4. ASSUME NEW v \in Controlled, AutomationKills(w, v) PROVE IInv'
  BY <1>4 DEF AutomationKills, IInv, ThreadTypes, Alone, NotThePlayer, ClosedInv, ThreadInv,
              Awaited, Busy
<1>. QED  BY <1>1, <1>2, <1>3, <1>4 DEF run

\* When it is the player's turn and the user is patient, nobody plays.
LEMMA NobodyPlays ==
    ASSUME IInv, ~EagerUser, PlayerMayAct
    PROVE  Busy = {}
<1>1. \A w \in Workers : pc[w] \notin TurnSteps /\ pc[w] \notin RunSteps
  BY DEF PlayerMayAct, HandingOver, Threads, TurnSteps, IInv, NotThePlayer
<1>2. pc[UI] \notin TurnSteps \cup RunSteps
  BY DEF PlayerMayAct, TurnSteps, RunSteps, NextTurnSteps
<1>. QED  BY <1>1, <1>2, Labels DEF Threads

LEMMA UserInv ==
    ASSUME IInv, ~EagerUser, PressNextTurn \/ \E v \in Controlled : PlayerKills(v)
    PROVE  IInv'
<1>1. CASE PressNextTurn
  <2>1. Busy = {}
    BY <1>1, NobodyPlays DEF PressNextTurn
  <2>2. UI \in Threads /\ UI \notin Workers /\ "check" \in NextTurnSteps
    BY TurnAssumption DEF Threads, NextTurnSteps
  <2>3. pc' = [pc EXCEPT ![UI] = "check"]
        /\ UNCHANGED <<currentCharacter, automatonThread, child, initialised, failure, overtaken>>
    BY <1>1 DEF PressNextTurn, Goto
  <2>4. pc'[UI] = "check" /\ \A t \in Threads \ {UI} : pc'[t] = pc[t]
    BY <2>2, <2>3 DEF IInv, ThreadTypes
  <2>5. \A t \in Busy' : t = UI
    BY <2>1, <2>4 DEF Busy
  <2>6. ThreadTypes'
    BY <2>2, <2>3 DEF IInv, ThreadTypes
  <2>7. Alone'
    BY <2>5 DEF Alone
  <2>8. NotThePlayer'
    BY <2>2, <2>3, <2>4 DEF IInv, NotThePlayer, Threads
  <2>9. ClosedInv'
    BY <1>1, <2>3 DEF PressNextTurn, PlayerMayAct, Running, ClosedInv
  <2>10. ThreadInv'
    BY <2>2, <2>3, <2>4, <2>5 DEF IInv, ThreadInv
  <2>. QED  BY <2>6, <2>7, <2>8, <2>9, <2>10 DEF IInv
<1>2. ASSUME NEW v \in Controlled, PlayerKills(v) PROVE IInv'
  BY <1>2 DEF PlayerKills, IInv, ThreadTypes, Alone, NotThePlayer, ClosedInv, ThreadInv,
              Awaited, Busy
<1>. QED  BY <1>1, <1>2

\* While a thread plays close waits for it, or for a thread that has still to assign
\* its child.
LEMMA CloseSees ==
    ASSUME IInv, pc[UI] \in {"idle", "close", "isAlive"}, Busy # {}, ~overtaken
    PROVE  automatonThread \in Workers /\ pc[automatonThread] # "dead"
<1>1. PICK w \in Busy : TRUE
  OBVIOUS
<1>2. w \in Workers
  <2>1. UI \notin Busy
    BY DEF Busy, NextTurnSteps
  <2>. QED  BY <1>1, <2>1 DEF Busy, Threads
<1>3. CASE automatonThread = w
  BY <1>2, <1>3 DEF Busy, NextTurnSteps
<1>4. CASE automatonThread # w
  <2>1. automatonThread \in Threads /\ pc[automatonThread] = "assign"
    BY <1>1, <1>2, <1>4 DEF IInv, ThreadInv, Awaited
  <2>2. automatonThread \in Workers
    BY <2>1, TurnAssumption DEF IInv, ThreadTypes, Threads
  <2>. QED  BY <2>1, <2>2
<1>. QED  BY <1>3, <1>4

\* close reads automatonThread, and asks it whether it is alive; initialise starts
\* over.
LEMMA LifeInv == ASSUME IInv, Close \/ CloseIsAlive \/ Initialise PROVE IInv'
<1>0. UI \in Threads /\ UI \notin Workers
  BY TurnAssumption DEF Threads
<1>1. ASSUME NEW label \in {"idle", "close", "isAlive"}, pc[UI] \in {"idle", "close", "isAlive"},
             pc' = [pc EXCEPT ![UI] = label],
             UNCHANGED <<currentCharacter, automatonThread, child, overtaken>>,
             \/ initialised' \/ Busy = {} \/ (overtaken /\ failure' # "none")
      PROVE  IInv'
  <2>1. pc'[UI] = label /\ \A t \in Threads \ {UI} : pc'[t] = pc[t]
    BY <1>0, <1>1 DEF IInv, ThreadTypes
  <2>2. Busy' = Busy
    <3>1. UI \notin Busy /\ UI \notin Busy'
      BY <1>1, <2>1 DEF Busy, NextTurnSteps
    <3>. QED  BY <2>1, <3>1 DEF Busy
  <2>3. ThreadTypes'
    BY <1>0, <1>1 DEF IInv, ThreadTypes
  <2>4. Alone' /\ ClosedInv'
    BY <1>1, <2>2 DEF IInv, Alone, ClosedInv
  <2>5. NotThePlayer'
    BY <1>0, <1>1, <2>1 DEF IInv, NotThePlayer, Threads
  <2>6. ThreadInv'
    <3>1. \A t \in Threads : pc'[t] = "assign" <=> pc[t] = "assign"
      BY <1>1, <2>1
    <3>. QED  BY <1>1, <2>2, <3>1 DEF IInv, ThreadInv, Awaited
  <2>. QED  BY <2>3, <2>4, <2>5, <2>6 DEF IInv
<1>2. ASSUME pc[UI] \in {"idle", "close", "isAlive"}, Closed, Busy = {} \/ overtaken,
             UNCHANGED <<currentCharacter, automatonThread, child, overtaken>>
      PROVE  IInv'
  BY <1>1, <1>2 DEF Closed, Goto
<1>3. CASE Close
  <2>1. automatonThread = NoThread => Busy = {} \/ overtaken
    BY <1>3, CloseSees, TurnAssumption DEF Close, Threads
  <2>. QED  BY <1>1, <1>2, <1>3, <2>1 DEF Close, Running, Goto
<1>4. CASE CloseIsAlive
  <2>1. automatonThread # NoThread /\ pc[automatonThread] = "dead" => Busy = {} \/ overtaken
    BY <1>4, CloseSees DEF CloseIsAlive
  <2>. QED  BY <1>1, <1>2, <1>4, <2>1 DEF CloseIsAlive, Running, Goto, Throw, Returned
<1>5. CASE Initialise
  <2>1. Busy = {} /\ UNCHANGED <<pc, child, automatonThread, failure, overtaken>>
    BY <1>5 DEF Initialise, IInv, ClosedInv
  <2>2. Busy' = {}
    BY <2>1 DEF Busy
  <2>3. \A w \in Workers : pc'[w] \notin RunSteps
    BY <2>2, Labels DEF Busy, Threads, RunSteps
  <2>4. ThreadTypes' /\ Alone' /\ ClosedInv' /\ ThreadInv'
    BY <2>1, <2>2 DEF IInv, ThreadTypes, Alone, ClosedInv, ThreadInv
  <2>. QED  BY <2>3, <2>4 DEF IInv, NotThePlayer
<1>. QED  BY <1>3, <1>4, <1>5

LEMMA NextInv == ASSUME ~EagerUser PROVE IInv /\ [Next]_vars => IInv'
<1>. SUFFICES ASSUME IInv, [Next]_vars PROVE IInv'
  OBVIOUS
<1>1. CASE UNCHANGED vars
  BY <1>1 DEF vars, IInv, ThreadTypes, Alone, NotThePlayer, ClosedInv, ThreadInv, Awaited, Busy
<1>. QED  BY <1>1, NextTurnInv, RunInv, UserInv, LifeInv DEF Next

LEMMA InductiveInv == ASSUME ~EagerUser PROVE Spec => []IInv
<1>1. IInv /\ [Next]_vars => IInv'
  BY NextInv
<1>. QED  BY <1>1, InitInv, PTL DEF Spec

\* One thread at a time plays or hands over, for any number of threads, creeps and
\* towers, as long as the user waits for hand-overs to end.
THEOREM OneTurn == ASSUME ~EagerUser PROVE Spec => []OneTurnAtATime
<1>1. Alone => OneTurnAtATime
  <2>. SUFFICES ASSUME Alone PROVE Cardinality(Busy) <= 1
    BY DEF OneTurnAtATime
  <2>1. CASE Busy = {}
    BY <2>1, FS_EmptySet
  <2>2. CASE Busy # {}
    <3>1. PICK t \in Busy : Busy = {t}
      BY <2>2 DEF Alone
    <3>2. Cardinality({t}) = 1
      BY FS_Singleton
    <3>. QED  BY <3>1, <3>2
  <2>. QED  BY <2>1, <2>2
<1>2. IInv => OneTurnAtATime
  BY <1>1 DEF IInv
<1>. QED  BY <1>2, InductiveInv, PTL

\* While a thread plays close() does not return, however its two reads of
\* automatonThread fall between the statements of the threads, any number of which
\* may be late to assign their children; unless the last one to assign was so late
\* that its child had ended.
THEOREM CloseIsSafe == ASSUME ~EagerUser PROVE Spec => []CloseWaits
<1>1. IInv => CloseWaits
  BY DEF IInv, ClosedInv, CloseWaits
<1>. QED  BY <1>1, InductiveInv, PTL

-----------------------------------------------------------------------------
(* Queues of names without duplicates.                                     *)

\* n is in s; nothing is in s twice.
Holds(s, n) == \E i \in 1..Len(s) : s[i] = n
Distinct(s) == \A i, j \in 1..Len(s) : s[i] = s[j] => i = j

\* The operators on queues, by what the queue holds afterwards: poll ...
LEMMA HeadHolds ==
    ASSUME NEW S, NEW s \in Seq(S), s # << >>
    PROVE  Head(s) \in S /\ Head(s) = s[1] /\ Holds(s, Head(s)) /\ Len(s) \in Nat \ {0}
BY EmptySeq, LenProperties, HeadTailProperties DEF Holds

\* ... what is left of it,
LEMMA TailHolds ==
    ASSUME NEW S, NEW s \in Seq(S), s # << >>, Distinct(s)
    PROVE  /\ Tail(s) \in Seq(S) /\ Distinct(Tail(s))
           /\ \A n : Holds(Tail(s), n) <=> Holds(s, n) /\ n # Head(s)
<1>1. /\ Tail(s) \in Seq(S) /\ Len(Tail(s)) = Len(s) - 1 /\ Len(s) \in Nat \ {0}
      /\ \A i \in 1..Len(Tail(s)) : Tail(s)[i] = s[i + 1]
  BY HeadTailProperties, HeadHolds
<1>2. Distinct(Tail(s))
  BY <1>1 DEF Distinct
<1>3. ASSUME NEW n, Holds(Tail(s), n) PROVE Holds(s, n) /\ n # Head(s)
  <2>1. PICK i \in 1..Len(Tail(s)) : Tail(s)[i] = n
    BY <1>3 DEF Holds
  <2>2. i + 1 \in 1..Len(s) /\ s[i + 1] = n /\ i + 1 # 1 /\ 1 \in 1..Len(s)
    BY <1>1, <2>1
  <2>. QED  BY <2>2, HeadHolds DEF Holds, Distinct
<1>4. ASSUME NEW n, Holds(s, n), n # Head(s) PROVE Holds(Tail(s), n)
  <2>1. PICK i \in 1..Len(s) : s[i] = n
    BY <1>4 DEF Holds
  <2>2. i # 1
    BY <1>4, <2>1, HeadHolds
  <2>3. i - 1 \in 1..Len(Tail(s)) /\ Tail(s)[i - 1] = n
    BY <1>1, <2>1, <2>2
  <2>. QED  BY <2>3 DEF Holds
<1>. QED  BY <1>1, <1>2, <1>3, <1>4

\* ... add,
LEMMA AppendHolds ==
    ASSUME NEW S, NEW s \in Seq(S), NEW e \in S, Distinct(s), ~Holds(s, e)
    PROVE  /\ Append(s, e) \in Seq(S) /\ Distinct(Append(s, e)) /\ Append(s, e) # << >>
           /\ \A n : Holds(Append(s, e), n) <=> Holds(s, n) \/ n = e
<1>1. /\ Append(s, e) \in Seq(S) /\ Append(s, e) # << >>
      /\ Len(Append(s, e)) = Len(s) + 1 /\ Len(s) \in Nat
      /\ \A i \in 1..Len(s) : Append(s, e)[i] = s[i]
      /\ Append(s, e)[Len(s) + 1] = e
  BY AppendProperties, LenProperties
<1>2. \A i \in 1..Len(Append(s, e)) : i \in 1..Len(s) \/ i = Len(s) + 1
  BY <1>1
<1>3. Distinct(Append(s, e))
  BY <1>1, <1>2 DEF Distinct, Holds
<1>4. \A n : Holds(Append(s, e), n) <=> Holds(s, n) \/ n = e
  BY <1>1, <1>2 DEF Holds
<1>. QED  BY <1>1, <1>3, <1>4

\* ... two queues, one behind the other,
LEMMA ConcatHolds ==
    ASSUME NEW S, NEW s \in Seq(S), NEW t \in Seq(S), Distinct(s), Distinct(t),
           \A n : ~(Holds(s, n) /\ Holds(t, n))
    PROVE  /\ s \o t \in Seq(S) /\ Distinct(s \o t)
           /\ \A n : Holds(s \o t, n) <=> Holds(s, n) \/ Holds(t, n)
<1>1. /\ s \o t \in Seq(S) /\ Len(s) \in Nat /\ Len(t) \in Nat
      /\ Len(s \o t) = Len(s) + Len(t)
  BY ConcatProperties, LenProperties
<1>2. \A i \in 1..Len(s) : i \in 1..Len(s \o t) /\ (s \o t)[i] = s[i]
  BY <1>1, ConcatProperties
<1>3. \A i \in 1..Len(t) : Len(s) + i \in 1..Len(s \o t) /\ (s \o t)[Len(s) + i] = t[i]
  BY <1>1, ConcatProperties
<1>4. ASSUME NEW i \in 1..Len(s \o t)
      PROVE  i \in 1..Len(s) \/ (i - Len(s) \in 1..Len(t) /\ (s \o t)[i] = t[i - Len(s)] /\ i > Len(s))
  BY <1>1, ConcatProperties
<1>5. ASSUME NEW n PROVE Holds(s \o t, n) <=> Holds(s, n) \/ Holds(t, n)
  <2>1. Holds(s \o t, n) => Holds(s, n) \/ Holds(t, n)
    <3>. SUFFICES ASSUME NEW i \in 1..Len(s \o t), (s \o t)[i] = n PROVE Holds(s, n) \/ Holds(t, n)
      BY DEF Holds
    <3>1. CASE i \in 1..Len(s)
      BY <1>2, <3>1 DEF Holds
    <3>2. CASE i \notin 1..Len(s)
      BY <1>4, <3>2 DEF Holds
    <3>. QED  BY <3>1, <3>2
  <2>2. Holds(s, n) => Holds(s \o t, n)
    BY <1>2 DEF Holds
  <2>3. Holds(t, n) => Holds(s \o t, n)
    BY <1>3 DEF Holds
  <2>. QED  BY <2>1, <2>2, <2>3
<1>6. Distinct(s \o t)
  <2>. SUFFICES ASSUME NEW i \in 1..Len(s \o t), NEW j \in 1..Len(s \o t),
                       (s \o t)[i] = (s \o t)[j]
                PROVE  i = j
    BY DEF Distinct
  <2>1. CASE i \in 1..Len(s) /\ j \in 1..Len(s)
    BY <1>2, <2>1 DEF Distinct
  <2>2. CASE i \notin 1..Len(s) /\ j \notin 1..Len(s)
    <3>1. i - Len(s) = j - Len(s)
      BY <1>4, <2>2 DEF Distinct
    <3>. QED  BY <1>1, <3>1
  <2>3. CASE i \in 1..Len(s) /\ j \notin 1..Len(s)
    BY <1>2, <1>4, <2>3 DEF Holds
  <2>4. CASE i \notin 1..Len(s) /\ j \in 1..Len(s)
    BY <1>2, <1>4, <2>4 DEF Holds
  <2>. QED  BY <2>1, <2>2, <2>3, <2>4
<1>. QED  BY <1>1, <1>5, <1>6

\* ... remove, which keeps the head unless it is the one to go,
LEMMA RemoveHolds ==
    ASSUME NEW S, NEW s \in Seq(S), Distinct(s), NEW v
    PROVE  /\ RemoveFirst(s, v) \in Seq(S) /\ Distinct(RemoveFirst(s, v))
           /\ \A n : Holds(RemoveFirst(s, v), n) <=> Holds(s, n) /\ n # v
           /\ s # << >> /\ Head(s) # v =>
                 RemoveFirst(s, v) # << >> /\ Head(RemoveFirst(s, v)) = Head(s)
<1>1. CASE ~Holds(s, v)
  BY <1>1 DEF Holds, RemoveFirst, SelectInSeq
<1>2. CASE Holds(s, v)
  <2>1. PICK k \in 1..Len(s) : s[k] = v
    BY <1>2 DEF Holds
  <2>. DEFINE a == SubSeq(s, 1, k - 1)
              b == SubSeq(s, k + 1, Len(s))
              t == a \o b
  <2>2. Len(s) \in Nat /\ \A i \in 1..Len(s) : s[i] \in S
    BY LenProperties, ElementOfSeq
  <2>3. RemoveFirst(s, v) = t
    <3>1. {i \in 1..Len(s) : s[i] = v} = {k}
      BY <2>1 DEF Distinct
    <3>2. Min({k}) = k
      BY <2>2 DEF Min
    <3>. QED  BY <2>1, <3>1, <3>2 DEF RemoveFirst, RemoveAt, SelectInSeq
  <2>4. a \in Seq(S) /\ Len(a) = k - 1 /\ \A i \in 1..(k - 1) : a[i] = s[i]
    BY <2>2, SubSeqProperties
  <2>5. /\ b \in Seq(S) /\ Len(b) = Len(s) - k
        /\ \A i \in 1..(Len(s) - k) : b[i] = s[k + i]
    BY <2>2, SubSeqProperties
  <2>. HIDE DEF a, b
  <2>6. t \in Seq(S) /\ Len(t) = Len(s) - 1
    <3>1. t \in Seq(S) /\ Len(t) = Len(a) + Len(b)
      BY <2>4, <2>5, ConcatProperties
    <3>2. (k - 1) + (Len(s) - k) = Len(s) - 1
      BY <2>2
    <3>. QED  BY <2>4, <2>5, <3>1, <3>2
  <2>7. \A i \in 1..Len(t) : t[i] = IF i < k THEN s[i] ELSE s[i + 1]
    <3>1. \A i \in 1..Len(t) : t[i] = IF i <= Len(a) THEN a[i] ELSE b[i - Len(a)]
      BY <2>2, <2>4, <2>5, <2>6, ConcatProperties
    <3>. HIDE DEF t
    <3>2. \A i \in 1..Len(t) : i >= k => /\ i - Len(a) \in 1..(Len(s) - k)
                                        /\ k + (i - Len(a)) = i + 1
      BY <2>2, <2>4, <2>6
    <3>3. \A i \in 1..Len(t) : i < k => i \in 1..(k - 1) /\ i <= Len(a)
      BY <2>2, <2>4, <2>6
    <3>4. \A i \in 1..Len(t) : i >= k => ~(i <= Len(a))
      BY <2>2, <2>4, <2>6
    <3>. QED  BY <2>2, <2>4, <2>5, <2>6, <3>1, <3>2, <3>3, <3>4
  <2>. HIDE DEF t
  <2>8. Distinct(t)
    BY <2>2, <2>6, <2>7 DEF Distinct
  <2>9. ASSUME NEW n PROVE Holds(t, n) <=> Holds(s, n) /\ n # v
    <3>1. ASSUME Holds(t, n) PROVE Holds(s, n) /\ n # v
      <4>1. PICK i \in 1..Len(t) : t[i] = n
        BY <3>1 DEF Holds
      <4>2. PICK j \in 1..Len(s) : j # k /\ s[j] = n
        BY <2>2, <2>6, <2>7, <4>1
      <4>. QED  BY <2>1, <4>2 DEF Holds, Distinct
    <3>2. ASSUME NEW j \in 1..Len(s), s[j] = n, n # v PROVE Holds(t, n)
      <4>1. CASE j < k
        <5>1. j \in 1..Len(t) /\ t[j] = n
          BY <2>2, <2>6, <2>7, <3>2, <4>1
        <5>. QED  BY <5>1 DEF Holds
      <4>2. CASE j > k
        <5>1. j - 1 \in 1..Len(t) /\ t[j - 1] = n
          BY <2>2, <2>6, <2>7, <3>2, <4>2
        <5>. QED  BY <5>1 DEF Holds
      <4>. QED  BY <2>1, <2>2, <3>2, <4>1, <4>2
    <3>. QED  BY <3>1, <3>2 DEF Holds
  <2>10. ASSUME s # << >>, Head(s) # v PROVE t # << >> /\ Head(t) = Head(s)
    <3>1. Head(s) = s[1]
      BY <2>10, HeadHolds
    <3>2. k > 1 /\ Len(t) > 0
      BY <2>1, <2>2, <2>6, <2>10, <3>1
    <3>3. t # << >>
      BY <2>6, <3>2, EmptySeq
    <3>4. t[1] = s[1]
      BY <2>2, <2>7, <3>2, <2>6
    <3>. QED  BY <2>6, <3>1, <3>3, <3>4, HeadHolds
  <2>. QED  BY <2>3, <2>6, <2>8, <2>9, <2>10
<1>. QED  BY <1>1, <1>2

\* ... and the characters of a set, in the order they are added.
LEMMA SetToSeqHolds ==
    ASSUME NEW S, IsFiniteSet(S)
    PROVE  /\ SetToSeq(S) \in Seq(S) /\ Distinct(SetToSeq(S))
           /\ \A n : Holds(SetToSeq(S), n) <=> n \in S
           /\ SetToSeq(S) \in SetToSeqs(S)
<1>1. Cardinality(S) \in Nat
  BY FS_CardinalityType
<1>2. PICK f \in Bijection(1..Cardinality(S), S) : TRUE
  BY FS_CardinalityType DEF ExistsBijection
<1>3. f \in [1..Cardinality(S) -> S] /\ IsInjective(f)
  BY <1>2 DEF Bijection, Injection
<1>. DEFINE g == SetToSeq(S)
<1>4. g \in [1..Cardinality(S) -> S] /\ IsInjective(g)
  BY <1>3 DEF SetToSeq
<1>5. g \in Injection(1..Cardinality(S), S)
  BY <1>4 DEF Injection
<1>6. g \in Surjection(1..Cardinality(S), S)
  <2>1. Cardinality(1..Cardinality(S)) = Cardinality(S)
    BY <1>1, FS_Interval
  <2>. QED  BY <1>5, <2>1, FS_Injection
<1>. HIDE DEF g
<1>7. g \in Seq(S) /\ Len(g) = Cardinality(S)
  BY <1>1, <1>4
<1>8. Distinct(g)
  BY <1>4, <1>7 DEF Distinct, IsInjective
<1>9. \A n : Holds(g, n) <=> n \in S
  BY <1>4, <1>6, <1>7 DEF Holds, Surjection
<1>10. g \in SetToSeqs(S)
  BY <1>4 DEF SetToSeqs, IsInjective
<1>. QED  BY <1>7, <1>8, <1>9, <1>10 DEF g

-----------------------------------------------------------------------------
(* Types.                                                                  *)

Carrying == {"add", "flagAdd"}

\* What a thread carries is a name at "add" and "flagAdd" only.
CarryInv == \A t \in Threads : polled[t] # NoName <=> pc[t] \in Carrying

\* What the queue may hold.
Names == Controlled \cup {Flag}

\* peek() of a queue of names.
LEMMA PeekType ==
    ASSUME TypeOK
    PROVE  peek \in Names \cup {NoName} /\ (roundOrder # << >> => peek \in Names)
BY HeadHolds DEF TypeOK, peek, Names

\* The queue of a new game: the hero first, every tower and the flag.
LEMMA InitialOrderHolds ==
    /\ InitialOrder \in Seq(Names)
    /\ Distinct(InitialOrder)
    /\ \A n : Holds(InitialOrder, n) <=> n \in {Player, Flag} \cup Towers
    /\ InitialOrder # << >> /\ Head(InitialOrder) = Player
<1>. DEFINE s == SetToSeq(Towers)
            a == <<Player>> \o s
<1>1. s \in Seq(Towers) /\ Distinct(s) /\ \A n : Holds(s, n) <=> n \in Towers
  BY TurnAssumption, SetToSeqHolds
<1>. HIDE DEF s
<1>2. s \in Seq(Names) /\ <<Player>> \in Seq(Names) /\ <<Flag>> \in Seq(Names)
  BY <1>1, SeqMonotonic DEF Names, Controlled
<1>3. \A e : Distinct(<<e>>) /\ \A n : Holds(<<e>>, n) <=> n = e
  BY DEF Distinct, Holds
<1>4. a \in Seq(Names) /\ Distinct(a) /\ \A n : Holds(a, n) <=> n = Player \/ n \in Towers
  <2>1. \A n : ~(Holds(<<Player>>, n) /\ Holds(s, n))
    BY <1>1, <1>3, TurnAssumption
  <2>2. Distinct(<<Player>>) /\ \A n : Holds(<<Player>>, n) <=> n = Player
    BY <1>3
  <2>. HIDE DEF a
  <2>3. /\ <<Player>> \o s \in Seq(Names) /\ Distinct(<<Player>> \o s)
        /\ \A n : Holds(<<Player>> \o s, n) <=> Holds(<<Player>>, n) \/ Holds(s, n)
    BY <1>1, <1>2, <2>1, <2>2, ConcatHolds
  <2>. QED  BY <1>1, <2>2, <2>3 DEF a
<1>5. Len(a) = 1 + Len(s) /\ a[1] = Player /\ Len(s) \in Nat
  BY <1>2, ConcatProperties, LenProperties
<1>. HIDE DEF a
<1>6. InitialOrder = a \o <<Flag>>
  BY DEF InitialOrder, a, s
<1>7. /\ InitialOrder \in Seq(Names) /\ Distinct(InitialOrder)
      /\ \A n : Holds(InitialOrder, n) <=> n = Player \/ n \in Towers \/ n = Flag
  <2>1. Distinct(<<Flag>>) /\ \A n : Holds(<<Flag>>, n) <=> n = Flag
    BY <1>3
  <2>2. \A n : ~(Holds(a, n) /\ Holds(<<Flag>>, n))
    BY <1>4, <2>1, TurnAssumption DEF Controlled
  <2>3. /\ a \o <<Flag>> \in Seq(Names) /\ Distinct(a \o <<Flag>>)
        /\ \A n : Holds(a \o <<Flag>>, n) <=> Holds(a, n) \/ Holds(<<Flag>>, n)
    BY <1>2, <1>4, <2>1, <2>2, ConcatHolds
  <2>. QED  BY <1>4, <1>6, <2>1, <2>3
<1>8. Len(InitialOrder) = Len(a) + 1 /\ InitialOrder[1] = a[1]
  BY <1>2, <1>4, <1>5, <1>6, ConcatProperties, LenProperties
<1>9. InitialOrder # << >>
  BY <1>5, <1>8, EmptySeq
<1>. QED  BY <1>5, <1>7, <1>8, <1>9, HeadHolds

\* The numbers of rounds.
LEMMA RoundTypes ==
    /\ 1 \in 0 .. (SpawnEvery - 1) /\ 0 \in -1 .. ReviveRounds /\ -1 \in -1 .. ReviveRounds
    /\ ReviveRounds \in -1 .. ReviveRounds
    /\ \A n \in -1 .. ReviveRounds : n > 0 => n - 1 \in -1 .. ReviveRounds
BY TurnAssumption

\* The first state has its types.
LEMMA TypeInit == Init => TypeOK
<1>. SUFFICES ASSUME Init PROVE TypeOK
  OBVIOUS
<1>1. roundOrder \in Seq(Controlled \cup {Flag}) /\ currentCharacter \in Controlled
  BY InitialOrderHolds DEF Init, Names, Controlled
<1>2. roundCount \in 0 .. (SpawnEvery - 1) /\ roundsToRevive \in [Controlled -> -1 .. ReviveRounds]
  BY RoundTypes DEF Init
<1>3. chars \subseteq Controlled /\ {"idle", "dead"} \subseteq NextTurnSteps \cup {"idle", "dead"}
  BY DEF Init, Controlled
<1>. QED  BY <1>1, <1>2, <1>3 DEF Init, TypeOK

\* A step keeps the types, if removing the killed from the queue does.
LEMMA TypeStep ==
    ASSUME TypeOK, failure = "none" => CarryInv, [Next]_vars,
           \A v \in Controlled : PlayerKills(v) \/ (\E w \in Workers : AutomationKills(w, v))
                                   => roundOrder' \in Seq(Names)
    PROVE  TypeOK'
<1>. USE DEF TypeOK, At, Goto, Throw, Running
<1>0. peek \in Names \cup {NoName} /\ (roundOrder # << >> => Tail(roundOrder) \in Seq(Names))
  BY PeekType, HeadTailProperties DEF Names
<1>1. ASSUME NEW t \in Threads, nextTurn(t) PROVE TypeOK'
  <2>. USE DEF NextTurnSteps, Returned, Names
  <2>1. CASE CheckHead(t)
    BY <2>1 DEF CheckHead
  <2>2. CASE Rotate(t)
    BY <1>0, <2>2 DEF Rotate
  <2>3. CASE AddBack(t)
    <3>1. polled[t] \in Names
      BY <2>3 DEF AddBack, CarryInv, Carrying
    <3>. QED  BY <2>3, <3>1, AppendProperties DEF AddBack
  <2>4. CASE Scan(t)
    BY <2>4 DEF Scan
  <2>5. CASE Look(t)
    BY <1>0, <2>5 DEF Look
  <2>6. CASE Skip(t)
    BY <1>0, <2>6 DEF Skip
  <2>7. CASE EndRound(t)
    <3>1. roundsToRevive' \in [Controlled -> -1 .. ReviveRounds]
      BY <2>7, RoundTypes DEF EndRound
    <3>. QED  BY <2>7, <3>1 DEF EndRound
  <2>8. CASE PollFlag(t)
    BY <1>0, <2>8 DEF PollFlag
  <2>9. CASE AddFlag(t)
    <3>1. polled[t] \in Names
      BY <2>9 DEF AddFlag, CarryInv, Carrying
    <3>2. PICK spawned \in SUBSET Fresh :
             /\ chars' = chars \cup spawned
             /\ roundOrder' = Append(roundOrder, polled[t]) \o SetToSeq(spawned)
             /\ roundsToRevive' = [n \in Controlled |-> IF n \in spawned THEN 0 ELSE roundsToRevive[n]]
      BY <2>9 DEF AddFlag
    <3>3. spawned \subseteq Controlled /\ IsFiniteSet(spawned)
      BY <3>2, TurnAssumption, FS_Subset DEF Fresh, Controlled
    <3>4. SetToSeq(spawned) \in Seq(Names)
      <4>1. SetToSeq(spawned) \in Seq(spawned)
        BY <3>3, SetToSeqHolds
      <4>. QED  BY <3>3, <4>1, SeqMonotonic
    <3>5. roundOrder' \in Seq(Names)
      BY <3>1, <3>2, <3>4, AppendProperties, ConcatProperties
    <3>6. roundCount' \in 0 .. (SpawnEvery - 1)
      BY <2>9, TurnAssumption DEF AddFlag
    <3>7. roundsToRevive' \in [Controlled -> -1 .. ReviveRounds]
      BY <3>2, RoundTypes
    <3>. QED  BY <2>9, <3>2, <3>3, <3>5, <3>6, <3>7 DEF AddFlag
  <2>10. CASE Launch(t)
    BY <2>10 DEF Launch, Unused
  <2>11. CASE Assign(t)
    BY <2>11 DEF Assign
  <2>12. CASE Yield(t)
    BY <2>12 DEF Yield
  <2>. QED
    BY <1>1, <2>1, <2>2, <2>3, <2>4, <2>5, <2>6, <2>7, <2>8, <2>9, <2>10, <2>11, <2>12 DEF nextTurn
<1>2. ASSUME NEW v \in Controlled, Kill(v), roundOrder' \in Seq(Names),
             UNCHANGED <<currentCharacter, roundCount, automatonThread, pc, polled, me, child,
                         initialised, failure, overtaken>>
      PROVE  TypeOK'
  <2>1. roundsToRevive' \in [Controlled -> -1 .. ReviveRounds]
    BY <1>2, RoundTypes DEF Kill
  <2>2. chars' \subseteq Controlled
    BY <1>2 DEF Kill
  <2>. QED  BY <1>2, <2>1, <2>2 DEF Names
<1>3. ASSUME NEW w \in Workers, run(w) PROVE TypeOK'
  <2>1. CASE BeginAutomation(w)
    BY <2>1 DEF BeginAutomation
  <2>2. CASE AutomationEnds(w)
    BY <2>2 DEF AutomationEnds, Returned
  <2>3. CASE ForceNextTurn(w)
    BY <2>3 DEF ForceNextTurn, NextTurnSteps
  <2>4. ASSUME NEW v \in Controlled, AutomationKills(w, v) PROVE TypeOK'
    BY <1>2, <2>4 DEF AutomationKills
  <2>. QED  BY <1>3, <2>1, <2>2, <2>3, <2>4 DEF run
<1>4. ASSUME NEW v \in Controlled, PlayerKills(v) PROVE TypeOK'
  BY <1>2, <1>4 DEF PlayerKills, PlayerMayAct
<1>5. CASE PressNextTurn
  BY <1>5 DEF PressNextTurn, NextTurnSteps, PlayerMayAct
<1>6. CASE Close
  BY <1>6 DEF Close, Closed
<1>7. CASE CloseIsAlive
  BY <1>7 DEF CloseIsAlive, Closed, Returned
<1>8. CASE Initialise
  BY <1>8, InitialOrderHolds, RoundTypes DEF Initialise, Names, Controlled
<1>9. CASE UNCHANGED vars
  BY <1>9 DEF vars
<1>. QED  BY <1>1, <1>3, <1>4, <1>5, <1>6, <1>7, <1>8, <1>9 DEF Next

-----------------------------------------------------------------------------
(* The queue.                                                              *)

\* Where the head of the queue is not the character whose turn it is, or was.
Loose == {"rotate", "add", "scan", "look", "endRound", "flag", "flagAdd"}

\* A thread carries n.
Taken(n) == \E t \in Threads : polled[t] = n

\* The queue and what is carried are the registered characters and the flag, once;
\* the hero and the towers stay registered.
QueueInv ==
    /\ Distinct(roundOrder)
    /\ \A n \in Names : Holds(roundOrder, n) \/ Taken(n) <=> n \in chars \cup {Flag}
    /\ \A t \in Threads : polled[t] # NoName => ~Holds(roundOrder, polled[t])
    /\ {Player} \cup Towers \subseteq chars

\* Only the hero counts rounds until it comes back, and creeps do not stay dead.
Mortals ==
    /\ \A n \in chars \ {Player} : roundsToRevive[n] <= 0
    /\ \A n \in Creeps : roundsToRevive[n] = 0

\* Whoever plays is at the head of the queue and registered.
AtHead ==
    (\A t \in Threads : pc[t] \notin Loose) =>
        roundOrder # << >> /\ Head(roundOrder) = currentCharacter /\ currentCharacter \in chars

\* What a statement of nextTurn has found out still holds when the next one runs.
PlaceInv ==
    \A t \in Threads :
        /\ pc[t] \in {"endRound", "flag"} => roundOrder # << >> /\ Head(roundOrder) = Flag
        /\ pc[t] \in {"scan", "rotate"} => roundOrder # << >>
        /\ pc[t] = "flagAdd" => polled[t] = Flag
        /\ pc[t] = "look" => roundOrder # << >> /\ Head(roundOrder) # Flag
        /\ pc[t] = "skip" => ~IsAlive(currentCharacter)
        /\ pc[t] = "launch" => IsAlive(currentCharacter)

\* The inductive invariant; when close has failed, or returned too early, only the
\* types are left.
OrderInv ==
    /\ TypeOK
    /\ failure \in {"none", "null in close", "closed in play"}
    /\ failure = "none" => CarryInv /\ QueueInv /\ Mortals /\ AtHead /\ PlaceInv

\* A new game satisfies it.
LEMMA OrderInit == Init => OrderInv
<1>. SUFFICES ASSUME Init PROVE OrderInv
  OBVIOUS
<1>0. TypeOK
  BY TypeInit
<1>1. /\ Distinct(InitialOrder) /\ \A n : Holds(InitialOrder, n) <=> n \in {Player, Flag} \cup Towers
      /\ InitialOrder # << >> /\ Head(InitialOrder) = Player
  BY InitialOrderHolds
<1>2. \A t \in Threads : polled[t] = NoName /\ pc[t] \in {"idle", "dead"}
  BY DEF Init
<1>3. CarryInv
  BY <1>2 DEF CarryInv, Carrying
<1>4. QueueInv
  <2>1. \A n \in Names : ~Taken(n)
    BY <1>2, TurnAssumption DEF Taken, Names
  <2>. QED  BY <1>1, <1>2, <2>1 DEF QueueInv, Init
<1>5. Mortals
  BY TurnAssumption DEF Mortals, Init, Controlled
<1>6. AtHead
  BY <1>1 DEF AtHead, Init
<1>7. PlaceInv
  BY <1>2 DEF PlaceInv
<1>. QED  BY <1>0, <1>3, <1>4, <1>5, <1>6, <1>7 DEF OrderInv, Init

-----------------------------------------------------------------------------
\* Whoever hands over or plays is alone with it.
LEMMA OthersRest ==
    ASSUME IInv, NEW t \in Threads, pc[t] \in TurnSteps \cup RunSteps
    PROVE  \A u \in Threads \ {t} : pc[u] \notin TurnSteps \cup RunSteps
BY Labels DEF IInv, Alone

\* The statements at which something is carried, or the head is another one, are
\* statements of nextTurn.
LEMMA Rests ==
    Carrying \cup Loose \cup {"check", "skip", "launch"} \subseteq TurnSteps
BY DEF Carrying, Loose, TurnSteps, NextTurnSteps

\* A step of nextTurn.
LEMMA StepInv ==
    ASSUME IInv, OrderInv, NEW t \in Threads, pc[t] \in TurnSteps \cup RunSteps, Running,
           NEW label, pc' = [pc EXCEPT ![t] = label],
           TypeOK', UNCHANGED failure, QueueInv', Mortals',
           \A u \in Threads \ {t} : polled'[u] = polled[u],
           polled'[t] # NoName <=> label \in Carrying,
           label \notin Loose =>
              roundOrder' # << >> /\ Head(roundOrder') = currentCharacter' /\ currentCharacter' \in chars',
           label \in {"endRound", "flag"} => roundOrder' # << >> /\ Head(roundOrder') = Flag,
           label \in {"scan", "rotate"} => roundOrder' # << >>,
           label = "flagAdd" => polled'[t] = Flag,
           label = "look" => roundOrder' # << >> /\ Head(roundOrder') # Flag,
           label = "skip" => ~IsAlive(currentCharacter)',
           label = "launch" => IsAlive(currentCharacter)'
    PROVE  OrderInv'
<1>1. pc'[t] = label /\ \A u \in Threads \ {t} : pc'[u] = pc[u] /\ pc[u] \notin TurnSteps
  BY OthersRest DEF OrderInv, TypeOK
<1>2. CarryInv'
  <2>1. \A u \in Threads \ {t} : polled[u] # NoName <=> pc[u] \in Carrying
    BY DEF OrderInv, CarryInv, Running
  <2>. QED  BY <1>1, <2>1 DEF CarryInv
<1>3. AtHead'
  BY <1>1 DEF AtHead
<1>4. PlaceInv'
  <2>1. \A u \in Threads \ {t} : pc'[u] \notin Loose \cup {"skip", "launch"}
    BY <1>1, Rests
  <2>. QED  BY <1>1, <2>1 DEF PlaceInv, Loose
<1>. QED  BY <1>2, <1>3, <1>4 DEF OrderInv, Running

\* poll(): what was at the head is carried.
LEMMA PollInv ==
    ASSUME IInv, OrderInv, NEW t \in Threads, Running, pc[t] \in TurnSteps \ Carrying,
           roundOrder # << >>, polled' = [polled EXCEPT ![t] = peek],
           roundOrder' = Tail(roundOrder), UNCHANGED chars
    PROVE  QueueInv' /\ polled'[t] = Head(roundOrder) /\ polled'[t] # NoName
<1>. USE DEF Running
<1>1. polled[t] = NoName
  BY DEF OrderInv, CarryInv
<1>2. peek = Head(roundOrder) /\ Holds(roundOrder, peek) /\ peek \in Names /\ peek # NoName
  BY HeadHolds, TurnAssumption DEF peek, OrderInv, TypeOK, Names
<1>3. polled'[t] = peek /\ \A u \in Threads \ {t} : polled'[u] = polled[u]
  BY DEF OrderInv, TypeOK
<1>4. \A u \in Threads \ {t} : polled[u] = NoName
  <2>1. \A u \in Threads \ {t} : pc[u] \notin Carrying
    BY OthersRest, Rests
  <2>. QED  BY <2>1 DEF OrderInv, CarryInv
<1>5. /\ Distinct(roundOrder')
      /\ \A n : Holds(roundOrder', n) <=> Holds(roundOrder, n) /\ n # peek
  BY <1>2, TailHolds DEF OrderInv, QueueInv, TypeOK
<1>6. \A n \in Names : Taken(n)' <=> n = peek
  BY <1>3, <1>4, TurnAssumption DEF Taken, Names
<1>7. \A n \in Names : ~Taken(n)
  BY <1>1, <1>4, TurnAssumption DEF Taken, Names
<1>8. \A n \in Names : Holds(roundOrder', n) \/ Taken(n)' <=> n \in chars \cup {Flag}
  BY <1>2, <1>5, <1>6, <1>7 DEF OrderInv, QueueInv
<1>9. \A u \in Threads : polled'[u] # NoName => ~Holds(roundOrder', polled'[u])
  BY <1>3, <1>4, <1>5
<1>. QED  BY <1>2, <1>3, <1>5, <1>8, <1>9 DEF OrderInv, QueueInv

\* add(): what was carried goes to the tail.
LEMMA AddInv ==
    ASSUME IInv, OrderInv, NEW t \in Threads, Running, pc[t] \in Carrying
    PROVE  LET q == Append(roundOrder, polled[t])
           IN  /\ polled[t] \in Names /\ q \in Seq(Names) /\ Distinct(q) /\ q # << >>
               /\ \A n \in Names : Holds(q, n) <=> n \in chars \cup {Flag}
               /\ \A u \in Threads \ {t} : polled[u] = NoName
<1>. DEFINE q == Append(roundOrder, polled[t])
<1>. USE DEF Running
<1>1. polled[t] \in Names /\ ~Holds(roundOrder, polled[t])
  BY DEF OrderInv, CarryInv, TypeOK, Names, QueueInv
<1>2. \A u \in Threads \ {t} : polled[u] = NoName
  <2>1. \A u \in Threads \ {t} : pc[u] \notin Carrying
    BY OthersRest, Rests
  <2>. QED  BY <2>1 DEF OrderInv, CarryInv
<1>3. /\ q \in Seq(Names) /\ Distinct(q) /\ q # << >>
      /\ \A n : Holds(q, n) <=> Holds(roundOrder, n) \/ n = polled[t]
  BY <1>1, AppendHolds DEF OrderInv, QueueInv, TypeOK, Names
<1>4. \A n \in Names : Taken(n) <=> n = polled[t]
  BY <1>2, TurnAssumption DEF Taken, Names
<1>5. \A n \in Names : Holds(q, n) <=> n \in chars \cup {Flag}
  BY <1>3, <1>4 DEF OrderInv, QueueInv
<1>. QED  BY <1>1, <1>2, <1>3, <1>5

\* Nobody is carried: the queue is complete.
LEMMA Complete ==
    ASSUME IInv, OrderInv, Running, \A t \in Threads : pc[t] \notin Carrying
    PROVE  /\ \A n \in Names : Holds(roundOrder, n) <=> n \in chars \cup {Flag}
           /\ \A t \in Threads : polled[t] = NoName
<1>1. \A t \in Threads : polled[t] = NoName
  BY DEF OrderInv, CarryInv, Running
<1>2. \A n \in Names : ~Taken(n)
  BY <1>1, TurnAssumption DEF Taken, Names
<1>. QED  BY <1>1, <1>2 DEF OrderInv, QueueInv, Running

\* Somebody is killed while nobody hands over.
LEMMA KillInv ==
    ASSUME IInv, OrderInv, Running, \A t \in Threads : pc[t] \notin TurnSteps,
           NEW v \in Controlled, Kill(v),
           UNCHANGED <<currentCharacter, pc, polled, failure>>
    PROVE  roundOrder' \in Seq(Names) /\ (TypeOK' => OrderInv')
<1>. USE DEF Running
<1>1. \A t \in Threads : pc[t] \notin Carrying \cup Loose
  BY Rests
<1>2. /\ \A n \in Names : Holds(roundOrder, n) <=> n \in chars \cup {Flag}
      /\ \A t \in Threads : polled[t] = NoName
  BY <1>1, Complete
<1>3. Distinct(roundOrder) /\ roundOrder \in Seq(Names)
  BY DEF OrderInv, QueueInv, TypeOK, Names
<1>4. roundOrder # << >> /\ Head(roundOrder) = currentCharacter /\ currentCharacter \in chars
  BY <1>1 DEF OrderInv, AtHead
<1>5. v # currentCharacter /\ v \in chars /\ v # Flag /\ v \in Names /\ roundsToRevive[v] = 0
  BY TurnAssumption DEF Kill, IsAlive, Names
<1>6. /\ roundOrder' \in Seq(Names) /\ Distinct(roundOrder')
      /\ \A n \in Names : Holds(roundOrder', n) <=> n \in chars' \cup {Flag}
      /\ roundOrder' # << >> /\ Head(roundOrder') = currentCharacter
      /\ currentCharacter \in chars'
  <2>1. CASE v \in Creeps
    <3>1. roundOrder' = RemoveFirst(roundOrder, v) /\ chars' = chars \ {v}
      BY <2>1 DEF Kill
    <3>. QED  BY <1>2, <1>3, <1>4, <1>5, <3>1, RemoveHolds
  <2>2. CASE v \notin Creeps
    BY <1>2, <1>3, <1>4, <2>2 DEF Kill
  <2>. QED  BY <2>1, <2>2
<1>7. QueueInv'
  <2>1. \A n \in Names : ~Taken(n)'
    BY <1>2, TurnAssumption DEF Taken, Names
  <2>2. \A t \in Threads : polled'[t] = NoName
    BY <1>2
  <2>3. {Player} \cup Towers \subseteq chars'
    BY TurnAssumption DEF Kill, OrderInv, QueueInv
  <2>. QED  BY <1>6, <2>1, <2>2, <2>3 DEF QueueInv
<1>8. Mortals'
  <2>1. roundsToRevive' = [roundsToRevive EXCEPT
           ![v] = IF v = Player THEN ReviveRounds ELSE IF v \in Towers THEN -1 ELSE @]
    BY DEF Kill
  <2>2. /\ roundsToRevive \in [Controlled -> -1 .. ReviveRounds]
        /\ chars' \subseteq chars /\ chars \subseteq Controlled
    BY DEF OrderInv, TypeOK, Kill
  <2>3. \A n \in Controlled \ {Player} :
           roundsToRevive'[n] = IF n = v /\ n \in Towers THEN -1 ELSE roundsToRevive[n]
    BY <2>1, <2>2
  <2>. QED  BY <2>2, <2>3, TurnAssumption DEF OrderInv, Mortals, Controlled
<1>9. AtHead' /\ PlaceInv' /\ CarryInv'
  <2>1. CarryInv'
    BY DEF OrderInv, CarryInv
  <2>2. AtHead'
    BY <1>6 DEF AtHead
  <2>3. \A t \in Threads : pc'[t] \notin TurnSteps
    OBVIOUS
  <2>4. PlaceInv'
    BY <2>3, Rests DEF PlaceInv, Loose
  <2>. QED  BY <2>1, <2>2, <2>4
<1>. QED  BY <1>6, <1>7, <1>8, <1>9 DEF OrderInv

-----------------------------------------------------------------------------
(* nextTurn and the queue.                                                 *)

\* At a statement where nothing is loose the current character is at the head.
LEMMA Here ==
    ASSUME IInv, OrderInv, Running, NEW t \in Threads, pc[t] \in (TurnSteps \cup RunSteps) \ Loose
    PROVE  roundOrder # << >> /\ Head(roundOrder) = currentCharacter /\ currentCharacter \in chars
<1>1. \A u \in Threads : pc[u] \notin Loose
  BY OthersRest, Rests
<1>. QED  BY <1>1 DEF OrderInv, AtHead, Running

\* A statement that leaves the queue and the characters alone.
LEMMA QuietInv ==
    ASSUME OrderInv, Running, UNCHANGED <<roundOrder, chars, roundsToRevive, polled>>
    PROVE  QueueInv' /\ Mortals'
BY DEF OrderInv, Running, QueueInv, Mortals, Taken

\* One lemma for each statement of nextTurn.
LEMMA CheckHeadOrder ==
    ASSUME IInv, OrderInv, TypeOK', NEW t \in Threads, CheckHead(t)
    PROVE  OrderInv'
<1>. USE DEF At
<1>1. pc[t] = "check" /\ Running /\ UNCHANGED <<roundOrder, chars, roundsToRevive, polled, currentCharacter>>
  BY DEF CheckHead
<1>2. "check" \in (TurnSteps \cup RunSteps) \ Loose /\ "check" \notin Carrying /\ "rotate" \in Loose \ Carrying
  BY DEF TurnSteps, NextTurnSteps, Loose, Carrying
<1>3. roundOrder # << >> /\ currentCharacter = peek
  BY <1>1, <1>2, Here DEF peek
<1>4. pc' = [pc EXCEPT ![t] = "rotate"] /\ UNCHANGED failure
  BY <1>3 DEF CheckHead, Goto
<1>5. polled[t] = NoName
  BY <1>1, <1>2 DEF OrderInv, CarryInv, Running
<1>. QED  BY <1>1, <1>2, <1>3, <1>4, <1>5, StepInv, QuietInv

LEMMA RotateOrder ==
    ASSUME IInv, OrderInv, TypeOK', NEW t \in Threads, Rotate(t)
    PROVE  OrderInv'
<1>. USE DEF At
<1>1. pc[t] = "rotate" /\ Running /\ UNCHANGED <<chars, roundsToRevive, currentCharacter>>
  BY DEF Rotate
<1>2. "rotate" \in TurnSteps \ Carrying /\ "add" \in Loose \cap Carrying
  BY DEF TurnSteps, NextTurnSteps, Loose, Carrying
<1>3. roundOrder # << >>
  BY <1>1 DEF OrderInv, PlaceInv, Running
<1>4. pc' = [pc EXCEPT ![t] = "add"] /\ UNCHANGED failure
      /\ polled' = [polled EXCEPT ![t] = peek] /\ roundOrder' = Tail(roundOrder)
  BY <1>3 DEF Rotate, Goto
<1>5. QueueInv' /\ polled'[t] # NoName
  BY <1>1, <1>2, <1>3, <1>4, PollInv
<1>6. Mortals'
  BY <1>1 DEF OrderInv, Running, Mortals
<1>7. \A u \in Threads \ {t} : polled'[u] = polled[u]
  BY <1>4 DEF OrderInv, TypeOK
<1>. QED  BY <1>1, <1>2, <1>4, <1>5, <1>6, <1>7, StepInv

LEMMA AddBackOrder ==
    ASSUME IInv, OrderInv, TypeOK', NEW t \in Threads, AddBack(t)
    PROVE  OrderInv'
<1>. USE DEF At
<1>1. pc[t] = "add" /\ Running /\ UNCHANGED <<chars, roundsToRevive, currentCharacter, failure>>
      /\ roundOrder' = Append(roundOrder, polled[t]) /\ polled' = [polled EXCEPT ![t] = NoName]
      /\ pc' = [pc EXCEPT ![t] = "scan"]
  BY DEF AddBack, Goto
<1>2. "add" \in TurnSteps \cap Carrying /\ "scan" \in Loose \ Carrying
  BY DEF TurnSteps, NextTurnSteps, Loose, Carrying
<1>3. /\ Distinct(roundOrder') /\ roundOrder' # << >>
      /\ \A n \in Names : Holds(roundOrder', n) <=> n \in chars \cup {Flag}
      /\ \A u \in Threads \ {t} : polled[u] = NoName
  BY <1>1, <1>2, AddInv
<1>4. \A u \in Threads : polled'[u] = NoName
  BY <1>1, <1>3 DEF OrderInv, TypeOK
<1>5. QueueInv'
  <2>1. \A n \in Names : ~Taken(n)'
    BY <1>4, TurnAssumption DEF Taken, Names
  <2>. QED  BY <1>1, <1>3, <1>4, <2>1 DEF OrderInv, Running, QueueInv
<1>6. Mortals'
  BY <1>1 DEF OrderInv, Running, Mortals
<1>7. \A u \in Threads \ {t} : polled'[u] = polled[u]
  BY <1>3, <1>4
<1>. QED  BY <1>1, <1>2, <1>3, <1>4, <1>5, <1>6, <1>7, StepInv

LEMMA ScanOrder ==
    ASSUME IInv, OrderInv, TypeOK', NEW t \in Threads, Scan(t)
    PROVE  OrderInv'
<1>. USE DEF At
<1>1. pc[t] = "scan" /\ Running /\ UNCHANGED <<roundOrder, chars, roundsToRevive, polled, currentCharacter, failure>>
  BY DEF Scan
<1>2. "scan" \in TurnSteps \ Carrying /\ {"endRound", "look"} \subseteq Loose \ Carrying
  BY DEF TurnSteps, NextTurnSteps, Loose, Carrying
<1>3. roundOrder # << >> /\ peek = Head(roundOrder)
  BY <1>1 DEF OrderInv, PlaceInv, Running, peek
<1>4. polled[t] = NoName
  BY <1>1, <1>2 DEF OrderInv, CarryInv, Running
<1>5. CASE peek = Flag
  BY <1>1, <1>2, <1>3, <1>4, <1>5, StepInv, QuietInv DEF Scan, Goto
<1>6. CASE peek # Flag
  BY <1>1, <1>2, <1>3, <1>4, <1>6, StepInv, QuietInv DEF Scan, Goto
<1>. QED  BY <1>5, <1>6

LEMMA LookOrder ==
    ASSUME IInv, OrderInv, TypeOK', NEW t \in Threads, Look(t)
    PROVE  OrderInv'
<1>. USE DEF At
<1>1. pc[t] = "look" /\ Running /\ UNCHANGED <<roundOrder, chars, roundsToRevive, polled>>
      /\ currentCharacter' = peek
  BY DEF Look
<1>2. "look" \in TurnSteps \ Carrying /\ {"launch", "skip"} \cap (Loose \cup Carrying) = {}
  BY DEF TurnSteps, NextTurnSteps, Loose, Carrying
<1>3. roundOrder # << >> /\ peek = Head(roundOrder) /\ peek # Flag
  BY <1>1 DEF OrderInv, PlaceInv, Running, peek
<1>4. \A u \in Threads : pc[u] \notin Carrying
  BY <1>1, <1>2, OthersRest, Rests
<1>5. peek \in chars /\ polled[t] = NoName
  BY <1>1, <1>3, <1>4, Complete, HeadHolds DEF OrderInv, TypeOK, Names
<1>6. IsAlive(currentCharacter)' <=> IsAlive(peek)
  BY <1>1 DEF IsAlive
<1>7. CASE IsAlive(peek)
  BY <1>1, <1>2, <1>3, <1>5, <1>6, <1>7, StepInv, QuietInv DEF Look, Goto
<1>8. CASE ~IsAlive(peek)
  BY <1>1, <1>2, <1>3, <1>5, <1>6, <1>8, StepInv, QuietInv DEF Look, Goto
<1>. QED  BY <1>7, <1>8

LEMMA SkipOrder ==
    ASSUME IInv, OrderInv, TypeOK', NEW t \in Threads, Skip(t)
    PROVE  OrderInv'
<1>. USE DEF At
<1>1. pc[t] = "skip" /\ Running /\ UNCHANGED <<chars, roundsToRevive>>
  BY DEF Skip
<1>2. "skip" \in TurnSteps \ (Carrying \cup Loose) /\ "add" \in Loose \cap Carrying
  BY DEF TurnSteps, NextTurnSteps, Loose, Carrying
<1>3. roundOrder # << >>
  BY <1>1, <1>2, Here
<1>4. pc' = [pc EXCEPT ![t] = "add"] /\ UNCHANGED failure
      /\ polled' = [polled EXCEPT ![t] = peek] /\ roundOrder' = Tail(roundOrder)
  BY <1>3 DEF Skip, Goto
<1>5. QueueInv' /\ polled'[t] # NoName
  BY <1>1, <1>2, <1>3, <1>4, PollInv
<1>6. Mortals'
  BY <1>1 DEF OrderInv, Running, Mortals
<1>7. \A u \in Threads \ {t} : polled'[u] = polled[u]
  BY <1>4 DEF OrderInv, TypeOK
<1>. QED  BY <1>1, <1>2, <1>4, <1>5, <1>6, <1>7, StepInv

LEMMA PollFlagOrder ==
    ASSUME IInv, OrderInv, TypeOK', NEW t \in Threads, PollFlag(t)
    PROVE  OrderInv'
<1>. USE DEF At
<1>1. pc[t] = "flag" /\ Running /\ UNCHANGED <<chars, roundsToRevive>>
  BY DEF PollFlag
<1>2. "flag" \in TurnSteps \ Carrying /\ "flagAdd" \in Loose \cap Carrying
  BY DEF TurnSteps, NextTurnSteps, Loose, Carrying
<1>3. roundOrder # << >> /\ Head(roundOrder) = Flag
  BY <1>1 DEF OrderInv, PlaceInv, Running
<1>4. pc' = [pc EXCEPT ![t] = "flagAdd"] /\ UNCHANGED failure
      /\ polled' = [polled EXCEPT ![t] = peek] /\ roundOrder' = Tail(roundOrder)
  BY <1>3 DEF PollFlag, Goto
<1>5. QueueInv' /\ polled'[t] # NoName /\ polled'[t] = Flag
  BY <1>1, <1>2, <1>3, <1>4, PollInv
<1>6. Mortals'
  BY <1>1 DEF OrderInv, Running, Mortals
<1>7. \A u \in Threads \ {t} : polled'[u] = polled[u]
  BY <1>4 DEF OrderInv, TypeOK
<1>. QED  BY <1>1, <1>2, <1>4, <1>5, <1>6, <1>7, StepInv

LEMMA EndRoundOrder ==
    ASSUME IInv, OrderInv, TypeOK', NEW t \in Threads, EndRound(t)
    PROVE  OrderInv'
<1>. USE DEF At
<1>1. pc[t] = "endRound" /\ Running /\ UNCHANGED <<roundOrder, chars, polled, failure>>
      /\ pc' = [pc EXCEPT ![t] = "flag"]
  BY DEF EndRound, Goto
<1>2. "endRound" \in TurnSteps \ Carrying /\ "flag" \in Loose \ Carrying
  BY DEF TurnSteps, NextTurnSteps, Loose, Carrying
<1>3. roundOrder # << >> /\ Head(roundOrder) = Flag
  BY <1>1 DEF OrderInv, PlaceInv, Running
<1>4. polled[t] = NoName
  BY <1>1, <1>2 DEF OrderInv, CarryInv, Running
<1>5. Mortals'
  <2>1. Mortals /\ chars \subseteq Controlled /\ roundsToRevive \in [Controlled -> -1 .. ReviveRounds]
    BY <1>1 DEF OrderInv, Running, TypeOK
  <2>2. roundsToRevive' = [n \in Controlled |->
          IF n \in chars /\ roundsToRevive[n] > 0 THEN roundsToRevive[n] - 1 ELSE roundsToRevive[n]]
    BY DEF EndRound
  <2>3. \A n \in chars \ {Player} : roundsToRevive'[n] = roundsToRevive[n]
    BY <2>1, <2>2 DEF Mortals
  <2>4. \A n \in Creeps : roundsToRevive'[n] = roundsToRevive[n]
    BY <2>1, <2>2 DEF Mortals, Controlled
  <2>. QED  BY <1>1, <2>1, <2>3, <2>4 DEF Mortals
<1>6. QueueInv'
  BY <1>1 DEF OrderInv, Running, QueueInv, Taken
<1>. QED  BY <1>1, <1>2, <1>3, <1>4, <1>5, <1>6, StepInv

LEMMA AddFlagOrder ==
    ASSUME IInv, OrderInv, TypeOK', NEW t \in Threads, AddFlag(t)
    PROVE  OrderInv'
<1>. USE DEF At
<1>1. pc[t] = "flagAdd" /\ Running /\ UNCHANGED <<currentCharacter, failure>>
      /\ polled' = [polled EXCEPT ![t] = NoName] /\ pc' = [pc EXCEPT ![t] = "scan"]
  BY DEF AddFlag, Goto
<1>2. "flagAdd" \in TurnSteps \cap Carrying /\ "scan" \in Loose \ Carrying
  BY DEF TurnSteps, NextTurnSteps, Loose, Carrying
<1>. DEFINE q == Append(roundOrder, polled[t])
<1>3. /\ q \in Seq(Names) /\ Distinct(q) /\ q # << >>
      /\ \A n \in Names : Holds(q, n) <=> n \in chars \cup {Flag}
      /\ \A u \in Threads \ {t} : polled[u] = NoName
  BY <1>1, <1>2, AddInv
<1>4. \A u \in Threads : polled'[u] = NoName
  BY <1>1, <1>3 DEF OrderInv, TypeOK
<1>5. PICK spawned \in SUBSET Fresh :
         /\ chars' = chars \cup spawned
         /\ roundOrder' = q \o SetToSeq(spawned)
         /\ roundsToRevive' = [n \in Controlled |-> IF n \in spawned THEN 0 ELSE roundsToRevive[n]]
  BY DEF AddFlag
<1>. HIDE DEF q
<1>6. /\ spawned \subseteq Creeps \ chars /\ IsFiniteSet(spawned)
      /\ spawned \subseteq Names /\ Flag \notin spawned /\ Player \notin spawned
  BY <1>5, TurnAssumption, FS_Subset DEF Fresh, Controlled, Names
<1>7. SetToSeq(spawned) \in Seq(Names) /\ Distinct(SetToSeq(spawned))
      /\ \A n : Holds(SetToSeq(spawned), n) <=> n \in spawned
  <2>1. SetToSeq(spawned) \in Seq(spawned)
    BY <1>6, SetToSeqHolds
  <2>. QED  BY <1>6, <2>1, SeqMonotonic, SetToSeqHolds
<1>8. /\ Distinct(roundOrder')
      /\ \A n : Holds(roundOrder', n) <=> Holds(q, n) \/ n \in spawned
  BY <1>3, <1>5, <1>6, <1>7, ConcatHolds
<1>9. roundOrder' # << >>
  <2>1. Len(q) \in Nat \ {0} /\ Len(SetToSeq(spawned)) \in Nat
    BY <1>3, <1>7, HeadHolds, LenProperties
  <2>2. Len(roundOrder') = Len(q) + Len(SetToSeq(spawned))
    BY <1>3, <1>5, <1>7, ConcatProperties
  <2>. QED  BY <2>1, <2>2, EmptySeq
<1>10. QueueInv'
  <2>1. \A n \in Names : ~Taken(n)'
    BY <1>4, TurnAssumption DEF Taken, Names
  <2>2. \A n \in Names : Holds(roundOrder', n) <=> n \in chars' \cup {Flag}
    BY <1>3, <1>5, <1>8
  <2>3. {Player} \cup Towers \subseteq chars'
    BY <1>1, <1>5 DEF OrderInv, Running, QueueInv
  <2>. QED  BY <1>4, <1>8, <2>1, <2>2, <2>3 DEF QueueInv
<1>11. Mortals'
  <2>1. Mortals /\ chars \subseteq Controlled
    BY <1>1 DEF OrderInv, Running, TypeOK
  <2>2. \A n \in Controlled : roundsToRevive'[n] = IF n \in spawned THEN 0 ELSE roundsToRevive[n]
    BY <1>5
  <2>. QED  BY <1>5, <1>6, <2>1, <2>2 DEF Mortals, Controlled
<1>12. \A u \in Threads \ {t} : polled'[u] = polled[u]
  BY <1>3, <1>4
<1>. QED  BY <1>1, <1>2, <1>4, <1>9, <1>10, <1>11, <1>12, StepInv

-----------------------------------------------------------------------------
(* The other steps and the queue.                                          *)

\* A step that leaves the characters and the queue alone, from and to statements
\* at which the current character is at the head.
LEMMA MoveInv ==
    ASSUME OrderInv, failure = "none", TypeOK', failure' \in {"none", "null in close", "closed in play"},
           UNCHANGED <<roundOrder, chars, roundsToRevive, polled, currentCharacter>>,
           \A t \in Threads :
              pc'[t] = pc[t] \/ (pc[t] \notin Loose /\ pc'[t] \notin Loose \cup {"skip", "launch"})
    PROVE  OrderInv'
<1>1. CarryInv /\ QueueInv /\ Mortals /\ AtHead /\ PlaceInv
  BY DEF OrderInv
<1>2. CarryInv'
  BY <1>1 DEF CarryInv, Carrying, Loose
<1>3. QueueInv' /\ Mortals'
  BY <1>1 DEF QueueInv, Mortals, Taken
<1>4. AtHead'
  BY <1>1 DEF AtHead
<1>5. PlaceInv'
  <2>1. \A t \in Threads : pc'[t] = pc[t] \/ pc'[t] \notin Loose \cup {"skip", "launch"}
    OBVIOUS
  <2>. QED  BY <1>1, <2>1 DEF PlaceInv, Loose, IsAlive
<1>. QED  BY <1>2, <1>3, <1>4, <1>5 DEF OrderInv

\* The parent and its child are both at statements where nothing is loose.
LEMMA LaunchOrder ==
    ASSUME IInv, OrderInv, TypeOK', NEW t \in Threads, Launch(t)
    PROVE  OrderInv'
<1>. USE DEF At
<1>1. pc[t] = "launch" /\ Running
      /\ UNCHANGED <<roundOrder, chars, roundsToRevive, polled, currentCharacter>>
  BY DEF Launch
<1>2. "launch" \in (TurnSteps \cup RunSteps) \ Loose
      /\ {"launch", "yield", "assign", "begin", "dead"} \cap Loose = {}
  BY DEF TurnSteps, NextTurnSteps, Loose
<1>3. currentCharacter \in chars
  BY <1>1, <1>2, Here
<1>4. pc = [u \in Threads |-> pc[u]]
  BY DEF OrderInv, TypeOK, NextTurnSteps
<1>5. CASE currentCharacter = Player
  BY <1>1, <1>2, <1>3, <1>4, <1>5, MoveInv DEF Launch, Goto, Running
<1>6. CASE currentCharacter # Player
  <2>1. PICK w \in Unused : pc' = [pc EXCEPT ![t] = "assign", ![w] = "begin"] /\ UNCHANGED failure
    BY <1>3, <1>6 DEF Launch
  <2>2. w \in Threads /\ pc[w] = "dead" /\ w # t
    BY <1>1 DEF Unused, Threads
  <2>3. \A u \in Threads : pc'[u] = IF u = t THEN "assign" ELSE IF u = w THEN "begin" ELSE pc[u]
    BY <1>4, <2>1, <2>2
  <2>4. \A u \in Threads :
           pc'[u] = pc[u] \/ (pc[u] \notin Loose /\ pc'[u] \notin Loose \cup {"skip", "launch"})
    BY <1>1, <1>2, <2>2, <2>3
  <2>. QED  BY <1>1, <2>1, <2>4, MoveInv DEF Running, OrderInv
<1>. QED  BY <1>5, <1>6

\* The steps of nextTurn preserve OrderInv.
LEMMA NextTurnOrder ==
    ASSUME IInv, OrderInv, TypeOK', NEW t \in Threads, nextTurn(t)
    PROVE  OrderInv'
<1>1. CASE Assign(t)
  <2>1. failure = "none" /\ pc[t] = "assign" /\ pc' = [pc EXCEPT ![t] = Returned(t)] /\ UNCHANGED failure
        /\ UNCHANGED <<roundOrder, chars, roundsToRevive, polled, currentCharacter>>
    BY <1>1 DEF Assign, Goto
  <2>2. {"assign", Returned(t)} \cap (Loose \cup {"skip", "launch"}) = {}
    BY DEF Loose, Returned
  <2>. QED  BY <2>1, <2>2, MoveInv DEF OrderInv, TypeOK
<1>2. CASE Yield(t)
  <2>1. Running /\ pc[t] = "yield" /\ pc' = [pc EXCEPT ![t] = Returned(t)] /\ UNCHANGED failure
        /\ UNCHANGED <<roundOrder, chars, roundsToRevive, polled, currentCharacter>>
    BY <1>2 DEF Yield, Goto, At
  <2>2. {"yield", Returned(t)} \cap (Loose \cup {"skip", "launch"}) = {}
    BY DEF Loose, Returned
  <2>. QED  BY <2>1, <2>2, MoveInv DEF OrderInv, TypeOK, Running
<1>. QED
  BY <1>1, <1>2, CheckHeadOrder, RotateOrder, AddBackOrder, ScanOrder, LookOrder, SkipOrder,
     EndRoundOrder, PollFlagOrder, AddFlagOrder, LaunchOrder DEF nextTurn

\* Nobody hands over while somebody is killed.
LEMMA NobodyHandsOver ==
    ASSUME IInv, ~EagerUser, NEW v \in Controlled,
           PlayerKills(v) \/ \E w \in Workers : AutomationKills(w, v)
    PROVE  \A t \in Threads : pc[t] \notin TurnSteps
<1>1. CASE PlayerKills(v)
  BY <1>1, NobodyPlays, Labels DEF PlayerKills
<1>2. ASSUME NEW w \in Workers, AutomationKills(w, v)
      PROVE  \A t \in Threads : pc[t] \notin TurnSteps
  <2>1. w \in Threads /\ pc[w] = "automation" /\ "automation" \in RunSteps \ TurnSteps
    BY <1>2 DEF AutomationKills, At, RunSteps, TurnSteps, NextTurnSteps, Threads
  <2>. QED  BY <2>1, OthersRest
<1>. QED  BY <1>1, <1>2

\* Killing preserves the invariant.
LEMMA KillNow ==
    ASSUME IInv, OrderInv, Running, ~EagerUser, NEW v \in Controlled,
           PlayerKills(v) \/ \E w \in Workers : AutomationKills(w, v)
    PROVE  roundOrder' \in Seq(Names) /\ (TypeOK' => OrderInv')
<1>1. Kill(v) /\ UNCHANGED <<currentCharacter, pc, polled, failure>>
  BY DEF PlayerKills, AutomationKills
<1>. QED  BY <1>1, NobodyHandsOver, KillInv

\* The steps of the thread of an automated character.
LEMMA RunOrder ==
    ASSUME ~EagerUser, IInv, OrderInv, TypeOK', NEW w \in Workers, run(w)
    PROVE  OrderInv'
<1>. USE DEF At, Goto
<1>0. w \in Threads /\ pc = [u \in Threads |-> pc[u]]
  BY DEF OrderInv, TypeOK, NextTurnSteps, Threads
<1>1. {"begin", "automation", "force", "check", "dead"} \cap (Loose \cup {"skip", "launch"}) = {}
  BY DEF Loose
<1>2. CASE BeginAutomation(w)
  BY <1>0, <1>1, <1>2, MoveInv DEF BeginAutomation, Running
<1>3. CASE AutomationEnds(w)
  <2>1. pc[w] = "automation" /\ Running /\ pc[w] \in (TurnSteps \cup RunSteps) \ Loose
    BY <1>1, <1>3 DEF AutomationEnds, RunSteps
  <2>2. currentCharacter \in chars
    BY <1>0, <2>1, Here
  <2>. QED  BY <1>0, <1>1, <1>3, <2>1, <2>2, MoveInv DEF AutomationEnds, Running
<1>4. CASE ForceNextTurn(w)
  BY <1>0, <1>1, <1>4, MoveInv DEF ForceNextTurn, Running
<1>5. ASSUME NEW v \in Controlled, AutomationKills(w, v) PROVE OrderInv'
  BY <1>5, KillNow DEF AutomationKills
<1>. QED  BY <1>2, <1>3, <1>4, <1>5 DEF run

\* The steps of the user, of close and of initialise.
LEMMA UserOrder ==
    ASSUME ~EagerUser, IInv, OrderInv, TypeOK',
           PressNextTurn \/ Close \/ CloseIsAlive \/ Initialise \/ \E v \in Controlled : PlayerKills(v)
    PROVE  OrderInv'
<1>. USE DEF Goto
<1>0. UI \in Threads /\ pc = [u \in Threads |-> pc[u]]
  BY DEF OrderInv, TypeOK, NextTurnSteps, Threads
<1>1. {"idle", "check", "close", "isAlive"} \cap (Loose \cup {"skip", "launch"}) = {}
  BY DEF Loose
<1>2. CASE PressNextTurn
  BY <1>0, <1>1, <1>2, MoveInv DEF PressNextTurn, PlayerMayAct, Running
<1>3. CASE Close
  BY <1>0, <1>1, <1>3, MoveInv DEF Close, Closed, Running
<1>4. CASE CloseIsAlive
  BY <1>0, <1>1, <1>4, MoveInv DEF CloseIsAlive, Closed, Running, Throw, Returned
<1>5. ASSUME NEW v \in Controlled, PlayerKills(v) PROVE OrderInv'
  BY <1>5, KillNow DEF PlayerKills, PlayerMayAct
<1>6. CASE Initialise
  <2>1. failure = "none" /\ UNCHANGED <<pc, polled, failure>> /\ roundOrder' = InitialOrder
        /\ currentCharacter' = Player /\ chars' = {Player} \cup Towers
        /\ roundsToRevive' = [n \in Controlled |-> 0]
    BY <1>6 DEF Initialise
  <2>2. \A t \in Threads : pc[t] \notin TurnSteps
    BY <1>6, Labels DEF IInv, ClosedInv, Initialise
  <2>3. \A t \in Threads : polled[t] = NoName
    BY <2>1, <2>2, Rests DEF OrderInv, CarryInv
  <2>4. CarryInv'
    BY <2>1 DEF OrderInv, CarryInv
  <2>5. QueueInv'
    <3>1. \A n \in Names : ~Taken(n)'
      BY <2>1, <2>3, TurnAssumption DEF Taken, Names
    <3>. QED  BY <2>1, <2>3, <3>1, InitialOrderHolds DEF QueueInv
  <2>6. Mortals'
    BY <2>1, TurnAssumption DEF Mortals, Controlled
  <2>7. AtHead'
    BY <2>1, InitialOrderHolds DEF AtHead
  <2>8. PlaceInv'
    BY <2>1, <2>2, Rests DEF PlaceInv, Loose
  <2>. QED  BY <2>1, <2>4, <2>5, <2>6, <2>7, <2>8 DEF OrderInv
<1>. QED  BY <1>2, <1>3, <1>4, <1>5, <1>6

\* Every step preserves OrderInv, given what is known of the threads.
LEMMA OrderNext == ASSUME ~EagerUser PROVE IInv /\ OrderInv /\ [Next]_vars => OrderInv'
<1>. SUFFICES ASSUME IInv, OrderInv, [Next]_vars PROVE OrderInv'
  OBVIOUS
<1>1. TypeOK'
  <2>. SUFFICES ASSUME \A v \in Controlled :
                          (PlayerKills(v) \/ \E w \in Workers : AutomationKills(w, v))
                             => roundOrder' \in Seq(Names)
                PROVE  TypeOK'
    BY KillNow DEF PlayerKills, PlayerMayAct, AutomationKills, At
  <2>. QED  BY TypeStep DEF OrderInv
<1>2. CASE UNCHANGED vars
  BY <1>1, <1>2 DEF vars, OrderInv, CarryInv, QueueInv, Mortals, AtHead, PlaceInv, Taken, IsAlive
<1>. QED  BY <1>1, <1>2, NextTurnOrder, RunOrder, UserOrder DEF Next

\* OrderInv is an invariant.
LEMMA InductiveOrder == ASSUME ~EagerUser PROVE Spec => []OrderInv
<1>1. IInv /\ OrderInv /\ [Next]_vars => OrderInv'
  BY OrderNext
<1>. QED  BY <1>1, OrderInit, InductiveInv, PTL DEF Spec

\* Every variable keeps its type.
THEOREM TypeCorrect == ASSUME ~EagerUser PROVE Spec => []TypeOK
<1>1. OrderInv => TypeOK
  BY DEF OrderInv
<1>. QED  BY <1>1, InductiveOrder, PTL

\* "Round Order is corrupted" is never thrown: whenever nextTurn is called, the
\* current character is at the head of the queue.
THEOREM RoundOrder == ASSUME ~EagerUser PROVE Spec => []RoundOrderNotCorrupted
<1>1. OrderInv => RoundOrderNotCorrupted
  BY DEF OrderInv, RoundOrderNotCorrupted
<1>. QED  BY <1>1, InductiveOrder, PTL

\* No thread looks up a character that is gone, and none polls an empty queue.
THEOREM NoNull == ASSUME ~EagerUser PROVE Spec => []NoThreadFindsNull
<1>1. OrderInv => NoThreadFindsNull
  BY DEF OrderInv, NoThreadFindsNull
<1>. QED  BY <1>1, InductiveOrder, PTL

\* The queue with what is carried holds every registered character and the flag, each
\* exactly once, and nothing else; the hero and the towers never leave it.
EveryoneOnce ==
    /\ Distinct(roundOrder)
    /\ \A t \in Carried : ~Holds(roundOrder, polled[t])
    /\ \A t, u \in Carried : t = u
    /\ \A n \in Names : Holds(roundOrder, n) \/ Taken(n) <=> n \in chars \cup {Flag}
    /\ {Player} \cup Towers \subseteq chars

\* Nobody drops out of the queue and nobody is in it twice, between any two statements
\* of nextTurn, whoever dies and spawns.
THEOREM NobodyDropsOut == ASSUME ~EagerUser PROVE Spec => [](failure = "none" => EveryoneOnce)
<1>1. IInv /\ OrderInv => (failure = "none" => EveryoneOnce)
  <2>. SUFFICES ASSUME IInv, OrderInv, failure = "none" PROVE EveryoneOnce
    OBVIOUS
  <2>1. \A t \in Carried : pc[t] \in TurnSteps
    BY Rests DEF OrderInv, CarryInv, Carried
  <2>2. \A t, u \in Carried : t = u
    BY <2>1, Labels DEF IInv, Alone, Carried
  <2>. QED  BY <2>2 DEF OrderInv, QueueInv, Carried, EveryoneOnce
<1>. QED  BY <1>1, InductiveInv, InductiveOrder, PTL

-----------------------------------------------------------------------------
(* Rounds: what the queue is before and after a statement.                 *)

\* What the queue of Rounds is while thread t, and nobody else, may be handing over.
Viewed ==
    \A t \in Threads :
        (\A u \in Threads \ {t} : pc[u] \notin TurnSteps) =>
            /\ pc[t] \in {"check", "rotate"} => TurnQueue = Turn!Rotated(roundOrder)
            /\ pc[t] \in Carrying => TurnQueue = Append(roundOrder, polled[t])
            /\ pc[t] \notin {"check", "rotate"} \cup Carrying => TurnQueue = roundOrder
            /\ TurnOf = IF pc[t] \in Between THEN NoName ELSE currentCharacter

\* The statements between two turns.
LEMMA BetweenSteps ==
    /\ Between \subseteq TurnSteps /\ {"check", "rotate"} \cup Carrying \subseteq Between
    /\ {"check", "rotate"} \cap Carrying = {}
BY DEF Between, TurnSteps, NextTurnSteps, Carrying

\* This follows from the types and from where names are carried.
LEMMA View == TypeOK /\ CarryInv => Viewed
<1>. SUFFICES ASSUME TypeOK, CarryInv, NEW t \in Threads,
                     \A u \in Threads \ {t} : pc[u] \notin TurnSteps
              PROVE  /\ pc[t] \in {"check", "rotate"} => TurnQueue = Turn!Rotated(roundOrder)
                     /\ pc[t] \in Carrying => TurnQueue = Append(roundOrder, polled[t])
                     /\ pc[t] \notin {"check", "rotate"} \cup Carrying => TurnQueue = roundOrder
                     /\ TurnOf = IF pc[t] \in Between THEN NoName ELSE currentCharacter
  BY DEF Viewed
<1>1. \A u \in Threads \ {t} : pc[u] \notin Between /\ pc[u] \notin {"check", "rotate"} \cup Carrying
  BY BetweenSteps
<1>2. ToRotate <=> pc[t] \in {"check", "rotate"}
  BY <1>1 DEF ToRotate
<1>3. Carried = IF pc[t] \in Carrying THEN {t} ELSE {}
  BY <1>1 DEF Carried, CarryInv
<1>4. TurnOf = IF pc[t] \in Between THEN NoName ELSE currentCharacter
  BY <1>1 DEF TurnOf
<1>5. CASE pc[t] \in {"check", "rotate"}
  BY <1>2, <1>5, <1>4, BetweenSteps DEF TurnQueue, Turn!Rotated
<1>6. CASE pc[t] \in Carrying
  <2>1. TurnQueue = roundOrder \o <<polled[t]>>
    <3>1. ~ToRotate /\ Carried = {t}
      BY <1>2, <1>3, <1>6, BetweenSteps
    <3>2. (CHOOSE u \in {t} : TRUE) = t /\ {t} # {}
      OBVIOUS
    <3>. QED  BY <3>1, <3>2 DEF TurnQueue
  <2>2. /\ polled[t] \in Controlled \cup {Flag, NoName}
        /\ roundOrder \in Seq(Controlled \cup {Flag, NoName})
    BY SeqMonotonic DEF TypeOK
  <2>. QED  BY <1>6, <1>4, <2>1, <2>2, AppendIsConcat, BetweenSteps
<1>7. CASE pc[t] \notin {"check", "rotate"} \cup Carrying
  BY <1>2, <1>3, <1>7, <1>4, ConcatEmptySeq DEF TurnQueue, TypeOK
<1>. QED  BY <1>5, <1>6, <1>7

\* The same of the state after a step.
LEMMA ViewNext == TypeOK' /\ CarryInv' => Viewed'
BY View, PTL

\* A step of the thread that hands over, seen from both sides.
LEMMA TurnViews ==
    ASSUME IInv, OrderInv, OrderInv', failure = "none", UNCHANGED failure,
           NEW t \in Threads, pc[t] \in TurnSteps \cup RunSteps,
           \A u \in Threads \ {t} : pc'[u] \in {pc[u], "begin"}
    PROVE  /\ pc[t] \in {"check", "rotate"} => TurnQueue = Turn!Rotated(roundOrder)
           /\ pc[t] \in Carrying => TurnQueue = Append(roundOrder, polled[t])
           /\ pc[t] \notin {"check", "rotate"} \cup Carrying => TurnQueue = roundOrder
           /\ TurnOf = IF pc[t] \in Between THEN NoName ELSE currentCharacter
           /\ pc'[t] \in {"check", "rotate"} => TurnQueue' = Turn!Rotated(roundOrder')
           /\ pc'[t] \in Carrying => TurnQueue' = Append(roundOrder', polled'[t])
           /\ pc'[t] \notin {"check", "rotate"} \cup Carrying => TurnQueue' = roundOrder'
           /\ TurnOf' = IF pc'[t] \in Between THEN NoName ELSE currentCharacter'
<1>1. \A u \in Threads \ {t} : pc[u] \notin TurnSteps /\ pc'[u] \notin TurnSteps
  <2>1. "begin" \notin TurnSteps
    BY DEF TurnSteps, NextTurnSteps
  <2>. QED  BY <2>1, OthersRest
<1>2. Viewed /\ Viewed'
  BY View, ViewNext DEF OrderInv
<1>3. \A s : Turn!Rotated(s) = Append(Tail(s), Head(s))
  BY DEF Turn!Rotated
<1>. QED  BY <1>1, <1>2, <1>3 DEF Viewed

\* A step of a thread that is not handing over, before and after.
LEMMA SameView ==
    ASSUME UNCHANGED <<roundOrder, currentCharacter, polled, chars, roundsToRevive>>,
           \A t \in Threads : pc'[t] = pc[t] \/ {pc[t], pc'[t]} \cap Between = {}
    PROVE  UNCHANGED Turn!turnVars
<1>1. ToRotate' <=> ToRotate
  BY BetweenSteps DEF ToRotate
<1>2. Carried' = Carried
  BY DEF Carried
<1>3. UNCHANGED TurnQueue
  BY <1>1, <1>2 DEF TurnQueue
<1>4. UNCHANGED TurnOf
  BY DEF TurnOf
<1>5. UNCHANGED Living
  BY DEF Living, IsAlive
<1>. QED  BY <1>3, <1>4, <1>5 DEF Turn!turnVars

\* Nobody hands over.
LEMMA CalmView ==
    ASSUME IInv, OrderInv, OrderInv', failure = "none", UNCHANGED failure,
           \A t \in Threads : pc[t] \notin TurnSteps /\ pc'[t] \notin TurnSteps
    PROVE  /\ TurnQueue = roundOrder /\ TurnOf = currentCharacter
           /\ TurnQueue' = roundOrder' /\ TurnOf' = currentCharacter'
<1>1. UI \in Threads
  BY DEF Threads
<1>2. Viewed /\ Viewed'
  BY View, ViewNext DEF OrderInv
<1>. QED  BY <1>1, <1>2, BetweenSteps DEF Viewed

-----------------------------------------------------------------------------
\* The statements that do not change what Rounds sees.
LEMMA MoveTurn ==
    ASSUME IInv, OrderInv, OrderInv', NEW t \in Threads,
           CheckHead(t) \/ Rotate(t) \/ AddBack(t) \/ Scan(t) \/ Look(t)
    PROVE  UNCHANGED Turn!turnVars
<1>. USE DEF At, Goto
<1>0. Running /\ pc[t] \in TurnSteps /\ UNCHANGED <<chars, roundsToRevive>>
  BY DEF CheckHead, Rotate, AddBack, Scan, Look, TurnSteps, NextTurnSteps
<1>1. /\ failure = "none" /\ UNCHANGED failure
      /\ pc' = [pc EXCEPT ![t] = pc'[t]] /\ pc = [u \in Threads |-> pc[u]]
  <2>1. failure' \notin {"null", "Round Order is corrupted"}
    BY DEF OrderInv
  <2>2. pc = [u \in Threads |-> pc[u]]
    BY DEF OrderInv, TypeOK
  <2>. QED  BY <1>0, <2>1, <2>2 DEF Running, CheckHead, Rotate, AddBack, Scan, Look, Throw
<1>2. /\ TurnQueue = IF pc[t] \in {"check", "rotate"} THEN Turn!Rotated(roundOrder)
                     ELSE IF pc[t] \in Carrying THEN Append(roundOrder, polled[t]) ELSE roundOrder
      /\ TurnQueue' = IF pc'[t] \in {"check", "rotate"} THEN Turn!Rotated(roundOrder')
                      ELSE IF pc'[t] \in Carrying THEN Append(roundOrder', polled'[t]) ELSE roundOrder'
      /\ TurnOf = IF pc[t] \in Between THEN NoName ELSE currentCharacter
      /\ TurnOf' = IF pc'[t] \in Between THEN NoName ELSE currentCharacter'
  BY <1>0, <1>1, TurnViews
<1>3. UNCHANGED Living
  BY <1>0 DEF Living, IsAlive
<1>. USE DEF Carrying, Between, NextTurnSteps, Turn!Rotated
<1>4. CASE CheckHead(t)
  BY <1>1, <1>2, <1>3, <1>4 DEF CheckHead, Throw, OrderInv, Turn!turnVars
<1>5. CASE Rotate(t)
  <2>1. pc[t] = "rotate" /\ roundOrder # << >>
    BY <1>0, <1>5 DEF Rotate, OrderInv, PlaceInv, Running
  <2>2. pc'[t] = "add" /\ polled'[t] = Head(roundOrder) /\ roundOrder' = Tail(roundOrder)
    BY <1>1, <1>5, <2>1 DEF Rotate, OrderInv, TypeOK, peek
  <2>. QED  BY <1>2, <1>3, <2>1, <2>2 DEF Turn!turnVars
<1>6. CASE AddBack(t)
  BY <1>1, <1>2, <1>3, <1>6 DEF AddBack, Turn!turnVars
<1>7. CASE Scan(t)
  BY <1>1, <1>2, <1>3, <1>7 DEF Scan, Turn!turnVars
<1>8. CASE Look(t)
  <2>1. pc'[t] \in {"launch", "skip"}
    BY <1>1, <1>8 DEF Look, Throw, OrderInv
  <2>. QED  BY <1>1, <1>2, <1>3, <1>8, <2>1 DEF Look, Turn!turnVars
<1>. QED  BY <1>0, <1>4, <1>5, <1>6, <1>7, <1>8

\* The operators on sequences are the same seen from Rounds.
LEMMA SameOperators ==
    /\ \A s, e : Turn!RemoveFirst(s, e) = RemoveFirst(s, e)
    /\ \A s : Turn!Last(s) = Last(s)
    /\ \A S : Turn!SetToSeqs(S) = SetToSeqs(S)
<1>1. \A s, e : Turn!RemoveFirst(s, e) = RemoveFirst(s, e)
  BY Zenon DEF Turn!RemoveFirst, Turn!RemoveAt, Turn!SelectInSeq, Turn!Min,
         RemoveFirst, RemoveAt, SelectInSeq, Min
<1>2. \A s : Turn!Last(s) = Last(s)
  BY DEF Turn!Last, Last
<1>3. \A S : Turn!SetToSeqs(S) = SetToSeqs(S)
  BY Zenon DEF Turn!SetToSeqs, SetToSeqs, Turn!Cardinality, Cardinality
<1>. QED  BY <1>1, <1>2, <1>3

\* Whoever is passed over is dead or the flag of the round.
LEMMA PassTurn ==
    ASSUME IInv, OrderInv, OrderInv', NEW t \in Threads, Skip(t) \/ PollFlag(t)
    PROVE  Turn!Pass
<1>. USE DEF At, Goto
<1>1. /\ Running /\ pc[t] \in {"skip", "flag"} /\ UNCHANGED <<chars, roundsToRevive>>
      /\ {"skip", "flag"} \subseteq TurnSteps \cap Between
      /\ {"skip", "flag"} \cap ({"check", "rotate"} \cup Carrying) = {}
  BY DEF Skip, PollFlag, TurnSteps, Between, NextTurnSteps, Carrying
<1>2. roundOrder # << >> /\ Head(roundOrder) \notin Living
  <2>1. CASE Skip(t)
    <3>1. pc[t] = "skip" /\ pc[t] \in (TurnSteps \cup RunSteps) \ Loose
      BY <1>1, <2>1 DEF Skip, Loose
    <3>2. roundOrder # << >> /\ Head(roundOrder) = currentCharacter
      BY <1>1, <3>1, Here
    <3>3. ~IsAlive(currentCharacter)
      BY <1>1, <3>1 DEF OrderInv, PlaceInv, Running
    <3>. QED  BY <3>2, <3>3 DEF Living
  <2>2. CASE PollFlag(t)
    BY <1>1, <2>2, TurnAssumption DEF PollFlag, OrderInv, PlaceInv, Running, Living
  <2>. QED  BY <2>1, <2>2
<1>3. /\ failure = "none" /\ UNCHANGED failure /\ peek = Head(roundOrder)
      /\ roundOrder' = Tail(roundOrder)
      /\ polled'[t] = Head(roundOrder) /\ pc'[t] \in {"add", "flagAdd"}
      /\ \A u \in Threads \ {t} : pc'[u] = pc[u]
  <2>. USE <1>1, <1>2 DEF OrderInv, TypeOK
  <2>1. failure = "none" /\ peek = Head(roundOrder)
    BY DEF Skip, PollFlag, peek, Running
  <2>2. /\ UNCHANGED failure /\ roundOrder' = Tail(roundOrder)
        /\ polled' = [polled EXCEPT ![t] = peek]
        /\ \E s \in {"add", "flagAdd"} : pc' = [pc EXCEPT ![t] = s]
    BY DEF Skip, PollFlag, Goto
  <2>. QED  BY <2>1, <2>2
<1>4. {"add", "flagAdd"} \subseteq Carrying \cap Between /\ {"add", "flagAdd"} \cap {"check", "rotate"} = {}
  BY DEF Carrying, Between, NextTurnSteps
<1>5. /\ TurnQueue = roundOrder /\ TurnOf = NoName
      /\ TurnQueue' = Append(Tail(roundOrder), Head(roundOrder)) /\ TurnOf' = NoName
  BY <1>1, <1>3, <1>4, TurnViews
<1>6. UNCHANGED Living
  BY <1>1 DEF Living, IsAlive
<1>. QED  BY <1>2, <1>5, <1>6 DEF Turn!Pass, Turn!Rotated

\* The round ends: only the hero comes back.
LEMMA ReviveTurn ==
    ASSUME IInv, OrderInv, OrderInv', NEW t \in Threads, EndRound(t)
    PROVE  \E S \in SUBSET (Creeps \cup {Player}) : Turn!Revive(S)
<1>. USE DEF At, Goto
<1>1. /\ Running /\ pc[t] = "endRound" /\ UNCHANGED <<roundOrder, chars, failure>>
      /\ pc' = [pc EXCEPT ![t] = "flag"]
      /\ {"endRound", "flag"} \subseteq TurnSteps \cap Between
      /\ {"endRound", "flag"} \cap ({"check", "rotate"} \cup Carrying) = {}
  BY DEF EndRound, TurnSteps, Between, NextTurnSteps, Carrying
<1>2. pc'[t] = "flag" /\ \A u \in Threads \ {t} : pc'[u] = pc[u]
  BY <1>1 DEF OrderInv, TypeOK
<1>3. /\ TurnQueue = roundOrder /\ TurnOf = NoName /\ UNCHANGED <<TurnQueue, TurnOf>>
  BY <1>1, <1>2, TurnViews DEF Running
<1>4. Head(TurnQueue) = Flag
  BY <1>1, <1>3 DEF OrderInv, PlaceInv, Running
<1>. DEFINE S == Living' \ Living
<1>5. S \subseteq {Player} /\ Living \subseteq Living'
  <2>1. \A n \in Controlled : roundsToRevive'[n] =
           IF n \in chars /\ roundsToRevive[n] > 0 THEN roundsToRevive[n] - 1 ELSE roundsToRevive[n]
    BY DEF EndRound
  <2>2. \A n \in chars \ {Player} : ~(roundsToRevive[n] > 0)
    BY <1>1 DEF OrderInv, Mortals, Running, TypeOK
  <2>. QED  BY <1>1, <2>1, <2>2 DEF Living, IsAlive
<1>6. Turn!Revive(S)
  BY <1>3, <1>4, <1>5 DEF Turn!Revive
<1>. QED  BY <1>5, <1>6

\* The round begins: the newcomers queue up behind the flag.
LEMMA JoinTurn ==
    ASSUME IInv, OrderInv, OrderInv', NEW t \in Threads, AddFlag(t)
    PROVE  \E S \in SUBSET (Creeps \cup {Player}) : Turn!Join(S)
<1>. USE DEF At, Goto
<1>1. /\ Running /\ pc[t] = "flagAdd" /\ UNCHANGED failure
      /\ pc' = [pc EXCEPT ![t] = "scan"]
      /\ {"flagAdd", "scan"} \subseteq TurnSteps \cap Between
      /\ "flagAdd" \in Carrying
      /\ "flagAdd" \notin {"check", "rotate"} /\ "scan" \notin {"check", "rotate"} \cup Carrying
  BY DEF AddFlag, TurnSteps, Between, NextTurnSteps, Carrying
<1>2. pc'[t] = "scan" /\ \A u \in Threads \ {t} : pc'[u] = pc[u]
  BY <1>1 DEF OrderInv, TypeOK
<1>. DEFINE q == Append(roundOrder, polled[t])
<1>3. TurnQueue = q /\ TurnOf = NoName /\ TurnQueue' = roundOrder' /\ TurnOf' = NoName
  BY <1>1, <1>2, TurnViews DEF Running
<1>4. Last(q) = Flag
  <2>1. polled[t] = Flag
    BY <1>1 DEF OrderInv, PlaceInv, Running
  <2>2. roundOrder \in Seq(Controlled \cup {Flag}) /\ Flag \in Controlled \cup {Flag}
    BY DEF OrderInv, TypeOK
  <2>. QED  BY <2>1, <2>2, AppendProperties DEF Last
<1>. HIDE DEF q
<1>5. PICK S \in SUBSET Fresh :
         /\ chars' = chars \cup S /\ roundOrder' = q \o SetToSeq(S)
         /\ roundsToRevive' = [n \in Controlled |-> IF n \in S THEN 0 ELSE roundsToRevive[n]]
  BY DEF AddFlag, q
<1>6. S \subseteq Creeps \ Living /\ S \in SUBSET (Creeps \cup {Player}) /\ IsFiniteSet(S)
  BY <1>5, TurnAssumption, FS_Subset DEF Fresh, Living, IsAlive
<1>7. Living' = Living \cup S
  <2>1. \A n \in Controlled : roundsToRevive'[n] = IF n \in S THEN 0 ELSE roundsToRevive[n]
    BY <1>5
  <2>2. S \subseteq Controlled
    BY <1>6 DEF Controlled
  <2>. QED  BY <1>5, <2>1, <2>2 DEF Living, IsAlive
<1>8. SetToSeq(S) \in SetToSeqs(S)
  BY <1>6, SetToSeqHolds
<1>9. Turn!Join(S)
  BY <1>3, <1>4, <1>5, <1>6, <1>7, <1>8, SameOperators DEF Turn!Join
<1>. QED  BY <1>6, <1>9

\* The next one plays: the player of the user interface, or a new thread for it.
LEMMA GiveTurn ==
    ASSUME IInv, OrderInv, OrderInv', NEW t \in Threads, Launch(t)
    PROVE  Turn!Give
<1>. USE DEF At, Goto
<1>1. /\ Running /\ pc[t] = "launch"
      /\ UNCHANGED <<roundOrder, chars, roundsToRevive, currentCharacter>>
      /\ "launch" \in (TurnSteps \cap Between) \ Loose
      /\ {"launch", "yield", "assign"} \cap ({"check", "rotate"} \cup Carrying) = {}
      /\ {"yield", "assign"} \cap Between = {}
  BY DEF Launch, TurnSteps, Between, NextTurnSteps, Carrying, Loose
<1>2. Head(roundOrder) = currentCharacter /\ currentCharacter \in chars
  BY <1>1, Here
<1>3. IsAlive(currentCharacter)
  BY <1>1 DEF OrderInv, PlaceInv, Running
<1>4. /\ pc'[t] \in {"yield", "assign"} /\ UNCHANGED failure
      /\ \A u \in Threads \ {t} : pc'[u] \in {pc[u], "begin"}
  <2>1. CASE currentCharacter = Player
    BY <1>1, <1>2, <2>1 DEF Launch, OrderInv, TypeOK
  <2>2. CASE currentCharacter # Player
    <3>1. PICK w \in Unused : pc' = [pc EXCEPT ![t] = "assign", ![w] = "begin"] /\ UNCHANGED failure
      BY <1>2, <2>2 DEF Launch
    <3>2. w # t
      BY <1>1 DEF Unused
    <3>. QED  BY <3>1, <3>2 DEF OrderInv, TypeOK
  <2>. QED  BY <2>1, <2>2
<1>5. /\ TurnQueue = roundOrder /\ TurnOf = NoName
      /\ TurnQueue' = roundOrder' /\ TurnOf' = currentCharacter'
  BY <1>1, <1>4, TurnViews DEF Running
<1>6. UNCHANGED Living
  BY <1>1 DEF Living, IsAlive
<1>7. currentCharacter \in Living
  BY <1>2, <1>3 DEF Living, OrderInv, TypeOK
<1>. QED  BY <1>1, <1>2, <1>5, <1>6, <1>7 DEF Turn!Give

\* A turn ends: the thread that has played, or the user, calls nextTurn.
LEMMA EndTurn ==
    ASSUME IInv, OrderInv, OrderInv', NEW t \in Threads, failure = "none", UNCHANGED failure,
           \A u \in Threads : pc[u] \notin TurnSteps, pc' = [pc EXCEPT ![t] = "check"],
           UNCHANGED <<roundOrder, chars, roundsToRevive, currentCharacter, polled>>
    PROVE  Turn!End
<1>1. "check" \in Between \ Carrying
  BY DEF Between, NextTurnSteps, Carrying
<1>2. pc'[t] = "check" /\ \A u \in Threads \ {t} : pc'[u] = pc[u]
  BY DEF OrderInv, TypeOK
<1>3. TurnQueue = roundOrder /\ TurnOf = currentCharacter
  BY View, BetweenSteps DEF OrderInv, Viewed
<1>4. TurnQueue' = Turn!Rotated(roundOrder) /\ TurnOf' = NoName
  <2>1. Viewed'
    BY ViewNext DEF OrderInv
  <2>2. \A s : Turn!Rotated(s) = Append(Tail(s), Head(s))
    BY DEF Turn!Rotated
  <2>. QED  BY <1>1, <1>2, <2>1, <2>2 DEF Viewed
<1>5. Head(roundOrder) = currentCharacter /\ currentCharacter \in chars
  BY Rests DEF OrderInv, AtHead
<1>6. currentCharacter # NoName
  BY <1>5, TurnAssumption DEF OrderInv, TypeOK
<1>7. UNCHANGED Living
  BY DEF Living, IsAlive
<1>. QED  BY <1>3, <1>4, <1>5, <1>6, <1>7 DEF Turn!End

\* Somebody is killed in another one's turn.
LEMMA DieTurn ==
    ASSUME IInv, OrderInv, OrderInv', failure = "none", UNCHANGED failure,
           \A t \in Threads : pc[t] \notin TurnSteps,
           NEW v \in Controlled, Kill(v), UNCHANGED <<currentCharacter, pc, polled>>
    PROVE  Turn!Die(v)
<1>1. /\ TurnQueue = roundOrder /\ TurnOf = currentCharacter
      /\ TurnQueue' = roundOrder' /\ TurnOf' = currentCharacter
  BY CalmView
<1>2. currentCharacter # NoName
  BY Rests, TurnAssumption DEF OrderInv, AtHead, TypeOK
<1>3. IsAlive(v) /\ v # currentCharacter
  BY DEF Kill
<1>4. Living' = Living \ {v}
  <2>1. ~IsAlive(v)'
    <3>1. roundsToRevive'[v] = IF v = Player THEN ReviveRounds
                               ELSE IF v \in Towers THEN -1 ELSE roundsToRevive[v]
      BY DEF Kill, OrderInv, TypeOK
    <3>2. v \in Creeps => chars' = chars \ {v}
      BY DEF Kill
    <3>3. ReviveRounds # 0 /\ -1 # 0
      BY TurnAssumption
    <3>. QED  BY <3>1, <3>2, <3>3 DEF IsAlive, Controlled
  <2>2. \A n \in Controlled \ {v} : IsAlive(n)' <=> IsAlive(n)
    BY DEF Kill, IsAlive, OrderInv, TypeOK
  <2>. QED  BY <2>1, <2>2 DEF Living
<1>5. TurnQueue' = IF v \in Creeps THEN RemoveFirst(TurnQueue, v) ELSE TurnQueue
  BY <1>1 DEF Kill
<1>6. v \in Living \ {TurnOf}
  BY <1>1, <1>3 DEF Living
<1>. QED  BY <1>1, <1>2, <1>4, <1>5, <1>6, SameOperators DEF Turn!Die

\* The steps of nextTurn.
LEMMA NextTurnTurn ==
    ASSUME IInv, OrderInv, OrderInv', NEW t \in Threads, nextTurn(t)
    PROVE  [Turn!Turns]_Turn!turnVars
<1>1. CASE Assign(t) \/ Yield(t)
  <2>1. /\ UNCHANGED <<roundOrder, currentCharacter, polled, chars, roundsToRevive>>
        /\ pc[t] \in {"assign", "yield"} /\ pc' = [pc EXCEPT ![t] = Returned(t)]
    BY <1>1 DEF Assign, Yield, At, Goto
  <2>2. {"assign", "yield", Returned(t)} \cap Between = {}
    BY DEF Between, NextTurnSteps, Returned
  <2>3. \A u \in Threads : pc'[u] = pc[u] \/ {pc[u], pc'[u]} \cap Between = {}
    <3>1. pc = [u \in Threads |-> pc[u]] /\ pc'[t] = Returned(t)
      BY <2>1 DEF OrderInv, TypeOK
    <3>2. \A u \in Threads \ {t} : pc'[u] = pc[u]
      BY <2>1, <3>1
    <3>. QED  BY <2>1, <2>2, <3>1, <3>2
  <2>. QED  BY <2>1, <2>3, SameView
<1>. QED
  BY <1>1, MoveTurn, PassTurn, ReviveTurn, JoinTurn, GiveTurn DEF nextTurn, Turn!Turns

\* Whoever kills does so while nobody hands over.
LEMMA KillTurn ==
    ASSUME ~EagerUser, IInv, OrderInv, OrderInv', NEW v \in Controlled,
           PlayerKills(v) \/ \E w \in Workers : AutomationKills(w, v)
    PROVE  Turn!Turns
<1>1. Running /\ Kill(v) /\ UNCHANGED <<currentCharacter, pc, polled, failure>>
  BY DEF PlayerKills, PlayerMayAct, AutomationKills, At
<1>2. \A t \in Threads : pc[t] \notin TurnSteps
  BY NobodyHandsOver
<1>3. Turn!Die(v)
  BY <1>1, <1>2, DieTurn DEF Running
<1>. QED  BY <1>3 DEF Turn!Turns, Controlled

\* The steps of the thread of an automated character.
LEMMA RunTurn ==
    ASSUME ~EagerUser, IInv, OrderInv, OrderInv', NEW w \in Workers, run(w)
    PROVE  [Turn!Turns]_Turn!turnVars
<1>. USE DEF At, Goto
<1>0. w \in Threads /\ pc = [u \in Threads |-> pc[u]]
  BY DEF OrderInv, TypeOK, Threads
<1>1. {"begin", "automation", "force", "dead"} \cap Between = {}
  BY DEF Between, NextTurnSteps
<1>2. CASE BeginAutomation(w)
  BY <1>0, <1>1, <1>2, SameView DEF BeginAutomation
<1>3. CASE AutomationEnds(w)
  <2>1. Returned(w) = "dead"
    BY TurnAssumption DEF Returned
  <2>. QED  BY <1>0, <1>1, <1>3, <2>1, SameView DEF AutomationEnds, Throw
<1>4. CASE ForceNextTurn(w) /\ me[w] # currentCharacter
  BY <1>0, <1>1, <1>4, SameView DEF ForceNextTurn
<1>5. CASE ForceNextTurn(w) /\ me[w] = currentCharacter
  <2>1. pc[w] = "force" /\ "force" \in RunSteps \ TurnSteps
    BY <1>5 DEF ForceNextTurn, RunSteps, TurnSteps, NextTurnSteps
  <2>2. \A u \in Threads : pc[u] \notin TurnSteps
    BY <1>0, <2>1, OthersRest
  <2>3. Turn!End
    BY <1>0, <1>5, <2>2, EndTurn DEF ForceNextTurn, Running
  <2>. QED  BY <2>3 DEF Turn!Turns
<1>6. ASSUME NEW v \in Controlled, AutomationKills(w, v) PROVE Turn!Turns
  BY <1>6, KillTurn
<1>. QED  BY <1>2, <1>3, <1>4, <1>5, <1>6 DEF run

\* The steps of the user, of close and of initialise.
LEMMA UserTurn ==
    ASSUME ~EagerUser, IInv, OrderInv, OrderInv',
           PressNextTurn \/ Close \/ CloseIsAlive \/ Initialise \/ \E v \in Controlled : PlayerKills(v)
    PROVE  [Turn!Turns]_Turn!turnVars
<1>. USE DEF Goto
<1>0. UI \in Threads /\ pc = [u \in Threads |-> pc[u]]
  BY DEF OrderInv, TypeOK, Threads
<1>1. {"idle", "close", "isAlive"} \cap Between = {}
  BY DEF Between, NextTurnSteps
<1>2. CASE PressNextTurn
  <2>1. \A u \in Threads : pc[u] \notin TurnSteps
    BY <1>2, NobodyPlays, Labels DEF PressNextTurn
  <2>2. Turn!End
    BY <1>0, <1>2, <2>1, EndTurn DEF PressNextTurn, PlayerMayAct, Running
  <2>. QED  BY <2>2 DEF Turn!Turns
<1>3. CASE Close
  BY <1>0, <1>1, <1>3, SameView DEF Close, Closed
<1>4. CASE CloseIsAlive
  BY <1>0, <1>1, <1>4, SameView DEF CloseIsAlive, Closed, Throw, Returned
<1>5. ASSUME NEW v \in Controlled, PlayerKills(v) PROVE Turn!Turns
  BY <1>5, KillTurn
<1>6. CASE Initialise
  <2>1. \A u \in Threads : pc[u] \notin TurnSteps
    BY <1>6, Labels DEF Initialise, IInv, ClosedInv
  <2>2. TurnQueue' = InitialOrder /\ TurnOf' = Player
    BY <1>6, <2>1, CalmView DEF Initialise
  <2>3. Living' = {Player} \cup Towers
    BY <1>6 DEF Initialise, Living, IsAlive, Controlled
  <2>4. Turn!Restart
    BY <2>2, <2>3 DEF Turn!Restart
  <2>. QED  BY <2>4 DEF Turn!Turns
<1>. QED  BY <1>2, <1>3, <1>4, <1>5, <1>6

\* A new game begins as Rounds does.
LEMMA TurnInit == Init => Turn!Begin
<1>. SUFFICES ASSUME Init PROVE Turn!Begin
  OBVIOUS
<1>1. UI \in Threads /\ \A u \in Threads : pc[u] \notin TurnSteps
  BY DEF Init, Threads, TurnSteps, NextTurnSteps
<1>2. TypeOK /\ CarryInv
  BY OrderInit DEF OrderInv, Init
<1>3. TurnQueue = InitialOrder /\ TurnOf = Player
  BY <1>1, <1>2, View, BetweenSteps DEF Viewed, Init
<1>4. Living = {Player} \cup Towers
  BY DEF Init, Living, IsAlive, Controlled
<1>. QED  BY <1>3, <1>4 DEF Turn!Begin

\* The threads take turns: nextTurn with its threads, deaths and spawns between any
\* two of its statements, and close and initialise, implement the queue of Rounds.
THEOREM Refinement == ASSUME ~EagerUser PROVE Spec => TurnsGoRound
<1>1. IInv /\ OrderInv /\ OrderInv' /\ [Next]_vars => [Turn!Turns]_Turn!turnVars
  <2>. SUFFICES ASSUME IInv, OrderInv, OrderInv', [Next]_vars PROVE [Turn!Turns]_Turn!turnVars
    OBVIOUS
  <2>1. CASE UNCHANGED vars
    BY <2>1, SameView DEF vars
  <2>. QED  BY <2>1, NextTurnTurn, RunTurn, UserTurn DEF Next
<1>. QED  BY <1>1, TurnInit, InductiveInv, InductiveOrder, PTL DEF Spec, TurnsGoRound, Turn!Spec
=============================================================================
