------------------------------ MODULE TurnEngine ------------------------------
(***************************************************************************)
(* GameState.nextTurn and the threads that run it.  The queue roundOrder   *)
(* holds every controlled character and one flag that separates rounds.    *)
(* The user interface thread plays for Player; the turn of an automated    *)
(* character runs on a thread of its own, which ends by calling nextTurn   *)
(* again.  nextTurn is not synchronized, so its statements are the steps.  *)
(***************************************************************************)
EXTENDS Naturals, Integers, Sequences, FiniteSets, SequencesExt

CONSTANTS Player,        \* the hero of the user interface, not automated
          Towers,        \* automated, stay in the queue when destroyed
          Creeps,        \* automated, leave the queue when killed
          Flag,          \* roundFlagName
          NoName,        \* null where a name is expected
          UI,            \* the user interface thread
          Workers,       \* threads that play automated characters
          NoThread,      \* null in automatonThread
          ReviveRounds,  \* roundsToRevive of a hero that dies
          SpawnEvery,    \* line creeps spawn in every SpawnEvery-th round
          EagerUser      \* may the user act while a hand-over is not finished?

Threads == Workers \cup {UI}
Controlled == {Player} \cup Towers \cup Creeps

ASSUME TurnAssumption ==
    /\ NoName \notin Controlled \cup {Flag} /\ Flag \notin Controlled
    /\ Player \notin Towers \cup Creeps /\ Towers \cap Creeps = {}
    /\ IsFiniteSet(Towers) /\ IsFiniteSet(Creeps)
    /\ NoThread \notin Threads /\ UI \notin Workers
    /\ ReviveRounds \in Nat \ {0} /\ SpawnEvery \in Nat \ {0, 1}
    /\ EagerUser \in BOOLEAN

VARIABLES
    roundOrder,         \* the ConcurrentLinkedQueue, head first
    currentCharacter,
    roundCount,         \* modulo SpawnEvery
    chars,              \* controlled characters that are registered
    roundsToRevive,     \* 0: alive; -1: destroyed; n > 0: dead for n rounds
    automatonThread,
    pc,                 \* next statement of every thread
    polled,             \* what a thread has polled and not added back yet
    me,                 \* the local variable "character" of a worker
    child,              \* the thread a nextTurn has started and not yet recorded
    initialised,
    failure,            \* what was thrown, if anything
    overtaken           \* history, for CloseWaits: automatonThread was assigned a
                        \* thread that had already ended

vars == <<roundOrder, currentCharacter, roundCount, chars, roundsToRevive,
          automatonThread, pc, polled, me, child, initialised, failure, overtaken>>

NextTurnSteps == {"check", "rotate", "add", "scan", "look", "skip", "endRound",
                  "flag", "flagAdd", "launch", "assign", "yield"}

peek == IF roundOrder = << >> THEN NoName ELSE Head(roundOrder)

IsAlive(n) == n \in chars /\ roundsToRevive[n] = 0

\* The controlled characters in the order BasicGameMaster.initialise() adds them.
InitialOrder == <<Player>> \o SetToSeq(Towers) \o <<Flag>>

\* Where a thread is when nextTurn returns to its caller.
Returned(t) == IF t = UI THEN "idle" ELSE "dead"

Goto(t, label) == pc' = [pc EXCEPT ![t] = label]

Throw(t, what) ==
    /\ failure' = what
    /\ Goto(t, Returned(t))

Init ==
    /\ roundOrder = InitialOrder
    /\ currentCharacter = Player
    /\ roundCount = 1
    /\ chars = {Player} \cup Towers
    /\ roundsToRevive = [n \in Controlled |-> 0]
    /\ automatonThread = NoThread
    /\ pc = [t \in Threads |-> IF t = UI THEN "idle" ELSE "dead"]
    /\ polled = [t \in Threads |-> NoName]
    /\ me = [w \in Workers |-> NoName]
    /\ child = [t \in Threads |-> NoThread]
    /\ initialised = TRUE
    /\ failure = "none"
    /\ overtaken = FALSE

\* The game goes on: it is neither closed nor has a thread thrown.
Running == initialised /\ failure = "none"

-----------------------------------------------------------------------------
(* Damage.  A victim is any other living character; which ones are in      *)
(* reach is a matter of the board.                                         *)

\* Mutant of Kill: a dead creep stays in the queue.
MutantKillKeepsOrder(v) ==
    /\ IsAlive(v) /\ v # currentCharacter
    /\ roundsToRevive' = [roundsToRevive EXCEPT
          ![v] = IF v = Player THEN ReviveRounds ELSE IF v \in Towers THEN -1 ELSE @]
    /\ chars' = IF v \in Creeps THEN chars \ {v} ELSE chars
    /\ UNCHANGED roundOrder

\* checkCharacterDamage: a hero counts rounds, a tower stays as a ruin, a creep is
\* taken out of the queue, where its name is found first, and of the registry.
Kill(v) ==
    /\ IsAlive(v) /\ v # currentCharacter
    /\ roundsToRevive' = [roundsToRevive EXCEPT
          ![v] = IF v = Player THEN ReviveRounds ELSE IF v \in Towers THEN -1 ELSE @]
    /\ roundOrder' = IF v \in Creeps THEN RemoveFirst(roundOrder, v) ELSE roundOrder
    /\ chars' = IF v \in Creeps THEN chars \ {v} ELSE chars

-----------------------------------------------------------------------------
(* nextTurn, statement by statement, executed by thread t.                 *)

At(t, label) == Running /\ pc[t] = label

\* if (!currentCharacter.equals(roundOrder.peek())) throw ...
CheckHead(t) ==
    /\ At(t, "check")
    /\ IF currentCharacter = peek
         THEN Goto(t, "rotate") /\ UNCHANGED failure
         ELSE Throw(t, "Round Order is corrupted")
    /\ UNCHANGED <<roundOrder, currentCharacter, roundCount, chars, roundsToRevive,
                   automatonThread, polled, me, child, initialised, overtaken>>

\* roundOrder.poll(), of roundOrder.add(roundOrder.poll())
Rotate(t) ==
    /\ At(t, "rotate")
    /\ IF roundOrder = << >>
         THEN Throw(t, "null") /\ UNCHANGED <<roundOrder, polled>>
         ELSE /\ polled' = [polled EXCEPT ![t] = peek]
              /\ roundOrder' = Tail(roundOrder)
              /\ Goto(t, "add") /\ UNCHANGED failure
    /\ UNCHANGED <<currentCharacter, roundCount, chars, roundsToRevive,
                   automatonThread, me, child, initialised, overtaken>>

\* Mutant of AddBack: whoever has played goes first again.
MutantAddFirst(t) ==
    /\ At(t, "add")
    /\ roundOrder' = <<polled[t]>> \o roundOrder
    /\ polled' = [polled EXCEPT ![t] = NoName]
    /\ Goto(t, "scan")
    /\ UNCHANGED <<currentCharacter, roundCount, chars, roundsToRevive,
                   automatonThread, me, child, initialised, failure, overtaken>>

\* roundOrder.add(...), back to the head of the loop
AddBack(t) ==
    /\ At(t, "add")
    /\ roundOrder' = Append(roundOrder, polled[t])
    /\ polled' = [polled EXCEPT ![t] = NoName]
    /\ Goto(t, "scan")
    /\ UNCHANGED <<currentCharacter, roundCount, chars, roundsToRevive,
                   automatonThread, me, child, initialised, failure, overtaken>>

\* if (roundFlagName.equals(roundOrder.peek()))
Scan(t) ==
    /\ At(t, "scan")
    /\ Goto(t, IF peek = Flag THEN "endRound" ELSE "look")
    /\ UNCHANGED <<roundOrder, currentCharacter, roundCount, chars, roundsToRevive,
                   automatonThread, polled, me, child, initialised, failure, overtaken>>

\* Mutant of Look: looks at the head without making it the current character.
MutantLookOnly(t) ==
    /\ At(t, "look")
    /\ IF peek \in chars
         THEN Goto(t, IF IsAlive(peek) THEN "launch" ELSE "skip") /\ UNCHANGED failure
         ELSE Throw(t, "null")
    /\ UNCHANGED <<roundOrder, currentCharacter, roundCount, chars, roundsToRevive,
                   automatonThread, polled, me, child, initialised, overtaken>>

\* else if (chars.get(currentCharacter = roundOrder.peek()).isAlive())
Look(t) ==
    /\ At(t, "look")
    /\ currentCharacter' = peek
    /\ IF peek \in chars
         THEN Goto(t, IF IsAlive(peek) THEN "launch" ELSE "skip") /\ UNCHANGED failure
         ELSE Throw(t, "null")
    /\ UNCHANGED <<roundOrder, roundCount, chars, roundsToRevive,
                   automatonThread, polled, me, child, initialised, overtaken>>

\* Mutant of Skip: peek instead of poll.
MutantSkipStays(t) ==
    /\ At(t, "skip")
    /\ currentCharacter' = peek
    /\ Goto(t, "scan")
    /\ UNCHANGED <<roundOrder, roundCount, chars, roundsToRevive, automatonThread, polled, me,
                   child, initialised, failure, overtaken>>

\* else roundOrder.add(currentCharacter = roundOrder.poll())
Skip(t) ==
    /\ At(t, "skip")
    /\ currentCharacter' = peek
    /\ IF roundOrder = << >>
         THEN Throw(t, "null") /\ UNCHANGED <<roundOrder, polled>>
         ELSE /\ polled' = [polled EXCEPT ![t] = peek]
              /\ roundOrder' = Tail(roundOrder)
              /\ Goto(t, "add") /\ UNCHANGED failure
    /\ UNCHANGED <<roundCount, chars, roundsToRevive, automatonThread, me, child,
                   initialised, overtaken>>

\* Mutant of EndRound: counts for everybody who is not alive.
MutantEndRoundRuins(t) ==
    /\ At(t, "endRound")
    /\ roundsToRevive' = [n \in Controlled |->
          IF n \in chars /\ roundsToRevive[n] # 0 THEN roundsToRevive[n] - 1 ELSE roundsToRevive[n]]
    /\ Goto(t, "flag")
    /\ UNCHANGED <<roundOrder, currentCharacter, roundCount, chars,
                   automatonThread, polled, me, child, initialised, failure, overtaken>>

\* applyRule "EndRound": the dead come closer to their revival.
EndRound(t) ==
    /\ At(t, "endRound")
    /\ roundsToRevive' = [n \in Controlled |->
          IF n \in chars /\ roundsToRevive[n] > 0 THEN roundsToRevive[n] - 1 ELSE roundsToRevive[n]]
    /\ Goto(t, "flag")
    /\ UNCHANGED <<roundOrder, currentCharacter, roundCount, chars,
                   automatonThread, polled, me, child, initialised, failure, overtaken>>

\* currentCharacter = roundOrder.poll(), with the flag at the head
PollFlag(t) ==
    /\ At(t, "flag")
    /\ currentCharacter' = peek
    /\ IF roundOrder = << >>
         THEN Throw(t, "null") /\ UNCHANGED <<roundOrder, polled>>
         ELSE /\ polled' = [polled EXCEPT ![t] = peek]
              /\ roundOrder' = Tail(roundOrder)
              /\ Goto(t, "flagAdd") /\ UNCHANGED failure
    /\ UNCHANGED <<roundCount, chars, roundsToRevive, automatonThread, me, child,
                   initialised, overtaken>>

\* Names that no variable of the program mentions: UUIDs not used before.
Fresh == {n \in Creeps \ chars :
             /\ n # currentCharacter
             /\ \A w \in Workers : me[w] # n
             /\ \A t \in Threads : polled[t] # n}

\* roundOrder.add(flag); roundCount++; applyRule "BeginRound": the creeps of a
\* spawning round queue up behind the flag and first act in the round after.
AddFlag(t) ==
    /\ At(t, "flagAdd")
    /\ roundCount' = (roundCount + 1) % SpawnEvery
    /\ \E spawned \in (IF roundCount' = 0 THEN SUBSET Fresh ELSE {{}}) :
          /\ chars' = chars \cup spawned
          /\ roundOrder' = Append(roundOrder, polled[t]) \o SetToSeq(spawned)
          /\ roundsToRevive' = [n \in Controlled |-> IF n \in spawned THEN 0 ELSE roundsToRevive[n]]
    /\ polled' = [polled EXCEPT ![t] = NoName]
    /\ Goto(t, "scan")
    /\ UNCHANGED <<currentCharacter, automatonThread, me, child, initialised, failure, overtaken>>

\* Threads that are not running and that nobody refers to.
Unused == {w \in Workers : /\ pc[w] = "dead" /\ automatonThread # w
                           /\ \A t \in Threads : child[t] # w}

\* if (chars.get(currentCharacter).isAutomated()): new Thread() {...}.start()
Launch(t) ==
    /\ At(t, "launch")
    /\ IF currentCharacter \notin chars
         THEN Throw(t, "null") /\ UNCHANGED child
         ELSE IF currentCharacter = Player
         THEN Goto(t, "yield") /\ UNCHANGED <<child, failure>>
         ELSE \E w \in Unused :
                 /\ child' = [child EXCEPT ![t] = w]
                 /\ pc' = [pc EXCEPT ![t] = "assign", ![w] = "begin"]
                 /\ UNCHANGED failure
    /\ UNCHANGED <<roundOrder, currentCharacter, roundCount, chars, roundsToRevive,
                   automatonThread, polled, me, initialised, overtaken>>

\* automatonThread = t, the last statement of nextTurn.  The thread that has been
\* started runs on meanwhile: it may have handed over in its turn, and be dead.
Assign(t) ==
    /\ failure = "none" /\ pc[t] = "assign"
    /\ automatonThread' = child[t]
    /\ overtaken' = (pc[child[t]] = "dead")
    /\ child' = [child EXCEPT ![t] = NoThread]
    /\ Goto(t, Returned(t))
    /\ UNCHANGED <<roundOrder, currentCharacter, roundCount, chars, roundsToRevive,
                   polled, me, initialised, failure>>

\* else branch: applyRule "BeginTurn"; automatonThread = null
Yield(t) ==
    /\ At(t, "yield")
    /\ automatonThread' = NoThread
    /\ overtaken' = FALSE
    /\ Goto(t, Returned(t))
    /\ UNCHANGED <<roundOrder, currentCharacter, roundCount, chars, roundsToRevive,
                   polled, me, child, initialised, failure>>

nextTurn(t) ==
    \/ CheckHead(t) \/ Rotate(t) \/ AddBack(t) \/ Scan(t) \/ Look(t) \/ Skip(t)
    \/ EndRound(t) \/ PollFlag(t) \/ AddFlag(t) \/ Launch(t) \/ Assign(t) \/ Yield(t)

-----------------------------------------------------------------------------
(* run() of the thread of an automated character.                          *)

\* applyRule "BeginTurn"; String character = currentCharacter
BeginAutomation(w) ==
    /\ At(w, "begin")
    /\ me' = [me EXCEPT ![w] = currentCharacter]
    /\ Goto(w, "automation")
    /\ UNCHANGED <<roundOrder, currentCharacter, roundCount, chars, roundsToRevive,
                   automatonThread, polled, child, initialised, failure, overtaken>>

\* One attack of the rule "Automation" that takes the last hit points of v.
AutomationKills(w, v) ==
    /\ At(w, "automation") /\ currentCharacter \in chars
    /\ Kill(v)
    /\ UNCHANGED <<currentCharacter, roundCount, automatonThread, pc, polled, me, child,
                   initialised, failure, overtaken>>

\* The rule returns; looking up a character that is not registered throws.
AutomationEnds(w) ==
    /\ At(w, "automation")
    /\ IF currentCharacter \in chars
         THEN Goto(w, "force") /\ UNCHANGED failure
         ELSE Throw(w, "null")
    /\ UNCHANGED <<roundOrder, currentCharacter, roundCount, chars, roundsToRevive,
                   automatonThread, polled, me, child, initialised, overtaken>>

\* Mutant of ForceNextTurn: the thread ends without handing over.
MutantForceNothing(w) ==
    /\ At(w, "force")
    /\ Goto(w, "dead")
    /\ me' = [me EXCEPT ![w] = NoName]
    /\ UNCHANGED <<roundOrder, currentCharacter, roundCount, chars, roundsToRevive,
                   automatonThread, polled, child, initialised, failure, overtaken>>

\* if (character.equals(currentCharacter)) nextTurn()
ForceNextTurn(w) ==
    /\ At(w, "force")
    /\ Goto(w, IF me[w] = currentCharacter THEN "check" ELSE "dead")
    /\ me' = [me EXCEPT ![w] = NoName]
    /\ UNCHANGED <<roundOrder, currentCharacter, roundCount, chars, roundsToRevive,
                   automatonThread, polled, child, initialised, failure, overtaken>>

run(w) ==
    \/ BeginAutomation(w) \/ AutomationEnds(w) \/ ForceNextTurn(w)
    \/ \E v \in Controlled : AutomationKills(w, v)

-----------------------------------------------------------------------------
(* The user interface thread.                                              *)

\* A thread is executing nextTurn, up to its last statement for an automated
\* character.
HandingOver == \E t \in Threads : pc[t] \in NextTurnSteps \ {"assign"}

\* Mutant of PlayerMayAct: the rules do not ask whose turn it is.
MutantAnyTurn ==
    /\ Running /\ pc[UI] = "idle"
    /\ EagerUser \/ ~HandingOver

\* processEvent, "GameAction": the rules accept Player while it is the current
\* character.  A patient user waits until the hand-over is complete.
PlayerMayAct ==
    /\ Running /\ pc[UI] = "idle"
    /\ currentCharacter = Player
    /\ EagerUser \/ ~HandingOver

PlayerKills(v) ==
    /\ PlayerMayAct
    /\ Kill(v)
    /\ UNCHANGED <<currentCharacter, roundCount, automatonThread, pc, polled, me, child,
                   initialised, failure, overtaken>>

PressNextTurn ==
    /\ PlayerMayAct
    /\ Goto(UI, "check")
    /\ UNCHANGED <<roundOrder, currentCharacter, roundCount, chars, roundsToRevive,
                   automatonThread, polled, me, child, initialised, failure, overtaken>>

\* Threads that play a turn or hand it over.
Busy == {t \in Threads :
            pc[t] \in (NextTurnSteps \ {"assign"}) \cup {"begin", "automation", "force"}}

\* The rest of close() sets gameMaster, chars and objPositions to null.  A thread
\* that still plays throws when it comes to one of them, or plays on in the next
\* game: the behaviour is given up here.
Closed ==
    /\ initialised' = FALSE
    /\ failure' = IF Busy = {} THEN "none" ELSE "closed in play"
    /\ Goto(UI, "idle")

\* Mutant of Close: does not wait for the automaton.
MutantCloseAtOnce ==
    /\ Running /\ pc[UI] \in {"idle", "close"}
    /\ Closed
    /\ UNCHANGED <<roundOrder, currentCharacter, roundCount, chars, roundsToRevive,
                   automatonThread, polled, me, child, overtaken>>

\* close(): while (automatonThread != null ...
Close ==
    /\ Running /\ pc[UI] \in {"idle", "close"}
    /\ IF automatonThread = NoThread
         THEN Closed
         ELSE Goto(UI, "isAlive") /\ UNCHANGED <<initialised, failure>>
    /\ UNCHANGED <<roundOrder, currentCharacter, roundCount, chars, roundsToRevive,
                   automatonThread, polled, me, child, overtaken>>

\* ... && automatonThread.isAlive()): the field is read a second time.
CloseIsAlive ==
    /\ Running /\ pc[UI] = "isAlive"
    /\ IF automatonThread = NoThread
         THEN Throw(UI, "null in close") /\ UNCHANGED initialised
         ELSE IF pc[automatonThread] = "dead"
         THEN Closed
         ELSE Goto(UI, "close") /\ UNCHANGED <<initialised, failure>>
    /\ UNCHANGED <<roundOrder, currentCharacter, roundCount, chars, roundsToRevive,
                   automatonThread, polled, me, child, overtaken>>

\* initialise() of a closed state; automatonThread keeps its value.
Initialise ==
    /\ ~initialised /\ failure = "none" /\ pc[UI] = "idle"
    /\ roundOrder' = InitialOrder
    /\ currentCharacter' = Player
    /\ roundCount' = 1
    /\ chars' = {Player} \cup Towers
    /\ roundsToRevive' = [n \in Controlled |-> 0]
    /\ initialised' = TRUE
    /\ UNCHANGED <<automatonThread, pc, polled, me, child, failure, overtaken>>

-----------------------------------------------------------------------------
Next ==
    \/ \E t \in Threads : nextTurn(t)
    \/ \E w \in Workers : run(w)
    \/ \E v \in Controlled : PlayerKills(v)
    \/ PressNextTurn \/ Close \/ CloseIsAlive \/ Initialise

\* Every thread that can run does.  Nothing is said of the rule "Automation": it
\* may go on for ever.
Fairness ==
    /\ \A t \in Threads : WF_vars(nextTurn(t))
    /\ \A w \in Workers : WF_vars(BeginAutomation(w) \/ ForceNextTurn(w))
    /\ WF_vars(CloseIsAlive \/ (pc[UI] = "close" /\ Close))

Spec == Init /\ [][Next]_vars /\ Fairness

-----------------------------------------------------------------------------
\* Every variable keeps its type.
TypeOK ==
    /\ roundOrder \in Seq(Controlled \cup {Flag})
    /\ currentCharacter \in Controlled \cup {Flag, NoName}
    /\ roundCount \in 0 .. (SpawnEvery - 1)
    /\ chars \subseteq Controlled
    /\ roundsToRevive \in [Controlled -> -1 .. ReviveRounds]
    /\ automatonThread \in Workers \cup {NoThread}
    /\ pc \in [Threads -> NextTurnSteps \cup
                  {"idle", "dead", "begin", "automation", "force", "close", "isAlive"}]
    /\ polled \in [Threads -> Controlled \cup {Flag, NoName}]
    /\ me \in [Workers -> Controlled \cup {Flag, NoName}]
    /\ child \in [Threads -> Workers \cup {NoThread}]
    /\ initialised \in BOOLEAN
    /\ failure \in {"none", "null", "null in close", "closed in play", "Round Order is corrupted"}
    /\ overtaken \in BOOLEAN

\* nextTurn throws "Round Order is corrupted" if the current character is not at
\* the head of the queue: the exception that is never to be seen.
RoundOrderNotCorrupted == failure # "Round Order is corrupted"

\* The thread that plays a turn and the one that hands it over never look up a
\* character that is gone.
NoThreadFindsNull == failure # "null"

\* One thread at a time plays or hands over.
OneTurnAtATime == Cardinality(Busy) <= 1

\* close() waits for the thread that plays, whichever hands over to whichever while
\* it reads automatonThread twice, but for one case: a thread was so late to assign
\* its child (512-513) that the child had handed over and ended.
CloseWaits == ~initialised => Busy = {} \/ overtaken

\* The queue with what a thread is carrying from its head to its tail.
Carried == {t \in Threads : polled[t] # NoName}

\* A hand-over comes to its end: the loop of nextTurn finds a living character
\* even when everyone is dead, because rounds pass and heroes revive.
HandOverEnds == HandingOver ~> ~HandingOver \/ ~Running

\* Every turn of an automated character comes to its end.  TowerRests of Combat and
\* EndsUnlessStranded of LineCreep say when it does, TurnEnds that it need not.
AutomationsReturn == []<>(\A w \in Workers : pc[w] # "automation")

\* The turn comes back if only the automations return: whoever they kill and
\* whatever spawns, either the player is asked to play or its hero is dead.
TurnComesBack ==
    AutomationsReturn =>
        (Running ~> \/ ~Running \/ roundsToRevive[Player] # 0
                    \/ currentCharacter = Player /\ Busy = {})

\* The steps of nextTurn between two turns.
Between == NextTurnSteps \ {"assign", "yield"}

\* Where the one who has just played is still at the head.
ToRotate == \E t \in Threads : pc[t] \in {"check", "rotate"}

\* The queue with everyone in it: what a thread carries is at the tail already.
TurnQueue ==
    IF ToRotate THEN Append(Tail(roundOrder), Head(roundOrder))
    ELSE roundOrder \o (IF Carried = {} THEN << >>
                         ELSE <<polled[CHOOSE t \in Carried : TRUE]>>)

TurnOf == IF \E t \in Threads : pc[t] \in Between THEN NoName ELSE currentCharacter

Living == {n \in Controlled : IsAlive(n)}

Turn == INSTANCE Rounds WITH queue <- TurnQueue, playing <- TurnOf, living <- Living

\* Turns go round: nextTurn, its threads, deaths and spawns between any two of its
\* statements, and close and initialise, implement the queue of Rounds.
TurnsGoRound == Turn!Spec
=============================================================================
