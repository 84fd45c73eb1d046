------------------------------- MODULE Combat -------------------------------
(***************************************************************************)
(* The fights of BasicGameMaster: attack, structure protection, death,     *)
(* rewards, revival, destruction and the verdict at the end of a turn.     *)
(* Where characters stand and what they see is left open: any target may   *)
(* or may not be in sight and in reach (GameBoard models the positions).   *)
(* nextTurn is taken as one hand-over (TurnEngine models its statements).  *)
(***************************************************************************)
EXTENDS Integers, FiniteSets

CONSTANTS Player,         \* the hero of the user
          Rivals,         \* heroes that nobody plays
          Creeps,         \* names for line creeps
          Towers, Barracks, Ancients,
          Nobody,         \* null where a name is expected
          Team, Front,    \* of every character; Front of structures matters
          Order,          \* of every tower in its front
          MaxHP, HPGain, MaxAP,
          AttackAP,       \* whole part of APUsedWhenAttack
          AttackFraction, \* 1 if APUsedWhenAttack has a fractional part
          Damages,        \* what getActualDamage may return
          Bounty,         \* bountyMoney of every character
          ExpLevels,      \* expLevelTable
          MaxMoney        \* bound of the exploration: money of a hero

Heroes == {Player} \cup Rivals
Structures == Towers \cup Barracks \cup Ancients
Characters == Heroes \cup Creeps \cup Structures
Controlled == {Player} \cup Towers \cup Creeps

ASSUME CombatAssumption ==
    /\ Player \notin Rivals
    /\ Heroes \cap Creeps = {} /\ Heroes \cap Structures = {} /\ Creeps \cap Structures = {}
    /\ Towers \cap Barracks = {} /\ Towers \cap Ancients = {} /\ Barracks \cap Ancients = {}
    /\ Nobody \notin Characters
    /\ Order \in [Towers -> Nat]
    /\ MaxHP \in [Characters -> Nat \ {0}] /\ HPGain \in [Characters -> Nat]
    /\ MaxAP \in Nat /\ AttackAP \in Nat /\ AttackFraction \in {0, 1}
    /\ Damages \subseteq Nat
    /\ Bounty \in [Characters -> Nat] /\ MaxMoney \in Nat
    /\ ExpLevels \subseteq Nat /\ IsFiniteSet(ExpLevels)

VARIABLES
    spawned,         \* the line creeps that are registered
    hp, ap,          \* currentHP, currentActionPoint
    roundsToRevive,  \* 0: none; n > 0: dead for n rounds; -1: never
    money, experience,
    turn,            \* whose turn it is; Nobody while nextTurn is working
    scanning,        \* autoTower is to fill its queue
    queue, target,   \* attackQueue of autoTower, and what it has polled
    result           \* the last GameResult the scene was notified of

vars == <<spawned, hp, ap, roundsToRevive, money, experience, turn, scanning,
          queue, target, result>>

\* Mutant of AtLeastZero: the setter stores what it is given.
MutantNoFloor(i) == i

\* setCurrentHP and setCurrentActionPoint do not go below 0.
AtLeastZero(i) == IF i < 0 THEN 0 ELSE i

Present == Heroes \cup Structures \cup spawned

IsAlive(n) == hp[n] > 0 /\ roundsToRevive[n] = 0

Init ==
    /\ spawned = {}
    /\ hp = [n \in Characters |-> IF n \in Creeps THEN 0 ELSE MaxHP[n]]
    /\ ap = [n \in Characters |-> IF n \in Creeps THEN 0 ELSE MaxAP]
    /\ roundsToRevive = [n \in Characters |-> 0]
    /\ money = [h \in Heroes |-> 0]
    /\ experience = [h \in Heroes |-> 0]
    /\ turn = Player
    /\ scanning = FALSE
    /\ queue = {} /\ target = Nobody
    /\ result = "none"

-----------------------------------------------------------------------------
(* What may be attacked.                                                   *)

\* teamStrength: the towers and barracks of one front of a team.
Strength(team, front) == {u \in Towers \cup Barracks : Team[u] = team /\ Front[u] = front}

\* Mutant of Protected: the outer tower is asked for, not the inner ones.
MutantProtected(v) ==
    \/ /\ v \in Towers
       /\ \E u \in Strength(Team[v], Front[v]) \cap Towers : IsAlive(u) /\ Order[u] > Order[v]
    \/ /\ v \in Barracks
       /\ \E u \in Strength(Team[v], Front[v]) \cap Towers : IsAlive(u)
    \/ /\ v \in Ancients
       /\ \E u \in Strength(Team[v], Front[v]) : IsAlive(u)

\* Structure protection: towers fall in their order, barracks after the towers
\* of their front, an ancient after everything in its front.
Protected(v) ==
    \/ /\ v \in Towers
       /\ \E u \in Strength(Team[v], Front[v]) \cap Towers : IsAlive(u) /\ Order[u] < Order[v]
    \/ /\ v \in Barracks
       /\ \E u \in Strength(Team[v], Front[v]) \cap Towers : IsAlive(u)
    \/ /\ v \in Ancients
       /\ \E u \in Strength(Team[v], Front[v]) : IsAlive(u)

\* requestActionPossible for "Attack", apart from sight and reach.
requestAttack(a, v) ==
    /\ v \in Present
    /\ ap[a] > AttackAP
    /\ Team[a] # Team[v]
    /\ ~Protected(v)

-----------------------------------------------------------------------------
(* attack and checkCharacterDamage.                                        *)

\* convertHeroExpToLevel: Arrays.binarySearch returns an index from 0 if it
\* finds the value, and minus the insertion point minus 1 otherwise.
convertHeroExpToLevel(exp) ==
    LET below == Cardinality({e \in ExpLevels : e < exp})
    IN  IF exp \in ExpLevels /\ below = 0 THEN 0 ELSE below + 1

\* The new experience of a hero that kills a hero: "+" binds tighter than "==".
ExperienceAfterHero(exp, level) ==
    IF exp + level = 1 THEN 100
    ELSE IF level = 2 THEN 120
    ELSE IF level = 3 THEN 160
    ELSE IF level = 4 THEN 220
    ELSE IF level = 5 THEN 300
    ELSE 300 + (level - 5) * 100

\* What a killer that is a hero has afterwards.  bountyExp is set for heroes
\* only, so that of a creep or of a structure is 0.
Reward(a, v) ==
    IF a \notin Heroes THEN UNCHANGED <<money, experience>>
    ELSE IF v \in Heroes THEN
        /\ money' = [money EXCEPT ![a] = @ + Bounty[v]]
        /\ experience' = [experience EXCEPT
              ![a] = ExperienceAfterHero(@, convertHeroExpToLevel(experience[v]))]
    ELSE
        /\ money' = [money EXCEPT ![a] = Bounty[v]]
        /\ experience' = [experience EXCEPT ![a] = 0]

\* Mutant of checkCharacterDamage: a creep without hit points stays registered.
MutantDamageKeepsCreep(a, v, left) ==
    IF left > 0 /\ roundsToRevive[v] = 0
      THEN UNCHANGED <<spawned, roundsToRevive, money, experience>>
      ELSE /\ Reward(a, v)
           /\ roundsToRevive' = [roundsToRevive EXCEPT
                 ![v] = IF v \in Heroes THEN 1 + 2 * convertHeroExpToLevel(experience[v])
                        ELSE IF v \in Structures THEN -1 ELSE @]
           /\ UNCHANGED spawned

\* Mutant of checkCharacterDamage: a structure waits for its revival like a hero.
MutantDamageRevives(a, v, left) ==
    IF left > 0 /\ roundsToRevive[v] = 0
      THEN UNCHANGED <<spawned, roundsToRevive, money, experience>>
      ELSE /\ Reward(a, v)
           /\ roundsToRevive' = [roundsToRevive EXCEPT
                 ![v] = IF v \in Creeps THEN @ ELSE 3]
           /\ spawned' = spawned \ {v}

\* checkCharacterDamage(a, v) when v has "left" hit points: a dead hero waits, a
\* dead creep is removed, a destroyed structure never comes back.
checkCharacterDamage(a, v, left) ==
    IF left > 0 /\ roundsToRevive[v] = 0
      THEN UNCHANGED <<spawned, roundsToRevive, money, experience>>
      ELSE /\ Reward(a, v)
           /\ roundsToRevive' = [roundsToRevive EXCEPT
                 ![v] = IF v \in Heroes THEN 1 + 2 * convertHeroExpToLevel(experience[v])
                        ELSE IF v \in Structures THEN -1 ELSE @]
           /\ spawned' = spawned \ {v}

\* attack(a, v).  autoTower calls checkCharacterDamage once more, to no effect.
attack(a, v) ==
    /\ ~Protected(v)
    /\ ap' = [ap EXCEPT ![a] = AtLeastZero(@ - AttackAP - AttackFraction)]
    /\ \E damage \in Damages :
          LET left == AtLeastZero(hp[v] - damage)
          IN  /\ hp' = [hp EXCEPT ![v] = left]
              /\ checkCharacterDamage(a, v, left)

-----------------------------------------------------------------------------
(* A turn.                                                                 *)

\* GameAction "Attack" of the user.  MaxMoney bounds the exploration.
PlayerAttacks(v) ==
    /\ turn = Player
    /\ requestAttack(Player, v)
    /\ money[Player] + Bounty[v] <= MaxMoney
    /\ attack(Player, v)
    /\ UNCHANGED <<turn, scanning, queue, target, result>>

\* autoLineCreep, one round of the loop over its targets.
CreepAttacks(c, v) ==
    /\ c \in Creeps /\ turn = c
    /\ requestAttack(c, v) /\ IsAlive(v)
    /\ attack(c, v)
    /\ UNCHANGED <<turn, scanning, queue, target, result>>

\* move: action points go, how many is a matter of the board.
Walks(n) ==
    /\ n \in {Player} \cup Creeps /\ turn = n
    /\ \E left \in 0 .. MaxAP : left < ap[n] /\ ap' = [ap EXCEPT ![n] = left]
    /\ UNCHANGED <<spawned, hp, roundsToRevive, money, experience, turn, scanning,
                   queue, target, result>>

\* autoTower, the search: it queues what it sees in its attack area.
TowerScans(t) ==
    /\ turn = t /\ scanning
    /\ queue' \in SUBSET {v \in Present : requestAttack(t, v)}
    /\ scanning' = FALSE
    /\ UNCHANGED <<spawned, hp, ap, roundsToRevive, money, experience, turn, target, result>>

\* Mutant of TowerAims: attackQueue.peek().
MutantTowerAims(t) ==
    /\ turn = t /\ ~scanning
    /\ target = Nobody /\ ap[t] > 0
    /\ target' \in queue
    /\ UNCHANGED <<spawned, hp, ap, roundsToRevive, money, experience, turn, scanning, queue, result>>

\* autoTower, the outer loop: attackQueue.poll().
TowerAims(t) ==
    /\ turn = t /\ ~scanning
    /\ target = Nobody /\ ap[t] > 0
    /\ \E v \in queue : target' = v /\ queue' = queue \ {v}
    /\ UNCHANGED <<spawned, hp, ap, roundsToRevive, money, experience, turn, scanning, result>>

TowerKeepsAiming(t) == target \in Present /\ IsAlive(target) /\ ap[t] > 0

\* autoTower, the inner loop: attack(character, target).
TowerAttacks(t) ==
    /\ turn = t /\ target # Nobody
    /\ TowerKeepsAiming(t)
    /\ attack(t, target)
    /\ UNCHANGED <<turn, scanning, queue, target, result>>

TowerLetsGo(t) ==
    /\ turn = t /\ target # Nobody
    /\ ~TowerKeepsAiming(t)
    /\ target' = Nobody
    /\ UNCHANGED <<spawned, hp, ap, roundsToRevive, money, experience, turn, scanning,
                   queue, result>>

-----------------------------------------------------------------------------
(* nextTurn: the verdict, the next turn, and rounds between turns.         *)

AncientFallen(team) == \E u \in Ancients : Team[u] = team /\ ~IsAlive(u)

EnemyAncientStands == \E u \in Ancients : Team[u] # Team[Player] /\ IsAlive(u)

\* Mutant of EndTurn: wins with the first tower that falls.
MutantEndTurnWins ==
    result' = IF AncientFallen(Team[Player]) THEN "Lost"
              ELSE IF \E u \in Towers : Team[u] # Team[Player] /\ ~IsAlive(u) THEN "Win"
              ELSE result

\* Rule "EndTurn": the player has lost with its ancient, and has won when no
\* other ancient is left.
EndTurn ==
    result' = IF AncientFallen(Team[Player]) THEN "Lost"
              ELSE IF ~EnemyAncientStands THEN "Win"
              ELSE result

\* The turn of n ends: the user says so, or the automation returns.
TurnEnds(n) ==
    /\ n \in Controlled /\ turn = n
    /\ n \in Towers => /\ ~scanning /\ target = Nobody
                       /\ queue = {} \/ ap[n] = 0
    /\ EndTurn
    /\ turn' = Nobody
    /\ queue' = {}
    /\ UNCHANGED <<spawned, hp, ap, roundsToRevive, money, experience, scanning, target>>

\* The turn of n begins.
TurnBegins(n) ==
    /\ turn = Nobody
    /\ n \in Controlled \cap Present /\ IsAlive(n)
    /\ turn' = n
    /\ scanning' = (n \in Towers)
    /\ UNCHANGED <<spawned, hp, ap, roundsToRevive, money, experience, queue, target, result>>

Revived(n) == roundsToRevive[n] = 1

\* Characters that get their hit points and action points at the end of a round.
Refreshed == {n \in Present : roundsToRevive[n] \in {0, 1}}

\* Rules "EndRound" and "BeginRound": the dead come closer to their revival, the
\* living regenerate, and line creeps may spawn.
RoundPasses ==
    /\ turn = Nobody
    /\ \E new \in SUBSET (Creeps \ spawned) :
          /\ spawned' = spawned \cup new
          /\ roundsToRevive' = [n \in Characters |->
                IF n \in Present /\ roundsToRevive[n] > 0
                  THEN roundsToRevive[n] - 1 ELSE roundsToRevive[n]]
          /\ hp' = [n \in Characters |->
                IF n \in new \/ (n \in Present /\ Revived(n)) THEN MaxHP[n]
                ELSE IF n \in Refreshed
                  THEN IF hp[n] + HPGain[n] > MaxHP[n] THEN MaxHP[n] ELSE hp[n] + HPGain[n]
                ELSE hp[n]]
          /\ ap' = [n \in Characters |-> IF n \in new \cup Refreshed THEN MaxAP ELSE ap[n]]
    /\ UNCHANGED <<money, experience, turn, scanning, queue, target, result>>

-----------------------------------------------------------------------------
autoTower(t) == TowerScans(t) \/ TowerAims(t) \/ TowerAttacks(t) \/ TowerLetsGo(t)

Next ==
    \/ \E v \in Characters : PlayerAttacks(v)
    \/ \E c \in Creeps, v \in Characters : CreepAttacks(c, v)
    \/ \E n \in Characters : Walks(n) \/ TurnEnds(n) \/ TurnBegins(n)
    \/ \E t \in Towers : autoTower(t)
    \/ RoundPasses

\* The thread of a tower runs until its turn has ended.
Fairness == \A t \in Towers : WF_vars(autoTower(t) \/ TurnEnds(t))

Spec == Init /\ [][Next]_vars /\ Fairness

-----------------------------------------------------------------------------
\* Every variable keeps its type: in particular hit points and action points are
\* never negative, however attacks and revivals follow each other.
TypeOK ==
    /\ spawned \subseteq Creeps
    /\ hp \in [Characters -> Nat]
    /\ ap \in [Characters -> Nat]
    /\ roundsToRevive \in [Characters -> Int]
    /\ money \in [Heroes -> Nat]
    /\ experience \in [Heroes -> Int]
    /\ turn \in Controlled \cup {Nobody}
    /\ scanning \in BOOLEAN
    /\ queue \subseteq Characters
    /\ target \in Characters \cup {Nobody}
    /\ result \in {"none", "Win", "Lost"}

\* A registered character has hit points exactly if it is not waiting for its
\* revival and not destroyed: nobody is left with 0 hit points that no rule
\* ever revives or removes, and nobody waits while it can fight.
NoZombies == \A n \in Present : (hp[n] > 0) <=> (roundsToRevive[n] = 0)

Fallen(u) == ~IsAlive(u)

\* The front line holds: a tower has fallen only after the towers before it, a
\* barrack only after the towers of its front, an ancient only after everything
\* in its front; no order of attacks, of turns and of rounds gets around it.
FallInOrder ==
    /\ \A u, v \in Towers :
          Team[u] = Team[v] /\ Front[u] = Front[v] /\ Order[u] < Order[v] /\ Fallen(v) => Fallen(u)
    /\ \A v \in Barracks : Fallen(v) => \A u \in Strength(Team[v], Front[v]) \cap Towers : Fallen(u)
    /\ \A v \in Ancients : Fallen(v) => \A u \in Strength(Team[v], Front[v]) : Fallen(u)

\* The scene was told the truth: "Lost" only with the own ancient destroyed,
\* "Win" only with all the others destroyed, although the fight goes on after
\* the turn in which it was told.
VerdictIsRight ==
    /\ result = "Lost" => AncientFallen(Team[Player])
    /\ result = "Win" => ~EnemyAncientStands

\* Seen as a set of standing structures, the fights implement FrontLine: what is
\* destroyed stays destroyed, whatever regenerates and revives around it, no
\* attack destroys two structures, and none that is protected.
Line == INSTANCE FrontLine WITH standing <- {u \in Structures : IsAlive(u)}
LineHolds == Line!Spec

\* Who has lost has lost: destroying the other ancient later does not turn the
\* verdict.
LostIsFinal == [][result = "Lost" => result' = "Lost"]_vars

\* autoTower comes to its end, although an attack may do no damage: it runs out
\* of targets or of action points, and the next character gets its turn.
TowerRests == turn \in Towers ~> turn = Nobody

\* "Some money will be awarded to hero" for a kill (rules, 4.1 and 4.2): what a
\* hero does in its own turn costs it neither money nor experience.
KillsAreRewarded ==
    [][\A h \in Heroes : turn = h =>
          money'[h] >= money[h] /\ experience'[h] >= experience[h]]_vars

\* "The killed hero will respawn after a certain round (deathcount = 2 * hero's
\* level)" (rules, 4.2): nothing makes the dead wait longer.
WaitingGetsShorter ==
    [][\A h \in Heroes : roundsToRevive[h] > 0 => roundsToRevive'[h] <= roundsToRevive[h]]_vars
=============================================================================
