-------------------------------- MODULE Waves --------------------------------
(***************************************************************************)
(* The line creeps of rule "BeginRound": how many spawn in which round, at *)
(* which level and with which of the two configurations, and what the      *)
(* loss of a barrack does to the creeps of the other team.                 *)
(***************************************************************************)
EXTENDS Integers

CONSTANTS Fronts,                \* 0 .. n, in the order they are served
          MeleeEvery, SiegeEvery,  \* "round" of the creepSpawnType entries
          Initial, Maximum, IncreaseEvery,  \* of every species
          LevelUpEvery, MaxLevel,  \* creepLevelUpRound, creepMaximumLevel
          LastRound              \* bound of the exploration

Teams == {1, 2}
Species == {"melee", "ranged", "siege"}
BarrackTypes == {"melee", "ranged"}

ASSUME WavesAssumption ==
    /\ Fronts \subseteq Nat /\ 0 \in Fronts
    /\ {MeleeEvery, SiegeEvery, LevelUpEvery} \subseteq Nat \ {0, 1}
    /\ {MaxLevel, LastRound} \subseteq Nat \ {0}
    /\ {Initial, Maximum, IncreaseEvery} \subseteq [Species -> Nat \ {0}]

VARIABLES
    roundCount,
    barracks,     \* those that are alive: team, front, type
    creepLevel,   \* teamCreepLevel, which has the types of barracks as keys
    wave,         \* what a front was last given of a species
    failure       \* the exception BeginRound has thrown, if any

wavesVars == <<roundCount, barracks, creepLevel, wave, failure>>

NoWave == [size |-> 0, level |-> 0, upgraded |-> FALSE]

WavesInit ==
    /\ roundCount = 1
    /\ barracks = Teams \X Fronts \X BarrackTypes
    /\ creepLevel = [i \in Teams |-> [f \in Fronts |-> [s \in BarrackTypes |-> 1]]]
    /\ wave = [i \in Teams |-> [f \in Fronts |-> [s \in Species |-> NoWave]]]
    /\ failure = "none"

-----------------------------------------------------------------------------
Every(species) == IF species = "siege" THEN SiegeEvery ELSE MeleeEvery

\* Mutant of Size: the remainder where the quotient is meant.
MutantSize(species, round) ==
    LET grown == Initial[species] + (round % IncreaseEvery[species])
    IN  IF grown > Maximum[species] THEN Maximum[species] ELSE grown

\* Math.min(maximum, initial + roundCount / increaseRound)
Size(species, round) ==
    LET grown == Initial[species] + (round \div IncreaseEvery[species])
    IN  IF grown > Maximum[species] THEN Maximum[species] ELSE grown

\* The barrack of the other team has fallen; with no barrack of that type the
\* flag keeps its initial value, which is the same.
BarrackLost(i, front, type) == <<3 - i, front, type>> \notin barracks

\* melee && meleeUpgraded || ranged || siege && rangedUpgraded: as Java reads it.
Upgraded(i, front, species) ==
    \/ species = "melee" /\ BarrackLost(i, front, "melee")
    \/ species = "ranged"
    \/ species = "siege" /\ BarrackLost(i, front, "ranged")

\* No barrack of the other team survives in this front.
NoneSurvives(i, front) == \A type \in BarrackTypes : BarrackLost(i, front, type)

\* Mutant of LevelledUp: no Math.min.
MutantLevelledUp(i, front, species, round) ==
    IF round % LevelUpEvery = 0 THEN creepLevel[i][front][species] + 1
                                ELSE creepLevel[i][front][species]

\* The level of a front after its own level-up: Math.min(maximum, level + 1).
LevelledUp(i, front, species, round) ==
    LET level == creepLevel[i][front][species]
    IN  IF round % LevelUpEvery = 0 /\ level < MaxLevel THEN level + 1 ELSE level

\* Mutant of LevelAt: the maximum only for the front that lost its barracks.
MutantLevelAt(i, front, species, round, served) ==
    IF front \in served /\ NoneSurvives(i, front) THEN MaxLevel
    ELSE IF front \in served THEN LevelledUp(i, front, species, round)
    ELSE creepLevel[i][front][species]

\* The fronts are served in turn; one without surviving barracks lifts all
\* fronts of the team to the maximum, those served before for the next round.
LevelAt(i, front, species, round, served) ==
    IF \E g \in served : NoneSurvives(i, g) THEN MaxLevel
    ELSE IF front \in served THEN LevelledUp(i, front, species, round)
    ELSE creepLevel[i][front][species]

UpTo(front) == {g \in Fronts : g <= front}

\* One front of team i gets its creeps of one species.
WaveOf(i, front, species, round) ==
    [size |-> Size(species, round),
     level |-> LevelAt(i, front, species, round, UpTo(front)),
     upgraded |-> Upgraded(i, front, species)]

\* The levels after the given fronts have been served.
Levels(served, round) ==
    [i \in Teams |-> [f \in Fronts |-> [s \in BarrackTypes |->
        LevelAt(i, f, s, round, served[i])]]]

\* The waves after the given fronts have got their melee and ranged creeps.
Wave(served, round) ==
    [i \in Teams |-> [f \in Fronts |-> [s \in Species |->
        IF f \in served[i] /\ s # "siege" /\ round % Every(s) = 0
          THEN WaveOf(i, f, s, round) ELSE wave[i][f][s]]]]

\* Rule "BeginRound" in a round without siege creeps.
BeginRound ==
    /\ failure = "none" /\ roundCount < LastRound
    /\ roundCount' = roundCount + 1
    /\ roundCount' % SiegeEvery # 0
    /\ LET all == [i \in Teams |-> Fronts]
       IN  creepLevel' = Levels(all, roundCount') /\ wave' = Wave(all, roundCount')
    /\ UNCHANGED <<barracks, failure>>

\* Rule "BeginRound" in a round with siege creeps: teamCreepLevel has no level of
\* that species, and to unbox the null throws when the first front is served.
BeginSiegeRound ==
    /\ failure = "none" /\ roundCount < LastRound
    /\ roundCount' = roundCount + 1
    /\ roundCount' % SiegeEvery = 0
    /\ LET first == [i \in Teams |-> IF i = 1 THEN {0} ELSE {}]
       IN  creepLevel' = Levels(first, roundCount') /\ wave' = Wave(first, roundCount')
    /\ failure' = "null"
    /\ UNCHANGED barracks

\* A barrack is destroyed (Combat).
BarrackFalls(b) ==
    /\ b \in barracks /\ failure = "none"
    /\ barracks' = barracks \ {b}
    /\ UNCHANGED <<roundCount, creepLevel, wave, failure>>

WavesNext == BeginRound \/ BeginSiegeRound \/ \E b \in barracks : BarrackFalls(b)

WavesSpec == WavesInit /\ [][WavesNext]_wavesVars

-----------------------------------------------------------------------------
\* Every variable keeps its type; levels stay within creepMaximumLevel.
WavesTypeOK ==
    /\ roundCount \in 1 .. LastRound
    /\ barracks \subseteq Teams \X Fronts \X BarrackTypes
    /\ creepLevel \in [Teams -> [Fronts -> [BarrackTypes -> 1 .. MaxLevel]]]
    /\ wave \in [Teams -> [Fronts -> [Species ->
                   [size : Nat, level : 0 .. MaxLevel, upgraded : BOOLEAN]]]]
    /\ failure \in {"none", "null"}

\* The war escalates: whatever rounds and barracks come in between, what a front
\* is given is never fewer, of a lower level or of a lesser kind than before.
WavesNeverWeaken ==
    [][\A i \in Teams, f \in Fronts, s \in Species :
          /\ wave'[i][f][s].size >= wave[i][f][s].size
          /\ wave'[i][f][s].level >= wave[i][f][s].level
          /\ wave[i][f][s].upgraded => wave'[i][f][s].upgraded]_wavesVars

\* The fronts of a team level up one by one, and the one whose opponent has lost
\* its barracks writes into all of them: after a round that ends without an
\* exception all fronts have the same level, whichever front made the gain.
FrontsKeepPace ==
    failure = "none" =>
        \A i \in Teams, f, g \in Fronts, s \in BarrackTypes :
            creepLevel[i][f][s] = creepLevel[i][g][s]

\* "each wave consists: 3 meele + 1 ranged + 1 siege" (rules, 6.2): the siege
\* rounds bring a siege creep to every front.
SiegeCreepsSpawn ==
    roundCount % SiegeEvery = 0 =>
        \A i \in Teams, f \in Fronts : wave[i][f]["siege"].size > 0
=============================================================================
