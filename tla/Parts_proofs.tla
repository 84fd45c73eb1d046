----------------------------- MODULE Parts_proofs -----------------------------
(***************************************************************************)
(* Proofs about what is around the game, one part after the other: the     *)
(* waves, the scenes, the sound engine, the resources, the script engine.  *)
(* The desktop edition has a module of its own; the last theorem composes  *)
(* all of them.  What each part's properties rest on:                      *)
(*  - waves: how the last wave of a front was made, no larger than the     *)
(*    present round would make it, no higher than the present level, and   *)
(*    upgraded only if it would be now (Recorded);                         *)
(*  - scenes: which renderer the manager speaks to, and what a touch that  *)
(*    closes a game has in its hand (ManagerInv, TouchInv, GameInv);       *)
(*  - sound: a statement of the destructor may take a parent away for what *)
(*    the statements before it have taken (DestructorInv), and the queue   *)
(*    dies with its player before the memory is freed (QueueInv);          *)
(*  - resources: whose handlers the maps can hold (HandlerInv), those of   *)
(*    objects generated so far on the rendering thread, garbage otherwise; *)
(*  - script engine: only the owner of its lock has come back into it, as  *)
(*    often as its stack is deep (StackInv).                               *)
(***************************************************************************)
EXTENDS MCParts, Desktop_proofs, TLAPS

-----------------------------------------------------------------------------
(* Waves.                                                                  *)

\* What a front was given last is within what it would be given now.
Recorded ==
    \A i \in Teams, f \in Fronts, s \in Species :
        /\ wave[i][f][s].size <= Size(s, roundCount)
        /\ s = "siege" => wave[i][f][s] = NoWave
        /\ s # "siege" => wave[i][f][s].level <= creepLevel[i][f][s]
        /\ wave[i][f][s].upgraded => Upgraded(i, f, s)

WavesInv == WavesTypeOK /\ Recorded

Escalates ==
    \A i \in Teams, f \in Fronts, s \in Species :
        /\ wave'[i][f][s].size >= wave[i][f][s].size
        /\ wave'[i][f][s].level >= wave[i][f][s].level
        /\ wave[i][f][s].upgraded => wave'[i][f][s].upgraded

-----------------------------------------------------------------------------
\* The integer quotient of the next number is no smaller.
LEMMA QuotientGrows ==
    ASSUME NEW n \in Nat, NEW k \in Nat \ {0}
    PROVE  n \div k \in Nat /\ n \div k <= (n + 1) \div k
<1>1. /\ n \div k \in Int /\ n % k \in 0 .. k - 1
      /\ n = k * (n \div k) + (n % k)
  OBVIOUS
<1>2. /\ (n + 1) \div k \in Int /\ (n + 1) % k \in 0 .. k - 1
      /\ n + 1 = k * ((n + 1) \div k) + ((n + 1) % k)
  OBVIOUS
<1> DEFINE a == n \div k
           b == (n + 1) \div k
<1>3. n \div k \in Nat
  <2>1. a < 0 => k * a <= -k
    BY <1>1, SMTT(30)
  <2>. QED  BY <1>1, <2>1
<1>4. a <= b
  <2>1. ASSUME b <= a - 1 PROVE k * b <= k * a - k
    BY <1>1, <1>2, <2>1, SMTT(30)
  <2>. QED  BY <1>1, <1>2, <2>1
<1>. QED  BY <1>3, <1>4

\* A later wave of a species has as many creeps or more.
LEMMA SizeGrows ==
    ASSUME NEW s \in Species, NEW n \in Nat
    PROVE  Size(s, n) \in Nat /\ Size(s, n) <= Size(s, n + 1)
<1>1. IncreaseEvery[s] \in Nat \ {0} /\ Initial[s] \in Nat /\ Maximum[s] \in Nat
  BY WavesAssumption
<1> DEFINE q(m) == m \div IncreaseEvery[s]
<1>2. q(n) \in Nat /\ q(n) <= q(n + 1)
  BY <1>1, QuotientGrows
<1>3. q(n + 1) \in Nat
  BY <1>1, QuotientGrows
<1> HIDE DEF q
<1>4. \A m : Size(s, m) = IF Initial[s] + q(m) > Maximum[s] THEN Maximum[s] ELSE Initial[s] + q(m)
  BY DEF Size, q
<1>. QED  BY <1>1, <1>2, <1>3, <1>4

\* The level of a front stays within its bounds and never falls.
LEMMA LevelGrows ==
    ASSUME WavesTypeOK, NEW i \in Teams, NEW f \in Fronts, NEW s \in BarrackTypes,
           NEW round, NEW served
    PROVE  /\ LevelAt(i, f, s, round, served) \in 1 .. MaxLevel
           /\ creepLevel[i][f][s] \in 1 .. MaxLevel
           /\ LevelAt(i, f, s, round, served) >= creepLevel[i][f][s]
<1>1. creepLevel[i][f][s] \in 1 .. MaxLevel /\ MaxLevel \in Nat \ {0}
  BY WavesAssumption DEF WavesTypeOK
<1>2. /\ LevelledUp(i, f, s, round) \in 1 .. MaxLevel
      /\ LevelledUp(i, f, s, round) >= creepLevel[i][f][s]
  BY <1>1 DEF LevelledUp
<1>. QED  BY <1>1, <1>2 DEF LevelAt

\* The more fronts have been served, the higher is the level.
LEMMA LevelGrowsWithin ==
    ASSUME WavesTypeOK, NEW i \in Teams, NEW f \in Fronts, NEW s \in BarrackTypes,
           NEW round, NEW S, NEW T, S \subseteq T
    PROVE  LevelAt(i, f, s, round, S) <= LevelAt(i, f, s, round, T)
<1>1. creepLevel[i][f][s] \in 1 .. MaxLevel /\ MaxLevel \in Nat \ {0}
  BY WavesAssumption DEF WavesTypeOK
<1>2. /\ LevelledUp(i, f, s, round) \in 1 .. MaxLevel
      /\ LevelledUp(i, f, s, round) >= creepLevel[i][f][s]
  BY <1>1 DEF LevelledUp
<1>. QED  BY <1>1, <1>2 DEF LevelAt

-----------------------------------------------------------------------------
LEMMA WavesInitInv == WavesInit => WavesInv
<1>. SUFFICES ASSUME WavesInit PROVE WavesInv
  OBVIOUS
<1>1. WavesTypeOK
  BY WavesAssumption DEF WavesInit, WavesTypeOK, NoWave, Teams, Species, BarrackTypes
<1>2. ASSUME NEW i \in Teams, NEW f \in Fronts, NEW s \in Species
      PROVE  /\ wave[i][f][s] = NoWave
             /\ s # "siege" => creepLevel[i][f][s] = 1
  BY DEF WavesInit, Species, BarrackTypes
<1>3. \A s \in Species : 0 <= Size(s, roundCount)
  BY SizeGrows DEF WavesInit
<1>. QED  BY <1>1, <1>2, <1>3 DEF WavesInv, Recorded, NoWave

\* What both forms of rule "BeginRound" do: the fronts in served[i] get their wave.
LEMMA ServedInv ==
    ASSUME WavesInv, NEW served \in [Teams -> SUBSET Fronts],
           \A i \in Teams : \A f \in served[i] : UpTo(f) \subseteq served[i],
           roundCount < LastRound, roundCount' = roundCount + 1,
           creepLevel' = Levels(served, roundCount'), wave' = Wave(served, roundCount'),
           barracks' = barracks, failure' \in {"none", "null"}
    PROVE  WavesInv' /\ Escalates
<1> DEFINE n == roundCount + 1
<1>1. /\ roundCount \in Nat /\ n \in Nat /\ n \in 1 .. LastRound /\ roundCount' = n
      /\ MaxLevel \in Nat \ {0}
  BY WavesAssumption DEF WavesInv, WavesTypeOK
<1> HIDE DEF n
<1>2. ASSUME NEW i \in Teams, NEW f \in Fronts, NEW s \in BarrackTypes
      PROVE  /\ creepLevel'[i][f][s] = LevelAt(i, f, s, n, served[i])
             /\ creepLevel'[i][f][s] \in 1 .. MaxLevel
             /\ creepLevel[i][f][s] \in 1 .. MaxLevel
             /\ creepLevel'[i][f][s] >= creepLevel[i][f][s]
  <2>1. creepLevel'[i][f][s] = LevelAt(i, f, s, n, served[i])
    BY <1>1 DEF Levels
  <2>. QED  BY <2>1, LevelGrows DEF WavesInv
<1>3. ASSUME NEW i \in Teams, NEW f \in Fronts, NEW s \in Species
      PROVE  \/ wave'[i][f][s] = wave[i][f][s]
             \/ /\ f \in served[i] /\ s \in BarrackTypes
                /\ wave'[i][f][s].size = Size(s, n)
                /\ wave'[i][f][s].level = LevelAt(i, f, s, n, UpTo(f))
                /\ wave'[i][f][s].upgraded = Upgraded(i, f, s)
                /\ wave'[i][f][s] = WaveOf(i, f, s, n)
  BY <1>1 DEF Wave, WaveOf, Species, BarrackTypes
<1>4. ASSUME NEW i \in Teams, NEW f \in Fronts, NEW s \in Species
      PROVE  wave[i][f][s] \in [size : Nat, level : 0 .. MaxLevel, upgraded : BOOLEAN]
  BY DEF WavesInv, WavesTypeOK
<1>5. ASSUME NEW s \in Species
      PROVE  Size(s, roundCount) \in Nat /\ Size(s, n) \in Nat /\ Size(s, roundCount) <= Size(s, n)
  BY <1>1, SizeGrows DEF n
<1>6. ASSUME NEW i \in Teams, NEW f \in Fronts, NEW s \in BarrackTypes, f \in served[i]
      PROVE  /\ LevelAt(i, f, s, n, UpTo(f)) \in 1 .. MaxLevel
             /\ LevelAt(i, f, s, n, UpTo(f)) >= creepLevel[i][f][s]
             /\ LevelAt(i, f, s, n, UpTo(f)) <= creepLevel'[i][f][s]
  <2>1. UpTo(f) \subseteq served[i]
    BY <1>6
  <2>. QED  BY <1>2, <2>1, LevelGrows, LevelGrowsWithin DEF WavesInv
<1>7. \A i \in Teams, f \in Fronts, s \in Species : Upgraded(i, f, s)' = Upgraded(i, f, s)
  BY DEF Upgraded, BarrackLost
<1>8. ASSUME NEW i \in Teams, NEW f \in Fronts, NEW s \in Species
      PROVE  /\ wave'[i][f][s].size <= Size(s, n)
             /\ s = "siege" => wave'[i][f][s] = NoWave
             /\ s # "siege" => wave'[i][f][s].level <= creepLevel'[i][f][s]
             /\ wave'[i][f][s].upgraded => Upgraded(i, f, s)'
             /\ wave'[i][f][s].size >= wave[i][f][s].size
             /\ wave'[i][f][s].level >= wave[i][f][s].level
             /\ wave[i][f][s].upgraded => wave'[i][f][s].upgraded
             /\ wave'[i][f][s] \in [size : Nat, level : 0 .. MaxLevel, upgraded : BOOLEAN]
  <2>1. /\ wave[i][f][s].size \in Nat /\ wave[i][f][s].level \in 0 .. MaxLevel
        /\ wave[i][f][s].upgraded \in BOOLEAN
    BY <1>4
  <2>2. /\ wave[i][f][s].size <= Size(s, roundCount)
        /\ s = "siege" => wave[i][f][s] = NoWave
        /\ s # "siege" => wave[i][f][s].level <= creepLevel[i][f][s]
        /\ wave[i][f][s].upgraded => Upgraded(i, f, s)
    BY DEF WavesInv, Recorded
  <2>3. s # "siege" => s \in BarrackTypes
    BY DEF Species, BarrackTypes
  <2>4. CASE wave'[i][f][s] = wave[i][f][s]
    <3>1. s # "siege" => wave[i][f][s].level <= creepLevel'[i][f][s]
      BY <1>1, <1>2, <2>1, <2>2, <2>3
    <3>2. wave[i][f][s].size <= Size(s, n)
      BY <1>5, <2>1, <2>2
    <3>. QED  BY <1>4, <1>7, <2>1, <2>2, <2>4, <3>1, <3>2
  <2>5. CASE /\ f \in served[i] /\ s \in BarrackTypes
             /\ wave'[i][f][s].size = Size(s, n)
             /\ wave'[i][f][s].level = LevelAt(i, f, s, n, UpTo(f))
             /\ wave'[i][f][s].upgraded = Upgraded(i, f, s)
             /\ wave'[i][f][s] = WaveOf(i, f, s, n)
    <3>1. s # "siege"
      BY <2>5 DEF BarrackTypes
    <3>2. /\ LevelAt(i, f, s, n, UpTo(f)) \in 1 .. MaxLevel
          /\ LevelAt(i, f, s, n, UpTo(f)) >= creepLevel[i][f][s]
          /\ LevelAt(i, f, s, n, UpTo(f)) <= creepLevel'[i][f][s]
          /\ creepLevel[i][f][s] \in 1 .. MaxLevel
      BY <1>2, <1>6, <2>5
    <3>3. wave'[i][f][s].level >= wave[i][f][s].level
      BY <1>1, <2>1, <2>2, <2>5, <3>1, <3>2
    <3>4. wave'[i][f][s].size >= wave[i][f][s].size /\ wave'[i][f][s].size <= Size(s, n)
      BY <1>5, <2>1, <2>2, <2>5
    <3>5. wave'[i][f][s] \in [size : Nat, level : 0 .. MaxLevel, upgraded : BOOLEAN]
      <4>1. Upgraded(i, f, s) \in BOOLEAN
        BY DEF Upgraded
      <4>2. LevelAt(i, f, s, n, UpTo(f)) \in 0 .. MaxLevel
        BY <1>1, <3>2
      <4>. QED  BY <1>5, <2>5, <4>1, <4>2 DEF WaveOf
    <3>6. /\ wave'[i][f][s].upgraded => Upgraded(i, f, s)'
          /\ wave[i][f][s].upgraded => wave'[i][f][s].upgraded
      BY <1>7, <2>2, <2>5
    <3>. QED  BY <2>5, <3>1, <3>2, <3>3, <3>4, <3>5, <3>6
  <2>. QED  BY <1>3, <2>4, <2>5
<1>9. WavesTypeOK'
  <2>1. creepLevel' \in [Teams -> [Fronts -> [BarrackTypes -> 1 .. MaxLevel]]]
    BY <1>2 DEF Levels
  <2>2. wave' \in [Teams -> [Fronts -> [Species ->
                     [size : Nat, level : 0 .. MaxLevel, upgraded : BOOLEAN]]]]
    BY <1>8 DEF Wave
  <2>. QED  BY <1>1, <2>1, <2>2 DEF WavesInv, WavesTypeOK
<1>10. Recorded'
  <2>1. \A s \in Species : Size(s, roundCount)' = Size(s, n)
    BY <1>1 DEF Size
  <2>. QED  BY <1>8, <2>1 DEF Recorded
<1>. QED  BY <1>8, <1>9, <1>10 DEF WavesInv, Escalates

LEMMA WavesNextInv == WavesInv /\ [WavesNext]_wavesVars => WavesInv' /\ (Escalates \/ UNCHANGED wavesVars)
<1>. SUFFICES ASSUME WavesInv, [WavesNext]_wavesVars PROVE WavesInv' /\ (Escalates \/ UNCHANGED wavesVars)
  OBVIOUS
<1>1. CASE BeginRound
  <2> DEFINE all == [i \in Teams |-> Fronts]
  <2>1. /\ all \in [Teams -> SUBSET Fronts]
        /\ \A i \in Teams : \A f \in all[i] : UpTo(f) \subseteq all[i]
    BY DEF UpTo
  <2>2. /\ creepLevel' = Levels(all, roundCount') /\ wave' = Wave(all, roundCount')
        /\ failure' \in {"none", "null"} /\ barracks' = barracks
        /\ roundCount < LastRound /\ roundCount' = roundCount + 1
    BY <1>1 DEF BeginRound
  <2> HIDE DEF all
  <2>. QED  BY <2>1, <2>2, ServedInv
<1>2. CASE BeginSiegeRound
  <2> DEFINE first == [i \in Teams |-> IF i = 1 THEN {0} ELSE {}]
  <2>1. /\ first \in [Teams -> SUBSET Fronts]
        /\ \A i \in Teams : \A f \in first[i] : UpTo(f) \subseteq first[i]
    <3>1. UpTo(0) \subseteq {0}
      <4>1. Fronts \subseteq Nat
        BY WavesAssumption
      <4>2. \A g \in Fronts : g <= 0 => g = 0
        BY <4>1
      <4>. QED  BY <4>2 DEF UpTo
    <3>2. first \in [Teams -> SUBSET Fronts]
      BY WavesAssumption
    <3>3. \A i \in Teams : first[i] \subseteq {0} /\ (first[i] = {} \/ first[i] = {0})
      OBVIOUS
    <3>. QED  BY <3>1, <3>2, <3>3
  <2>2. /\ creepLevel' = Levels(first, roundCount') /\ wave' = Wave(first, roundCount')
        /\ failure' \in {"none", "null"} /\ barracks' = barracks
        /\ roundCount < LastRound /\ roundCount' = roundCount + 1
    BY <1>2 DEF BeginSiegeRound
  <2> HIDE DEF first
  <2>. QED  BY <2>1, <2>2, ServedInv
<1>3. ASSUME NEW b \in barracks, BarrackFalls(b) PROVE WavesInv' /\ Escalates
  <2>1. /\ wave' = wave /\ creepLevel' = creepLevel /\ roundCount' = roundCount
        /\ failure' = failure /\ barracks' \subseteq barracks
    BY <1>3 DEF BarrackFalls
  <2>2. WavesTypeOK'
    BY <2>1 DEF WavesInv, WavesTypeOK
  <2>3. \A i \in Teams, f \in Fronts, s \in Species : Upgraded(i, f, s) => Upgraded(i, f, s)'
    BY <2>1 DEF Upgraded, BarrackLost
  <2>4. \A s \in Species : Size(s, roundCount)' = Size(s, roundCount)
    BY <2>1 DEF Size
  <2>5. Recorded'
    BY <2>1, <2>3, <2>4 DEF WavesInv, Recorded
  <2>6. \A i \in Teams, f \in Fronts, s \in Species :
            wave[i][f][s] \in [size : Nat, level : 0 .. MaxLevel, upgraded : BOOLEAN]
    BY DEF WavesInv, WavesTypeOK
  <2>7. Escalates
    <3>1. \A i \in Teams, f \in Fronts, s \in Species :
              wave[i][f][s].size \in Int /\ wave[i][f][s].level \in Int
      BY <2>6
    <3>2. \A n \in Int : n >= n
      OBVIOUS
    <3>. QED  BY <2>1, <3>1, <3>2 DEF Escalates
  <2>. QED  BY <2>2, <2>5, <2>7 DEF WavesInv
<1>4. CASE UNCHANGED wavesVars
  BY <1>4 DEF wavesVars, WavesInv, WavesTypeOK, Recorded, Size, Upgraded, BarrackLost
<1>. QED  BY <1>1, <1>2, <1>3, <1>4 DEF WavesNext

-----------------------------------------------------------------------------
\* The type invariant: levels are between 1 and creepMaximumLevel.
THEOREM WavesTypeCorrect == WavesSpec => []WavesTypeOK
<1>1. WavesInv => WavesTypeOK
  BY DEF WavesInv
<1>. QED  BY WavesInitInv, WavesNextInv, <1>1, PTL DEF WavesSpec

\* However rounds and losses of barracks follow each other, no wave that
\* BeginRound gives a front is weaker than the one before.
THEOREM Escalation == WavesSpec => WavesNeverWeaken
<1>1. WavesInv /\ [WavesNext]_wavesVars => [Escalates]_wavesVars
  BY WavesNextInv
<1>2. [Escalates]_wavesVars <=> [\A i \in Teams, f \in Fronts, s \in Species :
          /\ wave'[i][f][s].size >= wave[i][f][s].size
          /\ wave'[i][f][s].level >= wave[i][f][s].level
          /\ wave[i][f][s].upgraded => wave'[i][f][s].upgraded]_wavesVars
  BY DEF Escalates
<1>. QED  BY WavesInitInv, WavesNextInv, <1>1, <1>2, PTL DEF WavesSpec, WavesNeverWeaken

\* The levels of all fronts of a team are equal after every round that is complete.
\* Nothing is said of the middle of a round, where a front that comes later may raise
\* the levels of those that have spawned already.
THEOREM FrontsStayEqual == WavesSpec => []FrontsKeepPace
<1>1. WavesInit => FrontsKeepPace
  BY DEF WavesInit, FrontsKeepPace
<1>2. WavesInv /\ FrontsKeepPace /\ [WavesNext]_wavesVars => FrontsKeepPace'
  <2>. SUFFICES ASSUME WavesInv, FrontsKeepPace, [WavesNext]_wavesVars PROVE FrontsKeepPace'
    OBVIOUS
  <2>1. CASE BeginRound
    <3>1. \A i \in Teams, f \in Fronts, s \in BarrackTypes :
              creepLevel'[i][f][s] = LevelAt(i, f, s, roundCount', Fronts)
      BY <2>1 DEF BeginRound, Levels
    <3>2. \A i \in Teams, f, g \in Fronts, s \in BarrackTypes :
              creepLevel[i][f][s] = creepLevel[i][g][s]
      BY <2>1 DEF BeginRound, FrontsKeepPace
    <3>3. \A i \in Teams, f, g \in Fronts, s \in BarrackTypes :
              LevelAt(i, f, s, roundCount', Fronts) = LevelAt(i, g, s, roundCount', Fronts)
      BY <3>2 DEF LevelAt, LevelledUp
    <3>. QED  BY <3>1, <3>3 DEF FrontsKeepPace
  <2>2. CASE BeginSiegeRound
    BY <2>2 DEF BeginSiegeRound, FrontsKeepPace
  <2>3. ASSUME NEW b \in barracks, BarrackFalls(b) PROVE FrontsKeepPace'
    BY <2>3 DEF BarrackFalls, FrontsKeepPace
  <2>4. CASE UNCHANGED wavesVars
    BY <2>4 DEF wavesVars, FrontsKeepPace
  <2>. QED  BY <2>1, <2>2, <2>3, <2>4 DEF WavesNext
<1>. QED  BY WavesInitInv, WavesNextInv, <1>1, <1>2, PTL DEF WavesSpec

-----------------------------------------------------------------------------
(* Scenes.                                                                 *)


Booleans ==
    /\ surface \in BOOLEAN /\ currentState \in BOOLEAN /\ initialised \in BOOLEAN
    /\ over \in BOOLEAN /\ shown \in BOOLEAN

\* The types, where a renderer that is made has a scene, and which renderers are known.
SceneTypes ==
    /\ Booleans
    /\ renderer \in Renderers
    /\ sceneName \in [Renderers -> SceneNames \cup {"none"}]
    /\ readyState \in [Renderers -> {"null", "notTested", "Verified"}]
    /\ currentScene \in SceneNames
    /\ application \in 1..renderer /\ gameScene \in 0..renderer
    /\ turn \in {"player", "automaton", "verdict"}
    /\ ui \in {"idle", "back", "stop"}
    /\ sceneFailure \in {"none", "no game"}

\* The manager and its renderer agree on the scene.  They are not the present ones
\* when a game has reported its end to an earlier renderer.
ManagerInv ==
    /\ sceneName[application] = currentScene /\ sceneName[renderer] # "none"
    /\ application # renderer =>
          \/ currentScene = "Statistics" /\ sceneName[renderer] # "Welcome"
          \/ currentScene = "Welcome" /\ sceneName[renderer] = "Statistics"

TouchInv ==
    /\ touched = IF ui = "back" THEN renderer ELSE 0
    /\ ui = "back" => /\ surface /\ shown
                     /\ currentScene = "Statistics" /\ sceneName[renderer] = "Statistics"
    /\ ui = "stop" => ~shown

GameInv ==
    /\ turn # "player" => initialised
    /\ initialised => gameScene # 0 /\ sceneName[renderer] # "Welcome" /\ currentScene # "Welcome"
    /\ sceneName[renderer] = "Game" /\ readyState[renderer] # "null" =>
          currentState /\ (surface /\ (shown \/ ui = "stop") => initialised)

SceneInv ==
    /\ SceneTypes /\ ManagerInv /\ TouchInv /\ GameInv
    /\ GameBehindScene /\ StatisticsOfAnEnd /\ ButtonsReachTheirScene

LEMMA SceneInitInv == ScenesInit => SceneInv
<1>. SUFFICES ASSUME ScenesInit PROVE SceneInv
  OBVIOUS
<1>1. 1 \in Renderers
  BY ScenesAssumption DEF Renderers
<1>2. SceneTypes
  <2>1. Booleans
    BY DEF ScenesInit, Booleans
  <2>2. /\ sceneName \in [Renderers -> SceneNames \cup {"none"}]
        /\ readyState \in [Renderers -> {"null", "notTested", "Verified"}]
    BY DEF ScenesInit, SceneNames
  <2>3. /\ application \in 1..renderer /\ gameScene \in 0..renderer /\ renderer \in Renderers
        /\ currentScene \in SceneNames
    BY <1>1 DEF ScenesInit, SceneNames
  <2>. QED  BY <2>1, <2>2, <2>3 DEF ScenesInit, SceneTypes
<1>3. ManagerInv
  BY <1>1 DEF ScenesInit, ManagerInv
<1>. QED
  BY <1>1, <1>2, <1>3 DEF ScenesInit, SceneInv, TouchInv, GameInv, Unharmed,
                           GameBehindScene, StatisticsOfAnEnd, ButtonsReachTheirScene

LEMMA SceneNextInv == SceneInv /\ [ScenesNext]_sceneVars => SceneInv'
<1>. SUFFICES ASSUME SceneInv, [ScenesNext]_sceneVars PROVE SceneInv'
  OBVIOUS
<1>. USE ScenesAssumption
         DEF SceneInv, SceneTypes, Booleans, ManagerInv, TouchInv, GameInv,
             GameBehindScene, StatisticsOfAnEnd, ButtonsReachTheirScene,
             Renderers, SceneNames, Unharmed, gameVars, screenVars
<1>1. CASE onSurfaceChanged
  <2>. USE <1>1 DEF onSurfaceChanged, switchScene
  <2>1. SceneTypes'
    OBVIOUS
  <2>2. ManagerInv'
    OBVIOUS
  <2>3. TouchInv'
    OBVIOUS
  <2>4. GameInv'
    OBVIOUS
  <2>5. GameBehindScene' /\ StatisticsOfAnEnd' /\ ButtonsReachTheirScene'
    OBVIOUS
  <2>. QED  BY <2>1, <2>2, <2>3, <2>4, <2>5
<1>2. CASE PrepareScene
  BY <1>2 DEF PrepareScene, MayDraw
<1>3. CASE PrepareGame
  <2>. USE <1>3 DEF PrepareGame, MayDraw
  <2>1. SceneTypes'
    OBVIOUS
  <2>2. ManagerInv'
    OBVIOUS
  <2>3. TouchInv'
    OBVIOUS
  <2>4. GameInv'
    OBVIOUS
  <2>5. GameBehindScene' /\ StatisticsOfAnEnd' /\ ButtonsReachTheirScene'
    OBVIOUS
  <2>. QED  BY <2>1, <2>2, <2>3, <2>4, <2>5
<1>4. CASE Verify
  <2>. USE <1>4 DEF Verify, MayDraw
  <2>1. sceneFailure' = "none" \/ (sceneFailure' = "no game" /\ ~shown /\ surface /\ ui = "idle")
    BY DEF LooksAtGame, OpenGame
  <2>2. sceneName[renderer] = "Game" /\ readyState'[renderer] # "null" => readyState[renderer] # "null"
    OBVIOUS
  <2>3. SceneTypes' /\ ManagerInv' /\ TouchInv'
    BY <2>1
  <2>4. GameInv'
    BY <2>2
  <2>5. GameBehindScene' /\ StatisticsOfAnEnd' /\ ButtonsReachTheirScene'
    BY <2>1
  <2>. QED  BY <2>3, <2>4, <2>5
<1>5. CASE draw
  <2>. USE <1>5 DEF draw, MayDraw
  <2>1. sceneFailure' = "none" \/ (sceneFailure' = "no game" /\ ~shown /\ surface /\ ui = "idle")
    BY DEF LooksAtGame, OpenGame
  <2>. QED  BY <2>1
<1>6. CASE NewGame
  <2>1. CASE sceneName[application] = "Welcome"
    <3>. USE <1>6, <2>1 DEF NewGame, MayTouch, switchScene
    <3>1. SceneTypes'
      OBVIOUS
    <3>2. ManagerInv' /\ TouchInv'
      OBVIOUS
    <3>3. GameInv'
      OBVIOUS
    <3>4. GameBehindScene' /\ StatisticsOfAnEnd' /\ ButtonsReachTheirScene'
      OBVIOUS
    <3>. QED  BY <3>1, <3>2, <3>3, <3>4
  <2>2. CASE sceneName[application] # "Welcome"
    <3>1. UNCHANGED <<renderer, surface, screenVars, gameScene, gameVars, ui, touched, shown>> /\ Ignored
      BY <1>6, <2>2 DEF NewGame
    <3>2. sceneName[application] # "Game"
      BY <1>6, <2>2 DEF NewGame, MayTouch
    <3>3. sceneFailure' = "none"
      BY <3>1, <3>2 DEF Ignored
    <3>. USE <3>1, <3>3
    <3>4. SceneTypes' /\ ManagerInv' /\ TouchInv'
      OBVIOUS
    <3>5. GameInv'
      OBVIOUS
    <3>6. GameBehindScene' /\ StatisticsOfAnEnd' /\ ButtonsReachTheirScene'
      OBVIOUS
    <3>. QED  BY <3>4, <3>5, <3>6
  <2>. QED  BY <2>1, <2>2
<1>7. CASE Back
  <2>1. sceneFailure' = "none"
    BY <1>7 DEF Back, MayTouch, Ignored
  <2>. USE <1>7, <2>1 DEF Back, MayTouch
  <2>2. SceneTypes' /\ ManagerInv'
    OBVIOUS
  <2>3. TouchInv' /\ GameInv'
    OBVIOUS
  <2>4. GameBehindScene' /\ StatisticsOfAnEnd' /\ ButtonsReachTheirScene'
    OBVIOUS
  <2>. QED  BY <2>2, <2>3, <2>4
<1>8. CASE BackToWelcome
  <2>. USE <1>8 DEF BackToWelcome, Closed, switchScene
  <2>1. SceneTypes'
    OBVIOUS
  <2>2. ManagerInv'
    OBVIOUS
  <2>3. TouchInv'
    OBVIOUS
  <2>4. GameInv'
    OBVIOUS
  <2>5. GameBehindScene' /\ StatisticsOfAnEnd' /\ ButtonsReachTheirScene'
    OBVIOUS
  <2>. QED  BY <2>1, <2>2, <2>3, <2>4, <2>5
<1>9. CASE PlayerFights
  BY <1>9 DEF PlayerFights, MayTouch
<1>10. CASE NextTurn
  <2>. USE <1>10 DEF NextTurn, MayTouch, EndTurn, switchScene
  <2>1. SceneTypes'
    OBVIOUS
  <2>2. ManagerInv'
    OBVIOUS
  <2>3. TouchInv'
    OBVIOUS
  <2>4. GameInv'
    OBVIOUS
  <2>5. GameBehindScene' /\ StatisticsOfAnEnd' /\ ButtonsReachTheirScene'
    OBVIOUS
  <2>. QED  BY <2>1, <2>2, <2>3, <2>4, <2>5
<1>11. CASE onConfigurationChanged
  BY <1>11 DEF onConfigurationChanged
<1>12. CASE onStopActivity
  BY <1>12 DEF onStopActivity
<1>13. CASE GameStopped
  BY <1>13 DEF GameStopped, Closed
<1>14. CASE SurfaceDestroyed
  BY <1>14 DEF SurfaceDestroyed
<1>15. CASE onResumeActivity
  BY <1>15 DEF onResumeActivity
<1>16. CASE AutomatonFights
  BY <1>16 DEF AutomatonFights
<1>17. CASE AutomationIsOver
  BY <1>17 DEF AutomationIsOver
<1>18. ASSUME NEW n \in {"player", "automaton"}, HandOver(n) PROVE SceneInv'
  <2>. USE <1>18 DEF HandOver, EndTurn, switchScene
  <2>1. SceneTypes'
    OBVIOUS
  <2>2. ManagerInv'
    OBVIOUS
  <2>3. TouchInv'
    OBVIOUS
  <2>4. GameInv'
    OBVIOUS
  <2>5. GameBehindScene' /\ StatisticsOfAnEnd' /\ ButtonsReachTheirScene'
    OBVIOUS
  <2>. QED  BY <2>1, <2>2, <2>3, <2>4, <2>5
<1>19. CASE UNCHANGED sceneVars
  <2>. USE <1>19 DEF sceneVars
  <2>1. SceneTypes' /\ ManagerInv' /\ TouchInv'
    OBVIOUS
  <2>2. GameInv'
    OBVIOUS
  <2>3. GameBehindScene' /\ StatisticsOfAnEnd' /\ ButtonsReachTheirScene'
    OBVIOUS
  <2>. QED  BY <2>1, <2>2, <2>3
<1>. QED  BY <1>1, <1>2, <1>3, <1>4, <1>5, <1>6, <1>7, <1>8, <1>9, <1>10, <1>11, <1>12, <1>13, <1>14, <1>15, <1>16, <1>17, <1>18, <1>19 DEF ScenesNext, Touch, Draw, Automate

LEMMA InductiveScene == ScenesSpec => []SceneInv
BY SceneInitInv, SceneNextInv, PTL DEF ScenesSpec

LEMMA SceneTypeOK == SceneInv => ScenesTypeOK
<1>. SUFFICES ASSUME SceneInv PROVE ScenesTypeOK
  OBVIOUS
<1>1. {surface, currentState, initialised, over, shown} \subseteq BOOLEAN
  BY DEF SceneInv, SceneTypes, Booleans
<1>2. touched \in Renderers \cup {0}
  BY DEF SceneInv, SceneTypes, TouchInv
<1>3. application \in Renderers /\ gameScene \in Renderers \cup {0}
  <2>1. /\ MaxRenderers \in Nat /\ renderer \in 1..MaxRenderers
        /\ application \in 1..renderer /\ gameScene \in 0..renderer
    BY ScenesAssumption DEF SceneInv, SceneTypes, Renderers
  <2>. QED  BY <2>1 DEF Renderers
<1>. QED  BY <1>1, <1>2, <1>3 DEF SceneInv, SceneTypes, ScenesTypeOK

\* GameScene has an open game behind it, however often surfaces, games and the
\* activity come and go; but for a frame that is loaded or drawn between the stop of
\* the activity and the loss of its surface.
THEOREM GameIsBehindScene == ScenesSpec => []GameBehindScene
<1>1. SceneInv => GameBehindScene
  BY DEF SceneInv
<1>. QED  BY <1>1, InductiveScene, PTL

\* Statistics are of a game that has ended, for any number of surfaces.
THEOREM StatisticsAreOfAnEnd == ScenesSpec => []StatisticsOfAnEnd
<1>1. SceneInv => StatisticsOfAnEnd
  BY DEF SceneInv
<1>. QED  BY <1>1, InductiveScene, PTL

\* Buttons reach the scene they are on, but for the end of a game that an earlier
\* renderer has prepared.
THEOREM ButtonsReachScene == ScenesSpec => []ButtonsReachTheirScene
<1>1. SceneInv => ButtonsReachTheirScene
  BY DEF SceneInv
<1>. QED  BY <1>1, InductiveScene, PTL

-----------------------------------------------------------------------------
(* SoundEngine.                                                            *)


Players == {"bufferQueuePlayer", "assetPlayer"}

\* What is gone when a destructor has come to a statement.
DestructorInv ==
    \A e \in SoundEngines :
        /\ destructor[e] \in {"assetPlayers", "outputMix", "engine", "masterBuffer", "free"}
              => "bufferQueuePlayer" \notin objects[e]
        /\ destructor[e] \in {"outputMix", "engine", "masterBuffer", "free"}
              => "assetPlayer" \notin objects[e]
        /\ destructor[e] \in {"engine", "masterBuffer", "free"}
              => "outputMix" \notin objects[e]

\* A destructor runs only after the first onResume; an engine is made before.
ActivityInv ==
    activity \in {"new", "created"} => \A e \in SoundEngines : destructor[e] = "none"

\* The queue lives and dies with its player, the player within the memory.
QueueInv ==
    \A e \in SoundEngines :
        /\ queued[e] # << >> \/ calling[e] => "bufferQueuePlayer" \in objects[e]
        /\ "bufferQueuePlayer" \in objects[e] => masterBuffer[e] /\ e \in allocated

SoundInv == /\ SoundTypeOK /\ ActivityInv /\ DestructorInv /\ ParentsOutliveChildren /\ QueueInv

\* The buffers are queued with indices of the array.
LEMMA EnqueuedType == Enqueued \in Seq(Buffers)
<1>1. \A i \in 1..BUFFER_COUNT : i - 1 \in Buffers
  BY SoundAssumption DEF Buffers
<1>2. BUFFER_COUNT \in Nat
  BY SoundAssumption
<1>. QED  BY <1>1, <1>2 DEF Enqueued

LEMMA SoundInitInv == SoundInit => SoundInv
<1>. SUFFICES ASSUME SoundInit PROVE SoundInv
  OBVIOUS
<1>1. SoundTypeOK
  BY SoundAssumption DEF SoundInit, SoundTypeOK, SoundEngines, Buffers
<1>. QED
  BY <1>1 DEF SoundInit, SoundInv, ActivityInv, DestructorInv, ParentsOutliveChildren, QueueInv

\* initiateSoundEngine, called for manager m by onCreate or the first onResume.
LEMMA InitiateInv ==
    ASSUME SoundInv, NEW m \in SoundEngines, initiateSoundEngine(m),
           activity \in {"new", "created"}, activity' \in {"created", "resumed"},
           manager' \in SoundEngines, UNCHANGED <<tap, soundFailure>>
    PROVE  SoundInv'
<1>. USE DEF initiateSoundEngine, prepareBufferQueuePlayer, prepareAssetPlayer, Create
<1>1. SoundTypeOK'
  <2>1. 0 \in Buffers
    BY SoundAssumption DEF Buffers
  <2>. QED  BY <2>1, EnqueuedType DEF SoundInv, SoundTypeOK, AllObjects
<1>2. ActivityInv' /\ DestructorInv'
  BY DEF SoundInv, SoundTypeOK, ActivityInv, DestructorInv
<1>3. ParentsOutliveChildren'
  BY DEF SoundInv, SoundTypeOK, ParentsOutliveChildren
<1>4. QueueInv'
  BY DEF SoundInv, SoundTypeOK, QueueInv
<1>. QED  BY <1>1, <1>2, <1>3, <1>4 DEF SoundInv

\* A statement of the destructor.
LEMMA DestructInv == ASSUME SoundInv, NEW e \in SoundEngines, Destruct(e) PROVE SoundInv'
<1>. USE DEF Statement, DestroyObject
<1>1. CASE DestroyBufferQueuePlayer(e)
  <2>1. SoundTypeOK'
    <3>1. queued' \in [SoundEngines -> Seq(Buffers)]
      <4>1. << >> \in Seq(Buffers)
        OBVIOUS
      <4>. QED  BY <1>1, <4>1 DEF DestroyBufferQueuePlayer, SoundInv, SoundTypeOK
    <3>2. objects' \in [SoundEngines -> SUBSET AllObjects]
      BY <1>1 DEF DestroyBufferQueuePlayer, SoundInv, SoundTypeOK
    <3>. QED  BY <1>1, <3>1, <3>2 DEF DestroyBufferQueuePlayer, SoundInv, SoundTypeOK, DestructorSteps
  <2>2. ActivityInv' /\ DestructorInv'
    BY <1>1 DEF DestroyBufferQueuePlayer, SoundInv, SoundTypeOK, ActivityInv, DestructorInv
  <2>3. ParentsOutliveChildren' /\ QueueInv'
    BY <1>1 DEF DestroyBufferQueuePlayer, SoundInv, SoundTypeOK, ParentsOutliveChildren, QueueInv
  <2>. QED  BY <2>1, <2>2, <2>3 DEF SoundInv
<1>2. CASE DestroyAssetPlayers(e)
  <2>1. SoundTypeOK'
    BY <1>2 DEF DestroyAssetPlayers, SoundInv, SoundTypeOK, DestructorSteps
  <2>2. ActivityInv' /\ DestructorInv'
    BY <1>2 DEF DestroyAssetPlayers, SoundInv, SoundTypeOK, ActivityInv, DestructorInv
  <2>3. ParentsOutliveChildren' /\ QueueInv'
    BY <1>2 DEF DestroyAssetPlayers, SoundInv, SoundTypeOK, ParentsOutliveChildren, QueueInv
  <2>. QED  BY <2>1, <2>2, <2>3 DEF SoundInv
<1>3. CASE DestroyOutputMix(e)
  <2>1. SoundTypeOK'
    BY <1>3 DEF DestroyOutputMix, SoundInv, SoundTypeOK, DestructorSteps
  <2>2. ActivityInv' /\ DestructorInv'
    BY <1>3 DEF DestroyOutputMix, SoundInv, SoundTypeOK, ActivityInv, DestructorInv
  <2>3. ParentsOutliveChildren'
    BY <1>3 DEF DestroyOutputMix, SoundInv, SoundTypeOK, DestructorInv, ParentsOutliveChildren
  <2>4. QueueInv'
    BY <1>3 DEF DestroyOutputMix, SoundInv, SoundTypeOK, DestructorInv, ParentsOutliveChildren, QueueInv
  <2>. QED  BY <2>1, <2>2, <2>3, <2>4 DEF SoundInv
<1>4. CASE DestroyEngineObject(e)
  <2>1. SoundTypeOK'
    BY <1>4 DEF DestroyEngineObject, SoundInv, SoundTypeOK, DestructorSteps
  <2>2. ActivityInv' /\ DestructorInv'
    BY <1>4 DEF DestroyEngineObject, SoundInv, SoundTypeOK, ActivityInv, DestructorInv
  <2>3. ParentsOutliveChildren' /\ QueueInv'
    BY <1>4 DEF DestroyEngineObject, SoundInv, SoundTypeOK, DestructorInv, ParentsOutliveChildren, QueueInv
  <2>. QED  BY <2>1, <2>2, <2>3 DEF SoundInv
<1>5. CASE DeleteMasterBuffer(e) \/ Free(e)
  <2>1. SoundTypeOK'
    BY <1>5 DEF DeleteMasterBuffer, Free, SoundInv, SoundTypeOK, DestructorSteps
  <2>2. ActivityInv' /\ DestructorInv'
    BY <1>5 DEF DeleteMasterBuffer, Free, SoundInv, SoundTypeOK, ActivityInv, DestructorInv
  <2>3. ParentsOutliveChildren'
    BY <1>5 DEF DeleteMasterBuffer, Free, SoundInv, SoundTypeOK, DestructorInv, ParentsOutliveChildren
  <2>4. QueueInv'
    <3>1. CASE DeleteMasterBuffer(e)
      BY <3>1 DEF DeleteMasterBuffer, SoundInv, SoundTypeOK, DestructorInv, ParentsOutliveChildren, QueueInv
    <3>2. CASE Free(e)
      BY <3>2 DEF Free, SoundInv, SoundTypeOK, DestructorInv, ParentsOutliveChildren, QueueInv
    <3>. QED  BY <1>5, <3>1, <3>2
  <2>. QED  BY <2>1, <2>2, <2>3, <2>4 DEF SoundInv
<1>. QED  BY <1>1, <1>2, <1>3, <1>4, <1>5 DEF Destruct

\* A step of OpenSL's thread.
LEMMA CallBackInv ==
    ASSUME SoundInv, NEW e \in SoundEngines, BufferDone(e) \/ bufferQueuePlayerCallBack(e) \/ ClickEnds(e)
    PROVE  SoundInv'
<1>1. SoundTypeOK'
  <2>1. \A i \in Buffers : Popped(i) \in Buffers
    BY SoundAssumption DEF Popped, Buffers
  <2>2. CASE BufferDone(e)
    <3>1. queued' \in [SoundEngines -> Seq(Buffers)]
      <4>1. queued[e] \in Seq(Buffers) /\ queued[e] # << >>
        BY <2>2 DEF BufferDone, SoundInv, SoundTypeOK
      <4>2. Tail(queued[e]) \in Seq(Buffers)
        BY <4>1
      <4>. QED  BY <2>2, <4>2 DEF BufferDone, SoundInv, SoundTypeOK
    <3>. QED  BY <2>2, <3>1 DEF BufferDone, SoundInv, SoundTypeOK
  <2>3. CASE bufferQueuePlayerCallBack(e)
    <3>1. queued' \in [SoundEngines -> Seq(Buffers)] /\ bqHead' \in [SoundEngines -> Buffers]
      <4>1. bqHead[e] \in Buffers /\ queued[e] \in Seq(Buffers)
        BY DEF SoundInv, SoundTypeOK
      <4>2. Append(queued[e], bqHead[e]) \in Seq(Buffers) /\ Popped(bqHead[e]) \in Buffers
        BY <2>1, <4>1
      <4>3. queued \in [SoundEngines -> Seq(Buffers)] /\ bqHead \in [SoundEngines -> Buffers]
        BY DEF SoundInv, SoundTypeOK
      <4>4. \/ UNCHANGED <<queued, bqHead>>
            \/ /\ queued' = [queued EXCEPT ![e] = Append(queued[e], bqHead[e])]
               /\ bqHead' = [bqHead EXCEPT ![e] = Popped(bqHead[e])]
        BY <2>3 DEF bufferQueuePlayerCallBack
      <4>. QED  BY <4>2, <4>3, <4>4
    <3>. QED  BY <2>3, <3>1 DEF bufferQueuePlayerCallBack, SoundInv, SoundTypeOK
  <2>4. CASE ClickEnds(e)
    BY <2>4 DEF ClickEnds, SoundInv, SoundTypeOK
  <2>. QED  BY <2>2, <2>3, <2>4
<1>2. ActivityInv' /\ DestructorInv' /\ ParentsOutliveChildren'
  BY DEF BufferDone, bufferQueuePlayerCallBack, ClickEnds, SoundInv, SoundTypeOK, ActivityInv,
         DestructorInv, ParentsOutliveChildren
<1>3. QueueInv'
  <2>1. CASE BufferDone(e)
    BY <2>1 DEF BufferDone, SoundInv, SoundTypeOK, QueueInv
  <2>2. CASE bufferQueuePlayerCallBack(e)
    BY <2>2 DEF bufferQueuePlayerCallBack, SoundInv, SoundTypeOK, QueueInv
  <2>3. CASE ClickEnds(e)
    BY <2>3 DEF ClickEnds, SoundInv, SoundTypeOK, QueueInv
  <2>. QED  BY <2>1, <2>2, <2>3
<1>. QED  BY <1>1, <1>2, <1>3 DEF SoundInv

LEMMA SoundNextInv == SoundInv /\ [SoundNext]_soundVars => SoundInv'
<1>. SUFFICES ASSUME SoundInv, [SoundNext]_soundVars PROVE SoundInv'
  OBVIOUS
<1>1. CASE onCreate
  BY <1>1, InitiateInv DEF onCreate, SoundInv, SoundTypeOK
<1>2. CASE onResumeFirst
  BY <1>2, InitiateInv DEF onResumeFirst, SoundEngines
<1>3. CASE onResumeAgain
  BY <1>3 DEF onResumeAgain, SoundInv, SoundTypeOK, ActivityInv, DestructorInv, ParentsOutliveChildren,
              QueueInv
<1>4. CASE onStop
  <2>1. SoundTypeOK'
    BY <1>4 DEF onStop, SoundInv, SoundTypeOK, DestructorSteps
  <2>2. ActivityInv' /\ DestructorInv'
    BY <1>4 DEF onStop, SoundInv, SoundTypeOK, ActivityInv, DestructorInv
  <2>3. ParentsOutliveChildren' /\ QueueInv'
    BY <1>4 DEF onStop, SoundInv, SoundTypeOK, ParentsOutliveChildren, QueueInv
  <2>. QED  BY <2>1, <2>2, <2>3 DEF SoundInv
<1>5. ASSUME NEW e \in SoundEngines,
             Destruct(e) \/ BufferDone(e) \/ bufferQueuePlayerCallBack(e) \/ ClickEnds(e)
      PROVE  SoundInv'
  BY <1>5, DestructInv, CallBackInv
<1>6. ASSUME NEW t \in Taps, TapDown(t) \/ setAssetPlayerStop(t) \/ setAssetPlayerPlayState(t)
      PROVE  SoundInv'
  <2>1. SoundTypeOK'
    BY <1>6 DEF TapDown, setAssetPlayerStop, setAssetPlayerPlayState, OnAssetPlayer, SoundInv, SoundTypeOK
  <2>2. ActivityInv' /\ DestructorInv' /\ ParentsOutliveChildren' /\ QueueInv'
    BY <1>6 DEF TapDown, setAssetPlayerStop, setAssetPlayerPlayState, OnAssetPlayer, SoundInv,
                ActivityInv, DestructorInv, ParentsOutliveChildren, QueueInv
  <2>. QED  BY <2>1, <2>2 DEF SoundInv
<1>7. CASE UNCHANGED soundVars
  BY <1>7 DEF soundVars, SoundInv, SoundTypeOK, ActivityInv, DestructorInv, ParentsOutliveChildren, QueueInv
<1>. QED  BY <1>1, <1>2, <1>3, <1>4, <1>5, <1>6, <1>7 DEF SoundNext

LEMMA InductiveSound == SoundSpec => []SoundInv
<1>. QED  BY SoundInitInv, SoundNextInv, PTL DEF SoundSpec

LEMMA SoundTypes == SoundInv => SoundTypeOK
  BY DEF SoundInv

\* ~SoundEngine destroys children before parents, whatever else is running.
THEOREM ParentsLast == SoundSpec => []ParentsOutliveChildren
<1>1. SoundInv => ParentsOutliveChildren
  BY DEF SoundInv
<1>. QED  BY <1>1, InductiveSound, PTL

\* OpenSL's thread never reads freed memory, whenever the engine is destroyed.
THEOREM LiveMemory == SoundSpec => []PlaysFromLiveMemory
<1>1. SoundInv => PlaysFromLiveMemory
  BY DEF SoundInv, QueueInv, PlaysFromLiveMemory
<1>. QED  BY <1>1, InductiveSound, PTL

-----------------------------------------------------------------------------
(* Resources.                                                              *)


Counted ==
    /\ generated \in [buffers : Nat, textures : Nat]
    /\ loading \in {"none", "modelIndex", "textureIndex", "ready"} /\ thread \in {"GL", "UI"}
    /\ DOMAIN modelHandlers \subseteq ModelNames /\ DOMAIN modelSizes = DOMAIN modelHandlers
    /\ DOMAIN textureHandlers \subseteq TextureNames
    /\ DOMAIN buffers \subseteq 1..generated.buffers /\ textures \subseteq 1..generated.textures
    /\ rewritten \subseteq ModelNames
    /\ \A n \in DOMAIN modelSizes : modelSizes[n] \in Nat
    /\ \A i \in DOMAIN buffers : buffers[i] \in Nat

HandlerInv ==
    /\ \A n \in DOMAIN modelHandlers :
          modelHandlers[n] \in IF thread = "GL" THEN 1..generated.buffers ELSE {Garbage}
    /\ \A n \in DOMAIN textureHandlers :
          textureHandlers[n] \in IF thread = "GL" THEN 1..generated.textures ELSE {Garbage}

\* NothingElseLeaks, object by object.
LeakInv ==
    /\ \A i \in DOMAIN buffers :
          \/ Buffer(i) \in orphans
          \/ loading # "none" /\ \E n \in DOMAIN modelHandlers : modelHandlers[n] = i
    /\ \A i \in textures :
          \/ Texture(i) \in orphans
          \/ loading # "none" /\ \E n \in DOMAIN textureHandlers : textureHandlers[n] = i

ResInv == Counted /\ HandlerInv /\ DrawsWithinBuffer /\ LeakInv

LEMMA ResInitInv == ResInit => ResInv
<1>. SUFFICES ASSUME ResInit PROVE ResInv
  OBVIOUS
<1>1. DOMAIN Empty = {}
  BY DEF Empty
<1>. QED
  BY <1>1 DEF ResInit, ResInv, Counted, HandlerInv, DrawsWithinBuffer, LeakInv

\* A new manager has empty maps; the objects of the one before are lost if it is
\* still there, and they were deleted or lost already if it is not.
LEMMA ConstructInv == ASSUME ResInv, initialise \/ refreshResource PROVE ResInv'
<1>. USE DEF initialise, refreshResource, Construct, glVars
<1>1. DOMAIN Empty = {}
  BY DEF Empty
<1>2. Counted' /\ HandlerInv' /\ DrawsWithinBuffer'
  BY <1>1 DEF ResInv, Counted, HandlerInv, DrawsWithinBuffer
<1>3. LeakInv'
  <2>1. CASE initialise
    BY <2>1 DEF ResInv, LeakInv
  <2>2. CASE refreshResource
    <3>1. ASSUME NEW i \in DOMAIN buffers PROVE Buffer(i) \in orphans'
      BY <2>2 DEF ResInv, Counted, LeakInv, Held, HeldBuffers, Garbage
    <3>2. ASSUME NEW i \in textures PROVE Texture(i) \in orphans'
      BY <2>2 DEF ResInv, Counted, LeakInv, Held, HeldTextures, Garbage
    <3>. QED  BY <2>2, <3>1, <3>2 DEF LeakInv
  <2>. QED  BY <2>1, <2>2
<1>. QED  BY <1>2, <1>3 DEF ResInv

\* A model of the index.
LEMMA ReadModelInv ==
    ASSUME ResInv, NEW n \in ModelNames, NEW vertices \in Sizes \cup {0}, ReadModel(n, vertices)
    PROVE  ResInv'
<1>. USE DEF ReadModel, With, Garbage
<1>0. vertices \in Nat
  BY ResourcesAssumption
<1>1. SizeRead(n, vertices) \in Nat /\ (n \notin DOMAIN modelSizes => SizeRead(n, vertices) = vertices)
       /\ (vertices # 0 => SizeRead(n, vertices) = vertices)
  BY <1>0 DEF SizeRead, ValueOf, ResInv, Counted
<1>2. Counted'
  BY <1>0, <1>1 DEF ResInv, Counted
<1>3. HandlerInv'
  BY DEF ResInv, Counted, HandlerInv
<1>4. DrawsWithinBuffer'
  <2>1. CASE thread = "GL"
    <3>1. DOMAIN modelHandlers' = DOMAIN modelHandlers \cup {n}
      BY <2>1
    <3>2. ASSUME NEW k \in DOMAIN modelHandlers' \ rewritten'
          PROVE  modelSizes'[k] <= ValueOf(buffers', modelHandlers'[k])
      <4>1. CASE k = n
        BY <1>0, <1>1, <2>1, <3>1, <3>2, <4>1 DEF ResInv, Counted, ValueOf
      <4>2. CASE k # n
        <5>1. k \in DOMAIN modelHandlers \ rewritten
          BY <3>1, <3>2, <4>2
        <5>2. modelSizes[k] <= ValueOf(buffers, modelHandlers[k])
          BY <2>1, <5>1 DEF ResInv, DrawsWithinBuffer
        <5>3. modelSizes'[k] = modelSizes[k] /\ modelHandlers'[k] = modelHandlers[k]
          BY <2>1, <4>2, <5>1 DEF ResInv, Counted
        <5>4. modelHandlers[k] \in 1..generated.buffers
          BY <2>1, <5>1 DEF ResInv, HandlerInv
        <5>5. ValueOf(buffers', modelHandlers[k]) = ValueOf(buffers, modelHandlers[k])
          BY <2>1, <5>4 DEF ValueOf, ResInv, Counted
        <5>. QED  BY <5>2, <5>3, <5>5
      <4>. QED  BY <4>1, <4>2
    <3>. QED  BY <3>2 DEF DrawsWithinBuffer
  <2>2. CASE thread # "GL"
    BY <2>2 DEF DrawsWithinBuffer
  <2>. QED  BY <2>1, <2>2
<1>5. LeakInv'
  <2>1. ASSUME NEW i \in DOMAIN buffers'
        PROVE  \/ Buffer(i) \in orphans'
               \/ loading' # "none" /\ \E k \in DOMAIN modelHandlers' : modelHandlers'[k] = i
    <3>1. CASE i \in DOMAIN buffers
      BY <2>1, <3>1 DEF ResInv, Counted, LeakInv
    <3>2. CASE i \notin DOMAIN buffers
      BY <2>1, <3>2
    <3>. QED  BY <3>1, <3>2
  <2>2. ASSUME NEW i \in textures'
        PROVE  \/ Texture(i) \in orphans'
               \/ loading' # "none" /\ \E k \in DOMAIN textureHandlers' : textureHandlers'[k] = i
    BY <2>2 DEF ResInv, LeakInv
  <2>. QED  BY <2>1, <2>2 DEF LeakInv
<1>. QED  BY <1>2, <1>3, <1>4, <1>5 DEF ResInv

\* A texture of the index.
LEMMA ReadTextureInv == ASSUME ResInv, NEW n \in TextureNames, ReadTexture(n) PROVE ResInv'
<1>. USE DEF ReadTexture, With, Garbage
<1>1. Counted'
  BY DEF ResInv, Counted
<1>2. HandlerInv'
  BY DEF ResInv, Counted, HandlerInv
<1>3. DrawsWithinBuffer'
  BY DEF ResInv, DrawsWithinBuffer
<1>4. LeakInv'
  <2>1. ASSUME NEW i \in textures'
        PROVE  \/ Texture(i) \in orphans'
               \/ loading' # "none" /\ \E k \in DOMAIN textureHandlers' : textureHandlers'[k] = i
    <3>1. CASE i \in textures
      BY <2>1, <3>1 DEF ResInv, Counted, LeakInv
    <3>2. CASE i \notin textures
      BY <2>1, <3>2
    <3>. QED  BY <3>1, <3>2
  <2>2. ASSUME NEW i \in DOMAIN buffers'
        PROVE  \/ Buffer(i) \in orphans'
               \/ loading' # "none" /\ \E k \in DOMAIN modelHandlers' : modelHandlers'[k] = i
    BY <2>2 DEF ResInv, LeakInv
  <2>. QED  BY <2>1, <2>2 DEF LeakInv
<1>. QED  BY <1>1, <1>2, <1>3, <1>4 DEF ResInv

\* Whatever object there is, a map holds it or it was lost.
LEMMA HeldOrLost ==
    ASSUME ResInv
    PROVE  /\ \A i \in DOMAIN buffers : Buffer(i) \in orphans \/ i \in HeldBuffers
           /\ \A i \in textures : Texture(i) \in orphans \/ i \in HeldTextures
<1>1. ASSUME NEW i \in DOMAIN buffers PROVE Buffer(i) \in orphans \/ i \in HeldBuffers
  <2>1. i # Garbage
    BY DEF ResInv, Counted, Garbage
  <2>2. Buffer(i) \in orphans \/ \E n \in DOMAIN modelHandlers : modelHandlers[n] = i
    BY DEF ResInv, LeakInv
  <2>. QED  BY <2>1, <2>2 DEF HeldBuffers
<1>2. ASSUME NEW i \in textures PROVE Texture(i) \in orphans \/ i \in HeldTextures
  <2>1. i # Garbage
    BY DEF ResInv, Counted, Garbage
  <2>2. Texture(i) \in orphans \/ \E n \in DOMAIN textureHandlers : textureHandlers[n] = i
    BY DEF ResInv, LeakInv
  <2>. QED  BY <2>1, <2>2 DEF HeldTextures
<1>. QED  BY <1>1, <1>2

\* The destructor deletes what the maps hold, or loses it without a context.
LEMMA CloseInv == ASSUME ResInv, closeOnGL \/ closeOnUI PROVE ResInv'
<1>. USE DEF closeOnGL, closeOnUI, mapVars, Without, DeletedBuffers, DeletedTextures
<1>1. Counted'
  <2>1. CASE closeOnGL
    BY <2>1 DEF ResInv, Counted
  <2>2. CASE closeOnUI
    BY <2>2 DEF ResInv, Counted
  <2>. QED  BY <2>1, <2>2
<1>2. HandlerInv' /\ DrawsWithinBuffer'
  BY DEF ResInv, HandlerInv, DrawsWithinBuffer
<1>3. LeakInv'
  <2>0. DOMAIN buffers' \subseteq DOMAIN buffers /\ textures' \subseteq textures
    <3>1. CASE closeOnGL
      BY <3>1
    <3>2. CASE closeOnUI
      BY <3>2
    <3>. QED  BY <3>1, <3>2
  <2>1. ASSUME NEW i \in DOMAIN buffers' PROVE Buffer(i) \in orphans'
    <3>1. i \in DOMAIN buffers /\ i # 0
      BY <2>0, <2>1 DEF ResInv, Counted
    <3>2. Buffer(i) \in orphans \/ i \in HeldBuffers
      BY <3>1, HeldOrLost
    <3>3. CASE closeOnUI
      BY <3>2, <3>3 DEF Held
    <3>4. CASE closeOnGL /\ thread = "GL"
      BY <2>1, <3>2, <3>4
    <3>5. CASE closeOnGL /\ thread # "GL"
      BY <3>1, <3>5 DEF ResInv, LeakInv, HandlerInv, Garbage
    <3>. QED  BY <3>3, <3>4, <3>5
  <2>2. ASSUME NEW i \in textures' PROVE Texture(i) \in orphans'
    <3>1. i \in textures /\ i # 0
      BY <2>0, <2>2 DEF ResInv, Counted
    <3>2. Texture(i) \in orphans \/ i \in HeldTextures
      BY <3>1, HeldOrLost
    <3>3. CASE closeOnUI
      BY <3>2, <3>3 DEF Held
    <3>4. CASE closeOnGL /\ thread = "GL"
      BY <2>2, <3>2, <3>4
    <3>5. CASE closeOnGL /\ thread # "GL"
      BY <3>1, <3>5 DEF ResInv, LeakInv, HandlerInv, Garbage
    <3>. QED  BY <3>3, <3>4, <3>5
  <2>. QED  BY <2>1, <2>2 DEF LeakInv
<1>. QED  BY <1>1, <1>2, <1>3 DEF ResInv

LEMMA ResNextInv == ResInv /\ [ResNext]_resVars => ResInv'
<1>. SUFFICES ASSUME ResInv, [ResNext]_resVars PROVE ResInv'
  OBVIOUS
<1>1. CASE NextIndex \/ UNCHANGED resVars
  BY <1>1 DEF NextIndex, resVars, mapVars, glVars, ResInv, Counted, HandlerInv, DrawsWithinBuffer,
              LeakInv
<1>. QED
  BY <1>1, ConstructInv, ReadModelInv, ReadTextureInv, CloseInv DEF ResNext

LEMMA InductiveResources == ResSpec => []ResInv
  BY ResInitInv, ResNextInv, PTL DEF ResSpec

\* A map holds only handlers of objects that were generated.
LEMMA ResTypes == ResInv => ResTypeOK
  BY DEF ResInv, Counted, HandlerInv, ResTypeOK, HeldBuffers, HeldTextures, Garbage

\* A draw call never reads behind the end of its buffer, unless the index names a
\* model twice and the second file is broken, for any number of models and any
\* sizes of files.
THEOREM DrawsStayWithin == ResSpec => []DrawsWithinBuffer
<1>1. ResInv => DrawsWithinBuffer
  BY DEF ResInv
<1>. QED  BY <1>1, InductiveResources, PTL

\* ~ResourceManager deletes whatever was not lost before it: names given twice,
\* managers replaced by refreshResource or closed without a context.
THEOREM NoOtherLeak == ResSpec => []NothingElseLeaks
<1>1. ResInv => NothingElseLeaks
  BY DEF ResInv, Counted, LeakInv, NothingElseLeaks, Held, HeldBuffers, HeldTextures, Garbage
<1>. QED  BY <1>1, InductiveResources, PTL

-----------------------------------------------------------------------------
(* ScriptEngine.                                                           *)


\* The stack of a thread: it is empty when the thread is outside, only the owner
\* of the lock has more than one applyRule on it, and it is as deep as the calls
\* that the thread has used up allow.
StackInv ==
    /\ \A t \in Callers :
          /\ at[t] = "idle" <=> depth[t] = 0
          /\ depth[t] > 1 => lockOwner = t
          /\ depth[t] > 0 => depth[t] + calls[t] <= MaxCalls + 1
    /\ lockOwner # NoCaller => lockCount > 0

\* The two halves of the type invariant: the stacks, and the engine.
StackTypes ==
    /\ lockOwner \in Callers \cup {NoCaller} /\ lockCount \in 0..MaxCalls + 1
    /\ at \in [Callers -> Labels]
    /\ depth \in [Callers -> 0..MaxCalls + 1] /\ calls \in [Callers -> 0..MaxCalls]

EngineTypes ==
    /\ engine \in {"none", "alive", "destroyed"}
    /\ gameDelegate \in BOOLEAN
    /\ callbackEnv \in Callers \cup {NoCaller}
    /\ scriptFailure \in {"none", "bad_function_call", "destroyed in use"}

ScriptInv == StackTypes /\ OneScriptAtATime /\ StackInv

LEMMA ScriptInitInv == ScriptInit => ScriptInv
<1>. SUFFICES ASSUME ScriptInit PROVE ScriptInv
  OBVIOUS
<1>1. MaxCalls \in Nat /\ NoCaller \notin Callers
  BY ScriptAssumption
<1>. QED
  BY <1>1 DEF ScriptInit, ScriptInv, StackTypes, Labels, OneScriptAtATime, StackInv

\* A rule is applied, by Java or by a script: the stack grows.
LEMMA EnterInv ==
    ASSUME ScriptInv, NEW t \in Callers, applyRule(t) \/ turnNextRound(t)
    PROVE  ScriptInv'
<1>. USE DEF applyRule, turnNextRound, setupExtensionCallback, GoTo
<1>1. MaxCalls \in Nat /\ NoCaller \notin Callers
  BY ScriptAssumption
<1>2. StackTypes'
  BY <1>1 DEF ScriptInv, StackTypes, Labels, OneScriptAtATime, StackInv
<1>3. OneScriptAtATime'
  BY <1>1 DEF ScriptInv, StackTypes, OneScriptAtATime, StackInv
<1>4. StackInv'
  BY <1>1 DEF ScriptInv, StackTypes, OneScriptAtATime, StackInv
<1>. QED  BY <1>2, <1>3, <1>4 DEF ScriptInv

\* A thread gets the lock, or finds no delegate and returns.
LEMMA LockInv == ASSUME ScriptInv, NEW t \in Callers, CallDelegate(t) PROVE ScriptInv'
<1>. USE DEF CallDelegate, MayLock, Lock, Leave, GoTo
<1>1. MaxCalls \in Nat /\ NoCaller \notin Callers
  BY ScriptAssumption
<1>2. StackTypes'
  BY <1>1 DEF ScriptInv, StackTypes, Labels, OneScriptAtATime, StackInv
<1>3. OneScriptAtATime'
  BY <1>1 DEF ScriptInv, StackTypes, OneScriptAtATime, StackInv
<1>4. StackInv'
  BY <1>1 DEF ScriptInv, StackTypes, OneScriptAtATime, StackInv
<1>. QED  BY <1>2, <1>3, <1>4 DEF ScriptInv

\* A script returns and gives back its share of the lock.
LEMMA ReturnInv == ASSUME ScriptInv, NEW t \in Callers, ScriptReturns(t) PROVE ScriptInv'
<1>. USE DEF ScriptReturns, Unlock, Leave, GoTo
<1>1. MaxCalls \in Nat /\ NoCaller \notin Callers
  BY ScriptAssumption
<1>2. lockOwner = t /\ lockCount = depth[t] /\ depth[t] >= 1
  BY <1>1 DEF ScriptInv, StackTypes, OneScriptAtATime, StackInv
<1>3. StackTypes'
  BY <1>1, <1>2 DEF ScriptInv, StackTypes, Labels
<1>4. OneScriptAtATime'
  BY <1>1, <1>2 DEF ScriptInv, StackTypes, OneScriptAtATime, StackInv
<1>5. StackInv'
  BY <1>1, <1>2 DEF ScriptInv, StackTypes, OneScriptAtATime, StackInv
<1>. QED  BY <1>3, <1>4, <1>5 DEF ScriptInv

\* Whatever else happens: the script is executed once more, or the engine made
\* or destroyed.
LEMMA OtherInv ==
    ASSUME ScriptInv,
           \/ \E t \in Callers : CheckDelegate(t)
           \/ \E t \in Callers, setsDelegate, usesInterface \in BOOLEAN :
                 ExecuteAgain(t, setsDelegate, usesInterface)
           \/ \E setsDelegate, usesInterface \in BOOLEAN :
                 CreateAndExecute(setsDelegate, usesInterface)
           \/ Destroy
           \/ UNCHANGED scriptVars
    PROVE  ScriptInv'
<1>. USE DEF CheckDelegate, ExecuteAgain, CreateAndExecute, Executed, Destroy, scriptVars, GoTo
<1>1. StackTypes'
  BY DEF ScriptInv, StackTypes, Labels
<1>2. OneScriptAtATime'
  BY DEF ScriptInv, StackTypes, OneScriptAtATime
<1>3. StackInv'
  BY DEF ScriptInv, StackTypes, StackInv
<1>. QED  BY <1>1, <1>2, <1>3 DEF ScriptInv

LEMMA ScriptNextInv == ScriptInv /\ [ScriptNext]_scriptVars => ScriptInv'
  BY EnterInv, LockInv, ReturnInv, OtherInv DEF ScriptNext, CallerStep

LEMMA InductiveScript == ScriptSpec => []ScriptInv
  BY ScriptInitInv, ScriptNextInv, PTL DEF ScriptSpec

\* The engine keeps its types whatever the stacks are.
LEMMA EngineTypesInv == EngineTypes /\ [ScriptNext]_scriptVars => EngineTypes'
<1>. SUFFICES ASSUME EngineTypes, [ScriptNext]_scriptVars PROVE EngineTypes'
  OBVIOUS
<1>1. ASSUME NEW t \in Callers, applyRule(t) \/ turnNextRound(t) PROVE EngineTypes'
  BY <1>1 DEF applyRule, turnNextRound, setupExtensionCallback, EngineTypes
<1>2. ASSUME NEW t \in Callers, CheckDelegate(t) \/ CallDelegate(t) \/ ScriptReturns(t)
      PROVE  EngineTypes'
  BY <1>2 DEF CheckDelegate, CallDelegate, ScriptReturns, EngineTypes
<1>3. ASSUME NEW setsDelegate \in BOOLEAN, NEW usesInterface \in BOOLEAN,
             \/ \E t \in Callers : ExecuteAgain(t, setsDelegate, usesInterface)
             \/ CreateAndExecute(setsDelegate, usesInterface)
      PROVE  EngineTypes'
  BY <1>3 DEF ExecuteAgain, CreateAndExecute, Executed, EngineTypes
<1>4. CASE Destroy
  BY <1>4 DEF Destroy, EngineTypes
<1>5. CASE UNCHANGED scriptVars
  BY <1>5 DEF scriptVars, EngineTypes
<1>. QED  BY <1>1, <1>2, <1>3, <1>4, <1>5 DEF ScriptNext, CallerStep

\* The lock is never given back more often than it was taken.
LEMMA ScriptTypes == ScriptInv /\ EngineTypes => ScriptTypeOK
  BY DEF ScriptInv, StackTypes, EngineTypes, ScriptTypeOK

\* A script runs only on the thread that owns the isolate, which holds its lock
\* once for every script on its stack, for any number of threads that apply rules
\* and however often a script comes back into the engine.
THEOREM OneScript == ScriptSpec => []OneScriptAtATime
<1>1. ScriptInv => OneScriptAtATime
  BY DEF ScriptInv
<1>. QED  BY <1>1, InductiveScript, PTL

-----------------------------------------------------------------------------
(* All parts.                                                              *)

PartsInv ==
    /\ SceneInv /\ SoundInv /\ ResInv /\ ScriptInv /\ EngineTypes
    /\ WavesInv /\ DesktopInv

LEMMA PartsInitInv == Init => PartsInv
<1>1. ScriptInit => EngineTypes
  BY DEF ScriptInit, EngineTypes
<1>. QED
  BY <1>1, SceneInitInv, SoundInitInv, ResInitInv, ScriptInitInv, WavesInitInv, DesktopInitInv
     DEF Init, PartsInv

\* Every step is one of a part, or leaves a part alone.
LEMMA PartsStep ==
    ASSUME [Next]_<<part, sceneVars, nativeVars, wavesVars, desktopVars>>
    PROVE  /\ [ScenesNext]_sceneVars /\ [SoundNext]_soundVars /\ [ResNext]_resVars
           /\ [ScriptNext]_scriptVars /\ [WavesNext]_wavesVars /\ [DesktopNext]_desktopVars
BY DEF Next, NativeNext, nativeVars

LEMMA PartsNextInv ==
    ASSUME PartsInv, [Next]_<<part, sceneVars, nativeVars, wavesVars, desktopVars>>
    PROVE  PartsInv'
BY PartsStep, SceneNextInv, SoundNextInv, ResNextInv, ScriptNextInv, EngineTypesInv, WavesNextInv,
   DesktopNextInv DEF PartsInv

LEMMA PartsTypeOK == PartsInv => TypeOK
BY SceneTypeOK, SoundTypes, ResTypes, ScriptTypes, DesktopInvImplies DEF PartsInv, WavesInv, TypeOK

\* Every part keeps its types: renderers, queues, locks and counts of native
\* objects within their bounds, and no unit of the desktop board on two grids.
THEOREM PartsTypeCorrect == Spec => []TypeOK
BY PartsInitInv, PartsNextInv, PartsTypeOK, PTL DEF Spec
===============================================================================
