--------------------------- MODULE Combat_proofs ---------------------------
(***************************************************************************)
(* The front line holds, ruins stay ruins and the verdict is right for     *)
(* every number of teams, fronts and structures and whatever damage is     *)
(* done.                                                                   *)
(***************************************************************************)
EXTENDS Combat, FiniteSetTheorems, TLAPS

\* Structures are destroyed for good or not at all, heroes are never destroyed
\* for good, creeps never wait.
Kinds ==
    /\ \A u \in Structures : roundsToRevive[u] \in {0, -1}
    /\ \A h \in Heroes : roundsToRevive[h] >= 0
    /\ \A c \in Creeps : roundsToRevive[c] = 0

\* The inductive invariant.
IInv == TypeOK /\ Kinds /\ NoZombies /\ FallInOrder /\ VerdictIsRight

RuinsStayHere == \A u \in Structures : Fallen(u) => Fallen(u)'

-----------------------------------------------------------------------------
\* convertHeroExpToLevel never returns a negative level, so a hero that dies
\* waits for at least one end of a round.
LEMMA LevelType ==
    ASSUME NEW exp \in Int
    PROVE  convertHeroExpToLevel(exp) \in Nat
<1> DEFINE below == {e \in ExpLevels : e < exp}
<1>1. IsFiniteSet(below)
  <2>1. below \subseteq ExpLevels
    OBVIOUS
  <2>2. QED
    BY <2>1, FS_Subset, CombatAssumption DEF CombatAssumption
<1>2. Cardinality(below) \in Nat
  BY <1>1, FS_CardinalityType
<1>3. QED
  BY <1>2 DEF convertHeroExpToLevel

\* A hero gets a number of experience points for every victim.
LEMMA ExperienceType ==
    ASSUME NEW exp \in Int, NEW level \in Nat
    PROVE  ExperienceAfterHero(exp, level) \in Int
BY DEF ExperienceAfterHero

\* Everything is in its place before the first turn.
LEMMA InitIInv == Init => IInv
<1> SUFFICES ASSUME Init PROVE IInv
  OBVIOUS
<1> USE CombatAssumption DEF CombatAssumption
<1>1. TypeOK
  <2>1. hp \in [Characters -> Nat] /\ ap \in [Characters -> Nat]
    BY DEF Init
  <2>2. roundsToRevive \in [Characters -> Int]
    BY DEF Init
  <2>3. money \in [Heroes -> Nat] /\ experience \in [Heroes -> Int]
    BY DEF Init
  <2>4. QED
    BY <2>1, <2>2, <2>3 DEF Init, TypeOK, Controlled
<1>2. \A n \in Characters : roundsToRevive[n] = 0
  BY DEF Init
<1>3. \A n \in Heroes \cup Structures : hp[n] > 0
  BY DEF Init, Characters
<1>4. Kinds
  BY <1>2 DEF Kinds, Characters
<1>5. NoZombies
  BY <1>2, <1>3 DEF NoZombies, Init, Present, Characters
<1>6. FallInOrder
  BY <1>2, <1>3 DEF FallInOrder, Fallen, IsAlive, Characters, Structures
<1>7. VerdictIsRight
  BY DEF Init, VerdictIsRight
<1>8. QED
  BY <1>1, <1>4, <1>5, <1>6, <1>7 DEF IInv

-----------------------------------------------------------------------------
\* If structures only fall, and fall only unprotected, then order and verdict
\* are kept: what both depend on is which structures have fallen.
LEMMA OrderIsKept ==
    ASSUME FallInOrder, VerdictIsRight, RuinsStayHere,
           NEW v \in Characters,
           ~Protected(v),
           \A u \in Structures \ {v} : Fallen(u)' => Fallen(u),
           UNCHANGED result
    PROVE  FallInOrder' /\ VerdictIsRight'
<1>1. ASSUME NEW u \in Towers, NEW w \in Towers,
             Team[u] = Team[w], Front[u] = Front[w], Order[u] < Order[w], Fallen(w)'
      PROVE  Fallen(u)'
  <2>1. u \in Structures /\ w \in Structures
    BY DEF Structures
  <2>2. CASE w = v
    <3>1. u \in Strength(Team[v], Front[v]) \cap Towers
      BY <1>1, <2>2 DEF Strength
    <3>2. ~IsAlive(u)
      BY <1>1, <2>2, <3>1 DEF Protected
    <3>3. QED
      BY <3>2, <2>1 DEF RuinsStayHere, Fallen
  <2>3. CASE w # v
    <3>1. Fallen(w)
      BY <1>1, <2>1, <2>3
    <3>2. Fallen(u)
      BY <1>1, <3>1 DEF FallInOrder
    <3>3. QED
      BY <3>2, <2>1 DEF RuinsStayHere
  <2>4. QED
    BY <2>2, <2>3
<1>2. ASSUME NEW w \in Barracks, Fallen(w)',
             NEW u \in Strength(Team[w], Front[w]) \cap Towers
      PROVE  Fallen(u)'
  <2>1. u \in Structures /\ w \in Structures
    BY DEF Structures
  <2>2. Fallen(u)
    <3>1. CASE w = v
      BY <1>2, <3>1 DEF Protected, Fallen
    <3>2. CASE w # v
      BY <1>2, <2>1, <3>2 DEF FallInOrder
    <3>3. QED
      BY <3>1, <3>2
  <2>3. QED
    BY <2>1, <2>2 DEF RuinsStayHere
<1>3. ASSUME NEW w \in Ancients, Fallen(w)', NEW u \in Strength(Team[w], Front[w])
      PROVE  Fallen(u)'
  <2>1. u \in Structures /\ w \in Structures
    BY DEF Structures, Strength
  <2>2. Fallen(u)
    <3>1. CASE w = v
      BY <1>3, <3>1 DEF Protected, Fallen
    <3>2. CASE w # v
      BY <1>3, <2>1, <3>2 DEF FallInOrder
    <3>3. QED
      BY <3>1, <3>2
  <2>3. QED
    BY <2>1, <2>2 DEF RuinsStayHere
<1>4. FallInOrder'
  BY <1>1, <1>2, <1>3 DEF FallInOrder, Strength
<1>5. VerdictIsRight'
  <2>1. \A u \in Ancients : ~IsAlive(u) => ~IsAlive(u)'
    BY DEF RuinsStayHere, Fallen, Structures
  <2>2. QED
    BY <2>1 DEF VerdictIsRight, AncientFallen, EnemyAncientStands
<1>6. QED
  BY <1>4, <1>5

-----------------------------------------------------------------------------
\* What attack(a, v) leaves of v and of everybody else.
LEMMA Damage ==
    ASSUME IInv, NEW a \in Characters, NEW v \in Present, attack(a, v)
    PROVE  /\ hp' \in [Characters -> Nat] /\ ap' \in [Characters -> Nat]
           /\ roundsToRevive' \in [Characters -> Int]
           /\ spawned' \subseteq spawned /\ spawned \ {v} \subseteq spawned'
           /\ \A n \in Characters \ {v} : hp'[n] = hp[n] /\ roundsToRevive'[n] = roundsToRevive[n]
           /\ v \in Creeps => roundsToRevive'[v] = 0 /\ (hp'[v] > 0 \/ v \notin spawned')
           /\ v \in Heroes => roundsToRevive'[v] >= 0 /\ ((hp'[v] > 0) <=> (roundsToRevive'[v] = 0))
           /\ v \in Structures => roundsToRevive'[v] \in {0, -1}
           /\ v \in Structures => ((hp'[v] > 0) <=> (roundsToRevive'[v] = 0))
           /\ v \in Structures => (Fallen(v) => Fallen(v)')
<1> USE CombatAssumption DEF CombatAssumption, IInv, TypeOK
<1>1. v \in Characters
  BY DEF Present, Characters
<1>2. PICK damage \in Damages :
          LET left == AtLeastZero(hp[v] - damage)
          IN  hp' = [hp EXCEPT ![v] = left] /\ checkCharacterDamage(a, v, left)
  BY DEF attack
<1> DEFINE left == AtLeastZero(hp[v] - damage)
<1>3. left \in Nat /\ left <= hp[v]
  BY <1>1 DEF AtLeastZero
<1>4. hp' = [hp EXCEPT ![v] = left] /\ hp'[v] = left /\ hp' \in [Characters -> Nat]
  BY <1>1, <1>2, <1>3
<1>5. checkCharacterDamage(a, v, left)
  BY <1>2
<1>6. ap' \in [Characters -> Nat]
  BY DEF attack, AtLeastZero
<1> HIDE DEF left
<1>7. CASE left > 0 /\ roundsToRevive[v] = 0
  <2>1. UNCHANGED <<spawned, roundsToRevive>>
    BY <1>5, <1>7 DEF checkCharacterDamage
  <2>2. hp[v] > 0
    BY <1>1, <1>3, <1>7
  <2>3. QED
    BY <1>1, <1>4, <1>6, <1>7, <2>1, <2>2 DEF Kinds, Fallen, IsAlive
<1>8. CASE ~(left > 0 /\ roundsToRevive[v] = 0)
  <2> DEFINE rounds == IF v \in Heroes THEN 1 + 2 * convertHeroExpToLevel(experience[v])
                       ELSE IF v \in Structures THEN -1 ELSE roundsToRevive[v]
  <2>1. roundsToRevive' = [roundsToRevive EXCEPT ![v] = rounds] /\ spawned' = spawned \ {v}
    BY <1>5, <1>8 DEF checkCharacterDamage
  <2>2. v \in Heroes => rounds \in Int /\ rounds > 0
    <3>1. SUFFICES ASSUME v \in Heroes PROVE rounds \in Int /\ rounds > 0
      OBVIOUS
    <3>2. experience[v] \in Int
      BY <3>1
    <3>3. convertHeroExpToLevel(experience[v]) \in Nat
      BY <3>2, LevelType
    <3>4. QED
      BY <3>1, <3>3
  <2>3. v \in Structures => rounds = -1
    BY DEF Characters
  <2>4. v \in Creeps => rounds = 0
    BY <1>1 DEF Kinds
  <2>5. rounds \in Int
    BY <1>1, <2>2, <2>3, <2>4 DEF Characters
  <2> HIDE DEF rounds
  <2>6. roundsToRevive' \in [Characters -> Int] /\ roundsToRevive'[v] = rounds
    BY <1>1, <2>1, <2>5
  <2>7. \A n \in Characters \ {v} : hp'[n] = hp[n] /\ roundsToRevive'[n] = roundsToRevive[n]
    BY <1>4, <2>1
  <2>8. v \in Heroes \cup Structures => left = 0
    <3>1. SUFFICES ASSUME v \in Heroes \cup Structures, left > 0 PROVE FALSE
      BY <1>3
    <3>2. hp[v] > 0
      BY <1>1, <1>3, <3>1
    <3>3. roundsToRevive[v] = 0
      BY <3>2 DEF NoZombies
    <3>4. QED
      BY <1>8, <3>1, <3>3
  <2>9. v \in Structures => Fallen(v)'
    BY <2>3, <2>6 DEF Fallen, IsAlive
  <2>10. v \in Heroes => roundsToRevive'[v] >= 0 /\ ((hp'[v] > 0) <=> (roundsToRevive'[v] = 0))
    BY <1>4, <2>2, <2>6, <2>8
  <2>11. v \in Structures => /\ roundsToRevive'[v] \in {0, -1}
                             /\ (hp'[v] > 0) <=> (roundsToRevive'[v] = 0)
    BY <1>4, <2>3, <2>6, <2>8
  <2>12. v \in Creeps => roundsToRevive'[v] = 0 /\ v \notin spawned'
    BY <2>1, <2>4, <2>6
  <2>13. spawned' \subseteq spawned /\ spawned \ {v} \subseteq spawned'
    BY <2>1
  <2>14. QED
    BY <1>4, <1>6, <2>6, <2>7, <2>9, <2>10, <2>11, <2>12, <2>13
<1>9. QED
  BY <1>7, <1>8

\* The purse and the experience of a killer keep their types.
LEMMA RewardType ==
    ASSUME IInv, NEW a \in Characters, NEW v \in Present, attack(a, v)
    PROVE  money' \in [Heroes -> Nat] /\ experience' \in [Heroes -> Int]
<1> USE CombatAssumption DEF CombatAssumption, IInv, TypeOK
<1>1. v \in Characters
  BY DEF Present, Characters
<1>2. PICK left : checkCharacterDamage(a, v, left)
  BY DEF attack
<1>3. UNCHANGED <<money, experience>> \/ Reward(a, v)
  BY <1>2 DEF checkCharacterDamage
<1>4. CASE UNCHANGED <<money, experience>>
  BY <1>4
<1>5. CASE Reward(a, v) /\ a \in Heroes /\ v \in Heroes
  <2>1. experience[v] \in Int /\ experience[a] \in Int
    BY <1>5
  <2>2. convertHeroExpToLevel(experience[v]) \in Nat
    BY <2>1, LevelType
  <2>3. ExperienceAfterHero(experience[a], convertHeroExpToLevel(experience[v])) \in Int
    BY <2>1, <2>2, ExperienceType
  <2>4. money[a] + Bounty[v] \in Nat
    BY <1>1, <1>5
  <2>5. QED
    BY <1>5, <2>3, <2>4 DEF Reward
<1>6. CASE Reward(a, v) /\ ~(a \in Heroes /\ v \in Heroes)
  <2>1. Bounty[v] \in Nat
    BY <1>1
  <2>2. QED
    BY <1>6, <2>1 DEF Reward
<1>7. QED
  BY <1>3, <1>4, <1>5, <1>6

\* An attack keeps the invariant and brings nothing back.
LEMMA AttackStep ==
    ASSUME IInv, NEW a \in Characters, NEW v \in Present, attack(a, v),
           UNCHANGED <<turn, scanning, queue, target, result>>
    PROVE  IInv' /\ RuinsStayHere
<1> USE CombatAssumption DEF CombatAssumption
<1>1. v \in Characters
  BY DEF IInv, TypeOK, Present, Characters
<1>2. TypeOK'
  BY Damage, RewardType DEF IInv, TypeOK
<1>3. Kinds'
  <2>1. \A u \in Structures : roundsToRevive'[u] \in {0, -1}
    BY Damage DEF IInv, Kinds, Characters
  <2>2. \A h \in Heroes : roundsToRevive'[h] >= 0
    BY Damage DEF IInv, Kinds, Characters
  <2>3. \A c \in Creeps : roundsToRevive'[c] = 0
    BY Damage DEF IInv, Kinds, Characters
  <2>4. QED
    BY <2>1, <2>2, <2>3 DEF Kinds
<1>4. NoZombies'
  <2>1. ASSUME NEW n \in Present' PROVE (hp'[n] > 0) <=> (roundsToRevive'[n] = 0)
    <3>1. n \in Present /\ n \in Characters
      BY <2>1, Damage DEF IInv, TypeOK, Present, Characters
    <3>2. CASE n # v
      BY <3>1, <3>2, Damage DEF IInv, NoZombies
    <3>3. CASE n = v /\ v \in Creeps
      BY <2>1, <3>3, Damage DEF Present, Heroes, Structures
    <3>4. CASE n = v /\ v \in Heroes \cup Structures
      BY <3>4, Damage
    <3>5. QED
      BY <3>1, <3>2, <3>3, <3>4 DEF Characters
  <2>2. QED
    BY <2>1 DEF NoZombies
<1>5. RuinsStayHere
  <2>1. SUFFICES ASSUME NEW u \in Structures, Fallen(u) PROVE Fallen(u)'
    BY DEF RuinsStayHere
  <2>2. CASE u = v
    BY <2>1, <2>2, Damage
  <2>3. CASE u # v
    BY <2>1, <2>3, Damage DEF Fallen, IsAlive, Characters
  <2>4. QED
    BY <2>2, <2>3
<1>6. FallInOrder' /\ VerdictIsRight'
  <2>1. \A u \in Structures \ {v} : Fallen(u)' => Fallen(u)
    BY Damage DEF Fallen, IsAlive, Characters
  <2>2. ~Protected(v)
    BY DEF attack
  <2>3. FallInOrder /\ VerdictIsRight
    BY DEF IInv
  <2>4. result' = result
    OBVIOUS
  <2>5. QED
    BY <1>1, <1>5, <2>1, <2>2, <2>3, <2>4, OrderIsKept
<1>7. QED
  BY <1>2, <1>3, <1>4, <1>5, <1>6 DEF IInv

\* The end of a round revives the heroes whose time has come and leaves every
\* structure as it is, alive or fallen.
LEMMA RoundStep ==
    ASSUME IInv, RoundPasses
    PROVE  IInv' /\ RuinsStayHere /\ \A u \in Structures : Fallen(u)' <=> Fallen(u)
<1> USE CombatAssumption DEF CombatAssumption
<1> USE DEF IInv, TypeOK
<1>1. PICK new \in SUBSET (Creeps \ spawned) :
          /\ spawned' = spawned \cup new
          /\ roundsToRevive' = [n \in Characters |->
                IF n \in Present /\ roundsToRevive[n] > 0
                  THEN roundsToRevive[n] - 1 ELSE roundsToRevive[n]]
          /\ hp' = [n \in Characters |->
                IF n \in new \/ (n \in Present /\ Revived(n)) THEN MaxHP[n]
                ELSE IF n \in Refreshed
                  THEN IF hp[n] + HPGain[n] > MaxHP[n] THEN MaxHP[n] ELSE hp[n] + HPGain[n]
                ELSE hp[n]]
          /\ ap' = [n \in Characters |-> IF n \in new \cup Refreshed THEN MaxAP ELSE ap[n]]
  BY DEF RoundPasses
<1>2. /\ UNCHANGED <<money, experience, turn, scanning, queue, target, result>>
  BY DEF RoundPasses
<1>3. \A n \in Characters : roundsToRevive'[n] =
          IF n \in Present /\ roundsToRevive[n] > 0
            THEN roundsToRevive[n] - 1 ELSE roundsToRevive[n]
  BY <1>1
<1>4. \A n \in Characters : hp'[n] =
          IF n \in new \/ (n \in Present /\ roundsToRevive[n] = 1) THEN MaxHP[n]
          ELSE IF n \in Present /\ roundsToRevive[n] \in {0, 1}
            THEN IF hp[n] + HPGain[n] > MaxHP[n] THEN MaxHP[n] ELSE hp[n] + HPGain[n]
          ELSE hp[n]
  BY <1>1 DEF Revived, Refreshed
<1>5. TypeOK'
  <2>1. hp' \in [Characters -> Nat]
    BY <1>1
  <2>2. ap' \in [Characters -> Nat]
    BY <1>1
  <2>3. roundsToRevive' \in [Characters -> Int]
    BY <1>1
  <2>4. spawned' \subseteq Creeps
    BY <1>1
  <2>5. QED
    BY <1>2, <2>1, <2>2, <2>3, <2>4
<1>6. Kinds'
  BY <1>3 DEF Kinds, Characters
<1>7. NoZombies'
  <2>1. ASSUME NEW n \in Present' PROVE (hp'[n] > 0) <=> (roundsToRevive'[n] = 0)
    <3>1. n \in Characters
      BY <2>1, <1>5 DEF Present, Characters
    <3>2. n \in Present \/ n \in new
      BY <2>1, <1>1 DEF Present
    <3>3. CASE n \in new
      <4>1. n \in Creeps /\ roundsToRevive'[n] = 0
        BY <1>6, <3>3 DEF Kinds
      <4>2. hp'[n] = MaxHP[n] /\ MaxHP[n] > 0
        BY <1>4, <3>1, <3>3
      <4>3. QED
        BY <4>1, <4>2
    <3>4. CASE n \in Present /\ n \notin new
      <4>1. (hp[n] > 0) <=> (roundsToRevive[n] = 0)
        BY <3>4 DEF NoZombies
      <4>2. hp[n] \in Nat /\ roundsToRevive[n] \in Int /\ MaxHP[n] \in Nat \ {0} /\ HPGain[n] \in Nat
        BY <3>1
      <4>3. QED
        BY <1>3, <1>4, <3>1, <3>4, <4>1, <4>2
    <3>5. QED
      BY <3>2, <3>3, <3>4
  <2>2. QED
    BY <2>1 DEF NoZombies
<1>8. \A u \in Structures : Fallen(u)' <=> Fallen(u)
  <2>1. SUFFICES ASSUME NEW u \in Structures PROVE Fallen(u)' <=> Fallen(u)
    OBVIOUS
  <2>2. u \in Characters /\ u \in Present /\ u \in Present'
    BY DEF Characters, Present
  <2>3. roundsToRevive'[u] = roundsToRevive[u]
    BY <1>3, <2>2 DEF Kinds
  <2>4. QED
    BY <1>7, <2>2, <2>3 DEF NoZombies, Fallen, IsAlive
<1>9. FallInOrder' /\ VerdictIsRight'
  <2>1. FallInOrder'
    BY <1>8 DEF FallInOrder, Strength, Structures
  <2>2. VerdictIsRight'
    BY <1>2, <1>8 DEF VerdictIsRight, AncientFallen, EnemyAncientStands, Structures, Fallen
  <2>3. QED
    BY <2>1, <2>2
<1>10. QED
  BY <1>5, <1>6, <1>7, <1>8, <1>9 DEF RuinsStayHere

\* The steps that touch neither hit points nor the registry, the end of a turn
\* with its verdict among them.
LEMMA QuietStep ==
    ASSUME IInv, NEW n \in Characters,
           Walks(n) \/ TurnEnds(n) \/ TurnBegins(n)
             \/ (n \in Towers /\ (TowerScans(n) \/ TowerAims(n) \/ TowerLetsGo(n)))
             \/ UNCHANGED vars
    PROVE  IInv' /\ RuinsStayHere
<1> USE CombatAssumption DEF CombatAssumption
<1>1. UNCHANGED <<spawned, hp, roundsToRevive, money, experience>>
  BY DEF Walks, TurnEnds, TurnBegins, TowerScans, TowerAims, TowerLetsGo, vars
<1>2. TypeOK'
  <2>1. CASE Walks(n)
    BY <2>1 DEF IInv, TypeOK, Walks
  <2>2. CASE TurnEnds(n)
    BY <2>2 DEF IInv, TypeOK, TurnEnds, EndTurn
  <2>3. CASE TurnBegins(n)
    BY <2>3 DEF IInv, TypeOK, TurnBegins
  <2>4. CASE TowerScans(n)
    BY <2>4 DEF IInv, TypeOK, TowerScans, Present, Characters
  <2>5. CASE TowerAims(n)
    BY <2>5 DEF IInv, TypeOK, TowerAims
  <2>6. CASE TowerLetsGo(n)
    BY <2>6 DEF IInv, TypeOK, TowerLetsGo
  <2>7. CASE UNCHANGED vars
    BY <2>7 DEF IInv, TypeOK, vars
  <2>8. QED
    BY <2>1, <2>2, <2>3, <2>4, <2>5, <2>6, <2>7
<1>3. Kinds' /\ NoZombies'
  BY <1>1 DEF IInv, Kinds, NoZombies, Present
<1>4. FallInOrder' /\ RuinsStayHere
  BY <1>1 DEF IInv, FallInOrder, RuinsStayHere, Fallen, IsAlive, Strength
<1>5. VerdictIsRight'
  <2>1. CASE result' = result
    BY <1>1, <2>1 DEF IInv, VerdictIsRight, AncientFallen, EnemyAncientStands, IsAlive
  <2>2. CASE EndTurn
    BY <1>1, <2>2 DEF IInv, VerdictIsRight, EndTurn, AncientFallen, EnemyAncientStands, IsAlive
  <2>3. QED
    BY <2>1, <2>2 DEF Walks, TurnEnds, TurnBegins, TowerScans, TowerAims, TowerLetsGo, vars
<1>6. QED
  BY <1>2, <1>3, <1>4, <1>5 DEF IInv

\* Every step keeps the invariant, brings no structure back and takes no defeat
\* back.
LEMMA StepIInv ==
    ASSUME IInv, [Next]_vars
    PROVE  IInv' /\ RuinsStayHere /\ (result = "Lost" => result' = "Lost")
<1>1. ASSUME NEW v \in Characters, PlayerAttacks(v) PROVE IInv' /\ RuinsStayHere
  <2>1. Player \in Characters /\ v \in Present /\ attack(Player, v)
    BY <1>1 DEF PlayerAttacks, requestAttack, Characters, Heroes
  <2>2. QED
    BY <1>1, <2>1, AttackStep DEF PlayerAttacks
<1>2. ASSUME NEW c \in Creeps, NEW v \in Characters, CreepAttacks(c, v)
      PROVE  IInv' /\ RuinsStayHere
  <2>1. c \in Characters /\ v \in Present /\ attack(c, v)
    BY <1>2 DEF CreepAttacks, requestAttack, Characters
  <2>2. QED
    BY <1>2, <2>1, AttackStep DEF CreepAttacks
<1>3. ASSUME NEW n \in Characters, Walks(n) \/ TurnEnds(n) \/ TurnBegins(n)
      PROVE  IInv' /\ RuinsStayHere
  BY <1>3, QuietStep
<1>4. ASSUME NEW t \in Towers, autoTower(t) PROVE IInv' /\ RuinsStayHere
  <2>1. t \in Characters
    BY DEF Characters, Structures
  <2>2. CASE TowerAttacks(t)
    <3>1. target \in Present /\ attack(t, target)
      BY <2>2 DEF TowerAttacks, TowerKeepsAiming
    <3>2. QED
      BY <2>1, <2>2, <3>1, AttackStep DEF TowerAttacks
  <2>3. CASE TowerScans(t) \/ TowerAims(t) \/ TowerLetsGo(t)
    BY <2>1, <2>3, QuietStep
  <2>4. QED
    BY <1>4, <2>2, <2>3 DEF autoTower
<1>5. ASSUME RoundPasses PROVE IInv' /\ RuinsStayHere
  BY <1>5, RoundStep
<1>6. ASSUME UNCHANGED vars PROVE IInv' /\ RuinsStayHere
  BY <1>6, QuietStep DEF Characters, Heroes
<1>7. IInv' /\ RuinsStayHere
  BY <1>1, <1>2, <1>3, <1>4, <1>5, <1>6 DEF Next
<1>8. ASSUME result = "Lost" PROVE result' = "Lost"
  <2>1. result' = result \/ EndTurn
    BY DEF Next, PlayerAttacks, CreepAttacks, Walks, TurnEnds, TurnBegins, autoTower, TowerScans,
           TowerAims, TowerAttacks, TowerLetsGo, RoundPasses, vars
  <2>2. AncientFallen(Team[Player])
    BY <1>8 DEF IInv, VerdictIsRight
  <2>3. QED
    BY <1>8, <2>1, <2>2 DEF EndTurn
<1>9. QED
  BY <1>7, <1>8

-----------------------------------------------------------------------------
Standing == {u \in Structures : IsAlive(u)}

\* An attack fells its target, unprotected, or nothing.
LEMMA AttackFells ==
    ASSUME IInv, NEW a \in Characters, NEW v \in Present, attack(a, v)
    PROVE  Line!Next \/ Standing' = Standing
<1>1. \A u \in Structures \ {v} : IsAlive(u)' <=> IsAlive(u)
  BY Damage DEF IsAlive, Characters
<1>2. CASE v \in Structures /\ IsAlive(v) /\ ~IsAlive(v)'
  <2>1. Standing' = Standing \ {v}
    BY <1>1, <1>2 DEF Standing
  <2>2. ASSUME NEW u \in Standing PROVE ~Line!Protects(u, v)
    <3>1. ~Protected(v)
      BY DEF attack
    <3>2. QED
      BY <3>1, CombatAssumption
      DEF Standing, Protected, Strength, Line!Protects, Structures, CombatAssumption
  <2>3. QED
    BY <1>2, <2>1, <2>2 DEF Line!Next, Line!Fall, Standing
<1>3. CASE ~(v \in Structures /\ IsAlive(v) /\ ~IsAlive(v)')
  <2>1. v \in Structures => (IsAlive(v)' => IsAlive(v))
    BY Damage DEF Fallen
  <2>2. QED
    BY <1>1, <1>3, <2>1 DEF Standing
<1>4. QED
  BY <1>2, <1>3

\* Every step is a step of the front line or changes nothing that stands.
LEMMA LineStep ==
    ASSUME IInv, [Next]_vars
    PROVE  Line!Next \/ Standing' = Standing
<1>1. CASE \E v \in Characters : PlayerAttacks(v)
  <2>1. PICK v \in Present : attack(Player, v)
    BY <1>1 DEF PlayerAttacks, requestAttack
  <2>2. QED
    BY <2>1, AttackFells DEF Characters, Heroes
<1>2. CASE \E c \in Creeps, v \in Characters : CreepAttacks(c, v)
  <2>1. PICK c \in Creeps, v \in Present : attack(c, v)
    BY <1>2 DEF CreepAttacks, requestAttack
  <2>2. QED
    BY <2>1, AttackFells DEF Characters
<1>3. CASE \E t \in Towers : TowerAttacks(t)
  <2>1. PICK t \in Towers : target \in Present /\ attack(t, target)
    BY <1>3 DEF TowerAttacks, TowerKeepsAiming
  <2>2. QED
    BY <2>1, AttackFells DEF Characters, Structures
<1>4. CASE RoundPasses
  <2>1. \A u \in Structures : IsAlive(u)' <=> IsAlive(u)
    BY <1>4, RoundStep DEF Fallen
  <2>2. QED
    BY <2>1 DEF Standing
<1>5. CASE UNCHANGED <<hp, roundsToRevive>>
  BY <1>5 DEF Standing, IsAlive
<1>6. QED
  BY <1>1, <1>2, <1>3, <1>4, <1>5
  DEF Next, autoTower, Walks, TurnEnds, TurnBegins, TowerScans, TowerAims, TowerLetsGo, vars

-----------------------------------------------------------------------------
\* The invariant holds in every state of every behaviour.
THEOREM Invariance == Spec => []IInv
<1>1. Init => IInv
  BY InitIInv
<1>2. IInv /\ [Next]_vars => IInv'
  BY StepIInv
<1>3. QED
  BY <1>1, <1>2, PTL DEF Spec

\* Hit points, action points and money never become negative.
THEOREM TypeCorrect == Spec => []TypeOK
<1>1. IInv => TypeOK
  BY DEF IInv
<1>2. QED
  BY <1>1, Invariance, PTL

\* A registered character has hit points exactly if it may fight.
THEOREM NobodyIsAZombie == Spec => []NoZombies
<1>1. IInv => NoZombies
  BY DEF IInv
<1>2. QED
  BY <1>1, Invariance, PTL

\* Structures fall in the order of their protection.
THEOREM TheFrontLineHolds == Spec => []FallInOrder
<1>1. IInv => FallInOrder
  BY DEF IInv
<1>2. QED
  BY <1>1, Invariance, PTL

\* The verdicts are true when they are told and stay true.
THEOREM VerdictsAreRight == Spec => []VerdictIsRight
<1>1. IInv => VerdictIsRight
  BY DEF IInv
<1>2. QED
  BY <1>1, Invariance, PTL

\* The fights implement the front line: each of their steps lets at most one
\* structure fall, one that is not protected, and lets none rise.
THEOREM CombatImplementsFrontLine == Spec => LineHolds
<1>1. Init => Line!Init
  <2>1. SUFFICES ASSUME Init PROVE \A u \in Structures : IsAlive(u)
    BY DEF Line!Init, Structures
  <2>2. QED
    BY <2>1, CombatAssumption DEF CombatAssumption, Init, IsAlive, Characters
<1>2. IInv /\ [Next]_vars => [Line!Next]_Standing
  BY LineStep DEF Standing
<1>3. QED
  BY <1>1, <1>2, Invariance, PTL DEF Spec, LineHolds, Line!Spec, Standing

\* No later verdict replaces a defeat.
THEOREM DefeatIsFinal == Spec => LostIsFinal
<1>1. IInv /\ [Next]_vars => [result = "Lost" => result' = "Lost"]_vars
  BY StepIInv
<1>2. QED
  BY <1>1, Invariance, PTL DEF Spec, LostIsFinal
=============================================================================
