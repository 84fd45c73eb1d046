---------------------------- MODULE Desktop_proofs ----------------------------
(***************************************************************************)
(* Proofs about Desktop, for a board of any size, any number of summons    *)
(* and of creeps, any durations: nobody is on two grids, and the hero, the *)
(* position of the player and the queue of revivals tell the same.  A      *)
(* summon on the board has rounds left (else ageing would take its         *)
(* duration below zero), and every turn of the queue is above zero (else   *)
(* the hero would never come back): Ordered, which is stated of a board,   *)
(* since a step may go through several.                                    *)
(***************************************************************************)
EXTENDS Desktop, SequenceTheorems, TLAPS

-----------------------------------------------------------------------------
(* Boards.                                                                 *)

\* No unit stands on two grids.
Board(b) ==
    /\ b \in [Grids -> Units \cup {Nobody}]
    /\ \A g, h \in Grids : b[g] = b[h] => g = h \/ b[g] \in {Nobody, Tree}

Stands(b, u) == \E g \in Grids : b[g] = u

\* Whoever stands on a board can go to a free grid.
LEMMA MovedBoard ==
    ASSUME NEW b, Board(b), NEW from \in Grids, NEW to \in Grids, b[from] \in Units \ {Tree},
           to = from \/ b[to] = Nobody,
           NEW m \in [Grids -> Units \cup {Nobody}],
           \A g \in Grids : m[g] = IF g = to THEN b[from] ELSE IF g = from THEN Nobody ELSE b[g]
    PROVE  /\ Board(m)
           /\ \A u \in Units : Stands(m, u) => Stands(b, u)
<1>. Nobody \notin Units
  BY DesktopAssumption
<1>1. \A g, h \in Grids : m[g] = m[h] => g = h \/ m[g] \in {Nobody, Tree}
  BY DEF Board
<1>2. \A u \in Units : Stands(m, u) => Stands(b, u)
  BY DEF Stands
<1>. QED  BY <1>1, <1>2 DEF Board

\* Grids can be cleared.
LEMMA ClearedBoard ==
    ASSUME NEW b, Board(b), NEW c \in [Grids -> Units \cup {Nobody}],
           \A g \in Grids : c[g] \in {Nobody, b[g]}
    PROVE  Board(c) /\ \A u \in Units : Stands(c, u) => Stands(b, u)
<1>1. Board(c)
  BY DEF Board
<1>2. \A u \in Units : Stands(c, u) => Stands(b, u)
  BY DesktopAssumption DEF Stands
<1>. QED  BY <1>1, <1>2

\* Units that are not on the board can be put on free grids.
LEMMA SummonedBoard ==
    ASSUME NEW b, Board(b), NEW who \in SUBSET (Summons \cup Creeps), \A u \in who : ~Stands(b, u),
           NEW free \in SUBSET Grids, \A g \in free : b[g] = Nobody,
           NEW where \in Injection(who, free)
    PROVE  /\ Board(Summoned(b, who, where))
           /\ \A u \in Units \ {Tree} : Stands(Summoned(b, who, where), u) => Stands(b, u) \/ u \in who
           /\ \A g \in Grids : Summoned(b, who, where)[g] = b[g]
                               \/ (b[g] = Nobody /\ Summoned(b, who, where)[g] \in who)
<1>. DEFINE s == Summoned(b, who, where)
<1>1. where \in [who -> free] /\ \A u, v \in who : where[u] = where[v] => u = v
  BY DEF Injection, IsInjective
<1>2. s = [g \in Grids |-> IF \E u \in who : where[u] = g THEN CHOOSE u \in who : where[u] = g ELSE b[g]]
  BY DEF Summoned
<1>. HIDE DEF s
<1>3. ASSUME NEW g \in Grids
      PROVE  \/ \E u \in who : where[u] = g /\ s[g] = u /\ b[g] = Nobody
             \/ (~ \E u \in who : where[u] = g) /\ s[g] = b[g]
  <2>1. CASE \E u \in who : where[u] = g
    <3>1. PICK u \in who : u = CHOOSE v \in who : where[v] = g
      BY <2>1
    <3>2. where[u] = g
      BY <2>1, <3>1
    <3>3. s[g] = u
      BY <1>2, <2>1, <3>1
    <3>. QED  BY <1>1, <3>2, <3>3
  <2>2. CASE ~ \E u \in who : where[u] = g
    BY <1>2, <2>2
  <2>. QED  BY <2>1, <2>2
<1>4. s \in [Grids -> Units \cup {Nobody}]
  <2>1. \A g \in Grids : s[g] \in Units \cup {Nobody}
    BY <1>3 DEF Board, Units
  <2>. QED  BY <1>2, <2>1
<1>5. \A g, h \in Grids : s[g] = s[h] => g = h \/ s[g] \in {Nobody, Tree}
  <2>. SUFFICES ASSUME NEW g \in Grids, NEW h \in Grids, s[g] = s[h], s[g] \notin {Nobody, Tree}
                PROVE  g = h
    OBVIOUS
  <2>1. ASSUME NEW x \in Grids, NEW y \in Grids, s[x] = s[y],
               NEW u \in who, where[u] = x, s[x] = u
        PROVE  x = y
    <3>1. CASE \E v \in who : where[v] = y /\ s[y] = v
      BY <1>1, <2>1, <3>1
    <3>2. CASE s[y] = b[y]
      BY <2>1, <3>2 DEF Stands
    <3>. QED  BY <1>3, <3>1, <3>2
  <2>2. CASE s[g] = b[g] /\ s[h] = b[h]
    BY <2>2 DEF Board
  <2>. QED  BY <1>3, <2>1, <2>2
<1>6. \A u \in Units \ {Tree} : Stands(s, u) => Stands(b, u) \/ u \in who
  BY <1>3 DEF Stands
<1>7. \A g \in Grids : s[g] = b[g] \/ (b[g] = Nobody /\ s[g] \in who)
  BY <1>3
<1>. QED  BY <1>4, <1>5, <1>6, <1>7 DEF Board, s

-----------------------------------------------------------------------------
(* The inductive invariant.                                                *)

SmallTypes ==
    /\ stage \in {"turn", "scan", "reset", "select"}
    /\ visited \in Grids /\ playerPos \in Grids /\ selected \in Grids
    /\ ready \subseteq {"act", "move", "attack", "spell"}
    /\ rested \subseteq Treants

\* HeroInOnePlace of a board, a position and a queue.
HeroPlaced(b, pos, queue) ==
    \/ queue = << >> /\ \A g \in Grids : b[g] = Hero <=> g = pos
    \/ Len(queue) = 1 /\ ~Stands(b, Hero) /\ pos = Spawn

\* What keeps a board in order: whoever is on it has rounds left to be there.
Ordered(b, durations, pos, queue) ==
    /\ Board(b) /\ pos \in Grids
    /\ durations \in [Summons -> Nat]
    /\ \A u \in Summons : Stands(b, u) => durations[u] # 0
    /\ queue \in Seq(Nat \ {0})
    /\ HeroPlaced(b, pos, queue)

DesktopInv == SmallTypes /\ Ordered(on, left, playerPos, reviveQueue)

LEMMA DesktopInvImplies ==
    ASSUME DesktopInv
    PROVE  DesktopTypeOK /\ HeroInOnePlace
<1>1. DesktopTypeOK
  <2>1. reviveQueue \in Seq(DeathCounts \cup Nat)
    BY DesktopAssumption DEF DesktopInv, Ordered
  <2>. QED  BY <2>1 DEF DesktopInv, SmallTypes, Ordered, Board, DesktopTypeOK
<1>2. HeroInOnePlace
  BY DEF DesktopInv, Ordered, HeroPlaced, HeroInOnePlace, Stands, OnBoard
<1>. QED  BY <1>1, <1>2

-----------------------------------------------------------------------------
(* What happens to a board.                                                *)

LEMMA KeptOrdered ==
    ASSUME NEW b, NEW l, NEW p, NEW q, Ordered(b, l, p, q), NEW c, Board(c),
           \A u \in Summons : Stands(c, u) => Stands(b, u),
           \A g \in Grids : c[g] = Hero <=> b[g] = Hero
    PROVE  Ordered(c, l, p, q)
BY DEF Ordered, HeroPlaced, Stands

\* A move, and SetPlayer.
LEMMA MovedOrdered ==
    ASSUME NEW b, NEW l, NEW p, NEW q, Ordered(b, l, p, q),
           NEW from \in Grids, NEW to \in Grids, b[from] \in Units \ {Tree},
           to = from \/ b[to] = Nobody,
           NEW m \in [Grids -> Units \cup {Nobody}],
           \A g \in Grids : m[g] = IF g = to THEN b[from] ELSE IF g = from THEN Nobody ELSE b[g],
           NEW pos, pos = IF b[from] = Hero THEN to ELSE p
    PROVE  Ordered(m, l, pos, q)
<1>0. Board(b) /\ Nobody \notin Units /\ Hero \in Units /\ Summons \subseteq Units
  BY DesktopAssumption DEF Ordered, Units
<1>1. Board(m) /\ \A u \in Units : Stands(m, u) => Stands(b, u)
  BY <1>0, MovedBoard
<1>2. HeroPlaced(m, pos, q)
  <2>1. CASE b[from] = Hero
    <3>1. q = << >> /\ \A g \in Grids : b[g] = Hero <=> g = p
      BY <2>1 DEF Ordered, HeroPlaced, Stands
    <3>2. \A g \in Grids : m[g] = Hero <=> g = to
      BY <1>0, <1>1, <2>1, <3>1
    <3>. QED  BY <2>1, <3>1, <3>2 DEF HeroPlaced
  <2>2. CASE b[from] # Hero
    <3>1. \A g \in Grids : m[g] = Hero <=> b[g] = Hero
      BY <1>0, <1>1, <2>2
    <3>. QED  BY <2>2, <3>1 DEF Ordered, HeroPlaced, Stands
  <2>. QED  BY <2>1, <2>2
<1>3. pos \in Grids
  BY DEF Ordered
<1>. QED  BY <1>0, <1>1, <1>2, <1>3 DEF Ordered

\* Grids without the hero can be cleared.
LEMMA ClearedOrdered ==
    ASSUME NEW b, NEW l, NEW p, NEW q, Ordered(b, l, p, q),
           NEW c \in [Grids -> Units \cup {Nobody}],
           \A g \in Grids : c[g] \in {Nobody, b[g]} /\ (b[g] = Hero => c[g] = Hero)
    PROVE  Ordered(c, l, p, q)
<1>1. Board(c) /\ \A u \in Units : Stands(c, u) => Stands(b, u)
  BY ClearedBoard DEF Ordered
<1>2. \A g \in Grids : c[g] = Hero <=> b[g] = Hero
  BY DesktopAssumption DEF Units
<1>. QED  BY <1>1, <1>2, KeptOrdered DEF Units

\* A death on a grid: checkIfHeroIsDead and the grid that becomes free.
LEMMA KilledOrdered ==
    ASSUME NEW b, NEW l, Ordered(b, l, playerPos, reviveQueue),
           NEW g \in Grids, HeroIsDead(b[g]),
           NEW c, c = [b EXCEPT ![g] = Nobody]
    PROVE  Ordered(c, l, playerPos', reviveQueue')
<1>1. c \in [Grids -> Units \cup {Nobody}] /\ \A h \in Grids : c[h] = IF h = g THEN Nobody ELSE b[h]
  BY DEF Ordered, Board
<1>2. CASE b[g] # Hero
  <2>1. playerPos' = playerPos /\ reviveQueue' = reviveQueue
    BY <1>2 DEF HeroIsDead
  <2>. QED  BY <1>1, <1>2, <2>1, ClearedOrdered
<1>3. CASE b[g] = Hero
  <2>1. playerPos' = Spawn
    BY <1>3 DEF HeroIsDead
  <2>2. PICK n \in DeathCounts : reviveQueue' = Append(reviveQueue, n)
    BY <1>3 DEF HeroIsDead
  <2>3. reviveQueue = << >> /\ \A h \in Grids : b[h] = Hero <=> h = g
    BY <1>3 DEF Ordered, HeroPlaced, Stands
  <2>4. reviveQueue' \in Seq(Nat \ {0}) /\ Len(reviveQueue') = 1
    <3>1. n \in Nat \ {0} /\ << >> \in Seq(Nat \ {0}) /\ Len(<< >>) = 0
      BY DesktopAssumption
    <3>2. Append(reviveQueue, n) \in Seq(Nat \ {0}) /\ Len(Append(reviveQueue, n)) = 1
      BY <2>3, <3>1, AppendProperties
    <3>. QED  BY <2>2, <3>2
  <2>5. Board(c) /\ \A u \in Units : Stands(c, u) => Stands(b, u)
    BY <1>1, ClearedBoard DEF Ordered
  <2>6. ~Stands(c, Hero)
    BY <1>1, <2>3, DesktopAssumption DEF Stands, Units
  <2>. QED  BY <2>1, <2>4, <2>5, <2>6, DesktopAssumption DEF Ordered, HeroPlaced, Units
<1>. QED  BY <1>2, <1>3

\* Summons and creeps come, on free grids.
LEMMA SummonedOrdered ==
    ASSUME NEW b, NEW l, NEW p, NEW q, Ordered(b, l, p, q),
           NEW who \in SUBSET (Summons \cup Creeps), \A u \in who : ~Stands(b, u),
           NEW free \in SUBSET Grids, \A g \in free : b[g] = Nobody,
           NEW where \in Injection(who, free),
           NEW m \in [Summons -> Nat],
           \A u \in Summons : m[u] = IF u \in who THEN Duration[u] ELSE l[u]
    PROVE  Ordered(Summoned(b, who, where), m, p, q)
<1>. DEFINE s == Summoned(b, who, where)
<1>0. Board(b)
  BY DEF Ordered
<1>1. /\ Board(s)
      /\ \A u \in Units \ {Tree} : Stands(s, u) => Stands(b, u) \/ u \in who
      /\ \A g \in Grids : s[g] = b[g] \/ (b[g] = Nobody /\ s[g] \in who)
  <2>1. Board(s)
    BY <1>0, SummonedBoard
  <2>2. \A u \in Units \ {Tree} : Stands(s, u) => Stands(b, u) \/ u \in who
    BY <1>0, SummonedBoard
  <2>3. \A g \in Grids : s[g] = b[g] \/ (b[g] = Nobody /\ s[g] \in who)
    BY <1>0, SummonedBoard
  <2>. QED  BY <2>1, <2>2, <2>3
<1>. HIDE DEF s
<1>2. HeroPlaced(s, p, q)
  <2>1. \A g \in Grids : s[g] = Hero <=> b[g] = Hero
    BY <1>1, DesktopAssumption DEF Units
  <2>. QED  BY <2>1 DEF Ordered, HeroPlaced, Stands
<1>3. \A u \in Summons : Stands(s, u) => m[u] # 0
  BY <1>1, DesktopAssumption DEF Ordered, Units
<1>. QED  BY <1>0, <1>1, <1>2, <1>3 DEF Ordered, s

\* A summon grows older where endRound comes to it.
LEMMA AgedOrdered ==
    ASSUME NEW b, NEW p, NEW q, Ordered(b, left, p, q), visited \in Grids,
           NEW u, Aged(u, b)
    PROVE  Ordered(on', left', p, q)
<1>1. CASE b[visited] = u /\ u \in Summons
  <2>1. left' = [left EXCEPT ![u] = @ - 1]
    BY <1>1 DEF Aged
  <2>2. on' = IF left[u] = 1 THEN [b EXCEPT ![visited] = Nobody] ELSE b
    BY <1>1 DEF Aged
  <2>3. left[u] \in Nat \ {0} /\ left \in [Summons -> Nat]
    BY <1>1 DEF Ordered, Stands
  <2>4. left' \in [Summons -> Nat] /\ \A v \in Summons : left'[v] = IF v = u THEN left[u] - 1 ELSE left[v]
    <3>1. left[u] - 1 \in Nat
      BY <2>3
    <3>. QED  BY <1>1, <2>1, <2>3, <3>1
  <2>5. on' \in [Grids -> Units \cup {Nobody}] /\ \A g \in Grids : on'[g] \in {Nobody, b[g]}
    BY <2>2 DEF Ordered, Board
  <2>6. \A g \in Grids : b[g] = Hero => on'[g] = Hero
    BY <1>1, <2>2, <2>5, DesktopAssumption
  <2>7. Ordered(on', left, p, q)
    BY <2>5, <2>6, ClearedOrdered
  <2>8. \A v \in Summons : Stands(on', v) => left'[v] # 0
    <3>1. ASSUME NEW g \in Grids, on'[g] = u
          PROVE  left[u] # 1
      <4>. SUFFICES ASSUME left[u] = 1 PROVE FALSE
        OBVIOUS
      <4>1. b[g] = u /\ g # visited
        BY <1>1, <2>2, <3>1, DesktopAssumption DEF Ordered, Board, Units
      <4>2. u \notin {Nobody, Tree}
        BY <1>1, DesktopAssumption DEF Units
      <4>. QED  BY <1>1, <4>1, <4>2 DEF Ordered, Board
    <3>. QED  BY <2>3, <2>4, <2>7, <3>1 DEF Ordered, Stands
  <2>. QED  BY <2>4, <2>7, <2>8 DEF Ordered
<1>2. CASE ~(b[visited] = u /\ u \in Summons)
  BY <1>2 DEF Aged
<1>. QED  BY <1>1, <1>2

\* The first round that the hero has waited through brings him back.
LEMMA RevivedOrdered ==
    ASSUME NEW b, NEW l, NEW p, NEW q, Ordered(b, l, p, q)
    PROVE  Ordered(Revived(b, q)[1], l, p, Revived(b, q)[2])
<1>1. CASE q # << >> /\ q[1] = 1
  <2>. DEFINE c == [b EXCEPT ![Spawn] = Hero]
  <2>1. Revived(b, q)[1] = c /\ Revived(b, q)[2] = << >>
    BY <1>1 DEF Revived
  <2>2. /\ ~Stands(b, Hero) /\ p = Spawn
        /\ Spawn \in Grids /\ Nobody \notin Units /\ Hero \notin Summons
    BY <1>1, DesktopAssumption DEF Ordered, HeroPlaced, Units
  <2>3. /\ c \in [Grids -> Units \cup {Nobody}]
        /\ \A g \in Grids : c[g] = IF g = Spawn THEN Hero ELSE b[g]
    BY <2>2 DEF Ordered, Board, Units
  <2>. HIDE DEF c
  <2>4. Board(c)
    BY <2>2, <2>3 DEF Ordered, Board, Stands
  <2>5. HeroPlaced(c, p, << >>)
    BY <2>2, <2>3 DEF HeroPlaced, Stands
  <2>6. \A u \in Summons : Stands(c, u) => Stands(b, u)
    BY <2>2, <2>3 DEF Stands
  <2>7. << >> \in Seq(Nat \ {0})
    OBVIOUS
  <2>. QED  BY <2>1, <2>4, <2>5, <2>6, <2>7 DEF Ordered
<1>2. CASE ~(q # << >> /\ q[1] = 1)
  <2>. DEFINE r == [i \in DOMAIN q |-> q[i] - 1]
  <2>1. Revived(b, q)[1] = b /\ Revived(b, q)[2] = r
    BY <1>2 DEF Revived
  <2>2. q \in Seq(Nat \ {0})
    BY DEF Ordered
  <2>3. CASE q = << >>
    <3>1. r = << >>
      BY <2>3
    <3>. QED  BY <2>1, <2>3, <3>1
  <2>4. CASE Len(q) = 1
    <3>1. DOMAIN q = 1..1 /\ q[1] \in Nat \ {0, 1}
      BY <1>2, <2>2, <2>4
    <3>2. r \in [1..1 -> Nat \ {0}]
      BY <3>1
    <3>3. r \in Seq(Nat \ {0}) /\ Len(r) = 1
      BY <3>2
    <3>4. HeroPlaced(b, p, r)
      <4>1. q # << >>
        BY <2>4
      <4>. QED  BY <2>4, <3>3, <4>1 DEF Ordered, HeroPlaced
    <3>. HIDE DEF r
    <3>. QED  BY <2>1, <3>3, <3>4 DEF Ordered
  <2>. QED  BY <2>3, <2>4 DEF Ordered, HeroPlaced
<1>. QED  BY <1>1, <1>2

\* Trees grow again.
LEMMA TreesOrdered ==
    ASSUME NEW b, NEW l, NEW p, NEW q, Ordered(b, l, p, q)
    PROVE  Ordered(TreesRevived(b), l, p, q)
<1>. DEFINE c == TreesRevived(b)
<1>0. /\ Nobody \notin Units /\ Tree \in Units /\ Tree \notin Summons /\ Hero # Tree /\ Hero \in Units
      /\ Board(b)
  BY DesktopAssumption DEF Units, Ordered
<1>1. /\ c \in [Grids -> Units \cup {Nobody}]
      /\ \A g \in Grids : c[g] = b[g] \/ (c[g] = Tree /\ b[g] = Nobody)
  <2>1. c = [g \in Grids |-> IF g \in Forest /\ b[g] = Nobody THEN Tree ELSE b[g]]
    BY DEF TreesRevived
  <2>. HIDE DEF c
  <2>2. \A g \in Grids : c[g] = b[g] \/ (c[g] = Tree /\ b[g] = Nobody)
    BY <2>1
  <2>3. \A g \in Grids : b[g] \in Units \cup {Nobody}
    BY <1>0 DEF Board
  <2>4. \A g \in Grids : c[g] \in Units \cup {Nobody}
    BY <1>0, <2>2, <2>3
  <2>. QED  BY <2>1, <2>2, <2>4
<1>. HIDE DEF c
<1>2. Board(c)
  BY <1>0, <1>1 DEF Board
<1>3. \A u \in Summons : Stands(c, u) => Stands(b, u)
  BY <1>0, <1>1 DEF Stands
<1>4. \A g \in Grids : c[g] = Hero <=> b[g] = Hero
  BY <1>0, <1>1
<1>5. Ordered(c, l, p, q)
  BY <1>2, <1>3, <1>4, KeptOrdered
<1>. QED  BY <1>5 DEF c

-----------------------------------------------------------------------------
(* Init and the steps.                                                     *)

LEMMA DesktopInitInv == DesktopInit => DesktopInv
<1>. SUFFICES ASSUME DesktopInit PROVE DesktopInv
  OBVIOUS
<1>0. /\ {Hero, Tree} \subseteq Units /\ Summons \subseteq Units /\ Nobody \notin Units
      /\ Hero \notin Summons /\ Tree \notin Summons /\ Hero # Tree /\ Creeps \cap Summons = {}
      /\ Spawn \in Grids /\ 0 \in Grids /\ Spawn \notin Forest
  BY DesktopAssumption DEF Units, Grids
<1>1. SmallTypes
  BY <1>0 DEF DesktopInit, SmallTypes
<1>2. left \in [Summons -> Nat] /\ playerPos = Spawn /\ reviveQueue = << >>
  BY DEF DesktopInit
<1>3. Ordered(Begun, left, playerPos, reviveQueue)
  <2>1. \A g \in Grids : Begun[g] = IF g = Spawn THEN Hero ELSE IF g \in Forest THEN Tree ELSE Nobody
    BY DEF Begun
  <2>2. Begun \in [Grids -> Units \cup {Nobody}]
    BY <1>0 DEF Begun
  <2>3. Board(Begun)
    BY <1>0, <2>1, <2>2 DEF Board
  <2>4. \A u \in Summons : ~Stands(Begun, u)
    BY <1>0, <2>1 DEF Stands
  <2>5. HeroPlaced(Begun, playerPos, reviveQueue)
    BY <1>0, <1>2, <2>1 DEF HeroPlaced
  <2>6. reviveQueue \in Seq(Nat \ {0})
    BY <1>2
  <2>. QED  BY <1>0, <1>2, <2>3, <2>4, <2>5, <2>6 DEF Ordered
<1>4. PICK who \in SUBSET Creeps : \E where \in Injection(who, {g \in Grids : Begun[g] = Nobody}) :
          on = Summoned(Begun, who, where)
  BY DEF DesktopInit
<1>5. PICK where \in Injection(who, {g \in Grids : Begun[g] = Nobody}) :
          on = Summoned(Begun, who, where)
  BY <1>4
<1>6. \A u \in who : ~Stands(Begun, u)
  <2>1. \A g \in Grids : Begun[g] \in {Hero, Tree, Nobody}
    BY DEF Begun
  <2>2. \A u \in who : u \notin {Hero, Tree, Nobody}
    BY DesktopAssumption DEF Units
  <2>. QED  BY <2>1, <2>2 DEF Stands
<1>7. \A u \in Summons : left[u] = IF u \in who THEN Duration[u] ELSE left[u]
  BY <1>0
<1>8. Ordered(Summoned(Begun, who, where), left, playerPos, reviveQueue)
  BY <1>2, <1>3, <1>6, <1>7, SummonedOrdered
<1>. QED  BY <1>1, <1>5, <1>8 DEF DesktopInv

\* The selection and the flags are all that a click or a key may change.
LEMMA SameBoard ==
    ASSUME DesktopInv, SmallTypes', UNCHANGED <<on, left, playerPos, reviveQueue>>
    PROVE  DesktopInv'
BY DEF DesktopInv

\* What a click leaves besides the board.
LEMMA ClickTypes ==
    ASSUME DesktopInv, Clicking, NEW i \in 1..3, Over(i) \/ ready' = ready, selected' \in Grids,
           playerPos' \in Grids, rested' \subseteq Treants
    PROVE  SmallTypes'
<1>1. ready \subseteq {"act", "move", "attack", "spell"}
  BY DEF DesktopInv, SmallTypes
<1>2. CASE Over(i)
  <2>1. ready' \subseteq ready
    BY <1>2 DEF Over
  <2>. QED  BY <1>1, <2>1 DEF DesktopInv, SmallTypes, Clicking
<1>3. CASE ready' = ready
  BY <1>3 DEF DesktopInv, SmallTypes, Clicking
<1>. QED  BY <1>2, <1>3

\* A click that moves a unit, or kills, keeps the board in order.
LEMMA ClickKeeps ==
    ASSUME DesktopInv, NEW g \in Grids,
           ClickMoves(g) \/ ClickKills(g)
    PROVE  DesktopInv'
<1>. USE DEF DesktopInv
<1>0. /\ on \in [Grids -> Units \cup {Nobody}] /\ selected \in Grids /\ rested \subseteq Treants
      /\ playerPos \in Grids /\ Spawn \in Grids
  BY DesktopAssumption DEF SmallTypes, Ordered, Board
<1>1. CASE ClickMoves(g)
  <2>1. Actor \in Units \ {Tree} /\ on[g] = Nobody
    BY <1>1, DesktopAssumption DEF ClickMoves, Walks, IsPlayer, Units, Summons, FreeGrids
  <2>2. on' = [on EXCEPT ![selected] = Nobody, ![g] = Actor]
    BY <1>1 DEF ClickMoves
  <2>3. /\ on' \in [Grids -> Units \cup {Nobody}]
        /\ \A h \in Grids : on'[h] = IF h = g THEN on[selected] ELSE IF h = selected THEN Nobody ELSE on[h]
    BY <1>0, <2>1, <2>2 DEF Actor
  <2>4. playerPos' = IF on[selected] = Hero THEN g ELSE playerPos
    BY <1>1 DEF ClickMoves, SetPlayer, Actor
  <2>5. Ordered(on', left, playerPos', reviveQueue)
    BY <1>0, <2>1, <2>3, <2>4, MovedOrdered DEF Actor
  <2>6. SmallTypes'
    BY <1>0, <1>1, <2>4, ClickTypes DEF ClickMoves
  <2>. QED  BY <1>1, <2>5, <2>6 DEF ClickMoves
<1>2. CASE ClickKills(g)
  <2>0. Clicking /\ rested' \subseteq Treants /\ left' = left
    BY <1>0, <1>2 DEF ClickKills
  <2>1. CASE BountyThrows(Actor, on)
    <3>1. selected' = g /\ UNCHANGED <<on, playerPos, reviveQueue, ready>>
      BY <1>2, <2>1 DEF ClickKills
    <3>2. SmallTypes'
      BY <1>0, <2>0, <3>1 DEF SmallTypes, Clicking
    <3>. QED  BY <2>0, <3>1, <3>2, SameBoard
  <2>2. CASE ~BountyThrows(Actor, on)
    <3>1. on' = [on EXCEPT ![g] = Nobody] /\ HeroIsDead(on[g]) /\ Over(2) /\ selected' \in Grids
      BY <1>2, <2>2 DEF ClickKills, Reselected
    <3>2. Ordered(on', left, playerPos', reviveQueue')
      BY <3>1, KilledOrdered
    <3>3. playerPos' \in Grids
      BY <3>2 DEF Ordered
    <3>4. SmallTypes'
      BY <2>0, <3>1, <3>3, ClickTypes
    <3>. QED  BY <2>0, <3>2, <3>4
  <2>. QED  BY <2>1, <2>2
<1>. QED  BY <1>1, <1>2

LEMMA CastKeeps ==
    ASSUME DesktopInv, NEW g \in Grids, CastSpell(g)
    PROVE  DesktopInv'
<1>. USE DEF DesktopInv
<1>0. /\ on \in [Grids -> Units \cup {Nobody}] /\ selected \in Grids /\ rested \subseteq Treants
      /\ playerPos \in Grids /\ left \in [Summons -> Nat]
      /\ Hero \in Units \ {Tree} /\ Nobody \notin Units /\ Hero \notin Creeps
      /\ Sprouts \subseteq Summons /\ Treants \subseteq Summons /\ Duration \in [Summons -> Nat]
  BY DesktopAssumption DEF SmallTypes, Ordered, Board, Units, Summons
<1>1. CASE CastRefused(g)
  <2>1. SmallTypes'
    BY <1>0, <1>1, ClickTypes DEF CastRefused, Castless, Casting
  <2>. QED  BY <1>1, <2>1 DEF CastRefused, Castless
<1>2. CASE teleport(g)
  <2>1. on[selected] = Hero /\ on[g] = Nobody /\ playerPos' = g
    BY <1>2 DEF teleport, Casting, Actor, FreeGrids, SetPlayer
  <2>2. on' = [on EXCEPT ![selected] = Nobody, ![g] = Hero]
    BY <1>2 DEF teleport
  <2>3. /\ on' \in [Grids -> Units \cup {Nobody}]
        /\ \A h \in Grids : on'[h] = IF h = g THEN on[selected] ELSE IF h = selected THEN Nobody ELSE on[h]
    BY <1>0, <2>1, <2>2
  <2>4. Ordered(on', left, playerPos', reviveQueue)
    BY <1>0, <2>1, <2>3, MovedOrdered
  <2>5. SmallTypes'
    BY <1>0, <1>2, <2>1, ClickTypes DEF teleport, Casting
  <2>. QED  BY <1>2, <2>4, <2>5 DEF teleport
<1>3. CASE summonStationaryCreatures(g)
  <2>1. PICK who \in SUBSET Away(Sprouts) : \E where \in Injection(who, FreeGrids) :
            on' = Summoned(on, who, where) /\ left' = Lasting(who)
    BY <1>3 DEF summonStationaryCreatures
  <2>2. PICK where \in Injection(who, FreeGrids) :
            on' = Summoned(on, who, where) /\ left' = Lasting(who)
    BY <2>1
  <2>3. /\ left' \in [Summons -> Nat]
        /\ \A u \in Summons : left'[u] = IF u \in who THEN Duration[u] ELSE left[u]
    BY <1>0, <2>2 DEF Lasting
  <2>4. /\ who \in SUBSET (Summons \cup Creeps) /\ \A u \in who : ~Stands(on, u)
        /\ FreeGrids \in SUBSET Grids /\ \A h \in FreeGrids : on[h] = Nobody
    BY <1>0 DEF Away, OnBoard, Stands, FreeGrids
  <2>5. Ordered(Summoned(on, who, where), left', playerPos, reviveQueue)
    BY <2>3, <2>4, SummonedOrdered
  <2>6. SmallTypes'
    BY <1>0, <1>3, ClickTypes DEF summonStationaryCreatures, Casting
  <2>. QED  BY <1>3, <2>2, <2>5, <2>6 DEF summonStationaryCreatures
<1>4. CASE attackAllEnemies(g)
  <2>1. PICK dead \in SUBSET {h \in Grids : on[h] \in Creeps} :
            on' = [h \in Grids |-> IF h \in dead THEN Nobody ELSE on[h]]
    BY <1>4 DEF attackAllEnemies
  <2>2. /\ on' \in [Grids -> Units \cup {Nobody}]
        /\ \A h \in Grids : on'[h] \in {Nobody, on[h]} /\ (on[h] = Hero => on'[h] = Hero)
    BY <1>0, <2>1
  <2>3. Ordered(on', left, playerPos, reviveQueue)
    BY <2>2, ClearedOrdered
  <2>4. SmallTypes'
    BY <1>0, <1>4, ClickTypes DEF attackAllEnemies, Casting
  <2>. QED  BY <1>4, <2>3, <2>4 DEF attackAllEnemies
<1>5. CASE convertTreeToCreatures(g)
  <2>1. PICK cut \in SUBSET {h \in Grids : on[h] = Tree}, who \in SUBSET Away(Treants) :
            \E where \in Injection(who, cut) :
                /\ on' = Summoned([h \in Grids |-> IF h \in cut THEN Nobody ELSE on[h]], who, where)
                /\ left' = Lasting(who) /\ rested' = rested \cup who
    BY <1>5 DEF convertTreeToCreatures
  <2>. DEFINE bare == [h \in Grids |-> IF h \in cut THEN Nobody ELSE on[h]]
  <2>2. PICK where \in Injection(who, cut) :
            on' = Summoned(bare, who, where) /\ left' = Lasting(who) /\ rested' = rested \cup who
    BY <2>1
  <2>3. /\ bare \in [Grids -> Units \cup {Nobody}]
        /\ \A h \in Grids : bare[h] \in {Nobody, on[h]} /\ (on[h] = Hero => bare[h] = Hero)
        /\ \A h \in cut : bare[h] = Nobody
    BY <1>0
  <2>. HIDE DEF bare
  <2>4. Ordered(bare, left, playerPos, reviveQueue)
    BY <2>3, ClearedOrdered
  <2>5. /\ left' \in [Summons -> Nat]
        /\ \A u \in Summons : left'[u] = IF u \in who THEN Duration[u] ELSE left[u]
    BY <1>0, <2>2 DEF Lasting
  <2>6. /\ who \in SUBSET (Summons \cup Creeps) /\ cut \in SUBSET Grids /\ who \subseteq Treants
        /\ \A u \in who : ~OnBoard(u) /\ u \in Units
    BY <1>0 DEF Away, Units
  <2>7. \A u \in who : ~Stands(bare, u)
    BY <1>0, <2>3, <2>6 DEF Stands, OnBoard
  <2>8. Ordered(Summoned(bare, who, where), left', playerPos, reviveQueue)
    BY <2>3, <2>4, <2>5, <2>6, <2>7, SummonedOrdered
  <2>9. SmallTypes'
    BY <1>0, <1>5, <2>2, <2>6, ClickTypes DEF convertTreeToCreatures, Casting
  <2>. QED  BY <1>5, <2>2, <2>8, <2>9 DEF convertTreeToCreatures
<1>. QED  BY <1>1, <1>2, <1>3, <1>4, <1>5 DEF CastSpell

LEMMA ClickInv ==
    ASSUME DesktopInv, NEW g \in Grids, invokeLeftClickEvent(g)
    PROVE  DesktopInv'
<1>0. /\ rested \subseteq Treants /\ playerPos \in Grids
      /\ DesktopInv
  BY DEF DesktopInv, SmallTypes
<1>1. CASE ClickLooks(g) \/ ClickThrows(g)
  <2>1. SmallTypes'
    BY <1>0, <1>1, ClickTypes DEF ClickLooks, ClickThrows
  <2>. QED  BY <1>1, <2>1, SameBoard DEF ClickLooks, ClickThrows
<1>2. CASE ClickRefused
  <2>1. SmallTypes'
    BY <1>0, <1>2, ClickTypes DEF ClickRefused, Reselected
  <2>. QED  BY <1>2, <2>1, SameBoard DEF ClickRefused
<1>3. CASE ClickHits(g)
  <2>1. SmallTypes'
    BY <1>0, <1>3, ClickTypes DEF ClickHits, Reselected
  <2>. QED  BY <1>3, <2>1, SameBoard DEF ClickHits
<1>. QED  BY <1>1, <1>2, <1>3, ClickKeeps, CastKeeps DEF invokeLeftClickEvent

LEMMA WalkedOrdered ==
    ASSUME DesktopInv, Acting \in Summons \cup Creeps, NEW to \in FreeGrids \cup {visited}
    PROVE  /\ Walked(Acting, to) \in [Grids -> Units \cup {Nobody}]
           /\ Ordered(Walked(Acting, to), left, playerPos, reviveQueue)
<1>. DEFINE b == Walked(Acting, to)
<1>0. /\ on \in [Grids -> Units \cup {Nobody}] /\ visited \in Grids
      /\ on[visited] \in Units \ {Tree} /\ on[visited] # Hero
      /\ to \in Grids /\ (to = visited \/ on[to] = Nobody)
  BY DesktopAssumption DEF DesktopInv, SmallTypes, Ordered, Board, Acting, Units, FreeGrids
<1>1. /\ b \in [Grids -> Units \cup {Nobody}]
      /\ \A h \in Grids : b[h] = IF h = to THEN on[visited] ELSE IF h = visited THEN Nobody ELSE on[h]
  BY <1>0 DEF Walked, Acting
<1>. HIDE DEF b
<1>2. playerPos = IF on[visited] = Hero THEN to ELSE playerPos
  BY <1>0
<1>3. Ordered(b, left, playerPos, reviveQueue)
  BY <1>0, <1>1, <1>2, MovedOrdered DEF DesktopInv
<1>. QED  BY <1>1, <1>3 DEF b

LEMMA VisitInv ==
    ASSUME DesktopInv, VisitActs \/ VisitKills \/ VisitThrows
    PROVE  DesktopInv'
<1>. USE DEF DesktopInv
<1>0. /\ visited \in Grids /\ playerPos \in Grids /\ selected \in Grids /\ rested \subseteq Treants
      /\ ready \subseteq {"act", "move", "attack", "spell"}
  BY DEF SmallTypes
<1>1. \A play \in Turns(Acting) :
          /\ play[2] \in FreeGrids \cup {visited}
          /\ "attack" \in play[1] => Acting \in Summons \cup Creeps
  BY <1>0 DEF Turns, CallsOf, MayAct, Summons
<1>2. GoOn => visited' \in Grids /\ stage' \in {"scan", "reset", stage}
  BY <1>0, DesktopAssumption DEF GoOn, Grids
<1>3. Abort => visited' \in Grids /\ stage' = "turn"
  BY DesktopAssumption DEF Abort, Grids
<1>4. \A u, acts, to : Tired(u, acts, to) => rested' \subseteq Treants
  BY <1>0 DEF Tired
<1>5. CASE VisitActs
  <2>1. PICK play \in Turns(Acting) :
            /\ ready' = ready \ play[1] /\ Tired(Acting, play[1], play[2])
            /\ Aged(Acting, Walked(Acting, play[2]))
    BY <1>5 DEF VisitActs
  <2>2. Ordered(Walked(Acting, play[2]), left, playerPos, reviveQueue)
    BY <1>1, <1>5, WalkedOrdered DEF VisitActs
  <2>3. Ordered(on', left', playerPos, reviveQueue)
    BY <1>0, <2>1, <2>2, AgedOrdered
  <2>4. SmallTypes'
    BY <1>0, <1>2, <1>4, <1>5, <2>1 DEF VisitActs, SmallTypes
  <2>. QED  BY <1>5, <2>3, <2>4 DEF VisitActs
<1>6. CASE VisitKills
  <2>1. PICK play \in Turns(Acting), g \in Grids :
          LET board == Walked(Acting, play[2])
          IN  /\ "attack" \in play[1] /\ board[g] \in Foes(Acting)
              /\ ~BountyThrows(Acting, board)
              /\ ready' = ready \ play[1] /\ Tired(Acting, play[1], play[2])
              /\ HeroIsDead(board[g])
              /\ Aged(Acting, [board EXCEPT ![g] = Nobody])
    BY <1>6 DEF VisitKills
  <2>. DEFINE board == Walked(Acting, play[2])
              c == [board EXCEPT ![g] = Nobody]
  <2>2. Ordered(board, left, playerPos, reviveQueue)
    BY <1>1, <2>1, WalkedOrdered
  <2>3. HeroIsDead(board[g]) /\ Aged(Acting, c)
    BY <2>1
  <2>. HIDE DEF board
  <2>4. Ordered(c, left, playerPos', reviveQueue')
    BY <2>2, <2>3, KilledOrdered
  <2>. HIDE DEF c
  <2>5. Ordered(on', left', playerPos', reviveQueue')
    BY <1>0, <2>3, <2>4, AgedOrdered
  <2>6. playerPos' \in Grids
    BY <2>5 DEF Ordered
  <2>7. SmallTypes'
    BY <1>0, <1>2, <1>4, <1>6, <2>1, <2>6 DEF VisitKills, SmallTypes
  <2>. QED  BY <2>5, <2>7
<1>7. CASE VisitThrows
  <2>1. SmallTypes'
    BY <1>0, <1>3, <1>4, <1>7 DEF VisitThrows, SmallTypes
  <2>2. left' = left /\ playerPos' = playerPos /\ reviveQueue' = reviveQueue
    BY <1>7 DEF VisitThrows
  <2>3. CASE on' = on
    BY <2>1, <2>2, <2>3
  <2>4. CASE \E play \in Turns(Acting) : "attack" \in play[1] /\ on' = Walked(Acting, play[2])
    <3>1. Ordered(on', left, playerPos, reviveQueue)
      BY <1>1, <2>4, WalkedOrdered
    <3>. QED  BY <2>1, <2>2, <3>1
  <2>. QED  BY <1>7, <2>3, <2>4 DEF VisitThrows
<1>. QED  BY <1>5, <1>6, <1>7

LEMMA NextRoundInv ==
    ASSUME DesktopInv, NextRound
    PROVE  DesktopInv'
<1>. USE DEF DesktopInv
<1>. DEFINE revival == Revived(on, reviveQueue)
<1>1. Ordered(revival[1], left, playerPos, revival[2]) /\ reviveQueue' = revival[2]
  BY RevivedOrdered DEF NextRound
<1>2. PICK trees \in {revival[1], TreesRevived(revival[1])} : on' \in WaveSpawned(trees)
  BY DEF NextRound
<1>. HIDE DEF revival
<1>3. Ordered(trees, left, playerPos, reviveQueue')
  BY <1>1, <1>2, TreesOrdered
<1>4. Ordered(on', left, playerPos, reviveQueue')
  <2>0. PICK who \in SUBSET (Creeps \ {trees[g] : g \in Grids}) :
            \E where \in Injection(who, {g \in Grids : trees[g] = Nobody}) :
                on' = Summoned(trees, who, where)
    BY <1>2 DEF WaveSpawned
  <2>1. PICK where \in Injection(who, {g \in Grids : trees[g] = Nobody}) :
            on' = Summoned(trees, who, where)
    BY <2>0
  <2>2. /\ who \in SUBSET (Summons \cup Creeps) /\ \A u \in who : ~Stands(trees, u)
        /\ left \in [Summons -> Nat]
        /\ \A u \in Summons : left[u] = IF u \in who THEN Duration[u] ELSE left[u]
    BY DesktopAssumption DEF Stands, Ordered
  <2>3. Ordered(Summoned(trees, who, where), left, playerPos, reviveQueue')
    BY <1>3, <2>2, SummonedOrdered
  <2>. QED  BY <2>1, <2>3
<1>5. SmallTypes'
  BY DEF NextRound, SmallTypes
<1>. QED  BY <1>4, <1>5 DEF NextRound

LEMMA DesktopNextInv == DesktopInv /\ [DesktopNext]_desktopVars => DesktopInv'
<1>. SUFFICES ASSUME DesktopInv, [DesktopNext]_desktopVars PROVE DesktopInv'
  OBVIOUS
<1>1. ASSUME NEW g \in Grids, invokeLeftClickEvent(g)
      PROVE  DesktopInv'
  BY <1>1, ClickInv
<1>2. ASSUME NEW flag \in {"move", "attack"}, Press(flag)
      PROVE  DesktopInv'
  <2>1. SmallTypes'
    BY <1>2 DEF DesktopInv, SmallTypes, Press
  <2>. QED  BY <1>2, <2>1, SameBoard DEF Press
<1>3. CASE PressSkill
  <2>1. SmallTypes'
    BY <1>3 DEF DesktopInv, SmallTypes, PressSkill
  <2>. QED  BY <1>3, <2>1, SameBoard DEF PressSkill
<1>4. CASE EndRound
  <2>1. SmallTypes'
    BY <1>4, DesktopAssumption DEF DesktopInv, SmallTypes, EndRound, Grids
  <2>. QED  BY <1>4, <2>1, SameBoard DEF EndRound
<1>5. CASE VisitNobody
  <2>1. SmallTypes'
    BY <1>5, DesktopAssumption DEF DesktopInv, SmallTypes, VisitNobody, GoOn, Grids
  <2>. QED  BY <1>5, <2>1, SameBoard DEF VisitNobody
<1>6. CASE UNCHANGED <<visited, on, left, rested, playerPos, reviveQueue, ready, selected>> /\ stage' \in {stage, "turn"}
  <2>1. SmallTypes'
    BY <1>6 DEF DesktopInv, SmallTypes
  <2>. QED  BY <1>6, <2>1, SameBoard
<1>7. CASE Reselect
  BY <1>1, <1>6, <1>7 DEF Reselect
<1>8. CASE UNCHANGED desktopVars
  BY <1>6, <1>8 DEF desktopVars
<1>. QED
  BY <1>1, <1>2, <1>3, <1>4, <1>5, <1>7, <1>8, VisitInv, NextRoundInv DEF DesktopNext

LEMMA InductiveDesktop == DesktopSpec => []DesktopInv
BY DesktopInitInv, DesktopNextInv, PTL DEF DesktopSpec

\* Nobody is ever on two grids, whatever walks, comes, dies and revives.
THEOREM DesktopTypeCorrect == DesktopSpec => []DesktopTypeOK
BY InductiveDesktop, DesktopInvImplies, PTL

\* The hero is where the player is said to be, or waits for one revival.
THEOREM HeroStaysInOnePlace == DesktopSpec => []HeroInOnePlace
BY InductiveDesktop, DesktopInvImplies, PTL
===============================================================================
