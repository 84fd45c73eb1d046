---------------------------- MODULE Sight_proofs ----------------------------
(***************************************************************************)
(* Proofs about Sight, for every board, every cast of units, every way in  *)
(* which obstacles hide grids, and pools of any size.                      *)
(*                                                                         *)
(* First the loops of getSight: ring by ring they come to every grid that  *)
(* is within sight, but for those left out, and to none of them twice      *)
(* (LooksWalk).  So what a unit sees is what is seen look by look.         *)
(*                                                                         *)
(* Then the threads: SightIsExact speaks of the end of a refresh only.     *)
(* What holds in between is which part of its looks a thread has behind    *)
(* it, which obstacles it remembers (UpToDate), and that whatever else is  *)
(* written goes to a map that is known to be late (ThreadInv).             *)
(***************************************************************************)
EXTENDS Sight, SequenceTheorems, WellFoundedInduction, TLAPS

-----------------------------------------------------------------------------
(* Induction over the naturals, with sets in place of predicates.          *)

\* A nonempty set of naturals has a smallest element.
LEMMA Smallest ==
    ASSUME NEW S, S \subseteq Nat, S # {}
    PROVE  \E x \in S : \A y \in S : x <= y
<1> DEFINE R == OpToRel(<, Nat)
<1>1. IsWellFoundedOn(R, Nat)
  BY NatLessThanWellFounded
<1>2. PICK x \in S : \A y \in S : ~ (<<y, x>> \in R)
  BY <1>1, WFMin
<1>3. \A y \in S : ~ (y < x)
  BY <1>2 DEF OpToRel
<1> QED
  BY <1>3

\* A set with 0 and with every successor holds all naturals.
LEMMA AllNaturals ==
    ASSUME NEW P \in SUBSET Nat, 0 \in P, \A n \in P : n + 1 \in P
    PROVE  P = Nat
<1> SUFFICES ASSUME Nat \ P # {}
             PROVE  FALSE
  OBVIOUS
<1>3. PICK m \in Nat \ P : \A k \in Nat \ P : m <= k
  BY Smallest
<1>4. m # 0 /\ m - 1 \in Nat /\ m - 1 < m
  OBVIOUS
<1>5. m - 1 \in P /\ (m - 1) + 1 = m
  BY <1>3, <1>4
<1> QED BY <1>3, <1>5

-----------------------------------------------------------------------------
(* Sequences without repetitions.                                          *)

\* A concatenation holds what its halves hold, and repeats nothing if they
\* repeat nothing and share nothing.
LEMMA Joined ==
    ASSUME NEW S, NEW s \in Seq(S), NEW t \in Seq(S)
    PROVE  /\ s \o t \in Seq(S)
           /\ ToSet(s \o t) = ToSet(s) \cup ToSet(t)
           /\ IsInjective(s) /\ IsInjective(t) /\ ToSet(s) \cap ToSet(t) = {} => IsInjective(s \o t)
<1> DEFINE j == s \o t
<1>1. /\ j \in Seq(S) /\ Len(j) = Len(s) + Len(t) /\ DOMAIN j = 1..(Len(s) + Len(t))
      /\ Len(s) \in Nat /\ Len(t) \in Nat /\ DOMAIN s = 1..Len(s) /\ DOMAIN t = 1..Len(t)
      /\ \A i \in 1..Len(s) : j[i] = s[i]
      /\ \A i \in (Len(s) + 1)..(Len(s) + Len(t)) : j[i] = t[i - Len(s)]
  OBVIOUS
<1> HIDE DEF j
<1>2. \A i \in 1..Len(t) : j[i + Len(s)] = t[i] /\ i + Len(s) \in DOMAIN j
  <2> TAKE i \in 1..Len(t)
  <2>1. i + Len(s) \in (Len(s) + 1)..(Len(s) + Len(t)) /\ (i + Len(s)) - Len(s) = i
    BY <1>1
  <2>2. i + Len(s) \in DOMAIN j
    BY ONLY <1>1, <2>1
  <2>3. j[i + Len(s)] = t[(i + Len(s)) - Len(s)]
    BY ONLY <1>1, <2>1
  <2> QED BY ONLY <2>1, <2>2, <2>3
<1>3. ToSet(j) = ToSet(s) \cup ToSet(t)
  <2>1. ToSet(j) \subseteq ToSet(s) \cup ToSet(t)
    <3> SUFFICES ASSUME NEW i \in DOMAIN j
                 PROVE  j[i] \in ToSet(s) \cup ToSet(t)
      BY DEF ToSet
    <3>1. CASE i <= Len(s)
      BY <1>1, <3>1 DEF ToSet
    <3>2. CASE i > Len(s)
      <4>1. i \in (Len(s) + 1)..(Len(s) + Len(t)) /\ i - Len(s) \in 1..Len(t)
        BY <1>1, <3>2
      <4>2. j[i] = t[i - Len(s)] /\ i - Len(s) \in DOMAIN t
        BY ONLY <1>1, <4>1
      <4> QED BY ONLY <4>2 DEF ToSet
    <3> QED BY <1>1, <3>1, <3>2
  <2>2. ToSet(s) \subseteq ToSet(j)
    <3> SUFFICES ASSUME NEW i \in DOMAIN s
                 PROVE  s[i] \in ToSet(j)
      BY DEF ToSet
    <3> QED BY <1>1 DEF ToSet
  <2>3. ToSet(t) \subseteq ToSet(j)
    <3> SUFFICES ASSUME NEW i \in DOMAIN t
                 PROVE  t[i] \in ToSet(j)
      BY DEF ToSet
    <3>1. t[i] = j[i + Len(s)] /\ i + Len(s) \in DOMAIN j
      BY <1>1, <1>2
    <3> QED BY ONLY <3>1 DEF ToSet
  <2> QED BY <2>1, <2>2, <2>3
<1>4. ASSUME IsInjective(s), IsInjective(t), ToSet(s) \cap ToSet(t) = {}
      PROVE  IsInjective(j)
  <2> SUFFICES ASSUME NEW a \in DOMAIN j, NEW b \in DOMAIN j, j[a] = j[b]
               PROVE  a = b
    BY DEF IsInjective
  <2>1. CASE a <= Len(s) /\ b <= Len(s)
    BY <1>1, <1>4, <2>1 DEF IsInjective
  <2>2. CASE a > Len(s) /\ b > Len(s)
    <3>5. /\ a \in (Len(s) + 1)..(Len(s) + Len(t)) /\ a - Len(s) \in DOMAIN t
          /\ b \in (Len(s) + 1)..(Len(s) + Len(t)) /\ b - Len(s) \in DOMAIN t
      BY <1>1, <2>2
    <3>1. a - Len(s) \in DOMAIN t /\ b - Len(s) \in DOMAIN t /\ t[a - Len(s)] = t[b - Len(s)]
      BY ONLY <1>1, <3>5, j[a] = j[b]
    <3>2. a - Len(s) = b - Len(s)
      BY <1>4, <3>1 DEF IsInjective
    <3> QED BY <1>1, <3>2
  <2>3. ASSUME NEW c \in DOMAIN j, NEW d \in DOMAIN j, c <= Len(s), d > Len(s)
        PROVE  j[c] # j[d]
    <3>1. c \in DOMAIN s /\ d - Len(s) \in DOMAIN t /\ d \in (Len(s) + 1)..(Len(s) + Len(t))
      BY ONLY <1>1, <2>3
    <3>2. j[c] = s[c] /\ j[d] = t[d - Len(s)]
      BY ONLY <1>1, <3>1
    <3>3. j[c] \in ToSet(s) /\ j[d] \in ToSet(t)
      BY <3>1, <3>2 DEF ToSet
    <3> QED BY <1>4, <3>3
  <2> QED BY <1>1, <2>1, <2>2, <2>3
<1> QED BY <1>1, <1>3, <1>4 DEF j

\* What FlattenSeq returns: the parts one after the other.
Parts(q) == UNION {ToSet(q[i]) : i \in DOMAIN q}

\* The function that FlattenSeq is defined with does exist: it can be extended to
\* one part more.
LEMMA FlattenDefined ==
    ASSUME NEW S, NEW q \in Seq(Seq(S)), q # << >>
    PROVE  \E f : /\ f = [i \in 1..Len(q) |-> IF i = 1 THEN q[i] ELSE f[i - 1] \o q[i]]
                  /\ FlattenSeq(q) = f[Len(q)]
<1> DEFINE Defines(f, n) == f = [i \in 1..n |-> IF i = 1 THEN q[i] ELSE f[i - 1] \o q[i]]
           P == {n \in Nat : \E f : Defines(f, n)}
<1>1. 0 \in P
  <2> DEFINE f == [i \in 1..0 |-> q[i]]
  <2>1. f = [i \in 1..0 |-> IF i = 1 THEN q[i] ELSE f[i - 1] \o q[i]]
    OBVIOUS
  <2>2. Defines(f, 0)
    BY <2>1
  <2> HIDE DEF Defines
  <2> QED BY <2>2
<1>2. ASSUME NEW n \in P
      PROVE  n + 1 \in P
  <2>1. PICK f : Defines(f, n)
    BY <1>2
  <2> DEFINE g == [i \in 1..(n + 1) |-> IF i = 1 THEN q[i] ELSE f[i - 1] \o q[i]]
  <2>2. ASSUME NEW i \in 1..n
        PROVE  g[i] = f[i]
    <3>1. f[i] = (IF i = 1 THEN q[i] ELSE f[i - 1] \o q[i])
      BY ONLY <2>1, <2>2
    <3>2. i \in 1..(n + 1)
      BY ONLY <1>2, <2>2
    <3> QED BY ONLY <3>1, <3>2
  <2>3. ASSUME NEW i \in 1..(n + 1), i # 1
        PROVE  g[i] = g[i - 1] \o q[i]
    <3>1. i - 1 \in 1..n
      BY <2>3
    <3> QED BY <2>2, <2>3, <3>1
  <2>4. \A i \in 1..(n + 1) : g[i] = (IF i = 1 THEN q[i] ELSE g[i - 1] \o q[i])
    BY <2>3
  <2>5. g = [i \in 1..(n + 1) |-> g[i]]
    OBVIOUS
  <2> HIDE DEF g
  <2>6. Defines(g, n + 1)
    BY <2>4, <2>5
  <2> HIDE DEF Defines
  <2> QED BY <2>6
<1>3. P = Nat
  <2> HIDE DEF P
  <2>1. P \in SUBSET Nat
    BY DEF P
  <2> QED BY <1>1, <1>2, <2>1, AllNaturals
<1>4. Len(q) \in Nat /\ Len(q) # 0
  OBVIOUS
<1>5. \E f : Defines(f, Len(q))
  BY <1>3, <1>4
<1> DEFINE F == CHOOSE f : Defines(f, Len(q))
<1>6. Defines(F, Len(q))
  <2> HIDE DEF Defines
  <2> QED BY <1>5
<1>7. FlattenSeq(q) = F[Len(q)]
  BY <1>4 DEF FlattenSeq
<1> HIDE DEF F
<1> QED BY <1>6, <1>7

\* A concatenation of many sequences, as Joined is of two
LEMMA Flattened ==
    ASSUME NEW S, NEW q \in Seq(Seq(S))
    PROVE  /\ FlattenSeq(q) \in Seq(S)
           /\ ToSet(FlattenSeq(q)) = Parts(q)
           /\ /\ \A i \in DOMAIN q : IsInjective(q[i])
              /\ \A i, j \in DOMAIN q : i < j => ToSet(q[i]) \cap ToSet(q[j]) = {}
              => IsInjective(FlattenSeq(q))
<1>1. CASE q = << >>
  BY <1>1 DEF FlattenSeq, ToSet, Parts, IsInjective
<1>2. CASE q # << >>
  <2>1. PICK f : /\ f = [i \in 1..Len(q) |-> IF i = 1 THEN q[i] ELSE f[i - 1] \o q[i]]
                 /\ FlattenSeq(q) = f[Len(q)]
    BY <1>2, FlattenDefined
  <2>2. Len(q) \in Nat /\ Len(q) # 0 /\ DOMAIN q = 1..Len(q) /\ \A i \in 1..Len(q) : q[i] \in Seq(S)
    BY <1>2
  <2>3. f[1] = q[1] /\ \A n \in 1..(Len(q) - 1) : f[n + 1] = f[n] \o q[n + 1]
    <3>1. ASSUME NEW n \in 1..(Len(q) - 1)
          PROVE  f[n + 1] = f[n] \o q[n + 1]
      <4>1. n + 1 \in 1..Len(q) /\ n + 1 # 1 /\ (n + 1) - 1 = n
        BY <2>2
      <4> QED BY ONLY <2>1, <4>1
    <3>2. f[1] = q[1]
      <4>1. 1 \in 1..Len(q)
        BY ONLY <2>2
      <4> QED BY ONLY <2>1, <4>1
    <3> QED BY ONLY <3>1, <3>2
  <2> DEFINE Kept == /\ \A i \in DOMAIN q : IsInjective(q[i])
                     /\ \A i, j \in DOMAIN q : i < j => ToSet(q[i]) \cap ToSet(q[j]) = {}
             Upto(n) == UNION {ToSet(q[i]) : i \in 1..n}
             Good(n) == /\ f[n] \in Seq(S)
                        /\ ToSet(f[n]) = Upto(n)
                        /\ Kept => IsInjective(f[n])
             P == {n \in Nat : n < Len(q) => Good(n + 1)}
  <2>4. 0 \in P
    <3>1. 1..1 = {1}
      OBVIOUS
    <3>2. Good(1)
      BY <2>2, <2>3, <3>1
    <3> HIDE DEF Good
    <3> QED BY <3>2
  <2>5. ASSUME NEW n \in P
        PROVE  n + 1 \in P
    <3> SUFFICES ASSUME n + 1 < Len(q)
                 PROVE  Good(n + 2)
      <4> HIDE DEF Good
      <4>1. n + 1 \in Nat /\ (n + 1) + 1 = n + 2
        OBVIOUS
      <4> QED BY <4>1
    <3>1. Good(n + 1)
      <4> HIDE DEF Good
      <4>1. n < Len(q)
        BY <2>2
      <4> QED BY <4>1
    <3>2. f[n + 2] = f[n + 1] \o q[n + 2] /\ n + 2 \in DOMAIN q
      <4>1. n + 1 \in 1..(Len(q) - 1) /\ n + 2 \in 1..Len(q) /\ (n + 1) + 1 = n + 2
        <5>1. n \in Nat
          OBVIOUS
        <5> QED BY ONLY <2>2, <5>1, n + 1 < Len(q)
      <4>2. f[(n + 1) + 1] = f[n + 1] \o q[(n + 1) + 1]
        BY ONLY <2>3, <4>1
      <4> QED BY ONLY <2>2, <4>1, <4>2
    <3>3. Upto(n + 2) = Upto(n + 1) \cup ToSet(q[n + 2])
      <4>1. 1..(n + 2) = 1..(n + 1) \cup {n + 2}
        OBVIOUS
      <4> QED BY <4>1
    <3>4. Kept => Upto(n + 1) \cap ToSet(q[n + 2]) = {}
      <4> SUFFICES ASSUME Kept, NEW i \in 1..(n + 1)
                   PROVE  ToSet(q[i]) \cap ToSet(q[n + 2]) = {}
        OBVIOUS
      <4>1. i \in DOMAIN q /\ i < n + 2
        BY <2>2
      <4> QED BY <3>2, <4>1
    <3>5. f[n + 1] \in Seq(S) /\ q[n + 2] \in Seq(S)
      BY <3>1, <3>2, <2>2
    <3> QED
      <4> HIDE DEF Upto
      <4>1. Kept => IsInjective(q[n + 2])
        BY <3>2
      <4>2. /\ f[n + 1] \o q[n + 2] \in Seq(S)
            /\ ToSet(f[n + 1] \o q[n + 2]) = ToSet(f[n + 1]) \cup ToSet(q[n + 2])
            /\ IsInjective(f[n + 1]) /\ IsInjective(q[n + 2]) /\ ToSet(f[n + 1]) \cap ToSet(q[n + 2]) = {}
               => IsInjective(f[n + 1] \o q[n + 2])
        BY ONLY <3>5, Joined
      <4> HIDE DEF Kept
      <4> QED BY ONLY <3>1, <3>2, <3>3, <3>4, <4>1, <4>2
  <2>6. P = Nat
    <3> HIDE DEF P
    <3>1. P \in SUBSET Nat
      BY DEF P
    <3> QED BY <2>4, <2>5, <3>1, AllNaturals
  <2>7. Good(Len(q))
    <3> HIDE DEF Good
    <3>1. Len(q) - 1 \in P
      <4> HIDE DEF P
      <4> QED BY <2>2, <2>6
    <3>2. (Len(q) - 1) + 1 = Len(q)
      BY <2>2
    <3> QED BY <2>2, <3>1, <3>2
  <2>8. Upto(Len(q)) = Parts(q)
    BY <2>2 DEF Parts
  <2> QED BY <2>1, <2>7, <2>8
<1> QED BY <1>1, <1>2
-----------------------------------------------------------------------------
(* The rings of getSight.                                                  *)

\* What Math.max and Math.min return
LEMMA MaxOfTwo ==
    ASSUME NEW a \in Int, NEW b \in Int
    PROVE  Max({a, b}) = IF a >= b THEN a ELSE b
<1> DEFINE m == IF a >= b THEN a ELSE b
<1>1. m \in {a, b} /\ \A y \in {a, b} : m >= y
  OBVIOUS
<1>2. \A x \in {a, b} : (\A y \in {a, b} : x >= y) => x = m
  OBVIOUS
<1> HIDE DEF m
<1>3. Max({a, b}) = m
  BY <1>1, <1>2 DEF Max
<1> QED BY <1>3 DEF m

LEMMA MinOfTwo ==
    ASSUME NEW a \in Int, NEW b \in Int
    PROVE  Min({a, b}) = IF a <= b THEN a ELSE b
<1> DEFINE m == IF a <= b THEN a ELSE b
<1>1. m \in {a, b} /\ \A y \in {a, b} : m <= y
  OBVIOUS
<1>2. \A x \in {a, b} : (\A y \in {a, b} : x <= y) => x = m
  OBVIOUS
<1> HIDE DEF m
<1>3. Min({a, b}) = m
  BY <1>1, <1>2 DEF Min
<1> QED BY <1>3 DEF m

\* The sides of a ring, each without one of its corners.
TopSide(p, r) == {c \in Cells : c[2] = p[2] - r /\ p[1] - r <= c[1] /\ c[1] < p[1] + r}
RightSide(p, r) == {c \in Cells : c[1] = p[1] + r /\ p[2] - r <= c[2] /\ c[2] < p[2] + r}
BottomSide(p, r) == {c \in Cells : c[2] = p[2] + r /\ p[1] - r < c[1] /\ c[1] <= p[1] + r /\ c[1] # 0}
LeftSide(p, r) == {c \in Cells : c[1] = p[1] - r /\ p[2] - r < c[2] /\ c[2] <= p[2] + r /\ c[2] # 0}

\* A loop of getSight that goes through the grids of S one by one
Walks(s, S) == s \in Seq(Cells) /\ IsInjective(s) /\ ToSet(s) = S

\* A walk given by its grids, one for every number from 1 to n
LEMMA WalkOf ==
    ASSUME NEW n \in Nat, NEW s, NEW S \in SUBSET Cells,
           s = [i \in 1..n |-> s[i]],
           \A i \in 1..n : s[i] \in S,
           \A i, j \in 1..n : s[i] = s[j] => i = j,
           \A c \in S : \E i \in 1..n : s[i] = c
    PROVE  Walks(s, S)
<1>1. s \in Seq(Cells) /\ DOMAIN s = 1..n
  <2>1. s \in [1..n -> Cells]
    OBVIOUS
  <2> QED BY <2>1
<1>2. IsInjective(s)
  BY <1>1 DEF IsInjective
<1>3. ToSet(s) = S
  BY <1>1 DEF ToSet
<1> QED BY <1>1, <1>2, <1>3 DEF Walks

\* The first loop of a ring: along the top, up to the corner on the right
LEMMA TopLoop ==
    ASSUME NEW p \in Cells, NEW r \in Nat \ {0}
    PROVE  LET left == Max({0, p[1] - r})
           IN  Walks(IF p[2] >= r
                       THEN Up(Min({Width, p[1] + r}) - left, LAMBDA i : <<left + i, p[2] - r>>) ELSE << >>,
                     TopSide(p, r))
<1> DEFINE left == IF 0 >= p[1] - r THEN 0 ELSE p[1] - r
           n == (IF Width <= p[1] + r THEN Width ELSE p[1] + r) - left
           s == [i \in 1..n |-> <<left + (i - 1), p[2] - r>>]
<1>1. p[1] \in 0..(Width - 1) /\ p[2] \in 0..(Height - 1) /\ Width \in Nat /\ Height \in Nat
  BY GridAssumption DEF Cells, Columns, Rows
<1>2. Max({0, p[1] - r}) = left /\ Min({Width, p[1] + r}) - left = n
  BY <1>1, MaxOfTwo, MinOfTwo
<1>3. left \in Nat /\ n \in Nat
  BY <1>1
<1>4. ASSUME p[2] >= r
      PROVE  Walks(s, TopSide(p, r))
  <2>1. \A i \in 1..n : s[i] \in TopSide(p, r)
    BY <1>1, <1>4 DEF TopSide, Cells, Columns, Rows
  <2>2. \A i, j \in 1..n : s[i] = s[j] => i = j
    BY <1>3
  <2>3. ASSUME NEW c \in TopSide(p, r)
        PROVE  \E i \in 1..n : s[i] = c
    <3>1. c[1] - left + 1 \in 1..n /\ c = <<c[1], c[2]>> /\ c[1] \in Nat
      BY <1>1, <2>3 DEF TopSide, Cells, Columns, Rows
    <3>2. s[c[1] - left + 1] = <<left + ((c[1] - left + 1) - 1), p[2] - r>>
      BY ONLY <3>1
    <3>3. left + ((c[1] - left + 1) - 1) = c[1] /\ c[2] = p[2] - r
      BY ONLY <1>3, <3>1, <2>3 DEF TopSide
    <3> QED BY ONLY <3>1, <3>2, <3>3
  <2>4. TopSide(p, r) \in SUBSET Cells /\ s = [i \in 1..n |-> s[i]]
    BY DEF TopSide
  <2> HIDE DEF s
  <2> QED BY ONLY <1>3, <2>1, <2>2, <2>3, <2>4, WalkOf
<1>5. ASSUME ~(p[2] >= r)
      PROVE  Walks(<< >>, TopSide(p, r))
  BY <1>1, <1>5 DEF TopSide, Walks, Cells, Columns, Rows, IsInjective, ToSet
<1> QED BY <1>2, <1>4, <1>5 DEF Up

\* The second loop: down the right edge
LEMMA RightLoop ==
    ASSUME NEW p \in Cells, NEW r \in Nat \ {0}
    PROVE  LET top == Max({0, p[2] - r})
           IN  Walks(IF p[1] + r < Width
                       THEN Up(Min({Height, p[2] + r}) - top, LAMBDA i : <<p[1] + r, top + i>>) ELSE << >>,
                     RightSide(p, r))
<1> DEFINE top == IF 0 >= p[2] - r THEN 0 ELSE p[2] - r
           n == (IF Height <= p[2] + r THEN Height ELSE p[2] + r) - top
           s == [i \in 1..n |-> <<p[1] + r, top + (i - 1)>>]
<1>1. p[1] \in 0..(Width - 1) /\ p[2] \in 0..(Height - 1) /\ Width \in Nat /\ Height \in Nat
  BY GridAssumption DEF Cells, Columns, Rows
<1>2. Max({0, p[2] - r}) = top /\ Min({Height, p[2] + r}) - top = n
  BY <1>1, MaxOfTwo, MinOfTwo
<1>3. top \in Nat /\ n \in Nat
  BY <1>1
<1>4. ASSUME p[1] + r < Width
      PROVE  Walks(s, RightSide(p, r))
  <2>1. \A i \in 1..n : s[i] \in RightSide(p, r)
    BY <1>1, <1>4 DEF RightSide, Cells, Columns, Rows
  <2>2. \A i, j \in 1..n : s[i] = s[j] => i = j
    BY <1>3
  <2>3. ASSUME NEW c \in RightSide(p, r)
        PROVE  \E i \in 1..n : s[i] = c
    <3>1. c[2] - top + 1 \in 1..n /\ c = <<c[1], c[2]>> /\ c[2] \in Nat
      BY <1>1, <2>3 DEF RightSide, Cells, Columns, Rows
    <3>2. s[c[2] - top + 1] = <<p[1] + r, top + ((c[2] - top + 1) - 1)>>
      BY ONLY <3>1
    <3>3. top + ((c[2] - top + 1) - 1) = c[2] /\ c[1] = p[1] + r
      BY ONLY <1>3, <3>1, <2>3 DEF RightSide
    <3> QED BY ONLY <3>1, <3>2, <3>3
  <2>4. RightSide(p, r) \in SUBSET Cells /\ s = [i \in 1..n |-> s[i]]
    BY DEF RightSide
  <2> HIDE DEF s
  <2> QED BY ONLY <1>3, <2>1, <2>2, <2>3, <2>4, WalkOf
<1>5. ASSUME ~(p[1] + r < Width)
      PROVE  Walks(<< >>, RightSide(p, r))
  BY <1>1, <1>5 DEF RightSide, Walks, Cells, Columns, Rows, IsInjective, ToSet
<1> QED BY <1>2, <1>4, <1>5 DEF Up

\* The last two loops run backwards and stop before the smallest coordinate.
LEMMA BottomLoop ==
    ASSUME NEW p \in Cells, NEW r \in Nat \ {0}
    PROVE  LET left == Max({0, p[1] - r})    right == Min({Width - 1, p[1] + r})
           IN  Walks(IF p[2] + r < Height
                       THEN Up(right - left, LAMBDA i : <<right - i, p[2] + r>>) ELSE << >>,
                     BottomSide(p, r))
<1> DEFINE left == IF 0 >= p[1] - r THEN 0 ELSE p[1] - r
           right == IF Width - 1 <= p[1] + r THEN Width - 1 ELSE p[1] + r
           n == right - left
           s == [i \in 1..n |-> <<right - (i - 1), p[2] + r>>]
<1>1. p[1] \in 0..(Width - 1) /\ p[2] \in 0..(Height - 1) /\ Width \in Nat /\ Height \in Nat
  BY GridAssumption DEF Cells, Columns, Rows
<1>2. Max({0, p[1] - r}) = left /\ Min({Width - 1, p[1] + r}) = right
  BY <1>1, MaxOfTwo, MinOfTwo
<1>3. left \in Nat /\ right \in Nat /\ n \in Nat
  BY <1>1
<1>4. ASSUME p[2] + r < Height
      PROVE  Walks(s, BottomSide(p, r))
  <2>1. \A i \in 1..n : s[i] \in BottomSide(p, r)
    BY <1>1, <1>4 DEF BottomSide, Cells, Columns, Rows
  <2>2. \A i, j \in 1..n : s[i] = s[j] => i = j
    BY <1>3
  <2>3. ASSUME NEW c \in BottomSide(p, r)
        PROVE  \E i \in 1..n : s[i] = c
    <3>1. right - c[1] + 1 \in 1..n /\ c = <<c[1], c[2]>> /\ c[1] \in Nat
      BY <1>1, <2>3 DEF BottomSide, Cells, Columns, Rows
    <3>2. s[right - c[1] + 1] = <<right - ((right - c[1] + 1) - 1), p[2] + r>>
      BY ONLY <3>1
    <3>3. right - ((right - c[1] + 1) - 1) = c[1] /\ c[2] = p[2] + r
      BY ONLY <1>3, <3>1, <2>3 DEF BottomSide
    <3> QED BY ONLY <3>1, <3>2, <3>3
  <2>4. BottomSide(p, r) \in SUBSET Cells /\ s = [i \in 1..n |-> s[i]]
    BY DEF BottomSide
  <2> HIDE DEF s
  <2> QED BY ONLY <1>3, <2>1, <2>2, <2>3, <2>4, WalkOf
<1>5. ASSUME ~(p[2] + r < Height)
      PROVE  Walks(<< >>, BottomSide(p, r))
  BY <1>1, <1>5 DEF BottomSide, Walks, Cells, Columns, Rows, IsInjective, ToSet
<1> QED BY <1>2, <1>4, <1>5 DEF Up

\* The last loop: up the left edge
LEMMA LeftLoop ==
    ASSUME NEW p \in Cells, NEW r \in Nat \ {0}
    PROVE  LET top == Max({0, p[2] - r})    bottom == Min({Height - 1, p[2] + r})
           IN  Walks(IF p[1] >= r
                       THEN Up(bottom - top, LAMBDA i : <<p[1] - r, bottom - i>>) ELSE << >>,
                     LeftSide(p, r))
<1> DEFINE top == IF 0 >= p[2] - r THEN 0 ELSE p[2] - r
           bottom == IF Height - 1 <= p[2] + r THEN Height - 1 ELSE p[2] + r
           n == bottom - top
           s == [i \in 1..n |-> <<p[1] - r, bottom - (i - 1)>>]
<1>1. p[1] \in 0..(Width - 1) /\ p[2] \in 0..(Height - 1) /\ Width \in Nat /\ Height \in Nat
  BY GridAssumption DEF Cells, Columns, Rows
<1>2. Max({0, p[2] - r}) = top /\ Min({Height - 1, p[2] + r}) = bottom
  BY <1>1, MaxOfTwo, MinOfTwo
<1>3. top \in Nat /\ bottom \in Nat /\ n \in Nat
  BY <1>1
<1>4. ASSUME p[1] >= r
      PROVE  Walks(s, LeftSide(p, r))
  <2>1. \A i \in 1..n : s[i] \in LeftSide(p, r)
    BY <1>1, <1>4 DEF LeftSide, Cells, Columns, Rows
  <2>2. \A i, j \in 1..n : s[i] = s[j] => i = j
    BY <1>3
  <2>3. ASSUME NEW c \in LeftSide(p, r)
        PROVE  \E i \in 1..n : s[i] = c
    <3>1. bottom - c[2] + 1 \in 1..n /\ c = <<c[1], c[2]>> /\ c[2] \in Nat
      BY <1>1, <2>3 DEF LeftSide, Cells, Columns, Rows
    <3>2. s[bottom - c[2] + 1] = <<p[1] - r, bottom - ((bottom - c[2] + 1) - 1)>>
      BY ONLY <3>1
    <3>3. bottom - ((bottom - c[2] + 1) - 1) = c[2] /\ c[1] = p[1] - r
      BY ONLY <1>3, <3>1, <2>3 DEF LeftSide
    <3> QED BY ONLY <3>1, <3>2, <3>3
  <2>4. LeftSide(p, r) \in SUBSET Cells /\ s = [i \in 1..n |-> s[i]]
    BY DEF LeftSide
  <2> HIDE DEF s
  <2> QED BY ONLY <1>3, <2>1, <2>2, <2>3, <2>4, WalkOf
<1>5. ASSUME ~(p[1] >= r)
      PROVE  Walks(<< >>, LeftSide(p, r))
  BY <1>1, <1>5 DEF LeftSide, Walks, Cells, Columns, Rows, IsInjective, ToSet
<1> QED BY <1>2, <1>4, <1>5 DEF Up

\* Two walks through sets with nothing in common make a walk through both.
LEMMA WalksJoined ==
    ASSUME NEW s, NEW t, NEW S, NEW T, Walks(s, S), Walks(t, T), S \cap T = {}
    PROVE  Walks(s \o t, S \cup T)
BY Joined DEF Walks

\* The largest of the two distances along an axis
AtRadius(p, c, r) ==
    /\ p[1] - r <= c[1] /\ c[1] <= p[1] + r
    /\ p[2] - r <= c[2] /\ c[2] <= p[2] + r
    /\ c[1] \in {p[1] - r, p[1] + r} \/ c[2] \in {p[2] - r, p[2] + r}

RingCells(p, r) == {c \in Cells : AtRadius(p, c, r) /\ ~LeftOut(p, c)}

\* A ring is a walk through the grids at its radius, without those left out.
LEMMA RingWalks ==
    ASSUME NEW p \in Cells, NEW r \in Nat \ {0}
    PROVE  Walks(Ring(p, r), RingCells(p, r))
<1>1. p[1] \in 0..(Width - 1) /\ p[2] \in 0..(Height - 1) /\ Width \in Nat /\ Height \in Nat
  BY GridAssumption DEF Cells, Columns, Rows
<1>2. PICK s1, s2, s3, s4 :
         /\ Ring(p, r) = s1 \o s2 \o s3 \o s4
         /\ Walks(s1, TopSide(p, r)) /\ Walks(s2, RightSide(p, r))
         /\ Walks(s3, BottomSide(p, r)) /\ Walks(s4, LeftSide(p, r))
  BY TopLoop, RightLoop, BottomLoop, LeftLoop DEF Ring
<1>3. \A c \in Cells : c[1] \in 0..(Width - 1) /\ c[2] \in 0..(Height - 1)
  BY DEF Cells, Columns, Rows
<1>4. TopSide(p, r) \cap RightSide(p, r) = {}
  BY <1>1, <1>3 DEF TopSide, RightSide
<1>5. (TopSide(p, r) \cup RightSide(p, r)) \cap BottomSide(p, r) = {}
  BY <1>1, <1>3 DEF TopSide, RightSide, BottomSide
<1>6. (TopSide(p, r) \cup RightSide(p, r) \cup BottomSide(p, r)) \cap LeftSide(p, r) = {}
  BY <1>1, <1>3 DEF TopSide, RightSide, BottomSide, LeftSide
<1>7. RingCells(p, r) = TopSide(p, r) \cup RightSide(p, r) \cup BottomSide(p, r) \cup LeftSide(p, r)
  BY <1>1, <1>3 DEF RingCells, AtRadius, LeftOut, TopSide, RightSide, BottomSide, LeftSide
<1>8. Walks(s1 \o s2, TopSide(p, r) \cup RightSide(p, r))
  BY ONLY <1>2, <1>4, WalksJoined
<1>9. Walks(s1 \o s2 \o s3, TopSide(p, r) \cup RightSide(p, r) \cup BottomSide(p, r))
  BY ONLY <1>2, <1>5, <1>8, WalksJoined
<1>10. Walks(s1 \o s2 \o s3 \o s4, TopSide(p, r) \cup RightSide(p, r) \cup BottomSide(p, r) \cup LeftSide(p, r))
  BY ONLY <1>2, <1>6, <1>9, WalksJoined
<1> QED BY ONLY <1>2, <1>7, <1>10

\* A number whose square is within the square of n lies between -n and n.
LEMMA Squares ==
    ASSUME NEW a \in Int, NEW n \in Nat, a * a <= n * n
    PROVE  -n <= a /\ a <= n
<1>1. ASSUME NEW b \in Nat, b > n
      PROVE  b * b > n * n
  <2>1. b * b >= b * n /\ b * n >= n * n /\ b * b - b * n = b * (b - n) /\ b * (b - n) > 0
    BY <1>1
  <2> QED BY <2>1
<1>2. a > n => FALSE
  BY <1>1
<1>3. -a > n => FALSE
  <2>1. (-a) * (-a) = a * a
    OBVIOUS
  <2> QED BY <1>1, <2>1
<1> QED BY <1>2, <1>3

\* The rings up to n are a walk through the square around p.
Around(p, n) ==
    {c \in Cells \ {p} : /\ p[1] - n <= c[1] /\ c[1] <= p[1] + n
                         /\ p[2] - n <= c[2] /\ c[2] <= p[2] + n
                         /\ ~LeftOut(p, c)}

\* Rings have nothing in common, and one goes through every grid near p.
LEMMA RingsWalk ==
    ASSUME NEW p \in Cells, NEW n \in Nat
    PROVE  Walks(FlattenSeq([r \in 1..n |-> Ring(p, r)]), Around(p, n))
<1> DEFINE q == [r \in 1..n |-> Ring(p, r)]
<1>1. p[1] \in Int /\ p[2] \in Int /\ \A c \in Cells : c[1] \in Int /\ c[2] \in Int
  BY GridAssumption DEF Cells, Columns, Rows
<1>2. \A r \in 1..n : Walks(q[r], RingCells(p, r))
  BY RingWalks
<1>3. q \in Seq(Seq(Cells)) /\ DOMAIN q = 1..n
  <2>1. q \in [1..n -> Seq(Cells)]
    BY <1>2 DEF Walks
  <2> QED BY <2>1
<1>4. \A i, j \in 1..n : i < j => RingCells(p, i) \cap RingCells(p, j) = {}
  BY <1>1 DEF RingCells, AtRadius
<1>5. UNION {RingCells(p, r) : r \in 1..n} = Around(p, n)
  <2>1. ASSUME NEW c \in Around(p, n)
        PROVE  \E r \in 1..n : c \in RingCells(p, r)
    <3>1. c[1] # p[1] \/ c[2] # p[2]
      BY <2>1 DEF Around, Cells
    <3> DEFINE r == IF Diff(c[1], p[1]) < Diff(c[2], p[2]) THEN Diff(c[2], p[2]) ELSE Diff(c[1], p[1])
    <3>2. /\ p[1] \in Int /\ p[2] \in Int /\ c[1] \in Int /\ c[2] \in Int
          /\ p[1] - n <= c[1] /\ c[1] <= p[1] + n /\ p[2] - n <= c[2] /\ c[2] <= p[2] + n
      BY <1>1, <2>1 DEF Around
    <3>3. r \in 1..n
      BY ONLY <3>1, <3>2, n \in Nat DEF Diff
    <3>4. AtRadius(p, c, r)
      BY ONLY <3>1, <3>2, n \in Nat DEF AtRadius, Diff
    <3> HIDE DEF r
    <3> QED BY <2>1, <3>3, <3>4 DEF RingCells, Around
  <2>2. ASSUME NEW r \in 1..n, NEW c \in RingCells(p, r)
        PROVE  c \in Around(p, n)
    BY <1>1 DEF RingCells, AtRadius, Around
  <2> QED BY <2>1, <2>2
<1> HIDE DEF q
<1>6. Parts(q) = Around(p, n)
  BY <1>2, <1>3, <1>5 DEF Parts, Walks
<1>7. /\ \A i \in DOMAIN q : IsInjective(q[i])
      /\ \A i, j \in DOMAIN q : i < j => ToSet(q[i]) \cap ToSet(q[j]) = {}
  BY <1>2, <1>3, <1>4 DEF Walks
<1>8. Walks(FlattenSeq(q), Around(p, n))
  BY <1>3, <1>6, <1>7, Flattened DEF Walks
<1> QED BY <1>8 DEF q

\* What a unit looks at: every grid within its sight, but for those left out, once.
InView(p, sight) == {c \in Cells \ {p} : WithinSight(p, c, sight) /\ ~LeftOut(p, c)}

\* The loops of getSight come to every grid within sight that is not left out, to
\* each of them once, and to nothing else.
THEOREM LooksWalk ==
    ASSUME NEW p \in Cells, NEW n \in Nat
    PROVE  Walks(Looks(p, n), InView(p, n))
<1> DEFINE around == FlattenSeq([r \in 1..n |-> Ring(p, r)])
           q == [k \in DOMAIN around |-> IF WithinSight(p, around[k], n) THEN <<around[k]>> ELSE << >>]
<1>1. Walks(around, Around(p, n))
  BY RingsWalk
<1>2. Looks(p, n) = FlattenSeq(q)
  BY DEF Looks
<1> HIDE DEF around
<1>3. around \in Seq(Cells) /\ DOMAIN around = 1..Len(around) /\ Len(around) \in Nat
  BY <1>1 DEF Walks
<1>4. q \in Seq(Seq(Cells)) /\ DOMAIN q = DOMAIN around
  <2>1. q \in [1..Len(around) -> Seq(Cells)]
    BY <1>3
  <2> QED BY <1>3, <2>1
<1>5. \A k \in DOMAIN around : ToSet(q[k]) = IF WithinSight(p, around[k], n) THEN {around[k]} ELSE {}
  BY DEF ToSet
<1>6. \A k \in DOMAIN q : IsInjective(q[k])
  BY DEF IsInjective
<1> HIDE DEF q
<1>7. \A i, j \in DOMAIN q : i < j => ToSet(q[i]) \cap ToSet(q[j]) = {}
  <2> SUFFICES ASSUME NEW i \in DOMAIN q, NEW j \in DOMAIN q, i < j,
                      NEW c \in ToSet(q[i]), c \in ToSet(q[j])
               PROVE  FALSE
    OBVIOUS
  <2>1. around[i] = c /\ around[j] = c /\ i \in DOMAIN around /\ j \in DOMAIN around
    BY <1>4, <1>5
  <2>2. i = j
    BY <1>1, <2>1 DEF Walks, IsInjective
  <2> QED BY <1>3, <2>1, <2>2
<1>8. Parts(q) = {c \in Around(p, n) : WithinSight(p, c, n)}
  <2>1. ASSUME NEW c \in Around(p, n), WithinSight(p, c, n)
        PROVE  c \in Parts(q)
    <3>1. PICK k \in DOMAIN around : around[k] = c
      BY <1>1 DEF Walks, ToSet
    <3> QED BY <1>4, <1>5, <2>1, <3>1 DEF Parts
  <2>2. ASSUME NEW k \in DOMAIN q, NEW c \in ToSet(q[k])
        PROVE  c \in Around(p, n) /\ WithinSight(p, c, n)
    <3>1. c = around[k] /\ WithinSight(p, around[k], n)
      BY <1>4, <1>5, <2>2
    <3> QED BY <1>1, <1>4, <3>1 DEF Walks, ToSet
  <2> QED BY <2>1, <2>2 DEF Parts
<1>9. {c \in Around(p, n) : WithinSight(p, c, n)} = InView(p, n)
  <2> SUFFICES ASSUME NEW c \in InView(p, n)
               PROVE  c \in Around(p, n)
    BY DEF InView, Around
  <2>1. p[1] \in Int /\ p[2] \in Int /\ c[1] \in Int /\ c[2] \in Int
    BY GridAssumption DEF Cells, Columns, Rows, InView
  <2> DEFINE a == c[1] - p[1]
             b == c[2] - p[2]
  <2>2. a * a + b * b <= n * n
    BY DEF InView, WithinSight, Square
  <2>3. a \in Int /\ b \in Int
    BY <2>1
  <2>4. a * a >= 0 /\ b * b >= 0 /\ a * a \in Int /\ b * b \in Int /\ n * n \in Int
    <3> HIDE DEF a, b
    <3> QED BY <2>3
  <2>5. a * a <= n * n /\ b * b <= n * n
    BY <2>2, <2>4
  <2>6. -n <= a /\ a <= n /\ -n <= b /\ b <= n
    <3> HIDE DEF a, b
    <3> QED BY <2>3, <2>5, Squares
  <2> QED BY <2>1, <2>6 DEF Around, InView
<1> QED BY <1>2, <1>4, <1>6, <1>7, <1>8, <1>9, Flattened DEF Walks

-----------------------------------------------------------------------------
(* What a thread has seen.                                                 *)

\* What LooksWalk says of the looks of a unit, index by index
LEMMA LooksOfUnit ==
    ASSUME NEW u \in Units, NEW p \in Cells
    PROVE  /\ LooksOf[u][p] \in Seq(Cells)
           /\ Len(LooksOf[u][p]) \in Nat
           /\ DOMAIN LooksOf[u][p] = 1..Len(LooksOf[u][p])
           /\ \A k \in 1..Len(LooksOf[u][p]) : LooksOf[u][p][k] \in InView(p, SightOf[u])
           /\ \A c \in InView(p, SightOf[u]) : \E k \in 1..Len(LooksOf[u][p]) : LooksOf[u][p][k] = c
           /\ \A j, k \in 1..Len(LooksOf[u][p]) : LooksOf[u][p][j] = LooksOf[u][p][k] => j = k
<1> DEFINE L == LooksOf[u][p]
<1>1. L = Looks(p, SightOf[u]) /\ SightOf[u] \in Nat
  BY SightAssumption DEF LooksOf
<1>2. Walks(L, InView(p, SightOf[u]))
  BY <1>1, LooksWalk
<1> HIDE DEF L
<1>3. L \in Seq(Cells) /\ IsInjective(L) /\ ToSet(L) = InView(p, SightOf[u])
  BY <1>2 DEF Walks
<1>4. Len(L) \in Nat /\ DOMAIN L = 1..Len(L)
  BY <1>3
<1>5. /\ \A k \in 1..Len(L) : L[k] \in InView(p, SightOf[u])
      /\ \A c \in InView(p, SightOf[u]) : \E k \in 1..Len(L) : L[k] = c
  BY <1>3, <1>4 DEF ToSet
<1>6. \A j, k \in 1..Len(L) : L[j] = L[k] => j = k
  BY <1>3, <1>4 DEF IsInjective
<1> QED BY <1>3, <1>4, <1>5, <1>6 DEF L

\* No obstacle that was looked at before hides what is looked at now.
Unhidden(u, p, k) ==
    \A j \in 1..(k - 1) :
        Obstacle(p, LooksOf[u][p][j]) => ~Hides(p, LooksOf[u][p][j], LooksOf[u][p][k])

SeenUpTo(u, p, n) == {p} \cup {LooksOf[u][p][k] : k \in {m \in 1..n : Unhidden(u, p, m)}}

ObstaclesUpTo(u, p, n) == {LooksOf[u][p][j] : j \in {m \in 1..n : Obstacle(p, LooksOf[u][p][m])}}

\* As no grid is looked at twice, what a unit sees is what is seen look by look.
LEMMA SeenLookByLook ==
    ASSUME NEW u \in Units, unitAt[u] \in Cells
    PROVE  SeenBy(u) = SeenUpTo(u, unitAt[u], Len(LooksOf[u][unitAt[u]]))
<1> DEFINE p == unitAt[u]
           L == LooksOf[u][p]
<1>1. /\ Len(L) \in Nat /\ DOMAIN L = 1..Len(L)
      /\ \A k \in 1..Len(L) : L[k] \in InView(p, SightOf[u]) /\ L[k] \in Cells
      /\ \A c \in InView(p, SightOf[u]) : \E k \in 1..Len(L) : L[k] = c
      /\ \A j, k \in 1..Len(L) : L[j] = L[k] => j = k
  BY LooksOfUnit DEF InView
<1>2. p \in SeenBy(u) /\ p \in SeenUpTo(u, p, Len(L))
  BY DEF SeenBy, SeenUpTo
<1>3. ASSUME NEW c \in SeenBy(u), c # p
      PROVE  c \in SeenUpTo(u, p, Len(L))
  <2>1. /\ c \in InView(p, SightOf[u])
        /\ \A o \in Cells : LookedAtBefore(u, p, o, c) /\ Obstacle(p, o) => ~Hides(p, o, c)
    BY <1>3 DEF SeenBy, InView
  <2>2. PICK k \in 1..Len(L) : L[k] = c
    BY <1>1, <2>1
  <2>3. Unhidden(u, p, k)
    <3> SUFFICES ASSUME NEW j \in 1..(k - 1), Obstacle(p, L[j])
                 PROVE  ~Hides(p, L[j], L[k])
      BY DEF Unhidden
    <3>1. j \in DOMAIN L /\ k \in DOMAIN L /\ j < k /\ L[j] \in Cells
      BY <1>1
    <3>2. LookedAtBefore(u, p, L[j], c)
      BY <2>2, <3>1 DEF LookedAtBefore
    <3> QED BY <2>1, <2>2, <3>1, <3>2
  <2> QED BY <2>2, <2>3 DEF SeenUpTo
<1>4. ASSUME NEW k \in 1..Len(L), Unhidden(u, p, k)
      PROVE  L[k] \in SeenBy(u)
  <2>1. ASSUME NEW o \in Cells, LookedAtBefore(u, p, o, L[k]), Obstacle(p, o)
        PROVE  ~Hides(p, o, L[k])
    <3>1. PICK j \in DOMAIN L, m \in DOMAIN L : j < m /\ L[j] = o /\ L[m] = L[k]
      BY <2>1 DEF LookedAtBefore
    <3>2. j \in 1..Len(L) /\ m \in 1..Len(L)
      BY ONLY <1>1, <3>1
    <3>3. m = k
      BY ONLY <1>1, <1>4, <3>1, <3>2
    <3>4. j \in 1..(k - 1)
      BY ONLY <1>1, <3>1, <3>2, <3>3
    <3> QED BY <1>4, <2>1, <3>1, <3>4 DEF Unhidden
  <2>2. L[k] \in InView(p, SightOf[u])
    BY <1>1
  <2> QED BY <2>1, <2>2 DEF SeenBy, InView
<1> QED BY <1>2, <1>3, <1>4 DEF SeenUpTo

\* As long as nobody comes, goes or moves, there is the same to be seen.
LEMMA StandStill ==
    ASSUME UNCHANGED standingVars
    PROVE  /\ \A p, o : Obstacle(p, o)' <=> Obstacle(p, o)
           /\ \A u, p, n : SeenUpTo(u, p, n)' = SeenUpTo(u, p, n)
           /\ \A u, p, n : ObstaclesUpTo(u, p, n)' = ObstaclesUpTo(u, p, n)
           /\ \A u : SeenBy(u)' = SeenBy(u)
           /\ \A t : SeenByTeam(t)' = SeenByTeam(t)
<1>1. unitAt' = unitAt /\ registered' = registered
  BY DEF standingVars
<1>2. Standing' = Standing
  BY <1>1 DEF Standing
<1>3. \A p, o : Obstacle(p, o)' <=> Obstacle(p, o)
  BY <1>2 DEF Obstacle
<1>4. \A u, p, k : Unhidden(u, p, k)' <=> Unhidden(u, p, k)
  BY <1>3 DEF Unhidden
<1>5. \A u, p, n : SeenUpTo(u, p, n)' = SeenUpTo(u, p, n)
  BY <1>4 DEF SeenUpTo
<1>6. \A u, p, n : ObstaclesUpTo(u, p, n)' = ObstaclesUpTo(u, p, n)
  BY <1>3 DEF ObstaclesUpTo
<1>7. \A u : SeenBy(u)' = SeenBy(u)
  BY <1>1, <1>3 DEF SeenBy
<1>8. \A t : SeenByTeam(t)' = SeenByTeam(t)
  BY <1>1, <1>7 DEF SeenByTeam
<1> QED BY <1>3, <1>5, <1>6, <1>7, <1>8

-----------------------------------------------------------------------------
(* The inductive invariant.                                                *)

Sighter == [unit : Units, slot : 0..PoolSize, at : {"position", "sight", "look"},
            grid : Cells \cup {NoCell}, look : Nat \ {0}, obstacles : SUBSET Cells]

\* Who is registered stands somewhere, and nobody else does.
SightTypes ==
    /\ registered \in SUBSET Units /\ unitAt \in [Units -> Cells \cup {NoCell}]
    /\ \A u \in Units : u \in registered <=> unitAt[u] # NoCell
    /\ teamSharedSight \in [SightTeams -> SUBSET Cells]
    /\ toSight \in SUBSET Units /\ count \in 0..PoolSize
    /\ sighting \in [Sighters -> Sighter \cup {Ended}]

\* What holds of every thread: a late one writes to a map that is known to be late.
ThreadInv(i) ==
    /\ sighting[i].at # "position" => sighting[i].grid \in Cells
    /\ sighting[i].at = "look" => sighting[i].look <= Len(LooksFrom(i))
    /\ sighting[i].at # "look" => sighting[i].look = 1 /\ sighting[i].obstacles = {}
    /\ sighting[i].slot = NoSlot => TeamOf[sighting[i].unit] \in late

\* What holds of a thread of the present refresh: it looks around from where its
\* unit stands, and has not missed anything so far.
UpToDate(i) ==
    LET s == sighting[i] IN
    /\ s.unit \in registered
    /\ s.at # "position" => s.grid = unitAt[s.unit]
    /\ s.at = "look" =>
          /\ SeenUpTo(s.unit, s.grid, s.look - 1) \subseteq teamSharedSight[TeamOf[s.unit]]
          /\ s.obstacles = ObstaclesUpTo(s.unit, s.grid, s.look - 1)

Present(i) == i \in Running /\ sighting[i].slot # NoSlot

\* From the clearing of the maps until the next move, a unit waits for its thread,
\* has one, or has been seen to; and nothing is in a map that does not belong there.
Refreshed ==
    /\ toSight \subseteq registered
    /\ rules = "play" => toSight = {}
    /\ \A i \in Sighters : Present(i) => UpToDate(i)
    /\ \A u \in registered \ toSight :
          \/ \E i \in Sighters : Present(i) /\ sighting[i].unit = u
          \/ SeenBy(u) \subseteq teamSharedSight[TeamOf[u]]
    /\ \A t \in SightTeams \ late : teamSharedSight[t] \subseteq SeenByTeam(t)

SightInv ==
    /\ SightTypes
    /\ \A i \in Running : ThreadInv(i)
    /\ rules \in {"start", "play"} => Refreshed

LEMMA SighterIsRunning ==
    \A s \in Sighter : s # Ended
<1> SUFFICES ASSUME NEW s \in Sighter, s = << >>
             PROVE  FALSE
  BY DEF Ended
<1>1. "unit" \in DOMAIN s
  BY DEF Sighter
<1>2. DOMAIN << >> = {}
  OBVIOUS
<1> QED BY <1>1, <1>2

LEMMA NoCellApart == NoCell \notin Cells
BY DEF NoCell, Cells

LEMMA SightInitInv == SightInit => SightInv
<1> SUFFICES ASSUME SightInit
             PROVE  SightInv
  OBVIOUS
<1>1. unitAt \in [Units -> Cells \cup {NoCell}]
  BY SightAssumption DEF SightInit
<1>2. Running = {}
  BY DEF SightInit, Running
<1>3. SightTypes
  BY <1>1, SightAssumption DEF SightInit, SightTypes, Sighter
<1> QED BY <1>2, <1>3 DEF SightInit, SightInv

\* The steps of the rules that move somebody or ask for new maps.
LEMMA RulesKeepInv ==
    ASSUME SightInv,
           UNCHANGED <<teamSharedSight, refreshVars, sighting>>,
           registered' \in SUBSET Units, unitAt' \in [Units -> Cells \cup {NoCell}],
           \A u \in Units : u \in registered' <=> unitAt'[u] # NoCell,
           rules' \notin {"start", "play"}
    PROVE  SightInv'
<1>1. /\ teamSharedSight' = teamSharedSight /\ toSight' = toSight /\ count' = count
      /\ late' = late /\ sighting' = sighting
  BY DEF refreshVars
<1>2. SightTypes'
  BY <1>1 DEF SightInv, SightTypes
<1>3. (\A i \in Running : ThreadInv(i))'
  BY <1>1 DEF SightInv, Running, ThreadInv, LooksFrom
<1> QED BY <1>2, <1>3 DEF SightInv

LEMMA FreeCells == Free \subseteq Cells
BY SightAssumption DEF Free

LEMMA UnitMovesInv ==
    ASSUME SightInv, NEW u \in Movers, NEW c \in Free \cup {unitAt[u]}, UnitMoves(u, c)
    PROVE  SightInv'
<1>1. u \in Units /\ SightTypes
  BY SightAssumption DEF SightInv
<1>2. c \in Cells
  BY <1>1, FreeCells DEF UnitMoves, SightTypes
<1>3. registered' = registered /\ unitAt' = [unitAt EXCEPT ![u] = c] /\ u \in registered
  BY DEF UnitMoves
<1>4. \A v \in Units : v \in registered' <=> unitAt'[v] # NoCell
  BY <1>1, <1>2, <1>3, NoCellApart DEF SightTypes
<1>5. registered' \in SUBSET Units /\ unitAt' \in [Units -> Cells \cup {NoCell}]
  BY <1>1, <1>2, <1>3 DEF SightTypes
<1>6. rules' \notin {"start", "play"} /\ UNCHANGED <<teamSharedSight, refreshVars, sighting>>
  BY DEF UnitMoves, Refresh
<1> QED BY <1>4, <1>5, <1>6, RulesKeepInv

LEMMA UnitFallsInv ==
    ASSUME SightInv, NEW u \in Comers, UnitFalls(u)
    PROVE  SightInv'
<1>1. u \in Units /\ SightTypes
  BY SightAssumption DEF SightInv
<1>2. registered' = registered \ {u} /\ unitAt' = [unitAt EXCEPT ![u] = NoCell]
  BY DEF UnitFalls
<1>3. \A v \in Units : v \in registered' <=> unitAt'[v] # NoCell
  BY <1>1, <1>2 DEF SightTypes
<1>4. registered' \in SUBSET Units /\ unitAt' \in [Units -> Cells \cup {NoCell}]
  BY <1>1, <1>2 DEF SightTypes
<1>5. rules' \notin {"start", "play"} /\ UNCHANGED <<teamSharedSight, refreshVars, sighting>>
  BY DEF UnitFalls, Refresh
<1> QED BY <1>3, <1>4, <1>5, RulesKeepInv

LEMMA PlacedInv ==
    ASSUME SightInv, NEW u \in (Comers \ registered) \cup (Movers \cap registered), NEW c \in Free,
           Placed(u, c)
    PROVE  SightInv'
<1>1. u \in Units /\ SightTypes /\ c \in Cells
  BY SightAssumption, FreeCells DEF SightInv
<1>2. registered' = registered \cup {u} /\ unitAt' = [unitAt EXCEPT ![u] = c]
  BY DEF Placed
<1>3. \A v \in Units : v \in registered' <=> unitAt'[v] # NoCell
  BY <1>1, <1>2, NoCellApart DEF SightTypes
<1>4. registered' \in SUBSET Units /\ unitAt' \in [Units -> Cells \cup {NoCell}]
  BY <1>1, <1>2 DEF SightTypes
<1>5. rules' \notin {"start", "play"} /\ UNCHANGED <<teamSharedSight, refreshVars, sighting>>
  BY DEF Placed
<1> QED BY <1>3, <1>4, <1>5, RulesKeepInv

LEMMA TurnInv ==
    ASSUME SightInv, TurnPasses \/ BeginTurn \/ CloseGame
    PROVE  SightInv'
<1>1. UNCHANGED <<standingVars, teamSharedSight, refreshVars, sighting>> /\ rules' \notin {"start", "play"}
  BY DEF TurnPasses, BeginTurn, CloseGame, Refresh
<1>2. unitAt' = unitAt /\ registered' = registered
  BY <1>1 DEF standingVars
<1> QED BY <1>1, <1>2, RulesKeepInv DEF SightInv, SightTypes

\* The maps are empty, every unit is still to be seen to, and who runs is late.
LEMMA ClearMapsInv ==
    ASSUME SightInv, ClearMaps
    PROVE  SightInv'
<1>1. SightTypes /\ \A i \in Running : ThreadInv(i)
  BY DEF SightInv
<1>2. /\ teamSharedSight' = [t \in SightTeams |-> {}] /\ toSight' = registered /\ count' = 0
      /\ unitAt' = unitAt /\ registered' = registered /\ UNCHANGED standingVars
      /\ sighting' = [i \in Sighters |->
                         IF i \in Running THEN [sighting[i] EXCEPT !.slot = NoSlot] ELSE Ended]
      /\ late' = {TeamOf[sighting[i].unit] : i \in Running}
  BY DEF ClearMaps, NewPool, standingVars
<1>3. \A i \in Running : i \in Sighters /\ sighting[i] \in Sighter
  BY <1>1 DEF Running, SightTypes
<1>4. PoolSize \in Nat \ {0} /\ NoSlot \in 0..PoolSize
  BY SightAssumption DEF NoSlot
<1>5. \A i \in Running :
         /\ sighting'[i] \in Sighter /\ sighting'[i].slot = NoSlot
         /\ sighting'[i].unit = sighting[i].unit /\ sighting'[i].at = sighting[i].at
         /\ sighting'[i].grid = sighting[i].grid /\ sighting'[i].look = sighting[i].look
         /\ sighting'[i].obstacles = sighting[i].obstacles
  BY <1>2, <1>3, <1>4 DEF Sighter
<1>6. \A i \in Sighters \ Running : sighting'[i] = Ended
  BY <1>2
<1>7. Running' = Running
  BY <1>3, <1>5, <1>6, SighterIsRunning DEF Running
<1>8. SightTypes'
  <2>1. sighting' \in [Sighters -> Sighter \cup {Ended}]
    BY <1>2, <1>5, <1>6
  <2>2. teamSharedSight' \in [SightTeams -> SUBSET Cells] /\ count' \in 0..PoolSize
    BY <1>2, <1>4
  <2> QED BY <1>1, <1>2, <2>1, <2>2 DEF SightTypes
<1>9. ASSUME NEW i \in Running
      PROVE  ThreadInv(i)'
  <2>1. LooksFrom(i)' = LooksFrom(i)
    BY <1>5 DEF LooksFrom
  <2>2. TeamOf[sighting'[i].unit] \in late'
    <3>1. TeamOf[sighting[i].unit] \in {TeamOf[sighting[j].unit] : j \in Running}
      OBVIOUS
    <3>2. sighting'[i].unit = sighting[i].unit
      BY <1>5
    <3> QED BY ONLY <1>2, <3>1, <3>2
  <2> QED BY <1>1, <1>5, <2>1, <2>2 DEF ThreadInv
<1>10. Refreshed'
  <2>1. \A i \in Sighters : ~Present(i)'
    BY <1>5, <1>7 DEF Present
  <2>2. rules' = "start"
    BY DEF ClearMaps
  <2>3. \A t \in SightTeams : teamSharedSight'[t] = {}
    BY <1>2
  <2> QED BY <1>2, <2>1, <2>2, <2>3 DEF Refreshed
<1> QED BY <1>7, <1>8, <1>9, <1>10 DEF SightInv

\* Nobody is left to be seen to by then.
LEMMA RefreshReturnsInv ==
    ASSUME SightInv, RefreshReturns
    PROVE  SightInv'
<1>1. /\ unitAt' = unitAt /\ registered' = registered /\ UNCHANGED standingVars
      /\ teamSharedSight' = teamSharedSight /\ toSight' = toSight /\ count' = count
      /\ late' = late /\ sighting' = sighting /\ toSight = {}
  BY DEF RefreshReturns, standingVars, refreshVars
<1>2. SightTypes'
  BY <1>1 DEF SightInv, SightTypes
<1>3. (\A i \in Running : ThreadInv(i))'
  BY <1>1 DEF SightInv, Running, ThreadInv, LooksFrom
<1>4. Refreshed
  BY DEF SightInv, RefreshReturns
<1>5. \A i \in Sighters : Present(i)' = Present(i)
  BY <1>1 DEF Present, Running
<1>6. ASSUME NEW i \in Sighters, Present(i)'
      PROVE  UpToDate(i)'
  BY <1>1, <1>4, <1>5, <1>6, StandStill DEF Refreshed, UpToDate
<1>7. Refreshed'
  BY <1>1, <1>4, <1>5, <1>6, StandStill DEF Refreshed
<1> QED BY <1>2, <1>3, <1>7 DEF SightInv

\* A unit changes from those to be seen to, to those that have a thread.
LEMMA StartThreadInv ==
    ASSUME SightInv, NEW u \in Units, StartThread(u)
    PROVE  SightInv'
<1> DEFINE new == [unit |-> u, slot |-> NextSlot, at |-> "position",
                   grid |-> NoCell, look |-> 1, obstacles |-> {}]
<1>1. SightTypes /\ (\A i \in Running : ThreadInv(i)) /\ Refreshed
  BY DEF SightInv, StartThread
<1>2. /\ unitAt' = unitAt /\ registered' = registered /\ UNCHANGED standingVars
      /\ teamSharedSight' = teamSharedSight /\ late' = late
      /\ toSight' = toSight \ {u} /\ count' = NextSlot + 1
      /\ sighting' = [sighting EXCEPT ![Min(Sighters \ Running)] = new]
      /\ u \in toSight /\ Running # Sighters /\ rules = "start" /\ rules' = "start"
  BY DEF StartThread, standingVars
<1>3. PICK n \in Sighters \ Running : n = Min(Sighters \ Running)
  <2>1. Sighters \ Running \subseteq Nat /\ Sighters \ Running # {}
    BY <1>2 DEF Sighters, Running
  <2>2. PICK x \in Sighters \ Running : \A y \in Sighters \ Running : x <= y
    BY <2>1, Smallest
  <2> QED BY <2>2 DEF Min
<1>4. NextSlot \in 0..PoolSize /\ NextSlot # NoSlot /\ NextSlot + 1 \in 0..PoolSize
  BY <1>1, SightAssumption DEF NextSlot, NoSlot, SightTypes
<1>5. new \in Sighter
  BY <1>4 DEF Sighter
<1>6. /\ sighting'[n] = new
      /\ \A i \in Sighters \ {n} : sighting'[i] = sighting[i]
  BY <1>1, <1>2, <1>3 DEF SightTypes
<1>7. /\ sighting'[n].unit = u /\ sighting'[n].slot = NextSlot /\ sighting'[n].at = "position"
      /\ sighting'[n].look = 1 /\ sighting'[n].obstacles = {} /\ sighting'[n] # Ended
  BY <1>5, <1>6, SighterIsRunning
<1> HIDE DEF new
<1>8. Running' = Running \cup {n} /\ n \notin Running
  BY <1>3, <1>6, <1>7 DEF Running
<1>9. SightTypes'
  <2>1. sighting' \in [Sighters -> Sighter \cup {Ended}]
    BY <1>1, <1>2, <1>5 DEF SightTypes
  <2> QED BY <1>1, <1>2, <1>4, <2>1 DEF SightTypes
<1>10. ASSUME NEW i \in Running'
       PROVE  ThreadInv(i)'
  <2>1. CASE i = n
    BY <1>4, <1>7, <2>1 DEF ThreadInv
  <2>2. CASE i # n
    <3>1. i \in Running /\ sighting'[i] = sighting[i]
      BY <1>6, <1>8, <2>2 DEF Running
    <3>2. ThreadInv(i) /\ LooksFrom(i)' = LooksFrom(i) /\ late' = late
      BY <1>1, <1>2, <3>1 DEF LooksFrom
    <3> QED BY ONLY <3>1, <3>2 DEF ThreadInv
  <2> QED BY <2>1, <2>2
<1>11. Refreshed'
  <2>1. \A i \in Sighters \ {n} : Present(i)' = Present(i)
    BY <1>6, <1>8 DEF Present
  <2>2. Present(n)'
    BY <1>4, <1>7, <1>8 DEF Present
  <2>3. ASSUME NEW i \in Sighters, Present(i)'
        PROVE  UpToDate(i)'
    <3>1. CASE i = n
      BY <1>1, <1>2, <1>7, <3>1 DEF UpToDate, Refreshed
    <3>2. CASE i # n
      <4>1. sighting'[i] = sighting[i] /\ UpToDate(i)
        BY <1>1, <1>6, <2>1, <2>3, <3>2 DEF Refreshed
      <4>2. /\ \A v, p, k : SeenUpTo(v, p, k)' = SeenUpTo(v, p, k)
            /\ \A v, p, k : ObstaclesUpTo(v, p, k)' = ObstaclesUpTo(v, p, k)
            /\ unitAt' = unitAt /\ registered' = registered /\ teamSharedSight' = teamSharedSight
        BY <1>2, StandStill
      <4> QED BY ONLY <4>1, <4>2 DEF UpToDate
    <3> QED BY <3>1, <3>2
  <2>4. ASSUME NEW v \in registered' \ toSight'
        PROVE  \/ \E i \in Sighters : Present(i)' /\ sighting'[i].unit = v
               \/ SeenBy(v)' \subseteq teamSharedSight'[TeamOf[v]]
    <3>1. CASE v = u
      BY <1>3, <1>7, <2>2, <3>1
    <3>2. CASE v # u
      <4>1. v \in registered \ toSight
        BY <1>2, <2>4, <3>2
      <4>2. CASE SeenBy(v) \subseteq teamSharedSight[TeamOf[v]]
        BY <1>2, <4>2, StandStill
      <4>3. ASSUME NEW i \in Sighters, Present(i), sighting[i].unit = v
            PROVE  Present(i)' /\ sighting'[i].unit = v
        BY <1>6, <1>8, <2>1, <4>3 DEF Present
      <4> QED BY <1>1, <4>1, <4>2, <4>3 DEF Refreshed
    <3> QED BY <3>1, <3>2
  <2>5. toSight' \subseteq registered' /\ rules' # "play"
    BY <1>1, <1>2 DEF Refreshed
  <2>6. \A t \in SightTeams \ late' : teamSharedSight'[t] \subseteq SeenByTeam(t)'
    BY <1>1, <1>2, StandStill DEF Refreshed
  <2> QED BY <2>3, <2>4, <2>5, <2>6 DEF Refreshed
<1> QED BY <1>9, <1>10, <1>11 DEF SightInv

\* A step of one thread that adds the grids of C to a map: the thread stays as it
\* should be, a unit that is left without its thread has been seen to, and what is
\* added to the map of a team that is not late can be seen.
StepOf(i, s, C) ==
    /\ UNCHANGED threadsOnly
    /\ sighting' = [sighting EXCEPT ![i] = s]
    /\ teamSharedSight' = [teamSharedSight EXCEPT ![TeamOf[sighting[i].unit]] = @ \cup C]
    /\ s # Ended => ThreadInv(i)' /\ s.unit = sighting[i].unit /\ s.slot = sighting[i].slot
    /\ UpToDate(i) =>
          /\ s # Ended => UpToDate(i)'
          /\ s = Ended => SeenBy(sighting[i].unit) \subseteq teamSharedSight'[TeamOf[sighting[i].unit]]
          /\ C \subseteq SeenBy(sighting[i].unit)

\* Such a step keeps the invariant, whatever the other threads are at.
LEMMA SightingInv ==
    ASSUME SightInv, NEW i \in Running, NEW s \in Sighter \cup {Ended}, NEW C \in SUBSET Cells,
           StepOf(i, s, C)
    PROVE  SightInv'
<1> DEFINE u == sighting[i].unit
<1> USE DEF StepOf
<1>1. SightTypes /\ (\A j \in Running : ThreadInv(j)) /\ i \in Sighters /\ sighting[i] # Ended
  BY DEF SightInv, Running
<1>2. /\ unitAt' = unitAt /\ registered' = registered /\ UNCHANGED standingVars
      /\ late' = late /\ toSight' = toSight /\ count' = count /\ rules' = rules
  BY DEF threadsOnly, standingVars, refreshVars
<1>3. u \in Units /\ TeamOf[u] \in SightTeams
  BY <1>1 DEF SightTypes, Sighter, SightTeams
<1>4. /\ sighting'[i] = s
      /\ \A j \in Sighters \ {i} : sighting'[j] = sighting[j]
      /\ sighting' \in [Sighters -> Sighter \cup {Ended}]
  BY <1>1 DEF SightTypes
<1>5. /\ teamSharedSight' \in [SightTeams -> SUBSET Cells]
      /\ teamSharedSight'[TeamOf[u]] = teamSharedSight[TeamOf[u]] \cup C
      /\ \A t \in SightTeams : teamSharedSight[t] \subseteq teamSharedSight'[t]
      /\ \A t \in SightTeams \ {TeamOf[u]} : teamSharedSight'[t] = teamSharedSight[t]
  BY <1>1, <1>3 DEF SightTypes
<1>6. Running' = IF s = Ended THEN Running \ {i} ELSE Running
  BY <1>1, <1>4 DEF Running
<1>7. SightTypes'
  BY <1>1, <1>2, <1>4, <1>5 DEF SightTypes
<1>8. ASSUME NEW j \in Running'
      PROVE  ThreadInv(j)'
  <2>1. CASE j = i
    BY <1>6, <2>1
  <2>2. CASE j # i
    <3>1. j \in Running /\ sighting'[j] = sighting[j]
      BY <1>4, <1>6, <2>2 DEF Running
    <3> QED BY <1>1, <1>2, <3>1 DEF ThreadInv, LooksFrom
  <2> QED BY <2>1, <2>2
<1>9. ASSUME rules \in {"start", "play"}
      PROVE  Refreshed'
  <2>1. Refreshed
    BY <1>9 DEF SightInv
  <2>2. \A j \in Sighters \ {i} : Present(j)' = Present(j)
    BY <1>4, <1>6 DEF Present
  <2>3. Present(i)' = (Present(i) /\ s # Ended)
    BY <1>4, <1>6 DEF Present
  <2>4. Present(i) => UpToDate(i)
    BY <1>1, <2>1 DEF Refreshed
  <2>5. ASSUME NEW j \in Sighters, Present(j)'
        PROVE  UpToDate(j)'
    <3>1. CASE j = i
      BY <2>3, <2>4, <2>5, <3>1
    <3>2. CASE j # i
      <4>1. sighting'[j] = sighting[j] /\ UpToDate(j)
        BY <1>4, <2>1, <2>2, <2>5, <3>2 DEF Refreshed
      <4>2. sighting[j] \in Sighter /\ TeamOf[sighting[j].unit] \in SightTeams
        BY <1>1, <2>2, <2>5, <3>2 DEF Present, Running, SightTypes, Sighter, SightTeams
      <4> QED BY <1>2, <1>5, <4>1, <4>2, StandStill DEF UpToDate
    <3> QED BY <3>1, <3>2
  <2>6. ASSUME NEW v \in registered' \ toSight'
        PROVE  \/ \E j \in Sighters : Present(j)' /\ sighting'[j].unit = v
               \/ SeenBy(v)' \subseteq teamSharedSight'[TeamOf[v]]
    <3>1. v \in registered \ toSight /\ v \in Units /\ TeamOf[v] \in SightTeams
      BY <1>1, <1>2, <2>6 DEF SightTypes, SightTeams
    <3>2. CASE SeenBy(v) \subseteq teamSharedSight[TeamOf[v]]
      BY <1>2, <1>5, <3>1, <3>2, StandStill
    <3>3. ASSUME NEW j \in Sighters, Present(j), sighting[j].unit = v
          PROVE  \/ Present(j)' /\ sighting'[j].unit = v
                 \/ SeenBy(v)' \subseteq teamSharedSight'[TeamOf[v]]
      <4>1. CASE j # i
        BY <1>4, <2>2, <3>3, <4>1
      <4>2. CASE j = i /\ s # Ended
        BY <1>4, <2>3, <3>3, <4>2
      <4>3. CASE j = i /\ s = Ended
        BY <1>2, <2>4, <3>3, <4>3, StandStill
      <4> QED BY <4>1, <4>2, <4>3
    <3> QED BY <2>1, <3>1, <3>2, <3>3 DEF Refreshed
  <2>7. ASSUME NEW t \in SightTeams \ late'
        PROVE  teamSharedSight'[t] \subseteq SeenByTeam(t)'
    <3>1. teamSharedSight[t] \subseteq SeenByTeam(t)
      BY <1>2, <2>1, <2>7 DEF Refreshed
    <3>2. CASE t # TeamOf[u]
      BY <1>2, <1>5, <3>1, <3>2, StandStill
    <3>3. CASE t = TeamOf[u]
      <4>1. Present(i)
        BY <1>1, <1>2, <2>7, <3>3 DEF Present, ThreadInv
      <4>2. C \subseteq SeenBy(u) /\ u \in registered
        BY <2>4, <4>1 DEF UpToDate
      <4>3. SeenBy(u) \subseteq SeenByTeam(t)
        BY <1>1, <1>3, <3>3, <4>2 DEF SeenByTeam, SightTypes
      <4> QED BY <1>2, <1>5, <3>1, <3>3, <4>2, <4>3, StandStill
    <3> QED BY <3>2, <3>3
  <2> QED BY <1>2, <2>1, <2>5, <2>6, <2>7 DEF Refreshed
<1> QED BY <1>2, <1>7, <1>8, <1>9 DEF SightInv

\* A thread that fails changes nothing.
LEMMA FailureInv ==
    ASSUME SightInv, UNCHANGED <<threadsOnly, teamSharedSight, sighting>>
    PROVE  SightInv'
<1>1. /\ unitAt' = unitAt /\ registered' = registered /\ UNCHANGED standingVars
      /\ teamSharedSight' = teamSharedSight /\ toSight' = toSight /\ count' = count
      /\ late' = late /\ sighting' = sighting /\ rules' = rules
  BY DEF threadsOnly, standingVars, refreshVars
<1>2. SightTypes'
  BY <1>1 DEF SightInv, SightTypes
<1>3. (\A i \in Running : ThreadInv(i))'
  BY <1>1 DEF SightInv, Running, ThreadInv, LooksFrom
<1>4. \A i \in Sighters : Present(i)' = Present(i)
  BY <1>1 DEF Present, Running
<1>5. ASSUME NEW i \in Sighters, UpToDate(i)
      PROVE  UpToDate(i)'
  BY <1>1, <1>5, StandStill DEF UpToDate
<1>6. Refreshed => Refreshed'
  BY <1>1, <1>4, <1>5, StandStill DEF Refreshed
<1> QED BY <1>1, <1>2, <1>3, <1>6 DEF SightInv

\* A unit that is nowhere is not registered, so its thread is a late one.
LEMMA LooksUpPositionInv ==
    ASSUME SightInv, NEW i \in Sighters, LooksUpPosition(i)
    PROVE  SightInv'
<1> DEFINE u == sighting[i].unit
<1>1. SightTypes /\ i \in Running /\ sighting[i] \in Sighter /\ sighting[i] # Ended /\ u \in Units
      /\ ThreadInv(i) /\ TeamOf[u] \in SightTeams /\ sighting[i].at = "position"
  BY DEF SightInv, LooksUpPosition, Running, SightTypes, Sighter, SightTeams
<1>2. UNCHANGED threadsOnly /\ teamSharedSight' = teamSharedSight
      /\ unitAt' = unitAt /\ registered' = registered /\ late' = late
  BY DEF LooksUpPosition, threadsOnly, standingVars, refreshVars
<1>3. teamSharedSight' = [teamSharedSight EXCEPT ![TeamOf[u]] = @ \cup {}]
  BY <1>1, <1>2 DEF SightTypes
<1>4. CASE UNCHANGED sighting
  BY <1>2, <1>4, FailureInv
<1>5. CASE unitAt[u] = NoCell /\ sighting' = [sighting EXCEPT ![i] = Ended]
  <2>1. ~UpToDate(i)
    BY <1>1, <1>5 DEF UpToDate, SightTypes
  <2>2. StepOf(i, Ended, {})
    BY <1>2, <1>3, <1>5, <2>1 DEF StepOf
  <2> QED BY <1>1, <2>2, SightingInv
<1>6. CASE unitAt[u] # NoCell
           /\ sighting' = [sighting EXCEPT ![i] = [@ EXCEPT !.at = "sight", !.grid = unitAt[u]]]
  <2>1. PICK s \in Sighter : /\ sighting' = [sighting EXCEPT ![i] = s]
                             /\ s.unit = u /\ s.slot = sighting[i].slot
                             /\ s.at = "sight" /\ s.grid = unitAt[u]
                             /\ s.look = sighting[i].look /\ s.obstacles = sighting[i].obstacles
    <3> DEFINE s == [sighting[i] EXCEPT !.at = "sight", !.grid = unitAt[u]]
    <3>1. s \in Sighter /\ s.unit = u /\ s.slot = sighting[i].slot /\ s.at = "sight" /\ s.grid = unitAt[u]
          /\ s.look = sighting[i].look /\ s.obstacles = sighting[i].obstacles
      BY <1>1 DEF SightTypes, Sighter
    <3>2. sighting' = [sighting EXCEPT ![i] = s]
      BY <1>6
    <3> HIDE DEF s
    <3> QED BY <3>1, <3>2
  <2>2. sighting'[i] = s /\ unitAt[u] \in Cells
    BY <1>1, <1>6, <2>1 DEF SightTypes, Running
  <2>3. ThreadInv(i)'
    BY <1>1, <1>2, <2>1, <2>2 DEF ThreadInv
  <2>4. UpToDate(i) => UpToDate(i)'
    BY <1>2, <2>1, <2>2 DEF UpToDate
  <2>5. s # Ended
    BY SighterIsRunning
  <2>6. StepOf(i, s, {})
    BY <1>2, <1>3, <2>1, <2>3, <2>4, <2>5 DEF StepOf
  <2> QED BY <1>1, <2>6, SightingInv
<1> QED BY <1>4, <1>5, <1>6 DEF LooksUpPosition

\* The first grid that a unit sees is its own.
LEMMA LooksUpSightInv ==
    ASSUME SightInv, NEW i \in Sighters, LooksUpSight(i)
    PROVE  SightInv'
<1>0. PICK u, p : u = sighting[i].unit /\ p = sighting[i].grid
  OBVIOUS
<1>1. SightTypes /\ i \in Running /\ sighting[i] \in Sighter /\ sighting[i] # Ended /\ u \in Units
      /\ ThreadInv(i) /\ TeamOf[u] \in SightTeams /\ sighting[i].at = "sight"
  BY <1>0 DEF SightInv, LooksUpSight, Running, SightTypes, Sighter, SightTeams
<1>2. /\ UNCHANGED threadsOnly /\ UNCHANGED standingVars
      /\ unitAt' = unitAt /\ registered' = registered /\ late' = late
  BY DEF LooksUpSight, threadsOnly, standingVars, refreshVars
<1>3. p \in Cells /\ sighting[i].look = 1 /\ sighting[i].obstacles = {}
  BY <1>0, <1>1 DEF ThreadInv
<1>4. CASE UNCHANGED <<sighting, teamSharedSight>>
  BY <1>2, <1>4, FailureInv
<1>5. CASE /\ teamSharedSight' = [teamSharedSight EXCEPT ![TeamOf[u]] = @ \cup {p}]
           /\ sighting' = [sighting EXCEPT ![i] =
                             IF LooksFrom(i) = << >> THEN Ended ELSE [@ EXCEPT !.at = "look"]]
  <2> DEFINE s == IF LooksFrom(i) = << >> THEN Ended ELSE [sighting[i] EXCEPT !.at = "look"]
  <2>1. sighting' = [sighting EXCEPT ![i] = s]
    BY <1>5
  <2>2. s \in Sighter \cup {Ended}
    BY <1>1 DEF Sighter
  <2>3. LooksFrom(i) # << >> =>
           /\ s.unit = u /\ s.slot = sighting[i].slot /\ s.at = "look" /\ s.grid = p
           /\ s.look = 1 /\ s.obstacles = {}
    BY <1>0, <1>1, <1>3 DEF Sighter
  <2>4. s = Ended <=> LooksFrom(i) = << >>
    BY <1>1, SighterIsRunning DEF Sighter
  <2> HIDE DEF s
  <2>5. LooksFrom(i) = LooksOf[u][p] /\ LooksOf[u][p] \in Seq(Cells) /\ Len(LooksOf[u][p]) \in Nat
    BY <1>0, <1>1, <1>3, LooksOfUnit DEF LooksFrom
  <2>6. sighting'[i] = s
    BY <1>1, <2>1 DEF SightTypes, Running
  <2>7. teamSharedSight'[TeamOf[u]] = teamSharedSight[TeamOf[u]] \cup {p}
    BY <1>1, <1>5 DEF SightTypes
  <2>8. SeenUpTo(u, p, 0) = {p} /\ ObstaclesUpTo(u, p, 0) = {}
    BY DEF SeenUpTo, ObstaclesUpTo
  <2>9. ASSUME s # Ended
        PROVE  ThreadInv(i)' /\ s.unit = u /\ s.slot = sighting[i].slot
    <3>1. Len(LooksOf[u][p]) >= 1
      BY <2>4, <2>5, <2>9
    <3>2. LooksFrom(i)' = LooksOf[u][p]
      BY <2>3, <2>4, <2>6, <2>9 DEF LooksFrom
    <3>3. /\ sighting'[i].at = "look" /\ sighting'[i].grid = p /\ sighting'[i].look = 1
          /\ sighting'[i].unit = u /\ sighting'[i].slot = sighting[i].slot
      BY <2>3, <2>4, <2>6, <2>9
    <3>4. sighting[i].slot = NoSlot => TeamOf[u] \in late'
      BY <1>0, <1>1, <1>2 DEF ThreadInv
    <3>5. ThreadInv(i)'
      BY ONLY <1>3, <3>1, <3>2, <3>3, <3>4 DEF ThreadInv
    <3> QED BY <2>3, <2>4, <2>9, <3>5
  <2>10. ASSUME UpToDate(i)
         PROVE  /\ s # Ended => UpToDate(i)'
                /\ s = Ended => SeenBy(u) \subseteq teamSharedSight'[TeamOf[u]]
                /\ {p} \subseteq SeenBy(u)
    <3>1. u \in registered /\ p = unitAt[u]
      BY <1>0, <1>1, <2>10 DEF UpToDate
    <3>2. p \in SeenBy(u)
      BY <3>1 DEF SeenBy
    <3>3. ASSUME s # Ended
          PROVE  UpToDate(i)'
      <4>1. SeenUpTo(u, p, 0)' = {p} /\ ObstaclesUpTo(u, p, 0)' = {}
        BY DEF SeenUpTo, ObstaclesUpTo
      <4>2. /\ sighting'[i].unit = u /\ sighting'[i].grid = p /\ sighting'[i].at = "look"
            /\ sighting'[i].look = 1 /\ sighting'[i].obstacles = {}
        BY <2>3, <2>4, <2>6, <3>3
      <4>3. u \in registered' /\ p = unitAt'[u] /\ {p} \subseteq teamSharedSight'[TeamOf[u]]
        BY ONLY <1>2, <2>7, <3>1
      <4>4. 1 - 1 = 0
        OBVIOUS
      <4> QED BY ONLY <4>1, <4>2, <4>3, <4>4 DEF UpToDate
    <3>4. ASSUME s = Ended
          PROVE  SeenBy(u) \subseteq teamSharedSight'[TeamOf[u]]
      <4>1. Len(LooksOf[u][p]) = 0
        BY <2>4, <2>5, <3>4
      <4>2. SeenBy(u) = SeenUpTo(u, p, 0)
        BY <1>1, <1>3, <3>1, <4>1, SeenLookByLook
      <4> QED BY <2>7, <2>8, <4>2
    <3> QED BY <3>2, <3>3, <3>4
  <2>11. StepOf(i, s, {p})
    BY <1>0, <1>2, <1>5, <2>1, <2>9, <2>10 DEF StepOf
  <2> QED BY <1>1, <1>3, <2>2, <2>11, SightingInv
<1> QED BY <1>0, <1>4, <1>5 DEF LooksUpSight

\* One look more: what it adds to what is seen and to the obstacles
LEMMA OneMoreLook ==
    ASSUME NEW u, NEW p, NEW k \in Nat \ {0}
    PROVE  /\ SeenUpTo(u, p, k) =
                 SeenUpTo(u, p, k - 1) \cup (IF Unhidden(u, p, k) THEN {LooksOf[u][p][k]} ELSE {})
           /\ ObstaclesUpTo(u, p, k) =
                 ObstaclesUpTo(u, p, k - 1)
                    \cup (IF Obstacle(p, LooksOf[u][p][k]) THEN {LooksOf[u][p][k]} ELSE {})
           /\ Unhidden(u, p, k) <=>
                 \A o \in ObstaclesUpTo(u, p, k - 1) : ~Hides(p, o, LooksOf[u][p][k])
<1>1. 1..k = 1..(k - 1) \cup {k}
  OBVIOUS
<1>2. SeenUpTo(u, p, k) =
         SeenUpTo(u, p, k - 1) \cup (IF Unhidden(u, p, k) THEN {LooksOf[u][p][k]} ELSE {})
  BY <1>1 DEF SeenUpTo
<1>3. ObstaclesUpTo(u, p, k) =
         ObstaclesUpTo(u, p, k - 1)
            \cup (IF Obstacle(p, LooksOf[u][p][k]) THEN {LooksOf[u][p][k]} ELSE {})
  BY <1>1 DEF ObstaclesUpTo
<1>4. Unhidden(u, p, k) <=>
         \A o \in ObstaclesUpTo(u, p, k - 1) : ~Hides(p, o, LooksOf[u][p][k])
  BY DEF Unhidden, ObstaclesUpTo
<1> QED BY <1>2, <1>3, <1>4

\* A grid is seen unless what has been looked at before hides it, and that is kept
\* for the grids to come.
LEMMA sightCalcInv ==
    ASSUME SightInv, NEW i \in Sighters, sightCalc(i)
    PROVE  SightInv'
<1>0. PICK u, p, k : u = sighting[i].unit /\ p = sighting[i].grid /\ k = sighting[i].look
  OBVIOUS
<1>1. SightTypes /\ i \in Running /\ sighting[i] \in Sighter /\ sighting[i] # Ended /\ u \in Units
      /\ ThreadInv(i) /\ TeamOf[u] \in SightTeams /\ sighting[i].at = "look" /\ k \in Nat \ {0}
  BY <1>0 DEF SightInv, sightCalc, Running, SightTypes, Sighter, SightTeams
<1>2. /\ UNCHANGED threadsOnly /\ UNCHANGED standingVars
      /\ unitAt' = unitAt /\ registered' = registered /\ late' = late
  BY DEF sightCalc, threadsOnly, standingVars, refreshVars
<1>3. PICK L : L = LooksOf[u][p]
  OBVIOUS
<1>4. /\ p \in Cells /\ LooksFrom(i) = L /\ Len(L) \in Nat /\ k \in 1..Len(L) /\ L[k] \in Cells
  <2>1. p \in Cells /\ LooksFrom(i) = L /\ k <= Len(LooksFrom(i))
    BY <1>0, <1>1, <1>3 DEF ThreadInv, LooksFrom
  <2>2. Len(L) \in Nat /\ \A m \in 1..Len(L) : L[m] \in Cells
    BY <1>1, <1>3, <2>1, LooksOfUnit DEF InView
  <2>3. k \in 1..Len(L)
    BY <1>1, <2>1, <2>2
  <2> QED BY <2>1, <2>2, <2>3
<1>5. PICK C : C = IF \E o \in sighting[i].obstacles : Hides(p, o, L[k]) THEN {} ELSE {L[k]}
  OBVIOUS
<1>6. PICK s : s = IF k = Len(L) THEN Ended
                   ELSE [sighting[i] EXCEPT !.look = k + 1,
                            !.obstacles = IF Obstacle(p, L[k]) THEN sighting[i].obstacles \cup {L[k]}
                                           ELSE sighting[i].obstacles]
  OBVIOUS
<1>7. teamSharedSight' = [teamSharedSight EXCEPT ![TeamOf[u]] = @ \cup C]
  <2>1. teamSharedSight' = [teamSharedSight EXCEPT ![TeamOf[u]] =
           IF \E o \in sighting[i].obstacles : Hides(p, o, L[k]) THEN @ ELSE @ \cup {L[k]}]
    BY <1>0, <1>4 DEF sightCalc
  <2> QED BY <1>1, <1>5, <2>1 DEF SightTypes
<1>8. sighting' = [sighting EXCEPT ![i] = s]
  BY <1>0, <1>4, <1>6 DEF sightCalc
<1>9. s \in Sighter \cup {Ended} /\ C \in SUBSET Cells
  <2>1. k + 1 \in Nat \ {0}
    BY <1>1
  <2> QED BY <1>1, <1>4, <1>5, <1>6, <2>1 DEF Sighter
<1>10. k # Len(L) =>
          /\ s.unit = u /\ s.slot = sighting[i].slot /\ s.at = "look" /\ s.grid = p /\ s.look = k + 1
          /\ s.obstacles = sighting[i].obstacles \cup (IF Obstacle(p, L[k]) THEN {L[k]} ELSE {})
  BY <1>0, <1>1, <1>6 DEF Sighter
<1>11. s = Ended <=> k = Len(L)
  <2>1. k # Len(L) => s \in Sighter
    <3>1. k + 1 \in Nat \ {0}
      BY <1>1
    <3> QED BY <1>1, <1>4, <1>6, <3>1 DEF Sighter
  <2> QED BY <1>6, <2>1, SighterIsRunning
<1>12. /\ sighting'[i] = s
       /\ teamSharedSight'[TeamOf[u]] = teamSharedSight[TeamOf[u]] \cup C
  BY <1>1, <1>7, <1>8 DEF SightTypes, Running
<1>13. ASSUME s # Ended
       PROVE  ThreadInv(i)'
  <2>1. LooksFrom(i)' = L
    BY <1>3, <1>10, <1>11, <1>12, <1>13 DEF LooksFrom
  <2>2. k + 1 <= Len(L)
    BY <1>4, <1>11, <1>13
  <2>3. /\ sighting'[i].at = "look" /\ sighting'[i].grid = p /\ sighting'[i].look = k + 1
        /\ sighting'[i].unit = u /\ sighting'[i].slot = sighting[i].slot
    BY <1>10, <1>11, <1>12, <1>13
  <2>4. sighting[i].slot = NoSlot => TeamOf[u] \in late'
    BY <1>0, <1>1, <1>2 DEF ThreadInv
  <2> QED BY ONLY <1>4, <2>1, <2>2, <2>3, <2>4 DEF ThreadInv
<1>14. ASSUME UpToDate(i)
       PROVE  /\ s # Ended => UpToDate(i)'
              /\ s = Ended => SeenBy(u) \subseteq teamSharedSight'[TeamOf[u]]
              /\ C \subseteq SeenBy(u)
  <2>1. /\ u \in registered /\ p = unitAt[u]
        /\ SeenUpTo(u, p, k - 1) \subseteq teamSharedSight[TeamOf[u]]
        /\ sighting[i].obstacles = ObstaclesUpTo(u, p, k - 1)
    BY <1>0, <1>1, <1>14 DEF UpToDate
  <2>2. C = IF Unhidden(u, p, k) THEN {L[k]} ELSE {}
    BY <1>1, <1>3, <1>5, <2>1, OneMoreLook
  <2>3. SeenUpTo(u, p, k) = SeenUpTo(u, p, k - 1) \cup C
    BY <1>1, <1>3, <2>2, OneMoreLook
  <2>4. SeenUpTo(u, p, k) \subseteq teamSharedSight'[TeamOf[u]]
    BY <1>12, <2>1, <2>3
  <2>5. SeenBy(u) = SeenUpTo(u, p, Len(L))
    BY <1>1, <1>3, <1>4, <2>1, SeenLookByLook
  <2>6. C \subseteq SeenBy(u)
    BY <1>3, <1>4, <2>2, <2>5 DEF SeenUpTo
  <2>7. ASSUME s # Ended
        PROVE  UpToDate(i)'
    <3>1. /\ sighting'[i].unit = u /\ sighting'[i].grid = p /\ sighting'[i].at = "look"
          /\ sighting'[i].look = k + 1
          /\ sighting'[i].obstacles = sighting[i].obstacles \cup (IF Obstacle(p, L[k]) THEN {L[k]} ELSE {})
      BY <1>10, <1>11, <1>12, <2>7
    <3>2. sighting'[i].obstacles = ObstaclesUpTo(u, p, k)
      BY <1>1, <1>3, <2>1, <3>1, OneMoreLook
    <3>3. SeenUpTo(u, p, k)' = SeenUpTo(u, p, k) /\ ObstaclesUpTo(u, p, k)' = ObstaclesUpTo(u, p, k)
      BY <1>2, StandStill
    <3>4. u \in registered' /\ p = unitAt'[u]
      BY <1>2, <2>1
    <3>5. (k + 1) - 1 = k
      BY <1>1
    <3> QED BY ONLY <2>4, <3>1, <3>2, <3>3, <3>4, <3>5 DEF UpToDate
  <2> QED BY <1>11, <2>4, <2>5, <2>6, <2>7
<1>15. StepOf(i, s, C)
  BY <1>0, <1>2, <1>7, <1>8, <1>10, <1>11, <1>13, <1>14 DEF StepOf
<1> QED BY <1>1, <1>9, <1>15, SightingInv

LEMMA SightNextInv ==
    ASSUME SightInv, [SightNext]_sightVars
    PROVE  SightInv'
<1>1. CASE UNCHANGED sightVars
  BY <1>1, FailureInv DEF sightVars, threadsOnly, standingVars, refreshVars
<1>2. ASSUME NEW u \in Movers, NEW c \in Free \cup {unitAt[u]}, UnitMoves(u, c)
      PROVE  SightInv'
  BY <1>2, UnitMovesInv
<1>3. ASSUME NEW u \in Comers, UnitFalls(u)
      PROVE  SightInv'
  BY <1>3, UnitFallsInv
<1>4. ASSUME NEW u \in (Comers \ registered) \cup (Movers \cap registered), NEW c \in Free, Placed(u, c)
      PROVE  SightInv'
  BY <1>4, PlacedInv
<1>5. CASE TurnPasses \/ BeginTurn \/ CloseGame
  BY <1>5, TurnInv
<1>6. CASE ClearMaps
  BY <1>6, ClearMapsInv
<1>7. CASE RefreshReturns
  BY <1>7, RefreshReturnsInv
<1>8. ASSUME NEW u \in Units, StartThread(u)
      PROVE  SightInv'
  BY <1>8, StartThreadInv
<1>9. ASSUME NEW i \in Sighters, Sighting(i)
      PROVE  SightInv'
  BY <1>9, LooksUpPositionInv, LooksUpSightInv, sightCalcInv DEF Sighting
<1> QED BY <1>1, <1>2, <1>3, <1>4, <1>5, <1>6, <1>7, <1>8, <1>9 DEF SightNext

\* When all threads have ended, the invariant says what the maps hold.
LEMMA SightInvIsExact == SightInv => SightIsExact
<1> SUFFICES ASSUME SightInv, rules = "play", Running = {}, NEW t \in SightTeams
             PROVE  /\ SeenByTeam(t) \subseteq teamSharedSight[t]
                    /\ t \notin late => teamSharedSight[t] = SeenByTeam(t)
  BY DEF SightIsExact
<1>1. Refreshed /\ SightTypes
  BY DEF SightInv
<1>2. toSight = {} /\ \A i \in Sighters : ~Present(i)
  BY <1>1 DEF Refreshed, Present
<1>3. \A u \in registered : SeenBy(u) \subseteq teamSharedSight[TeamOf[u]]
  BY <1>1, <1>2 DEF Refreshed
<1>4. SeenByTeam(t) \subseteq teamSharedSight[t]
  BY <1>3 DEF SeenByTeam
<1>5. t \notin late => teamSharedSight[t] \subseteq SeenByTeam(t)
  BY <1>1 DEF Refreshed
<1> QED BY <1>4, <1>5

\* Once the threads of a refresh have ended, a team sees exactly what its units see
\* from where they stand, in the order of the loops of getSight, on a board of any
\* size; more only if a thread of the refresh before could still write to its map.
THEOREM SightMapsAreExact == SightSpec => []SightIsExact
<1>1. SightSpec => []SightInv
  BY SightInitInv, SightNextInv, PTL DEF SightSpec
<1> QED BY <1>1, SightInvIsExact, PTL
=============================================================================
