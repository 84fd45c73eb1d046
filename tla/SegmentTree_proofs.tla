------------------------- MODULE SegmentTree_proofs -------------------------
(***************************************************************************)
(* Proofs about SegmentTree, for every circle, every set of arcs and every *)
(* number of obstacles: a search finds exactly what covers an angle.  What *)
(* this rests on:                                                          *)
(*  - a tree is Good: depth is right and balanced (Level), the ends are in *)
(*    order (Sorted), and min is no larger than any start below (LowMin);  *)
(*  - a node that a single rotation takes down keeps an old min, which can *)
(*    only be too small; an insertion keeps all of this and adds one arc   *)
(*    (InsertGrew), whatever is rotated on the way back up;                *)
(*  - in a good tree find comes to every segment that covers the angle     *)
(*    (FindIsExact), and what findContaining finds does contain the arc    *)
(*    (FoundContains), so that an arc is left out only if it is covered;   *)
(*  - the tree holds arcs that were cast and nothing else, and every angle *)
(*    that was covered stays so (ShadowInv).                               *)
(* What the guards of the two actions say of the order of obstacles is     *)
(* proved of the squares around the eye at the end (NoneCoversEarlier).    *)
(***************************************************************************)
EXTENDS SegmentTree, Sight_proofs

-----------------------------------------------------------------------------
(* The nodes of a tree.                                                    *)

\* p leads from t down to x.
LeadsTo(p, k, t, x) ==
    /\ p[0] = t /\ p[k] = x
    /\ \A i \in 0..k : p[i] # Nil
    /\ \A i \in 0..(k - 1) : p[i + 1] \in {p[i].left, p[i].right}

Has(t, x) == \E k \in Nat : \E p : LeadsTo(p, k, t, x)

ArcOf(x) == <<x.start, x.end>>

ArcsOf(t) == {a \in Angles \X Angles : \E x : Has(t, x) /\ a = ArcOf(x)}

LEMMA HasNothing ==
    ASSUME NEW x
    PROVE  ~Has(Nil, x)
<1> SUFFICES ASSUME NEW k \in Nat, NEW p, LeadsTo(p, k, Nil, x)
             PROVE  FALSE
  BY DEF Has
<1>1. 0 \in 0..k
  OBVIOUS
<1> QED BY <1>1 DEF LeadsTo

LEMMA HasItself ==
    ASSUME NEW t, t # Nil
    PROVE  Has(t, t)
<1> DEFINE p == [i \in {0} |-> t]
<1>1. p[0] = t
  OBVIOUS
<1>2. \A i \in 0..0 : i = 0
  OBVIOUS
<1>3. \A i \in 0..(0 - 1) : FALSE
  OBVIOUS
<1>4. LeadsTo(p, 0, t, t)
  <2> HIDE DEF p
  <2> QED BY <1>1, <1>2, <1>3 DEF LeadsTo
<1> QED BY <1>4 DEF Has

LEMMA HasBelow ==
    ASSUME NEW t, t # Nil, NEW c \in {t.left, t.right}, NEW x, Has(c, x)
    PROVE  Has(t, x)
<1>1. PICK k \in Nat : \E p : LeadsTo(p, k, c, x)
  BY DEF Has
<1>2. PICK p : LeadsTo(p, k, c, x)
  BY <1>1
<1> DEFINE q == [i \in 0..(k + 1) |-> IF i = 0 THEN t ELSE p[i - 1]]
<1>3. q[0] = t
  OBVIOUS
<1>4. \A i \in 0..k : i + 1 \in 0..(k + 1) /\ i + 1 # 0 /\ (i + 1) - 1 = i
  OBVIOUS
<1>5. \A i \in 0..k : q[i + 1] = p[i]
  BY <1>4
<1> HIDE DEF q
<1>6. k \in 0..k /\ 0 \in 0..k
  OBVIOUS
<1>7. q[k + 1] = x /\ q[0 + 1] = c
  BY <1>2, <1>5, <1>6 DEF LeadsTo
<1>8. \A i \in 0..(k + 1) : i = 0 \/ (i - 1 \in 0..k /\ i = (i - 1) + 1)
  OBVIOUS
<1>9. \A i \in 0..(k + 1) : q[i] # Nil
  BY ONLY <1>2, <1>3, <1>5, <1>8, t # Nil DEF LeadsTo
<1>10. ASSUME NEW i \in 0..((k + 1) - 1)
       PROVE  q[i + 1] \in {q[i].left, q[i].right}
  <2>1. CASE i = 0
    BY ONLY <2>1, <1>3, <1>7, c \in {t.left, t.right}
  <2>2. CASE i # 0
    <3>1. i - 1 \in 0..(k - 1) /\ i - 1 \in 0..k /\ i \in 0..k /\ (i - 1) + 1 = i
      BY <1>10, <2>2
    <3>2. p[(i - 1) + 1] \in {p[i - 1].left, p[i - 1].right}
      BY ONLY <1>2, <3>1 DEF LeadsTo
    <3>3. q[i + 1] = p[i] /\ q[(i - 1) + 1] = p[i - 1]
      BY ONLY <1>5, <3>1
    <3> QED BY ONLY <3>1, <3>2, <3>3
  <2> QED BY <2>1, <2>2
<1>11. LeadsTo(q, k + 1, t, x)
  BY ONLY <1>3, <1>7, <1>9, <1>10 DEF LeadsTo
<1> QED BY <1>11 DEF Has

LEMMA HasSplit ==
    ASSUME NEW t, NEW x, Has(t, x)
    PROVE  t # Nil /\ (x = t \/ Has(t.left, x) \/ Has(t.right, x))
<1>1. PICK k \in Nat : \E p : LeadsTo(p, k, t, x)
  BY DEF Has
<1>2. PICK p : LeadsTo(p, k, t, x)
  BY <1>1
<1>3. t # Nil
  BY HasNothing
<1>4. CASE k = 0
  BY <1>2, <1>3, <1>4 DEF LeadsTo
<1>5. CASE k # 0
  <2> DEFINE q == [i \in 0..(k - 1) |-> p[i + 1]]
  <2>1. \A i \in 0..(k - 1) : q[i] = p[i + 1]
    OBVIOUS
  <2> HIDE DEF q
  <2>2. /\ k - 1 \in Nat /\ 0 \in 0..(k - 1) /\ k - 1 \in 0..(k - 1) /\ (k - 1) + 1 = k /\ 0 + 1 = 1
        /\ \A i \in 0..(k - 1) : i + 1 \in 0..k
        /\ \A i \in 0..((k - 1) - 1) : i \in 0..(k - 1) /\ i + 1 \in 0..(k - 1)
    BY <1>5
  <2>3. q[k - 1] = x /\ q[0] \in {t.left, t.right}
    BY ONLY <1>2, <2>1, <2>2 DEF LeadsTo
  <2>4. \A i \in 0..(k - 1) : q[i] # Nil
    BY ONLY <1>2, <2>1, <2>2 DEF LeadsTo
  <2>5. \A i \in 0..((k - 1) - 1) : q[i + 1] \in {q[i].left, q[i].right}
    <3> TAKE i \in 0..((k - 1) - 1)
    <3>1. q[i] = p[i + 1] /\ q[i + 1] = p[(i + 1) + 1]
      BY ONLY <2>1, <2>2
    <3> QED BY ONLY <1>2, <2>2, <3>1 DEF LeadsTo
  <2>6. LeadsTo(q, k - 1, q[0], x)
    BY ONLY <2>3, <2>4, <2>5 DEF LeadsTo
  <2>7. Has(q[0], x)
    BY <2>2, <2>6 DEF Has
  <2> QED BY <1>3, <2>3, <2>7
<1> QED BY <1>4, <1>5

-----------------------------------------------------------------------------
(* Good trees.                                                             *)

Larger(a, b) == IF a >= b THEN a ELSE b

Rec(s, e, m, d, l, r) == [start |-> s, end |-> e, min |-> m, depth |-> d, left |-> l, right |-> r]

Typed(n) ==
    /\ n = Rec(n.start, n.end, n.min, n.depth, n.left, n.right)
    /\ n.start \in Angles /\ n.end \in Angles /\ n.min \in Angles /\ n.depth \in Nat

\* The depth is the height, and no side is deeper than the other by two.
Level(n) ==
    /\ n.depth = Larger(DepthOf(n.left), DepthOf(n.right)) + 1
    /\ DepthOf(n.left) <= DepthOf(n.right) + 1 /\ DepthOf(n.right) <= DepthOf(n.left) + 1

Sorted(n) ==
    /\ \A a \in ArcsOf(n.left) : a[2] <= n.end
    /\ \A a \in ArcsOf(n.right) : n.end <= a[2]

\* min may be smaller than every start below ("TODO min"), but never larger.
LowMin(n) ==
    /\ n.min <= n.start
    /\ \A a \in ArcsOf(n.left) \cup ArcsOf(n.right) : n.min <= a[1]

Sound(n) == Typed(n) /\ Level(n) /\ Sorted(n) /\ LowMin(n)

Good(t) == \A x : Has(t, x) => Sound(x)

LEMMA FullCircleType ==
    FullCircle \in Nat /\ Angles \subseteq Nat /\ \A x \in Angles : x \in Nat
BY ArcAssumption DEF Angles

LEMMA NilIsGood == Good(Nil) /\ ArcsOf(Nil) = {} /\ DepthOf(Nil) = 0
BY HasNothing DEF Good, ArcsOf, DepthOf

\* A record is not the empty sequence.
LEMMA RecIsNode ==
    ASSUME NEW s, NEW e, NEW m, NEW d, NEW l, NEW r
    PROVE  /\ Rec(s, e, m, d, l, r) # Nil
           /\ Rec(s, e, m, d, l, r).start = s /\ Rec(s, e, m, d, l, r).end = e
           /\ Rec(s, e, m, d, l, r).min = m /\ Rec(s, e, m, d, l, r).depth = d
           /\ Rec(s, e, m, d, l, r).left = l /\ Rec(s, e, m, d, l, r).right = r
<1>1. "start" \in DOMAIN Rec(s, e, m, d, l, r)
  BY DEF Rec
<1>2. DOMAIN Nil = {}
  BY DEF Nil
<1> QED BY <1>1, <1>2 DEF Rec

\* What is changed of a node leaves the rest of it.
LEMMA RecExcept ==
    ASSUME NEW s, NEW e, NEW m, NEW d, NEW l, NEW r, NEW v
    PROVE  /\ [Rec(s, e, m, d, l, r) EXCEPT !.left = v] = Rec(s, e, m, d, v, r)
           /\ [Rec(s, e, m, d, l, r) EXCEPT !.right = v] = Rec(s, e, m, d, l, v)
           /\ [Rec(s, e, m, d, l, r) EXCEPT !.depth = v] = Rec(s, e, m, v, l, r)
           /\ [Rec(s, e, m, d, l, r) EXCEPT !.min = v] = Rec(s, e, v, d, l, r)
BY DEF Rec

\* The arcs of a node with good subtrees
LEMMA ArcsSplit ==
    ASSUME NEW n, n # Nil, n.start \in Angles, n.end \in Angles
    PROVE  ArcsOf(n) = {ArcOf(n)} \cup ArcsOf(n.left) \cup ArcsOf(n.right)
<1>1. ASSUME NEW a \in ArcsOf(n)
      PROVE  a \in {ArcOf(n)} \cup ArcsOf(n.left) \cup ArcsOf(n.right)
  <2>1. PICK x : Has(n, x) /\ a = ArcOf(x)
    BY <1>1 DEF ArcsOf
  <2>2. x = n \/ Has(n.left, x) \/ Has(n.right, x)
    BY <2>1, HasSplit
  <2> QED BY <1>1, <2>1, <2>2 DEF ArcsOf
<1>2. ArcOf(n) \in ArcsOf(n)
  BY HasItself DEF ArcsOf, ArcOf
<1>3. ASSUME NEW c \in {n.left, n.right}, NEW a \in ArcsOf(c)
      PROVE  a \in ArcsOf(n)
  <2>1. PICK x : Has(c, x) /\ a = ArcOf(x)
    BY <1>3 DEF ArcsOf
  <2>2. Has(n, x)
    BY <1>3, <2>1, HasBelow
  <2> QED BY <1>3, <2>1, <2>2 DEF ArcsOf
<1> QED BY <1>1, <1>2, <1>3

\* A good tree is a sound node over two good trees.
LEMMA GoodSplit ==
    ASSUME NEW n, n # Nil, Good(n)
    PROVE  /\ Sound(n) /\ Good(n.left) /\ Good(n.right)
           /\ ArcsOf(n) = {ArcOf(n)} \cup ArcsOf(n.left) \cup ArcsOf(n.right)
<1>1. Sound(n)
  BY HasItself DEF Good
<1>2. Good(n.left) /\ Good(n.right)
  BY HasBelow DEF Good
<1> QED BY <1>1, <1>2, ArcsSplit DEF Sound, Typed

LEMMA GoodJoin ==
    ASSUME NEW n, n # Nil, Sound(n), Good(n.left), Good(n.right)
    PROVE  Good(n)
BY HasSplit DEF Good

LEMMA DepthType ==
    ASSUME NEW t, Good(t)
    PROVE  DepthOf(t) \in Nat /\ (DepthOf(t) = 0 <=> t = Nil)
<1>1. CASE t = Nil
  BY <1>1, NilIsGood
<1>2. CASE t # Nil
  <2>1. Sound(t) /\ Good(t.left) /\ Good(t.right)
    BY <1>2, GoodSplit
  <2>2. /\ t.left = Nil \/ (t.left # Nil /\ Sound(t.left))
        /\ t.right = Nil \/ (t.right # Nil /\ Sound(t.right))
    BY <2>1, GoodSplit
  <2>3. DepthOf(t.left) \in Nat /\ DepthOf(t.right) \in Nat
    BY <2>2 DEF DepthOf, Sound, Typed
  <2> QED BY <1>2, <2>1, <2>3 DEF DepthOf, Sound, Level, Larger
<1> QED BY <1>1, <1>2

LEMMA ArcsType ==
    ASSUME NEW t
    PROVE  \A a \in ArcsOf(t) : a \in Angles \X Angles /\ a[1] \in Nat /\ a[2] \in Nat
BY FullCircleType DEF ArcsOf

\* What a node needs to be a good tree
LEMMA GoodNode ==
    ASSUME NEW l, NEW r, Good(l), Good(r),
           NEW s \in Angles, NEW e \in Angles, NEW m \in Angles, NEW d,
           d = Larger(DepthOf(l), DepthOf(r)) + 1,
           DepthOf(l) <= DepthOf(r) + 1, DepthOf(r) <= DepthOf(l) + 1,
           \A a \in ArcsOf(l) : a[2] <= e,
           \A a \in ArcsOf(r) : e <= a[2],
           m <= s, \A a \in ArcsOf(l) \cup ArcsOf(r) : m <= a[1]
    PROVE  LET n == Rec(s, e, m, d, l, r)
           IN  /\ Good(n) /\ n # Nil /\ DepthOf(n) = d
               /\ ArcsOf(n) = {<<s, e>>} \cup ArcsOf(l) \cup ArcsOf(r)
<1> DEFINE n == Rec(s, e, m, d, l, r)
<1>1. /\ n # Nil /\ n.start = s /\ n.end = e /\ n.min = m /\ n.depth = d
      /\ n.left = l /\ n.right = r /\ n = Rec(s, e, m, d, l, r)
  BY RecIsNode
<1> HIDE DEF n
<1>2. d \in Nat
  BY DepthType DEF Larger
<1>3. Sound(n)
  BY <1>1, <1>2 DEF Sound, Typed, Level, Sorted, LowMin
<1>4. Good(n)
  BY <1>1, <1>3, GoodJoin
<1>5. ArcsOf(n) = {<<s, e>>} \cup ArcsOf(l) \cup ArcsOf(r)
  BY <1>1, ArcsSplit DEF ArcOf
<1>6. DepthOf(n) = d
  BY <1>1 DEF DepthOf
<1> QED BY <1>1, <1>4, <1>5, <1>6 DEF n

-----------------------------------------------------------------------------
(* What balance does to a node whose subtrees are good.                    *)

LEMMA LargerIsMax ==
    ASSUME NEW a \in Nat, NEW b \in Nat
    PROVE  Max({a, b}) = Larger(a, b)
<1>1. /\ Larger(a, b) \in {a, b} /\ \A y \in {a, b} : Larger(a, b) >= y
      /\ \A x \in {a, b} : (\A y \in {a, b} : x >= y) => x = Larger(a, b)
  BY DEF Larger
<1> QED BY <1>1 DEF Max

LEMMA MinIsLowest ==
    ASSUME NEW S, S \subseteq Nat, S # {}
    PROVE  Min(S) \in S /\ \A y \in S : Min(S) <= y
<1>1. \E x \in S : \A y \in S : x <= y
  BY Smallest
<1> QED BY <1>1 DEF Min

\* Two good trees with a node between them
Between(l, e, r) ==
    /\ Good(l) /\ Good(r)
    /\ \A a \in ArcsOf(l) : a[2] <= e
    /\ \A a \in ArcsOf(r) : e <= a[2]

LEMMA DeepenedRec ==
    ASSUME NEW s, NEW e, NEW m, NEW d, NEW l, NEW r, Good(l), Good(r)
    PROVE  Deepened(Rec(s, e, m, d, l, r)) =
               Rec(s, e, m, Larger(DepthOf(l), DepthOf(r)) + 1, l, r)
BY RecIsNode, RecExcept, DepthType, LargerIsMax DEF Deepened

\* Minimised finds a bound for everything below.
LEMMA MinimisedRec ==
    ASSUME NEW s \in Angles, NEW e, NEW m, NEW d, NEW l, NEW r, Good(l), Good(r)
    PROVE  \E low \in Angles :
               /\ Minimised(Rec(s, e, m, d, l, r)) = Rec(s, e, low, d, l, r)
               /\ low <= s
               /\ \A a \in ArcsOf(l) \cup ArcsOf(r) : low <= a[1]
<1> DEFINE S == {s} \cup {c.min : c \in {l, r} \ {Nil}}
<1>1. S \subseteq Angles
  BY GoodSplit DEF Sound, Typed
<1>2. S \subseteq Nat /\ S # {}
  BY <1>1, FullCircleType
<1>3. Min(S) \in S /\ \A y \in S : Min(S) <= y
  BY <1>2, MinIsLowest
<1>4. Minimised(Rec(s, e, m, d, l, r)) = Rec(s, e, Min(S), d, l, r)
  <2> DEFINE n == Rec(s, e, m, d, l, r)
  <2>1. n.start = s /\ n.left = l /\ n.right = r
    BY RecIsNode
  <2>2. \A v : [n EXCEPT !.min = v] = Rec(s, e, v, d, l, r)
    BY DEF Rec
  <2> HIDE DEF n
  <2>3. {n.start} \cup {c.min : c \in {n.left, n.right} \ {Nil}} = S
    BY <2>1
  <2> HIDE DEF S
  <2>4. Minimised(n) = Rec(s, e, Min(S), d, l, r)
    BY <2>2, <2>3 DEF Minimised
  <2> QED BY <2>4 DEF n
<1>5. ASSUME NEW c \in {l, r}, NEW a \in ArcsOf(c)
      PROVE  Min(S) <= a[1]
  <2>1. c # Nil
    BY <1>5, NilIsGood
  <2>2. Sound(c) /\ ArcsOf(c) = {ArcOf(c)} \cup ArcsOf(c.left) \cup ArcsOf(c.right)
    BY <1>5, <2>1, GoodSplit
  <2>3. c.min <= a[1]
    BY <1>5, <2>2 DEF Sound, LowMin, ArcOf
  <2>4. c.min \in S
    BY <1>5, <2>1
  <2>5. Min(S) <= c.min /\ Min(S) \in Nat /\ c.min \in Nat /\ a[1] \in Nat
    BY <1>2, <1>3, <1>5, <2>4, ArcsType
  <2> QED BY <2>3, <2>5
<1>6. Min(S) \in Angles /\ Min(S) <= s
  BY <1>1, <1>3
<1> HIDE DEF S
<1> QED BY <1>4, <1>5, <1>6

\* A node whose subtrees are almost of a height is good once it has been seen to.
LEMMA SeenTo ==
    ASSUME NEW s \in Angles, NEW e \in Angles, NEW m, NEW d, NEW l, NEW r, Between(l, e, r),
           DepthOf(l) <= DepthOf(r) + 1, DepthOf(r) <= DepthOf(l) + 1
    PROVE  LET b == Minimised(Deepened(Rec(s, e, m, d, l, r)))
           IN  /\ Good(b) /\ b # Nil /\ b.start = s /\ b.end = e /\ b.left = l /\ b.right = r
               /\ DepthOf(b) = Larger(DepthOf(l), DepthOf(r)) + 1
               /\ ArcsOf(b) = {<<s, e>>} \cup ArcsOf(l) \cup ArcsOf(r)
<1> DEFINE h == Larger(DepthOf(l), DepthOf(r)) + 1
<1>1. Deepened(Rec(s, e, m, d, l, r)) = Rec(s, e, m, h, l, r)
  BY DeepenedRec DEF Between
<1>2. PICK low \in Angles :
          /\ Minimised(Rec(s, e, m, h, l, r)) = Rec(s, e, low, h, l, r)
          /\ low <= s
          /\ \A a \in ArcsOf(l) \cup ArcsOf(r) : low <= a[1]
  <2> HIDE DEF h
  <2> QED BY MinimisedRec DEF Between
<1>3. h = Larger(DepthOf(l), DepthOf(r)) + 1
  OBVIOUS
<1> HIDE DEF h
<1> DEFINE b == Rec(s, e, low, h, l, r)
<1>4. Good(b) /\ b # Nil /\ DepthOf(b) = h /\ ArcsOf(b) = {<<s, e>>} \cup ArcsOf(l) \cup ArcsOf(r)
  BY <1>2, <1>3, GoodNode DEF Between
<1>5. b.start = s /\ b.end = e /\ b.left = l /\ b.right = r
  BY RecIsNode
<1> HIDE DEF b
<1> QED BY <1>1, <1>2, <1>3, <1>4, <1>5 DEF b

\* The node that goes down in a rotation keeps its old min, which must be low enough.
LEMMA GoesDown ==
    ASSUME NEW s \in Angles, NEW e \in Angles, NEW m \in Angles, NEW d, NEW l, NEW r, Between(l, e, r),
           DepthOf(l) <= DepthOf(r) + 1, DepthOf(r) <= DepthOf(l) + 1,
           m <= s, \A a \in ArcsOf(l) \cup ArcsOf(r) : m <= a[1]
    PROVE  LET b == Deepened(Rec(s, e, m, d, l, r))
           IN  /\ Good(b) /\ b # Nil
               /\ DepthOf(b) = Larger(DepthOf(l), DepthOf(r)) + 1
               /\ ArcsOf(b) = {<<s, e>>} \cup ArcsOf(l) \cup ArcsOf(r)
<1> DEFINE h == Larger(DepthOf(l), DepthOf(r)) + 1
<1>1. Deepened(Rec(s, e, m, d, l, r)) = Rec(s, e, m, h, l, r)
  BY DeepenedRec DEF Between
<1>2. h = Larger(DepthOf(l), DepthOf(r)) + 1
  OBVIOUS
<1> HIDE DEF h
<1> QED BY <1>1, <1>2, GoodNode DEF Between

\* The nodes of a rotation by name
LEMMA RotatedRightRec ==
    ASSUME NEW s, NEW e, NEW m, NEW d, NEW r,
           NEW ls, NEW le, NEW lm, NEW ld, NEW ll, NEW lr
    PROVE  RotatedRight(Rec(s, e, m, d, Rec(ls, le, lm, ld, ll, lr), r))
               = Rec(ls, le, lm, ld, ll, Deepened(Rec(s, e, m, d, lr, r)))
<1> DEFINE l == Rec(ls, le, lm, ld, ll, lr)
           n == Rec(s, e, m, d, l, r)
<1>1. l.right = lr /\ \A v : [l EXCEPT !.right = v] = Rec(ls, le, lm, ld, ll, v)
  BY DEF Rec
<1> HIDE DEF l
<1>2. n.left = l /\ \A v : [n EXCEPT !.left = v] = Rec(s, e, m, d, v, r)
  BY DEF Rec
<1> HIDE DEF n
<1>3. RotatedRight(n) = Rec(ls, le, lm, ld, ll, Deepened(Rec(s, e, m, d, lr, r)))
  BY <1>1, <1>2 DEF RotatedRight
<1> QED BY <1>3 DEF n, l

LEMMA LeftFirstRec ==
    ASSUME NEW s, NEW e, NEW m, NEW d, NEW r,
           NEW ls, NEW le, NEW lm, NEW ld, NEW ll,
           NEW us, NEW ue, NEW um, NEW ud, NEW ul, NEW ur
    PROVE  LeftFirst(Rec(s, e, m, d, Rec(ls, le, lm, ld, ll, Rec(us, ue, um, ud, ul, ur)), r))
               = Rec(s, e, m, d,
                     Rec(us, ue, um, ud, Minimised(Deepened(Rec(ls, le, lm, ld, ll, ul))), ur), r)
<1> DEFINE up == Rec(us, ue, um, ud, ul, ur)
           l == Rec(ls, le, lm, ld, ll, up)
           n == Rec(s, e, m, d, l, r)
<1>1. up.left = ul /\ \A v : [up EXCEPT !.left = v] = Rec(us, ue, um, ud, v, ur)
  BY DEF Rec
<1> HIDE DEF up
<1>2. l.right = up /\ \A v : [l EXCEPT !.right = v] = Rec(ls, le, lm, ld, ll, v)
  BY DEF Rec
<1> HIDE DEF l
<1>3. n.left = l /\ \A v : [n EXCEPT !.left = v] = Rec(s, e, m, d, v, r)
  BY DEF Rec
<1> HIDE DEF n
<1>4. LeftFirst(n) = Rec(s, e, m, d,
          Rec(us, ue, um, ud, Minimised(Deepened(Rec(ls, le, lm, ld, ll, ul))), ur), r)
  BY <1>1, <1>2, <1>3 DEF LeftFirst
<1> QED BY <1>4 DEF n, l, up

\* A single rotation to the right
LEMMA RotatesRight ==
    ASSUME NEW s \in Angles, NEW e \in Angles, NEW m \in Angles, NEW d, NEW l, NEW r, Between(l, e, r),
           DepthOf(l) = DepthOf(r) + 2, DepthOf(l.right) <= DepthOf(l.left),
           m <= s, \A a \in ArcsOf(l.right) \cup ArcsOf(r) : m <= a[1]
    PROVE  LET b == Minimised(Deepened(RotatedRight(Rec(s, e, m, d, l, r))))
           IN  /\ Good(b) /\ b # Nil /\ DepthOf(b) \in {DepthOf(l), DepthOf(l) + 1}
               /\ ArcsOf(b) = {<<s, e>>} \cup ArcsOf(l) \cup ArcsOf(r)
               /\ ArcsOf(b.right) = {<<s, e>>} \cup ArcsOf(l.right) \cup ArcsOf(r)
<1>1. l # Nil
  BY DepthType DEF Between
<1>2. /\ Sound(l) /\ Good(l.left) /\ Good(l.right)
      /\ ArcsOf(l) = {ArcOf(l)} \cup ArcsOf(l.left) \cup ArcsOf(l.right)
  BY <1>1, GoodSplit DEF Between
<1>3. /\ l = Rec(l.start, l.end, l.min, l.depth, l.left, l.right)
      /\ l.start \in Angles /\ l.end \in Angles
  BY <1>2 DEF Sound, Typed
<1>4. /\ DepthOf(l) = Larger(DepthOf(l.left), DepthOf(l.right)) + 1
      /\ DepthOf(l.left) <= DepthOf(l.right) + 1
      /\ DepthOf(l.left) \in Nat /\ DepthOf(l.right) \in Nat /\ DepthOf(r) \in Nat
  BY <1>1, <1>2, DepthType DEF DepthOf, Sound, Level, Between
<1> DEFINE down == Deepened(Rec(s, e, m, d, l.right, r))
<1>5. Between(l.right, e, r)
  BY <1>2 DEF Between
<1>6. DepthOf(l.right) <= DepthOf(r) + 1 /\ DepthOf(r) <= DepthOf(l.right) + 1
  BY <1>4 DEF Larger
<1>7. /\ Good(down) /\ down # Nil
      /\ DepthOf(down) = Larger(DepthOf(l.right), DepthOf(r)) + 1
      /\ ArcsOf(down) = {<<s, e>>} \cup ArcsOf(l.right) \cup ArcsOf(r)
  BY <1>5, <1>6, GoesDown
<1>8. RotatedRight(Rec(s, e, m, d, l, r)) = Rec(l.start, l.end, l.min, l.depth, l.left, down)
  <2>1. RotatedRight(Rec(s, e, m, d, Rec(l.start, l.end, l.min, l.depth, l.left, l.right), r))
            = Rec(l.start, l.end, l.min, l.depth, l.left, down)
    BY RotatedRightRec
  <2> HIDE DEF down
  <2> QED BY ONLY <1>3, <2>1
<1> HIDE DEF down
<1>9. Between(l.left, l.end, down)
  <2>1. \A a \in ArcsOf(l.left) : a[2] <= l.end
    BY <1>2 DEF Sound, Sorted
  <2>2. l.end <= e
    <3>1. <<l.start, l.end>> \in ArcsOf(l)
      BY <1>2 DEF ArcOf
    <3>2. <<l.start, l.end>>[2] = l.end
      OBVIOUS
    <3>3. \A a \in ArcsOf(l) : a[2] <= e
      BY DEF Between
    <3> QED BY ONLY <3>1, <3>2, <3>3
  <2>3. ASSUME NEW a \in ArcsOf(down)
        PROVE  l.end <= a[2]
    <3>1. a[2] \in Nat /\ l.end \in Nat /\ e \in Nat
      BY <1>3, <2>3, ArcsType, FullCircleType
    <3>2. a = <<s, e>> \/ a \in ArcsOf(l.right) \/ a \in ArcsOf(r)
      BY <1>7, <2>3
    <3>3. e <= a[2] \/ l.end <= a[2]
      <4>1. CASE a = <<s, e>>
        BY <3>1, <4>1
      <4>2. CASE a \in ArcsOf(l.right)
        BY <1>2, <4>2 DEF Sound, Sorted
      <4>3. CASE a \in ArcsOf(r)
        BY <4>3 DEF Between
      <4> QED BY <3>2, <4>1, <4>2, <4>3
    <3> QED BY <2>2, <3>1, <3>3
  <2> QED BY <1>2, <1>7, <2>1, <2>3 DEF Between
<1>10. /\ DepthOf(l.left) <= DepthOf(down) + 1 /\ DepthOf(down) <= DepthOf(l.left) + 1
       /\ Larger(DepthOf(l.left), DepthOf(down)) + 1 \in {DepthOf(l), DepthOf(l) + 1}
  BY <1>4, <1>7 DEF Larger
<1>11. LET b == Minimised(Deepened(Rec(l.start, l.end, l.min, l.depth, l.left, down)))
       IN  /\ Good(b) /\ b # Nil /\ b.right = down
           /\ DepthOf(b) = Larger(DepthOf(l.left), DepthOf(down)) + 1
           /\ ArcsOf(b) = {<<l.start, l.end>>} \cup ArcsOf(l.left) \cup ArcsOf(down)
  BY <1>3, <1>9, <1>10, SeenTo
<1> QED BY <1>2, <1>7, <1>8, <1>10, <1>11 DEF ArcOf

\* A double rotation to the right
LEMMA RotatesTwiceRight ==
    ASSUME NEW s \in Angles, NEW e \in Angles, NEW m \in Angles, NEW d, NEW l, NEW r, Between(l, e, r),
           DepthOf(l) = DepthOf(r) + 2, DepthOf(l.right) > DepthOf(l.left),
           m <= s, \A a \in ArcsOf(l.right) \cup ArcsOf(r) : m <= a[1]
    PROVE  LET b == Minimised(Deepened(RotatedRight(LeftFirst(Rec(s, e, m, d, l, r)))))
           IN  /\ Good(b) /\ b # Nil /\ DepthOf(b) \in {DepthOf(l), DepthOf(l) + 1}
               /\ ArcsOf(b) = {<<s, e>>} \cup ArcsOf(l) \cup ArcsOf(r)
               /\ ArcsOf(b.right) \subseteq {<<s, e>>} \cup ArcsOf(l.right) \cup ArcsOf(r)
<1>1. l # Nil
  BY DepthType DEF Between
<1>2. /\ Sound(l) /\ Good(l.left) /\ Good(l.right)
      /\ ArcsOf(l) = {ArcOf(l)} \cup ArcsOf(l.left) \cup ArcsOf(l.right)
  BY <1>1, GoodSplit DEF Between
<1>3. /\ l = Rec(l.start, l.end, l.min, l.depth, l.left, l.right)
      /\ l.start \in Angles /\ l.end \in Angles
  BY <1>2 DEF Sound, Typed
<1>4. /\ DepthOf(l) = Larger(DepthOf(l.left), DepthOf(l.right)) + 1
      /\ DepthOf(l.right) <= DepthOf(l.left) + 1
      /\ DepthOf(l.left) \in Nat /\ DepthOf(l.right) \in Nat /\ DepthOf(r) \in Nat
  BY <1>1, <1>2, DepthType DEF DepthOf, Sound, Level, Between
<1> DEFINE up == l.right
<1>5. up # Nil
  BY <1>2, <1>4, DepthType
<1>6. /\ Sound(up) /\ Good(up.left) /\ Good(up.right)
      /\ ArcsOf(up) = {ArcOf(up)} \cup ArcsOf(up.left) \cup ArcsOf(up.right)
  BY <1>2, <1>5, GoodSplit
<1>7. /\ up = Rec(up.start, up.end, up.min, up.depth, up.left, up.right)
      /\ up.start \in Angles /\ up.end \in Angles
  BY <1>6 DEF Sound, Typed
<1>8. /\ DepthOf(up) = Larger(DepthOf(up.left), DepthOf(up.right)) + 1
      /\ DepthOf(up.left) <= DepthOf(up.right) + 1 /\ DepthOf(up.right) <= DepthOf(up.left) + 1
      /\ DepthOf(up.left) \in Nat /\ DepthOf(up.right) \in Nat
  BY <1>5, <1>6, DepthType DEF DepthOf, Sound, Level
<1> HIDE DEF up
<1>9. up = l.right
  BY DEF up
<1>10. /\ DepthOf(up) = DepthOf(r) + 1 /\ DepthOf(l.left) = DepthOf(r)
       /\ Larger(DepthOf(up.left), DepthOf(up.right)) = DepthOf(r)
  BY <1>4, <1>8, <1>9 DEF Larger
<1>11. l.end \in Nat /\ up.end \in Nat /\ e \in Nat /\ l.end <= up.end /\ up.end <= e
  <2>1. ArcOf(up) \in ArcsOf(l.right) /\ ArcOf(up) \in ArcsOf(l)
    BY <1>2, <1>6, <1>9
  <2> QED BY <1>2, <1>3, <1>7, <2>1, FullCircleType DEF Sound, Sorted, Between, ArcOf
\* the node to the left goes down
<1> DEFINE left == Minimised(Deepened(Rec(l.start, l.end, l.min, l.depth, l.left, up.left)))
<1>12. Between(l.left, l.end, up.left)
  BY <1>2, <1>6, <1>9 DEF Between, Sound, Sorted
<1>13. DepthOf(l.left) <= DepthOf(up.left) + 1 /\ DepthOf(up.left) <= DepthOf(l.left) + 1
  BY <1>8, <1>10 DEF Larger
<1>14. /\ Good(left) /\ left # Nil
       /\ DepthOf(left) = Larger(DepthOf(l.left), DepthOf(up.left)) + 1
       /\ ArcsOf(left) = {<<l.start, l.end>>} \cup ArcsOf(l.left) \cup ArcsOf(up.left)
  BY <1>3, <1>12, <1>13, SeenTo
\* the node itself goes down
<1> DEFINE down == Deepened(Rec(s, e, m, d, up.right, r))
<1>15. Between(up.right, e, r)
  BY <1>2, <1>6, <1>9 DEF Between
<1>16. DepthOf(up.right) <= DepthOf(r) + 1 /\ DepthOf(r) <= DepthOf(up.right) + 1
  BY <1>8, <1>10, <1>4 DEF Larger
<1>17. /\ Good(down) /\ down # Nil
       /\ DepthOf(down) = Larger(DepthOf(up.right), DepthOf(r)) + 1
       /\ ArcsOf(down) = {<<s, e>>} \cup ArcsOf(up.right) \cup ArcsOf(r)
  BY <1>6, <1>9, <1>15, <1>16, GoesDown
<1>18. RotatedRight(LeftFirst(Rec(s, e, m, d, l, r)))
           = Rec(up.start, up.end, up.min, up.depth, left, down)
  <2> DEFINE first == Rec(up.start, up.end, up.min, up.depth, left, up.right)
  <2>1. LeftFirst(Rec(s, e, m, d, Rec(l.start, l.end, l.min, l.depth, l.left,
                          Rec(up.start, up.end, up.min, up.depth, up.left, up.right)), r))
            = Rec(s, e, m, d, first, r)
    BY LeftFirstRec
  <2>2. RotatedRight(Rec(s, e, m, d, first, r))
            = Rec(up.start, up.end, up.min, up.depth, left, down)
    <3> HIDE DEF left
    <3> QED BY RotatedRightRec
  <2> HIDE DEF left, down, first
  <2>3. LeftFirst(Rec(s, e, m, d, l, r)) = Rec(s, e, m, d, first, r)
    BY ONLY <1>3, <1>7, <1>9, <2>1
  <2> QED BY ONLY <2>2, <2>3
<1> HIDE DEF left, down
<1>19. Between(left, up.end, down)
  <2>1. ASSUME NEW a \in ArcsOf(left)
        PROVE  a[2] <= up.end
    <3>1. a[2] \in Nat
      BY <2>1, ArcsType
    <3>2. a = <<l.start, l.end>> \/ a \in ArcsOf(l.left) \/ a \in ArcsOf(up.left)
      BY <1>14, <2>1
    <3>3. a[2] <= l.end \/ a[2] <= up.end
      BY <1>2, <1>6, <1>11, <3>2 DEF Sound, Sorted
    <3> QED BY <1>11, <3>1, <3>3
  <2>2. ASSUME NEW a \in ArcsOf(down)
        PROVE  up.end <= a[2]
    <3>1. a[2] \in Nat
      BY <2>2, ArcsType
    <3>2. a = <<s, e>> \/ a \in ArcsOf(up.right) \/ a \in ArcsOf(r)
      BY <1>17, <2>2
    <3>3. e <= a[2] \/ up.end <= a[2]
      BY <1>6, <1>11, <3>2 DEF Sound, Sorted, Between
    <3> QED BY <1>11, <3>1, <3>3
  <2> QED BY <1>14, <1>17, <2>1, <2>2 DEF Between
<1>20. /\ DepthOf(left) <= DepthOf(down) + 1 /\ DepthOf(down) <= DepthOf(left) + 1
       /\ Larger(DepthOf(left), DepthOf(down)) + 1 \in {DepthOf(l), DepthOf(l) + 1}
  BY <1>4, <1>8, <1>10, <1>14, <1>17 DEF Larger
<1>21. LET b == Minimised(Deepened(Rec(up.start, up.end, up.min, up.depth, left, down)))
       IN  /\ Good(b) /\ b # Nil /\ b.right = down
           /\ DepthOf(b) = Larger(DepthOf(left), DepthOf(down)) + 1
           /\ ArcsOf(b) = {<<up.start, up.end>>} \cup ArcsOf(left) \cup ArcsOf(down)
  BY <1>7, <1>19, <1>20, SeenTo
<1>22. ArcsOf(l) = {<<l.start, l.end>>} \cup ArcsOf(l.left)
                       \cup {<<up.start, up.end>>} \cup ArcsOf(up.left) \cup ArcsOf(up.right)
  BY <1>2, <1>6, <1>9 DEF ArcOf
<1>23. ArcsOf(up.right) \subseteq ArcsOf(l.right)
  BY <1>6, <1>9
<1> QED BY <1>14, <1>17, <1>18, <1>20, <1>21, <1>22, <1>23

\* The same to the left
LEMMA RotatedLeftRec ==
    ASSUME NEW s, NEW e, NEW m, NEW d, NEW l,
           NEW rs, NEW re, NEW rm, NEW rd, NEW rl, NEW rr
    PROVE  RotatedLeft(Rec(s, e, m, d, l, Rec(rs, re, rm, rd, rl, rr)))
               = Rec(rs, re, rm, rd, Deepened(Rec(s, e, m, d, l, rl)), rr)
<1> DEFINE r == Rec(rs, re, rm, rd, rl, rr)
           n == Rec(s, e, m, d, l, r)
<1>1. r.left = rl /\ \A v : [r EXCEPT !.left = v] = Rec(rs, re, rm, rd, v, rr)
  BY DEF Rec
<1> HIDE DEF r
<1>2. n.right = r /\ \A v : [n EXCEPT !.right = v] = Rec(s, e, m, d, l, v)
  BY DEF Rec
<1> HIDE DEF n
<1>3. RotatedLeft(n) = Rec(rs, re, rm, rd, Deepened(Rec(s, e, m, d, l, rl)), rr)
  BY <1>1, <1>2 DEF RotatedLeft
<1> QED BY <1>3 DEF n, r

LEMMA RightFirstRec ==
    ASSUME NEW s, NEW e, NEW m, NEW d, NEW l,
           NEW rs, NEW re, NEW rm, NEW rd, NEW rr,
           NEW us, NEW ue, NEW um, NEW ud, NEW ul, NEW ur
    PROVE  RightFirst(Rec(s, e, m, d, l, Rec(rs, re, rm, rd, Rec(us, ue, um, ud, ul, ur), rr)))
               = Rec(s, e, m, d, l,
                     Rec(us, ue, um, ud, ul, Minimised(Deepened(Rec(rs, re, rm, rd, ur, rr)))))
<1> DEFINE up == Rec(us, ue, um, ud, ul, ur)
           r == Rec(rs, re, rm, rd, up, rr)
           n == Rec(s, e, m, d, l, r)
<1>1. up.right = ur /\ \A v : [up EXCEPT !.right = v] = Rec(us, ue, um, ud, ul, v)
  BY DEF Rec
<1> HIDE DEF up
<1>2. r.left = up /\ \A v : [r EXCEPT !.left = v] = Rec(rs, re, rm, rd, v, rr)
  BY DEF Rec
<1> HIDE DEF r
<1>3. n.right = r /\ \A v : [n EXCEPT !.right = v] = Rec(s, e, m, d, l, v)
  BY DEF Rec
<1> HIDE DEF n
<1>4. RightFirst(n) = Rec(s, e, m, d, l,
          Rec(us, ue, um, ud, ul, Minimised(Deepened(Rec(rs, re, rm, rd, ur, rr)))))
  BY <1>1, <1>2, <1>3 DEF RightFirst
<1> QED BY <1>4 DEF n, r, up

LEMMA RotatesLeft ==
    ASSUME NEW s \in Angles, NEW e \in Angles, NEW m \in Angles, NEW d, NEW l, NEW r, Between(l, e, r),
           DepthOf(r) = DepthOf(l) + 2, DepthOf(r.left) <= DepthOf(r.right),
           m <= s, \A a \in ArcsOf(l) \cup ArcsOf(r.left) : m <= a[1]
    PROVE  LET b == Minimised(Deepened(RotatedLeft(Rec(s, e, m, d, l, r))))
           IN  /\ Good(b) /\ b # Nil /\ DepthOf(b) \in {DepthOf(r), DepthOf(r) + 1}
               /\ ArcsOf(b) = {<<s, e>>} \cup ArcsOf(l) \cup ArcsOf(r)
<1>1. r # Nil
  BY DepthType DEF Between
<1>2. /\ Sound(r) /\ Good(r.left) /\ Good(r.right)
      /\ ArcsOf(r) = {ArcOf(r)} \cup ArcsOf(r.left) \cup ArcsOf(r.right)
  BY <1>1, GoodSplit DEF Between
<1>3. /\ r = Rec(r.start, r.end, r.min, r.depth, r.left, r.right)
      /\ r.start \in Angles /\ r.end \in Angles
  BY <1>2 DEF Sound, Typed
<1>4. /\ DepthOf(r) = Larger(DepthOf(r.left), DepthOf(r.right)) + 1
      /\ DepthOf(r.right) <= DepthOf(r.left) + 1
      /\ DepthOf(r.left) \in Nat /\ DepthOf(r.right) \in Nat /\ DepthOf(l) \in Nat
  BY <1>1, <1>2, DepthType DEF DepthOf, Sound, Level, Between
<1> DEFINE down == Deepened(Rec(s, e, m, d, l, r.left))
<1>5. Between(l, e, r.left)
  BY <1>2 DEF Between
<1>6. DepthOf(l) <= DepthOf(r.left) + 1 /\ DepthOf(r.left) <= DepthOf(l) + 1
  BY <1>4 DEF Larger
<1>7. /\ Good(down) /\ down # Nil
      /\ DepthOf(down) = Larger(DepthOf(l), DepthOf(r.left)) + 1
      /\ ArcsOf(down) = {<<s, e>>} \cup ArcsOf(l) \cup ArcsOf(r.left)
  BY <1>5, <1>6, GoesDown
<1>8. RotatedLeft(Rec(s, e, m, d, l, r)) = Rec(r.start, r.end, r.min, r.depth, down, r.right)
  <2>1. RotatedLeft(Rec(s, e, m, d, l, Rec(r.start, r.end, r.min, r.depth, r.left, r.right)))
            = Rec(r.start, r.end, r.min, r.depth, down, r.right)
    BY RotatedLeftRec
  <2> HIDE DEF down
  <2> QED BY ONLY <1>3, <2>1
<1> HIDE DEF down
<1>9. Between(down, r.end, r.right)
  <2>1. \A a \in ArcsOf(r.right) : r.end <= a[2]
    BY <1>2 DEF Sound, Sorted
  <2>2. e <= r.end
    <3>1. <<r.start, r.end>> \in ArcsOf(r)
      BY <1>2 DEF ArcOf
    <3>2. <<r.start, r.end>>[2] = r.end
      OBVIOUS
    <3>3. \A a \in ArcsOf(r) : e <= a[2]
      BY DEF Between
    <3> QED BY ONLY <3>1, <3>2, <3>3
  <2>3. ASSUME NEW a \in ArcsOf(down)
        PROVE  a[2] <= r.end
    <3>1. a[2] \in Nat /\ r.end \in Nat /\ e \in Nat
      BY <1>3, <2>3, ArcsType, FullCircleType
    <3>2. a = <<s, e>> \/ a \in ArcsOf(l) \/ a \in ArcsOf(r.left)
      BY <1>7, <2>3
    <3>3. a[2] <= e \/ a[2] <= r.end
      <4>1. CASE a = <<s, e>>
        BY <3>1, <4>1
      <4>2. CASE a \in ArcsOf(r.left)
        BY <1>2, <4>2 DEF Sound, Sorted
      <4>3. CASE a \in ArcsOf(l)
        BY <4>3 DEF Between
      <4> QED BY <3>2, <4>1, <4>2, <4>3
    <3> QED BY <2>2, <3>1, <3>3
  <2> QED BY <1>2, <1>7, <2>1, <2>3 DEF Between
<1>10. /\ DepthOf(down) <= DepthOf(r.right) + 1 /\ DepthOf(r.right) <= DepthOf(down) + 1
       /\ Larger(DepthOf(down), DepthOf(r.right)) + 1 \in {DepthOf(r), DepthOf(r) + 1}
  BY <1>4, <1>7 DEF Larger
<1>11. LET b == Minimised(Deepened(Rec(r.start, r.end, r.min, r.depth, down, r.right)))
       IN  /\ Good(b) /\ b # Nil
           /\ DepthOf(b) = Larger(DepthOf(down), DepthOf(r.right)) + 1
           /\ ArcsOf(b) = {<<r.start, r.end>>} \cup ArcsOf(down) \cup ArcsOf(r.right)
  BY <1>3, <1>9, <1>10, SeenTo
<1> QED BY <1>2, <1>7, <1>8, <1>10, <1>11 DEF ArcOf

LEMMA RotatesTwiceLeft ==
    ASSUME NEW s \in Angles, NEW e \in Angles, NEW m \in Angles, NEW d, NEW l, NEW r, Between(l, e, r),
           DepthOf(r) = DepthOf(l) + 2, DepthOf(r.left) > DepthOf(r.right),
           m <= s, \A a \in ArcsOf(l) \cup ArcsOf(r.left) : m <= a[1]
    PROVE  LET b == Minimised(Deepened(RotatedLeft(RightFirst(Rec(s, e, m, d, l, r)))))
           IN  /\ Good(b) /\ b # Nil /\ DepthOf(b) \in {DepthOf(r), DepthOf(r) + 1}
               /\ ArcsOf(b) = {<<s, e>>} \cup ArcsOf(l) \cup ArcsOf(r)
<1>1. r # Nil
  BY DepthType DEF Between
<1>2. /\ Sound(r) /\ Good(r.left) /\ Good(r.right)
      /\ ArcsOf(r) = {ArcOf(r)} \cup ArcsOf(r.left) \cup ArcsOf(r.right)
  BY <1>1, GoodSplit DEF Between
<1>3. /\ r = Rec(r.start, r.end, r.min, r.depth, r.left, r.right)
      /\ r.start \in Angles /\ r.end \in Angles
  BY <1>2 DEF Sound, Typed
<1>4. /\ DepthOf(r) = Larger(DepthOf(r.left), DepthOf(r.right)) + 1
      /\ DepthOf(r.left) <= DepthOf(r.right) + 1
      /\ DepthOf(r.left) \in Nat /\ DepthOf(r.right) \in Nat /\ DepthOf(l) \in Nat
  BY <1>1, <1>2, DepthType DEF DepthOf, Sound, Level, Between
<1> DEFINE up == r.left
<1>5. up # Nil
  BY <1>2, <1>4, DepthType
<1>6. /\ Sound(up) /\ Good(up.left) /\ Good(up.right)
      /\ ArcsOf(up) = {ArcOf(up)} \cup ArcsOf(up.left) \cup ArcsOf(up.right)
  BY <1>2, <1>5, GoodSplit
<1>7. /\ up = Rec(up.start, up.end, up.min, up.depth, up.left, up.right)
      /\ up.start \in Angles /\ up.end \in Angles
  BY <1>6 DEF Sound, Typed
<1>8. /\ DepthOf(up) = Larger(DepthOf(up.left), DepthOf(up.right)) + 1
      /\ DepthOf(up.left) <= DepthOf(up.right) + 1 /\ DepthOf(up.right) <= DepthOf(up.left) + 1
      /\ DepthOf(up.left) \in Nat /\ DepthOf(up.right) \in Nat
  BY <1>5, <1>6, DepthType DEF DepthOf, Sound, Level
<1> HIDE DEF up
<1>9. up = r.left
  BY DEF up
<1>10. /\ DepthOf(up) = DepthOf(l) + 1 /\ DepthOf(r.right) = DepthOf(l)
       /\ Larger(DepthOf(up.left), DepthOf(up.right)) = DepthOf(l)
  BY <1>4, <1>8, <1>9 DEF Larger
<1>11. r.end \in Nat /\ up.end \in Nat /\ e \in Nat /\ up.end <= r.end /\ e <= up.end
  <2>1. ArcOf(up) \in ArcsOf(r.left) /\ ArcOf(up) \in ArcsOf(r)
    BY <1>2, <1>6, <1>9
  <2> QED BY <1>2, <1>3, <1>7, <2>1, FullCircleType DEF Sound, Sorted, Between, ArcOf
<1> DEFINE right == Minimised(Deepened(Rec(r.start, r.end, r.min, r.depth, up.right, r.right)))
<1>12. Between(up.right, r.end, r.right)
  BY <1>2, <1>6, <1>9 DEF Between, Sound, Sorted
<1>13. DepthOf(up.right) <= DepthOf(r.right) + 1 /\ DepthOf(r.right) <= DepthOf(up.right) + 1
  BY <1>8, <1>10 DEF Larger
<1>14. /\ Good(right) /\ right # Nil
       /\ DepthOf(right) = Larger(DepthOf(up.right), DepthOf(r.right)) + 1
       /\ ArcsOf(right) = {<<r.start, r.end>>} \cup ArcsOf(up.right) \cup ArcsOf(r.right)
  BY <1>3, <1>12, <1>13, SeenTo
<1> DEFINE down == Deepened(Rec(s, e, m, d, l, up.left))
<1>15. Between(l, e, up.left)
  BY <1>2, <1>6, <1>9 DEF Between
<1>16. DepthOf(l) <= DepthOf(up.left) + 1 /\ DepthOf(up.left) <= DepthOf(l) + 1
  BY <1>8, <1>10, <1>4 DEF Larger
<1>17. /\ Good(down) /\ down # Nil
       /\ DepthOf(down) = Larger(DepthOf(l), DepthOf(up.left)) + 1
       /\ ArcsOf(down) = {<<s, e>>} \cup ArcsOf(l) \cup ArcsOf(up.left)
  BY <1>6, <1>9, <1>15, <1>16, GoesDown
<1>18. RotatedLeft(RightFirst(Rec(s, e, m, d, l, r)))
           = Rec(up.start, up.end, up.min, up.depth, down, right)
  <2> DEFINE first == Rec(up.start, up.end, up.min, up.depth, up.left, right)
  <2>1. RightFirst(Rec(s, e, m, d, l, Rec(r.start, r.end, r.min, r.depth,
                          Rec(up.start, up.end, up.min, up.depth, up.left, up.right), r.right)))
            = Rec(s, e, m, d, l, first)
    BY RightFirstRec
  <2>2. RotatedLeft(Rec(s, e, m, d, l, first))
            = Rec(up.start, up.end, up.min, up.depth, down, right)
    <3> HIDE DEF right
    <3> QED BY RotatedLeftRec
  <2> HIDE DEF right, down, first
  <2>3. RightFirst(Rec(s, e, m, d, l, r)) = Rec(s, e, m, d, l, first)
    BY ONLY <1>3, <1>7, <1>9, <2>1
  <2> QED BY ONLY <2>2, <2>3
<1> HIDE DEF right, down
<1>19. Between(down, up.end, right)
  <2>1. ASSUME NEW a \in ArcsOf(right)
        PROVE  up.end <= a[2]
    <3>1. a[2] \in Nat
      BY <2>1, ArcsType
    <3>2. a = <<r.start, r.end>> \/ a \in ArcsOf(r.right) \/ a \in ArcsOf(up.right)
      BY <1>14, <2>1
    <3>3. r.end <= a[2] \/ up.end <= a[2]
      BY <1>2, <1>6, <1>11, <3>2 DEF Sound, Sorted
    <3> QED BY <1>11, <3>1, <3>3
  <2>2. ASSUME NEW a \in ArcsOf(down)
        PROVE  a[2] <= up.end
    <3>1. a[2] \in Nat
      BY <2>2, ArcsType
    <3>2. a = <<s, e>> \/ a \in ArcsOf(up.left) \/ a \in ArcsOf(l)
      BY <1>17, <2>2
    <3>3. a[2] <= e \/ a[2] <= up.end
      BY <1>6, <1>11, <3>2 DEF Sound, Sorted, Between
    <3> QED BY <1>11, <3>1, <3>3
  <2> QED BY <1>14, <1>17, <2>1, <2>2 DEF Between
<1>20. /\ DepthOf(down) <= DepthOf(right) + 1 /\ DepthOf(right) <= DepthOf(down) + 1
       /\ Larger(DepthOf(down), DepthOf(right)) + 1 \in {DepthOf(r), DepthOf(r) + 1}
  BY <1>4, <1>8, <1>10, <1>14, <1>17 DEF Larger
<1>21. LET b == Minimised(Deepened(Rec(up.start, up.end, up.min, up.depth, down, right)))
       IN  /\ Good(b) /\ b # Nil
           /\ DepthOf(b) = Larger(DepthOf(down), DepthOf(right)) + 1
           /\ ArcsOf(b) = {<<up.start, up.end>>} \cup ArcsOf(down) \cup ArcsOf(right)
  BY <1>7, <1>19, <1>20, SeenTo
<1>22. ArcsOf(r) = {<<r.start, r.end>>} \cup ArcsOf(r.right)
                       \cup {<<up.start, up.end>>} \cup ArcsOf(up.left) \cup ArcsOf(up.right)
  BY <1>2, <1>6, <1>9 DEF ArcOf
<1> QED BY <1>14, <1>17, <1>18, <1>20, <1>21, <1>22

\* One round of the loop of balance
LEMMA Balances ==
    ASSUME NEW s \in Angles, NEW e \in Angles, NEW m \in Angles, NEW d, NEW l, NEW r, Between(l, e, r),
           DepthOf(l) <= DepthOf(r) + 2, DepthOf(r) <= DepthOf(l) + 2, m <= s,
           DepthOf(l) = DepthOf(r) + 2 => \A a \in ArcsOf(l.right) \cup ArcsOf(r) : m <= a[1],
           DepthOf(r) = DepthOf(l) + 2 => \A a \in ArcsOf(l) \cup ArcsOf(r.left) : m <= a[1]
    PROVE  LET b == balance(Rec(s, e, m, d, l, r))
           IN  /\ Good(b) /\ b # Nil /\ ArcsOf(b) = {<<s, e>>} \cup ArcsOf(l) \cup ArcsOf(r)
               /\ DepthOf(l) = DepthOf(r) + 2 =>
                     /\ DepthOf(b) \in {DepthOf(l), DepthOf(l) + 1}
                     /\ ArcsOf(b.right) \subseteq {<<s, e>>} \cup ArcsOf(l.right) \cup ArcsOf(r)
               /\ DepthOf(r) = DepthOf(l) + 2 => DepthOf(b) \in {DepthOf(r), DepthOf(r) + 1}
               /\ DepthOf(l) <= DepthOf(r) + 1 /\ DepthOf(r) <= DepthOf(l) + 1 =>
                     DepthOf(b) = Larger(DepthOf(l), DepthOf(r)) + 1 /\ b.right = r
<1> DEFINE n == Rec(s, e, m, d, l, r)
           b == balance(n)
<1>1. n.left = l /\ n.right = r
  BY RecIsNode
<1>2. DepthOf(l) \in Nat /\ DepthOf(r) \in Nat
  BY DepthType DEF Between
<1>3. (Heavy(n).left <=> DepthOf(l) > DepthOf(r) + 1) /\ (Heavy(n).right <=> DepthOf(r) > DepthOf(l) + 1)
  BY <1>1 DEF Heavy
<1>4. CASE DepthOf(l) = DepthOf(r) + 2 /\ DepthOf(l.right) <= DepthOf(l.left)
  <2>1. Heavy(n).left
    BY <1>2, <1>3, <1>4
  <2>2. ~(DepthOf(l.right) > DepthOf(l.left))
    <3>1. Good(l.left) /\ Good(l.right)
      BY <1>2, <1>4, DepthType, GoodSplit DEF Between
    <3> QED BY <3>1, <1>4, DepthType
  <2> HIDE DEF n
  <2>3. b = Minimised(Deepened(RotatedRight(n)))
    BY <1>1, <2>1, <2>2 DEF balance
  <2> USE DEF n
  <2> QED BY <1>2, <1>4, <2>3, RotatesRight
<1>5. CASE DepthOf(l) = DepthOf(r) + 2 /\ DepthOf(l.right) > DepthOf(l.left)
  <2>1. Heavy(n).left
    BY <1>2, <1>3, <1>5
  <2> HIDE DEF n
  <2>2. b = Minimised(Deepened(RotatedRight(LeftFirst(n))))
    BY <1>1, <1>5, <2>1 DEF balance
  <2> USE DEF n
  <2> QED BY <1>2, <1>5, <2>2, RotatesTwiceRight
<1>6. CASE DepthOf(r) = DepthOf(l) + 2 /\ DepthOf(r.left) <= DepthOf(r.right)
  <2>1. ~Heavy(n).left /\ Heavy(n).right
    BY <1>2, <1>3, <1>6
  <2>2. ~(DepthOf(r.left) > DepthOf(r.right))
    <3>1. Good(r.left) /\ Good(r.right)
      BY <1>2, <1>6, DepthType, GoodSplit DEF Between
    <3> QED BY <3>1, <1>6, DepthType
  <2> HIDE DEF n
  <2>3. b = Minimised(Deepened(RotatedLeft(n)))
    BY <1>1, <2>1, <2>2 DEF balance
  <2> USE DEF n
  <2> QED BY <1>2, <1>6, <2>3, RotatesLeft
<1>7. CASE DepthOf(r) = DepthOf(l) + 2 /\ DepthOf(r.left) > DepthOf(r.right)
  <2>1. ~Heavy(n).left /\ Heavy(n).right
    BY <1>2, <1>3, <1>7
  <2> HIDE DEF n
  <2>2. b = Minimised(Deepened(RotatedLeft(RightFirst(n))))
    BY <1>1, <1>7, <2>1 DEF balance
  <2> USE DEF n
  <2> QED BY <1>2, <1>7, <2>2, RotatesTwiceLeft
<1>8. CASE DepthOf(l) <= DepthOf(r) + 1 /\ DepthOf(r) <= DepthOf(l) + 1
  <2>1. ~Heavy(n).left /\ ~Heavy(n).right
    BY <1>2, <1>3, <1>8
  <2> HIDE DEF n
  <2>2. b = Minimised(Deepened(n))
    BY <2>1 DEF balance
  <2> USE DEF n
  <2> QED BY <1>2, <1>8, <2>2, SeenTo
<1>9. /\ DepthOf(l) = DepthOf(r) + 2 => DepthOf(l.left) \in Nat /\ DepthOf(l.right) \in Nat
      /\ DepthOf(r) = DepthOf(l) + 2 => DepthOf(r.left) \in Nat /\ DepthOf(r.right) \in Nat
  BY <1>2, DepthType, GoodSplit DEF Between
<1>10. \/ DepthOf(l) = DepthOf(r) + 2 /\ DepthOf(l.right) <= DepthOf(l.left)
       \/ DepthOf(l) = DepthOf(r) + 2 /\ DepthOf(l.right) > DepthOf(l.left)
       \/ DepthOf(r) = DepthOf(l) + 2 /\ DepthOf(r.left) <= DepthOf(r.right)
       \/ DepthOf(r) = DepthOf(l) + 2 /\ DepthOf(r.left) > DepthOf(r.right)
       \/ DepthOf(l) <= DepthOf(r) + 1 /\ DepthOf(r) <= DepthOf(l) + 1
  BY <1>2, <1>9
<1> QED BY <1>4, <1>5, <1>6, <1>7, <1>8, <1>10

-----------------------------------------------------------------------------
(* Insertion.                                                              *)

\* An arc that would start before one that it also ends behind covers that one.
CoversNone(arc, A) == \A a \in A : ~(arc[1] < a[1] /\ a[2] <= arc[2])

\* g is c with the arc.  An arc that ends before all others never comes to the
\* right of the root: it could not without going past the root's end.
Grew(g, c, arc) ==
    /\ Good(g) /\ g # Nil
    /\ ArcsOf(g) = ArcsOf(c) \cup {arc}
    /\ DepthOf(g) \in {DepthOf(c), DepthOf(c) + 1}
    /\ (\A a \in ArcsOf(c) : a[2] > arc[2]) => arc \notin ArcsOf(g.right)

LEMMA LeafGrew ==
    ASSUME NEW arc \in Angles \X Angles
    PROVE  Grew(Node(arc), Nil, arc)
<1>1. Node(arc) = Rec(arc[1], arc[2], arc[1], 1, Nil, Nil)
  BY DEF Node, Rec
<1>2. Larger(DepthOf(Nil), DepthOf(Nil)) + 1 = 1 /\ DepthOf(Nil) <= DepthOf(Nil) + 1
  BY NilIsGood DEF Larger
<1>3. arc[1] \in Angles /\ arc[2] \in Angles /\ arc = <<arc[1], arc[2]>> /\ arc[1] <= arc[1]
  <2>1. arc[1] \in Angles /\ arc[2] \in Angles /\ arc = <<arc[1], arc[2]>>
    OBVIOUS
  <2>2. arc[1] \in Nat
    BY ONLY <2>1, FullCircleType
  <2> QED BY ONLY <2>1, <2>2
<1>4. LET n == Rec(arc[1], arc[2], arc[1], 1, Nil, Nil)
      IN  Good(n) /\ n # Nil /\ DepthOf(n) = 1 /\ ArcsOf(n) = {<<arc[1], arc[2]>>} \cup ArcsOf(Nil) \cup ArcsOf(Nil)
  BY <1>2, <1>3, NilIsGood, GoodNode
<1>5. Node(arc).right = Nil
  BY DEF Node
<1> QED BY <1>1, <1>3, <1>4, <1>5, NilIsGood DEF Grew

\* A new child to the left
LEMMA GrewLeft ==
    ASSUME NEW n, n # Nil, Good(n), NEW arc \in Angles \X Angles, NEW g,
           n.end > arc[2], Grew(g, n.left, arc), CoversNone(arc, ArcsOf(n))
    PROVE  Grew(balance([n EXCEPT !.left = g]), n, arc)
<1>0. arc[1] \in Nat /\ arc[2] \in Nat /\ arc = <<arc[1], arc[2]>>
  <2>1. arc[1] \in Angles /\ arc[2] \in Angles /\ arc = <<arc[1], arc[2]>>
    OBVIOUS
  <2> QED BY ONLY <2>1, FullCircleType
<1> DEFINE r == n.right
           b == balance([n EXCEPT !.left = g])
<1>1. /\ Sound(n) /\ Good(n.left) /\ Good(r)
      /\ ArcsOf(n) = {ArcOf(n)} \cup ArcsOf(n.left) \cup ArcsOf(r)
  BY GoodSplit
<1>2. /\ n = Rec(n.start, n.end, n.min, n.depth, n.left, r)
      /\ n.start \in Angles /\ n.end \in Angles /\ n.min \in Angles
      /\ n.min <= n.start
  BY <1>1 DEF Sound, Typed, LowMin
<1>13. n.start \in Nat /\ n.end \in Nat /\ n.min \in Nat
  BY ONLY <1>2, FullCircleType
<1>3. [n EXCEPT !.left = g] = Rec(n.start, n.end, n.min, n.depth, g, r)
  <2>1. [Rec(n.start, n.end, n.min, n.depth, n.left, r) EXCEPT !.left = g]
            = Rec(n.start, n.end, n.min, n.depth, g, r)
    BY DEF Rec
  <2> QED BY ONLY <1>2, <2>1
<1>4. /\ DepthOf(n) = Larger(DepthOf(n.left), DepthOf(r)) + 1
      /\ DepthOf(n.left) <= DepthOf(r) + 1 /\ DepthOf(r) <= DepthOf(n.left) + 1
      /\ DepthOf(n.left) \in Nat /\ DepthOf(r) \in Nat
  BY <1>1, DepthType DEF Sound, Level, DepthOf
<1>5. DepthOf(g) \in {DepthOf(n.left), DepthOf(n.left) + 1} /\ ArcsOf(g) = ArcsOf(n.left) \cup {arc} /\ Good(g) /\ g # Nil
  BY DEF Grew
<1>6. Between(g, n.end, r)
  <2>1. arc[2] <= n.end
    BY ONLY <1>0, <1>13, n.end > arc[2]
  <2> QED BY <1>1, <1>5, <2>1 DEF Between, Sound, Sorted
<1>7. ASSUME NEW a \in ArcsOf(g.right) \cup ArcsOf(r)
      PROVE  n.min <= a[1]
  <2>1. \A x \in ArcsOf(n.left) \cup ArcsOf(r) : n.min <= x[1]
    BY <1>1 DEF Sound, LowMin
  <2>2. ArcsOf(g.right) \subseteq ArcsOf(n.left) \cup {arc}
    BY <1>5, GoodSplit
  <2>3. CASE a = arc /\ ~(n.min <= arc[1]) /\ a \in ArcsOf(g.right)
    <3>1. arc[1] < n.min /\ arc[1] \in Nat /\ arc[2] \in Nat /\ n.min \in Nat
      BY ONLY <1>0, <1>13, <2>3
    <3>2. ASSUME NEW x \in ArcsOf(n.left)
          PROVE  x[2] > arc[2]
      <4>1. n.min <= x[1] /\ x[1] \in Nat /\ x[2] \in Nat
        BY <2>1, <3>2, ArcsType
      <4>2. ~(arc[1] < x[1] /\ x[2] <= arc[2])
        BY <1>1, <3>2 DEF CoversNone
      <4> QED BY <3>1, <4>1, <4>2
    <3>3. arc \notin ArcsOf(g.right)
      BY <3>2 DEF Grew
    <3> QED BY <2>3, <3>3
  <2> QED BY <1>7, <2>1, <2>2, <2>3
<1>8. DepthOf(g) <= DepthOf(r) + 2 /\ DepthOf(r) <= DepthOf(g) + 1 /\ DepthOf(g) \in Nat
  BY <1>4, <1>5
<1> HIDE DEF b
<1>9. /\ Good(b) /\ b # Nil /\ ArcsOf(b) = {<<n.start, n.end>>} \cup ArcsOf(g) \cup ArcsOf(r)
      /\ DepthOf(g) = DepthOf(r) + 2 =>
            /\ DepthOf(b) \in {DepthOf(g), DepthOf(g) + 1}
            /\ ArcsOf(b.right) \subseteq {<<n.start, n.end>>} \cup ArcsOf(g.right) \cup ArcsOf(r)
      /\ DepthOf(g) <= DepthOf(r) + 1 /\ DepthOf(r) <= DepthOf(g) + 1 =>
            DepthOf(b) = Larger(DepthOf(g), DepthOf(r)) + 1 /\ b.right = r
  <2>1. DepthOf(r) <= DepthOf(g) + 2 /\ DepthOf(r) # DepthOf(g) + 2
    BY <1>4, <1>8
  <2> HIDE DEF r
  <2>2. LET t == balance(Rec(n.start, n.end, n.min, n.depth, g, r))
        IN  /\ Good(t) /\ t # Nil /\ ArcsOf(t) = {<<n.start, n.end>>} \cup ArcsOf(g) \cup ArcsOf(r)
            /\ DepthOf(g) = DepthOf(r) + 2 =>
                  /\ DepthOf(t) \in {DepthOf(g), DepthOf(g) + 1}
                  /\ ArcsOf(t.right) \subseteq {<<n.start, n.end>>} \cup ArcsOf(g.right) \cup ArcsOf(r)
            /\ DepthOf(r) = DepthOf(g) + 2 => DepthOf(t) \in {DepthOf(r), DepthOf(r) + 1}
            /\ DepthOf(g) <= DepthOf(r) + 1 /\ DepthOf(r) <= DepthOf(g) + 1 =>
                  DepthOf(t) = Larger(DepthOf(g), DepthOf(r)) + 1 /\ t.right = r
    BY <1>2, <1>6, <1>7, <1>8, <2>1, Balances
  <2>3. b = balance(Rec(n.start, n.end, n.min, n.depth, g, r))
    BY <1>3 DEF b
  <2> QED BY ONLY <2>2, <2>3
<1>10. ArcsOf(b) = ArcsOf(n) \cup {arc}
  BY <1>1, <1>5, <1>9 DEF ArcOf
<1>11. DepthOf(b) \in {DepthOf(n), DepthOf(n) + 1}
  <2>1. CASE DepthOf(g) = DepthOf(r) + 2
    BY <1>4, <1>5, <1>9, <2>1 DEF Larger
  <2>2. CASE DepthOf(g) # DepthOf(r) + 2
    <3>1. DepthOf(b) = Larger(DepthOf(g), DepthOf(r)) + 1
      BY <1>4, <1>8, <1>9, <2>2
    <3> QED BY <1>4, <1>5, <3>1 DEF Larger
  <2> QED BY <2>1, <2>2
<1>12. ASSUME \A a \in ArcsOf(n) : a[2] > arc[2]
       PROVE  arc \notin ArcsOf(b.right)
  <2>1. arc \notin ArcsOf(n)
    BY <1>0, <1>12
  <2>2. arc \notin ArcsOf(g.right)
    BY <1>1, <1>12 DEF Grew
  <2>3. b.right = r \/ ArcsOf(b.right) \subseteq {<<n.start, n.end>>} \cup ArcsOf(g.right) \cup ArcsOf(r)
    BY <1>4, <1>8, <1>9
  <2> QED BY <1>1, <2>1, <2>2, <2>3 DEF ArcOf
<1> QED BY <1>9, <1>10, <1>11, <1>12 DEF Grew, b

\* and to the right
LEMMA GrewRight ==
    ASSUME NEW n, n # Nil, Good(n), NEW arc \in Angles \X Angles, NEW g,
           n.end <= arc[2], Grew(g, n.right, arc), CoversNone(arc, ArcsOf(n))
    PROVE  Grew(balance([n EXCEPT !.right = g]), n, arc)
<1>0. arc[1] \in Nat /\ arc[2] \in Nat /\ arc = <<arc[1], arc[2]>>
  <2>1. arc[1] \in Angles /\ arc[2] \in Angles /\ arc = <<arc[1], arc[2]>>
    OBVIOUS
  <2> QED BY ONLY <2>1, FullCircleType
<1> DEFINE l == n.left
           b == balance([n EXCEPT !.right = g])
<1>1. /\ Sound(n) /\ Good(n.right) /\ Good(l)
      /\ ArcsOf(n) = {ArcOf(n)} \cup ArcsOf(l) \cup ArcsOf(n.right)
  BY GoodSplit
<1>2. /\ n = Rec(n.start, n.end, n.min, n.depth, l, n.right)
      /\ n.start \in Angles /\ n.end \in Angles /\ n.min \in Angles
      /\ n.min <= n.start
  BY <1>1 DEF Sound, Typed, LowMin
<1>13. n.start \in Nat /\ n.end \in Nat /\ n.min \in Nat
  BY ONLY <1>2, FullCircleType
<1>3. [n EXCEPT !.right = g] = Rec(n.start, n.end, n.min, n.depth, l, g)
  <2>1. [Rec(n.start, n.end, n.min, n.depth, l, n.right) EXCEPT !.right = g]
            = Rec(n.start, n.end, n.min, n.depth, l, g)
    BY DEF Rec
  <2> QED BY ONLY <1>2, <2>1
<1>4. /\ DepthOf(n) = Larger(DepthOf(l), DepthOf(n.right)) + 1
      /\ DepthOf(n.right) <= DepthOf(l) + 1 /\ DepthOf(l) <= DepthOf(n.right) + 1
      /\ DepthOf(n.right) \in Nat /\ DepthOf(l) \in Nat
  BY <1>1, DepthType DEF Sound, Level, DepthOf
<1>5. DepthOf(g) \in {DepthOf(n.right), DepthOf(n.right) + 1} /\ ArcsOf(g) = ArcsOf(n.right) \cup {arc} /\ Good(g) /\ g # Nil
  BY DEF Grew
<1>6. Between(l, n.end, g)
  BY <1>1, <1>5 DEF Between, Sound, Sorted
<1>7. ASSUME NEW a \in ArcsOf(l) \cup ArcsOf(g.left)
      PROVE  n.min <= a[1]
  <2>1. \A x \in ArcsOf(l) \cup ArcsOf(n.right) : n.min <= x[1]
    BY <1>1 DEF Sound, LowMin
  <2>2. ArcsOf(g.left) \subseteq ArcsOf(n.right) \cup {arc}
    BY <1>5, GoodSplit
  <2>3. n.min <= arc[1]
    <3>1. ArcOf(n) \in ArcsOf(n) /\ ArcOf(n)[1] = n.start /\ ArcOf(n)[2] = n.end
      BY <1>1 DEF ArcOf
    <3>2. ~(arc[1] < n.start)
      BY <3>1 DEF CoversNone
    <3> QED BY ONLY <1>0, <1>2, <1>13, <3>2
  <2> QED BY <1>7, <2>1, <2>2, <2>3
<1>8. DepthOf(g) <= DepthOf(l) + 2 /\ DepthOf(l) <= DepthOf(g) + 1 /\ DepthOf(g) \in Nat
  BY <1>4, <1>5
<1> HIDE DEF b
<1>9. /\ Good(b) /\ b # Nil /\ ArcsOf(b) = {<<n.start, n.end>>} \cup ArcsOf(l) \cup ArcsOf(g)
      /\ DepthOf(g) = DepthOf(l) + 2 => DepthOf(b) \in {DepthOf(g), DepthOf(g) + 1}
      /\ DepthOf(l) <= DepthOf(g) + 1 /\ DepthOf(g) <= DepthOf(l) + 1 =>
            DepthOf(b) = Larger(DepthOf(l), DepthOf(g)) + 1
  <2>1. DepthOf(l) <= DepthOf(g) + 2 /\ DepthOf(l) # DepthOf(g) + 2
    BY <1>4, <1>8
  <2> HIDE DEF l
  <2>2. LET t == balance(Rec(n.start, n.end, n.min, n.depth, l, g))
        IN  /\ Good(t) /\ t # Nil /\ ArcsOf(t) = {<<n.start, n.end>>} \cup ArcsOf(l) \cup ArcsOf(g)
            /\ DepthOf(l) = DepthOf(g) + 2 =>
                  /\ DepthOf(t) \in {DepthOf(l), DepthOf(l) + 1}
                  /\ ArcsOf(t.right) \subseteq {<<n.start, n.end>>} \cup ArcsOf(l.right) \cup ArcsOf(g)
            /\ DepthOf(g) = DepthOf(l) + 2 => DepthOf(t) \in {DepthOf(g), DepthOf(g) + 1}
            /\ DepthOf(l) <= DepthOf(g) + 1 /\ DepthOf(g) <= DepthOf(l) + 1 =>
                  DepthOf(t) = Larger(DepthOf(l), DepthOf(g)) + 1 /\ t.right = g
    BY <1>2, <1>6, <1>7, <1>8, <2>1, Balances
  <2>3. b = balance(Rec(n.start, n.end, n.min, n.depth, l, g))
    BY <1>3 DEF b
  <2> QED BY ONLY <2>2, <2>3
<1>10. ArcsOf(b) = ArcsOf(n) \cup {arc}
  BY <1>1, <1>5, <1>9 DEF ArcOf
<1>11. DepthOf(b) \in {DepthOf(n), DepthOf(n) + 1}
  <2>1. CASE DepthOf(g) = DepthOf(l) + 2
    BY <1>4, <1>5, <1>9, <2>1 DEF Larger
  <2>2. CASE DepthOf(g) # DepthOf(l) + 2
    <3>1. DepthOf(b) = Larger(DepthOf(l), DepthOf(g)) + 1
      BY <1>4, <1>8, <1>9, <2>2
    <3> QED BY <1>4, <1>5, <3>1 DEF Larger
  <2> QED BY <2>1, <2>2
<1>12. ~ \A a \in ArcsOf(n) : a[2] > arc[2]
  <2>1. ArcOf(n) \in ArcsOf(n) /\ ArcOf(n)[2] = n.end
    BY <1>1 DEF ArcOf
  <2> QED BY ONLY <1>0, <1>13, <2>1, n.end <= arc[2]
<1> QED BY <1>9, <1>10, <1>11, <1>12 DEF Grew, b

-----------------------------------------------------------------------------
(* The way of an insertion and of a search.                                *)

\* The functions of the module do exist: each can be extended by one step.
LEMMA WayDefined ==
    ASSUME NEW n, NEW arc, DepthOf(n) \in Nat
    PROVE  Way(n, arc) = [k \in 0..DepthOf(n) |-> IF k = 0 THEN n ELSE Below(Way(n, arc)[k - 1], arc)]
<1> DEFINE N == DepthOf(n)
           Defines(f, i) == f = [k \in 0..i |-> IF k = 0 THEN n ELSE Below(f[k - 1], arc)]
           P == {i \in Nat : \E f : Defines(f, i)}
<1>1. N \in Nat
  OBVIOUS
<1> HIDE DEF N
<1>2. 0 \in P
  <2> DEFINE g == [k \in 0..0 |-> n]
  <2>1. \A k \in 0..0 : k = 0
    OBVIOUS
  <2>2. g = [k \in 0..0 |-> IF k = 0 THEN n ELSE Below(g[k - 1], arc)]
    BY <2>1
  <2>3. Defines(g, 0)
    BY <2>2
  <2> HIDE DEF Defines
  <2> QED BY <2>3
<1>3. ASSUME NEW i \in P
      PROVE  i + 1 \in P
  <2>1. PICK f : Defines(f, i)
    BY <1>3
  <2> DEFINE g == [k \in 0..(i + 1) |-> IF k = 0 THEN n ELSE Below(f[k - 1], arc)]
  <2>2. ASSUME NEW k \in 0..i
        PROVE  g[k] = f[k]
    <3>1. f[k] = (IF k = 0 THEN n ELSE Below(f[k - 1], arc))
      BY ONLY <2>1, <2>2
    <3>2. k \in 0..(i + 1)
      BY ONLY <1>3, <2>2
    <3> QED BY ONLY <3>1, <3>2
  <2> HIDE DEF g
  <2>3. ASSUME NEW k \in 0..(i + 1)
        PROVE  (IF k = 0 THEN n ELSE Below(f[k - 1], arc)) = (IF k = 0 THEN n ELSE Below(g[k - 1], arc))
    <3>1. CASE k = 0
      BY <3>1
    <3>2. CASE k # 0
      <4>1. k - 1 \in 0..i
        BY <1>3, <2>3, <3>2
      <4> QED BY <2>2, <3>2, <4>1
    <3> QED BY <3>1, <3>2
  <2>4. g = [k \in 0..(i + 1) |-> IF k = 0 THEN n ELSE Below(g[k - 1], arc)]
    BY <2>3 DEF g
  <2>5. Defines(g, i + 1)
    BY <2>4
  <2> HIDE DEF Defines
  <2> QED BY <1>3, <2>5
<1>4. N \in P
  <2> HIDE DEF P
  <2>1. P \subseteq Nat
    BY DEF P
  <2> QED BY <1>1, <1>2, <1>3, <2>1, AllNaturals
<1>5. PICK f : Defines(f, N)
  BY <1>4
<1> QED BY <1>5 DEF N, Way


\* find comes to a level below the last one,
LEMMA AskedForDefined ==
    ASSUME NEW n, NEW angle, DepthOf(n) \in Nat
    PROVE  AskedFor(n, angle) = [k \in 0..DepthOf(n) |-> IF k = 0 THEN {n} \ {Nil} ELSE UNION {MayCover(m, angle) : m \in AskedFor(n, angle)[k - 1]}]
<1> DEFINE N == DepthOf(n)
           Defines(f, i) == f = [k \in 0..i |-> IF k = 0 THEN {n} \ {Nil} ELSE UNION {MayCover(m, angle) : m \in f[k - 1]}]
           P == {i \in Nat : \E f : Defines(f, i)}
<1>1. N \in Nat
  OBVIOUS
<1> HIDE DEF N
<1>2. 0 \in P
  <2> DEFINE g == [k \in 0..0 |-> {n} \ {Nil}]
  <2>1. \A k \in 0..0 : k = 0
    OBVIOUS
  <2>2. g = [k \in 0..0 |-> IF k = 0 THEN {n} \ {Nil} ELSE UNION {MayCover(m, angle) : m \in g[k - 1]}]
    BY <2>1
  <2>3. Defines(g, 0)
    BY <2>2
  <2> HIDE DEF Defines
  <2> QED BY <2>3
<1>3. ASSUME NEW i \in P
      PROVE  i + 1 \in P
  <2>1. PICK f : Defines(f, i)
    BY <1>3
  <2> DEFINE g == [k \in 0..(i + 1) |-> IF k = 0 THEN {n} \ {Nil} ELSE UNION {MayCover(m, angle) : m \in f[k - 1]}]
  <2>2. ASSUME NEW k \in 0..i
        PROVE  g[k] = f[k]
    <3>1. f[k] = (IF k = 0 THEN {n} \ {Nil} ELSE UNION {MayCover(m, angle) : m \in f[k - 1]})
      BY ONLY <2>1, <2>2
    <3>2. k \in 0..(i + 1)
      BY ONLY <1>3, <2>2
    <3> QED BY ONLY <3>1, <3>2
  <2> HIDE DEF g
  <2>3. ASSUME NEW k \in 0..(i + 1)
        PROVE  (IF k = 0 THEN {n} \ {Nil} ELSE UNION {MayCover(m, angle) : m \in f[k - 1]}) = (IF k = 0 THEN {n} \ {Nil} ELSE UNION {MayCover(m, angle) : m \in g[k - 1]})
    <3>1. CASE k = 0
      BY <3>1
    <3>2. CASE k # 0
      <4>1. k - 1 \in 0..i
        BY <1>3, <2>3, <3>2
      <4> QED BY <2>2, <3>2, <4>1
    <3> QED BY <3>1, <3>2
  <2>4. g = [k \in 0..(i + 1) |-> IF k = 0 THEN {n} \ {Nil} ELSE UNION {MayCover(m, angle) : m \in g[k - 1]}]
    BY <2>3 DEF g
  <2>5. Defines(g, i + 1)
    BY <2>4
  <2> HIDE DEF Defines
  <2> QED BY <1>3, <2>5
<1>4. N \in P
  <2> HIDE DEF P
  <2>1. P \subseteq Nat
    BY DEF P
  <2> QED BY <1>1, <1>2, <1>3, <2>1, AllNaturals
<1>5. PICK f : Defines(f, N)
  BY <1>4
<1> QED BY <1>5 DEF N, AskedFor


\* and so does findContaining.
LEMMA AskedToContainDefined ==
    ASSUME NEW n, NEW arc, DepthOf(n) \in Nat
    PROVE  AskedToContain(n, arc) = [k \in 0..DepthOf(n) |-> IF k = 0 THEN {n} \ {Nil} ELSE UNION {MayContain(m, arc) : m \in AskedToContain(n, arc)[k - 1]}]
<1> DEFINE N == DepthOf(n)
           Defines(f, i) == f = [k \in 0..i |-> IF k = 0 THEN {n} \ {Nil} ELSE UNION {MayContain(m, arc) : m \in f[k - 1]}]
           P == {i \in Nat : \E f : Defines(f, i)}
<1>1. N \in Nat
  OBVIOUS
<1> HIDE DEF N
<1>2. 0 \in P
  <2> DEFINE g == [k \in 0..0 |-> {n} \ {Nil}]
  <2>1. \A k \in 0..0 : k = 0
    OBVIOUS
  <2>2. g = [k \in 0..0 |-> IF k = 0 THEN {n} \ {Nil} ELSE UNION {MayContain(m, arc) : m \in g[k - 1]}]
    BY <2>1
  <2>3. Defines(g, 0)
    BY <2>2
  <2> HIDE DEF Defines
  <2> QED BY <2>3
<1>3. ASSUME NEW i \in P
      PROVE  i + 1 \in P
  <2>1. PICK f : Defines(f, i)
    BY <1>3
  <2> DEFINE g == [k \in 0..(i + 1) |-> IF k = 0 THEN {n} \ {Nil} ELSE UNION {MayContain(m, arc) : m \in f[k - 1]}]
  <2>2. ASSUME NEW k \in 0..i
        PROVE  g[k] = f[k]
    <3>1. f[k] = (IF k = 0 THEN {n} \ {Nil} ELSE UNION {MayContain(m, arc) : m \in f[k - 1]})
      BY ONLY <2>1, <2>2
    <3>2. k \in 0..(i + 1)
      BY ONLY <1>3, <2>2
    <3> QED BY ONLY <3>1, <3>2
  <2> HIDE DEF g
  <2>3. ASSUME NEW k \in 0..(i + 1)
        PROVE  (IF k = 0 THEN {n} \ {Nil} ELSE UNION {MayContain(m, arc) : m \in f[k - 1]}) = (IF k = 0 THEN {n} \ {Nil} ELSE UNION {MayContain(m, arc) : m \in g[k - 1]})
    <3>1. CASE k = 0
      BY <3>1
    <3>2. CASE k # 0
      <4>1. k - 1 \in 0..i
        BY <1>3, <2>3, <3>2
      <4> QED BY <2>2, <3>2, <4>1
    <3> QED BY <3>1, <3>2
  <2>4. g = [k \in 0..(i + 1) |-> IF k = 0 THEN {n} \ {Nil} ELSE UNION {MayContain(m, arc) : m \in g[k - 1]}]
    BY <2>3 DEF g
  <2>5. Defines(g, i + 1)
    BY <2>4
  <2> HIDE DEF Defines
  <2> QED BY <1>3, <2>5
<1>4. N \in P
  <2> HIDE DEF P
  <2>1. P \subseteq Nat
    BY DEF P
  <2> QED BY <1>1, <1>2, <1>3, <2>1, AllNaturals
<1>5. PICK f : Defines(f, N)
  BY <1>4
<1> QED BY <1>5 DEF N, AskedToContain

LEMMA BelowIsGood ==
    ASSUME NEW n, Good(n), NEW arc
    PROVE  /\ Good(Below(n, arc)) /\ ArcsOf(Below(n, arc)) \subseteq ArcsOf(n)
           /\ DepthOf(Below(n, arc)) \in Nat
           /\ DepthOf(Below(n, arc)) = 0 \/ DepthOf(Below(n, arc)) < DepthOf(n)
<1>1. CASE n = Nil
  BY <1>1, NilIsGood DEF Below
<1>2. CASE n # Nil
  <2>1. /\ Sound(n) /\ Good(n.left) /\ Good(n.right)
        /\ ArcsOf(n) = {ArcOf(n)} \cup ArcsOf(n.left) \cup ArcsOf(n.right)
    BY <1>2, GoodSplit
  <2>2. /\ DepthOf(n) = Larger(DepthOf(n.left), DepthOf(n.right)) + 1
        /\ DepthOf(n.left) \in Nat /\ DepthOf(n.right) \in Nat
    BY <1>2, <2>1, DepthType DEF Sound, Level, DepthOf
  <2>3. Below(n, arc) \in {n.left, n.right}
    BY <1>2 DEF Below
  <2>4. DepthOf(n.left) < DepthOf(n) /\ DepthOf(n.right) < DepthOf(n)
    BY <2>2 DEF Larger
  <2> QED BY <2>1, <2>2, <2>3, <2>4
<1> QED BY <1>1, <1>2

\* The way goes down good trees and has come to an end at the depth of the tree.
LEMMA WayDown ==
    ASSUME NEW n, Good(n), NEW arc
    PROVE  /\ DepthOf(n) \in Nat
           /\ Way(n, arc)[0] = n
           /\ \A k \in 0..DepthOf(n) :
                 /\ Good(Way(n, arc)[k]) /\ ArcsOf(Way(n, arc)[k]) \subseteq ArcsOf(n)
                 /\ k # DepthOf(n) => Way(n, arc)[k + 1] = Below(Way(n, arc)[k], arc)
           /\ Way(n, arc)[DepthOf(n)] = Nil
<1> DEFINE N == DepthOf(n)
           way == Way(n, arc)
           P == {k \in Nat : k <= N =>
                    /\ Good(way[k]) /\ ArcsOf(way[k]) \subseteq ArcsOf(n)
                    /\ DepthOf(way[k]) \in Nat /\ DepthOf(way[k]) <= N - k}
<1>1. N \in Nat
  BY DepthType
<1>2. way = [k \in 0..N |-> IF k = 0 THEN n ELSE Below(way[k - 1], arc)]
  BY <1>1, WayDefined
<1> HIDE DEF N, way
<1>3. way[0] = n
  <2>1. 0 \in 0..N
    BY <1>1
  <2> QED BY ONLY <1>2, <2>1
<1>4. \A k \in 0..N : k # N => way[k + 1] = Below(way[k], arc)
  <2> SUFFICES ASSUME NEW k \in 0..N, k # N
               PROVE  way[k + 1] = Below(way[k], arc)
    OBVIOUS
  <2>1. k + 1 \in 0..N /\ k + 1 # 0 /\ (k + 1) - 1 = k
    BY <1>1
  <2> QED BY ONLY <1>2, <2>1
<1>5. 0 \in P
  BY <1>1, <1>3 DEF N
<1>6. ASSUME NEW k \in P
      PROVE  k + 1 \in P
  <2> SUFFICES ASSUME k + 1 <= N
               PROVE  /\ Good(way[k + 1]) /\ ArcsOf(way[k + 1]) \subseteq ArcsOf(n)
                      /\ DepthOf(way[k + 1]) \in Nat /\ DepthOf(way[k + 1]) <= N - (k + 1)
    BY <1>6
  <2>1. k \in Nat /\ k \in 0..N /\ k # N
    BY <1>1, <1>6
  <2>2. way[k + 1] = Below(way[k], arc)
    BY <1>4, <2>1
  <2>3. /\ Good(way[k]) /\ ArcsOf(way[k]) \subseteq ArcsOf(n)
        /\ DepthOf(way[k]) \in Nat /\ DepthOf(way[k]) <= N - k
    BY <1>1, <1>6, <2>1
  <2>4. /\ Good(way[k + 1]) /\ ArcsOf(way[k + 1]) \subseteq ArcsOf(way[k])
        /\ DepthOf(way[k + 1]) \in Nat
        /\ DepthOf(way[k + 1]) = 0 \/ DepthOf(way[k + 1]) < DepthOf(way[k])
    BY <2>2, <2>3, BelowIsGood
  <2> QED BY <1>1, <2>1, <2>3, <2>4
<1>7. P = Nat
  <2> HIDE DEF P
  <2>1. P \subseteq Nat
    BY DEF P
  <2> QED BY <1>5, <1>6, <2>1, AllNaturals
<1>8. \A k \in 0..N : /\ Good(way[k]) /\ ArcsOf(way[k]) \subseteq ArcsOf(n)
                      /\ DepthOf(way[k]) \in Nat /\ DepthOf(way[k]) <= N - k
  <2> TAKE k \in 0..N
  <2>1. k \in P /\ k <= N
    BY <1>1, <1>7
  <2> QED BY <2>1
<1>9. way[N] = Nil
  <2>1. N \in 0..N
    BY <1>1
  <2>2. Good(way[N]) /\ DepthOf(way[N]) = 0
    BY <1>1, <1>8, <2>1
  <2> QED BY <2>2, DepthType
<1> QED BY <1>1, <1>3, <1>4, <1>8, <1>9 DEF N, way

\* The way back exists where the way down ends in time.
LEMMA GrownDefined ==
    ASSUME NEW n, NEW arc, DepthOf(n) \in Nat, Way(n, arc)[DepthOf(n)] = Nil
    PROVE  Grown(n, arc) = [k \in 0..DepthOf(n) |-> LET m == Way(n, arc)[DepthOf(n) - k]
          IN  IF m = Nil THEN Node(arc) ELSE balance(WithBelow(m, arc, Grown(n, arc)[k - 1]))]
<1> DEFINE N == DepthOf(n)
           Defines(f, i) == f = [k \in 0..i |-> LET m == Way(n, arc)[DepthOf(n) - k]
          IN  IF m = Nil THEN Node(arc) ELSE balance(WithBelow(m, arc, f[k - 1]))]
           P == {i \in Nat : \E f : Defines(f, i)}
<1>1. N \in Nat
  OBVIOUS
<1> HIDE DEF N
<1>2. 0 \in P
  <2> DEFINE g == [k \in 0..0 |-> Node(arc)]
  <2>1. \A k \in 0..0 : k = 0 /\ Way(n, arc)[DepthOf(n) - k] = Nil
    OBVIOUS
  <2>2. g = [k \in 0..0 |-> LET m == Way(n, arc)[DepthOf(n) - k]
          IN  IF m = Nil THEN Node(arc) ELSE balance(WithBelow(m, arc, g[k - 1]))]
    BY <2>1
  <2>3. Defines(g, 0)
    BY <2>2
  <2> HIDE DEF Defines
  <2> QED BY <2>3
<1>3. ASSUME NEW i \in P
      PROVE  i + 1 \in P
  <2>1. PICK f : Defines(f, i)
    BY <1>3
  <2> DEFINE g == [k \in 0..(i + 1) |-> LET m == Way(n, arc)[DepthOf(n) - k]
          IN  IF m = Nil THEN Node(arc) ELSE balance(WithBelow(m, arc, f[k - 1]))]
  <2>2. ASSUME NEW k \in 0..i
        PROVE  g[k] = f[k]
    <3>1. f[k] = (LET m == Way(n, arc)[DepthOf(n) - k]
          IN  IF m = Nil THEN Node(arc) ELSE balance(WithBelow(m, arc, f[k - 1])))
      BY ONLY <2>1, <2>2
    <3>2. k \in 0..(i + 1)
      BY ONLY <1>3, <2>2
    <3> QED BY ONLY <3>1, <3>2
  <2> HIDE DEF g
  <2>3. ASSUME NEW k \in 0..(i + 1)
        PROVE  (LET m == Way(n, arc)[DepthOf(n) - k]
          IN  IF m = Nil THEN Node(arc) ELSE balance(WithBelow(m, arc, f[k - 1]))) = (LET m == Way(n, arc)[DepthOf(n) - k]
          IN  IF m = Nil THEN Node(arc) ELSE balance(WithBelow(m, arc, g[k - 1])))
    <3>1. CASE k = 0
      BY <3>1
    <3>2. CASE k # 0
      <4>1. k - 1 \in 0..i
        BY <1>3, <2>3, <3>2
      <4> QED BY <2>2, <3>2, <4>1
    <3> QED BY <3>1, <3>2
  <2>4. g = [k \in 0..(i + 1) |-> LET m == Way(n, arc)[DepthOf(n) - k]
          IN  IF m = Nil THEN Node(arc) ELSE balance(WithBelow(m, arc, g[k - 1]))]
    BY <2>3 DEF g
  <2>5. Defines(g, i + 1)
    BY <2>4
  <2> HIDE DEF Defines
  <2> QED BY <1>3, <2>5
<1>4. N \in P
  <2> HIDE DEF P
  <2>1. P \subseteq Nat
    BY DEF P
  <2> QED BY <1>1, <1>2, <1>3, <2>1, AllNaturals
<1>5. PICK f : Defines(f, N)
  BY <1>4
<1> QED BY <1>5 DEF N, Grown

\* insert adds the arc and leaves a good tree, if the arc covers none before it.
LEMMA InsertGrew ==
    ASSUME NEW n, Good(n), NEW arc \in Angles \X Angles, CoversNone(arc, ArcsOf(n))
    PROVE  Grew(insert(n, arc), n, arc)
<1> DEFINE N == DepthOf(n)
           way == Way(n, arc)
           grown == Grown(n, arc)
           P == {i \in Nat : i <= N => Grew(grown[i], way[N - i], arc)}
<1>1. /\ N \in Nat /\ way[0] = n /\ way[N] = Nil
      /\ \A k \in 0..N : /\ Good(way[k]) /\ ArcsOf(way[k]) \subseteq ArcsOf(n)
                         /\ k # N => way[k + 1] = Below(way[k], arc)
  BY WayDown
<1>2. grown = [k \in 0..N |->
          LET m == way[N - k] IN IF m = Nil THEN Node(arc) ELSE balance(WithBelow(m, arc, grown[k - 1]))]
  BY <1>1, GrownDefined
<1> HIDE DEF N, way, grown
<1>3. \A i \in 0..N : grown[i] = IF way[N - i] = Nil THEN Node(arc)
                                 ELSE balance(WithBelow(way[N - i], arc, grown[i - 1]))
  BY ONLY <1>2
<1>4. 0 \in P
  <2>1. 0 \in 0..N /\ N - 0 = N
    BY <1>1
  <2>2. grown[0] = Node(arc) /\ way[N - 0] = Nil
    BY ONLY <1>1, <1>3, <2>1
  <2> QED BY <2>2, LeafGrew
<1>5. ASSUME NEW i \in P
      PROVE  i + 1 \in P
  <2> SUFFICES ASSUME i + 1 <= N
               PROVE  Grew(grown[i + 1], way[N - (i + 1)], arc)
    BY <1>5
  <2> DEFINE m == way[N - (i + 1)]
             g == grown[i]
  <2>1. /\ i \in Nat /\ i + 1 \in 0..N /\ (i + 1) - 1 = i /\ N - (i + 1) \in 0..N /\ N - (i + 1) # N
        /\ (N - (i + 1)) + 1 = N - i
    BY <1>1, <1>5
  <2>2. grown[i + 1] = IF m = Nil THEN Node(arc) ELSE balance(WithBelow(m, arc, g))
    BY ONLY <1>3, <2>1
  <2>3. Good(m) /\ ArcsOf(m) \subseteq ArcsOf(n) /\ way[N - i] = Below(m, arc)
    BY ONLY <1>1, <2>1
  <2>4. Grew(g, Below(m, arc), arc)
    BY ONLY <1>1, <1>5, <2>1, <2>3, i + 1 <= N
  <2> HIDE DEF m, g
  <2>5. CoversNone(arc, ArcsOf(m))
    BY <2>3 DEF CoversNone
  <2>6. CASE m = Nil
    BY <2>2, <2>6, LeafGrew DEF m
  <2>7. CASE m # Nil /\ m.end > arc[2]
    BY <2>2, <2>3, <2>4, <2>5, <2>7, GrewLeft DEF Below, WithBelow, m
  <2>8. CASE m # Nil /\ ~(m.end > arc[2])
    <3>1. m.end \in Nat /\ arc[2] \in Nat
      BY <2>3, <2>8, GoodSplit, FullCircleType DEF Sound, Typed
    <3>2. m.end <= arc[2]
      BY <2>8, <3>1
    <3> QED BY <2>2, <2>3, <2>4, <2>5, <2>8, <3>2, GrewRight DEF Below, WithBelow, m
  <2> QED BY <2>6, <2>7, <2>8
<1>6. P = Nat
  <2> HIDE DEF P
  <2>1. P \subseteq Nat
    BY DEF P
  <2> QED BY <1>4, <1>5, <2>1, AllNaturals
<1>7. Grew(grown[N], way[N - N], arc)
  BY <1>1, <1>6
<1>8. N - N = 0 /\ insert(n, arc) = grown[N]
  BY <1>1 DEF insert, grown, N
<1> QED BY ONLY <1>1, <1>7, <1>8

-----------------------------------------------------------------------------
(* Searches.                                                               *)

\* What find asks are nodes of the tree.
LEMMA AskedForNodes ==
    ASSUME NEW n, Good(n), NEW angle
    PROVE  /\ DepthOf(n) \in Nat
           /\ AskedFor(n, angle)[0] = {n} \ {Nil}
           /\ \A k \in 0..DepthOf(n) :
                 /\ \A m \in AskedFor(n, angle)[k] :
                       /\ Good(m) /\ m # Nil /\ ArcsOf(m) \subseteq ArcsOf(n)
                       /\ DepthOf(m) <= DepthOf(n) - k
                 /\ k # DepthOf(n) =>
                       AskedFor(n, angle)[k + 1] = UNION {MayCover(m, angle) : m \in AskedFor(n, angle)[k]}
<1> DEFINE N == DepthOf(n)
           asked == AskedFor(n, angle)
           Fits(k) == \A m \in asked[k] : /\ Good(m) /\ m # Nil /\ ArcsOf(m) \subseteq ArcsOf(n)
                                          /\ DepthOf(m) <= N - k
           P == {k \in Nat : k <= N => Fits(k)}
<1>1. N \in Nat
  BY DepthType
<1>2. asked = [k \in 0..N |->
          IF k = 0 THEN {n} \ {Nil} ELSE UNION {MayCover(m, angle) : m \in asked[k - 1]}]
  BY <1>1, AskedForDefined
<1>3. N = DepthOf(n)
  OBVIOUS
<1> HIDE DEF N, asked
<1>4. asked[0] = {n} \ {Nil}
  <2>1. 0 \in 0..N
    BY <1>1
  <2> QED BY ONLY <1>2, <2>1
<1>5. \A k \in 0..N : k # N => asked[k + 1] = UNION {MayCover(m, angle) : m \in asked[k]}
  <2> SUFFICES ASSUME NEW k \in 0..N, k # N
               PROVE  asked[k + 1] = UNION {MayCover(m, angle) : m \in asked[k]}
    OBVIOUS
  <2>1. k + 1 \in 0..N /\ k + 1 # 0 /\ (k + 1) - 1 = k
    BY <1>1
  <2> QED BY ONLY <1>2, <2>1
<1>6. 0 \in P
  BY <1>1, <1>3, <1>4
<1>7. ASSUME NEW k \in P
      PROVE  k + 1 \in P
  <2> SUFFICES ASSUME k + 1 <= N, NEW c \in asked[k + 1]
               PROVE  /\ Good(c) /\ c # Nil /\ ArcsOf(c) \subseteq ArcsOf(n)
                      /\ DepthOf(c) <= N - (k + 1)
    BY <1>7
  <2>1. k \in Nat /\ k \in 0..N /\ k # N /\ k <= N
    BY <1>1, <1>7
  <2>2. PICK m \in asked[k] : c \in MayCover(m, angle)
    BY <1>5, <2>1
  <2>3. Good(m) /\ m # Nil /\ ArcsOf(m) \subseteq ArcsOf(n) /\ DepthOf(m) <= N - k
    BY <1>7, <2>1, <2>2
  <2>4. c \in {m.left, m.right} /\ c # Nil
    BY <2>2 DEF MayCover
  <2>5. /\ Sound(m) /\ Good(m.left) /\ Good(m.right)
        /\ ArcsOf(m) = {ArcOf(m)} \cup ArcsOf(m.left) \cup ArcsOf(m.right)
    BY <2>3, GoodSplit
  <2>6. /\ DepthOf(m) = Larger(DepthOf(m.left), DepthOf(m.right)) + 1
        /\ DepthOf(m.left) \in Nat /\ DepthOf(m.right) \in Nat
    BY <2>3, <2>5, DepthType DEF Sound, Level, DepthOf
  <2>7. DepthOf(c) <= DepthOf(m) - 1 /\ DepthOf(c) \in Nat /\ DepthOf(m) \in Nat
    BY <2>4, <2>6 DEF Larger
  <2>8. DepthOf(c) <= N - (k + 1)
    BY ONLY <1>1, <2>1, <2>3, <2>7
  <2> QED BY <2>3, <2>4, <2>5, <2>8
<1>8. P = Nat
  <2> HIDE DEF P
  <2>1. P \subseteq Nat
    BY DEF P
  <2> QED BY <1>6, <1>7, <2>1, AllNaturals
<1>9. \A k \in 0..N : Fits(k)
  <2> TAKE k \in 0..N
  <2>1. k \in P /\ k <= N
    BY <1>1, <1>8
  <2> QED BY <2>1
<1> QED BY <1>1, <1>4, <1>5, <1>9 DEF N, asked

\* and what findContaining asks.
LEMMA AskedToContainNodes ==
    ASSUME NEW n, Good(n), NEW arc
    PROVE  /\ DepthOf(n) \in Nat
           /\ AskedToContain(n, arc)[0] = {n} \ {Nil}
           /\ \A k \in 0..DepthOf(n) :
                 /\ \A m \in AskedToContain(n, arc)[k] :
                       /\ Good(m) /\ m # Nil /\ ArcsOf(m) \subseteq ArcsOf(n)
                       /\ DepthOf(m) <= DepthOf(n) - k
                 /\ k # DepthOf(n) =>
                       AskedToContain(n, arc)[k + 1] = UNION {MayContain(m, arc) : m \in AskedToContain(n, arc)[k]}
<1> DEFINE N == DepthOf(n)
           asked == AskedToContain(n, arc)
           Fits(k) == \A m \in asked[k] : /\ Good(m) /\ m # Nil /\ ArcsOf(m) \subseteq ArcsOf(n)
                                          /\ DepthOf(m) <= N - k
           P == {k \in Nat : k <= N => Fits(k)}
<1>1. N \in Nat
  BY DepthType
<1>2. asked = [k \in 0..N |->
          IF k = 0 THEN {n} \ {Nil} ELSE UNION {MayContain(m, arc) : m \in asked[k - 1]}]
  BY <1>1, AskedToContainDefined
<1>3. N = DepthOf(n)
  OBVIOUS
<1> HIDE DEF N, asked
<1>4. asked[0] = {n} \ {Nil}
  <2>1. 0 \in 0..N
    BY <1>1
  <2> QED BY ONLY <1>2, <2>1
<1>5. \A k \in 0..N : k # N => asked[k + 1] = UNION {MayContain(m, arc) : m \in asked[k]}
  <2> SUFFICES ASSUME NEW k \in 0..N, k # N
               PROVE  asked[k + 1] = UNION {MayContain(m, arc) : m \in asked[k]}
    OBVIOUS
  <2>1. k + 1 \in 0..N /\ k + 1 # 0 /\ (k + 1) - 1 = k
    BY <1>1
  <2> QED BY ONLY <1>2, <2>1
<1>6. 0 \in P
  BY <1>1, <1>3, <1>4
<1>7. ASSUME NEW k \in P
      PROVE  k + 1 \in P
  <2> SUFFICES ASSUME k + 1 <= N, NEW c \in asked[k + 1]
               PROVE  /\ Good(c) /\ c # Nil /\ ArcsOf(c) \subseteq ArcsOf(n)
                      /\ DepthOf(c) <= N - (k + 1)
    BY <1>7
  <2>1. k \in Nat /\ k \in 0..N /\ k # N /\ k <= N
    BY <1>1, <1>7
  <2>2. PICK m \in asked[k] : c \in MayContain(m, arc)
    BY <1>5, <2>1
  <2>3. Good(m) /\ m # Nil /\ ArcsOf(m) \subseteq ArcsOf(n) /\ DepthOf(m) <= N - k
    BY <1>7, <2>1, <2>2
  <2>4. c \in {m.left, m.right} /\ c # Nil
    BY <2>2 DEF MayContain
  <2>5. /\ Sound(m) /\ Good(m.left) /\ Good(m.right)
        /\ ArcsOf(m) = {ArcOf(m)} \cup ArcsOf(m.left) \cup ArcsOf(m.right)
    BY <2>3, GoodSplit
  <2>6. /\ DepthOf(m) = Larger(DepthOf(m.left), DepthOf(m.right)) + 1
        /\ DepthOf(m.left) \in Nat /\ DepthOf(m.right) \in Nat
    BY <2>3, <2>5, DepthType DEF Sound, Level, DepthOf
  <2>7. DepthOf(c) <= DepthOf(m) - 1 /\ DepthOf(c) \in Nat /\ DepthOf(m) \in Nat
    BY <2>4, <2>6 DEF Larger
  <2>8. DepthOf(c) <= N - (k + 1)
    BY ONLY <1>1, <2>1, <2>3, <2>7
  <2> QED BY <2>3, <2>4, <2>5, <2>8
<1>8. P = Nat
  <2> HIDE DEF P
  <2>1. P \subseteq Nat
    BY DEF P
  <2> QED BY <1>6, <1>7, <2>1, AllNaturals
<1>9. \A k \in 0..N : Fits(k)
  <2> TAKE k \in 0..N
  <2>1. k \in P /\ k <= N
    BY <1>1, <1>8
  <2> QED BY <2>1
<1> QED BY <1>1, <1>4, <1>5, <1>9 DEF N, asked

\* The min of a good tree is no larger than any start in it.
LEMMA MinIsLow ==
    ASSUME NEW t, Good(t), NEW a \in ArcsOf(t)
    PROVE  t # Nil /\ t.min \in Nat /\ t.min <= a[1]
<1>1. t # Nil
  BY NilIsGood
<1>2. Sound(t) /\ ArcsOf(t) = {ArcOf(t)} \cup ArcsOf(t.left) \cup ArcsOf(t.right)
  BY <1>1, GoodSplit
<1>3. CASE a = ArcOf(t)
  BY <1>1, <1>2, <1>3, FullCircleType DEF ArcOf, Sound, LowMin, Typed
<1>4. CASE a \in ArcsOf(t.left) \cup ArcsOf(t.right)
  BY <1>1, <1>2, <1>4, FullCircleType DEF Sound, LowMin, Typed
<1> QED BY <1>2, <1>3, <1>4

\* find finds an arc around the angle if there is one: nothing that is left out
\* could have been around it.
LEMMA FindIsExact ==
    ASSUME NEW n, Good(n), NEW angle \in Angles
    PROVE  find(n, angle) <=> \E a \in ArcsOf(n) : a[1] <= angle /\ angle <= a[2]
<1> DEFINE N == DepthOf(n)
           asked == AskedFor(n, angle)
<1>1. /\ N \in Nat /\ asked[0] = {n} \ {Nil}
      /\ \A k \in 0..N :
            /\ \A m \in asked[k] : Good(m) /\ m # Nil /\ ArcsOf(m) \subseteq ArcsOf(n) /\ DepthOf(m) <= N - k
            /\ k # N => asked[k + 1] = UNION {MayCover(m, angle) : m \in asked[k]}
  BY AskedForNodes
<1>2. find(n, angle) <=> \E k \in 0..N : \E m \in asked[k] : m.start <= angle /\ angle <= m.end
  BY DEF find
<1> HIDE DEF N, asked
<1>3. angle \in Nat
  BY FullCircleType
<1>4. ASSUME NEW k \in 0..N, NEW m \in asked[k]
      PROVE  ArcOf(m) \in ArcsOf(n)
  <2>1. Good(m) /\ m # Nil /\ ArcsOf(m) \subseteq ArcsOf(n)
    BY <1>1, <1>4
  <2>2. ArcOf(m) \in ArcsOf(m)
    BY <2>1, GoodSplit
  <2> QED BY <2>1, <2>2
<1>5. ASSUME find(n, angle)
      PROVE  \E a \in ArcsOf(n) : a[1] <= angle /\ angle <= a[2]
  <2>1. PICK k \in 0..N : \E m \in asked[k] : m.start <= angle /\ angle <= m.end
    BY <1>2, <1>5
  <2>2. PICK m \in asked[k] : m.start <= angle /\ angle <= m.end
    BY <2>1
  <2>3. ArcOf(m) \in ArcsOf(n) /\ ArcOf(m)[1] = m.start /\ ArcOf(m)[2] = m.end
    BY <1>4 DEF ArcOf
  <2> QED BY <2>2, <2>3
<1>6. ASSUME NEW a \in ArcsOf(n), a[1] <= angle, angle <= a[2], ~find(n, angle)
      PROVE  FALSE
  <2> DEFINE Q == {k \in Nat : k <= N => \E m \in asked[k] : a \in ArcsOf(m)}
  <2>1. a[1] \in Nat /\ a[2] \in Nat
    BY <1>6, ArcsType
  <2>2. 0 \in Q
    BY <1>1, <1>6, NilIsGood
  <2>3. ASSUME NEW k \in Q
        PROVE  k + 1 \in Q
    <3> SUFFICES ASSUME k + 1 <= N
                 PROVE  \E c \in asked[k + 1] : a \in ArcsOf(c)
      BY <2>3
    <3>1. k \in Nat /\ k \in 0..N /\ k # N /\ k <= N
      BY <1>1, <2>3
    <3>2. PICK m \in asked[k] : a \in ArcsOf(m)
      BY <2>3, <3>1
    <3>3. Good(m) /\ m # Nil
      BY <1>1, <3>1, <3>2
    <3>4. /\ Sound(m) /\ Good(m.left) /\ Good(m.right)
          /\ ArcsOf(m) = {ArcOf(m)} \cup ArcsOf(m.left) \cup ArcsOf(m.right)
      BY <3>3, GoodSplit
    <3>5. MayCover(m, angle) \subseteq asked[k + 1]
      BY <1>1, <3>1, <3>2
    <3>6. CASE a = ArcOf(m)
      <4>1. m.start <= angle /\ angle <= m.end
        BY <1>6, <3>6 DEF ArcOf
      <4> QED BY <1>2, <1>6, <3>1, <3>2, <4>1
    <3>7. CASE a \in ArcsOf(m.left)
      <4>1. m.left # Nil /\ m.left.min \in Nat /\ m.left.min <= a[1]
        BY <3>4, <3>7, MinIsLow
      <4>2. a[2] <= m.end /\ m.end \in Nat
        BY <3>4, <3>7, FullCircleType DEF Sound, Sorted, Typed
      <4>3. m.left.min <= angle /\ angle <= m.end
        BY ONLY <1>3, <1>6, <2>1, <4>1, <4>2
      <4>4. m.left \in MayCover(m, angle)
        BY <4>1, <4>3 DEF MayCover
      <4> QED BY <3>5, <3>7, <4>4
    <3>8. CASE a \in ArcsOf(m.right)
      <4>1. m.right # Nil /\ m.right.min \in Nat /\ m.right.min <= a[1]
        BY <3>4, <3>8, MinIsLow
      <4>2. m.right.min <= angle
        BY ONLY <1>3, <1>6, <2>1, <4>1
      <4>3. m.right \in MayCover(m, angle)
        BY <4>1, <4>2 DEF MayCover
      <4> QED BY <3>5, <3>8, <4>3
    <3> QED BY <3>2, <3>4, <3>6, <3>7, <3>8
  <2>4. Q = Nat
    <3> HIDE DEF Q
    <3>1. Q \subseteq Nat
      BY DEF Q
    <3> QED BY <2>2, <2>3, <3>1, AllNaturals
  <2>5. N \in Q /\ N \in 0..N
    BY <1>1, <2>4
  <2>6. PICK m \in asked[N] : a \in ArcsOf(m)
    BY <1>1, <2>5
  <2>7. Good(m) /\ m # Nil /\ DepthOf(m) <= N - N
    BY <1>1, <2>5, <2>6
  <2> QED BY <1>1, <2>7, DepthType
<1> QED BY <1>5, <1>6

\* findContaining may miss a segment but finds none that does not contain it.
LEMMA FoundContains ==
    ASSUME NEW n, Good(n), NEW arc, findContaining(n, arc)
    PROVE  \E a \in ArcsOf(n) : ContainsArc(a, arc)
<1>1. PICK k \in 0..DepthOf(n) :
          \E m \in AskedToContain(n, arc)[k] : m.start <= arc[1] /\ m.end >= arc[2]
  BY DEF findContaining
<1>2. PICK m \in AskedToContain(n, arc)[k] : m.start <= arc[1] /\ m.end >= arc[2]
  BY <1>1
<1>3. Good(m) /\ m # Nil /\ ArcsOf(m) \subseteq ArcsOf(n)
  BY AskedToContainNodes
<1>4. ArcOf(m) \in ArcsOf(n)
  BY <1>3, GoodSplit
<1>5. arc[2] <= m.end
  BY <1>2
<1> QED BY <1>2, <1>4, <1>5 DEF ContainsArc, ArcOf

-----------------------------------------------------------------------------
(* The invariant: a good tree that holds arcs of obstacles and nothing     *)
(* else, and an arc around every one of theirs.                            *)

Halves(arc) == {Upper(arc), Lower(arc)}

Held(t, obstacles) ==
    \A b \in ArcsOf(t) : b \in obstacles \cap Arcs \/ \E w \in obstacles \cap WideArcs : b \in Halves(w)

Inside(arc, t) == \E b \in ArcsOf(t) : ContainsArc(b, arc)

Represented(t, obstacles) ==
    /\ \A a \in obstacles \cap Arcs : Inside(a, t)
    /\ \A w \in obstacles \cap WideArcs : \A h \in Halves(w) : Inside(h, t)

ShadowInv ==
    /\ cast \subseteq Arcs \cup WideArcs
    /\ Good(shadow) /\ Held(shadow, cast) /\ Represented(shadow, cast)

LEMMA ArcTypes ==
    /\ \A a \in Arcs : /\ a \in Angles \X Angles /\ a \notin WideArcs
                       /\ a[1] \in Nat /\ a[2] \in Nat /\ 0 < a[1] /\ a[1] <= a[2] /\ a[2] < FullCircle
    /\ \A w \in WideArcs : /\ w \in Angles \X Angles /\ w \notin Arcs
                           /\ w[1] \in Nat /\ w[2] \in Nat /\ 0 < w[1] /\ w[1] < w[2] /\ w[2] < FullCircle
                           /\ Upper(w) \in Angles \X Angles /\ Lower(w) \in Angles \X Angles
                           /\ Upper(w)[1] = 0 /\ Upper(w)[2] = w[1]
                           /\ Lower(w)[1] = w[2] /\ Lower(w)[2] = FullCircle
<1>1. ASSUME NEW a \in Arcs \cup WideArcs
      PROVE  /\ a \in Angles \X Angles /\ a[1] \in Angles /\ a[2] \in Angles
             /\ a[1] \in Nat /\ a[2] \in Nat /\ 0 < a[1] /\ a[2] < FullCircle
  <2>1. a \in Angles \X Angles /\ 0 < a[1] /\ a[2] < FullCircle
    BY ArcAssumption
  <2>2. a[1] \in Angles /\ a[2] \in Angles
    BY ONLY <2>1
  <2> QED BY ONLY <2>1, <2>2, FullCircleType
<1>2. 0 \in Angles /\ FullCircle \in Angles
  BY FullCircleType DEF Angles
<1>3. ASSUME NEW w \in WideArcs
      PROVE  /\ Upper(w) \in Angles \X Angles /\ Lower(w) \in Angles \X Angles
             /\ Upper(w)[1] = 0 /\ Upper(w)[2] = w[1]
             /\ Lower(w)[1] = w[2] /\ Lower(w)[2] = FullCircle
  BY <1>1, <1>2 DEF Upper, Lower
<1>4. /\ \A a \in Arcs : a \notin WideArcs /\ a[1] <= a[2]
      /\ \A w \in WideArcs : w \notin Arcs /\ w[1] < w[2]
  BY ArcAssumption
<1> QED BY <1>1, <1>3, <1>4

LEMMA HeldType ==
    ASSUME NEW t, NEW obstacles, Held(t, obstacles), NEW b \in ArcsOf(t)
    PROVE  /\ b[1] \in Nat /\ b[2] \in Nat
           /\ \/ b \in obstacles \cap Arcs /\ 0 < b[1] /\ b[2] < FullCircle
              \/ \E w \in obstacles \cap WideArcs : b = Upper(w) /\ b[1] = 0 /\ b[2] = w[1] /\ b[2] < FullCircle
              \/ \E w \in obstacles \cap WideArcs : b = Lower(w) /\ b[1] = w[2] /\ b[2] = FullCircle /\ 0 < b[1]
<1>1. b[1] \in Nat /\ b[2] \in Nat
  BY ArcsType
<1>2. CASE b \in obstacles \cap Arcs
  BY <1>1, <1>2, ArcTypes
<1>3. ASSUME NEW w \in obstacles \cap WideArcs, b = Upper(w)
      PROVE  b[1] = 0 /\ b[2] = w[1] /\ b[2] < FullCircle
  <2>1. /\ Upper(w)[1] = 0 /\ Upper(w)[2] = w[1] /\ w[1] \in Nat /\ w[2] \in Nat
        /\ w[1] < w[2] /\ w[2] < FullCircle
    BY ArcTypes
  <2> QED BY ONLY <1>3, <2>1, FullCircleType
<1>4. ASSUME NEW w \in obstacles \cap WideArcs, b = Lower(w)
      PROVE  b[1] = w[2] /\ b[2] = FullCircle /\ 0 < b[1]
  <2>1. /\ Lower(w)[1] = w[2] /\ Lower(w)[2] = FullCircle /\ w[1] \in Nat /\ w[2] \in Nat
        /\ w[1] < w[2]
    BY ArcTypes
  <2> QED BY ONLY <1>4, <2>1
<1> QED BY <1>1, <1>2, <1>3, <1>4 DEF Held, Halves

\* One arc contains another that contains a third.
LEMMA ContainsMore ==
    ASSUME NEW a, NEW b, NEW c, ContainsArc(a, b), ContainsArc(b, c),
           {a[1], a[2], b[1], b[2], c[1], c[2]} \subseteq Nat
    PROVE  ContainsArc(a, c)
BY DEF ContainsArc

\* What is inside a tree is inside the tree that it grows to.
LEMMA StaysInside ==
    ASSUME NEW t, NEW g, NEW arc, Grew(g, t, arc)
    PROVE  /\ \A a : Inside(a, t) => Inside(a, g)
           /\ arc[1] \in Nat /\ arc[2] \in Nat => Inside(arc, g)
BY DEF Grew, Inside, ContainsArc

\* The invariant says what the tree answers.
LEMMA Answers ==
    ASSUME NEW t, Good(t), NEW obstacles, obstacles \subseteq Arcs \cup WideArcs,
           Held(t, obstacles), Represented(t, obstacles), NEW angle \in Angles
    PROVE  find(t, angle) <=>
               \/ \E a \in obstacles \cap Arcs : a[1] <= angle /\ angle <= a[2]
               \/ \E w \in obstacles \cap WideArcs : angle <= w[1] \/ w[2] <= angle
<1>1. angle \in Nat /\ 0 <= angle /\ angle <= FullCircle
  BY FullCircleType DEF Angles
<1>2. ASSUME NEW b \in ArcsOf(t), b[1] <= angle, angle <= b[2]
      PROVE  \/ \E a \in obstacles \cap Arcs : a[1] <= angle /\ angle <= a[2]
             \/ \E w \in obstacles \cap WideArcs : angle <= w[1] \/ w[2] <= angle
  BY <1>2, HeldType
<1>3. ASSUME NEW a, Inside(a, t), a[1] \in Nat, a[2] \in Nat, a[1] <= angle, angle <= a[2]
      PROVE  \E b \in ArcsOf(t) : b[1] <= angle /\ angle <= b[2]
  <2>1. PICK b \in ArcsOf(t) : b[1] <= a[1] /\ a[2] <= b[2]
    BY <1>3 DEF Inside, ContainsArc
  <2>2. b[1] \in Nat /\ b[2] \in Nat
    BY ArcsType
  <2>3. b[1] <= angle /\ angle <= b[2]
    BY ONLY <1>1, <1>3, <2>1, <2>2
  <2> QED BY <2>3
<1>4. ASSUME NEW a \in obstacles \cap Arcs, a[1] <= angle, angle <= a[2]
      PROVE  find(t, angle)
  <2>1. Inside(a, t) /\ a[1] \in Nat /\ a[2] \in Nat
    BY ArcTypes DEF Represented
  <2> QED BY <1>3, <1>4, <2>1, FindIsExact
<1>5. ASSUME NEW w \in obstacles \cap WideArcs, angle <= w[1] \/ w[2] <= angle
      PROVE  find(t, angle)
  <2>1. /\ Upper(w)[1] = 0 /\ Upper(w)[2] = w[1] /\ w[1] \in Nat
        /\ Lower(w)[1] = w[2] /\ Lower(w)[2] = FullCircle /\ w[2] \in Nat
    BY ArcTypes
  <2>2. Inside(Upper(w), t) /\ Inside(Lower(w), t)
    BY DEF Represented, Halves
  <2>3. CASE angle <= w[1]
    <3>1. \E b \in ArcsOf(t) : b[1] <= angle /\ angle <= b[2]
      BY <1>1, <1>3, <2>1, <2>2, <2>3
    <3> QED BY <3>1, FindIsExact
  <2>4. CASE w[2] <= angle
    <3>1. \E b \in ArcsOf(t) : b[1] <= angle /\ angle <= b[2]
      BY <1>1, <1>3, <2>1, <2>2, <2>4, FullCircleType
    <3> QED BY <3>1, FindIsExact
  <2> QED BY <1>5, <2>3, <2>4
<1> QED BY <1>2, <1>4, <1>5, FindIsExact

-----------------------------------------------------------------------------
(* The steps.                                                              *)

Kept(t, obstacles) ==
    /\ obstacles \subseteq Arcs \cup WideArcs
    /\ Good(t) /\ Held(t, obstacles) /\ Represented(t, obstacles)

LEMMA NarrowKept ==
    ASSUME NEW t, NEW obstacles, Kept(t, obstacles), NEW arc \in Arcs,
           \A a \in obstacles \cap Arcs : ~ContainsArc(arc, a)
    PROVE  Kept(IF findContaining(t, arc) THEN t ELSE insert(t, arc), obstacles \cup {arc})
<1> DEFINE more == obstacles \cup {arc}
<1>1. /\ obstacles \subseteq Arcs \cup WideArcs
      /\ Good(t) /\ Held(t, obstacles) /\ Represented(t, obstacles)
  BY DEF Kept
<1>2. /\ arc \in Angles \X Angles /\ arc \notin WideArcs /\ arc[1] \in Nat /\ arc[2] \in Nat
      /\ 0 < arc[1] /\ arc[1] <= arc[2] /\ arc[2] < FullCircle
  BY ArcTypes
<1>3. /\ more \subseteq Arcs \cup WideArcs
      /\ more \cap Arcs = (obstacles \cap Arcs) \cup {arc}
      /\ more \cap WideArcs = obstacles \cap WideArcs
  BY <1>1, <1>2
<1> HIDE DEF more
<1>4. CASE findContaining(t, arc)
  <2>1. Inside(arc, t)
    BY <1>1, <1>4, FoundContains DEF Inside
  <2>2. Held(t, more)
    BY <1>1, <1>3 DEF Held
  <2>3. Represented(t, more)
    BY <1>1, <1>3, <2>1 DEF Represented
  <2> QED BY <1>1, <1>3, <1>4, <2>2, <2>3 DEF Kept, more
<1>5. CASE ~findContaining(t, arc)
  <2> DEFINE g == insert(t, arc)
  <2>1. ASSUME NEW b \in ArcsOf(t), arc[1] < b[1], b[2] <= arc[2]
        PROVE  FALSE
    <3>1. b[1] \in Nat /\ b[2] \in Nat /\ b[1] # 0 /\ b[2] # FullCircle
      BY ONLY <1>2, <2>1, ArcsType, FullCircleType
    <3>2. b \in obstacles \cap Arcs
      BY <1>1, <3>1, HeldType
    <3>3. ContainsArc(arc, b)
      BY <1>2, <2>1, <3>1 DEF ContainsArc
    <3> QED BY <3>2, <3>3
  <2>2. CoversNone(arc, ArcsOf(t))
    BY <2>1 DEF CoversNone
  <2>3. Grew(g, t, arc)
    BY <1>1, <1>2, <2>2, InsertGrew
  <2> HIDE DEF g
  <2>4. Good(g) /\ ArcsOf(g) = ArcsOf(t) \cup {arc}
    BY <2>3 DEF Grew
  <2>5. Held(g, more)
    BY <1>1, <1>3, <2>4 DEF Held
  <2>6. Represented(g, more)
    BY <1>1, <1>2, <1>3, <2>3, StaysInside DEF Represented
  <2> QED BY <1>3, <1>5, <2>4, <2>5, <2>6 DEF Kept, more, g
<1> QED BY <1>4, <1>5

LEMMA WideKept ==
    ASSUME NEW t, NEW obstacles, Kept(t, obstacles), NEW arc \in WideArcs,
           \A a \in obstacles \cap Arcs : ~ContainsArc(Upper(arc), a) /\ ~ContainsArc(Lower(arc), a),
           \A a \in obstacles \cap WideArcs : ContainsArc(arc, a)
    PROVE  Kept(IF findContaining(t, Upper(arc)) \/ findContaining(t, Lower(arc))
                  THEN t ELSE insert(insert(t, Upper(arc)), Lower(arc)), obstacles \cup {arc})
<1> DEFINE more == obstacles \cup {arc}
           upper == Upper(arc)
           lower == Lower(arc)
<1>1. /\ obstacles \subseteq Arcs \cup WideArcs
      /\ Good(t) /\ Held(t, obstacles) /\ Represented(t, obstacles)
  BY DEF Kept
<1>2. /\ arc \notin Arcs /\ arc[1] \in Nat /\ arc[2] \in Nat
      /\ 0 < arc[1] /\ arc[1] < arc[2] /\ arc[2] < FullCircle
      /\ upper \in Angles \X Angles /\ lower \in Angles \X Angles
      /\ upper[1] = 0 /\ upper[2] = arc[1] /\ lower[1] = arc[2] /\ lower[2] = FullCircle
  BY ArcTypes
<1>3. /\ more \subseteq Arcs \cup WideArcs
      /\ more \cap Arcs = obstacles \cap Arcs
      /\ more \cap WideArcs = (obstacles \cap WideArcs) \cup {arc}
      /\ Halves(arc) = {upper, lower}
  BY <1>1, <1>2 DEF Halves
<1>4. ASSUME NEW w \in obstacles \cap WideArcs
      PROVE  /\ w[1] \in Nat /\ w[2] \in Nat /\ arc[1] <= w[1] /\ w[2] <= arc[2]
             /\ Upper(w)[1] = 0 /\ Upper(w)[2] = w[1] /\ Lower(w)[1] = w[2] /\ Lower(w)[2] = FullCircle
  BY ArcTypes DEF ContainsArc
<1> HIDE DEF more, upper, lower
<1>5. CASE findContaining(t, upper) \/ findContaining(t, lower)
  \* What contains one half of the arc is half of an arc that contains all of it.
  <2>1. PICK b \in ArcsOf(t) : ContainsArc(b, upper) \/ ContainsArc(b, lower)
    BY <1>1, <1>5, FoundContains
  <2>2. b[1] = 0 \/ b[2] = FullCircle
    <3>1. b[1] \in Nat /\ b[2] \in Nat /\ b[2] <= FullCircle
      BY <1>1, HeldType, FullCircleType
    <3> QED BY <1>2, <2>1, <3>1, FullCircleType DEF ContainsArc
  <2>3. PICK w \in obstacles \cap WideArcs : TRUE
    BY <1>1, <2>2, HeldType, FullCircleType
  <2>4. Inside(Upper(w), t) /\ Inside(Lower(w), t)
    BY <1>1 DEF Represented, Halves
  <2>5. ContainsArc(Upper(w), upper) /\ ContainsArc(Lower(w), lower)
    BY <1>2, <1>4, FullCircleType DEF ContainsArc
  <2>6. Inside(upper, t) /\ Inside(lower, t)
    <3>1. PICK u \in ArcsOf(t) : ContainsArc(u, Upper(w))
      BY <2>4 DEF Inside
    <3>2. PICK v \in ArcsOf(t) : ContainsArc(v, Lower(w))
      BY <2>4 DEF Inside
    <3>3. /\ {u[1], u[2], v[1], v[2]} \subseteq Nat /\ {upper[1], upper[2], lower[1], lower[2]} \subseteq Nat
          /\ {Upper(w)[1], Upper(w)[2], Lower(w)[1], Lower(w)[2]} \subseteq Nat
      BY <1>2, <1>4, ArcsType, FullCircleType
    <3>4. ContainsArc(u, upper) /\ ContainsArc(v, lower)
      BY <2>5, <3>1, <3>2, <3>3, ContainsMore
    <3> QED BY <3>4 DEF Inside
  <2>7. Held(t, more)
    BY <1>1, <1>3 DEF Held
  <2>8. Represented(t, more)
    BY <1>1, <1>3, <2>6 DEF Represented
  <2> QED BY <1>1, <1>3, <1>5, <2>7, <2>8 DEF Kept, more, upper, lower
<1>6. CASE ~(findContaining(t, upper) \/ findContaining(t, lower))
  <2> DEFINE g == insert(t, upper)
             h == insert(g, lower)
  <2>1. ASSUME NEW b \in ArcsOf(t), upper[1] < b[1], b[2] <= upper[2]
        PROVE  FALSE
    <3>1. b[1] \in Nat /\ b[2] \in Nat /\ b[1] # 0 /\ b[2] # FullCircle
      BY ONLY <1>2, <2>1, ArcsType, FullCircleType
    <3>2. b \in obstacles \cap Arcs
      BY <1>1, <3>1, HeldType
    <3>3. ContainsArc(upper, b)
      BY <1>2, <2>1, <3>1 DEF ContainsArc
    <3> QED BY <3>2, <3>3 DEF upper
  <2>2. Grew(g, t, upper)
    BY <1>1, <1>2, <2>1, InsertGrew DEF CoversNone
  <2> HIDE DEF g
  <2>3. Good(g) /\ ArcsOf(g) = ArcsOf(t) \cup {upper}
    BY <2>2 DEF Grew
  <2>4. ASSUME NEW b \in ArcsOf(g), lower[1] < b[1], b[2] <= lower[2]
        PROVE  FALSE
    <3>1. b \in ArcsOf(t)
      BY <1>2, <2>3, <2>4
    <3>2. b[1] \in Nat /\ b[2] \in Nat /\ b[1] # 0 /\ b[1] > arc[2]
      BY ONLY <1>2, <2>4, <3>1, ArcsType
    <3>3. b \in obstacles \cap Arcs
      <4>1. \A w \in obstacles \cap WideArcs : ~(b[1] = w[2])
        BY <1>2, <1>4, <3>2
      <4> QED BY <1>1, <3>1, <3>2, <4>1, HeldType
    <3>4. ContainsArc(lower, b)
      BY <1>2, <2>4, <3>2 DEF ContainsArc
    <3> QED BY <3>3, <3>4 DEF lower
  <2>5. Grew(h, g, lower)
    BY <1>2, <2>3, <2>4, InsertGrew DEF CoversNone
  <2> HIDE DEF h
  <2>6. Good(h) /\ ArcsOf(h) = ArcsOf(t) \cup {upper, lower}
    BY <2>3, <2>5 DEF Grew
  <2>7. Held(h, more)
    BY <1>1, <1>3, <2>6 DEF Held
  <2>8. Represented(h, more)
    <3>1. \A a : Inside(a, t) => Inside(a, h)
      BY <2>2, <2>5, StaysInside
    <3>2. Inside(upper, h) /\ Inside(lower, h)
      BY <1>2, <2>2, <2>5, StaysInside, FullCircleType
    <3> QED BY <1>1, <1>3, <3>1, <3>2 DEF Represented
  <2> QED BY <1>3, <1>6, <2>6, <2>7, <2>8 DEF Kept, more, g, h, upper, lower
<1> QED BY <1>5, <1>6 DEF upper, lower

LEMMA ShadowInvInit == ShadowInit => ShadowInv
BY NilIsGood DEF ShadowInit, ShadowInv, Held, Represented

LEMMA ShadowInvStep == ShadowInv /\ [ShadowNext]_shadowVars => ShadowInv'
<1> SUFFICES ASSUME ShadowInv, [ShadowNext]_shadowVars
             PROVE  ShadowInv'
  OBVIOUS
<1>1. Kept(shadow, cast)
  BY DEF ShadowInv, Kept
<1>2. ASSUME Kept(shadow', cast')
      PROVE  ShadowInv'
  BY <1>2 DEF ShadowInv, Kept, Held, Represented, Inside
<1>3. CASE NextUnitLooks
  BY <1>3, NilIsGood DEF NextUnitLooks, ShadowInv, Held, Represented
<1>4. ASSUME NEW arc \in Arcs, CastsShadow(arc)
      PROVE  ShadowInv'
  BY <1>1, <1>2, <1>4, NarrowKept DEF CastsShadow
<1>5. ASSUME NEW arc \in WideArcs, CastsWideShadow(arc)
      PROVE  ShadowInv'
  <2>1. \A a \in cast \cap WideArcs : ContainsArc(arc, a)
    BY <1>5 DEF CastsWideShadow
  <2> QED BY <1>1, <1>2, <1>5, <2>1, WideKept DEF CastsWideShadow
<1>6. CASE UNCHANGED shadowVars
  BY <1>1, <1>2, <1>6 DEF shadowVars
<1> QED BY <1>3, <1>4, <1>5, <1>6 DEF ShadowNext

\* sightCalc decides what is seen by asking the tree.  For every set of arcs, and
\* however many obstacles there are: it says "shadow" for exactly the angles that
\* an obstacle covers, although rotations leave old numbers in min ("TODO min") and
\* findContaining misses segments.
THEOREM ShadowsExact == ShadowSpec => []ShadowsAreExact
<1>1. ShadowInv => ShadowsAreExact
  BY Answers DEF ShadowInv, ShadowsAreExact, Covered
<1> QED BY <1>1, ShadowInvInit, ShadowInvStep, PTL DEF ShadowSpec

-----------------------------------------------------------------------------
(* Where arcs come from: no grid covers one that was looked at before.     *)

Points == Int \X Int

LEMMA CornersOf ==
    ASSUME NEW a \in Int, NEW b \in Int
    PROVE  /\ Corners(<<a, b>>) = {<<2 * a - 1, 2 * b - 1>>, <<2 * a - 1, 2 * b + 1>>,
                                  <<2 * a + 1, 2 * b - 1>>, <<2 * a + 1, 2 * b + 1>>}
           /\ Corners(<<a, b>>) \subseteq Points
<1>1. /\ 2 * a + (-1) = 2 * a - 1 /\ 2 * b + (-1) = 2 * b - 1
      /\ 2 * a - 1 \in Int /\ 2 * a + 1 \in Int /\ 2 * b - 1 \in Int /\ 2 * b + 1 \in Int
  OBVIOUS
<1>2. Corners(<<a, b>>) = {<<2 * a + (-1), 2 * b + (-1)>>, <<2 * a + (-1), 2 * b + 1>>,
                         <<2 * a + 1, 2 * b + (-1)>>, <<2 * a + 1, 2 * b + 1>>}
  BY DEF Corners
<1> QED BY <1>1, <1>2 DEF Points

\* What is between two directions to the right is to the right.
LEMMA BetweenRight ==
    ASSUME NEW kx \in Int, NEW ky \in Int, NEW lx \in Int, NEW ly \in Int, NEW ex \in Int, NEW ey \in Int,
           kx > 0, lx > 0,
           kx * ly - ky * lx > 0, kx * ey - ky * ex >= 0, ex * ly - ey * lx >= 0
    PROVE  ex >= 0
<1> DEFINE K == kx * ly - ky * lx
           M == ex * ly - ey * lx
           N == kx * ey - ky * ex
<1>1. K * ex = M * kx + N * lx
  OBVIOUS
<1>2. K \in Int /\ M \in Int /\ N \in Int /\ K > 0 /\ M >= 0 /\ N >= 0
  OBVIOUS
<1> HIDE DEF K, M, N
<1>3. M * kx >= 0
  BY ONLY <1>2, kx \in Int, kx > 0
<1>4. N * lx >= 0
  BY ONLY <1>2, lx \in Int, lx > 0
<1>5. M * kx \in Int /\ N * lx \in Int
  BY ONLY <1>2, kx \in Int, lx \in Int
<1>6. K * ex >= 0
  BY ONLY <1>1, <1>3, <1>4, <1>5
<1>7. ex < 0 => K * ex < 0
  BY ONLY <1>2, ex \in Int
<1> QED BY ONLY <1>2, <1>6, <1>7, ex \in Int

\* The larger of two products of which one factor is larger and none negative
LEMMA ProductGrows ==
    ASSUME NEW x \in Int, NEW y \in Int, NEW z \in Int, x <= y, 0 <= z
    PROVE  x * z <= y * z /\ z * x <= z * y
<1>1. (y - x) * z >= 0
  OBVIOUS
<1> QED BY <1>1

\* A grid in the first eighth covers nothing else as near.
LEMMA FirstEighth ==
    ASSUME NEW a \in Int, NEW b \in Int, NEW p \in Int, NEW q \in Int,
           0 < a, 0 <= b, b <= a, p <= a,
           Covers(<<a, b>>, <<p, q>>)
    PROVE  p = a /\ q = b
<1>1. PICK k \in Corners(<<a, b>>), l \in Corners(<<a, b>>) :
          /\ Cross(k, l) > 0
          /\ \A e \in Corners(<<p, q>>) : Cross(k, e) >= 0 /\ Cross(e, l) >= 0
  BY DEF Covers
<1> DEFINE kx == k[1] ky == k[2] lx == l[1] ly == l[2]
<1>2. /\ kx \in {2 * a - 1, 2 * a + 1} /\ ky \in {2 * b - 1, 2 * b + 1}
      /\ lx \in {2 * a - 1, 2 * a + 1} /\ ly \in {2 * b - 1, 2 * b + 1}
  BY <1>1, CornersOf
<1>3. kx * ly - ky * lx > 0
  BY <1>1 DEF Cross
<1>4. ASSUME NEW ex \in {2 * p - 1, 2 * p + 1}, NEW ey \in {2 * q - 1, 2 * q + 1}
      PROVE  kx * ey - ky * ex >= 0 /\ ex * ly - ey * lx >= 0
  <2>1. <<ex, ey>> \in Corners(<<p, q>>)
    BY CornersOf
  <2> QED BY <1>1, <2>1 DEF Cross
<1> HIDE DEF kx, ky, lx, ly
<1>5. /\ kx \in Int /\ ky \in Int /\ lx \in Int /\ ly \in Int
      /\ 2 * a - 1 <= kx /\ kx <= 2 * a + 1 /\ 2 * b - 1 <= ky /\ ky <= 2 * b + 1
      /\ 2 * a - 1 <= lx /\ lx <= 2 * a + 1 /\ 2 * b - 1 <= ly /\ ly <= 2 * b + 1
      /\ kx > 0 /\ lx > 0
  BY ONLY <1>2, a \in Int, b \in Int, 0 < a
<1> DEFINE x1 == 2 * p - 1  x2 == 2 * p + 1
           y1 == 2 * q - 1  y2 == 2 * q + 1
           l1 == 2 * a - 1  l2 == 2 * a + 1
           h1 == 2 * b - 1  h2 == 2 * b + 1
<1>6. /\ x1 \in Int /\ x2 \in Int /\ y1 \in Int /\ y2 \in Int
      /\ l1 \in Int /\ l2 \in Int /\ h1 \in Int /\ h2 \in Int
      /\ 0 < l1 /\ 0 < l2 /\ 0 < h2 /\ x1 <= l1
      /\ x1 # 0 /\ y1 # 0 /\ y2 # 0 /\ y1 < y2 /\ x1 < x2
  OBVIOUS
<1>7. 0 < x1
  <2>1. x1 \in {2 * p - 1, 2 * p + 1} /\ y1 \in {2 * q - 1, 2 * q + 1}
    OBVIOUS
  <2>2. kx * y1 - ky * x1 >= 0 /\ x1 * ly - y1 * lx >= 0
    BY <1>4, <2>1
  <2> HIDE DEF x1, y1
  <2>3. x1 >= 0
    BY ONLY <1>3, <1>5, <1>6, <2>2, BetweenRight
  <2> QED BY ONLY <1>6, <2>3
<1>8. /\ kx * y1 - ky * x1 >= 0 /\ x1 * ly - y2 * lx >= 0
      /\ kx * y1 - ky * x2 >= 0
  BY <1>4
<1>9. /\ l1 <= kx /\ kx <= l2 /\ h1 <= ky /\ ky <= h2
      /\ l1 <= lx /\ lx <= l2 /\ h1 <= ly /\ ly <= h2
  BY <1>5
<1>10. q <= b <=> y2 <= h2
  BY DEF y2, h2
<1>11. (q >= 0 <=> y2 > 0) /\ (q <= 0 <=> y1 < 0)
  BY DEF y1, y2
<1>12. b = 0 => h1 = -1 /\ h2 = 1
  OBVIOUS
<1>13. b # 0 => 0 < h1
  OBVIOUS
<1>14. /\ h2 * x1 = 4 * (b * p) - 2 * b + 2 * p - 1
       /\ y2 * l1 = 4 * (a * q) - 2 * q + 2 * a - 1
       /\ l2 * y1 = 4 * (a * q) - 2 * a + 2 * q - 1
       /\ h1 * x2 = 4 * (b * p) + 2 * b - 2 * p - 1
  OBVIOUS
<1>15. (p = a <=> x1 = l1) /\ (x1 >= l1 => p >= a)
  OBVIOUS
<1> HIDE DEF x1, x2, y1, y2, l1, l2, h1, h2
\* the upper corner
<1>16. y2 > 0 => h2 * x1 >= y2 * l1
  <2> SUFFICES ASSUME y2 > 0
               PROVE  h2 * x1 >= y2 * l1
    OBVIOUS
  <2>1. ly * x1 <= h2 * x1 /\ y2 * l1 <= y2 * lx
    BY <1>5, <1>6, <1>7, <1>9, ProductGrows
  <2>2. x1 * ly = ly * x1 /\ ly * x1 \in Int /\ h2 * x1 \in Int /\ y2 * l1 \in Int /\ y2 * lx \in Int
    BY ONLY <1>5, <1>6
  <2> QED BY ONLY <1>8, <2>1, <2>2
<1>17. y2 > 0 => y2 <= h2
  <2> SUFFICES ASSUME y2 > 0
               PROVE  y2 <= h2
    OBVIOUS
  <2>1. h2 * x1 <= h2 * l1
    BY <1>6, ProductGrows
  <2>2. h2 * l1 >= y2 * l1
    <3>1. h2 * x1 \in Int /\ h2 * l1 \in Int /\ y2 * l1 \in Int
      BY ONLY <1>6
    <3> QED BY ONLY <1>16, <2>1, <3>1, y2 > 0
  <2>3. y2 > h2 => (y2 - h2) * l1 > 0
    BY ONLY <1>6
  <2>4. (y2 - h2) * l1 = y2 * l1 - h2 * l1 /\ y2 * l1 \in Int /\ h2 * l1 \in Int
    BY ONLY <1>6
  <2> QED BY ONLY <1>6, <2>2, <2>3, <2>4
<1>18. CASE b = 0
  <2>1. q <= 0
    <3>1. y2 > 0 => y2 <= h2
      BY <1>17
    <3> QED BY ONLY <1>6, <1>10, <1>11, <1>18, <3>1, q \in Int
  <2>2. y1 < 0 /\ h1 = -1
    BY <1>11, <1>12, <1>18, <2>1
  <2>3. l1 * y1 >= kx * y1
    <3>1. l1 * (-y1) <= kx * (-y1)
      BY <1>5, <1>6, <1>9, <2>2, ProductGrows
    <3>2. l1 * (-y1) = -(l1 * y1) /\ kx * (-y1) = -(kx * y1) /\ l1 * y1 \in Int /\ kx * y1 \in Int
      BY ONLY <1>5, <1>6
    <3> QED BY ONLY <3>1, <3>2
  <2>4. h1 * x1 <= ky * x1
    BY <1>5, <1>6, <1>7, <1>9, ProductGrows
  <2>5. l1 * y1 >= -x1
    <3>1. h1 * x1 = -x1 /\ ky * x1 \in Int /\ kx * y1 \in Int /\ l1 * y1 \in Int
      BY ONLY <1>5, <1>6, <2>2
    <3> QED BY ONLY <1>6, <1>8, <2>3, <2>4, <3>1
  <2>6. y1 >= -1
    <3>1. y1 <= -2 => l1 * y1 <= l1 * (-2)
      BY <1>6, ProductGrows
    <3>2. l1 * (-2) = -(2 * l1) /\ l1 * y1 \in Int
      BY ONLY <1>6
    <3> QED BY ONLY <1>6, <1>7, <2>5, <3>1, <3>2
  <2>7. y1 = -1
    BY ONLY <1>6, <2>2, <2>6
  <2>8. q = 0
    BY ONLY <2>7, q \in Int DEF y1
  <2>9. x1 >= l1
    <3>1. l1 * y1 = -l1
      BY ONLY <1>6, <2>7
    <3> QED BY ONLY <1>6, <2>5, <3>1
  <2> QED BY <1>15, <1>18, <2>8, <2>9
\* the lower corner
<1>19. CASE b # 0
  <2>1. h1 * x2 <= ky * x2
    BY <1>5, <1>6, <1>7, <1>9, ProductGrows
  <2>2. 0 < h1 * x2 /\ h1 * x2 \in Int
    <3>1. 0 < h1 /\ 0 < x2
      BY <1>6, <1>7, <1>13, <1>19
    <3> QED BY ONLY <1>6, <3>1
  <2>3. h1 * x2 <= kx * y1
    <3>1. ky * x2 \in Int /\ kx * y1 \in Int
      BY ONLY <1>5, <1>6
    <3> QED BY ONLY <1>8, <2>1, <2>2, <3>1
  <2>4. y1 > 0
    <3>1. y1 < 0 => kx * y1 < 0
      BY ONLY <1>5, <1>6
    <3>2. kx * y1 \in Int
      BY ONLY <1>5, <1>6
    <3> QED BY ONLY <1>6, <2>2, <2>3, <3>1, <3>2
  <2>5. kx * y1 <= l2 * y1
    BY <1>5, <1>6, <1>9, <2>4, ProductGrows
  <2>6. h1 * x2 <= l2 * y1
    <3>1. kx * y1 \in Int /\ l2 * y1 \in Int
      BY ONLY <1>5, <1>6
    <3> QED BY ONLY <2>2, <2>3, <2>5, <3>1
  <2>7. y2 > 0
    BY ONLY <1>6, <2>4
  <2>8. q <= b
    BY <1>10, <1>17, <2>7
  <2>9. h2 * x1 >= y2 * l1
    BY <1>16, <2>7
  <2>10. a * q \in Int /\ b * p \in Int
    OBVIOUS
  <2> DEFINE u == a * q
             v == b * p
  <2>11. /\ 4 * u - 2 * a + 2 * q - 1 >= 4 * v + 2 * b - 2 * p - 1
         /\ 4 * v - 2 * b + 2 * p - 1 >= 4 * u - 2 * q + 2 * a - 1
         /\ u \in Int /\ v \in Int
    BY ONLY <1>14, <2>6, <2>9, <2>10
  <2> HIDE DEF u, v
  <2> QED BY ONLY <2>8, <2>11, p <= a, a \in Int, b \in Int, p \in Int, q \in Int
<1> QED BY <1>18, <1>19
\* A quarter of a turn, and a look from behind the board
Turned(c) == <<-c[2], c[1]>>
Mirrored(c) == <<c[1], -c[2]>>

LEMMA PointParts ==
    ASSUME NEW c \in Points
    PROVE  c[1] \in Int /\ c[2] \in Int /\ c = <<c[1], c[2]>>
BY DEF Points

LEMMA TurnedCorners ==
    ASSUME NEW c \in Points
    PROVE  /\ Corners(c) \subseteq Points
           /\ Turned(c) \in Points /\ RadiusOf(Turned(c)) = RadiusOf(c)
           /\ Corners(Turned(c)) = {Turned(e) : e \in Corners(c)}
           /\ Mirrored(c) \in Points /\ RadiusOf(Mirrored(c)) = RadiusOf(c)
           /\ Corners(Mirrored(c)) = {Mirrored(e) : e \in Corners(c)}
<1>1. PICK a \in Int, b \in Int : c = <<a, b>>
  BY DEF Points
<1>2. Turned(c) = <<-b, a>> /\ Mirrored(c) = <<a, -b>> /\ -b \in Int
  BY <1>1 DEF Turned, Mirrored
<1>3. Turned(c) \in Points /\ Mirrored(c) \in Points
  BY <1>2 DEF Points
<1>4. RadiusOf(Turned(c)) = RadiusOf(c) /\ RadiusOf(Mirrored(c)) = RadiusOf(c)
  BY <1>1, <1>2 DEF RadiusOf, Abs
<1> DEFINE x == 2 * a - 1  u == 2 * a + 1
           y == 2 * b - 1  v == 2 * b + 1
<1>5. Corners(c) = {<<x, y>>, <<x, v>>, <<u, y>>, <<u, v>>} /\ Corners(c) \subseteq Points
  BY <1>1, CornersOf
<1>6. 2 * (-b) - 1 = -v /\ 2 * (-b) + 1 = -y
  OBVIOUS
<1>7. Corners(Turned(c)) = {<<-v, x>>, <<-v, u>>, <<-y, x>>, <<-y, u>>}
  BY <1>2, <1>6, CornersOf
<1>8. Corners(Mirrored(c)) = {<<x, -v>>, <<x, -y>>, <<u, -v>>, <<u, -y>>}
  BY <1>2, <1>6, CornersOf
<1> HIDE DEF x, u, y, v
<1>9. /\ Turned(<<x, y>>) = <<-y, x>> /\ Turned(<<x, v>>) = <<-v, x>>
      /\ Turned(<<u, y>>) = <<-y, u>> /\ Turned(<<u, v>>) = <<-v, u>>
  BY DEF Turned
<1>10. /\ Mirrored(<<x, y>>) = <<x, -y>> /\ Mirrored(<<x, v>>) = <<x, -v>>
       /\ Mirrored(<<u, y>>) = <<u, -y>> /\ Mirrored(<<u, v>>) = <<u, -v>>
  BY DEF Mirrored
<1>11. Corners(Turned(c)) = {Turned(e) : e \in Corners(c)}
  <2>1. {Turned(e) : e \in Corners(c)} =
           {Turned(<<x, y>>), Turned(<<x, v>>), Turned(<<u, y>>), Turned(<<u, v>>)}
    BY ONLY <1>5
  <2> QED BY ONLY <1>7, <1>9, <2>1
<1>12. Corners(Mirrored(c)) = {Mirrored(e) : e \in Corners(c)}
  <2>1. {Mirrored(e) : e \in Corners(c)} =
           {Mirrored(<<x, y>>), Mirrored(<<x, v>>), Mirrored(<<u, y>>), Mirrored(<<u, v>>)}
    BY ONLY <1>5
  <2> QED BY ONLY <1>8, <1>10, <2>1
<1> QED BY <1>3, <1>4, <1>5, <1>11, <1>12

LEMMA TurnedCross ==
    ASSUME NEW k \in Points, NEW l \in Points
    PROVE  /\ Cross(Turned(k), Turned(l)) = Cross(k, l)
           /\ Cross(Mirrored(l), Mirrored(k)) = Cross(k, l)
<1>1. k[1] \in Int /\ k[2] \in Int /\ l[1] \in Int /\ l[2] \in Int
  BY PointParts
<1>2. /\ Cross(Turned(k), Turned(l)) = (-k[2]) * l[1] - k[1] * (-l[2])
      /\ Cross(Mirrored(l), Mirrored(k)) = l[1] * (-k[2]) - (-l[2]) * k[1]
      /\ Cross(k, l) = k[1] * l[2] - k[2] * l[1]
  BY DEF Cross, Turned, Mirrored
<1> QED BY ONLY <1>1, <1>2

\* What a grid covers does not depend on the direction.
LEMMA TurnedCovers ==
    ASSUME NEW c \in Points, NEW o \in Points, Covers(c, o)
    PROVE  Covers(Turned(c), Turned(o)) /\ Covers(Mirrored(c), Mirrored(o))
<1>1. PICK k \in Corners(c), l \in Corners(c) :
          Cross(k, l) > 0 /\ \A e \in Corners(o) : Cross(k, e) >= 0 /\ Cross(e, l) >= 0
  BY DEF Covers
<1>2. k \in Points /\ l \in Points /\ Corners(o) \subseteq Points
  BY TurnedCorners
<1>3. Covers(Turned(c), Turned(o))
  <2>1. Turned(k) \in Corners(Turned(c)) /\ Turned(l) \in Corners(Turned(c))
    BY TurnedCorners
  <2>2. Cross(Turned(k), Turned(l)) > 0
    BY <1>1, <1>2, TurnedCross
  <2>3. ASSUME NEW f \in Corners(Turned(o))
        PROVE  Cross(Turned(k), f) >= 0 /\ Cross(f, Turned(l)) >= 0
    <3>1. PICK e \in Corners(o) : f = Turned(e)
      BY TurnedCorners
    <3> QED BY <1>1, <1>2, <3>1, TurnedCross
  <2> QED BY <2>1, <2>2, <2>3 DEF Covers
<1>4. Covers(Mirrored(c), Mirrored(o))
  <2>1. Mirrored(k) \in Corners(Mirrored(c)) /\ Mirrored(l) \in Corners(Mirrored(c))
    BY TurnedCorners
  <2>2. Cross(Mirrored(l), Mirrored(k)) > 0
    BY <1>1, <1>2, TurnedCross
  <2>3. ASSUME NEW f \in Corners(Mirrored(o))
        PROVE  Cross(Mirrored(l), f) >= 0 /\ Cross(f, Mirrored(k)) >= 0
    <3>1. PICK e \in Corners(o) : f = Mirrored(e)
      BY TurnedCorners
    <3> QED BY <1>1, <1>2, <3>1, TurnedCross
  <2> QED BY <2>1, <2>2, <2>3 DEF Covers
<1> QED BY <1>3, <1>4

\* c covers nothing else that is as near.
HidesOnlyFarther(c) ==
    \A o \in Points : Covers(c, o) /\ RadiusOf(o) <= RadiusOf(c) => o = c

LEMMA TurnedFarther ==
    ASSUME NEW c \in Points, HidesOnlyFarther(Turned(c)) \/ HidesOnlyFarther(Mirrored(c))
    PROVE  HidesOnlyFarther(c)
<1> SUFFICES ASSUME NEW o \in Points, Covers(c, o), RadiusOf(o) <= RadiusOf(c)
             PROVE  o = c
  BY DEF HidesOnlyFarther
<1>1. c = <<c[1], c[2]>> /\ o = <<o[1], o[2]>>
      /\ c[1] \in Int /\ c[2] \in Int /\ o[1] \in Int /\ o[2] \in Int
  BY PointParts
<1>2. CASE HidesOnlyFarther(Turned(c))
  <2>1. Turned(o) = Turned(c)
    BY <1>2, TurnedCovers, TurnedCorners DEF HidesOnlyFarther
  <2>2. -o[2] = -c[2] /\ o[1] = c[1]
    BY <2>1 DEF Turned
  <2> QED BY ONLY <1>1, <2>2
<1>3. CASE HidesOnlyFarther(Mirrored(c))
  <2>1. Mirrored(o) = Mirrored(c)
    BY <1>3, TurnedCovers, TurnedCorners DEF HidesOnlyFarther
  <2>2. o[1] = c[1] /\ -o[2] = -c[2]
    BY <2>1 DEF Mirrored
  <2> QED BY ONLY <1>1, <2>2
<1> QED BY <1>2, <1>3

\* The other eighths, by mirroring and turning to the first one
LEMMA AllEighths ==
    ASSUME NEW c \in Points, c # <<0, 0>>
    PROVE  HidesOnlyFarther(c)
<1> DEFINE Quarter(d) == 0 < d[1] /\ Abs(d[2]) <= d[1]
<1>1. ASSUME NEW d \in Points, Quarter(d), 0 <= d[2]
      PROVE  HidesOnlyFarther(d)
  <2> SUFFICES ASSUME NEW o \in Points, Covers(d, o), RadiusOf(o) <= RadiusOf(d)
               PROVE  o = d
    BY DEF HidesOnlyFarther
  <2>1. d = <<d[1], d[2]>> /\ o = <<o[1], o[2]>>
        /\ d[1] \in Int /\ d[2] \in Int /\ o[1] \in Int /\ o[2] \in Int
    BY PointParts
  <2>2. 0 < d[1] /\ 0 <= d[2] /\ d[2] <= d[1] /\ o[1] <= d[1]
    BY <1>1, <2>1 DEF RadiusOf, Abs
  <2>3. Covers(<<d[1], d[2]>>, <<o[1], o[2]>>)
    BY <2>1
  <2>4. o[1] = d[1] /\ o[2] = d[2]
    BY <2>1, <2>2, <2>3, FirstEighth
  <2> QED BY ONLY <2>1, <2>4
<1>2. ASSUME NEW d \in Points, Quarter(d)
      PROVE  HidesOnlyFarther(d)
  <2>1. CASE 0 <= d[2]
    BY <1>1, <1>2, <2>1
  <2>2. CASE ~(0 <= d[2])
    <3>1. d[1] \in Int /\ d[2] \in Int
      BY PointParts
    <3>2. Mirrored(d) \in Points
      BY TurnedCorners
    <3>3. Quarter(Mirrored(d)) /\ 0 <= Mirrored(d)[2]
      BY <1>2, <2>2, <3>1 DEF Mirrored, Abs
    <3> HIDE DEF Quarter
    <3> QED BY <1>1, <3>2, <3>3, TurnedFarther
  <2> QED BY <2>1, <2>2
\* below the eye, left of it and above it
<1>3. ASSUME NEW d \in Points, Quarter(Turned(d))
      PROVE  HidesOnlyFarther(d)
  <2> HIDE DEF Quarter
  <2> QED BY <1>2, <1>3, TurnedCorners, TurnedFarther
<1>4. ASSUME NEW d \in Points, Quarter(Turned(Turned(d)))
      PROVE  HidesOnlyFarther(d)
  <2> HIDE DEF Quarter
  <2> QED BY <1>3, <1>4, TurnedCorners, TurnedFarther
<1>5. ASSUME NEW d \in Points, Quarter(Turned(Turned(Turned(d))))
      PROVE  HidesOnlyFarther(d)
  <2> HIDE DEF Quarter
  <2> QED BY <1>4, <1>5, TurnedCorners, TurnedFarther
<1>6. \/ Quarter(c) \/ Quarter(Turned(c)) \/ Quarter(Turned(Turned(c)))
      \/ Quarter(Turned(Turned(Turned(c))))
  <2>1. c[1] \in Int /\ c[2] \in Int /\ ~(c[1] = 0 /\ c[2] = 0)
    BY PointParts
  <2>2. /\ Turned(c) = <<-c[2], c[1]>> /\ Turned(Turned(c)) = <<-c[1], -c[2]>>
        /\ Turned(Turned(Turned(c))) = <<-(-c[2]), -c[1]>>
    BY DEF Turned
  <2>3. -(-c[2]) = c[2]
    BY ONLY <2>1
  <2> QED BY ONLY <2>1, <2>2, <2>3 DEF Abs
<1> HIDE DEF Quarter
<1> QED BY <1>2, <1>3, <1>4, <1>5, <1>6

\* A grid covers, of all others, only such as are further out, so that getSight has
\* come to it before: what CastsShadow and CastsWideShadow take for granted.
THEOREM NoneCoversEarlier ==
    \A c, o \in Points \ {<<0, 0>>} : c # o /\ Covers(c, o) => RadiusOf(c) < RadiusOf(o)
<1> SUFFICES ASSUME NEW c \in Points \ {<<0, 0>>}, NEW o \in Points \ {<<0, 0>>},
                    c # o, Covers(c, o)
             PROVE  RadiusOf(c) < RadiusOf(o)
  OBVIOUS
<1>1. ~(RadiusOf(o) <= RadiusOf(c))
  BY AllEighths DEF HidesOnlyFarther
<1>2. RadiusOf(c) \in Int /\ RadiusOf(o) \in Int
  BY PointParts DEF RadiusOf, Abs
<1> QED BY ONLY <1>1, <1>2

\* Grids to the right of the eye in its own row lie in the arcs of one another.
LEMMA FartherInRow ==
    ASSUME NEW n \in Nat \ {0}, NEW m \in Nat \ {0}, n < m
    PROVE  Covers(<<n, 0>>, <<m, 0>>)
<1> DEFINE k == <<2 * n - 1, 2 * 0 - 1>>
           l == <<2 * n - 1, 2 * 0 + 1>>
<1>1. k \in Corners(<<n, 0>>) /\ l \in Corners(<<n, 0>>)
  BY CornersOf
<1>2. Cross(k, l) > 0
  <2>1. Cross(k, l) = (2 * n - 1) * 1 - (-1) * (2 * n - 1)
    BY DEF Cross
  <2> QED BY ONLY <2>1, n \in Nat \ {0}
<1>3. ASSUME NEW e \in Corners(<<m, 0>>)
      PROVE  Cross(k, e) >= 0 /\ Cross(e, l) >= 0
  <2>1. e[1] \in {2 * m - 1, 2 * m + 1} /\ e[2] \in {-1, 1}
    BY CornersOf
  <2>2. /\ Cross(k, e) = (2 * n - 1) * e[2] - (-1) * e[1]
        /\ Cross(e, l) = e[1] * 1 - e[2] * (2 * n - 1)
    BY DEF Cross
  <2>3. e[2] * (2 * n - 1) \in {-(2 * n - 1), 2 * n - 1} /\ (2 * n - 1) * e[2] \in {-(2 * n - 1), 2 * n - 1}
    BY ONLY <2>1, n \in Nat \ {0}
  <2> QED BY ONLY <2>1, <2>2, <2>3, n \in Nat \ {0}, m \in Nat \ {0}, n < m
<1> QED BY <1>1, <1>2, <1>3 DEF Covers
=============================================================================
