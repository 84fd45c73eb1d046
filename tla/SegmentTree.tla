----------------------------- MODULE SegmentTree -----------------------------
(***************************************************************************)
(* The shadows of one look around: a balanced tree of segments of the      *)
(* angle (SegmentNode), ordered by their ends, that keeps the smallest     *)
(* start of every subtree.  sightCalc asks it for one angle and adds the   *)
(* arcs of obstacles.  A father pointer and the loop of balance that       *)
(* follows it are the way back up here, the recursion of the searches is   *)
(* one level of the tree after the other.                                  *)
(***************************************************************************)
EXTENDS Integers, FiniteSetsExt

CONSTANTS FullCircle,  \* 2 * Math.PI; angles are numbers from 0 to it
          Arcs,        \* arcs of obstacles, as pairs of start and end
          WideArcs,    \* those through the angle 0: from the second number to the first
          MaxArcs      \* bound on the obstacles of one look around

Angles == 0..FullCircle

\* The eye is in the middle of a grid and an arc ends at corners of grids: at the
\* angle 0 there is none.
ASSUME ArcAssumption ==
    /\ FullCircle \in Nat /\ MaxArcs \in Nat
    /\ \A a \in Arcs \cup WideArcs : a \in Angles \X Angles /\ 0 < a[1] /\ a[2] < FullCircle
    /\ Arcs \cap WideArcs = {}
    /\ \A a \in Arcs : a[1] <= a[2]
    /\ \A a \in WideArcs : a[1] < a[2]

Nil == << >>

Node(arc) == [start |-> arc[1], end |-> arc[2], min |-> arc[1], depth |-> 1, left |-> Nil, right |-> Nil]

DepthOf(n) == IF n = Nil THEN 0 ELSE n.depth

Heavy(n) == [left |-> DepthOf(n.left) > DepthOf(n.right) + 1,
             right |-> DepthOf(n.right) > DepthOf(n.left) + 1]

Deepened(n) == [n EXCEPT !.depth = Max({DepthOf(n.left), DepthOf(n.right)}) + 1]

\* Mutant of Minimised: min is looked after nowhere.
MutantMinimised(n) == n

Minimised(n) ==
    [n EXCEPT !.min = Min({n.start} \cup {c.min : c \in {n.left, n.right} \ {Nil}})]

\* The first half of a double rotation looks after depth and min of the node
\* that goes down; the node that goes up is seen to by the second half.
LeftFirst(n) ==
    LET up == n.left.right
    IN  [n EXCEPT !.left = [up EXCEPT !.left = Minimised(Deepened([n.left EXCEPT !.right = up.left]))]]

RightFirst(n) ==
    LET up == n.right.left
    IN  [n EXCEPT !.right = [up EXCEPT !.right = Minimised(Deepened([n.right EXCEPT !.left = up.right]))]]

\* A single rotation leaves the old min to the node that goes down ("TODO min").
RotatedRight(n) == [n.left EXCEPT !.right = Deepened([n EXCEPT !.left = n.left.right])]

RotatedLeft(n) == [n.right EXCEPT !.left = Deepened([n EXCEPT !.right = n.right.left])]

\* One round of the loop of balance
balance(n) ==
    Minimised(Deepened(
        IF Heavy(n).left
          THEN RotatedRight(IF DepthOf(n.left.right) > DepthOf(n.left.left) THEN LeftFirst(n) ELSE n)
        ELSE IF Heavy(n).right
          THEN RotatedLeft(IF DepthOf(n.right.left) > DepthOf(n.right.right) THEN RightFirst(n) ELSE n)
        ELSE n))

\* The child that an arc goes to, and the node when that has become c
Below(n, arc) == IF n = Nil THEN Nil ELSE IF n.end > arc[2] THEN n.left ELSE n.right

WithBelow(n, arc, c) == IF n.end > arc[2] THEN [n EXCEPT !.left = c] ELSE [n EXCEPT !.right = c]

\* Down to where a child is missing: the node at every depth, Nil after the last
Way(n, arc) ==
    LET way[k \in 0..DepthOf(n)] == IF k = 0 THEN n ELSE Below(way[k - 1], arc)
    IN  way

\* and back, from father to father: what has become of the node i levels above
\* the greatest depth.
Grown(n, arc) ==
    LET grown[i \in 0..DepthOf(n)] ==
            LET m == Way(n, arc)[DepthOf(n) - i]
            IN  IF m = Nil THEN Node(arc) ELSE balance(WithBelow(m, arc, grown[i - 1]))
    IN  grown

insert(n, arc) == Grown(n, arc)[DepthOf(n)]

\* The children that find goes on to
MayCover(n, angle) ==
    {c \in {n.left} \ {Nil} : c.min <= angle /\ angle <= n.end}
        \cup {c \in {n.right} \ {Nil} : c.min <= angle}

\* and the nodes that it comes to at every depth
AskedFor(n, angle) ==
    LET asked[k \in 0..DepthOf(n)] ==
            IF k = 0 THEN {n} \ {Nil} ELSE UNION {MayCover(m, angle) : m \in asked[k - 1]}
    IN  asked

\* !find(angle).isEmpty()
find(n, angle) ==
    \E k \in 0..DepthOf(n) : \E m \in AskedFor(n, angle)[k] : m.start <= angle /\ angle <= m.end

\* findContaining looks at the end of the left child where a node below it may
\* end later, so that it can miss a segment.
MayContain(n, arc) ==
    {c \in {n.left} \ {Nil} : c.min <= arc[1] /\ c.end >= arc[1]}
        \cup {c \in {n.right} \ {Nil} : c.min <= arc[1]}

AskedToContain(n, arc) ==
    LET asked[k \in 0..DepthOf(n)] ==
            IF k = 0 THEN {n} \ {Nil} ELSE UNION {MayContain(m, arc) : m \in asked[k - 1]}
    IN  asked

\* !findContaining(segment).isEmpty()
findContaining(n, arc) ==
    \E k \in 0..DepthOf(n) : \E m \in AskedToContain(n, arc)[k] : m.start <= arc[1] /\ m.end >= arc[2]

-----------------------------------------------------------------------------
(* Where arcs come from: grids around the eye, which is in the middle of   *)
(* <<0, 0>>.  Coordinates are doubled, so that corners have integers.      *)

Corners(c) == {<<2 * c[1] + i, 2 * c[2] + j>> : i, j \in {-1, 1}}

\* Positive if l is to the left of k
Cross(k, l) == k[1] * l[2] - k[2] * l[1]

\* The arc of c, between two of its corners, has all corners of o.
Covers(c, o) ==
    \E k, l \in Corners(c) :
       /\ Cross(k, l) > 0
       /\ \A e \in Corners(o) : Cross(k, e) >= 0 /\ Cross(e, l) >= 0

Abs(n) == IF n < 0 THEN -n ELSE n

\* The radius at which getSight comes to c
RadiusOf(c) == IF Abs(c[1]) > Abs(c[2]) THEN Abs(c[1]) ELSE Abs(c[2])

-----------------------------------------------------------------------------
VARIABLES shadow,    \* the tree
          cast       \* the arcs of the obstacles so far

shadowVars == <<shadow, cast>>

ShadowInit == shadow = Nil /\ cast = {}

Upper(arc) == <<0, arc[1]>>
Lower(arc) == <<arc[2], FullCircle>>

ContainsArc(a, b) == a[1] <= b[1] /\ b[2] <= a[2]

\* sightCalc of an obstacle whose arc does not go through the angle 0.  Grids are
\* looked at from near to far, and a grid covers only grids further out.
CastsShadow(arc) ==
    /\ Cardinality(cast) < MaxArcs
    /\ \A a \in cast \cap Arcs : ~ContainsArc(arc, a)
    /\ cast' = cast \cup {arc}
    /\ shadow' = IF findContaining(shadow, arc) THEN shadow ELSE insert(shadow, arc)

\* One whose arc does: a grid to the right of the eye in its own row, so that
\* the arcs of two such grids lie in one another.  Nor does it cover a grid looked
\* at before.
CastsWideShadow(arc) ==
    /\ Cardinality(cast) < MaxArcs
    /\ \A a \in cast \cap Arcs : ~ContainsArc(Upper(arc), a) /\ ~ContainsArc(Lower(arc), a)
    /\ \A a \in cast \cap WideArcs : arc # a /\ ContainsArc(arc, a)
    /\ cast' = cast \cup {arc}
    /\ shadow' = IF findContaining(shadow, Upper(arc)) \/ findContaining(shadow, Lower(arc))
                   THEN shadow ELSE insert(insert(shadow, Upper(arc)), Lower(arc))

\* getSight of the next unit begins without a shadow.
NextUnitLooks == cast # {} /\ shadow' = Nil /\ cast' = {}

ShadowNext ==
    \/ NextUnitLooks
    \/ \E arc \in Arcs : CastsShadow(arc)
    \/ \E arc \in WideArcs : CastsWideShadow(arc)

ShadowSpec == ShadowInit /\ [][ShadowNext]_shadowVars

-----------------------------------------------------------------------------
Covered(angle) ==
    \/ \E a \in cast \cap Arcs : a[1] <= angle /\ angle <= a[2]
    \/ \E a \in cast \cap WideArcs : angle <= a[1] \/ a[2] <= angle

\* sightCalc decides what is seen by asking the tree: it says "shadow" for exactly
\* the angles that an obstacle covers, whatever has been rotated, skipped as
\* contained or left with an old min.
ShadowsAreExact == \A angle \in Angles : find(shadow, angle) <=> Covered(angle)
=============================================================================
