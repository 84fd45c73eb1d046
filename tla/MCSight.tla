------------------------------- MODULE MCSight -------------------------------
(* The board of MCGameBoard, and side by side with it the sight maps on a  *)
(* board of the same size and the tree of shadows of one look around: part *)
(* names the one that moves.  The hero sees two grids far, the tower and   *)
(* the creep of the other team their own one; column 1 is a hill, which    *)
(* hides what is behind it.  Three units wrap around a pool of two, and a  *)
(* thread of the refresh before is a third.  Ten arcs, narrow, broad and   *)
(* without width, and a wide one make all the rotations of the tree.       *)
EXTENDS MCGameBoard, Sight, SegmentTree

VARIABLE part

MCUnits == {hero1, tower, creep1}
MCTeamOf == (hero1 :> 1) @@ (tower :> 2) @@ (creep1 :> 2)
MCSightOf == (hero1 :> 2) @@ (tower :> 0) @@ (creep1 :> 0)
MCSightStarts ==
    {(hero1 :> <<0, 0>>) @@ (tower :> <<1, 0>>) @@ (creep1 :> c) : c \in {NoCell, <<1, 1>>}}
MCGrounds == {<<0, 0>>, <<1, 1>>}

\* The ray from the centre of p to that of c meets the square o, corners included.
From(p, c) == <<c[1] - p[1], c[2] - p[2]>>
MCHides(p, o, c) ==
    \E k, l \in Corners(From(p, o)) :
       Cross(k, l) > 0 /\ Cross(k, From(p, c)) >= 0 /\ Cross(From(p, c), l) >= 0

\* Of two grids around the eye the one in the ring further out never covers the
\* other, nor does one in the same ring: CastsShadow takes that for granted.
ASSUME MCNoneCovers ==
    \A c, o \in (((-4)..4) \X ((-4)..4)) \ {<<0, 0>>} :
       c # o /\ Covers(c, o) => RadiusOf(c) < RadiusOf(o)

MCArcs == {<<i, i + 1>> : i \in 1..7} \cup {<<2, 6>>, <<3, 3>>, <<5, 5>>}
MCWideArcs == {<<1, 8>>}

\* The last refresh that is explored is over, or the game or the application is.
SightStops ==
    /\ \/ Running = {} /\ rules = "closed"
       \/ Running = {} /\ rules = "play" /\ refreshes = MaxRefreshes
       \/ ~Unbroken
    /\ UNCHANGED sightVars

BoardAndSightInit ==
    part \in {"board", "sight", "shadows"} /\ Init /\ SightInit /\ ShadowInit

BoardAndSightNext ==
    /\ UNCHANGED part
    /\ \/ part = "board" /\ Next /\ UNCHANGED <<sightVars, shadowVars>>
       \/ part = "sight" /\ (SightNext \/ SightStops) /\ UNCHANGED <<vars, shadowVars>>
       \/ part = "shadows" /\ ShadowNext /\ UNCHANGED <<vars, sightVars>>

BoardAndSight == BoardAndSightInit /\ [][BoardAndSightNext]_<<part, vars, sightVars, shadowVars>>
=============================================================================
