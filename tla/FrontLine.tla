----------------------------- MODULE FrontLine -----------------------------
(***************************************************************************)
(* What the structures of a game promise: they fall one at a time, never   *)
(* rise again, and none falls while another one protects it.               *)
(***************************************************************************)
EXTENDS Integers

CONSTANTS Towers, Barracks, Ancients, Team, Front, Order

VARIABLE standing     \* the structures that are not destroyed

\* u protects v: an inner tower is protected by the outer ones, a barrack by the
\* towers of its front, an ancient by the towers and barracks of its front.
Protects(u, v) ==
    /\ Team[u] = Team[v] /\ Front[u] = Front[v]
    /\ \/ u \in Towers /\ v \in Towers /\ Order[u] < Order[v]
       \/ u \in Towers /\ v \in Barracks
       \/ u \in Towers \cup Barracks /\ v \in Ancients

Init == standing = Towers \cup Barracks \cup Ancients

Fall(v) ==
    /\ v \in standing
    /\ \A u \in standing : ~Protects(u, v)
    /\ standing' = standing \ {v}

Next == \E v \in standing : Fall(v)

Spec == Init /\ [][Next]_standing
=============================================================================
