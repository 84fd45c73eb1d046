-------------------------------- MODULE Rounds --------------------------------
(***************************************************************************)
(* What taking turns promises: one character plays at a time; turns go     *)
(* round in a queue, and only the dead and the flag of the round are       *)
(* passed over; whoever has played goes to the end; the dead may come back *)
(* when a round ends, and newcomers queue up behind the flag.              *)
(***************************************************************************)
EXTENDS Naturals, Sequences, SequencesExt

CONSTANTS Player, Towers, Creeps, Flag, NoName, InitialOrder

VARIABLES queue,     \* the order of the turns to come
          playing,   \* whose turn it is, NoName between two turns
          living     \* characters that may play

turnVars == <<queue, playing, living>>

Rotated(s) == Append(Tail(s), Head(s))

Begin ==
    /\ queue = InitialOrder /\ playing = Player
    /\ living = {Player} \cup Towers

\* A turn ends.
End ==
    /\ playing # NoName /\ playing = Head(queue)
    /\ playing' = NoName /\ queue' = Rotated(queue)
    /\ UNCHANGED living

\* The next one in the queue gets its turn.
Give ==
    /\ playing = NoName /\ Head(queue) \in living
    /\ playing' = Head(queue)
    /\ UNCHANGED <<queue, living>>

Pass ==
    /\ playing = NoName /\ Head(queue) \notin living
    /\ queue' = Rotated(queue)
    /\ UNCHANGED <<playing, living>>

\* Somebody is killed in another one's turn; a creep is gone for good.
Die(v) ==
    /\ playing # NoName /\ v \in living \ {playing}
    /\ living' = living \ {v}
    /\ queue' = IF v \in Creeps THEN RemoveFirst(queue, v) ELSE queue
    /\ UNCHANGED playing

\* The round ends: the flag is at the head.
Revive(S) ==
    /\ playing = NoName /\ Head(queue) = Flag
    /\ S \subseteq {Player} /\ living' = living \cup S
    /\ UNCHANGED <<queue, playing>>

\* A round begins: the flag is at the end.
Join(S) ==
    /\ playing = NoName /\ Last(queue) = Flag
    /\ S \subseteq Creeps \ living
    /\ living' = living \cup S
    /\ \E s \in SetToSeqs(S) : queue' = queue \o s
    /\ UNCHANGED playing

\* Another game
Restart ==
    /\ queue' = InitialOrder /\ playing' = Player
    /\ living' = {Player} \cup Towers

Turns ==
    \/ End \/ Give \/ Pass \/ Restart
    \/ \E v \in Towers \cup Creeps \cup {Player} : Die(v)
    \/ \E S \in SUBSET (Creeps \cup {Player}) : Revive(S) \/ Join(S)

Spec == Begin /\ [][Turns]_turnVars
===============================================================================
