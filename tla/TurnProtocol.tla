----------------------------- MODULE TurnProtocol -----------------------------
(***************************************************************************)
(* What an interview promises the candidate: it is opened once, its turns  *)
(* happen one after the other, each answering the last question asked, its *)
(* rounds are visited in order, and once completed or abandoned it stays   *)
(* so (the lifecycle of backend/README.md, "Interview lifecycle").         *)
(***************************************************************************)
EXTENDS Integers

CONSTANT Size   \* rounds in the plan

VARIABLES phase, round, asked, done

vars == <<phase, round, asked, done>>

Init == phase = "not_started" /\ round = 0 /\ asked = 0 /\ done = 0

Open ==
    /\ phase = "not_started"
    /\ phase' = "in_progress"
    /\ round' = 1
    /\ asked' = 1
    /\ UNCHANGED done

\* The pending question is dealt with, and the next one asked, in the same
\* round or the one after it ...
Turn ==
    /\ phase = "in_progress"
    /\ done = asked - 1
    /\ done' = asked
    /\ asked' = asked + 1
    /\ round' \in {round, round + 1} /\ round' <= Size
    /\ UNCHANGED phase

\* ... or none is left.
LastTurn ==
    /\ phase = "in_progress"
    /\ round = Size
    /\ done = asked - 1
    /\ done' = asked
    /\ phase' = "completed"
    /\ UNCHANGED <<round, asked>>

GiveUp ==
    /\ phase \in {"not_started", "in_progress"}
    /\ phase' = "abandoned"
    /\ UNCHANGED <<round, asked, done>>

Next == Open \/ Turn \/ LastTurn \/ GiveUp

Spec == Init /\ [][Next]_vars
=============================================================================
