---------------------------- MODULE CodingVerdict ----------------------------
(***************************************************************************)
(* What the coding side promises the interview about one coding question:  *)
(* it is answered once, it gets one verdict, and the job that carries the  *)
(* verdict to the interview goes there once, or is lost.  CodingSubmission *)
(* implements it; InterviewExecution relies on no more.                    *)
(***************************************************************************)
VARIABLES
    answered,  \* the question has an answers row
    graded,    \* its final submission has its verdict
    job        \* a job has that verdict yet to carry to the interview

vars == <<answered, graded, job>>

Init == answered = FALSE /\ graded = FALSE /\ job = FALSE

Answer == ~answered /\ answered' = TRUE /\ UNCHANGED <<graded, job>>

Grade ==
    /\ answered
    /\ ~graded
    /\ graded' = TRUE
    /\ job' = TRUE
    /\ UNCHANGED answered

Hand == job /\ job' = FALSE /\ UNCHANGED <<answered, graded>>

Next == Answer \/ Grade \/ Hand

Spec == Init /\ [][Next]_vars
=============================================================================
