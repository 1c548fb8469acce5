----------------------------- MODULE MCInterview -----------------------------
(***************************************************************************)
(* Small instances of InterviewExecution: plans of two or three rounds.    *)
(***************************************************************************)
EXTENDS InterviewExecution

\* A one-question round, then one with several roots.
TextPlan == <<"introduction", "behavioral">>

\* A coding round between text rounds: entered from a text turn, left by a job.
MixedPlan == <<"introduction", "coding", "behavioral">>

\* The job completes the interview itself.
CodingLastPlan == <<"introduction", "coding">>
=============================================================================
