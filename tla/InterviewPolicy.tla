--------------------------- MODULE InterviewPolicy ---------------------------
(***************************************************************************)
(* The deterministic policy of an interview: how long a round is, how many *)
(* follow-ups a question may get, how the difficulty adapts, and what the  *)
(* supervisor decides after an answer (backend/app/agents/policy.py and    *)
(* backend/app/agents/nodes/supervisor.py).  Constant operators only.      *)
(***************************************************************************)
EXTENDS Integers

RoundTypes == {"introduction", "technical", "coding", "behavioral",
               "resume_discussion", "system_design", "final"}

CODING == "coding"

DefaultQuestionsPerRound ==
    [introduction |-> 1, technical |-> 3, coding |-> 1, behavioral |-> 2,
     resume_discussion |-> 2, system_design |-> 2, final |-> 1]

MaxFollowUpsPerQuestion == 2

-----------------------------------------------------------------------------
\* Difficulty levels by their position in _DIFFICULTY_ORDER: easy, medium, hard.
Difficulties == 1..3
Signals == {"increase", "maintain", "decrease"}

\* An increase at the top or a decrease at the bottom is a no-op.
ApplyDifficultySignal(current, signal) ==
    CASE signal = "increase" /\ current < 3 -> current + 1
      [] signal = "decrease" /\ current > 1 -> current - 1
      [] OTHER -> current

-----------------------------------------------------------------------------
Actions == {"FOLLOW_UP", "NEXT_QUESTION", "NEXT_ROUND", "COMPLETE"}

\* Mutant: the cap is compared with <=, one follow-up too many.
OneFollowUpMore(worthy, followUps) == worthy /\ followUps <= MaxFollowUpsPerQuestion

\* worthy is the evaluation's follow_up_worthy, followUps the follow-ups that
\* the question's root has had.
FollowUpDue(worthy, followUps) == worthy /\ followUps < MaxFollowUpsPerQuestion

\* Mutant: follow-ups count toward the length of the round.
RoundShortWithFollowUps(type, roots, followUps) ==
    roots + followUps < DefaultQuestionsPerRound[type]

\* Only root questions count toward the length of a round.
RoundShort(type, roots, followUps) == roots < DefaultQuestionsPerRound[type]

\* The supervisor's decision after an answer in the round at index of a plan of
\* size rounds.
DecideNextAction(type, index, size, roots, followUps, worthy) ==
    IF FollowUpDue(worthy, followUps) THEN "FOLLOW_UP"
    ELSE IF RoundShort(type, roots, followUps) THEN "NEXT_QUESTION"
    ELSE IF index >= size THEN "COMPLETE"
    ELSE "NEXT_ROUND"

\* round_transition_node, entered after a coding round: on to the next round of
\* the plan, or to the end.
RoundTransition(index, size) ==
    IF index + 1 > size THEN "COMPLETE" ELSE "NEXT_ROUND"
=============================================================================
