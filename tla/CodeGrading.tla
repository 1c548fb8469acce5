---------------------------- MODULE CodeGrading ----------------------------
(***************************************************************************)
(* How one submission of code is graded: what the sandbox worker reports   *)
(* of the processes it ran (backend/execution_worker/), what the backend   *)
(* makes of each test case (app/execution/docker_sandbox.py), the status   *)
(* of the whole and the score of a final submission                        *)
(* (app/services/coding/coding_round_service.py, app/agents/policy.py).    *)
(* Constant operators only.                                                *)
(***************************************************************************)
EXTENDS ReportScores

CONSTANTS
    Tests,        \* the question's test cases
    SampleTests,  \* those that a Run is executed on
    TestWeight,   \* [Tests -> weight, in hundredths]
    Programs,     \* what candidates' code may do
    Qualities     \* the quality scores that the evaluation provider may answer with

\* A process exits, or is killed with its group at its time limit and leaves no
\* exit code; its output is cut off where a file reaches the size limit, and
\* matches what is expected or not, trailing and leading blanks aside.
Exits == {"zero", "nonzero", "killed"}
Process == [exit : Exits, truncated : BOOLEAN, matches : BOOLEAN]

\* The exit of the compiler, if the language has one, and one process a test case.
Program == [compiler : Exits \cup {"none"}, run : [Tests -> Process]]

\* CodeEvaluationResult, on the scale that the provider is asked to keep to.
Quality == [readability : Points, optimization : Points, edgeCase : Points]

ASSUME GradingAssumption ==
    /\ IsFiniteSet(Tests)
    /\ SampleTests \subseteq Tests
    /\ TestWeight \in [Tests -> Nat]
    /\ Programs \subseteq Program
    /\ Qualities \subseteq Quality

Verdicts == {"success", "partial", "timeout", "output_limit", "runtime_error", "compile_error"}

-----------------------------------------------------------------------------
\* compile_if_needed
Compiles(program) == program.compiler \in {"none", "zero"}

TestsFor(final) == IF final THEN Tests ELSE SampleTests

\* The worker answers with one outcome for each input it was given.
Outcomes(program, tests) == [t \in tests |-> program.run[t]]

TimedOut(process) == process.exit = "killed"
Crashed(process) == process.exit = "nonzero"
Passes(process) == process.exit = "zero" /\ process.matches

PassedTests(outcomes) == {t \in DOMAIN outcomes : Passes(outcomes[t])}

\* The worst signal of any test case wins; a time limit before the others.
StatusOf(outcomes) ==
    IF \E t \in DOMAIN outcomes : TimedOut(outcomes[t]) THEN "timeout"
    ELSE IF \E t \in DOMAIN outcomes : outcomes[t].truncated THEN "output_limit"
    ELSE IF \E t \in DOMAIN outcomes : Crashed(outcomes[t]) THEN "runtime_error"
    ELSE IF PassedTests(outcomes) = DOMAIN outcomes THEN "success"
    ELSE "partial"

\* _persist_execution_outcome: without a compiled program no test has run.
ResultOf(program, tests) ==
    IF Compiles(program)
    THEN [status |-> StatusOf(Outcomes(program, tests)),
          passed |-> PassedTests(Outcomes(program, tests))]
    ELSE [status |-> "compile_error", passed |-> {}]

-----------------------------------------------------------------------------
FullMarks == 10000

\* _weighted_correctness, over all the tests of a final submission.
Correctness(status, passed) ==
    LET total == SumFunction(TestWeight)
        earned == SumFunction([t \in Tests |-> IF t \in passed THEN TestWeight[t] ELSE 0])
    IN  IF total = 0 THEN 0
        ELSE IF status = "success" THEN FullMarks
        ELSE RoundedQuotient(FullMarks * earned, total)

\* compute_overall_code_score, with CODE_SCORE_WEIGHTS in hundredths; readability
\* counts once more as the quality of the code.
OverallCodeScore(correctness, quality) ==
    RoundedQuotient(40 * correctness + 15 * quality.readability + 20 * quality.optimization
                        + 15 * quality.edgeCase + 10 * quality.readability,
                    100)

\* The scores a final submission may get: nothing ran where nothing compiled, and
\* the provider is not asked.
CodeScores(status, passed) ==
    IF status = "compile_error" THEN {0}
    ELSE {OverallCodeScore(Correctness(status, passed), quality) : quality \in Qualities}
=============================================================================
