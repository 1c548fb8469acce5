--------------------------- MODULE CodingSubmission ---------------------------
(***************************************************************************)
(* The attempts at one coding question: requests that create them          *)
(* (CodingRoundService.create_submission), the background jobs that run    *)
(* and grade them (execute_and_grade_submission, called by                 *)
(* run_code_submission_job), and the unique slot of the final attempt.     *)
(* A request's reads are not locked: the unique constraints on its insert  *)
(* are all that orders two requests.                                       *)
(***************************************************************************)
EXTENDS CodeGrading

CONSTANTS
    Requests,       \* requests that may be creating a submission at once
    MaxAttempts,    \* bound on the attempts
    ProcessCrashes  \* the process may die

ASSUME AttemptsAssumption == MaxAttempts \in Nat

VARIABLES
    answered,  \* the question has an answers row
    rows,      \* committed code_submissions rows, by attempt_no
    jobs,      \* attempts whose job is waiting or running
    lost,      \* history: ungraded attempts whose job died or failed
    req        \* the requests that are creating a submission

vars == <<answered, rows, jobs, lost, req>>

Statuses == {"queued", "running", "error"} \union Verdicts

\* A row with its test results: the tests it was run on and those it passed, and
\* the score of its evaluation row, once there is one.
Submission == [final : BOOLEAN, status : Statuses, tests : SUBSET Tests,
               passed : SUBSET Tests, evaluated : BOOLEAN, score : Points]

Stages == {"idle", "checked", "numbered"}
Request == [stage : Stages, final : BOOLEAN, fresh : BOOLEAN, number : Nat]
Idle == [stage |-> "idle", final |-> FALSE, fresh |-> FALSE, number |-> 0]

Init ==
    /\ answered = FALSE
    /\ rows = [a \in {} |-> {}]
    /\ jobs = {}
    /\ lost = {}
    /\ req = [r \in Requests |-> Idle]

Attempts == DOMAIN rows
Finals == {a \in Attempts : rows[a].final}
Evaluated == {a \in Attempts : rows[a].evaluated}

-----------------------------------------------------------------------------
(* create_submission                                                       *)

\* Read the answers row, or make one, and, for a final submission, look for
\* another.  One that is found is replayed, or refused while it is graded.
Check(r, final) ==
    /\ req[r].stage = "idle"
    /\ Cardinality(Attempts) < MaxAttempts
    /\ final => Finals = {}
    /\ req' = [req EXCEPT ![r] = [stage |-> "checked", final |-> final,
                                  fresh |-> ~answered, number |-> 0]]
    /\ UNCHANGED <<answered, rows, jobs, lost>>

\* Mutant: attempts are numbered from zero.
NextAttemptFromZero(fresh) == Cardinality(Attempts)

\* next_attempt_no, over the attempts at the answer the request has found or,
\* if it makes one, over none.
NextAttempt(fresh) ==
    IF fresh \/ Attempts = {} THEN 1
    ELSE 1 + CHOOSE a \in Attempts : \A b \in Attempts : b <= a

Number(r) ==
    /\ req[r].stage = "checked"
    /\ req' = [req EXCEPT ![r].stage = "numbered",
                          ![r].number = NextAttempt(req[r].fresh)]
    /\ UNCHANGED <<answered, rows, jobs, lost>>

\* Mutant: no unique constraint on (answer_id, attempt_no).
NumberTakenOver(a) == TRUE

\* The unique constraint on (answer_id, attempt_no) ...
NumberFree(a) == a \notin Attempts

\* Mutant: no partial unique index on the final submission.
SecondFinal(final) == TRUE

\* ... and the partial unique index ux_code_submissions_final.
FinalFree(final) == final => Finals = {}

\* One answers row for a question: a second insert is not handled and ends the
\* request with an error.
AnswerFree(fresh) == ~(fresh /\ answered)

Queued(final) == [final |-> final, status |-> "queued", tests |-> {}, passed |-> {},
                  evaluated |-> FALSE, score |-> 0]

\* Insert and commit, then enqueue the job.  A violated constraint rolls
\* everything back: a conflict, or a replay of the final submission that won.
Insert(r) ==
    LET new == req[r]
    IN  /\ new.stage = "numbered"
        /\ IF /\ AnswerFree(new.fresh)
              /\ NumberFree(new.number)
              /\ FinalFree(new.final)
           THEN /\ answered' = TRUE
                /\ rows' = [a \in Attempts \union {new.number} |->
                              IF a = new.number
                              THEN Queued(new.final)
                              ELSE rows[a]]
                /\ jobs' = jobs \union {new.number}
           ELSE UNCHANGED <<answered, rows, jobs>>
        /\ req' = [req EXCEPT ![r] = Idle]
        /\ UNCHANGED lost

\* submit_answer accepts a text answer for a coding question, too, and inserts
\* the answers row that the submissions then use.
TextAnswer ==
    /\ ~answered
    /\ answered' = TRUE
    /\ UNCHANGED <<rows, jobs, lost, req>>

-----------------------------------------------------------------------------
(* execute_and_grade_submission                                            *)

\* Mutant: a failure of the infrastructure keeps the final slot.
Kept(row) == row

\* _release_final_slot_on_infra_failure
Released(row) == [row EXCEPT !.final = FALSE]

EndJob(a) == jobs' = jobs \ {a}

\* Without test cases to run, an error of ours; otherwise the attempt is running.
Begin(a) ==
    /\ a \in jobs
    /\ rows[a].status = "queued"
    /\ IF TestsFor(rows[a].final) = {}
       THEN /\ rows' = [rows EXCEPT ![a] = Released([@ EXCEPT !.status = "error"])]
            /\ EndJob(a)
       ELSE /\ rows' = [rows EXCEPT ![a].status = "running"]
            /\ UNCHANGED jobs
    /\ UNCHANGED <<answered, lost, req>>

\* The row with the outcome of its execution: a Run's on the samples only.
Executed(row, program) ==
    LET tests == TestsFor(row.final)
        result == ResultOf(program, tests)
    IN  [row EXCEPT !.status = result.status, !.tests = tests, !.passed = result.passed]

\* The sandbox gives an outcome, which is committed and ends the job of a Run,
\* or fails or times out.
Execute(a) ==
    /\ a \in jobs
    /\ rows[a].status = "running"
    /\ \/ /\ \E program \in Programs : rows' = [rows EXCEPT ![a] = Executed(@, program)]
          /\ IF rows[a].final THEN UNCHANGED jobs ELSE EndJob(a)
       \/ /\ rows' = [rows EXCEPT ![a] = Released([@ EXCEPT !.status = "error"])]
          /\ EndJob(a)
    /\ UNCHANGED <<answered, lost, req>>

Graded(row, score) == [row EXCEPT !.evaluated = TRUE, !.score = score]

\* The final submission's evaluation row, and graded_at: of the provider, or of
\* zeros when nothing compiled.
Evaluate(a) ==
    /\ a \in jobs \ Evaluated
    /\ rows[a].status \in Verdicts
    /\ \E score \in CodeScores(rows[a].status, rows[a].passed) :
          rows' = [rows EXCEPT ![a] = Graded(@, score)]
    /\ UNCHANGED <<answered, jobs, lost, req>>

\* The evaluation provider fails: the outcome stays, the slot is released.
EvaluationFails(a) ==
    /\ a \in jobs \ Evaluated
    /\ rows[a].status \in Verdicts \ {"compile_error"}
    /\ rows' = [rows EXCEPT ![a] = Released(@)]
    /\ EndJob(a)
    /\ UNCHANGED <<answered, lost, req>>

\* The job turns to the interview (InterviewExecution goes on from here).
Advance(a) ==
    /\ a \in jobs \intersect Evaluated
    /\ EndJob(a)
    /\ UNCHANGED <<answered, rows, lost, req>>

\* A call of the database fails, or the worker's answer has not the shape that is
\* read: nothing catches it, the job ends and the attempt stays as it was committed.
JobFails(a) ==
    /\ a \in jobs \ Evaluated
    /\ EndJob(a)
    /\ lost' = lost \union {a}
    /\ UNCHANGED <<answered, rows, req>>

\* The process dies with its background tasks and open transactions.
Crash ==
    /\ ProcessCrashes
    /\ lost' = lost \union (jobs \ Evaluated)
    /\ jobs' = {}
    /\ req' = [r \in Requests |-> Idle]
    /\ UNCHANGED <<answered, rows>>

-----------------------------------------------------------------------------
Job(a) == Begin(a) \/ Execute(a) \/ Evaluate(a) \/ EvaluationFails(a) \/ Advance(a)

Next ==
    \/ \E r \in Requests :
         \/ \E final \in BOOLEAN : Check(r, final)
         \/ Number(r)
         \/ Insert(r)
    \/ TextAnswer
    \/ \E a \in jobs : Job(a) \/ JobFails(a)
    \/ Crash

Spec == Init /\ [][Next]_vars

\* A job runs: the sandbox and the provider answer or time out.
Fairness == \A a \in 1 .. MaxAttempts : WF_vars(a \in jobs /\ Job(a))

FairSpec == Spec /\ Fairness

-----------------------------------------------------------------------------
(* Properties.                                                             *)

\* Every variable has its type, each job is about an attempt that exists, and
\* only an attempt with a verdict has an evaluation.
TypeOK ==
    /\ answered \in BOOLEAN
    /\ Attempts \subseteq Nat \ {0}
    /\ rows \in [Attempts -> Submission]
    /\ jobs \subseteq Attempts
    /\ lost \subseteq Attempts
    /\ req \in [Requests -> Request]

\* A question is evaluated once: however many final submissions race and
\* however many failed and gave up their slot, one attempt has an evaluation, and
\* it is the one that holds the slot (ux_code_submissions_final) and was run on
\* all the tests, not only on a Run's samples.
OneEvaluation ==
    \A a \in Evaluated :
        /\ Finals = {a}
        /\ rows[a].status \in Verdicts
        /\ rows[a].tests = Tests
        /\ rows[a].status = "success" => rows[a].passed = Tests

\* An attempt is kept: none is overwritten by another, its status only moves
\* on, its test results stay once it has a verdict, and once it is evaluated nothing
\* about it changes (create_submission's "a Run never overwrites a prior attempt",
\* execute_and_grade_submission).
AttemptsKept ==
    [][\A a \in Attempts :
          /\ a \in Attempts'
          /\ rows'[a].status # rows[a].status =>
               \/ rows[a].status = "queued"
               \/ rows[a].status = "running" /\ rows'[a].status # "queued"
          /\ rows[a].final \/ ~rows'[a].final
          /\ rows[a].status \in Verdicts => rows'[a].passed = rows[a].passed
          /\ rows[a].evaluated => rows'[a] = rows[a]]_vars

\* The slot of the final submission is never stuck: its holder is graded or
\* gives it up, unless its job died with the process or of a failure that nothing
\* catches (_release_final_slot_on_infra_failure).
SlotSettles ==
    \A a \in 1 .. MaxAttempts :
       a \in Finals ~> (a \notin Finals \/ a \in Evaluated \/ a \in lost)

\* Attempts, slot and jobs implement the one verdict that the interview takes.
Verdict == INSTANCE CodingVerdict WITH
    graded <- Evaluated # {}, job <- jobs \intersect Evaluated # {}

ImplementsVerdict == Verdict!Spec

\* Docs: a failure of the infrastructure does not permanently lock a candidate
\* out of submitting again for a question that was never graded
\* (docs/Architecture.md, decision 17).
NeverLockedOut ==
    \A a \in 1 .. MaxAttempts : a \in Finals ~> (a \notin Finals \/ a \in Evaluated)
=============================================================================
