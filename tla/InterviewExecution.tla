-------------------------- MODULE InterviewExecution --------------------------
(***************************************************************************)
(* One interview session as InterviewExecutionService runs it              *)
(* (backend/app/services/interview/execution_service.py): concurrent       *)
(* requests that start it, submit answers and abandon it, and the          *)
(* background jobs that advance it past a coding round.                    *)
(*                                                                         *)
(* A request reads rows into the identity map of its ORM session and works *)
(* on those copies (its view) from then on: sessions are built with        *)
(* expire_on_commit=False and autoflush=False (app/db/session.py) and no   *)
(* query asks for populate_existing, so selecting a row again, even FOR    *)
(* UPDATE, waits for the lock but keeps the values first read.  A flush    *)
(* writes only the columns whose value differs from the one read.          *)
(***************************************************************************)
EXTENDS InterviewPolicy, FiniteSets, Sequences

CONSTANTS
    Requests,            \* request handlers and jobs that may run at once
    RoundPlan,           \* the plan: round types, by sequence number
    StartingDifficulty,  \* interview_sessions.starting_difficulty
    CatalogDifficulties, \* difficulties with an active coding problem
    AnswersOnCoding,     \* the client may POST /answers for a coding question
    AbandonMidTurn,      \* the client may POST /abandon while a turn is in flight
    ProcessCrashes,      \* the process may die
    None

ASSUME PlanAssumption == RoundPlan \in Seq(RoundTypes)

ASSUME DifficultyAssumption ==
    /\ StartingDifficulty \in Difficulties
    /\ CatalogDifficulties \subseteq Difficulties

ASSUME NoneAssumption == None \notin Requests

VARIABLES
    interview,    \* the committed interview_sessions row
    roundStatus,  \* status of each interview_rounds row
    questions,    \* committed questions, in the order they were asked
    answers,      \* questions that have an answers row
    evaluated,    \* questions whose answer has an answer_evaluations row
    graded,       \* coding questions whose final submission reached a verdict
    jobs,         \* those whose job has not yet turned to the interview
    turns,        \* history: the questions whose turn was committed, in order
    lock,         \* holder of the interview's row lock, or None
    req           \* the requests and jobs in flight

rows == <<interview, roundStatus, questions, evaluated, turns>>
vars == <<interview, roundStatus, questions, answers, evaluated, graded, jobs,
          turns, lock, req>>

Rounds == DOMAIN RoundPlan
SessionStatus == {"not_started", "in_progress", "completed", "abandoned"}

\* SKIPPED is for rounds before the plan's first one, and there are none.
RoundStatus == {"pending", "active", "completed"}

InterviewRow == [status : SessionStatus, round : Rounds \union {0}, question : Nat,
                 difficulty : Difficulties]
Question == [round : Rounds, parent : Nat]
View == [interview : InterviewRow, rounds : [Rounds -> RoundStatus]]

\* Where a request stands.  "inserting", "evaluating" and "completing" hold
\* the row lock; "persisted" and "read" wait for it.
Stages == {"idle", "inserting", "persisted", "evaluating", "read", "completing"}
Locked == {"inserting", "evaluating", "completing"}
Request == [stage : Stages, question : Nat, view : View]

PlannedRow == [status |-> "not_started", round |-> 0, question |-> 0,
               difficulty |-> StartingDifficulty]
PlannedRounds == [i \in Rounds |-> "pending"]
Idle == [stage |-> "idle", question |-> 0,
         view |-> [interview |-> PlannedRow, rounds |-> PlannedRounds]]

Init ==
    /\ interview = PlannedRow
    /\ roundStatus = PlannedRounds
    /\ questions = <<>>
    /\ answers = {}
    /\ evaluated = {}
    /\ graded = {}
    /\ jobs = {}
    /\ turns = <<>>
    /\ lock = None
    /\ req = [r \in Requests |-> Idle]

-----------------------------------------------------------------------------
(* Reading and writing rows.                                               *)

CurrentRows == [interview |-> interview, rounds |-> roundStatus]

\* What the flush leaves of a row: a column is written if its new value
\* differs from the one the request had read.
Flushed(stored, seen, new) ==
    [c \in DOMAIN stored |-> IF new[c] # seen[c] THEN new[c] ELSE stored[c]]

\* The view a request works on after selecting the row again under the lock.
Reselected(view) == view

IsCoding(q) == RoundPlan[questions[q].round] = CODING

-----------------------------------------------------------------------------
(* The follow-up chains.                                                   *)

\* The question at the top of each question's chain of parents.
RootOf ==
    LET root[q \in DOMAIN questions] ==
          IF questions[q].parent = 0 THEN q ELSE root[questions[q].parent]
    IN  root

RoundQuestions(i) == {q \in DOMAIN questions : questions[q].round = i}

RootQuestions(i) == {q \in RoundQuestions(i) : questions[q].parent = 0}

\* The follow-ups that question q's root has had.
FollowUps(q) ==
    {p \in RoundQuestions(questions[q].round) :
        p # RootOf[q] /\ RootOf[p] = RootOf[q]}

-----------------------------------------------------------------------------
(* Committing a turn.                                                      *)

\* The round a turn that ends in action leaves the interview in.
NextRound(here, action) == IF action = "NEXT_ROUND" THEN here + 1 ELSE here

\* Mutant: completing the interview leaves the last question pending.
RowKeepingQuestion(seen, action, difficulty, new) ==
    IF action = "COMPLETE"
    THEN [seen EXCEPT !.status = "completed", !.difficulty = difficulty]
    ELSE [seen EXCEPT !.round = NextRound(seen.round, action), !.question = new,
                      !.difficulty = difficulty]

\* The interview row after a turn, from the row the turn saw: completed, or on
\* to the new question.
RowAfter(seen, action, difficulty, new) ==
    IF action = "COMPLETE"
    THEN [seen EXCEPT !.status = "completed", !.question = 0,
                      !.difficulty = difficulty]
    ELSE [seen EXCEPT !.round = NextRound(seen.round, action), !.question = new,
                      !.difficulty = difficulty]

\* Mutant: a round is closed only when another one opens.
RoundsLeavingLastOpen(seen, here, action) ==
    [i \in Rounds |->
       CASE i = here /\ action = "NEXT_ROUND" -> "completed"
         [] i = NextRound(here, action) /\ i # here -> "active"
         [] OTHER -> seen[i]]

\* The rounds after a turn: the one that is over closed, the next one opened.
RoundsAfter(seen, here, action) ==
    [i \in Rounds |->
       CASE i = here /\ action \in {"NEXT_ROUND", "COMPLETE"} -> "completed"
         [] i = NextRound(here, action) /\ i # here -> "active"
         [] OTHER -> seen[i]]

\* The tail every turn ends in, one commit: the interview, its rounds, and the
\* next question unless the interview is complete.
ApplyTransition(r, action, parent, difficulty) ==
    LET seen == req[r].view
        here == seen.interview.round
    IN  /\ interview' = Flushed(interview, seen.interview,
                          RowAfter(seen.interview, action, difficulty, Len(questions) + 1))
        /\ roundStatus' = Flushed(roundStatus, seen.rounds,
                            RoundsAfter(seen.rounds, here, action))
        /\ questions' = IF action = "COMPLETE" THEN questions
                        ELSE Append(questions, [round |-> NextRound(here, action),
                                                parent |-> parent])
        /\ turns' = Append(turns, req[r].question)

\* select_coding_problem: a problem that was asked before, or for another role,
\* is still taken, but one of another difficulty never is.
ProblemFor(difficulty) == difficulty \in CatalogDifficulties

\* The next question can be produced and stored: a coding question only by the
\* selector, on entering a coding round.
Storable(action, here, difficulty) ==
    CASE action = "NEXT_ROUND" ->
           RoundPlan[here + 1] = CODING => ProblemFor(difficulty)
      [] action = "COMPLETE" -> TRUE
      [] OTHER -> RoundPlan[here] # CODING

Finish(r) == req' = [req EXCEPT ![r] = Idle]

\* Mutant: the end of a transaction keeps the row lock.
KeepLock(r) == UNCHANGED lock

Release(r) == lock' = IF lock = r THEN None ELSE lock

-----------------------------------------------------------------------------
(* POST /start                                                             *)

\* One transaction under the row lock.  Selecting the first question, by the
\* provider or from the catalog, comes before the first write.
Start(r) ==
    /\ req[r].stage = "idle"
    /\ lock = None
    /\ interview.status = "not_started"
    /\ RoundPlan # <<>>
    /\ RoundPlan[1] = CODING => ProblemFor(interview.difficulty)
    /\ roundStatus' = [roundStatus EXCEPT ![1] = "active"]
    /\ questions' = <<[round |-> 1, parent |-> 0]>>
    /\ interview' = [interview EXCEPT !.status = "in_progress", !.round = 1,
                                      !.question = 1]
    /\ UNCHANGED <<answers, evaluated, graded, jobs, turns, lock, req>>

-----------------------------------------------------------------------------
(* POST /answers                                                           *)

\* Mutant: the status of the interview is not checked.
AcceptedInAnyStatus(q) == q \notin evaluated /\ interview.question = q

\* Mutant: an answer without an evaluation is not taken up again.
AcceptedOnce(q) ==
    /\ q \notin answers
    /\ interview.status = "in_progress"
    /\ interview.question = q

\* Phase 0 lets a submission through.  An evaluated question is replayed and a
\* question that is not the pending one refused: neither changes anything.
Accepted(q) ==
    /\ q \notin evaluated
    /\ interview.status = "in_progress"
    /\ interview.question = q

\* Phase 0: take the lock, read, check.  An answer that was left without an
\* evaluation is taken up where it was, in the same transaction.
SubmitAnswer(r, q) ==
    /\ req[r].stage = "idle"
    /\ lock = None
    /\ AnswersOnCoding \/ ~IsCoding(q)
    /\ Accepted(q)
    /\ lock' = r
    /\ req' = [req EXCEPT ![r] =
                 [stage |-> IF q \in answers THEN "evaluating" ELSE "inserting",
                  question |-> q, view |-> CurrentRows]]
    /\ UNCHANGED <<rows, answers, graded, jobs>>

\* Phase 1: the answer is committed before the graph runs, which releases the
\* lock.  A row that another writer inserted meanwhile is a conflict (409).
PersistAnswer(r) ==
    /\ req[r].stage = "inserting"
    /\ answers' = answers \union {req[r].question}
    /\ lock' = None
    /\ req' = [req EXCEPT ![r] = IF req[r].question \in answers THEN Idle
                                 ELSE [req[r] EXCEPT !.stage = "persisted"]]
    /\ UNCHANGED <<rows, graded, jobs>>

\* Phase 2 begins: the lock again, and the checks on what the request sees.
Relock(r) ==
    LET seen == Reselected(req[r].view)
    IN  /\ req[r].stage = "persisted"
        /\ lock = None
        /\ IF /\ seen.interview.status = "in_progress"
              /\ seen.interview.question = req[r].question
           THEN /\ lock' = r
                /\ req' = [req EXCEPT ![r].stage = "evaluating", ![r].view = seen]
           ELSE Finish(r) /\ UNCHANGED lock
        /\ UNCHANGED <<rows, answers, graded, jobs>>

\* Mutant: answer_evaluations.answer_id is not unique.
InsertableAnyway(q) == TRUE

\* The evaluation row can be inserted: answer_evaluations.answer_id is unique.
EvaluationInsertable(q) == q \notin evaluated

\* Phase 2 succeeds: evaluate, adapt the difficulty, decide, commit.  The round
\* is the one the request saw; its questions are read afresh.
EvaluateTurn(r) ==
    LET q == req[r].question
        seen == req[r].view.interview
    IN  /\ req[r].stage = "evaluating"
        /\ EvaluationInsertable(q)
        /\ \E worthy \in BOOLEAN, signal \in Signals :
             LET difficulty == ApplyDifficultySignal(seen.difficulty, signal)
                 action == DecideNextAction(RoundPlan[seen.round], seen.round,
                             Len(RoundPlan), Cardinality(RootQuestions(seen.round)),
                             Cardinality(FollowUps(q)), worthy)
             IN  /\ Storable(action, seen.round, difficulty)
                 /\ ApplyTransition(r, action,
                      IF action = "FOLLOW_UP" THEN q ELSE 0, difficulty)
        /\ evaluated' = evaluated \union {q}
        /\ Release(r)
        /\ Finish(r)
        /\ UNCHANGED <<answers, graded, jobs>>

-----------------------------------------------------------------------------
(* The coding round.                                                       *)

\* CodingRoundService.create_submission inserts the answers row of a coding
\* question with its first submission, without the interview's lock.
FirstSubmission(q) ==
    /\ IsCoding(q)
    /\ q \notin answers
    /\ answers' = answers \union {q}
    /\ UNCHANGED <<rows, graded, jobs, lock, req>>

\* Mutant: submitting again after the verdict grades and enqueues again.
GradableAgain(q) == q \in answers

\* There is one final submission per answer (ux_code_submissions_final), and it
\* reaches its verdict once.
Gradable(q) == q \in answers \ graded

\* A final submission reached a verdict; its job goes on to the interview.
GradeFinal(q) ==
    /\ IsCoding(q)
    /\ Gradable(q)
    /\ graded' = graded \union {q}
    /\ jobs' = jobs \union {q}
    /\ UNCHANGED <<rows, answers, lock, req>>

\* The job turns to the interview: it reads the round and the session by
\* primary key, before complete_coding_round asks for the lock.
JobRead(r, q) ==
    /\ req[r].stage = "idle"
    /\ q \in jobs
    /\ jobs' = jobs \ {q}
    /\ req' = [req EXCEPT ![r] = [stage |-> "read", question |-> q,
                                  view |-> CurrentRows]]
    /\ UNCHANGED <<rows, answers, graded, lock>>

\* Mutant: the job does not check the status of the interview.
AdvanceableInAnyStatus(q, seen) ==
    /\ seen.rounds[questions[q].round] # "completed"
    /\ seen.interview.question = q

\* The job may advance the interview past coding question q.  A completed round
\* is a replay; the other refusals end in the job's error log.
Advanceable(q, seen) ==
    /\ seen.rounds[questions[q].round] # "completed"
    /\ seen.interview.status = "in_progress"
    /\ seen.interview.question = q

\* complete_coding_round takes the lock and checks what it sees.
JobLock(r) ==
    LET seen == Reselected(req[r].view)
    IN  /\ req[r].stage = "read"
        /\ lock = None
        /\ IF Advanceable(req[r].question, seen)
           THEN /\ lock' = r
                /\ req' = [req EXCEPT ![r].stage = "completing", ![r].view = seen]
           ELSE Finish(r) /\ UNCHANGED lock
        /\ UNCHANGED <<rows, answers, graded, jobs>>

\* ... and advances the interview, with the CODING_ROUND_COMPLETE trigger.
CompleteCodingRound(r) ==
    LET seen == req[r].view.interview
        action == RoundTransition(seen.round, Len(RoundPlan))
    IN  /\ req[r].stage = "completing"
        /\ Storable(action, seen.round, seen.difficulty)
        /\ ApplyTransition(r, action, 0, seen.difficulty)
        /\ Release(r)
        /\ Finish(r)
        /\ UNCHANGED <<answers, evaluated, graded, jobs>>

-----------------------------------------------------------------------------
(* Failures, and POST /abandon                                             *)

\* A transaction that reached the graph is rolled back: the provider failed or
\* timed out (503), the next question cannot be stored (422), the catalog has
\* no problem, or the evaluation exists already (IntegrityError).  A job's
\* failure is caught and logged, and nothing runs it again.
FailTurn(r) ==
    /\ req[r].stage \in {"evaluating", "completing"}
    /\ Release(r)
    /\ Finish(r)
    /\ UNCHANGED <<rows, answers, graded, jobs>>

\* The process dies.  Open transactions are rolled back; the requests, and the
\* background tasks that lived in the process, are gone.
Crash ==
    /\ ProcessCrashes
    /\ lock' = None
    /\ jobs' = {}
    /\ req' = [r \in Requests |-> Idle]
    /\ UNCHANGED <<rows, answers, graded>>

InFlight == {r \in Requests : req[r].stage # "idle"}

\* The pending question stays in the row.
Abandon(r) ==
    /\ req[r].stage = "idle"
    /\ lock = None
    /\ AbandonMidTurn \/ (InFlight = {} /\ jobs = {})
    /\ interview.status \in {"not_started", "in_progress"}
    /\ interview' = [interview EXCEPT !.status = "abandoned"]
    /\ UNCHANGED <<roundStatus, questions, answers, evaluated, graded, jobs,
                   turns, lock, req>>

-----------------------------------------------------------------------------
Next ==
    \/ \E r \in Requests :
         \/ Start(r)
         \/ \E q \in DOMAIN questions : SubmitAnswer(r, q)
         \/ PersistAnswer(r)
         \/ Relock(r)
         \/ EvaluateTurn(r)
         \/ \E q \in jobs : JobRead(r, q)
         \/ JobLock(r)
         \/ CompleteCodingRound(r)
         \/ FailTurn(r)
         \/ Abandon(r)
    \/ \E q \in DOMAIN questions : FirstSubmission(q) \/ GradeFinal(q)
    \/ Crash

Spec == Init /\ [][Next]_vars

\* A candidate who stays keeps submitting the pending question; the waiters on
\* a row lock are served in turn; a request holding the lock ends, one way or
\* the other, because the provider call has a timeout; and neither the provider
\* nor the process fails every time.
Fairness ==
    /\ SF_vars(\E r \in Requests, q \in DOMAIN questions : SubmitAnswer(r, q))
    /\ SF_vars(\E r \in Requests : PersistAnswer(r))
    /\ SF_vars(\E r \in Requests : EvaluateTurn(r))
    /\ \A r \in Requests :
         /\ SF_vars(Relock(r))
         /\ WF_vars(EvaluateTurn(r) \/ FailTurn(r))

\* A job that survives gets to read the interview and is served the lock, and
\* what it does with the lock ends.
JobFairness ==
    /\ SF_vars(\E r \in Requests, q \in jobs : JobRead(r, q))
    /\ \A r \in Requests :
         /\ SF_vars(JobLock(r))
         /\ WF_vars(CompleteCodingRound(r) \/ FailTurn(r))

FairSpec == Spec /\ Fairness
JobFairSpec == FairSpec /\ JobFairness

-----------------------------------------------------------------------------
(* Properties.                                                             *)

\* Every variable has its type, and the lock's holder is the one request that
\* stands inside a transaction (get_owned_for_update, repositories/interview.py).
TypeOK ==
    /\ interview \in InterviewRow
    /\ roundStatus \in [Rounds -> RoundStatus]
    /\ questions \in Seq(Question)
    /\ answers \subseteq Nat
    /\ evaluated \subseteq Nat
    /\ graded \subseteq Nat
    /\ jobs \subseteq graded
    /\ turns \in Seq(Nat)
    /\ lock \in Requests \union {None}
    /\ req \in [Requests -> Request]
    /\ \A r \in Requests : req[r].stage \in Locked <=> lock = r

\* The turns of an interview are committed one for each question, in the order
\* the questions were asked, whatever requests and jobs race: no turn is
\* processed twice, skipped or overtaken (submit_answer, complete_coding_round).
TurnsInOrder == \A i \in DOMAIN turns : turns[i] = i

\* While the interview runs exactly one question is pending, it is the last one
\* asked, and everything before it is done; when it has completed nothing is
\* pending (current_question_id, models/interview.py).
OneQuestionPending ==
    /\ interview.status = "in_progress" =>
         /\ interview.question = Len(questions)
         /\ Len(questions) = Len(turns) + 1
    /\ interview.status = "completed" =>
         /\ interview.question = 0
         /\ Len(questions) = Len(turns)

\* Rounds are completed in plan order without a gap: all those before the
\* current one are over and none after it has begun
\* (_apply_round_transition_result).
RoundsInOrder ==
    \A i \in Rounds :
       /\ i < interview.round => roundStatus[i] = "completed"
       /\ i > interview.round => roundStatus[i] = "pending"
       /\ i = interview.round =>
            roundStatus[i] = IF interview.status = "completed" THEN "completed"
                                                              ELSE "active"

\* No round asks more root questions than its policy and no root draws more
\* follow-ups than the cap, over every chain of follow-ups to follow-ups
\* (decide_next_action, _count_follow_ups_for_root).
QuestionBudget ==
    \A i \in Rounds :
       /\ Cardinality(RootQuestions(i)) <= DefaultQuestionsPerRound[RoundPlan[i]]
       /\ \A q \in RootQuestions(i) :
            Cardinality(FollowUps(q)) <= MaxFollowUpsPerQuestion

\* A completed interview was held in full: every round asked all its root
\* questions, every text answer was evaluated and every coding question has a
\* graded final submission.
CompletedIsWhole ==
    interview.status = "completed" =>
       /\ \A i \in Rounds :
            Cardinality(RootQuestions(i)) = DefaultQuestionsPerRound[RoundPlan[i]]
       /\ \A q \in DOMAIN questions :
            q \in (IF IsCoding(q) THEN graded ELSE evaluated)

\* A text answer is never accepted once the interview has been abandoned or has
\* completed, whatever was in flight then (submit_answer, phase 0 and phase 1).
ClosedToAnswers ==
    [][interview.status \in {"abandoned", "completed"} =>
          \A q \in answers' \ answers : IsCoding(q)]_vars

\* After an interview is abandoned at most one more turn lands, the one that
\* was in flight (submit_answer and the coding job, on their stale views).
AtMostOneLateTurn ==
    \A n \in 0..12 :
       [](interview.status = "abandoned" /\ Len(turns) = n => [](Len(turns) <= n + 1))

\* The turn of a text question is committed at most once: the unique evaluation
\* row stops a second one however stale the view behind it is.
TextTurnOnce ==
    \A i, j \in DOMAIN turns :
       i # j /\ turns[i] = turns[j] => IsCoding(turns[i])

\* A started interview ends: the candidate's persistence and a provider that
\* recovers carry it through every duplicate, failure and crash on the way.
InterviewEnds ==
    interview.status = "in_progress" ~> interview.status \in {"completed", "abandoned"}

\* What the execution promises its callers: one turn after another.
Protocol == INSTANCE TurnProtocol WITH
    Size <- Len(RoundPlan), phase <- interview.status, round <- interview.round,
    asked <- Len(questions), done <- Len(turns)

\* The concurrent, two-phase execution implements the sequential protocol of
\* turns in which an abandoned interview stays abandoned.
ImplementsProtocol == Protocol!Spec

\* What the execution takes from the coding side is one verdict for each
\* question, which one job hands over once: what CodingSubmission implements.
Verdict(q) == INSTANCE CodingVerdict WITH
    answered <- q \in answers, graded <- q \in graded, job <- q \in jobs

TakesVerdicts ==
    /\ \A q \in DOMAIN questions : Verdict(q)!Init
    /\ [][\A q \in DOMAIN questions' : [Verdict(q)!Next]_(Verdict(q)!vars)]_vars

\* Docs: an abandoned interview is over (backend/README.md, Interview lifecycle).
AbandonedIsFinal == [][interview.status = "abandoned" => interview'.status = "abandoned"]_vars

\* Docs: a final submission that reached a verdict advances the interview
\* (app/jobs/coding_execution.py).
VerdictAdvances ==
    \A q \in 1..3 :
       q \in graded ~> (interview.status # "in_progress" \/ interview.question # q)

\* Docs: once a coding round is completed, completing it again replays the
\* state and does not run the graph a second time (complete_coding_round).
CodingTurnOnce ==
    \A i, j \in DOMAIN turns : turns[i] = turns[j] => i = j
=============================================================================
