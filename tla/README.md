# InterviewIQ: a verification development

TLA+ modules of the InterviewIQ backend and of its web client, the TLC
configurations that check them on small instances, and theorems about them that
TLAPS proves. Every definition is translated from the Python and TypeScript
sources; `PROJECT.json` maps each one to its lines.

## 1. The system

A candidate plans an interview from a catalog template, starts it, answers its
questions one after the other, solves coding problems in a sandbox, and gets a
report that feeds progress figures. PostgreSQL is the only shared state; requests
and background tasks run concurrently in an asyncio process, and background
tasks live in that process only.

| Part | State it keeps | Operations | Talks to |
|---|---|---|---|
| Interview execution (`services/interview/execution_service.py`) | `interview_sessions` (status, round, pending question, difficulty), `interview_rounds`, `questions`, `answers`, `answer_evaluations` | start, submit an answer in two phases, complete a coding round, abandon | the graph, the catalog, the coding job, the report job |
| Graph and policy (`agents/`) | none: the state is rebuilt from the rows for each turn | evaluate, adapt difficulty, decide, transition, generate or select | the language-model provider |
| Coding submissions (`services/coding/`, `jobs/coding_execution.py`) | `code_submissions` with one final per answer, test results, `coding_evaluations` | create, execute, grade, release the final slot, advance the interview | the sandbox, the evaluation provider, interview execution |
| Background jobs (`jobs/background_tasks_runner.py`) | tasks in the process's memory | enqueue, run after the response | all jobs |
| Report (`services/report/`) | one `interview_reports` row a session, a roadmap | generate once, read, tick a roadmap item | the report provider, progress |
| Progress (`services/progress/`) | snapshot per day, readiness per company, progress per skill | record after each report, retry once | report |
| Authentication (`services/auth_service.py`) | users, refresh, reset and verification tokens | register, log in, rotate, log out, reset, verify | email |
| Resumes (`services/resume/`, `jobs/resume_processing.py`) | `resumes` with one active a user, parsed profile, files, embeddings | upload, process, delete, role readiness | storage, provider, vector store |
| Planning (`services/planning/`) | the plan's row, rounds and snapshot; the catalog | resolve template, mode, resume and difficulty; create; seed the catalog | resumes, interview execution |
| Code execution (`execution/`, `execution_worker/`) | none | run the tests, time out, normalise | Docker |
| Frontend session (`frontend/src/features/auth`, `lib/`) | the access token in memory, the refresh token in localStorage | page load, calls, one shared refresh on 401, forms, log out | authentication |
| Frontend pages and stores (`frontend/src/features`) | one store per feature, the wizard's choices | fetch, poll, request, reset | the API |

What is hard in it:

- *Stale rows.* ORM sessions are built with `expire_on_commit=False`; selecting a
  row again, also `FOR UPDATE`, waits for the lock but returns the object read
  first. Every "check again under the lock" of the code checks the old values.
- *Two-phase turns.* The answer is committed, the lock released, and the turn
  evaluated in a second transaction: duplicates, abandons, crashes and jobs come in
  between.
- *Jobs that are tried once.* A failed or lost job is never run again.
- *Unique constraints as the last backstop*, some of them without a handler.
- *Replays* of what was already done, told apart from new work by rows of other
  tables.
- *Read, then written*: figures, successors of a deleted resume and tokens to revoke
  are read by one statement and used by a later one, with other commits in between.
- *Rows, files and vectors* are three stores without a common transaction.
- *Answers in any order*: every GET of a page is on its own, and the store takes
  what comes last.

Correctness of each part: turns one at a time and in order, rounds in plan order,
bounded questions, completed interviews held in full (execution); one graded final
submission and no stuck slot (coding); one report a session and a way to get it
(report); figures that do not depend on how often or in which order they were
recorded (progress); a refresh token used once, nothing issued before a reset
surviving it (authentication); a tab that never signs itself out and whose calls all
settle (frontend session); one active resume with its file, a readiness that is of one
role, a processing that ends (resumes); plans grounded in what there is and unchanged
afterwards (planning). `PROJECT.json` lists the hazards, each at its line, with the
properties that cover it.

## 2. The modules

| Module | What it is |
|---|---|
| `InterviewPolicy` | Constant operators: round length, follow-up cap, difficulty adaptation, the supervisor's decision, the round transition (`agents/policy.py`, `agents/nodes/supervisor.py`, `round_management.py`). |
| `InterviewExecution` | One interview under concurrent requests and coding jobs. |
| `TurnProtocol` | Abstract specification: an interview is opened once, its turns happen one after another, its rounds in order, an ended interview stays ended. |
| `CodeGrading` | Constant operators: what the worker's processes tell of a test, the precedence of statuses, the weighted correctness and score (`execution_worker/`, `docker_sandbox.py`, `coding_round_service.py`, `agents/policy.py`); extends `ReportScores`. |
| `CodingSubmission` | The attempts at one coding question: racing requests, grading jobs, the final slot; extends `CodeGrading`. |
| `CodingVerdict` | Abstract specification, the contract between the two: a question is answered once, gets one verdict, and a job hands it over once or is lost. `CodingSubmission` implements it (`ImplementsVerdict`) and `InterviewExecution` relies on no more (`TakesVerdicts`). |
| `MCInterview` | The plans that TLC runs. |
| `MCCoding` | A question with two tests and what candidates' code does on them. |
| `InterviewExecutionProofs` | Proofs for every client: types and the lock, text turns once, closed interviews. |
| `InterviewOrderProofs` | Proofs about the order of turns and rounds and the late turn, and that the execution implements `TurnProtocol`; extends `InterviewExecutionProofs`. |
| `InterviewBudgetProofs` | Proofs about how many questions a round and a question draw, and that a completed interview is held in full; extends `InterviewOrderProofs`. |
| `CodingSubmissionProofs` | Proofs about attempts, the final slot, what a graded attempt was run on and the implementation of `CodingVerdict`; extends `ReportScoresProofs`. |
| `ReportScores` | Constant operators: section and overall scores, severities, trends, the report built from them, skills (`agents/policy.py`, `report_service.py`, `progress_service.py`). |
| `ReportProgress` | Report jobs side by side and the progress they record; extends `ReportScores`. |
| `MCReports` | Two interviews of one user, and what the provider may say of them. |
| `ReportScoresProofs` | Lemmas about sums over finite sets, rounded weighted means and what a built report holds, for any evaluations. |
| `ReportProgressProofs` | Proofs about stored reports, recordings and readiness rows, and about the figures of the dashboard; extends `ReportScoresProofs`. |
| `AuthTokens` | The server side of one account: tokens, links, transactions and row locks. |
| `ClientSession` | A tab over `AuthTokens`, beside other devices of the same account; extends it. |
| `MCSession` | What happens around the tab. |
| `ClientSessionProofs` | Proofs about sessions (they do not fork, a reset ends them), passwords, types, and the tab (its refreshes are not refused, and signed in it can refresh). |
| `ResumeReadiness` | Constant operators: canonical skills, score, level, confidence and focus of a readiness (`readiness.py`, `skill_normalization.py`). |
| `ResumeLibrary` | Resumes, files, vectors, requests and the processing job. |
| `InterviewPlanning` | The catalog, its seeding, and planning from it and from the resumes; extends `ResumeLibrary`. |
| `PreparationPages` | A tab's resume pages and planning wizard over both, beside other clients; extends `InterviewPlanning`. |
| `MCPreparation` | Catalog, profiles and worlds for TLC. |
| `PreparationProofs` | Proofs about files, the active resume, readiness rows, plans and types. |

### State and actions of InterviewExecution

`interview` and `roundStatus` are the committed rows; `questions` the committed
questions in order, each with its round and parent (0 for a root question);
`answers` and `evaluated` the questions with an `answers` and an
`answer_evaluations` row; `graded` and `jobs` the coding questions whose final
submission has its verdict, and those whose job has yet to turn to the interview;
`lock` the row lock of `get_owned_for_update`; `req` what each request or job in
flight does and the *view* of the rows it works on; `turns` is a history of committed
turns, which the code does not keep.

| Action | Code |
|---|---|
| `Start` | `start_interview`: one transaction under the lock |
| `SubmitAnswer` | `submit_answer` up to the checks; an answer left without evaluation goes straight to the evaluation in the same transaction |
| `PersistAnswer` | the insert and commit of phase 1, or its 409 |
| `Relock` | the second `get_owned_for_update` and its checks, made on the view (`Reselected`) |
| `EvaluateTurn` | the graph, the evaluation row, the new difficulty, `_apply_round_transition_result`, the commit |
| `FailTurn` | any failure after the lock was taken: rolled back, 503, 422 or logged |
| `FirstSubmission`, `GradeFinal` | `CodingRoundService` as the interview sees it: it creates the answers row, and a final submission gets its verdict once |
| `JobRead`, `JobLock`, `CompleteCodingRound` | `run_code_submission_job`: reads by primary key, then the lock and checks of `complete_coding_round` on these objects, then the turn |
| `Abandon` | `abandon` |
| `Crash` | the process dies: open transactions and background tasks are lost |

Requests that change nothing (replays, refusals, reads) are not steps. `Flushed`
is the unit of work: a flush writes the columns whose value differs from the one
read. Two evaluation outcomes matter, whether a follow-up is worthy and the
difficulty signal, and both are arbitrary. Difficulties are positions in
`_DIFFICULTY_ORDER`. A question is asked with rounds numbered from 1 in plan order,
which is how every template of the catalog numbers them. `SKIPPED` rounds do not
occur, since `_first_executable_round_index` is the least sequence number.

Two constants describe the client. `AnswersOnCoding` lets it post a text answer for
a coding question, which `submit_answer` accepts. `AbandonMidTurn` lets it abandon
while a turn is in flight. `ProcessCrashes` allows `Crash`.

### State and actions of CodingSubmission

`answered` says that the question has its `answers` row; `rows` are the committed
`code_submissions` by `attempt_no`, each with `is_final`, its status, the tests it was
run on and those it passed, whether it has a `coding_evaluations` row and that row's
score; `jobs` the attempts whose background task is waiting or running; `req` what each
request that is creating a submission has read so far; `lost` is a history of the
ungraded attempts whose task died with the process or of a failure nothing catches.

| Action | Code |
|---|---|
| `Check` | `create_submission` up to the look for a final submission; a replay or a 409 changes nothing and is no step |
| `Number` | `next_attempt_no` |
| `Insert` | flush, commit and enqueue, or the rollback when one of three unique constraints is violated (`AnswerFree`, `NumberFree`, `FinalFree`) |
| `TextAnswer` | `submit_answer` inserting the answers row of the coding question |
| `Begin` | `execute_and_grade_submission` up to the commit of `running`, or of the error when there are no test cases |
| `Execute` | the sandbox call on a program and the commit of what `CodeGrading` makes of it, or its failure and the release of the slot |
| `Evaluate`, `EvaluationFails` | the evaluation and score of a final submission, or its failure and the release |
| `JobFails` | a failure of the database, or an answer of the worker without the keys that are read: no handler, the job ends and the row stays as it was committed |
| `Advance` | the job goes on to `complete_coding_round`, where `InterviewExecution` takes over with `JobRead` |
| `Crash` | tasks and requests are gone |

A program is what its processes do: the compiler's exit, and for each test an exit (zero,
nonzero, or killed at the time limit), whether the output was cut off and whether it is the
one expected. `StatusOf` has the precedence of `_determine_status`; `memory_limit` is in
the enumeration, nothing produces it. Weights of tests are hundredths, quotients are
rounded with halves up (Python rounds the binary value, which differs only at a tie).
The worker returns one outcome for each input, so the placeholder that the service has
for a missing one is never used. A compile error is scored with zeros and without the
provider; the provider's scores are taken to be on the 0 to 100 scale that its prompt asks
for, which its schema does not enforce.
A request that makes the answers row flushes it at once and a second one waits for
it; the model lets both go on and decides at the insert, with the same outcomes. The
handler catches the violation of the two constraints on submissions but not that of
`answers.question_id`, which ends the request with a server error: in both cases
nothing is stored.

### State and actions of ReportProgress

`completed` are the sessions whose interview is complete, `reports` the
`interview_reports` row of each with its children, `snapshots`, `readiness` and
`skills` the three progress tables, `jobs` the report jobs that run, each with what it
holds in memory and, once it records, the rows it has loaded (`seen`); `today` the date;
`replays` counts repeated triggers up to `MaxReplays`; `dropped` is a history of the
sessions one of whose jobs failed or died, `overlapped` of the pairs of sessions of a user
one of which was committed while a job of the other held rows. Scores are hundredths of a point, as the `numeric(5,2)` columns
keep them.

| Action | Code |
|---|---|
| `Complete` | the request or coding job that completes the interview triggers the job (`interviews.py`, `coding_execution.py`) |
| `Retrigger` | a replay of that request or job triggers it again |
| `Check` | `generate_report_job` up to the look for a report |
| `ProviderRetries`, `ProviderAnswers`, `ProviderFails` | the provider's call, retried once on a server error |
| `Store` | the insert of report, sections, areas and roadmap in one commit, or the `IntegrityError` and the winner's report |
| `ReadTotals`, `ReadSnapshot`, `ReadReadiness`, `ReadSkill` | `record_session_progress`, one SELECT each: the count and average, then the rows that the upserts look up, with the values loaded |
| `Record` | the commit of snapshot, readiness and skills, an INSERT or a column-wise UPDATE of each (`Upserted`) |
| `RecordConflicts` | the violation of a unique index: roll back, once again from the first read, then given up |
| `DatabaseFails`, `ProcessCrash` | any other failure, and the end of the process |
| `UpdateRoadmapItem` | the owner's tick on a roadmap item |
| `Midnight` | the date changes |

The session of a job does not autoflush, and a row that was loaded is not loaded again. So
`Upserted` gives an UPDATE its columns: those whose new value differs from the loaded one;
the others keep what they have by then, which another job may have committed. A score
is a float and its column a `numeric(5,2)` loaded as a Decimal: they compare equal only
where the float is exact, at quarters of a point (`ExactFloat`), and an average only if it
is exact before it is rounded (`exact`). A score of 66.67 is written even when it is stored
already, a count, a session and a trend are not. The repositories' `add` flushes an INSERT
at once; a conflict there is the same as one at the commit, since nothing that was
written survives either, and two INSERTs that wait for each other are a failure of the
database. `updated_at` is left out.

### State and actions of AuthTokens and ClientSession

`user` is the users row of the account's email; `tokens` the `refresh_tokens` rows in
the order of their commits, each with the sign-in it goes back to, the password of that
sign-in, what ended it, and the token it was exchanged for; `links` the state of each
emailed link and OAuth state; `req` the requests, each a transaction of two steps, what
it read and its commit. `FOR UPDATE` is `TokenFree` and `LinkFree`: a request waits
while another stands between its two steps with that row. `tab` is what the tab holds,
`calls` its calls, `leaving` its logout, and `world` what may happen around it.

| Action | Code |
|---|---|
| `RegisterCheck`, `RegisterCommit` | `register`: the look for the email, the inserts; a loser fails at the flush |
| `LoginCheck`, `LoginCommit` | `login` |
| `GoogleCheck`, `GoogleCommit` | `handle_google_callback`: the state is consumed, the identity linked or created |
| `RefreshCheck`, `RefreshCommit` | `refresh` under the row lock |
| `LogoutToken` | `logout` |
| `SendLink`, `ResetCheck`, `ResetCommit`, `VerifyEmail` | the emailed links |
| `ServerFails`, `TokenExpires`, `LinkExpires` | failures and time |
| `Initialize`, `Restored`, `RestoreFails` | `initialize` of the page load, with a refresh that is not the shared one |
| `StartCall`, `CallSucceeds`, `CallFails`, `CallRejected`, `CallGivesUp` | `apiFetch` and its 401 hook |
| `Refreshed`, `RefreshFails` | `performRefresh`, and everyone who waited for it |
| `Submit`, `SubmitAnswered` | the login and registration forms |
| `Logout`, `LogoutRejected`, `LogoutAnswered` | `logout` of the store: the token is read once, before the call |
| `AccessExpires`, `NetworkError`, `Reload` | time, lost answers, and a new page load in the middle of anything |
| `OtherRequest`, `SendTo` | other devices and whoever opens a link |

`LogoutToken` waits for the token's row lock and checks it in the step that revokes it.
The code reads the row without a lock (`auth_service.py:158`) and its UPDATE waits; in
between, a refresh can rotate the token, and both then write `revoked_at` of a row that is
not live. The token issued by that refresh lives in the model, too.

An access token is `valid` or `expired`: `get_current_user` asks no database whether a
session was ended. A `clean` token (a history) was issued while no reset was under way;
`ResetEndsSessions` is about these. `era`, `next` and `holder` are histories, too.

### State and actions of ResumeLibrary, InterviewPlanning and PreparationPages

`rows` are the `resumes` rows with their children (profile and readiness), in the order
of `created_at`; `files` and `vectors` what the storage and the vector store keep;
`jobs` the stage of each processing job; `req` what each request has read; `plans` the
planned interviews with their rounds and snapshot; `catalog` the companies, roles and
templates of the database, which is not the file they were seeded from. `tab`, `store`,
`fetches` and `wizard` are one tab. `overlapped` is a history of the operations that two
requests have been in at once.

| Action | Code |
|---|---|
| `UploadSave`, `Deactivate`, `UploadCommit` | `upload`: the file, the update of the others, the insert or the partial unique index |
| `DeleteRead`, `DeletePick`, `DeleteCommit`, `DeleteFile`, `DeleteVectors` | `delete_resume`: what it reads, the successor, the commit, the clean-up |
| `ReadinessRead`, `ReadinessCommit` | `generate_role_readiness`: the row loaded, the columns written (`Merged`) |
| `JobStart`, `JobRead`, `JobAsk`, `JobIndex`, `JobEmbed` | `process_resume_job`, one commit each |
| `Crash` | requests and jobs in flight are lost |
| `SeedCatalog` | `seed_catalog` of another release of `catalog.json` |
| `PlanRead`, `PlanDraft`, `PlanCommit` | `create_plan`: the catalog rows, the template's rounds and the resume, the commit and its foreign keys |
| `OpenList`, `OpenDetail`, `OpenWizard`, `Poll`, `Retry` | the pages and their intervals |
| `Answer`, `Arrive`, `FetchFails` | a GET answered by the server, its answer taken by the store, its failure |
| `TabUpload`, `TabDelete`, `TabReadiness`, `TabPlan`, `TabAnswered` | what the tab requests, one thing at a time |
| `SelectCompany`, `SelectRole`, `SelectTemplate`, `Back`, `LoadResumes`, `PlanAnother` | the wizard |

A profile is what planning and readiness read of it: the names of skills, how many
projects and experiences, the hits that confidence counts, and whether its dates can be
built. A release is the content of `catalog.json`. The rounds of a selected template are
fetched only to be displayed and left out. What an interview reads of its plan is
`Context`, and `InterviewExecution` starts from a plan of that kind (its `Plan`).

## 3. The runs

The interview runs have two concurrent requests, enough for a duplicate, an abandon
against a turn, or a job against a turn; a third one adds states (four minutes) and no
new behaviour. Deadlock is not checked: an interview ends, and so do the attempts at a
question, the reports of the given interviews, the tokens up to the bound, and what a
world lets happen.

| Run | Instance | Shows |
|---|---|---|
| `interview_text` | introduction (1 question), behavioral (2); crashes | `TextTurnOnce`, `ImplementsProtocol` (refinement of `TurnProtocol`), `InterviewEnds` |
| `interview_mixed` | introduction, coding, behavioral; abandon at any time; no easy problem in the catalog; crashes | `TypeOK`, `TurnsInOrder`, `OneQuestionPending`, `RoundsInOrder`, `QuestionBudget`, `CompletedIsWhole`, `ClosedToAnswers`, `AtMostOneLateTurn`, `TakesVerdicts` |
| `late_turn` | the text plan, abandon at any time | violates `AbandonedIsFinal` |
| `stuck_verdict` | introduction, coding; no crash, fair jobs | violates `VerdictAdvances` |
| `coding_twice` | the mixed plan, text answers on coding questions | violates `CodingTurnOnce` |
| `coding_attempts` | up to three attempts at a coding question with a sample test and a heavier hidden one, five programs; crashes, fair jobs | `TypeOK`, `OneEvaluation`, `AttemptsKept`, `ImplementsVerdict`, `SlotSettles` |
| `locked_out` | the same | violates `NeverLockedOut` |
| `reports` | two interviews of one user at one company, two jobs, two narratives of the first; one replay, failures, crashes, one midnight | `TypeOK`, `RecordsStored`, `OverallWithinScores`, `SkillsGrounded`, `ReadinessPaired`, `OverviewHonest`, `ReportStands`, `ReportArrives` |
| `mixed_figures` | the same | violates `FiguresOfOneRecording` |
| `session` | a tab with two mishaps; a tab beside a reset; two other devices that register, refresh and reset, or sign in with Google and verify | `TypeOK`, `OneLivePerSession`, `ResetEndsSessions`, `OnePasswordPerLink`, `NoSelfRejection`, `SignedInCanRefresh`, `SessionChecked`, `CallsSettle` |
| `logout_leaves_token` | the tab alone, no mishap | violates `LogoutEndsSession` |
| `preparation` | twelve worlds: operations of other clients against each other, and the tab on each page | `TypeOK`, `OneActive`, `FilesKept`, `ReadinessWhole`, `PlansGrounded`, `PlansStand`, `WatchingEnds` |

Bounds: the plans bound the questions by themselves, since the policy does; each root
question can draw its two follow-ups, so caps are reached and exceeded by the mutants.
`AtMostOneLateTurn` counts up to 12 turns: the plan has at most 9 text turns (three
roots, two follow-ups each) and a coding turn. `MaxAttempts` is 3: two attempts race
for a number or the slot, and a third can follow one that gave the slot up. The programs
do not compile, are right, are wrong on the hidden test, exceed its time after crashing on
the sample, and are right with output that is cut off: every verdict, and the pairs whose
precedence matters.

`reports`: two jobs race for one report, for the rows of one user, or replay against a
first recording; the first interview's score is no binary fraction and the second's is,
one planned round has no evaluations, and two topics are one skill. `MaxReplays` is 1: a
replay of one interview beside the job of the other is what mixes columns, and a second
replay multiplies the states. `MaxDay` is 2, since an overview compares two days. `session`: `MaxTokens` is 3, a sign-in and two rotations or two sign-ins and
one; at the bound the commits stop and what waits for them fails. One request runs
beside the tab's, two where there is no tab. A mishap is a lost answer, a reload, an
expiry or a failure of the server, counted by `world`, so that two of them can fall
together. `preparation`: `MaxResumes` is 3 (two resumes and an upload against their
deletions), `MaxPlans` 1, `MaxFetches` 2 (two answers in either order), and
`Difficulties` the wizard's default, the one that reads a readiness. A product of all
operations is out of reach: each world lets a pair of operations, or a page and
what disturbs it, run against each other, and the pairs are those that share rows. The
tab has one request under way at a time; overlaps come from the other clients.

The refinement is stated for interviews that are not abandoned in mid-turn and for
text answers to text questions only: `late_turn` and `coding_twice` show what
happens beyond, and `AtMostOneLateTurn` what still holds.

Fairness (`Fairness`): the candidate who stays submits again; a row lock's waiters
are served; whoever holds the lock ends, because the provider call has a timeout
and a failure is rolled back; neither the provider nor the process fails every time.
Strong fairness on `SubmitAnswer`, `PersistAnswer` and `EvaluateTurn` says the last:
each is disabled again and again by other requests, failures and crashes.
`JobFairness` says that a job that survives runs; it does not say that it succeeds,
since nothing runs a failed job again. In `CodingSubmission` each job is weakly fair:
the sandbox call and the provider call have timeouts, and a failed call, a timeout or a
refusal of either is caught. A failure of the database or a malformed answer of the
worker is not, and neither is the end of the process: `SlotSettles` excepts these jobs
(`lost`) and `NeverLockedOut` does not. The report jobs are weakly fair for the same
reason, and nothing makes a replay happen. In `ClientSession` the server ends every
request, in an answer or a failure, every call settles, and the callbacks of what has
settled run; no one has to act, and no token to expire. In `PreparationPages` a
processing job that has begun goes on, GETs come back and the page's interval fires; no
request, upload or release is fair.

### What the violations are

1. *A late turn revives an abandoned interview.* Phase 2's recheck of the status
   sees the object of phase 0 (`execution_service.py:310-312`).
2. *A graded coding question can stay pending.* `jobs/coding_execution.py:101`
   swallows the failure of the only attempt.
3. *A coding turn can be committed twice* when a text answer is posted for a coding
   question: the job's round status is stale.
4. *A crash locks the final slot.* Only the job releases it, and nothing runs the job
   again (`coding_round_service.py:274`): later final submissions are refused while
   the row says queued or running, and replayed once it has an outcome without an
   evaluation.
5. *A logout leaves a live token.* When the logout's call is answered 401, the shared
   refresh rotates the stored token, and the call is sent again with the token that was
   read before (`features/auth/store.ts:130`): the server revokes what is rotated
   already, answers 204, and the new refresh token lives on.
6. *Two recordings mix in one row.* `progress_service.py:111-113` and `128-131` assign
   columns of rows that were loaded before another job committed. A replay of s1 that loaded
   its own readiness, 66.67 of s1, commits after the job of s2 stored 70 of s2: it writes
   the score and not the session, and 66.67 of s2 is left. In a snapshot, the count of
   one recording stands beside the average of another. The docstring (lines 24-25) says that
   every write is a recomputation that converges to the same result.

### Exceptions that the properties make

- `ReportArrives` excepts interviews one of whose jobs failed or died (`dropped`):
  nothing runs a job again unless a replay comes.
- `ResetEndsSessions` is about clean tokens: a sign-in or rotation whose transaction
  overlaps the reset is committed after the reset has read what it revokes.
- `OneActive` excepts two overlapping deletions: one promotes a resume that the other
  has read as inactive and deletes without a successor. `ReadinessWhole` excepts two
  overlapping readiness requests, whose columns mix.
- `ReadinessPaired` lets the score be that of another interview of the user at that
  company, and `OverviewHonest` the count and the average be those of two sets of reports,
  if their recordings overlapped: `mixed_figures` shows both. What holds even then is that
  every figure is one of the user's own reports.
- `SlotSettles` excepts jobs that died or failed without a handler (`lost`).
- `WatchingEnds` excepts jobs that died.

### Differences without a run

Interview: `models/interview.py:111-113` and
`docs/Database.md:316` say that `current_question_id` is empty once the interview is
abandoned; `abandon` leaves it. A duplicate answer is evaluated twice: the replay branch of
phase 2 (`execution_service.py:313-330`) compares the pending question of the object
read in phase 0 and is never taken, so the second evaluation runs and fails on the unique
row, where the `Idempotency and concurrency` section of the backend's `README.md` has zero
new calls for an answer that is evaluated.

Authentication and session: the violated unique email of a racing registration is
raised by a flush before the handler of the commit (`auth_service.py:71`) and ends in a
server error. A refresh or login that overlaps a reset leaves a session alive that
`auth_service.py:246-248` says is ended. A refresh in flight while the tab logs out can
store its tokens after `clearTokens`. `initialize` has a refresh of its own, and a
transient failure of its `GET /users/me` signs the tab out. Two tabs share localStorage
and rotate each other's token; the model has one tab.

Coding: a job that ends in a failure of the database keeps the slot like one that a crash
took (`locked_out` shows the latter). A weight of 0 on every test scores a right program 0
for correctness, where the status is success.

Progress: a stale recording can lower the count of a snapshot that a later one wrote;
the replay of an old interview overwrites the readiness of a newer one and resets its
skills' trend to stable, although the docstring says that a second run "recomputes the
same correct state". Weak and strong areas are read back without an order.

Resumes: the two overlaps above (`docs/API.md:51` promises a successor). A resume that a
plan refers to cannot be deleted: the foreign key ends the request in a server
error. A refused upload leaves its file behind, and a job that outlives the deletion
of its resume its embeddings. A year `0000` is matched by the date pattern and raises
past the job's handlers (`resume_processing.py:130`, `date_parsing.py:37`); that, like a
crash, leaves `processing` for ever, where `docs/API.md:57` has a terminal status.
`interview_context.py:127-135` says it returns nothing for an unfinished resume and
returns its context; the planner asks only for finished ones.

Planning and pages: "No resume" in the wizard (`ResumeSelector`, `DifficultySelector`)
is planned with the active resume and its readiness (`interview_planner.py:236-238`).
Rounds that a release drops stay in the template when plans use them, and so new plans
have them, too; entries that the file drops stay active. A template's row and rounds
are read by two statements, and a seed in between mixes releases. The answer of an
earlier selection may arrive last and be offered; the server refuses the mismatch. The
detail page shows nothing if another resume's answer arrives last, and stops polling
after a failed poll; the list does not show, and does not watch, a new upload if an
older answer arrives last.

## 4. What is proved

For every plan, catalog, set of requests and value of the client constants, from
`PlanAssumption`, `DifficultyAssumption` and `NoneAssumption`; the theorems of
`CodingSubmissionProofs` need only `GradingAssumption` (finitely many tests with natural
weights, the samples among them, and the provider's qualities on the scale), those of `ReportProgressProofs` only
`ReportAssumption` (finitely many sessions, each with finitely many evaluations scored
0 to 100 as the provider's schema requires, and narratives the schema admits), those
of `ClientSessionProofs` only `ClientAssumption` (the tab's two requests are its own,
and there is another) and `AuthAssumption` (finitely many links, each of one kind), those of
`PreparationProofs` only `LibraryAssumption` (profiles that name finitely many skills) and
`PlanningAssumption`.
Three hypotheses are part of a theorem rather than of its module, since the program
has behaviours without them: `~AnswersOnCoding` and `~AbandonMidTurn`, beyond which
`coding_twice` and `late_turn` show the violations, and round weights greater than 0,
as in every template of the catalog (where no round weighs anything the score falls back to
0, which `policy.py:214-216` calls an error of the catalog).

| Theorem | Statement | Module |
|---|---|---|
| `TypeCorrect` | `Spec => []TypeOK`: types, and the row lock has exactly the holder that stands inside a transaction | `InterviewExecutionProofs` |
| `TextTurnsOnce` | `Spec => []TextTurnOnce`: the turn of a text question is committed at most once | `InterviewExecutionProofs` |
| `StaysClosed` | `Spec => ClosedToAnswers`: no text answer is stored once the interview is abandoned or complete | `InterviewExecutionProofs` |
| `TurnsStayInOrder` | `Spec => []TurnsInOrder`, unless text answers are posted for coding questions | `InterviewOrderProofs` |
| `OneStaysPending` | `Spec => []OneQuestionPending`, likewise | `InterviewOrderProofs` |
| `RoundsStayInOrder` | `Spec => []RoundsInOrder`, likewise | `InterviewOrderProofs` |
| `TurnProtocolImplemented` | `Spec => ImplementsProtocol`, unless such answers are posted or an interview is abandoned in mid-turn | `InterviewOrderProofs` |
| `VerdictsTaken` | `Spec => TakesVerdicts`: the execution asks no more of the coding side than `CodingVerdict` | `InterviewExecutionProofs` |
| `TypeCorrect` | `Spec => []TypeOK`: types, positive attempt numbers, jobs of committed attempts | `CodingSubmissionProofs` |
| `EvaluatedOnce` | `Spec => []OneEvaluation`: one attempt at most is evaluated, the holder of the slot, and it was run on all the tests | `CodingSubmissionProofs` |
| `AttemptsStay` | `Spec => AttemptsKept`: no attempt is overwritten or moves back | `CodingSubmissionProofs` |
| `VerdictImplemented` | `Spec => ImplementsVerdict`: attempts, slot and jobs implement `CodingVerdict` | `CodingSubmissionProofs` |
| `RecordsAreStored` | `Spec => []RecordsStored`: progress is recorded from the stored report | `ReportProgressProofs` |
| `ReportsStand` | `Spec => ReportStands`: a report that was served stays as it is | `ReportProgressProofs` |
| `ReadinessStaysPaired` | `Spec => []ReadinessPaired`: readiness names an interview of that user and company, with its score or, if their recordings overlapped, that of another one there | `ReportProgressProofs` |
| `SessionsNeverFork` | `Spec => []OneLivePerSession`: of the tokens of one sign-in at most one is live | `ClientSessionProofs` |
| `ResetsEndSessions` | `Spec => []ResetEndsSessions`: no live token outlives a reset that was not under way when its session began | `ClientSessionProofs` |
| `FilesStay` | `Spec => []FilesKept`: a resume that is there has its file | `PreparationProofs` |
| `OneStaysActive` | `Spec => []OneActive`: at most one resume is active, and one is unless two deletions overlapped | `PreparationProofs` |
| `ReadinessStaysWhole` | `Spec => []ReadinessWhole`: a readiness is of one role and of the profile stored, unless two overlapped | `PreparationProofs` |
| `PlansStayGrounded` | `Spec => []PlansGrounded`: a plan's resume, skills, template and rounds are there | `PreparationProofs` |
| `OneLateTurnAtMost` | `Spec => AtMostOneLateTurn`, unless text answers are posted for coding questions: at most one turn lands after an abandonment | `InterviewOrderProofs` |
| `BudgetKeptByAll` | `Spec => []QuestionBudget`, likewise: root questions and follow-ups stay within the policy | `InterviewBudgetProofs` |
| `CompletedInFull` | `Spec => []CompletedIsWhole`, likewise: a completed interview held every round in full, each question evaluated or graded | `InterviewBudgetProofs` |
| `ProgressTypeOK` | `Spec => []TypeOK`: shapes and ranges of reports, figures and jobs | `ReportProgressProofs` |
| `SkillsStandOnReports` | `Spec => []SkillsGrounded`: a skill's score is one that a stored report of the user gave it | `ReportProgressProofs` |
| `OverviewStandsOnReports` | `Spec => []OverviewHonest`: the overview's count and average are those of as many stored reports, or after overlapping recordings each of a set of its own | `ReportProgressProofs` |
| `OverallStaysWithin` | `Spec => []OverallWithinScores`, if every weight is greater than 0: an overall score lies between the scores given | `ReportProgressProofs` |
| `PasswordsCounted` | `Spec => []OnePasswordPerLink`: one password by the registration and at most one by each reset link | `ClientSessionProofs` |
| `SessionTypes` | `Spec => []TypeOK`: rows, requests, calls and the tab | `ClientSessionProofs` |
| `OwnRefreshesAccepted` | `Spec => []NoSelfRejection`: no refresh of the tab is refused over a token whose successor the tab has received | `ClientSessionProofs` |
| `SignedInTabsCanRefresh` | `Spec => []SignedInCanRefresh`: a signed-in tab that waits for nothing stores a token that a refresh accepts, unless a reset or time ended it | `ClientSessionProofs` |
| `PreparationTypes` | `Spec => []TypeOK`: a profile for exactly the status done, a readiness only beside one, the tab waiting exactly while it has a request | `PreparationProofs` |
| `PlansNeverChange` | `Spec => PlansStand`: a plan stays, and what an interview sees of it | `PreparationProofs` |

The arguments, each an invariant that TLC checked before it was proved:

- *What exists* (`RowsInv`). `TextTurnOnce` is not inductive: nothing in it says why a
  second commit must fail. `TurnsKnown` says that every committed turn is about a
  question that exists and, unless it is a coding question, has its evaluation row;
  the unique index of `answer_evaluations` (`EvaluationInsertable`) then stops the
  second one. Whether a question is a coding question must not change, hence
  `FlightKnown` and `JobsKnown` (requests and jobs hold existing questions, and jobs
  coding ones) and `Begun` (nothing is in flight before the start). The lemma
  `Transition` says what the shared tail of a turn leaves in the rows for *any* view,
  stale ones included.
- *The lock across phase 0 and 1* (`OpenWhileInserting`). The request that inserts an
  answer has held the lock since it saw the interview run; only transactions that
  hold or need the lock change the status.
- *Order* (`OrderInv`). `Ledger` relates the number of questions to the number of
  turns and to the pending question; `Settled` says that the questions before it are
  evaluated or graded; `JobsPending` that there is at most one job, enqueued or
  running, and it is for the pending question; `ViewsPending` that a view in which
  the request's question is pending agrees with the rows about the rounds *as long as
  the question still is pending*. So a stale view can only reach the commit for a
  question that is settled, and there the unique row, or the graded set, stops it
  (`TurnOfPending`). It is the argument why the missing refresh of the rows is
  harmless for the order of turns. A text answer on a coding question breaks it (the
  run `coding_twice`), hence the theorems' assumption `~AnswersOnCoding`.
- *The protocol* (`QuietWhenAbandoned`): with no abandon in mid-turn, nothing that can
  commit a turn is in flight once the interview is abandoned, so each commit is a
  `Turn` or `LastTurn` of `TurnProtocol`, and every other step an `Open`, a `GiveUp`
  or a stutter.
- *Attempts* (`Inv` of `CodingSubmissionProofs`). `OneEvaluation` is not inductive: an
  attempt could be evaluated after it gave up the slot. `GradingFinals` says that a job
  that outlives its verdict is that of the slot's holder, `OneFinal` that there is one
  holder, `EvaluatedFinals` that an evaluated attempt never gives the slot up; `Latest`
  gives the next number its meaning without counting. `TestedInFull` says that a final
  submission with a verdict was run on all the tests, and passed them all if it is a
  success; it asks nothing of a row that has given the slot up, and none takes it back. That its score is on the scale (`TypeOK`) is `ScoresOnScale`, from the lemmas on
  sums and rounded quotients that the reports need, too. Each job step is a change of one
  row, so the preservation is one lemma (`RowStep`) for all of them.
- *Reports* (`Inv` of `ReportProgressProofs`). A job past its write holds a report in
  memory while others write, so `RecordsStored` alone does not survive `Store`:
  `StoredWhole` says that what is stored is a report, not the mark of its absence,
  `WritesWhole` the same of what a job is about to store, and `RecordsNarrative` that a
  recording job holds the stored report but for its ticks. `Store` then keeps a
  report that is there, whichever job comes second.
- *Sessions* (`Inv` of `ClientSessionProofs`). `OneLivePerSession` is not inductive: a
  refresh that has read its token adds a live one later. `RotatingAlone` says that from
  the read to the commit no *other* token of the session is live, `RotatingApart` that no
  two requests rotate tokens of one session; both rest on the row lock, by which a second
  refresh of the same token waits for the first. For resets, `CleanIsRead` says that the
  one under way has read every live token that was issued while none was, so that its
  commit, where `user.password` changes, leaves none of them (`CleanIsCurrent`). The
  steps fall into five kinds with a lemma each: a request goes on (`OpenIsSafe`), is
  issued a token (`IssueIsSafe`) or ends (`EndInv`); a client posts requests and takes
  answers (`PostInv`); a request the tab gave up goes on elsewhere (`DetachInv`). The last
  two need `Named` and `TabNamed`: what requests and the tab name exists.
- *Preparation* (`Inv` of `PreparationProofs`). The four properties are properties of what
  is stored; what keeps them is what the requests in flight still hold. `Uploading` and
  `UploadsApart`: the file of a row about to be inserted is there, and nobody else's.
  `Deleting`: a clean-up is about a row that is gone, so it never takes a file that is
  needed. `DeletesAlone`: a deletion that found its resume inactive, or chose no
  successor, still has an active one beside it, as long as no other deletion runs (the
  choice itself, `MostRecentOther`, is shown to be a resume that is there, by a lemma on
  the largest of a set of ids). `DoneOnce`: a profile is stored by a job that is past its
  last write of one, so a profile on which something was computed does not change;
  `Computing`, `ReadinessAlone` and `MergedWhole` build on it for readiness, and
  `Grounded` for the drafts of plans, whose resume the commit then finds or is refused.
  That seeding leaves the rounds of a plan is `SeededKeeps`. Steps that only end
  requests, move jobs on or touch the catalog share one argument (`KeepInv`), steps of
  one slot another (`SlotInv`, `PlanSlotInv`).
- *After an abandonment* (`OverAfter(n)`, beside `OrderInv`). The action property speaks of
  the turns at the abandonment and so of no single state. For each `n`, an interview that
  was abandoned with `n` turns stays over with at most `n + 1`, and no request in flight
  that still believes it to run is about a later question than the one then pending. By
  `TurnOfPending` only a turn of the pending question can be committed: there is one such
  turn, whatever the number of requests that hold old views. `OneMoreAtMost` has it for every
  `n`, the property that TLC checks for the turns its plans can have.
- *The budget* (`BudgetInv`). `RootOf` climbs the chain of parents of a follow-up and is a
  recursive function of `questions`; that such a function exists and is the only one
  (`Climbs`, `ClimbsOneWay`) is kept from question to question, each being asked as a root
  or as the child of an earlier one (`Earlier`), rather than proved by induction over
  chains. `RootsKnown` and `Asked` say where the roots of a round are, and `RoundsHeld` that
  the rounds that are over asked exactly what their policy says. The cap and the length of
  a round are compared with counts of *committed* questions of the view, so
  `ViewsPending` of the order is what makes the comparison right at the commit.
- *Figures* (`Inv /\ Sound` of `ReportProgressProofs`). Each property says of a stored number
  that it comes from reports that are stored, while the jobs carry numbers computed from
  rows read earlier, and an UPDATE leaves columns to whatever row it meets. `JobsSound` says it of what a job holds in each phase: what it is
  about to write is one of the drafts of its interview (`FromDraft`), the totals it has
  read are those of a set of that many stored reports (`Tallied`), which stays true as
  reports are only added. `LoadsMet` says of the rows a job has loaded what they still have
  in common with the stored ones: the stored row is the loaded one, or another recording was
  committed in between, whose interview is then of this user and, when this job commits,
  in `overlapped` beside this one. So a column that `Record` leaves is either the one it
  would have written or one that overlapped, which is `ReadinessPaired` and
  `OverviewHonest`. `StoredSound`, `SnapshotsSound` and `SkillsSound` are what is
  left in the rows. That the numbers themselves are in range is `ReportScoresProofs`: a sum
  over a finite set of values between two bounds lies between the bounds times its
  size, and so a mean, a mean of means, a weighted mean with positive weight and what
  rounding makes of it lie between the bounds. The sums are folds over sets, whose value
  for every set would need induction over an operator; `AddsUp` says instead, in first-order
  terms, what a function from sets to sums must satisfy, and the lemmas argue with a
  smallest counterexample, which exists in every nonempty set of naturals.
- *Passwords* (`PasswordInv`). `Accounted` bounds the passwords by the reset links used;
  `ResetsApart`, the row lock of a link, says that two confirmations never stand between
  check and commit together, and `Follows` that a request follows a link of its kind.
- *Types of the session* (`Typed`, beside `Inv`). The bound on the passwords in it is the
  accounting above: types here need a safety argument.
- *The page* (`PageInv`). `Slots`: the tab has one refresh and one form under way, and what
  goes on elsewhere is nobody's to read. `Loading`: until the check of the session has ended
  the page load is alone, and when it waits for a refresh, that is the shared one.
- *The tab's tokens* (`Owned`, that is `Ownership` and `OwnSession`, beside the three
  above). `holder` follows a token from its commit to the client that received it:
  what nobody has received has been presented by nobody (`UnreceivedUnused`,
  `PresentedReceived`), an answer not yet read is of such a token (`UnreadUnreceived`,
  `FormIssued`), and the tab has not taken the successor of what it stores or presents
  (`RefreshesOwn`). Hence a refusal is never for the tab's own rotation. `OwnSession` adds
  that a tab with a session stores a live token, unless it is going to be signed out by
  what it waits for (`Doomed`) or a request of its own still has to end that token
  (`Spends`). Every step of the server is one of `ServerMoves` and every step of the
  tab one of `TabMoves`, and the invariant is preserved by these two forms only.
- *Types of the preparation* (`AllTyped`). The type invariant says more than shapes: a
  profile is there exactly for the status done, and a readiness only beside one. A
  readiness under way writes columns into a row loaded earlier, so `ReadinessTyped` says
  that what it loaded and made fit together (`Merged` is then typed), and `GapsStay` that
  no other step takes a readiness back. `Agreed` says that the tab waits exactly while its
  slot has a request: server steps are `ServerMoves` with `MineWaits`, the tab's own
  `MineBegins`.
- *Plans* (`PlansOnlyAdded`). No step removes a plan, and what an interview sees of
  it (`Context`) reads the plan alone.

## 5. What is only model-checked, and what is not modelled

Every safety invariant and action property of the passing runs, and every
refinement, is proved. Checked by TLC on the instances above only is liveness:
`InterviewEnds`, `SlotSettles`, `ReportArrives`, `SessionChecked`, `CallsSettle` and
`WatchingEnds`. It rests on fairness, and so on `ENABLED`, which the prover does not
handle. Of the operators, the adaptation of the difficulty and the score and focus of a
readiness are proved no further than the theorems need: to stay in their ranges, and to
be a function of profile and role.

Not modelled: prompts, explanations and the texts of a narrative; ownership checks
beyond the report's; logging, HTTP shapes, hashing and encodings; the extraction of text,
sections and dates from a PDF; the choice among coding problems of one difficulty; how the
sandbox isolates, limits and cleans up what it runs (its outcomes are modelled); the
interview, report and dashboard pages; `PATCH /users/me`; the language-model providers,
the sandbox, email, storage and the vector store, which are external; migrations and
seed data; page rendering. `is_active` of a user is never set to false by the code, and
roles of users guard nothing but themselves.

## 6. Plan

What is left, in order of importance:

1. Operators: the choice of a coding problem, the parsing of dates; and lemmas about the difficulty and the
   readiness score, for every input.
2. The composition of `InterviewExecution` with the trigger of `ReportProgress`, in place
   of `Complete` and `Retrigger`.
3. The interview page: its store against duplicated and late answers, and the polling of
   a submission and of a report.
