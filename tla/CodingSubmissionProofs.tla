------------------------ MODULE CodingSubmissionProofs ------------------------
(***************************************************************************)
(* What holds of the attempts at a coding question for any number of       *)
(* racing requests and of attempts, wherever the process dies.             *)
(***************************************************************************)
EXTENDS CodingSubmission, ReportScoresProofs

\* A question with an attempt has its answers row.
AnswerFirst == Attempts # {} => answered

\* There is a latest attempt, so that the next number is defined.
Latest == Attempts # {} => \E a \in Attempts : \A b \in Attempts : b <= a

\* A number that a request has computed is one or more.
Numbered == \A r \in Requests : req[r].stage = "numbered" => req[r].number # 0

\* The partial unique index.
OneFinal == \A a, b \in Finals : a = b

\* An evaluation belongs to a final submission with a verdict, ...
EvaluatedFinals == \A a \in Evaluated : rows[a].final /\ rows[a].status \in Verdicts

\* ... and only a final submission's job outlives its verdict.
GradingFinals == \A a \in jobs : rows[a].status \in Verdicts => rows[a].final

\* A final submission with a verdict was run on all the tests.
FullyTested(row) ==
    row.final /\ row.status \in Verdicts =>
      /\ row.tests = Tests
      /\ row.status = "success" => row.passed = Tests

TestedInFull == \A a \in Attempts : FullyTested(rows[a])

Inv ==
    /\ TypeOK
    /\ AnswerFirst
    /\ Latest
    /\ Numbered
    /\ OneFinal
    /\ EvaluatedFinals
    /\ GradingFinals
    /\ TestedInFull

-----------------------------------------------------------------------------
(* Grading.                                                                *)

\* The scale of the scores.
LEMMA FullScale == FullMarks \in Nat /\ Points = 0..FullMarks
  <1>1. FullMarks \in Nat
    BY DEF FullMarks
  <1>2. Points = 0..FullMarks
    BY DEF FullMarks, Points
  <1> QED
    BY <1>1, <1>2

\* The weighted share of the tests that passed is on the scale.
LEMMA CorrectnessOnScale ==
    ASSUME NEW status, NEW passed
    PROVE  Correctness(status, passed) \in 0..FullMarks
  <1> DEFINE f == [t \in Tests |-> IF t \in passed THEN TestWeight[t] ELSE 0]
             total == SumFunction(TestWeight)
             earned == SumFunction(f)
  <1>1. IsFiniteSet(Tests) /\ TestWeight \in [Tests -> Nat]
    BY GradingAssumption
  <1>2. total \in Nat
    BY <1>1, SumOfNaturals
  <1>3. 0 * total <= earned /\ earned <= 1 * total /\ earned \in Int
    <2>1. \A t \in Tests : 0 * TestWeight[t] <= f[t] /\ f[t] <= 1 * TestWeight[t]
      BY <1>1
    <2>2. TestWeight \in [Tests -> Int] /\ f \in [Tests -> Int]
      BY <1>1
    <2> DEFINE lo == 0
               hi == 1
    <2>3. lo \in Int /\ hi \in Int
      OBVIOUS
    <2>4. \A t \in Tests : lo * TestWeight[t] <= f[t] /\ f[t] <= hi * TestWeight[t]
      BY <2>1
    <2> HIDE DEF f, lo, hi
    <2>5. /\ earned \in Int
          /\ lo * total <= earned
          /\ earned <= hi * total
      BY <1>1, <2>2, <2>3, <2>4, SumBetween
    <2> QED
      BY <2>5 DEF lo, hi
  <1> HIDE DEF f, total, earned
  <1>4. \A m, e, n \in Nat : e <= n => m * e <= m * n /\ m * e \in Nat
    OBVIOUS
  <1>5. CASE total # 0
    <2>1. /\ FullMarks * earned \in Int
          /\ 0 * total <= FullMarks * earned
          /\ FullMarks * earned <= FullMarks * total
      BY <1>2, <1>3, <1>4, FullScale
    <2>2. RoundedQuotient(FullMarks * earned, total) \in 0..FullMarks
      BY <1>2, <1>5, <2>1, FullScale, RoundedBetween
    <2>3. Correctness(status, passed) =
             IF status = "success" THEN FullMarks
             ELSE RoundedQuotient(FullMarks * earned, total)
      BY <1>5 DEF Correctness, total, earned, f
    <2> QED
      BY <2>2, <2>3, FullScale
  <1>6. CASE total = 0
    <2>1. Correctness(status, passed) = 0
      BY <1>6 DEF Correctness, total
    <2> QED
      BY <2>1, FullScale
  <1> QED
    BY <1>5, <1>6

\* So is the score of a submission, whatever qualities the provider names.
LEMMA ScoresOnScale ==
    ASSUME NEW status, NEW passed, NEW score \in CodeScores(status, passed)
    PROVE  score \in Points
  <1>1. CASE status = "compile_error"
    BY <1>1, FullScale DEF CodeScores
  <1>2. CASE status # "compile_error"
    <2> DEFINE c == Correctness(status, passed)
    <2>1. PICK q \in Qualities : score = OverallCodeScore(c, q)
      BY <1>2 DEF CodeScores
    <2>2. /\ q.readability \in 0..FullMarks
          /\ q.optimization \in 0..FullMarks
          /\ q.edgeCase \in 0..FullMarks
      BY GradingAssumption, FullScale DEF Quality
    <2>3. c \in 0..FullMarks
      BY CorrectnessOnScale
    <2> DEFINE sum == 40 * c + 15 * q.readability + 20 * q.optimization
                        + 15 * q.edgeCase + 10 * q.readability
    <2>4. sum \in Int /\ 0 * 100 <= sum /\ sum <= FullMarks * 100
      <3>1. FullMarks \in Nat
        BY FullScale
      <3> HIDE DEF c
      <3> QED
        BY <2>2, <2>3, <3>1
    <2>5. score = RoundedQuotient(sum, 100)
      BY <2>1 DEF OverallCodeScore
    <2> HIDE DEF sum
    <2>6. RoundedQuotient(sum, 100) \in 0..FullMarks
      BY <2>4, FullScale, RoundedBetween
    <2> QED
      BY <2>5, <2>6, FullScale
  <1> QED
    BY <1>1, <1>2

\* The outcome of an execution is a verdict over the tests it was run on.
LEMMA Result ==
    ASSUME NEW program \in Programs, NEW tests \in SUBSET Tests,
           NEW result, result = ResultOf(program, tests)
    PROVE  /\ result.status \in Verdicts
           /\ result.passed \subseteq tests
           /\ result.status = "success" => result.passed = tests
  <1>1. CASE Compiles(program)
    <2> DEFINE outcomes == Outcomes(program, tests)
    <2>1. DOMAIN outcomes = tests
      BY DEF Outcomes
    <2> HIDE DEF outcomes
    <2>2. PassedTests(outcomes) \subseteq tests
      BY <2>1 DEF PassedTests
    <2>3. StatusOf(outcomes) = "success" => PassedTests(outcomes) = tests
      BY <2>1 DEF StatusOf
    <2>4. StatusOf(outcomes) \in Verdicts
      BY DEF StatusOf, Verdicts
    <2>5. result = [status |-> StatusOf(outcomes), passed |-> PassedTests(outcomes)]
      BY <1>1 DEF ResultOf, outcomes
    <2> QED
      BY <2>2, <2>3, <2>4, <2>5
  <1>2. CASE ~Compiles(program)
    BY <1>2 DEF ResultOf, Verdicts
  <1> QED
    BY <1>1, <1>2

-----------------------------------------------------------------------------
(* Rows.                                                                   *)

\* A new row.
LEMMA QueuedRow ==
    ASSUME NEW final \in BOOLEAN, NEW row, row = Queued(final)
    PROVE  /\ row \in Submission /\ row.final = final
           /\ row.status = "queued" /\ ~row.evaluated
  <1>1. 0 \in Points /\ "queued" \in Statuses
    BY FullScale DEF Statuses
  <1> QED
    BY <1>1 DEF Queued, Submission

\* A row with another status: everything else stays.
LEMMA MovedRow ==
    ASSUME NEW row \in Submission, NEW status \in Statuses,
           NEW new, new = [row EXCEPT !.status = status]
    PROVE  /\ new \in Submission /\ new.status = status /\ new.final = row.final
           /\ new.evaluated = row.evaluated /\ new.passed = row.passed
  BY DEF Submission

\* A released row: everything but the slot stays.
LEMMA ReleasedRow ==
    ASSUME NEW row \in Submission, NEW new, new = Released(row)
    PROVE  /\ new \in Submission /\ new.final = FALSE /\ new.status = row.status
           /\ new.evaluated = row.evaluated /\ new.passed = row.passed
  BY DEF Released, Submission

\* The row of a failure of the infrastructure.
LEMMA ErrorRow ==
    ASSUME NEW row \in Submission,
           NEW new, new = Released([row EXCEPT !.status = "error"])
    PROVE  /\ new \in Submission /\ new.final = FALSE /\ new.status = "error"
           /\ new.evaluated = row.evaluated /\ new.passed = row.passed
  <1> DEFINE moved == [row EXCEPT !.status = "error"]
  <1>1. "error" \in Statuses
    BY DEF Statuses
  <1>2. /\ moved \in Submission /\ moved.status = "error"
        /\ moved.evaluated = row.evaluated /\ moved.passed = row.passed
    BY <1>1, MovedRow
  <1>3. new = Released(moved)
    OBVIOUS
  <1> HIDE DEF moved
  <1> QED
    BY <1>2, <1>3, ReleasedRow

\* An executed row has a verdict, over all the tests if it is a final one.
LEMMA ExecutedRow ==
    ASSUME NEW row \in Submission, NEW program \in Programs,
           NEW new, new = Executed(row, program)
    PROVE  /\ new \in Submission /\ new.final = row.final
           /\ new.evaluated = row.evaluated
           /\ new.status \in Verdicts /\ FullyTested(new)
  <1> DEFINE tests == TestsFor(row.final)
             result == ResultOf(program, tests)
  <1>1. tests \in SUBSET Tests /\ (row.final => tests = Tests)
    BY GradingAssumption DEF TestsFor
  <1>2. new = [row EXCEPT !.status = result.status, !.tests = tests,
                          !.passed = result.passed]
    BY DEF Executed
  <1> HIDE DEF tests
  <1>3. /\ result.status \in Verdicts
        /\ result.passed \subseteq tests
        /\ result.status = "success" => result.passed = tests
    BY <1>1, Result
  <1> HIDE DEF result
  <1>4. result.status \in Statuses /\ result.passed \in SUBSET Tests
    BY <1>1, <1>3 DEF Statuses
  <1>5. /\ new \in Submission /\ new.final = row.final
        /\ new.evaluated = row.evaluated
        /\ new.status = result.status /\ new.tests = tests /\ new.passed = result.passed
    BY <1>1, <1>2, <1>4 DEF Submission
  <1> QED
    BY <1>1, <1>3, <1>5 DEF FullyTested

\* The number a request computes is positive, and the latest plus one unless
\* there is no attempt it knows of.
LEMMA NextAttemptPositive ==
    ASSUME TypeOK, Latest, NEW fresh \in BOOLEAN
    PROVE  NextAttempt(fresh) \in Nat \ {0}
  <1>1. CASE fresh \/ Attempts = {}
    BY <1>1 DEF NextAttempt
  <1>2. CASE ~fresh /\ Attempts # {}
    <2>1. PICK m \in Attempts : \A b \in Attempts : b <= m
      BY <1>2 DEF Latest
    <2>2. (CHOOSE a \in Attempts : \A b \in Attempts : b <= a) \in Attempts
      BY <2>1
    <2>3. (CHOOSE a \in Attempts : \A b \in Attempts : b <= a) \in Nat
      BY <2>2 DEF TypeOK
    <2> QED
      BY <1>2, <2>3 DEF NextAttempt
  <1> QED
    BY <1>1, <1>2

\* The invariant holds initially.
LEMMA InitInv == Init => Inv
  <1> SUFFICES ASSUME Init PROVE Inv
    OBVIOUS
  <1> USE DEF Init, Attempts, Finals, Evaluated
  <1>1. TypeOK
    BY DEF TypeOK, Request, Idle, Stages, Submission
  <1> QED
    BY <1>1 DEF Inv, AnswerFirst, Latest, Numbered, OneFinal, EvaluatedFinals,
       GradingFinals, TestedInFull, Idle

-----------------------------------------------------------------------------
(* The steps.                                                              *)

\* A step that changes no row, ends jobs at most and gives no request a number of
\* zero.
LEMMA RequestStep ==
    ASSUME Inv, UNCHANGED rows, jobs' \subseteq jobs, lost' \subseteq Attempts,
           answered' \in BOOLEAN,
           answered => answered', req' \in [Requests -> Request], Numbered'
    PROVE  Inv'
  <1> USE DEF Inv, Attempts, Finals, Evaluated
  <1>1. TypeOK'
    BY DEF TypeOK
  <1>2. AnswerFirst' /\ Latest' /\ OneFinal'
    BY DEF AnswerFirst, Latest, OneFinal
  <1>3. EvaluatedFinals' /\ GradingFinals' /\ TestedInFull'
    BY DEF EvaluatedFinals, GradingFinals, TestedInFull, FullyTested
  <1> QED
    BY <1>1, <1>2, <1>3

\* A step of a job replaces the row of its attempt: the final slot is never
\* taken, and an evaluation and a verdict still to be graded are the holder's.
LEMMA RowStep ==
    ASSUME Inv, NEW a \in jobs, NEW row \in Submission,
           rows' = [rows EXCEPT ![a] = row],
           jobs' = jobs \/ jobs' = jobs \ {a}, UNCHANGED <<answered, lost, req>>,
           row.final => rows[a].final,
           row.evaluated => row.final /\ row.status \in Verdicts,
           a \in jobs' /\ row.status \in Verdicts => row.final,
           FullyTested(row)
    PROVE  Inv'
  <1>0. a \in Attempts /\ Attempts' = Attempts
    BY DEF Inv, TypeOK, Attempts
  <1>a. rows'[a] = row /\ \A b \in Attempts \ {a} : rows'[b] = rows[b]
    BY <1>0 DEF Attempts
  <1>1. TypeOK'
    <2>1. rows' \in [Attempts -> Submission]
      BY DEF Inv, TypeOK
    <2> QED
      BY <1>0, <2>1 DEF Inv, TypeOK
  <1>2. AnswerFirst' /\ Latest' /\ Numbered'
    BY <1>0 DEF Inv, AnswerFirst, Latest, Numbered
  <1>3. OneFinal'
    <2>1. Finals' \subseteq Finals
      BY <1>0, <1>a DEF Finals
    <2> QED
      BY <2>1 DEF Inv, OneFinal
  <1>4. EvaluatedFinals'
    BY <1>0, <1>a DEF Inv, EvaluatedFinals, Evaluated
  <1>5. GradingFinals'
    BY <1>0, <1>a DEF Inv, GradingFinals, TypeOK
  <1>6. TestedInFull'
    BY <1>0, <1>a DEF Inv, TestedInFull, FullyTested
  <1> QED
    BY <1>1, <1>2, <1>3, <1>4, <1>5, <1>6 DEF Inv

\* What an insertion changes: nothing, or one new attempt, the latest or the
\* first, that is queued and ungraded.
LEMMA InsertedRow ==
    ASSUME Inv, NEW r \in Requests, Insert(r)
    PROVE  \/ UNCHANGED <<answered, rows, jobs>>
           \/ \E n \in Nat \ {0} :
                /\ n \notin Attempts /\ Attempts' = Attempts \union {n}
                /\ rows' \in [Attempts' -> Submission]
                /\ \A b \in Attempts : rows'[b] = rows[b]
                /\ rows'[n].status = "queued" /\ ~rows'[n].evaluated
                /\ rows'[n].final => Finals = {}
                /\ answered' = TRUE /\ jobs' = jobs \union {n}
  <1> DEFINE new == req[r]
  <1>1. new \in Request /\ new.stage = "numbered" /\ new.number # 0
    BY DEF Inv, TypeOK, Insert, Numbered
  <1>2. CASE ~(AnswerFree(new.fresh) /\ NumberFree(new.number) /\ FinalFree(new.final))
    BY <1>2 DEF Insert
  <1>3. CASE AnswerFree(new.fresh) /\ NumberFree(new.number) /\ FinalFree(new.final)
    <2> DEFINE n == new.number
               row == Queued(new.final)
    <2>1. /\ n \in Nat \ {0} /\ row \in Submission /\ row.final = new.final
          /\ row.status = "queued" /\ ~row.evaluated
      <3>1. n \in Nat \ {0} /\ new.final \in BOOLEAN
        BY <1>1 DEF Request
      <3> QED
        BY <3>1, QueuedRow
    <2>2. /\ rows' = [b \in Attempts \union {n} |-> IF b = n THEN row ELSE rows[b]]
          /\ answered' = TRUE /\ jobs' = jobs \union {n}
      BY <1>3 DEF Insert
    <2>3. n \notin Attempts /\ (new.final => Finals = {})
      BY <1>3 DEF NumberFree, FinalFree
    <2>4. Attempts' = Attempts \union {n}
      BY <2>2 DEF Attempts
    <2>5. \A b \in Attempts : rows[b] \in Submission
      BY DEF Inv, TypeOK
    <2> HIDE DEF row
    <2>6. /\ rows' \in [Attempts' -> Submission]
          /\ rows'[n] = row /\ \A b \in Attempts : rows'[b] = rows[b]
      BY <2>1, <2>2, <2>3, <2>4, <2>5
    <2> HIDE DEF n
    <2> QED
      BY <2>1, <2>2, <2>3, <2>4, <2>6
  <1> QED
    BY <1>2, <1>3

\* A submission is inserted.
LEMMA InsertStep ==
    ASSUME Inv, NEW r \in Requests, Insert(r)
    PROVE  Inv'
  <1>0. /\ req' \in [Requests -> Request] /\ Numbered' /\ UNCHANGED lost
    BY DEF Inv, TypeOK, Insert, Numbered, Idle, Request, Stages
  <1>1. CASE UNCHANGED <<answered, rows, jobs>>
    BY <1>0, <1>1, RequestStep DEF Inv, TypeOK
  <1>2. ASSUME NEW n \in Nat \ {0},
               n \notin Attempts, Attempts' = Attempts \union {n},
               rows' \in [Attempts' -> Submission],
               \A b \in Attempts : rows'[b] = rows[b],
               rows'[n].status = "queued", ~rows'[n].evaluated,
               rows'[n].final => Finals = {},
               answered' = TRUE, jobs' = jobs \union {n}
        PROVE  Inv'
    <2>1. TypeOK'
      BY <1>0, <1>2 DEF Inv, TypeOK
    <2>2. AnswerFirst'
      BY <1>2 DEF AnswerFirst
    <2>3. Latest'
      <3>1. CASE Attempts = {}
        BY <1>2, <3>1 DEF Latest
      <3>2. CASE Attempts # {}
        <4>1. PICK m \in Attempts : \A b \in Attempts : b <= m
          BY <3>2 DEF Inv, Latest
        <4>2. \A b \in Attempts : b \in Nat
          BY DEF Inv, TypeOK
        <4>3. CASE n <= m
          BY <1>2, <4>1, <4>3 DEF Latest
        <4>4. CASE m < n
          <5>1. \A b \in Attempts' : b <= n
            BY <1>2, <4>1, <4>2, <4>4
          <5> QED
            BY <1>2, <5>1 DEF Latest
        <4> QED
          BY <4>1, <4>2, <4>3, <4>4
      <3> QED
        BY <3>1, <3>2
    <2>4. OneFinal'
      BY <1>2 DEF Inv, OneFinal, Finals
    <2>5. EvaluatedFinals'
      BY <1>2 DEF Inv, EvaluatedFinals, Evaluated
    <2>6. GradingFinals'
      BY <1>2 DEF Inv, GradingFinals, TypeOK, Verdicts
    <2>7. TestedInFull'
      BY <1>2 DEF Inv, TestedInFull, FullyTested, Verdicts
    <2> QED
      BY <1>0, <2>1, <2>2, <2>3, <2>4, <2>5, <2>6, <2>7 DEF Inv
  <1> QED
    BY <1>1, <1>2, InsertedRow

\* The grading job goes on.
LEMMA JobStep ==
    ASSUME Inv, NEW a \in jobs, Job(a)
    PROVE  Inv'
  <1>0. a \in Attempts /\ rows[a] \in Submission /\ FullyTested(rows[a])
    BY DEF Inv, TypeOK, TestedInFull
  <1> DEFINE held == rows[a]
             error == Released([held EXCEPT !.status = "error"])
  <1>1. /\ error \in Submission /\ error.final = FALSE
        /\ error.evaluated = held.evaluated
    BY <1>0, ErrorRow
  <1>2. held.evaluated => held.final /\ held.status \in Verdicts
    BY <1>0 DEF Inv, EvaluatedFinals, Evaluated
  <1>3. held.status \in Verdicts => held.final
    BY DEF Inv, GradingFinals
  <1>4. ASSUME rows' = [rows EXCEPT ![a] = Released([@ EXCEPT !.status = "error"])],
               ~held.evaluated, EndJob(a), UNCHANGED <<answered, lost, req>>
        PROVE  Inv'
    <2>1. rows' = [rows EXCEPT ![a] = error]
      BY <1>4
    <2>2. a \notin jobs'
      BY <1>4 DEF EndJob
    <2> HIDE DEF error
    <2> QED
      BY <1>1, <1>4, <2>1, <2>2, RowStep DEF EndJob, FullyTested
  <1>5. CASE Begin(a)
    <2>1. ~held.evaluated
      BY <1>2, <1>5 DEF Begin, Verdicts
    <2>2. CASE rows' = [rows EXCEPT ![a].status = "running"] /\ UNCHANGED jobs
      <3> DEFINE row == [held EXCEPT !.status = "running"]
      <3>1. rows' = [rows EXCEPT ![a] = row]
        BY <2>2
      <3>2. "running" \in Statuses /\ "running" \notin Verdicts
        BY DEF Statuses, Verdicts
      <3>3. /\ row \in Submission /\ row.status = "running"
            /\ row.final = held.final /\ row.evaluated = held.evaluated
        BY <1>0, <3>2, MovedRow
      <3> HIDE DEF row
      <3> QED
        BY <1>5, <2>1, <2>2, <3>1, <3>2, <3>3, RowStep DEF Begin, FullyTested
    <2> QED
      BY <1>4, <1>5, <2>1, <2>2 DEF Begin
  <1>6. CASE Execute(a)
    <2>1. ~held.evaluated
      BY <1>2, <1>6 DEF Execute, Verdicts
    <2>2. ASSUME NEW program \in Programs,
                 rows' = [rows EXCEPT ![a] = Executed(@, program)],
                 IF held.final THEN UNCHANGED jobs ELSE EndJob(a)
          PROVE  Inv'
      <3> DEFINE row == Executed(held, program)
      <3>1. rows' = [rows EXCEPT ![a] = row]
        BY <2>2
      <3>2. /\ row \in Submission /\ row.final = held.final
            /\ row.evaluated = held.evaluated /\ FullyTested(row)
        BY <1>0, ExecutedRow
      <3>3. a \in jobs' => held.final
        BY <2>2 DEF EndJob
      <3>4. jobs' = jobs \/ jobs' = jobs \ {a}
        BY <2>2 DEF EndJob
      <3> HIDE DEF row
      <3> QED
        BY <1>6, <2>1, <3>1, <3>2, <3>3, <3>4, RowStep DEF Execute
    <2> QED
      BY <1>4, <1>6, <2>1, <2>2 DEF Execute
  <1>7. CASE Evaluate(a)
    <2>1. PICK score \in Points : rows' = [rows EXCEPT ![a] = Graded(@, score)]
      BY <1>7, ScoresOnScale DEF Evaluate
    <2>2. PICK row : row = Graded(held, score)
      OBVIOUS
    <2>3. /\ row \in Submission
          /\ row.final = held.final
          /\ row.status = held.status
          /\ row.passed = held.passed
          /\ row.tests = held.tests
      BY <1>0, <2>2 DEF Graded, Submission
    <2>4. rows' = [rows EXCEPT ![a] = row]
      BY <2>1, <2>2
    <2>5. FullyTested(row)
      BY <1>0, <2>3 DEF FullyTested
    <2> QED
      BY <1>3, <1>7, <2>3, <2>4, <2>5, RowStep DEF Evaluate
  <1>8. CASE EvaluationFails(a)
    <2> DEFINE row == Released(held)
    <2>1. rows' = [rows EXCEPT ![a] = row]
      BY <1>8 DEF EvaluationFails
    <2>2. ~held.evaluated /\ a \notin jobs'
      BY <1>0, <1>8 DEF EvaluationFails, Evaluated, EndJob
    <2>3. row \in Submission /\ row.final = FALSE /\ row.evaluated = held.evaluated
      BY <1>0, ReleasedRow
    <2> HIDE DEF row
    <2> QED
      BY <1>8, <2>1, <2>2, <2>3, RowStep DEF EvaluationFails, EndJob, FullyTested
  <1>9. CASE Advance(a)
    BY <1>9, RequestStep DEF Advance, EndJob, Inv, TypeOK, Numbered
  <1> QED
    BY <1>5, <1>6, <1>7, <1>8, <1>9 DEF Job

\* The invariant is inductive.
LEMMA NextInv == Inv /\ [Next]_vars => Inv'
  <1> SUFFICES ASSUME Inv, [Next]_vars PROVE Inv'
    OBVIOUS
  <1>1. ASSUME NEW r \in Requests, NEW final \in BOOLEAN, Check(r, final) PROVE Inv'
    <2>1. /\ answered \in BOOLEAN /\ req' \in [Requests -> Request] /\ Numbered'
      BY <1>1 DEF Check, Inv, TypeOK, Numbered, Request, Stages
    <2> QED
      BY <1>1, <2>1, RequestStep DEF Check, Inv, TypeOK
  <1>2. ASSUME NEW r \in Requests, Number(r) PROVE Inv'
    <2>1. req[r] \in Request /\ answered \in BOOLEAN
      BY DEF Inv, TypeOK
    <2>2. NextAttempt(req[r].fresh) \in Nat \ {0}
      BY <2>1, NextAttemptPositive DEF Inv, Request
    <2>3. req' \in [Requests -> Request] /\ Numbered'
      BY <1>2, <2>1, <2>2 DEF Number, Inv, TypeOK, Numbered, Request, Stages
    <2> QED
      BY <1>2, <2>1, <2>3, RequestStep DEF Number, Inv, TypeOK
  <1>3. ASSUME TextAnswer PROVE Inv'
    BY <1>3, RequestStep DEF TextAnswer, Inv, TypeOK, Numbered
  <1>4. ASSUME NEW a \in jobs, JobFails(a) PROVE Inv'
    <2>1. jobs' \subseteq jobs /\ lost' \subseteq Attempts
      BY <1>4 DEF JobFails, EndJob, Inv, TypeOK
    <2> QED
      BY <1>4, <2>1, RequestStep DEF JobFails, Inv, TypeOK, Numbered
  <1>5. ASSUME Crash PROVE Inv'
    <2>1. /\ lost' \subseteq Attempts /\ jobs' \subseteq jobs
          /\ req' \in [Requests -> Request] /\ Numbered'
      BY <1>5 DEF Crash, Inv, TypeOK, Numbered, Idle, Request, Stages
    <2> QED
      BY <1>5, <2>1, RequestStep DEF Crash, Inv, TypeOK
  <1>6. CASE UNCHANGED vars
    BY <1>6, RequestStep DEF vars, Inv, TypeOK, Numbered
  <1> QED
    BY <1>1, <1>2, <1>3, <1>4, <1>5, <1>6, InsertStep, JobStep DEF Next

\* The invariant holds in every reachable state.
LEMMA Invariance == Spec => []Inv
  <1> QED
    BY InitInv, NextInv, PTL DEF Spec

-----------------------------------------------------------------------------
(* The theorems.                                                           *)

\* Types: with any number of requests racing, every number that is assigned is
\* positive, and every job and every lost job is about a committed attempt.
THEOREM TypeCorrect == Spec => []TypeOK
  <1>1. Inv => TypeOK
    BY DEF Inv
  <1> QED
    BY <1>1, Invariance, PTL

\* A question is evaluated at most once, and the attempt with the evaluation is
\* the one that holds the slot, however many final submissions race.
THEOREM EvaluatedOnce == Spec => []OneEvaluation
  <1>1. Inv => OneEvaluation
    BY DEF Inv, OneEvaluation, OneFinal, EvaluatedFinals, TestedInFull, FullyTested,
           Evaluated, Finals
  <1> QED
    BY <1>1, Invariance, PTL

\* What AttemptsKept asks of a step.
KeepsAttempts ==
    \A a \in Attempts :
       /\ a \in Attempts'
       /\ rows'[a].status # rows[a].status =>
            \/ rows[a].status = "queued"
            \/ rows[a].status = "running" /\ rows'[a].status # "queued"
       /\ rows[a].final \/ ~rows'[a].final
       /\ rows[a].status \in Verdicts => rows'[a].passed = rows[a].passed
       /\ rows[a].evaluated => rows'[a] = rows[a]

\* A row that is not graded yet may be written so.
LEMMA RowKept ==
    ASSUME Inv, NEW a \in jobs, NEW row \in Submission,
           rows' = [rows EXCEPT ![a] = row], ~rows[a].evaluated,
           row.final => rows[a].final,
           row.status # rows[a].status =>
             \/ rows[a].status = "queued"
             \/ rows[a].status = "running" /\ row.status # "queued",
           rows[a].status \in Verdicts => row.passed = rows[a].passed
    PROVE  KeepsAttempts
  <1>1. a \in Attempts /\ Attempts' = Attempts
    BY DEF Inv, TypeOK, Attempts
  <1>2. rows'[a] = row /\ \A b \in Attempts \ {a} : rows'[b] = rows[b]
    BY <1>1 DEF Attempts
  <1>3. \A b \in Attempts : rows[b].final \in BOOLEAN
    BY DEF Inv, TypeOK, Submission
  <1> QED
    BY <1>1, <1>2, <1>3 DEF KeepsAttempts

\* The job writes it so.
LEMMA JobKeeps ==
    ASSUME Inv, NEW a \in jobs, Job(a)
    PROVE  KeepsAttempts
  <1>0. a \in Attempts /\ rows[a] \in Submission
    BY DEF Inv, TypeOK
  <1> DEFINE held == rows[a]
  <1>1. held.status \in {"queued", "running"} => ~held.evaluated /\ held.status \notin Verdicts
    BY <1>0 DEF Inv, EvaluatedFinals, Evaluated, Verdicts
  <1>2. ASSUME NEW row \in Submission, rows' = [rows EXCEPT ![a] = row],
               held.status \in {"queued", "running"}, row.status # "queued",
               row.final => held.final
        PROVE  KeepsAttempts
    BY <1>1, <1>2, RowKept
  <1>3. ASSUME rows' = [rows EXCEPT ![a] = Released([@ EXCEPT !.status = "error"])],
               held.status \in {"queued", "running"}
        PROVE  KeepsAttempts
    <2> DEFINE row == Released([held EXCEPT !.status = "error"])
    <2>1. row \in Submission /\ row.status = "error" /\ row.final = FALSE
      BY <1>0, ErrorRow
    <2>2. rows' = [rows EXCEPT ![a] = row]
      BY <1>3
    <2> HIDE DEF row
    <2> QED
      BY <1>2, <1>3, <2>1, <2>2
  <1>4. CASE Begin(a)
    <2>1. CASE rows' = [rows EXCEPT ![a].status = "running"]
      <3> DEFINE row == [held EXCEPT !.status = "running"]
      <3>1. "running" \in Statuses
        BY DEF Statuses
      <3>2. row \in Submission /\ row.status = "running" /\ row.final = held.final
        BY <1>0, <3>1, MovedRow
      <3>3. rows' = [rows EXCEPT ![a] = row]
        BY <2>1
      <3> HIDE DEF row
      <3> QED
        BY <1>2, <1>4, <3>2, <3>3 DEF Begin
    <2> QED
      BY <1>3, <1>4, <2>1 DEF Begin
  <1>5. CASE Execute(a)
    <2>1. ASSUME NEW program \in Programs,
                 rows' = [rows EXCEPT ![a] = Executed(@, program)]
          PROVE  KeepsAttempts
      <3> DEFINE row == Executed(held, program)
      <3>1. row \in Submission /\ row.status \in Verdicts /\ row.final = held.final
        BY <1>0, ExecutedRow
      <3>2. rows' = [rows EXCEPT ![a] = row]
        BY <2>1
      <3> HIDE DEF row
      <3>3. row.status # "queued"
        BY <3>1 DEF Verdicts
      <3> QED
        BY <1>2, <1>5, <3>1, <3>2, <3>3 DEF Execute
    <2> QED
      BY <1>3, <1>5, <2>1 DEF Execute
  <1>6. CASE Evaluate(a)
    <2>1. PICK score \in Points : rows' = [rows EXCEPT ![a] = Graded(@, score)]
      BY <1>6, ScoresOnScale DEF Evaluate
    <2>2. PICK row : row = Graded(held, score)
      OBVIOUS
    <2>3. /\ row \in Submission /\ row.status = held.status
          /\ row.final = held.final /\ row.passed = held.passed
      BY <1>0, <2>2 DEF Graded, Submission
    <2>4. rows' = [rows EXCEPT ![a] = row]
      BY <2>1, <2>2
    <2>5. ~held.evaluated
      BY <1>0, <1>6 DEF Evaluate, Evaluated
    <2> QED
      BY <2>3, <2>4, <2>5, RowKept
  <1>7. CASE EvaluationFails(a)
    <2> DEFINE row == Released(held)
    <2>1. ~held.evaluated
      BY <1>0, <1>7 DEF EvaluationFails, Evaluated
    <2>2. rows' = [rows EXCEPT ![a] = row]
      BY <1>7 DEF EvaluationFails
    <2>3. /\ row \in Submission /\ row.final = FALSE
          /\ row.status = held.status /\ row.passed = held.passed
      BY <1>0, ReleasedRow
    <2> HIDE DEF row
    <2> QED
      BY <2>1, <2>2, <2>3, RowKept
  <1>8. CASE Advance(a)
    BY <1>8 DEF Advance, KeepsAttempts, Attempts, Inv, TypeOK, Submission
  <1> QED
    BY <1>4, <1>5, <1>6, <1>7, <1>8 DEF Job

\* No attempt is overwritten, however many requests compute the same number,
\* and an evaluated one never changes again.
THEOREM AttemptsStay == Spec => AttemptsKept
  <1>1. Inv /\ [Next]_vars => [KeepsAttempts]_vars
    <2> SUFFICES ASSUME Inv, Next PROVE KeepsAttempts
      OBVIOUS
    <2>1. ASSUME UNCHANGED rows PROVE KeepsAttempts
      BY <2>1 DEF KeepsAttempts, Attempts, Inv, TypeOK, Submission
    <2>2. ASSUME NEW r \in Requests, Insert(r) PROVE KeepsAttempts
      BY <2>1, <2>2, InsertedRow DEF KeepsAttempts, Inv, TypeOK, Submission
    <2>3. ASSUME NEW a \in jobs, Job(a) PROVE KeepsAttempts
      BY <2>3, JobKeeps
    <2> QED
      BY <2>1, <2>2, <2>3 DEF Next, Check, Number, TextAnswer, JobFails, Crash
  <1> QED
    BY <1>1, Invariance, PTL DEF Spec, AttemptsKept, KeepsAttempts

-----------------------------------------------------------------------------
(* The implementation of CodingVerdict.                                    *)

\* An insertion is a step of the verdict or none.
LEMMA InsertImplements ==
    ASSUME Inv, NEW r \in Requests, Insert(r)
    PROVE  [Verdict!Next]_(Verdict!vars)
  <1>1. CASE UNCHANGED <<answered, rows, jobs>>
    BY <1>1 DEF Verdict!vars, Evaluated, Attempts
  <1>2. CASE ~UNCHANGED <<answered, rows, jobs>>
    <2>1. PICK n \in Nat \ {0} :
            /\ n \notin Attempts /\ Attempts' = Attempts \union {n}
            /\ \A b \in Attempts : rows'[b] = rows[b]
            /\ ~rows'[n].evaluated
            /\ answered' = TRUE /\ jobs' = jobs \union {n}
      BY <1>2, InsertedRow
    <2>2. Evaluated' = Evaluated
      BY <2>1 DEF Evaluated
    <2>3. (jobs \intersect Evaluated)' = jobs \intersect Evaluated
      BY <2>1, <2>2 DEF Evaluated
    <2>4. answered \in BOOLEAN
      BY DEF Inv, TypeOK
    <2> QED
      BY <2>1, <2>2, <2>3, <2>4 DEF Verdict!vars, Verdict!Next, Verdict!Answer
  <1> QED
    BY <1>1, <1>2

\* A step of a job that leaves its attempt ungraded is not seen.
LEMMA UngradedStep ==
    ASSUME Inv, NEW a \in jobs, a \notin Evaluated, NEW row \in Submission,
           rows' = [rows EXCEPT ![a] = row], row.evaluated = rows[a].evaluated,
           jobs' = jobs \/ EndJob(a), UNCHANGED answered
    PROVE  UNCHANGED Verdict!vars
  <1>1. a \in Attempts /\ Attempts' = Attempts
    BY DEF Inv, TypeOK, Attempts
  <1>2. Evaluated' = Evaluated
    BY <1>1 DEF Evaluated, Attempts
  <1>3. (jobs \intersect Evaluated)' = jobs \intersect Evaluated
    BY <1>2 DEF EndJob
  <1> QED
    BY <1>2, <1>3 DEF Verdict!vars

\* So is a step of the job.
LEMMA JobImplements ==
    ASSUME Inv, NEW a \in jobs, Job(a)
    PROVE  [Verdict!Next]_(Verdict!vars)
  <1>0. a \in Attempts /\ rows[a] \in Submission
    BY DEF Inv, TypeOK
  <1> DEFINE held == rows[a]
  <1>1. held.status \in {"queued", "running"} => a \notin Evaluated
    BY DEF Inv, EvaluatedFinals, Verdicts
  <1>2. ASSUME rows' = [rows EXCEPT ![a] = Released([@ EXCEPT !.status = "error"])],
               a \notin Evaluated, jobs' = jobs \/ EndJob(a), UNCHANGED answered
        PROVE  UNCHANGED Verdict!vars
    <2> DEFINE row == Released([held EXCEPT !.status = "error"])
    <2>1. row \in Submission /\ row.evaluated = held.evaluated
      BY <1>0, ErrorRow
    <2>2. rows' = [rows EXCEPT ![a] = row]
      BY <1>2
    <2> HIDE DEF row
    <2> QED
      BY <1>2, <2>1, <2>2, UngradedStep
  <1>3. CASE Begin(a)
    <2>1. CASE rows' = [rows EXCEPT ![a].status = "running"] /\ UNCHANGED jobs
      <3> DEFINE row == [held EXCEPT !.status = "running"]
      <3>1. "running" \in Statuses
        BY DEF Statuses
      <3>2. row \in Submission /\ row.evaluated = held.evaluated
        BY <1>0, <3>1, MovedRow
      <3>3. rows' = [rows EXCEPT ![a] = row]
        BY <2>1
      <3> HIDE DEF row
      <3> QED
        BY <1>1, <1>3, <2>1, <3>2, <3>3, UngradedStep DEF Begin
    <2> QED
      BY <1>1, <1>2, <1>3, <2>1 DEF Begin
  <1>4. CASE Execute(a)
    <2>1. ASSUME NEW program \in Programs,
                 rows' = [rows EXCEPT ![a] = Executed(@, program)],
                 jobs' = jobs \/ EndJob(a)
          PROVE  UNCHANGED Verdict!vars
      <3> DEFINE row == Executed(held, program)
      <3>1. row \in Submission /\ row.evaluated = held.evaluated
        BY <1>0, ExecutedRow
      <3>2. rows' = [rows EXCEPT ![a] = row]
        BY <2>1
      <3> HIDE DEF row
      <3> QED
        BY <1>1, <1>4, <2>1, <3>1, <3>2, UngradedStep DEF Execute
    <2> QED
      BY <1>1, <1>2, <1>4, <2>1 DEF Execute
  <1>5. CASE Evaluate(a)
    <2>0. PICK score \in Points : rows' = [rows EXCEPT ![a] = Graded(@, score)]
      BY <1>5, ScoresOnScale DEF Evaluate
    <2>1. held.final
      BY <1>5 DEF Evaluate, Inv, GradingFinals
    <2>2. Evaluated = {}
      <3>1. a \in Finals /\ \A b \in Evaluated : b \in Finals
        BY <1>0, <2>1 DEF Inv, EvaluatedFinals, Finals, Evaluated
      <3> QED
        BY <1>5, <3>1 DEF Evaluate, Inv, OneFinal
    <2>3. Attempts' = Attempts /\ rows'[a].evaluated
      <3>1. Graded(held, score).evaluated = TRUE
        BY <1>0 DEF Graded, Submission
      <3> QED
        BY <1>0, <2>0, <3>1 DEF Attempts
    <2>4. Evaluated' # {} /\ (jobs \intersect Evaluated)' # {}
      BY <1>0, <1>5, <2>3 DEF Evaluate, Evaluated
    <2>5. answered
      BY <1>0 DEF Inv, AnswerFirst, TypeOK
    <2>6. UNCHANGED answered
      BY <1>5 DEF Evaluate
    <2> QED
      BY <2>2, <2>4, <2>5, <2>6 DEF Verdict!Next, Verdict!Grade
  <1>6. CASE EvaluationFails(a)
    <2> DEFINE row == Released(held)
    <2>1. row \in Submission /\ row.evaluated = held.evaluated
      BY <1>0, ReleasedRow
    <2>2. rows' = [rows EXCEPT ![a] = row]
      BY <1>6 DEF EvaluationFails
    <2> HIDE DEF row
    <2> QED
      BY <1>6, <2>1, <2>2, UngradedStep DEF EvaluationFails
  <1>7. CASE Advance(a)
    <2>1. Evaluated' = Evaluated /\ UNCHANGED answered
      BY <1>7 DEF Advance, Evaluated, Attempts
    <2>2. jobs \intersect Evaluated = {a}
      <3>1. \A b \in Evaluated : b \in Finals
        BY DEF Inv, EvaluatedFinals, Finals, Evaluated
      <3> QED
        BY <1>7, <3>1 DEF Advance, Inv, OneFinal
    <2>3. (jobs \intersect Evaluated)' = {}
      BY <1>7, <2>1, <2>2 DEF Advance, EndJob
    <2> QED
      BY <2>1, <2>2, <2>3 DEF Verdict!Next, Verdict!Hand
  <1> QED
    BY <1>3, <1>4, <1>5, <1>6, <1>7 DEF Job

\* Attempts, unique slot and jobs together give the one verdict, handed over at
\* most once, that the interview relies on.
THEOREM VerdictImplemented == Spec => ImplementsVerdict
  <1>1. Init => Verdict!Init
    BY DEF Init, Verdict!Init, Evaluated, Attempts
  <1>2. Inv /\ [Next]_vars => [Verdict!Next]_(Verdict!vars)
    <2> SUFFICES ASSUME Inv, [Next]_vars PROVE [Verdict!Next]_(Verdict!vars)
      OBVIOUS
    <2>1. ASSUME UNCHANGED <<answered, rows, jobs>> PROVE UNCHANGED Verdict!vars
      BY <2>1 DEF Verdict!vars, Evaluated, Attempts
    <2>2. ASSUME TextAnswer PROVE [Verdict!Next]_(Verdict!vars)
      BY <2>2 DEF TextAnswer, Verdict!Next, Verdict!Answer, Evaluated, Attempts
    <2>3. ASSUME Crash PROVE [Verdict!Next]_(Verdict!vars)
      <3>1. Evaluated' = Evaluated /\ (jobs \intersect Evaluated)' = {}
        BY <2>3 DEF Crash, Evaluated, Attempts
      <3> QED
        BY <2>3, <3>1 DEF Crash, Verdict!Next, Verdict!Hand, Verdict!vars
    <2>4. ASSUME NEW a \in jobs, JobFails(a) PROVE [Verdict!Next]_(Verdict!vars)
      <3>1. (jobs \intersect Evaluated)' = jobs \intersect Evaluated
        BY <2>4 DEF JobFails, EndJob, Evaluated, Attempts
      <3> QED
        BY <2>4, <3>1 DEF JobFails, Verdict!vars, Evaluated, Attempts
    <2> QED
      BY <2>1, <2>2, <2>3, <2>4, InsertImplements, JobImplements
         DEF Next, vars, Check, Number
  <1>3. Verdict!Spec <=> Verdict!Init /\ [][Verdict!Next]_(Verdict!vars)
    BY DEF Verdict!Spec
  <1> QED
    BY <1>1, <1>2, <1>3, Invariance, PTL DEF Spec, ImplementsVerdict
=============================================================================
