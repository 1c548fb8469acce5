------------------------- MODULE InterviewOrderProofs -------------------------
(***************************************************************************)
(* What holds of an interview whose coding questions are answered by       *)
(* submissions only: turns and rounds follow each other in order, and the  *)
(* execution implements the sequential protocol of turns.                  *)
(***************************************************************************)
EXTENDS InterviewExecutionProofs

\* Questions and turns keep step: nothing is asked before the start, one
\* question is pending after it, none once the interview is complete.
Ledger ==
    \/ /\ interview.status \in {"not_started", "abandoned"}
       /\ interview.round = 0
       /\ questions = <<>>
       /\ turns = <<>>
    \/ /\ interview.status \in {"in_progress", "abandoned"}
       /\ interview.question = Len(questions)
       /\ Len(questions) = Len(turns) + 1
    \/ /\ interview.status = "completed"
       /\ interview.question = 0
       /\ Len(questions) = Len(turns)

\* Whose turn is over was evaluated, or graded.
Settled ==
    \A q \in 1 .. Len(turns) : q \in (IF IsCoding(q) THEN graded ELSE evaluated)

\* One job at a time, for the pending question, enqueued or running.
AtJob(r) == req[r].stage \in {"read", "completing"}

JobsPending ==
    /\ \A q \in jobs : q = Len(turns) + 1
    /\ \A r \in Requests : AtJob(r) =>
         /\ req[r].question = Len(turns) + 1
         /\ req[r].question \in graded \ jobs
    /\ \A r, s \in Requests : AtJob(r) /\ AtJob(s) => r = s

\* A view in which the request's question is pending is up to date about the
\* rounds until that question's turn is committed.
ViewsPending ==
    \A r \in Requests : req[r].stage # "idle" =>
       LET q == req[r].question
           seen == req[r].view
       IN  /\ ~AtJob(r) => ~IsCoding(q)
           /\ req[r].stage # "read" =>
                seen.interview.status = "in_progress" /\ seen.interview.question = q
           /\ q = Len(turns) + 1 /\ seen.interview.question = q =>
                seen.interview.round = interview.round /\ seen.rounds = roundStatus

OrderInv == RowsInv /\ TurnsInOrder /\ RoundsInOrder /\ Ledger /\ Settled
            /\ JobsPending /\ ViewsPending

-----------------------------------------------------------------------------

\* The order holds at first.
LEMMA OrderInit == Init => OrderInv
  <1> SUFFICES ASSUME Init PROVE OrderInv
    OBVIOUS
  <1>1. RowsInv
    BY RowsInit
  <1>2. TurnsInOrder /\ Settled /\ Ledger
    BY DEF Init, TurnsInOrder, Settled, Ledger, PlannedRow
  <1>3. RoundsInOrder
    BY PlanAssumption DEF Init, RoundsInOrder, PlannedRow, PlannedRounds, Rounds
  <1>4. JobsPending /\ ViewsPending
    BY DEF Init, JobsPending, ViewsPending, AtJob, Idle
  <1> QED
    BY <1>1, <1>2, <1>3, <1>4 DEF OrderInv

\* The steps that only move requests and jobs.
LEMMA OrderKeptByRequests ==
    ASSUME OrderInv, RowsInv', UNCHANGED rows, graded \subseteq graded',
           JobsPending', ViewsPending'
    PROVE  OrderInv'
  <1>1. TurnsInOrder' /\ RoundsInOrder' /\ Ledger'
    BY DEF OrderInv, TurnsInOrder, RoundsInOrder, Ledger, rows
  <1>2. Settled'
    BY DEF OrderInv, Settled, IsCoding, rows
  <1> QED
    BY <1>1, <1>2 DEF OrderInv

\* A request that ends leaves the others as they are.
LEMMA OrderStepEnds ==
    ASSUME OrderInv, RowsInv', NEW r \in Requests,
           UNCHANGED <<rows, graded, jobs>>,
           req' = [req EXCEPT ![r] = Idle]
    PROVE  OrderInv'
  <1>1. req \in [Requests -> Request] /\ Idle.stage = "idle"
    BY DEF OrderInv, RowsInv, TypeOK, Idle
  <1>2. JobsPending'
    BY <1>1 DEF OrderInv, JobsPending, AtJob, rows
  <1>3. ViewsPending'
    BY <1>1 DEF OrderInv, ViewsPending, AtJob, IsCoding, rows
  <1> QED
    BY <1>2, <1>3, OrderKeptByRequests DEF rows

\* So does one that goes on to its next stage with the view it has.
LEMMA OrderStepAdvances ==
    ASSUME OrderInv, RowsInv', NEW r \in Requests, NEW new,
           UNCHANGED <<rows, graded, jobs>>,
           req' = [req EXCEPT ![r] = new],
           req[r].stage # "idle",
           new.stage \notin {"idle", "read"},
           new.stage = "completing" <=> AtJob(r),
           new.question = req[r].question, new.view = req[r].view,
           req[r].stage = "read" =>
             /\ new.view.interview.status = "in_progress"
             /\ new.view.interview.question = new.question
    PROVE  OrderInv'
  <1>1. req \in [Requests -> Request]
    BY DEF OrderInv, RowsInv, TypeOK
  <1>2. JobsPending'
    BY <1>1 DEF OrderInv, JobsPending, AtJob, rows
  <1>3. ViewsPending'
    BY <1>1 DEF OrderInv, ViewsPending, AtJob, IsCoding, rows
  <1> QED
    BY <1>2, <1>3, OrderKeptByRequests DEF rows

\* Requests up to their turn keep it.
LEMMA OrderStepRequests ==
    ASSUME OrderInv, RowsInv', ~AnswersOnCoding, NEW r \in Requests,
           \/ \E q \in DOMAIN questions : SubmitAnswer(r, q)
           \/ PersistAnswer(r)
           \/ Relock(r)
           \/ JobLock(r)
           \/ FailTurn(r)
    PROVE  OrderInv'
  <1>1. /\ req \in [Requests -> Request] /\ req[r] \in Request
        /\ \A v : Reselected(v) = v
    BY DEF OrderInv, RowsInv, TypeOK, Reselected
  <1>2. ASSUME NEW q \in DOMAIN questions, SubmitAnswer(r, q) PROVE OrderInv'
    <2>1. PICK stage \in {"evaluating", "inserting"} :
             req' = [req EXCEPT ![r] = [stage |-> stage, question |-> q,
                                        view |-> CurrentRows]]
      BY <1>2 DEF SubmitAnswer
    <2>2. /\ ~IsCoding(q)
          /\ interview.status = "in_progress" /\ interview.question = q
          /\ UNCHANGED <<rows, graded, jobs>>
      BY <1>2 DEF SubmitAnswer, Accepted
    <2>3. JobsPending'
      BY <1>1, <2>1, <2>2 DEF OrderInv, JobsPending, AtJob, rows
    <2>4. ViewsPending'
      BY <1>1, <2>1, <2>2 DEF OrderInv, ViewsPending, AtJob, IsCoding, CurrentRows, rows
    <2> QED
      BY <2>2, <2>3, <2>4, OrderKeptByRequests DEF rows
  <1>3. ASSUME PersistAnswer(r) PROVE OrderInv'
    <2>1. req[r].stage = "inserting" /\ UNCHANGED <<rows, graded, jobs>>
      BY <1>3 DEF PersistAnswer
    <2>2. CASE req' = [req EXCEPT ![r] = Idle]
      BY <2>1, <2>2, OrderStepEnds
    <2>3. CASE req' = [req EXCEPT ![r] = [req[r] EXCEPT !.stage = "persisted"]]
      <3> DEFINE new == [req[r] EXCEPT !.stage = "persisted"]
      <3>1. new.stage = "persisted" /\ new.question = req[r].question
            /\ new.view = req[r].view
        BY <1>1 DEF Request
      <3> HIDE DEF new
      <3>2. ~AtJob(r)
        BY <2>1 DEF AtJob
      <3>3. req' = [req EXCEPT ![r] = new]
        BY <2>3 DEF new
      <3> QED
        BY <2>1, <3>1, <3>2, <3>3, OrderStepAdvances
    <2> QED
      BY <1>3, <2>2, <2>3 DEF PersistAnswer
  <1>4. ASSUME Relock(r) \/ JobLock(r) \/ FailTurn(r) PROVE OrderInv'
    <2>1. UNCHANGED <<rows, graded, jobs>>
      BY <1>4 DEF Relock, JobLock, FailTurn
    <2>2. CASE req' = [req EXCEPT ![r] = Idle]
      BY <2>1, <2>2, OrderStepEnds
    <2>3. ASSUME NEW stage \in {"evaluating", "completing"},
                 req' = [req EXCEPT ![r].stage = stage, ![r].view = req[r].view],
                 req[r].stage # "idle",
                 stage = "completing" <=> AtJob(r),
                 req[r].stage = "read" =>
                   /\ req[r].view.interview.status = "in_progress"
                   /\ req[r].view.interview.question = req[r].question
          PROVE  OrderInv'
      <3> DEFINE new == [req[r] EXCEPT !.stage = stage, !.view = req[r].view]
      <3>1. new.stage = stage /\ new.question = req[r].question
            /\ new.view = req[r].view
        BY <1>1 DEF Request
      <3>2. req' = [req EXCEPT ![r] = new]
        BY <1>1, <2>3
      <3> HIDE DEF new
      <3>3. /\ new.stage \notin {"idle", "read"}
            /\ new.stage = "completing" <=> AtJob(r)
        BY <2>3, <3>1
      <3>4. req[r].stage = "read" =>
              /\ new.view.interview.status = "in_progress"
              /\ new.view.interview.question = new.question
        BY <2>3, <3>1
      <3>5. req[r].stage # "idle"
        BY <2>3
      <3> QED
        BY <2>1, <3>1, <3>2, <3>3, <3>4, <3>5, OrderStepAdvances
    <2>4. CASE Relock(r)
      <3>1. req[r].stage = "persisted"
        BY <2>4 DEF Relock
      <3>2. \/ req' = [req EXCEPT ![r] = Idle]
            \/ req' = [req EXCEPT ![r].stage = "evaluating", ![r].view = req[r].view]
        BY <1>1, <2>4 DEF Relock, Finish
      <3>3. CASE req' = [req EXCEPT ![r] = Idle]
        BY <2>2, <3>3
      <3>4. CASE req' = [req EXCEPT ![r].stage = "evaluating", ![r].view = req[r].view]
        <4>1. ~AtJob(r)
          BY <3>1 DEF AtJob
        <4> QED
          BY <2>3, <3>1, <3>4, <4>1
      <3> QED
        BY <3>2, <3>3, <3>4
    <2>5. CASE JobLock(r)
      <3>1. req[r].stage = "read"
        BY <2>5 DEF JobLock
      <3>2. \/ req' = [req EXCEPT ![r] = Idle]
            \/ /\ req' = [req EXCEPT ![r].stage = "completing", ![r].view = req[r].view]
               /\ req[r].view.interview.status = "in_progress"
               /\ req[r].view.interview.question = req[r].question
        BY <1>1, <2>5 DEF JobLock, Finish, Advanceable
      <3> QED
        BY <2>2, <2>3, <3>1, <3>2 DEF AtJob
    <2>6. CASE FailTurn(r)
      BY <2>2, <2>6 DEF FailTurn, Finish
    <2> QED
      BY <1>4, <2>4, <2>5, <2>6
  <1> QED
    BY <1>2, <1>3, <1>4

\* The steps of the coding round up to its turn, a crash, and stuttering.
LEMMA OrderStepCoding ==
    ASSUME OrderInv, RowsInv',
           \/ \E r \in Requests : \E q \in jobs : JobRead(r, q)
           \/ \E q \in DOMAIN questions : FirstSubmission(q) \/ GradeFinal(q)
           \/ Crash
           \/ UNCHANGED vars
    PROVE  OrderInv'
  <1>0. req \in [Requests -> Request] /\ jobs \subseteq graded
    BY DEF OrderInv, RowsInv, TypeOK
  <1>1. ASSUME NEW r \in Requests, NEW q \in jobs, JobRead(r, q) PROVE OrderInv'
    <2>1. /\ req' = [req EXCEPT ![r] = [stage |-> "read", question |-> q,
                                        view |-> CurrentRows]]
          /\ jobs' = jobs \ {q}
          /\ UNCHANGED <<rows, graded>>
      BY <1>1 DEF JobRead
    <2>2. q = Len(turns) + 1 /\ \A s \in Requests : ~AtJob(s)
      BY DEF OrderInv, JobsPending
    <2>3. JobsPending'
      BY <1>0, <2>1, <2>2 DEF OrderInv, JobsPending, AtJob, rows
    <2>4. ViewsPending'
      BY <1>0, <2>1 DEF OrderInv, ViewsPending, AtJob, IsCoding, CurrentRows, rows
    <2> QED
      BY <2>1, <2>3, <2>4, OrderKeptByRequests DEF rows
  <1>2. ASSUME NEW q \in DOMAIN questions, FirstSubmission(q) PROVE OrderInv'
    <2>1. UNCHANGED <<rows, graded, jobs, req>>
      BY <1>2 DEF FirstSubmission
    <2>2. JobsPending' /\ ViewsPending'
      BY <2>1 DEF OrderInv, JobsPending, ViewsPending, AtJob, IsCoding, rows
    <2> QED
      BY <2>1, <2>2, OrderKeptByRequests DEF rows
  <1>3. ASSUME NEW q \in DOMAIN questions, GradeFinal(q) PROVE OrderInv'
    <2>1. /\ UNCHANGED <<rows, req>>
          /\ graded' = graded \union {q} /\ jobs' = jobs \union {q}
          /\ IsCoding(q) /\ q \notin graded
      BY <1>3 DEF GradeFinal, Gradable
    <2>2. q \in 1 .. Len(questions) /\ Len(questions) \in Nat /\ Len(turns) \in Nat
      BY DEF OrderInv, RowsInv, TypeOK
    <2>3. q \notin 1 .. Len(turns)
      BY <2>1 DEF OrderInv, Settled
    <2>4. q = Len(turns) + 1
      BY <2>2, <2>3 DEF OrderInv, Ledger
    <2>5. JobsPending'
      BY <1>0, <2>1, <2>4 DEF OrderInv, JobsPending, AtJob, rows
    <2>6. ViewsPending'
      BY <2>1 DEF OrderInv, ViewsPending, AtJob, IsCoding, rows
    <2> QED
      BY <2>1, <2>5, <2>6, OrderKeptByRequests DEF rows
  <1>4. ASSUME Crash PROVE OrderInv'
    <2>1. UNCHANGED <<rows, graded>> /\ jobs' = {} /\ req' = [r \in Requests |-> Idle]
      BY <1>4 DEF Crash
    <2>2. JobsPending' /\ ViewsPending'
      BY <2>1 DEF JobsPending, ViewsPending, AtJob, Idle
    <2> QED
      BY <2>1, <2>2, OrderKeptByRequests DEF rows
  <1>5. ASSUME UNCHANGED vars PROVE OrderInv'
    <2>1. UNCHANGED <<rows, graded, jobs, req>>
      BY <1>5 DEF vars, rows
    <2>2. JobsPending' /\ ViewsPending'
      BY <2>1 DEF OrderInv, JobsPending, ViewsPending, AtJob, IsCoding, rows
    <2> QED
      BY <2>1, <2>2, OrderKeptByRequests DEF rows
  <1> QED
    BY <1>1, <1>2, <1>3, <1>4, <1>5

\* So does a start.
LEMMA OrderStepStart ==
    ASSUME OrderInv, RowsInv', NEW r \in Requests, Start(r)
    PROVE  OrderInv'
  <1>1. /\ interview \in InterviewRow /\ roundStatus \in [Rounds -> RoundStatus]
        /\ 1 \in Rounds /\ \A i \in Rounds : i \in Nat /\ i > 0
        /\ questions = <<>>
    <2>1. 1 \in Rounds
      BY PlanAssumption DEF Start, Rounds
    <2>2. \A i \in Rounds : i \in Nat /\ i > 0
      BY PlanAssumption DEF Rounds
    <2> QED
      BY <2>1, <2>2 DEF Start, OrderInv, RowsInv, TypeOK, Begun
  <1>2. /\ roundStatus' = [roundStatus EXCEPT ![1] = "active"]
        /\ questions' = <<[round |-> 1, parent |-> 0]>>
        /\ interview'.status = "in_progress" /\ interview'.round = 1
        /\ interview'.question = 1
        /\ UNCHANGED <<answers, evaluated, graded, jobs, turns, lock, req>>
    BY <1>1 DEF Start, InterviewRow
  <1>3. turns = <<>> /\ interview.round = 0
    <2>1. Len(questions) = 0 /\ Len(turns) \in Nat
      BY <1>1 DEF OrderInv, RowsInv, TypeOK
    <2>2. interview.status = "not_started"
      BY DEF Start
    <2> QED
      BY <2>1, <2>2 DEF OrderInv, Ledger
  <1>4. jobs = {} /\ \A s \in Requests : req[s].stage = "idle"
    BY <1>1 DEF OrderInv, RowsInv, JobsKnown, FlightKnown
  <1>5. TurnsInOrder' /\ Settled' /\ Ledger'
    BY <1>2, <1>3 DEF TurnsInOrder, Settled, Ledger
  <1>6. RoundsInOrder'
    BY <1>1, <1>2, <1>3 DEF OrderInv, RoundsInOrder
  <1>7. JobsPending' /\ ViewsPending'
    BY <1>2, <1>4 DEF JobsPending, ViewsPending, AtJob
  <1> QED
    BY <1>5, <1>6, <1>7 DEF OrderInv

\* So does an abandonment.
LEMMA OrderStepAbandon ==
    ASSUME OrderInv, RowsInv', NEW r \in Requests, Abandon(r)
    PROVE  OrderInv'
  <1>1. /\ interview \in InterviewRow
        /\ interview.status \in {"not_started", "in_progress"}
        /\ interview' = [interview EXCEPT !.status = "abandoned"]
        /\ UNCHANGED <<roundStatus, questions, answers, evaluated, graded, jobs,
                       turns, lock, req>>
    BY DEF Abandon, OrderInv, RowsInv, TypeOK
  <1>2. /\ interview'.status = "abandoned" /\ interview'.round = interview.round
        /\ interview'.question = interview.question
    BY <1>1 DEF InterviewRow
  <1>3. TurnsInOrder' /\ Settled'
    BY <1>1 DEF OrderInv, TurnsInOrder, Settled, IsCoding
  <1>4. Ledger'
    BY <1>1, <1>2 DEF OrderInv, Ledger
  <1>5. RoundsInOrder'
    BY <1>1, <1>2 DEF OrderInv, RoundsInOrder
  <1>6. JobsPending' /\ ViewsPending'
    BY <1>1, <1>2 DEF OrderInv, JobsPending, ViewsPending, AtJob, IsCoding
  <1> QED
    BY <1>3, <1>4, <1>5, <1>6 DEF OrderInv

\* A turn is committed only for the pending question, by a request that sees
\* the rows of that question's turn.
LEMMA TurnOfPending ==
    ASSUME OrderInv, NEW r \in Requests,
           EvaluateTurn(r) \/ CompleteCodingRound(r)
    PROVE  LET seen == req[r].view
           IN  /\ req[r].question = Len(turns) + 1
               /\ Len(questions) = Len(turns) + 1
               /\ interview.question = Len(questions)
               /\ interview.status \in {"in_progress", "abandoned"}
               /\ seen.interview.status = "in_progress"
               /\ seen.interview.question = req[r].question
               /\ seen.interview.round = interview.round
               /\ seen.rounds = roundStatus
               /\ \A s \in Requests : s # r => ~AtJob(s)
  <1> DEFINE q == req[r].question
             seen == req[r].view
  <1>1. /\ req[r].stage \in {"evaluating", "completing"}
        /\ q \in DOMAIN questions
        /\ req[r].stage = "completing" => IsCoding(q)
        /\ IsCoding(q) \/ q \notin evaluated
    BY TurnTaken DEF OrderInv
  <1>2. q \in 1 .. Len(questions) /\ Len(questions) \in Nat /\ Len(turns) \in Nat
    BY <1>1 DEF OrderInv, RowsInv, TypeOK
  <1>3. q \notin 1 .. Len(turns)
    <2>1. CASE AtJob(r)
      BY <1>2, <2>1 DEF OrderInv, JobsPending
    <2>2. CASE ~AtJob(r)
      BY <1>1, <2>2 DEF OrderInv, ViewsPending, Settled
    <2> QED
      BY <2>1, <2>2
  <1>4. /\ q = Len(turns) + 1
        /\ Len(questions) = Len(turns) + 1
        /\ interview.question = Len(questions)
        /\ interview.status \in {"in_progress", "abandoned"}
    BY <1>2, <1>3 DEF OrderInv, Ledger
  <1>5. /\ seen.interview.status = "in_progress"
        /\ seen.interview.question = q
        /\ seen.interview.round = interview.round
        /\ seen.rounds = roundStatus
    BY <1>1, <1>4 DEF OrderInv, ViewsPending
  <1>6. \A s \in Requests : s # r => ~AtJob(s)
    <2>1. CASE AtJob(r)
      BY <2>1 DEF OrderInv, JobsPending
    <2>2. CASE ~AtJob(r)
      <3>1. ~IsCoding(q)
        BY <1>1, <2>2 DEF OrderInv, ViewsPending
      <3>2. \A s \in Requests : AtJob(s) => IsCoding(req[s].question)
        BY DEF OrderInv, RowsInv, FlightKnown, AtJob
      <3>3. \A s \in Requests : AtJob(s) => req[s].question = q
        BY <1>4 DEF OrderInv, JobsPending
      <3> QED
        BY <3>1, <3>2, <3>3
    <2> QED
      BY <2>1, <2>2
  <1> QED
    BY <1>4, <1>5, <1>6

\* What it leaves in the rows: the step from one pending question to the next,
\* or to the end.
LEMMA RowsAfterTransition ==
    ASSUME OrderInv, NEW r \in Requests,
           EvaluateTurn(r) \/ CompleteCodingRound(r),
           NEW action \in Actions, NEW parent \in Nat, NEW difficulty \in Difficulties,
           NextRound(req[r].view.interview.round, action) \in Rounds,
           ApplyTransition(r, action, parent, difficulty)
    PROVE  /\ interview'.status = IF action = "COMPLETE" THEN "completed"
                                                         ELSE interview.status
           /\ interview'.question = IF action = "COMPLETE" THEN 0
                                                           ELSE Len(questions) + 1
           /\ interview'.round = NextRound(interview.round, action)
           /\ roundStatus' = RoundsAfter(roundStatus, interview.round, action)
           /\ questions' = IF action = "COMPLETE" THEN questions
                           ELSE Append(questions,
                                  [round |-> NextRound(interview.round, action),
                                   parent |-> parent])
           /\ turns' = Append(turns, req[r].question)
  <1> DEFINE seen == req[r].view
  <1>1. /\ seen \in View /\ seen.interview \in InterviewRow
        /\ interview \in InterviewRow
        /\ roundStatus \in [Rounds -> RoundStatus]
        /\ questions \in Seq(Question) /\ Len(questions) \in Nat
    BY DEF OrderInv, RowsInv, TypeOK, Request, View
  <1>3. /\ seen.interview.status = "in_progress"
        /\ interview.status \in {"in_progress", "abandoned"}
        /\ seen.interview.question = interview.question
        /\ interview.question = Len(questions)
        /\ Len(questions) # 0
        /\ seen.interview.round = interview.round
        /\ seen.rounds = roundStatus
    <2>1. Len(turns) \in Nat
      BY DEF OrderInv, RowsInv, TypeOK
    <2> QED
      BY <2>1, TurnOfPending
  <1> DEFINE new == RowAfter(seen.interview, action, difficulty, Len(questions) + 1)
  <1>4. seen.interview.round # 0
    BY TurnTaken DEF OrderInv, RowsInv, FlightKnown
  <1>5. /\ new \in InterviewRow
        /\ new.round = NextRound(interview.round, action)
        /\ new.status = IF action = "COMPLETE" THEN "completed" ELSE "in_progress"
        /\ new.question = IF action = "COMPLETE" THEN 0 ELSE Len(questions) + 1
    BY <1>1, <1>3, <1>4, RowAfterTurn
  <1>6. interview' = Flushed(interview, seen.interview, new)
    BY DEF ApplyTransition
  <1> HIDE DEF new
  <1>7. /\ interview'.status = IF new.status # seen.interview.status THEN new.status
                                                                   ELSE interview.status
        /\ interview'.round = IF new.round # seen.interview.round THEN new.round
                                                                  ELSE interview.round
        /\ interview'.question = IF new.question # seen.interview.question
                                 THEN new.question ELSE interview.question
    BY <1>1, <1>5, <1>6, FlushedRow
  <1>8. roundStatus' = RoundsAfter(roundStatus, interview.round, action)
    <2> DEFINE after == RoundsAfter(roundStatus, interview.round, action)
    <2>1. roundStatus' = Flushed(roundStatus, roundStatus, after)
      BY <1>3 DEF ApplyTransition
    <2>2. after = [i \in Rounds |-> after[i]]
      BY DEF RoundsAfter
    <2> QED
      BY <1>1, <2>1, <2>2 DEF Flushed
  <1>9. /\ questions' = IF action = "COMPLETE" THEN questions
                        ELSE Append(questions,
                               [round |-> NextRound(interview.round, action),
                                parent |-> parent])
        /\ turns' = Append(turns, req[r].question)
    BY <1>3 DEF ApplyTransition
  <1> QED
    BY <1>1, <1>3, <1>5, <1>7, <1>8, <1>9

\* What a turn makes of the interview and its rounds.
LEMMA RowsAfterTurn ==
    ASSUME OrderInv, NEW r \in Requests,
           EvaluateTurn(r) \/ CompleteCodingRound(r)
    PROVE  \E action \in Actions :
             /\ NextRound(interview.round, action) \in Rounds
             /\ action = "COMPLETE" => interview.round = Len(RoundPlan)
             /\ interview'.status = IF action = "COMPLETE" THEN "completed"
                                                           ELSE interview.status
             /\ interview'.question = IF action = "COMPLETE" THEN 0
                                                             ELSE Len(questions) + 1
             /\ interview'.round = NextRound(interview.round, action)
             /\ roundStatus' = RoundsAfter(roundStatus, interview.round, action)
             /\ IF action = "COMPLETE" THEN questions' = questions
                ELSE \E new \in Question : questions' = Append(questions, new)
             /\ turns' = Append(turns, req[r].question)
  <1>1. PICK action \in Actions, parent \in Nat, difficulty \in Difficulties :
          /\ NextRound(req[r].view.interview.round, action) \in Rounds
          /\ action = "COMPLETE" => req[r].view.interview.round = Len(RoundPlan)
          /\ ApplyTransition(r, action, parent, difficulty)
    BY TurnTaken DEF OrderInv
  <1>2. req[r].view.interview.round = interview.round
    BY TurnOfPending
  <1>3. [round |-> NextRound(interview.round, action), parent |-> parent] \in Question
    BY <1>1, <1>2 DEF Question
  <1> QED
    BY <1>1, <1>2, <1>3, RowsAfterTransition

\* A turn keeps the order.
LEMMA OrderStepTurns ==
    ASSUME OrderInv, RowsInv', NEW r \in Requests,
           EvaluateTurn(r) \/ CompleteCodingRound(r)
    PROVE  OrderInv'
  <1> DEFINE q == req[r].question
             here == interview.round
             size == Len(RoundPlan)
  <1>1. PICK action \in Actions :
          /\ NextRound(here, action) \in Rounds
          /\ action = "COMPLETE" => here = size
          /\ interview'.status = IF action = "COMPLETE" THEN "completed"
                                                        ELSE interview.status
          /\ interview'.question = IF action = "COMPLETE" THEN 0
                                                          ELSE Len(questions) + 1
          /\ interview'.round = NextRound(here, action)
          /\ roundStatus' = RoundsAfter(roundStatus, here, action)
          /\ IF action = "COMPLETE" THEN questions' = questions
             ELSE \E new \in Question : questions' = Append(questions, new)
          /\ turns' = Append(turns, q)
    BY RowsAfterTurn
  <1>2. /\ q = Len(turns) + 1
        /\ Len(questions) = Len(turns) + 1
        /\ interview.status \in {"in_progress", "abandoned"}
        /\ \A s \in Requests : s # r => ~AtJob(s)
    BY TurnOfPending
  <1>3. /\ turns \in Seq(Nat) /\ Len(turns) \in Nat /\ q \in Nat
        /\ questions \in Seq(Question)
        /\ req \in [Requests -> Request]
        /\ Rounds = 1 .. size /\ size \in Nat /\ here \in Rounds \union {0}
    BY <1>2, PlanAssumption DEF OrderInv, RowsInv, TypeOK, InterviewRow, Rounds
  <1>4. /\ Len(turns') = Len(turns) + 1
        /\ turns'[Len(turns) + 1] = q
        /\ \A i \in 1 .. Len(turns) : turns'[i] = turns[i]
        /\ DOMAIN turns = 1 .. Len(turns)
        /\ DOMAIN turns' = 1 .. Len(turns) + 1
    BY <1>1, <1>3
  <1>5. /\ req' = [req EXCEPT ![r] = Idle]
        /\ UNCHANGED <<graded, jobs>>
        /\ evaluated' \in {evaluated, evaluated \union {q}}
        /\ IsCoding(q) \/ q \in evaluated'
        /\ req[r].stage = "completing" => IsCoding(q)
        /\ req[r].stage \in {"evaluating", "completing"}
    BY TurnTaken DEF OrderInv
  <1>6. TurnsInOrder'
    <2>1. \A i \in DOMAIN turns : turns[i] = i
      BY DEF OrderInv, TurnsInOrder
    <2> HIDE DEF q
    <2> SUFFICES ASSUME NEW i \in DOMAIN turns' PROVE turns'[i] = i
      BY DEF TurnsInOrder
    <2>2. CASE i \in 1 .. Len(turns)
      BY <1>4, <2>1, <2>2
    <2>3. CASE i = Len(turns) + 1
      BY <1>2, <1>4, <2>3
    <2> QED
      BY <1>3, <1>4, <2>2, <2>3
  <1>7. Ledger'
    <2>1. CASE action = "COMPLETE"
      BY <1>1, <1>2, <1>4, <2>1 DEF Ledger
    <2>2. CASE action # "COMPLETE"
      <3>1. Len(questions') = Len(questions) + 1
        BY <1>1, <1>3, <2>2
      <3> QED
        BY <1>1, <1>2, <1>3, <1>4, <2>2, <3>1 DEF Ledger
    <2> QED
      BY <2>1, <2>2
  <1>8. RoundsInOrder'
    <2>1. here \in 1 .. size
      BY <1>3, TurnTaken, TurnOfPending DEF OrderInv
    <2>2. /\ \A i \in Rounds : /\ i < here => roundStatus[i] = "completed"
                               /\ i > here => roundStatus[i] = "pending"
          /\ roundStatus[here] = "active"
      BY <1>2, <1>3, <2>1 DEF OrderInv, RoundsInOrder
    <2>3. \A i \in Rounds :
            roundStatus'[i] = IF i = here /\ action \in {"NEXT_ROUND", "COMPLETE"}
                              THEN "completed"
                              ELSE IF i = NextRound(here, action) /\ i # here
                              THEN "active"
                              ELSE roundStatus[i]
      BY <1>1 DEF RoundsAfter
    <2>4. CASE action = "NEXT_ROUND"
      <3>1. /\ interview'.round = here + 1
            /\ interview'.status # "completed"
        BY <1>1, <1>2, <2>4 DEF NextRound
      <3>2. \A i \in Rounds :
              roundStatus'[i] = IF i = here THEN "completed"
                                ELSE IF i = here + 1 THEN "active" ELSE roundStatus[i]
        BY <1>3, <2>1, <2>3, <2>4 DEF NextRound
      <3> HIDE DEF here
      <3> SUFFICES ASSUME NEW i \in Rounds
                   PROVE  /\ i < here + 1 => roundStatus'[i] = "completed"
                          /\ i > here + 1 => roundStatus'[i] = "pending"
                          /\ i = here + 1 => roundStatus'[i] = "active"
        BY <3>1 DEF RoundsInOrder
      <3>3. i \in Int /\ here \in Int
        BY <1>3, <2>1
      <3> QED
        BY <2>2, <3>2, <3>3
    <2>5. CASE action = "COMPLETE"
      BY <1>1, <1>2, <1>3, <2>1, <2>2, <2>3, <2>5 DEF RoundsInOrder, NextRound
    <2>6. CASE action \in {"FOLLOW_UP", "NEXT_QUESTION"}
      BY <1>1, <1>2, <1>3, <2>1, <2>2, <2>3, <2>6 DEF RoundsInOrder, NextRound
    <2> QED
      BY <2>4, <2>5, <2>6 DEF Actions
  <1>9. \A p \in DOMAIN questions : p \in DOMAIN questions' /\ questions'[p] = questions[p]
    <2>1. CASE questions' = questions
      BY <2>1
    <2>2. ASSUME NEW new \in Question, questions' = Append(questions, new)
          PROVE  \A p \in DOMAIN questions :
                   p \in DOMAIN questions' /\ questions'[p] = questions[p]
      BY <1>3, <2>2
    <2> QED
      BY <1>1, <2>1, <2>2
  <1>10. Settled'
    <2> SUFFICES ASSUME NEW p \in 1 .. Len(turns')
                 PROVE  p \in (IF RoundPlan[questions'[p].round] = CODING
                               THEN graded' ELSE evaluated')
      BY DEF Settled, IsCoding
    <2>1. p \in DOMAIN questions /\ questions'[p] = questions[p]
      BY <1>2, <1>3, <1>4, <1>9
    <2>2. CASE p \in 1 .. Len(turns)
      BY <1>5, <2>1, <2>2 DEF OrderInv, Settled, IsCoding
    <2>3. CASE p = q /\ AtJob(r)
      BY <1>5, <2>1, <2>3 DEF OrderInv, JobsPending, AtJob, IsCoding, RowsInv, FlightKnown
    <2>4. CASE p = q /\ ~AtJob(r)
      BY <1>5, <2>1, <2>4 DEF OrderInv, ViewsPending, AtJob, IsCoding
    <2> QED
      BY <1>2, <1>3, <1>4, <2>2, <2>3, <2>4
  <1>11. JobsPending'
    <2>1. \A s \in Requests : ~AtJob(s)'
      BY <1>2, <1>3, <1>5 DEF AtJob, Idle
    <2>2. jobs = {}
      <3>1. CASE AtJob(r)
        BY <1>2, <3>1 DEF OrderInv, JobsPending
      <3>2. CASE ~AtJob(r)
        <4>1. ~IsCoding(q)
          BY <1>5, <3>2 DEF OrderInv, ViewsPending
        <4> QED
          BY <1>2, <4>1 DEF OrderInv, JobsPending, RowsInv, JobsKnown
      <3> QED
        BY <3>1, <3>2
    <2> QED
      BY <1>5, <2>1, <2>2 DEF JobsPending, AtJob
  <1>12. ViewsPending'
    <2> SUFFICES ASSUME NEW s \in Requests, req'[s].stage # "idle"
                 PROVE  /\ RoundPlan[questions'[req'[s].question].round] # CODING
                        /\ req'[s].stage # "read"
                        /\ req'[s].view.interview.status = "in_progress"
                        /\ req'[s].view.interview.question = req'[s].question
                        /\ req'[s].question # Len(turns') + 1
      BY DEF ViewsPending, IsCoding
    <2>1. s # r /\ req'[s] = req[s] /\ ~AtJob(s)
      BY <1>2, <1>3, <1>5 DEF Idle
    <2>2. req[s].question \in DOMAIN questions
      BY <2>1 DEF OrderInv, RowsInv, FlightKnown
    <2>3. req[s].question # Len(turns') + 1
      BY <1>2, <1>3, <1>4, <2>2
    <2> QED
      BY <1>9, <2>1, <2>2, <2>3 DEF OrderInv, ViewsPending, AtJob, IsCoding
  <1> QED
    BY <1>6, <1>7, <1>8, <1>10, <1>11, <1>12 DEF OrderInv

\* So does every step.
LEMMA OrderStep ==
    ASSUME OrderInv, [Next]_vars, ~AnswersOnCoding
    PROVE  OrderInv'
  <1>0. RowsInv'
    BY RowsStep DEF OrderInv
  <1>1. ASSUME NEW r \in Requests, Start(r) PROVE OrderInv'
    BY <1>0, <1>1, OrderStepStart
  <1>2. ASSUME NEW r \in Requests,
               \/ \E q \in DOMAIN questions : SubmitAnswer(r, q)
               \/ PersistAnswer(r)
               \/ Relock(r)
               \/ JobLock(r)
               \/ FailTurn(r)
        PROVE  OrderInv'
    BY <1>0, <1>2, OrderStepRequests
  <1>3. ASSUME NEW r \in Requests, EvaluateTurn(r) \/ CompleteCodingRound(r)
        PROVE  OrderInv'
    BY <1>0, <1>3, OrderStepTurns
  <1>4. ASSUME NEW r \in Requests, Abandon(r) PROVE OrderInv'
    BY <1>0, <1>4, OrderStepAbandon
  <1>5. ASSUME \/ \E r \in Requests : \E q \in jobs : JobRead(r, q)
               \/ \E q \in DOMAIN questions : FirstSubmission(q) \/ GradeFinal(q)
               \/ Crash
               \/ UNCHANGED vars
        PROVE  OrderInv'
    BY <1>0, <1>5, OrderStepCoding
  <1> QED
    BY <1>1, <1>2, <1>3, <1>4, <1>5 DEF Next

\* It holds in every reachable state.
LEMMA OrderInvariant == ASSUME ~AnswersOnCoding PROVE Spec => []OrderInv
  <1>1. OrderInv /\ [Next]_vars => OrderInv'
    BY OrderStep
  <1> QED
    BY <1>1, OrderInit, PTL DEF Spec

\* The turns of an interview are those of its questions, one each and in the
\* order they were asked, for every plan and any number of racing requests and
\* jobs, as long as no text answer is posted for a coding question.
THEOREM TurnsStayInOrder ==
    ASSUME ~AnswersOnCoding
    PROVE  Spec => []TurnsInOrder
  <1>1. OrderInv => TurnsInOrder
    BY DEF OrderInv
  <1> QED
    BY <1>1, OrderInvariant, PTL

\* One question is pending while the interview runs, the last one asked, and
\* none when it has completed, for every plan and any number of requests.
THEOREM OneStaysPending ==
    ASSUME ~AnswersOnCoding
    PROVE  Spec => []OneQuestionPending
  <1>1. OrderInv => OneQuestionPending
    BY DEF OrderInv, Ledger, OneQuestionPending
  <1> QED
    BY <1>1, OrderInvariant, PTL

\* Rounds are opened and completed in plan order without a gap, although each
\* turn writes the status column of the rounds from a view of its own.
THEOREM RoundsStayInOrder ==
    ASSUME ~AnswersOnCoding
    PROVE  Spec => []RoundsInOrder
  <1>1. OrderInv => RoundsInOrder
    BY DEF OrderInv
  <1> QED
    BY <1>1, OrderInvariant, PTL

-----------------------------------------------------------------------------
(* After POST /abandon.                                                    *)

\* The interview is over with n turns, or with the one more that a request in
\* flight still commits: no request believes in a later question's turn.
OverAfter(n) ==
    /\ interview.status \in {"abandoned", "completed"}
    /\ Len(turns) <= n + 1
    /\ \A r \in Requests :
         req[r].stage # "idle" /\ req[r].view.interview.status = "in_progress" =>
           req[r].question <= n + 1

\* So it is when the interview is abandoned.
LEMMA OverAtAbandon ==
    ASSUME OrderInv, NEW n \in Nat, interview.status = "abandoned", Len(turns) = n
    PROVE  OverAfter(n)
  <1>1. /\ questions \in Seq(Question) /\ Len(questions) \in Nat
        /\ Len(questions) <= n + 1
    BY DEF OrderInv, Ledger, RowsInv, TypeOK
  <1>2. \A r \in Requests : req[r].stage # "idle" =>
          req[r].question \in 1 .. Len(questions)
    BY <1>1 DEF OrderInv, RowsInv, FlightKnown
  <1> QED
    BY <1>1, <1>2 DEF OverAfter

\* Every step keeps that.
LEMMA OverStep ==
    ASSUME OrderInv, NEW n \in Nat, OverAfter(n), [Next]_vars
    PROVE  OverAfter(n)'
  <1>0. req \in [Requests -> Request] /\ Idle.stage = "idle" /\ Len(turns) \in Nat
    BY DEF OrderInv, RowsInv, TypeOK, Idle
  <1>1. ASSUME NEW r \in Requests, Start(r) \/ Abandon(r) PROVE FALSE
    BY <1>1 DEF OverAfter, Start, Abandon
  <1>2. ASSUME NEW r \in Requests, EvaluateTurn(r) \/ CompleteCodingRound(r)
        PROVE  OverAfter(n)'
    <2>1. /\ req[r].stage # "idle" /\ req[r].view.interview.status = "in_progress"
          /\ req[r].question = Len(turns) + 1
      BY <1>2, TurnOfPending, TurnTaken DEF OrderInv
    <2>2. Len(turns) + 1 <= n + 1
      BY <2>1 DEF OverAfter
    <2>3. PICK action \in Actions :
            /\ interview'.status = IF action = "COMPLETE" THEN "completed"
                                                          ELSE interview.status
            /\ turns' = Append(turns, req[r].question)
      BY <1>2, RowsAfterTurn
    <2>4. Len(turns') = Len(turns) + 1
      BY <2>3 DEF OrderInv, RowsInv, TypeOK
    <2>5. req' = [req EXCEPT ![r] = Idle]
      BY <1>2, TurnTaken DEF OrderInv
    <2>6. \A s \in Requests : req'[s] \in {req[s], Idle}
      BY <1>0, <2>5
    <2>7. interview'.status \in {"abandoned", "completed"}
      BY <2>3 DEF OverAfter
    <2> QED
      BY <1>0, <2>2, <2>4, <2>6, <2>7 DEF OverAfter
  <1>3. ASSUME NEW r \in Requests,
               \/ PersistAnswer(r)
               \/ Relock(r)
               \/ JobLock(r)
               \/ FailTurn(r)
        PROVE  OverAfter(n)'
    <2>1. UNCHANGED rows
      BY <1>3 DEF PersistAnswer, Relock, JobLock, FailTurn
    <2>2. req[r].stage # "idle"
      BY <1>3 DEF PersistAnswer, Relock, JobLock, FailTurn
    <2>3. \/ req' = [req EXCEPT ![r] = Idle]
          \/ \E stage : req' = [req EXCEPT ![r] = [req[r] EXCEPT !.stage = stage]]
          \/ \E stage : req' = [req EXCEPT ![r].stage = stage, ![r].view = req[r].view]
      BY <1>0, <1>3 DEF PersistAnswer, Relock, JobLock, FailTurn, Finish, Reselected
    <2>4. req'[r].stage # "idle" =>
             /\ req'[r].question = req[r].question
             /\ req'[r].view = req[r].view
      BY <1>0, <2>3 DEF Request
    <2>5. \A s \in Requests : s # r => req'[s] = req[s]
      BY <1>0, <2>3
    <2> QED
      BY <2>1, <2>2, <2>4, <2>5 DEF OverAfter, rows
  <1>4. ASSUME NEW r \in Requests, NEW q \in DOMAIN questions, SubmitAnswer(r, q)
        PROVE  FALSE
    BY <1>4 DEF OverAfter, SubmitAnswer, Accepted
  <1>5. ASSUME NEW r \in Requests, NEW q \in jobs, JobRead(r, q) PROVE OverAfter(n)'
    <2>1. /\ UNCHANGED rows
          /\ req' = [req EXCEPT ![r] = [stage |-> "read", question |-> q,
                                        view |-> CurrentRows]]
      BY <1>5 DEF JobRead
    <2>2. req'[r].view.interview.status # "in_progress"
      BY <1>0, <2>1 DEF OverAfter, CurrentRows
    <2>3. \A s \in Requests : s # r => req'[s] = req[s]
      BY <1>0, <2>1
    <2> QED
      BY <2>1, <2>2, <2>3 DEF OverAfter, rows
  <1>6. ASSUME \/ \E q \in DOMAIN questions : FirstSubmission(q) \/ GradeFinal(q)
               \/ Crash
               \/ UNCHANGED vars
        PROVE  OverAfter(n)'
    <2>1. UNCHANGED rows
      BY <1>6 DEF FirstSubmission, GradeFinal, Crash, vars, rows
    <2>2. \A s \in Requests : req'[s] \in {req[s], Idle}
      BY <1>6 DEF FirstSubmission, GradeFinal, Crash, vars
    <2> QED
      BY <1>0, <2>1, <2>2 DEF OverAfter, rows
  <1> QED
    BY <1>1, <1>2, <1>3, <1>4, <1>5, <1>6 DEF Next

\* However many turns there are at the abandonment, at most one more follows.
LEMMA OneMoreAtMost ==
    ASSUME ~AnswersOnCoding, NEW n \in Nat
    PROVE  Spec => [](interview.status = "abandoned" /\ Len(turns) = n
                        => [](Len(turns) <= n + 1))
  <1>1. OrderInv /\ interview.status = "abandoned" /\ Len(turns) = n => OverAfter(n)
    BY OverAtAbandon
  <1>2. OrderInv /\ OverAfter(n) /\ [Next]_vars => OverAfter(n)'
    BY OverStep
  <1>3. OverAfter(n) => Len(turns) <= n + 1
    BY DEF OverAfter
  <1> QED
    BY <1>1, <1>2, <1>3, OrderInvariant, PTL DEF Spec

\* After an interview is abandoned at most one more turn lands, the one that was
\* in flight, for every plan and any number of requests and jobs at work with
\* views from before (submit_answer, complete_coding_round).
THEOREM OneLateTurnAtMost ==
    ASSUME ~AnswersOnCoding
    PROVE  Spec => AtMostOneLateTurn
  <1>1. ASSUME NEW n \in 0 .. 12
        PROVE  Spec => [](interview.status = "abandoned" /\ Len(turns) = n
                            => [](Len(turns) <= n + 1))
    <2>1. n \in Nat
      OBVIOUS
    <2> QED
      BY <2>1, OneMoreAtMost
  <1> QED
    BY <1>1 DEF AtMostOneLateTurn

-----------------------------------------------------------------------------
(* The concurrent execution of an interview implements the sequential      *)
(* protocol of turns (TurnProtocol), for clients that send text answers to *)
(* text questions only and do not abandon an interview in mid-turn.        *)

\* Nobody can commit a turn of an abandoned interview: the only requests are
\* jobs that saw that it does not run.
QuietWhenAbandoned ==
    interview.status = "abandoned" =>
       \A r \in Requests :
          /\ req[r].stage \in {"idle", "read"}
          /\ req[r].stage = "read" => req[r].view.interview.status # "in_progress"

\* A turn is committed while the interview runs.
LEMMA TurnOfRunning ==
    ASSUME OrderInv, QuietWhenAbandoned, NEW r \in Requests,
           EvaluateTurn(r) \/ CompleteCodingRound(r)
    PROVE  interview.status = "in_progress"
  <1>1. req[r].stage \in {"evaluating", "completing"}
    BY DEF EvaluateTurn, CompleteCodingRound
  <1>2. interview.status \in {"in_progress", "abandoned"}
    BY TurnOfPending
  <1> QED
    BY <1>1, <1>2 DEF QuietWhenAbandoned

\* Every step keeps that, without an abandonment in mid-turn.
LEMMA QuietStep ==
    ASSUME OrderInv, QuietWhenAbandoned, [Next]_vars, ~AbandonMidTurn
    PROVE  QuietWhenAbandoned'
  <1>0. req \in [Requests -> Request] /\ Idle.stage = "idle"
    BY DEF OrderInv, RowsInv, TypeOK, Idle
  <1>1. ASSUME interview'.status # "abandoned" PROVE QuietWhenAbandoned'
    BY <1>1 DEF QuietWhenAbandoned
  <1>2. ASSUME NEW r \in Requests, Start(r) PROVE QuietWhenAbandoned'
    <2>1. interview'.status = "in_progress"
      BY <1>2 DEF Start, OrderInv, RowsInv, TypeOK, InterviewRow
    <2> QED
      BY <1>1, <2>1
  <1>3. ASSUME NEW r \in Requests, NEW q \in DOMAIN questions, SubmitAnswer(r, q)
        PROVE  QuietWhenAbandoned'
    BY <1>1, <1>3 DEF SubmitAnswer, Accepted, rows
  <1>4. ASSUME NEW r \in Requests, EvaluateTurn(r) \/ CompleteCodingRound(r)
        PROVE  QuietWhenAbandoned'
    <2>1. interview'.status \in {interview.status, "completed"}
      BY <1>4, RowsAfterTurn
    <2>2. interview.status = "in_progress"
      BY <1>4, TurnOfRunning
    <2> QED
      BY <1>1, <2>1, <2>2
  <1>5. ASSUME UNCHANGED interview,
               \A s \in Requests : req'[s] = req[s] \/ req'[s].stage = "idle"
        PROVE  QuietWhenAbandoned'
    BY <1>5 DEF QuietWhenAbandoned
  <1>6. ASSUME NEW r \in Requests,
               PersistAnswer(r) \/ Relock(r) \/ JobLock(r) \/ FailTurn(r)
        PROVE  QuietWhenAbandoned'
    <2> SUFFICES ASSUME interview.status = "abandoned"
                 PROVE  QuietWhenAbandoned'
      BY <1>1, <1>6 DEF PersistAnswer, Relock, JobLock, FailTurn, rows
    <2>1. req[r].stage = "read" /\ req[r].view.interview.status # "in_progress"
      BY <1>6 DEF QuietWhenAbandoned, PersistAnswer, Relock, JobLock, FailTurn
    <2>2. UNCHANGED interview /\ req' = [req EXCEPT ![r] = Idle]
      BY <1>6, <2>1 DEF PersistAnswer, Relock, JobLock, FailTurn, Finish, Advanceable,
                        Reselected, rows
    <2> QED
      BY <1>0, <1>5, <2>2
  <1>7. ASSUME NEW r \in Requests, NEW q \in jobs, JobRead(r, q)
        PROVE  QuietWhenAbandoned'
    BY <1>0, <1>7 DEF JobRead, QuietWhenAbandoned, CurrentRows, rows
  <1>8. ASSUME NEW r \in Requests, Abandon(r) PROVE QuietWhenAbandoned'
    <2>1. \A s \in Requests : req'[s].stage = "idle"
      BY <1>8 DEF Abandon, InFlight
    <2> QED
      BY <2>1 DEF QuietWhenAbandoned
  <1>9. ASSUME \/ \E q \in DOMAIN questions : FirstSubmission(q) \/ GradeFinal(q)
               \/ Crash
               \/ UNCHANGED vars
        PROVE  QuietWhenAbandoned'
    BY <1>0, <1>5, <1>9 DEF FirstSubmission, GradeFinal, Crash, vars, rows
  <1> QED
    BY <1>2, <1>3, <1>4, <1>6, <1>7, <1>8, <1>9 DEF Next

-----------------------------------------------------------------------------
(* The steps of the protocol.                                              *)

\* Every step is a step of the turn protocol or none.
LEMMA ProtocolStep ==
    ASSUME OrderInv, QuietWhenAbandoned, [Next]_vars
    PROVE  [Protocol!Next]_(Protocol!vars)
  <1>1. ASSUME UNCHANGED <<interview, questions, turns>>
        PROVE  [Protocol!Next]_(Protocol!vars)
    BY <1>1 DEF Protocol!vars
  <1>2. ASSUME NEW r \in Requests, Start(r) PROVE Protocol!Open
    <2>1. interview \in InterviewRow
      BY DEF OrderInv, RowsInv, TypeOK
    <2>2. /\ interview.status = "not_started" /\ interview'.status = "in_progress"
          /\ interview'.round = 1
          /\ questions' = <<[round |-> 1, parent |-> 0]>> /\ turns' = turns
      BY <1>2, <2>1 DEF Start, InterviewRow
    <2> QED
      BY <2>2 DEF Protocol!Open
  <1>3. ASSUME NEW r \in Requests, EvaluateTurn(r) \/ CompleteCodingRound(r)
        PROVE  Protocol!Turn \/ Protocol!LastTurn
    <2>1. PICK action \in Actions :
            /\ NextRound(interview.round, action) \in Rounds
            /\ action = "COMPLETE" => interview.round = Len(RoundPlan)
            /\ interview'.status = IF action = "COMPLETE" THEN "completed"
                                                          ELSE interview.status
            /\ interview'.round = NextRound(interview.round, action)
            /\ IF action = "COMPLETE" THEN questions' = questions
               ELSE \E new \in Question : questions' = Append(questions, new)
            /\ turns' = Append(turns, req[r].question)
      BY <1>3, RowsAfterTurn
    <2>2. interview.status = "in_progress" /\ Len(questions) = Len(turns) + 1
      BY <1>3, TurnOfRunning, TurnOfPending
    <2>3. /\ questions \in Seq(Question) /\ Len(questions) \in Nat
          /\ turns \in Seq(Nat) /\ Len(turns) \in Nat
          /\ req[r].question \in Nat
      BY <1>3, TurnTaken DEF OrderInv, RowsInv, TypeOK
    <2>4. Len(turns') = Len(turns) + 1
      BY <2>1, <2>3
    <2>5. CASE action = "COMPLETE"
      BY <2>1, <2>2, <2>3, <2>4, <2>5 DEF Protocol!LastTurn, NextRound
    <2>6. CASE action # "COMPLETE"
      <3>1. Len(questions') = Len(questions) + 1
        BY <2>1, <2>3, <2>6
      <3>2. interview'.round \in {interview.round, interview.round + 1}
            /\ interview'.round <= Len(RoundPlan)
        BY <2>1, PlanAssumption DEF NextRound, Rounds
      <3> QED
        BY <2>1, <2>2, <2>3, <2>4, <2>6, <3>1, <3>2 DEF Protocol!Turn
    <2> QED
      BY <2>5, <2>6
  <1>4. ASSUME NEW r \in Requests, Abandon(r) PROVE Protocol!GiveUp
    BY <1>4 DEF Abandon, OrderInv, RowsInv, TypeOK, InterviewRow, Protocol!GiveUp
  <1>5. ASSUME NEW r \in Requests,
               \/ \E q \in DOMAIN questions : SubmitAnswer(r, q)
               \/ PersistAnswer(r)
               \/ Relock(r)
               \/ \E q \in jobs : JobRead(r, q)
               \/ JobLock(r)
               \/ FailTurn(r)
        PROVE  UNCHANGED <<interview, questions, turns>>
    BY <1>5 DEF SubmitAnswer, PersistAnswer, Relock, JobRead, JobLock, FailTurn, rows
  <1>6. ASSUME \/ \E q \in DOMAIN questions : FirstSubmission(q) \/ GradeFinal(q)
               \/ Crash
               \/ UNCHANGED vars
        PROVE  UNCHANGED <<interview, questions, turns>>
    BY <1>6 DEF FirstSubmission, GradeFinal, Crash, vars, rows
  <1> QED
    BY <1>1, <1>2, <1>3, <1>4, <1>5, <1>6 DEF Next, Protocol!Next

\* The concurrent, two-phase execution implements the sequential protocol of
\* turns, for every plan, any number of requests and jobs, and crashes anywhere.
THEOREM TurnProtocolImplemented ==
    ASSUME ~AnswersOnCoding, ~AbandonMidTurn
    PROVE  Spec => ImplementsProtocol
  <1>1. Init => Protocol!Init /\ QuietWhenAbandoned
    BY DEF Init, Protocol!Init, QuietWhenAbandoned, PlannedRow
  <1>2. OrderInv /\ QuietWhenAbandoned /\ [Next]_vars => QuietWhenAbandoned'
    BY QuietStep
  <1>3. OrderInv /\ QuietWhenAbandoned /\ [Next]_vars => [Protocol!Next]_(Protocol!vars)
    BY ProtocolStep
  <1> QED
    BY <1>1, <1>2, <1>3, OrderInvariant, PTL DEF Spec, ImplementsProtocol, Protocol!Spec
=============================================================================
