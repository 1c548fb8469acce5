----------------------- MODULE InterviewExecutionProofs -----------------------
(***************************************************************************)
(* What holds of InterviewExecution for every plan, every set of requests  *)
(* and every catalog.                                                      *)
(***************************************************************************)
EXTENDS InterviewExecution, TLAPS

\* The row that a flush leaves is a row, and each of its columns is the one the
\* transaction changed or else the stored one.
LEMMA FlushedRow ==
    ASSUME NEW stored \in InterviewRow, NEW seen \in InterviewRow,
           NEW new \in InterviewRow
    PROVE  /\ Flushed(stored, seen, new) \in InterviewRow
           /\ \A c \in {"status", "round", "question", "difficulty"} :
                Flushed(stored, seen, new)[c] =
                  IF new[c] # seen[c] THEN new[c] ELSE stored[c]
  <1>1. DOMAIN stored = {"status", "round", "question", "difficulty"}
    BY DEF InterviewRow
  <1>2. Flushed(stored, seen, new) =
          [c \in {"status", "round", "question", "difficulty"} |->
             IF new[c] # seen[c] THEN new[c] ELSE stored[c]]
    BY <1>1 DEF Flushed
  <1>3. Flushed(stored, seen, new) =
          [status |-> IF new.status # seen.status THEN new.status ELSE stored.status,
           round |-> IF new.round # seen.round THEN new.round ELSE stored.round,
           question |-> IF new.question # seen.question THEN new.question ELSE stored.question,
           difficulty |-> IF new.difficulty # seen.difficulty THEN new.difficulty ELSE stored.difficulty]
    BY <1>2
  <1> QED
    BY <1>2, <1>3 DEF InterviewRow

\* Adapting a difficulty gives a difficulty: no signal leaves the scale.
LEMMA DifficultyClamped ==
    ASSUME NEW d \in Difficulties, NEW s \in Signals
    PROVE  ApplyDifficultySignal(d, s) \in Difficulties
  BY DEF ApplyDifficultySignal, Difficulties, Signals

\* A turn never leads past the last round of the plan, and completes the
\* interview in that round only.
LEMMA ActionInPlan ==
    ASSUME NEW here \in Rounds
    PROVE  /\ Len(RoundPlan) \in Nat
           /\ \A roots, followUps, worthy :
                LET action == DecideNextAction(RoundPlan[here], here, Len(RoundPlan),
                                               roots, followUps, worthy)
                IN  /\ action \in Actions
                    /\ NextRound(here, action) \in Rounds
                    /\ action = "COMPLETE" => here = Len(RoundPlan)
           /\ LET action == RoundTransition(here, Len(RoundPlan))
              IN  /\ action \in {"NEXT_ROUND", "COMPLETE"}
                  /\ NextRound(here, action) \in Rounds
                  /\ action = "COMPLETE" => here = Len(RoundPlan)
  <1>1. Len(RoundPlan) \in Nat /\ Rounds = 1 .. Len(RoundPlan)
    BY PlanAssumption DEF Rounds
  <1> QED
    BY <1>1 DEF DecideNextAction, RoundTransition, NextRound, Actions

\* The row a turn writes: completed, or on to the new question.
LEMMA RowAfterTurn ==
    ASSUME NEW row \in InterviewRow, row.round # 0,
           NEW action, NEW difficulty \in Difficulties, NEW n \in Nat,
           NextRound(row.round, action) \in Rounds
    PROVE  LET new == RowAfter(row, action, difficulty, n)
           IN  /\ new \in InterviewRow
               /\ new.round # 0
               /\ new.round = NextRound(row.round, action)
               /\ new.status = IF action = "COMPLETE" THEN "completed" ELSE row.status
               /\ new.question = IF action = "COMPLETE" THEN 0 ELSE n
  <1> DEFINE new == RowAfter(row, action, difficulty, n)
             next == NextRound(row.round, action)
  <1>1. next # 0
    BY PlanAssumption DEF Rounds
  <1>2. CASE action = "COMPLETE"
    <2>1. new = [status |-> "completed", round |-> row.round, question |-> 0,
                 difficulty |-> difficulty]
      BY <1>2 DEF RowAfter, InterviewRow
    <2> QED
      BY <1>2, <2>1 DEF InterviewRow, SessionStatus, NextRound
  <1>3. CASE action # "COMPLETE"
    <2>1. new = [status |-> row.status, round |-> next, question |-> n,
                 difficulty |-> difficulty]
      BY <1>3 DEF RowAfter, InterviewRow
    <2> QED
      BY <1>1, <1>3, <2>1 DEF InterviewRow
  <1> QED
    BY <1>2, <1>3

-----------------------------------------------------------------------------
(* The inductive invariant of the rows: what has begun, and that requests,  *)
(* jobs and committed turns are about questions that exist.                 *)

Begun ==
    /\ interview.status = "not_started" => questions = <<>>
    /\ questions # <<>> => interview.round # 0

JobsKnown == \A q \in jobs : q \in DOMAIN questions /\ IsCoding(q)

FlightKnown ==
    \A r \in Requests : req[r].stage # "idle" =>
       /\ req[r].question \in DOMAIN questions
       /\ req[r].view.interview.round # 0
       /\ req[r].stage \in {"read", "completing"} => IsCoding(req[r].question)

TurnsKnown ==
    \A i \in DOMAIN turns :
       /\ turns[i] \in DOMAIN questions
       /\ IsCoding(turns[i]) \/ turns[i] \in evaluated

RowsInv == TypeOK /\ Begun /\ JobsKnown /\ FlightKnown /\ TurnsKnown /\ TextTurnOnce

\* What the shared tail of a turn does to the rows.
LEMMA Transition ==
    ASSUME TypeOK, Begun, FlightKnown,
           NEW r \in Requests, req[r].stage # "idle",
           NEW action \in Actions, NEW parent \in Nat, NEW difficulty \in Difficulties,
           NextRound(req[r].view.interview.round, action) \in Rounds,
           ApplyTransition(r, action, parent, difficulty)
    PROVE  /\ interview' \in InterviewRow
           /\ interview'.status \in {interview.status, "completed"}
           /\ interview'.round # 0
           /\ roundStatus' \in [Rounds -> RoundStatus]
           /\ questions' \in Seq(Question)
           /\ questions' # <<>>
           /\ \A q \in DOMAIN questions :
                q \in DOMAIN questions' /\ questions'[q] = questions[q]
           /\ turns' = Append(turns, req[r].question)
  <1> DEFINE seen == req[r].view
             new == RowAfter(seen.interview, action, difficulty, Len(questions) + 1)
             rounds == RoundsAfter(seen.rounds, seen.interview.round, action)
             next == NextRound(seen.interview.round, action)
  <1>1. /\ seen \in View /\ seen.interview \in InterviewRow
        /\ seen.rounds \in [Rounds -> RoundStatus]
        /\ interview \in InterviewRow
        /\ roundStatus \in [Rounds -> RoundStatus]
        /\ questions \in Seq(Question) /\ Len(questions) \in Nat
    BY DEF TypeOK, Request, View
  <1>2. questions # <<>> /\ interview.round # 0 /\ seen.interview.round # 0
    BY <1>1 DEF FlightKnown, Begun
  <1>3. new \in InterviewRow /\ new.round # 0 /\ new.status \in {seen.interview.status, "completed"}
    BY <1>1, <1>2, RowAfterTurn
  <1>4. interview' = Flushed(interview, seen.interview, new)
    BY DEF ApplyTransition
  <1>5. /\ interview' \in InterviewRow
        /\ interview'.status \in {interview.status, "completed"}
        /\ interview'.round # 0
    <2>1. interview'.status =
            IF new.status # seen.interview.status THEN new.status ELSE interview.status
      BY <1>1, <1>3, <1>4, FlushedRow
    <2>2. interview'.round =
            IF new.round # seen.interview.round THEN new.round ELSE interview.round
      BY <1>1, <1>3, <1>4, FlushedRow
    <2>3. interview' \in InterviewRow
      BY <1>1, <1>3, <1>4, FlushedRow
    <2> QED
      BY <1>2, <1>3, <2>1, <2>2, <2>3
  <1>6. roundStatus' \in [Rounds -> RoundStatus]
    <2>1. rounds \in [Rounds -> RoundStatus]
      BY <1>1 DEF RoundsAfter, RoundStatus
    <2>2. roundStatus' = Flushed(roundStatus, seen.rounds, rounds)
      BY DEF ApplyTransition
    <2> QED
      BY <1>1, <2>1, <2>2 DEF Flushed
  <1>7. /\ questions' \in Seq(Question)
        /\ questions' # <<>>
        /\ \A q \in DOMAIN questions :
             q \in DOMAIN questions' /\ questions'[q] = questions[q]
    <2>1. CASE action = "COMPLETE"
      BY <1>1, <1>2, <2>1 DEF ApplyTransition
    <2>2. CASE action # "COMPLETE"
      <3>1. questions' = Append(questions, [round |-> next, parent |-> parent])
        BY <2>2 DEF ApplyTransition
      <3>2. [round |-> next, parent |-> parent] \in Question
        BY DEF Question
      <3> QED
        BY <1>1, <3>1, <3>2
    <2> QED
      BY <2>1, <2>2
  <1>8. turns' = Append(turns, req[r].question)
    BY DEF ApplyTransition
  <1> QED
    BY <1>5, <1>6, <1>7, <1>8

-----------------------------------------------------------------------------

\* The first values have their types.
LEMMA IdleIsRequest == Idle \in Request /\ PlannedRow \in InterviewRow
  BY DifficultyAssumption
     DEF Idle, Request, Stages, View, PlannedRow, PlannedRounds, InterviewRow,
         SessionStatus, RoundStatus

\* The rows are well-formed at first.
LEMMA RowsInit == Init => RowsInv
  <1> SUFFICES ASSUME Init PROVE RowsInv
    OBVIOUS
  <1>1. TypeOK
    BY IdleIsRequest, NoneAssumption
       DEF Init, TypeOK, Idle, Locked, PlannedRounds, RoundStatus
  <1>2. Begun /\ JobsKnown /\ FlightKnown /\ TurnsKnown /\ TextTurnOnce
    BY DEF Init, Begun, JobsKnown, FlightKnown, TurnsKnown, TextTurnOnce, Idle
  <1> QED
    BY <1>1, <1>2 DEF RowsInv

\* The steps that only move requests and jobs: no row a turn writes changes.
LEMMA RowsKeptByRequests ==
    ASSUME RowsInv, UNCHANGED rows,
           answers' \subseteq Nat,
           graded' \subseteq Nat, jobs' \subseteq graded',
           \A q \in jobs' : q \in DOMAIN questions /\ IsCoding(q),
           lock' \in Requests \union {None},
           req' \in [Requests -> Request],
           \A r \in Requests : req'[r].stage \in Locked <=> lock' = r,
           \A r \in Requests : req'[r].stage # "idle" =>
              /\ req'[r].question \in DOMAIN questions
              /\ req'[r].view.interview.round # 0
              /\ req'[r].stage \in {"read", "completing"} => IsCoding(req'[r].question)
    PROVE  RowsInv'
  <1>1. TypeOK'
    BY DEF RowsInv, TypeOK, rows
  <1>2. Begun' /\ TurnsKnown' /\ TextTurnOnce'
    BY DEF RowsInv, Begun, TurnsKnown, TextTurnOnce, IsCoding, rows
  <1>3. JobsKnown' /\ FlightKnown'
    BY DEF JobsKnown, FlightKnown, IsCoding, rows
  <1> QED
    BY <1>1, <1>2, <1>3 DEF RowsInv

\* Requests and jobs up to their turn keep the rows.
LEMMA RowsStepRequests ==
    ASSUME RowsInv, NEW r \in Requests,
           \/ \E q \in DOMAIN questions : SubmitAnswer(r, q)
           \/ PersistAnswer(r)
           \/ Relock(r)
           \/ \E q \in jobs : JobRead(r, q)
           \/ JobLock(r)
           \/ FailTurn(r)
    PROVE  RowsInv'
  <1> USE DEF RowsInv
  <1>0. /\ None \notin Requests
        /\ Idle \in Request /\ Idle.stage = "idle"
        /\ CurrentRows \in View /\ CurrentRows.interview = interview
        /\ \A v : Reselected(v) = v
    BY IdleIsRequest, NoneAssumption DEF Idle, CurrentRows, View, TypeOK, Reselected
  <1>1. ASSUME NEW q \in DOMAIN questions, SubmitAnswer(r, q) PROVE RowsInv'
    <2>1. questions # <<>> /\ interview.round # 0 /\ q \in Nat
      BY DEF TypeOK, Begun
    <2>2. PICK stage \in {"evaluating", "inserting"} :
             req' = [req EXCEPT ![r] = [stage |-> stage, question |-> q,
                                        view |-> CurrentRows]]
      BY <1>1 DEF SubmitAnswer
    <2>3. [stage |-> stage, question |-> q, view |-> CurrentRows] \in Request
      BY <1>0, <2>1 DEF Request, Stages
    <2>4. req' \in [Requests -> Request]
      BY <2>2, <2>3 DEF TypeOK
    <2>5. \A s \in Requests : req'[s].stage \in Locked <=> lock' = s
      BY <1>0, <1>1, <2>2 DEF SubmitAnswer, TypeOK, Locked
    <2>6. \A s \in Requests : req'[s].stage # "idle" =>
              /\ req'[s].question \in DOMAIN questions
              /\ req'[s].view.interview.round # 0
              /\ req'[s].stage \in {"read", "completing"} => IsCoding(req'[s].question)
      BY <1>0, <2>1, <2>2 DEF TypeOK, FlightKnown
    <2>7. /\ UNCHANGED <<rows, answers, graded, jobs>>
          /\ lock' = r
      BY <1>1 DEF SubmitAnswer
    <2> QED
      BY <2>4, <2>5, <2>6, <2>7, RowsKeptByRequests DEF TypeOK, JobsKnown
  <1>2. ASSUME PersistAnswer(r) PROVE RowsInv'
    <2>1. r \in Requests /\ req[r].stage = "inserting" /\ req[r] \in Request
      BY <1>2 DEF PersistAnswer, TypeOK
    <2>2. [req[r] EXCEPT !.stage = "persisted"] \in Request
      BY <2>1 DEF Request, Stages
    <2>3. PICK new \in Request :
            /\ req' = [req EXCEPT ![r] = new]
            /\ \/ new = Idle
               \/ /\ new.stage = "persisted"
                  /\ new.question = req[r].question
                  /\ new.view = req[r].view
      BY <1>0, <1>2, <2>1, <2>2 DEF PersistAnswer, Request
    <2>4. lock = r /\ lock' = None
      BY <1>2, <2>1 DEF PersistAnswer, TypeOK, Locked
    <2>5. \A s \in Requests : req'[s].stage \in Locked <=> lock' = s
      BY <1>0, <2>3, <2>4 DEF TypeOK, Locked
    <2>6. \A s \in Requests : req'[s].stage # "idle" =>
              /\ req'[s].question \in DOMAIN questions
              /\ req'[s].view.interview.round # 0
              /\ req'[s].stage \in {"read", "completing"} => IsCoding(req'[s].question)
      BY <1>0, <2>1, <2>3 DEF TypeOK, FlightKnown
    <2>7. answers' \subseteq Nat
      BY <1>2, <2>1 DEF PersistAnswer, TypeOK, Request
    <2>8. UNCHANGED <<rows, graded, jobs>> /\ req' \in [Requests -> Request]
      BY <1>2, <2>3 DEF PersistAnswer, TypeOK
    <2> QED
      BY <1>0, <2>4, <2>5, <2>6, <2>7, <2>8, RowsKeptByRequests DEF TypeOK, JobsKnown
  <1>3. ASSUME Relock(r) \/ JobLock(r) \/ FailTurn(r) PROVE RowsInv'
    <2>1. req[r] \in Request /\ req[r].stage # "idle"
      BY <1>3 DEF Relock, JobLock, FailTurn, TypeOK
    <2>2. /\ UNCHANGED <<rows, answers, graded, jobs>>
          /\ \/ /\ lock = None /\ lock' = r
                /\ \E stage \in {"evaluating", "completing"} :
                     /\ stage = "completing" => req[r].stage = "read"
                     /\ req' = [req EXCEPT ![r].stage = stage, ![r].view = req[r].view]
             \/ /\ lock' = lock
                /\ req[r].stage \notin Locked
                /\ req' = [req EXCEPT ![r] = Idle]
             \/ /\ lock' = IF lock = r THEN None ELSE lock
                /\ req[r].stage \in Locked
                /\ req' = [req EXCEPT ![r] = Idle]
      <3>1. CASE Relock(r)
        BY <1>0, <3>1 DEF Relock, Finish, Locked
      <3>2. CASE JobLock(r)
        BY <1>0, <3>2 DEF JobLock, Finish, Locked
      <3>3. CASE FailTurn(r)
        BY <3>3 DEF FailTurn, Finish, Release, Locked
      <3> QED
        BY <1>3, <3>1, <3>2, <3>3
    <2>3. PICK new :
            /\ req' = [req EXCEPT ![r] = new]
            /\ \/ /\ new = Idle
                  /\ lock' # r /\ (lock # r => lock' = lock) /\ (lock = r => lock' = None)
               \/ /\ new.stage \in {"evaluating", "completing"}
                  /\ new.stage = "completing" => req[r].stage = "read"
                  /\ new.question = req[r].question
                  /\ new.view = req[r].view
                  /\ new \in Request
                  /\ lock = None /\ lock' = r
      <3>1. ASSUME NEW stage \in {"evaluating", "completing"},
                   stage = "completing" => req[r].stage = "read",
                   lock = None, lock' = r,
                   req' = [req EXCEPT ![r].stage = stage, ![r].view = req[r].view]
            PROVE  \E new :
                     /\ req' = [req EXCEPT ![r] = new]
                     /\ new.stage \in {"evaluating", "completing"}
                     /\ new.stage = "completing" => req[r].stage = "read"
                     /\ new.question = req[r].question
                     /\ new.view = req[r].view
                     /\ new \in Request
        <4> DEFINE new == [req[r] EXCEPT !.stage = stage, !.view = req[r].view]
        <4>1. new \in Request /\ new.stage = stage /\ new.question = req[r].question
              /\ new.view = req[r].view
          BY <2>1 DEF Request, Stages
        <4>2. req' = [req EXCEPT ![r] = new]
          BY <3>1 DEF TypeOK
        <4> QED
          BY <3>1, <4>1, <4>2
      <3> QED
        BY <1>0, <2>2, <3>1 DEF TypeOK, Locked
    <2>4. req' \in [Requests -> Request]
      BY <1>0, <2>3 DEF TypeOK
    <2>5. \A s \in Requests : req'[s].stage \in Locked <=> lock' = s
      BY <1>0, <2>3 DEF TypeOK, Locked
    <2>6. \A s \in Requests : req'[s].stage # "idle" =>
              /\ req'[s].question \in DOMAIN questions
              /\ req'[s].view.interview.round # 0
              /\ req'[s].stage \in {"read", "completing"} => IsCoding(req'[s].question)
      BY <1>0, <2>1, <2>3 DEF TypeOK, FlightKnown
    <2>7. lock' \in Requests \union {None}
      BY <2>3 DEF TypeOK
    <2> QED
      BY <2>2, <2>4, <2>5, <2>6, <2>7, RowsKeptByRequests DEF TypeOK, JobsKnown
  <1>4. ASSUME NEW q \in jobs, JobRead(r, q) PROVE RowsInv'
    <2>1. q \in DOMAIN questions /\ IsCoding(q) /\ q \in Nat /\ interview.round # 0
      BY <1>4 DEF JobsKnown, Begun, TypeOK
    <2>2. req' = [req EXCEPT ![r] = [stage |-> "read", question |-> q, view |-> CurrentRows]]
      BY <1>4 DEF JobRead
    <2>3. [stage |-> "read", question |-> q, view |-> CurrentRows] \in Request
      BY <1>0, <2>1 DEF Request, Stages
    <2>4. req' \in [Requests -> Request]
      BY <2>2, <2>3 DEF TypeOK
    <2>5. \A s \in Requests : req'[s].stage \in Locked <=> lock' = s
      BY <1>4, <2>2 DEF JobRead, TypeOK, Locked
    <2>6. \A s \in Requests : req'[s].stage # "idle" =>
              /\ req'[s].question \in DOMAIN questions
              /\ req'[s].view.interview.round # 0
              /\ req'[s].stage \in {"read", "completing"} => IsCoding(req'[s].question)
      BY <1>0, <2>1, <2>2 DEF TypeOK, FlightKnown
    <2>7. UNCHANGED <<rows, answers, graded, lock>> /\ jobs' \subseteq jobs
      BY <1>4 DEF JobRead
    <2> QED
      BY <2>4, <2>5, <2>6, <2>7, RowsKeptByRequests DEF TypeOK, JobsKnown
  <1> QED
    BY <1>1, <1>2, <1>3, <1>4

\* What the two steps that commit a turn have in common.
LEMMA TurnTaken ==
    ASSUME RowsInv, NEW r \in Requests,
           EvaluateTurn(r) \/ CompleteCodingRound(r)
    PROVE  LET q == req[r].question
               seen == req[r].view.interview
           IN  /\ req[r] \in Request /\ req[r].stage \in {"evaluating", "completing"}
               /\ q \in DOMAIN questions /\ q \in Nat
               /\ seen.round \in Rounds /\ seen.difficulty \in Difficulties
               /\ req[r].stage = "completing" => IsCoding(q)
               /\ lock = r
               /\ \E action \in Actions, parent \in Nat, difficulty \in Difficulties :
                    /\ NextRound(seen.round, action) \in Rounds
                    /\ action = "COMPLETE" => seen.round = Len(RoundPlan)
                    /\ ApplyTransition(r, action, parent, difficulty)
               /\ req' = [req EXCEPT ![r] = Idle]
               /\ lock' = None
               /\ UNCHANGED <<answers, graded, jobs>>
               /\ evaluated' \in {evaluated, evaluated \union {q}}
               /\ IsCoding(q) \/ (q \notin evaluated /\ q \in evaluated')
  <1> DEFINE q == req[r].question
             seen == req[r].view.interview
  <1>1. /\ req[r] \in Request /\ req[r].stage \in {"evaluating", "completing"}
        /\ q \in DOMAIN questions /\ q \in Nat
        /\ seen.round \in Rounds /\ seen.difficulty \in Difficulties
        /\ req[r].stage = "completing" => IsCoding(q)
        /\ lock = r
    <2>1. req[r] \in Request /\ req[r].stage \in {"evaluating", "completing"}
      BY DEF RowsInv, TypeOK, EvaluateTurn, CompleteCodingRound
    <2>2. /\ q \in DOMAIN questions /\ seen.round # 0
          /\ req[r].stage = "completing" => IsCoding(q)
      BY <2>1 DEF RowsInv, FlightKnown
    <2>3. seen \in InterviewRow
      BY <2>1 DEF Request, View
    <2>4. lock = r
      BY <2>1 DEF RowsInv, TypeOK, Locked
    <2> QED
      BY <2>1, <2>2, <2>3, <2>4 DEF InterviewRow, RowsInv, TypeOK
  <1>2. \E action \in Actions, parent \in Nat, difficulty \in Difficulties :
          /\ NextRound(seen.round, action) \in Rounds
          /\ action = "COMPLETE" => seen.round = Len(RoundPlan)
          /\ ApplyTransition(r, action, parent, difficulty)
    <2>1. CASE EvaluateTurn(r)
      <3>1. PICK worthy \in BOOLEAN, signal \in Signals :
              LET action == DecideNextAction(RoundPlan[seen.round], seen.round,
                              Len(RoundPlan), Cardinality(RootQuestions(seen.round)),
                              Cardinality(FollowUps(q)), worthy)
              IN  ApplyTransition(r, action, IF action = "FOLLOW_UP" THEN q ELSE 0,
                                  ApplyDifficultySignal(seen.difficulty, signal))
        BY <2>1 DEF EvaluateTurn
      <3> DEFINE action == DecideNextAction(RoundPlan[seen.round], seen.round,
                             Len(RoundPlan), Cardinality(RootQuestions(seen.round)),
                             Cardinality(FollowUps(q)), worthy)
                 parent == IF action = "FOLLOW_UP" THEN q ELSE 0
                 difficulty == ApplyDifficultySignal(seen.difficulty, signal)
      <3>2. /\ action \in Actions
            /\ NextRound(seen.round, action) \in Rounds
            /\ action = "COMPLETE" => seen.round = Len(RoundPlan)
        <4>1. seen.round \in Rounds
          BY <1>1
        <4> HIDE DEF seen
        <4> QED
          BY <4>1, ActionInPlan
      <3>3. parent \in Nat
        BY <1>1
      <3>4. difficulty \in Difficulties
        BY <1>1, DifficultyClamped
      <3>5. ApplyTransition(r, action, parent, difficulty)
        BY <3>1
      <3> HIDE DEF action, parent, difficulty
      <3> QED
        BY <3>2, <3>3, <3>4, <3>5
    <2>2. CASE CompleteCodingRound(r)
      <3> DEFINE action == RoundTransition(seen.round, Len(RoundPlan))
      <3>1. /\ action \in Actions /\ NextRound(seen.round, action) \in Rounds
            /\ action = "COMPLETE" => seen.round = Len(RoundPlan)
        BY <1>1, ActionInPlan DEF Actions
      <3>2. ApplyTransition(r, action, 0, seen.difficulty)
        BY <2>2 DEF CompleteCodingRound
      <3> HIDE DEF action
      <3> QED
        BY <1>1, <3>1, <3>2
    <2> QED
      BY <2>1, <2>2
  <1>3. /\ req' = [req EXCEPT ![r] = Idle]
        /\ lock' = None
        /\ UNCHANGED <<answers, graded, jobs>>
        /\ evaluated' \in {evaluated, evaluated \union {q}}
        /\ IsCoding(q) \/ (q \notin evaluated /\ q \in evaluated')
    <2>1. CASE EvaluateTurn(r)
      BY <1>1, <2>1 DEF EvaluateTurn, Finish, Release, EvaluationInsertable
    <2>2. CASE CompleteCodingRound(r)
      BY <1>1, <2>2 DEF CompleteCodingRound, Finish, Release
    <2> QED
      BY <2>1, <2>2
  <1> QED
    BY <1>1, <1>2, <1>3

\* The two steps that commit a turn.
LEMMA RowsStepTurns ==
    ASSUME RowsInv, NEW r \in Requests,
           EvaluateTurn(r) \/ CompleteCodingRound(r)
    PROVE  RowsInv'
  <1> DEFINE q == req[r].question
             seen == req[r].view.interview
  <1>1. /\ req[r] \in Request /\ req[r].stage \in {"evaluating", "completing"}
        /\ q \in DOMAIN questions /\ q \in Nat
        /\ lock = r
    BY TurnTaken
  <1>2. PICK action \in Actions, parent \in Nat, difficulty \in Difficulties :
          /\ NextRound(seen.round, action) \in Rounds
          /\ ApplyTransition(r, action, parent, difficulty)
    BY TurnTaken
  <1>3. /\ interview' \in InterviewRow
        /\ interview'.status \in {interview.status, "completed"}
        /\ interview'.round # 0
        /\ roundStatus' \in [Rounds -> RoundStatus]
        /\ questions' \in Seq(Question)
        /\ questions' # <<>>
        /\ \A p \in DOMAIN questions :
             p \in DOMAIN questions' /\ questions'[p] = questions[p]
        /\ turns' = Append(turns, q)
    BY <1>1, <1>2, Transition DEF RowsInv
  <1>4. /\ req' = [req EXCEPT ![r] = Idle]
        /\ lock' = None
        /\ UNCHANGED <<answers, graded, jobs>>
        /\ evaluated' \in {evaluated, evaluated \union {q}}
        /\ IsCoding(q) \/ (q \notin evaluated /\ q \in evaluated')
    BY TurnTaken
  <1>5. \A p \in DOMAIN questions : IsCoding(p) <=> IsCoding(p)'
    BY <1>3 DEF IsCoding
  <1>6. TypeOK'
    <2>1. /\ evaluated' \subseteq Nat
          /\ turns' \in Seq(Nat)
      BY <1>1, <1>3, <1>4 DEF RowsInv, TypeOK
    <2>2. /\ req' \in [Requests -> Request]
          /\ lock' \in Requests \union {None}
      BY <1>4, IdleIsRequest DEF RowsInv, TypeOK
    <2>3. \A s \in Requests : req'[s].stage \in Locked <=> lock' = s
      BY <1>1, <1>4, NoneAssumption DEF RowsInv, TypeOK, Idle, Locked
    <2> QED
      BY <1>3, <1>4, <2>1, <2>2, <2>3 DEF RowsInv, TypeOK
  <1>7. Begun'
    <2>1. interview.status # "not_started"
      BY <1>1 DEF RowsInv, Begun, TypeOK
    <2> QED
      BY <1>3, <2>1 DEF Begun
  <1>8. JobsKnown' /\ FlightKnown'
    <2>1. JobsKnown'
      BY <1>3, <1>4, <1>5 DEF RowsInv, JobsKnown
    <2>2. FlightKnown'
      BY <1>3, <1>4, <1>5 DEF RowsInv, TypeOK, FlightKnown, Idle
    <2> QED
      BY <2>1, <2>2
  <1>9. TurnsKnown' /\ TextTurnOnce'
    <2>1. /\ turns \in Seq(Nat) /\ Len(turns) \in Nat
          /\ DOMAIN turns = 1 .. Len(turns)
          /\ DOMAIN turns' = 1 .. Len(turns) + 1
          /\ \A i \in DOMAIN turns : turns'[i] = turns[i]
          /\ turns'[Len(turns) + 1] = q
      BY <1>1, <1>3 DEF RowsInv, TypeOK
    <2>2. \A p \in DOMAIN questions :
            /\ p \in DOMAIN questions'
            /\ IsCoding(p) => RoundPlan[questions'[p].round] = CODING
      BY <1>3 DEF IsCoding
    <2>3. TurnsKnown'
      <3> SUFFICES ASSUME NEW i \in DOMAIN turns'
                   PROVE  /\ turns'[i] \in DOMAIN questions'
                          /\ \/ RoundPlan[questions'[turns'[i]].round] = CODING
                             \/ turns'[i] \in evaluated'
        BY DEF TurnsKnown, IsCoding
      <3>1. CASE i \in DOMAIN turns
        BY <1>4, <2>1, <2>2, <3>1 DEF RowsInv, TurnsKnown
      <3>2. CASE i = Len(turns) + 1
        BY <1>1, <1>4, <2>1, <2>2, <3>2
      <3> QED
        BY <2>1, <3>1, <3>2
    <2>4. TextTurnOnce'
      <3> SUFFICES ASSUME NEW i \in DOMAIN turns', NEW j \in DOMAIN turns',
                          i # j, turns'[i] = turns'[j]
                   PROVE  RoundPlan[questions'[turns'[i]].round] = CODING
        BY DEF TextTurnOnce, IsCoding
      <3>1. CASE i \in DOMAIN turns /\ j \in DOMAIN turns
        <4>1. turns[i] = turns[j] /\ turns[i] \in DOMAIN questions /\ turns'[i] = turns[i]
          BY <2>1, <3>1 DEF RowsInv, TurnsKnown
        <4>2. IsCoding(turns[i])
          BY <3>1, <4>1 DEF RowsInv, TextTurnOnce
        <4> QED
          BY <2>2, <4>1, <4>2
      <3>2. ASSUME NEW k \in DOMAIN turns, turns[k] = q
            PROVE  RoundPlan[questions'[q].round] = CODING
        BY <1>1, <1>4, <2>2, <3>2 DEF RowsInv, TurnsKnown
      <3>3. CASE i = Len(turns) + 1
        BY <2>1, <3>2, <3>3
      <3>4. CASE j = Len(turns) + 1
        BY <2>1, <3>2, <3>4
      <3> QED
        BY <2>1, <3>1, <3>3, <3>4
    <2> QED
      BY <2>3, <2>4
  <1> QED
    BY <1>6, <1>7, <1>8, <1>9 DEF RowsInv

-----------------------------------------------------------------------------

\* So does a start.
LEMMA RowsStepStart ==
    ASSUME RowsInv, NEW r \in Requests, Start(r)
    PROVE  RowsInv'
  <1>1. /\ interview \in InterviewRow /\ roundStatus \in [Rounds -> RoundStatus]
        /\ 1 \in Rounds /\ questions = <<>> /\ DOMAIN questions = {}
        /\ roundStatus' = [roundStatus EXCEPT ![1] = "active"]
        /\ questions' = <<[round |-> 1, parent |-> 0]>>
        /\ UNCHANGED <<answers, evaluated, graded, jobs, turns, lock, req>>
    <2>1. 1 \in Rounds
      BY PlanAssumption DEF Start, Rounds
    <2> QED
      BY <2>1 DEF Start, RowsInv, TypeOK, Begun
  <1>2. interview' \in InterviewRow /\ interview'.status # "not_started"
        /\ interview'.round # 0
    <2>1. interview' = [status |-> "in_progress", round |-> 1, question |-> 1,
                        difficulty |-> interview.difficulty]
      BY <1>1 DEF Start, InterviewRow
    <2> QED
      BY <1>1, <2>1 DEF InterviewRow, SessionStatus
  <1>3. roundStatus' \in [Rounds -> RoundStatus]
    BY <1>1 DEF RoundStatus
  <1>4. questions' \in Seq(Question)
    <2>1. [round |-> 1, parent |-> 0] \in Question
      BY <1>1 DEF Question
    <2> QED
      BY <1>1, <2>1
  <1>5. TypeOK' /\ Begun'
    BY <1>1, <1>2, <1>3, <1>4 DEF RowsInv, TypeOK, Begun
  <1>6. /\ jobs = {} /\ DOMAIN turns = {}
        /\ \A s \in Requests : req[s].stage = "idle"
    <2>1. jobs = {}
      BY <1>1 DEF RowsInv, JobsKnown
    <2>2. DOMAIN turns = {}
      BY <1>1 DEF RowsInv, TurnsKnown
    <2>3. \A s \in Requests : req[s].stage = "idle"
      BY <1>1 DEF RowsInv, FlightKnown
    <2> QED
      BY <2>1, <2>2, <2>3
  <1>7. JobsKnown' /\ FlightKnown' /\ TurnsKnown' /\ TextTurnOnce'
    BY <1>1, <1>6 DEF JobsKnown, FlightKnown, TurnsKnown, TextTurnOnce
  <1> QED
    BY <1>5, <1>7 DEF RowsInv

\* So do the rest of the steps.
LEMMA RowsStepRest ==
    ASSUME RowsInv,
           \/ \E r \in Requests : Abandon(r)
           \/ \E q \in DOMAIN questions : FirstSubmission(q) \/ GradeFinal(q)
           \/ Crash
           \/ UNCHANGED vars
    PROVE  RowsInv'
  <1>1. ASSUME NEW r \in Requests, Abandon(r) PROVE RowsInv'
    <2>1. /\ interview \in InterviewRow
          /\ interview' = [interview EXCEPT !.status = "abandoned"]
          /\ UNCHANGED <<roundStatus, questions, answers, evaluated, graded, jobs,
                         turns, lock, req>>
      BY <1>1 DEF Abandon, RowsInv, TypeOK
    <2>2. interview' \in InterviewRow /\ interview'.status = "abandoned"
          /\ interview'.round = interview.round
      BY <2>1 DEF InterviewRow, SessionStatus
    <2>3. TypeOK' /\ Begun'
      BY <2>1, <2>2 DEF RowsInv, TypeOK, Begun
    <2>4. JobsKnown' /\ FlightKnown' /\ TurnsKnown' /\ TextTurnOnce'
      BY <2>1 DEF RowsInv, JobsKnown, FlightKnown, TurnsKnown, TextTurnOnce, IsCoding
    <2> QED
      BY <2>3, <2>4 DEF RowsInv
  <1>2. ASSUME NEW q \in DOMAIN questions, FirstSubmission(q) \/ GradeFinal(q)
        PROVE  RowsInv'
    <2>1. /\ UNCHANGED <<rows, lock, req>> /\ q \in Nat
          /\ answers' \in {answers, answers \union {q}}
          /\ \/ UNCHANGED <<graded, jobs>>
             \/ /\ graded' = graded \union {q} /\ jobs' = jobs \union {q}
                /\ IsCoding(q)
      BY <1>2 DEF FirstSubmission, GradeFinal, RowsInv, TypeOK
    <2> QED
      BY <2>1, RowsKeptByRequests DEF RowsInv, TypeOK, JobsKnown, FlightKnown
  <1>3. ASSUME Crash PROVE RowsInv'
    <2>1. /\ UNCHANGED <<rows, answers, graded>>
          /\ lock' = None /\ jobs' = {}
          /\ req' = [r \in Requests |-> Idle]
      BY <1>3 DEF Crash
    <2>2. Idle.stage = "idle" /\ Idle \in Request /\ "idle" \notin Locked
      BY IdleIsRequest DEF Idle, Locked
    <2> QED
      BY <2>1, <2>2, NoneAssumption, RowsKeptByRequests DEF RowsInv, TypeOK
  <1>4. ASSUME UNCHANGED vars PROVE RowsInv'
    BY <1>4, RowsKeptByRequests
       DEF vars, rows, RowsInv, TypeOK, JobsKnown, FlightKnown
  <1> QED
    BY <1>1, <1>2, <1>3, <1>4

\* So does every step.
LEMMA RowsStep == RowsInv /\ [Next]_vars => RowsInv'
  <1> SUFFICES ASSUME RowsInv, [Next]_vars PROVE RowsInv'
    OBVIOUS
  <1>1. ASSUME NEW r \in Requests,
               \/ \E q \in DOMAIN questions : SubmitAnswer(r, q)
               \/ PersistAnswer(r)
               \/ Relock(r)
               \/ \E q \in jobs : JobRead(r, q)
               \/ JobLock(r)
               \/ FailTurn(r)
        PROVE  RowsInv'
    BY <1>1, RowsStepRequests
  <1>2. ASSUME NEW r \in Requests, EvaluateTurn(r) \/ CompleteCodingRound(r)
        PROVE  RowsInv'
    BY <1>2, RowsStepTurns
  <1>3. ASSUME NEW r \in Requests, Start(r) PROVE RowsInv'
    BY <1>3, RowsStepStart
  <1>4. ASSUME \/ \E r \in Requests : Abandon(r)
               \/ \E q \in DOMAIN questions : FirstSubmission(q) \/ GradeFinal(q)
               \/ Crash
               \/ UNCHANGED vars
        PROVE  RowsInv'
    BY <1>4, RowsStepRest
  <1> QED
    BY <1>1, <1>2, <1>3, <1>4 DEF Next

\* The rows are well-formed in every reachable state.
LEMMA RowsInvariant == Spec => []RowsInv
  BY RowsInit, RowsStep, PTL DEF Spec

\* Every variable keeps its type, and the row lock has the one holder that
\* stands inside a transaction, for any number of concurrent requests.
THEOREM TypeCorrect == Spec => []TypeOK
  <1>1. RowsInv => TypeOK
    BY DEF RowsInv
  <1> QED
    BY <1>1, RowsInvariant, PTL

\* The turn of a text question is committed at most once, however many requests
\* race, however stale their views are, and wherever the process dies.
THEOREM TextTurnsOnce == Spec => []TextTurnOnce
  <1>1. RowsInv => TextTurnOnce
    BY DEF RowsInv
  <1> QED
    BY <1>1, RowsInvariant, PTL

-----------------------------------------------------------------------------
(* Text answers and the end of the interview.                              *)

\* A text answer is inserted only while the interview runs: its request has had
\* the row lock since it saw it run.
OpenWhileInserting ==
    \A r \in Requests :
       req[r].stage = "inserting" => interview.status = "in_progress"

\* An answer is inserted into an open interview only.
LEMMA OpenStep ==
    ASSUME RowsInv, OpenWhileInserting, [Next]_vars
    PROVE  OpenWhileInserting'
  <1>0. /\ req \in [Requests -> Request] /\ None \notin Requests
        /\ \A r \in Requests : req[r].stage = "inserting" => lock = r
        /\ Idle.stage = "idle"
    BY NoneAssumption DEF RowsInv, TypeOK, Locked, Idle
  <1>1. ASSUME NEW r \in Requests, Start(r) \/ Abandon(r)
        PROVE  OpenWhileInserting'
    <2>1. lock = None /\ req' = req
      BY <1>1 DEF Start, Abandon
    <2> QED
      BY <1>0, <2>1 DEF OpenWhileInserting
  <1>2. ASSUME NEW r \in Requests, NEW q \in DOMAIN questions, SubmitAnswer(r, q)
        PROVE  OpenWhileInserting'
    <2>1. interview.status = "in_progress" /\ UNCHANGED interview
      BY <1>2 DEF SubmitAnswer, Accepted, rows
    <2> QED
      BY <2>1 DEF OpenWhileInserting
  <1>3. ASSUME NEW r \in Requests, EvaluateTurn(r) \/ CompleteCodingRound(r)
        PROVE  OpenWhileInserting'
    <2>1. lock = r /\ req' = [req EXCEPT ![r] = Idle]
      BY <1>3, TurnTaken
    <2> QED
      BY <1>0, <2>1 DEF OpenWhileInserting
  <1>4. ASSUME UNCHANGED interview,
               \A s \in Requests : req'[s].stage = "inserting" =>
                                    req[s].stage = "inserting"
        PROVE  OpenWhileInserting'
    BY <1>4 DEF OpenWhileInserting
  <1>5. ASSUME NEW r \in Requests,
               \/ PersistAnswer(r)
               \/ Relock(r)
               \/ \E q \in jobs : JobRead(r, q)
               \/ JobLock(r)
               \/ FailTurn(r)
        PROVE  OpenWhileInserting'
    <2>1. UNCHANGED interview
      BY <1>5 DEF PersistAnswer, Relock, JobRead, JobLock, FailTurn, rows
    <2>2. CASE PersistAnswer(r)
      <3>1. [req[r] EXCEPT !.stage = "persisted"].stage = "persisted"
        BY <1>0 DEF Request
      <3> QED
        BY <1>0, <1>4, <2>1, <2>2, <3>1 DEF PersistAnswer
    <2>3. CASE Relock(r)
      <3>1. PICK new : req' = [req EXCEPT ![r] = new] /\ new.stage # "inserting"
        <4>1. [req[r] EXCEPT !.stage = "evaluating", !.view = Reselected(req[r].view)].stage
                = "evaluating"
          BY <1>0 DEF Request
        <4> QED
          BY <1>0, <2>3, <4>1 DEF Relock, Finish
      <3> QED
        BY <1>0, <1>4, <2>1, <3>1
    <2>4. CASE JobLock(r)
      <3>1. PICK new : req' = [req EXCEPT ![r] = new] /\ new.stage # "inserting"
        <4>1. [req[r] EXCEPT !.stage = "completing", !.view = Reselected(req[r].view)].stage
                = "completing"
          BY <1>0 DEF Request
        <4> QED
          BY <1>0, <2>4, <4>1 DEF JobLock, Finish
      <3> QED
        BY <1>0, <1>4, <2>1, <3>1
    <2>5. CASE FailTurn(r)
      BY <1>0, <1>4, <2>1, <2>5 DEF FailTurn, Finish
    <2>6. ASSUME NEW q \in jobs, JobRead(r, q) PROVE OpenWhileInserting'
      BY <1>0, <1>4, <2>1, <2>6 DEF JobRead
    <2> QED
      BY <1>5, <2>2, <2>3, <2>4, <2>5, <2>6
  <1>6. ASSUME \/ \E q \in DOMAIN questions : FirstSubmission(q) \/ GradeFinal(q)
               \/ Crash
               \/ UNCHANGED vars
        PROVE  OpenWhileInserting'
    BY <1>0, <1>4, <1>6 DEF FirstSubmission, GradeFinal, Crash, vars, rows
  <1> QED
    BY <1>1, <1>2, <1>3, <1>5, <1>6 DEF Next

\* A closed interview takes coding answers only.
LEMMA ClosedStep ==
    ASSUME RowsInv, OpenWhileInserting, [Next]_vars,
           interview.status \in {"abandoned", "completed"},
           NEW q \in answers' \ answers
    PROVE  IsCoding(q)
  <1>1. CASE \E r \in Requests : PersistAnswer(r)
    BY <1>1 DEF OpenWhileInserting, PersistAnswer
  <1>2. CASE \E p \in DOMAIN questions : FirstSubmission(p)
    BY <1>2 DEF FirstSubmission
  <1>3. CASE answers' = answers
    BY <1>3
  <1>4. ASSUME NEW r \in Requests,
               \/ EvaluateTurn(r)
               \/ CompleteCodingRound(r)
        PROVE  answers' = answers
    BY <1>4 DEF EvaluateTurn, CompleteCodingRound
  <1>5. ASSUME NEW r \in Requests,
               \/ Start(r)
               \/ \E p \in DOMAIN questions : SubmitAnswer(r, p)
               \/ Relock(r)
               \/ \E p \in jobs : JobRead(r, p)
               \/ JobLock(r)
               \/ FailTurn(r)
               \/ Abandon(r)
        PROVE  answers' = answers
    BY <1>5 DEF Start, SubmitAnswer, Relock, JobRead, JobLock, FailTurn, Abandon
  <1>6. ASSUME \/ \E p \in DOMAIN questions : GradeFinal(p)
               \/ Crash
               \/ UNCHANGED vars
        PROVE  answers' = answers
    BY <1>6 DEF GradeFinal, Crash, vars
  <1> QED
    BY <1>1, <1>2, <1>3, <1>4, <1>5, <1>6 DEF Next

\* No text answer is stored once the interview has been abandoned or completed,
\* for any number of submissions between their check and their insert.
THEOREM StaysClosed == Spec => ClosedToAnswers
  <1>1. Init => OpenWhileInserting
    BY DEF Init, OpenWhileInserting, Idle
  <1>2. RowsInv /\ OpenWhileInserting /\ [Next]_vars => OpenWhileInserting'
    BY OpenStep
  <1>3. RowsInv /\ OpenWhileInserting /\ [Next]_vars =>
          [interview.status \in {"abandoned", "completed"} =>
             \A q \in answers' \ answers : IsCoding(q)]_vars
    BY ClosedStep
  <1> QED
    BY <1>1, <1>2, <1>3, RowsInvariant, PTL DEF Spec, ClosedToAnswers

\* A step that leaves the coding side's rows and jobs alone is not seen by it.
LEMMA UnseenStep ==
    ASSUME NEW q, UNCHANGED <<answers, graded, jobs>>
    PROVE  UNCHANGED Verdict(q)!vars
  BY DEF Verdict!vars

\* Only a first submission or a text answer answers a question, only a verdict
\* grades it, and only a job or a crash takes the verdict away.
LEMMA VerdictStep ==
    ASSUME TypeOK, [Next]_vars, NEW q
    PROVE  [Verdict(q)!Next]_(Verdict(q)!vars)
  <1> DEFINE Step == [Verdict(q)!Next]_(Verdict(q)!vars)
  <1>1. ASSUME UNCHANGED <<answers, graded, jobs>> PROVE Step
    BY <1>1, UnseenStep
  <1>2. ASSUME NEW p, answers' = answers \union {p}, UNCHANGED <<graded, jobs>>
        PROVE  Step
    BY <1>2 DEF Verdict!vars, Verdict!Next, Verdict!Answer
  <1>3. ASSUME NEW p \in DOMAIN questions, GradeFinal(p) PROVE Step
    <2>1. /\ p \in answers /\ p \notin graded
          /\ graded' = graded \union {p} /\ jobs' = jobs \union {p}
          /\ UNCHANGED answers
      BY <1>3 DEF GradeFinal, Gradable
    <2>2. CASE q = p
      BY <2>1, <2>2 DEF Verdict!Next, Verdict!Grade
    <2>3. CASE q # p
      BY <2>1, <2>3 DEF Verdict!vars
    <2> QED
      BY <2>2, <2>3
  <1>4. ASSUME jobs' \subseteq jobs, UNCHANGED <<answers, graded>> PROVE Step
    BY <1>4 DEF Verdict!vars, Verdict!Next, Verdict!Hand
  <1>5. ASSUME NEW r \in Requests, PersistAnswer(r) PROVE Step
    BY <1>2, <1>5 DEF PersistAnswer
  <1>6. ASSUME NEW p \in DOMAIN questions, FirstSubmission(p) PROVE Step
    BY <1>2, <1>6 DEF FirstSubmission
  <1>7. ASSUME NEW r \in Requests, NEW p \in jobs, JobRead(r, p) PROVE Step
    BY <1>4, <1>7 DEF JobRead
  <1>8. ASSUME Crash PROVE Step
    BY <1>4, <1>8 DEF Crash
  <1>9. ASSUME NEW r \in Requests,
               \/ Start(r)
               \/ \E p \in DOMAIN questions : SubmitAnswer(r, p)
               \/ Relock(r)
               \/ EvaluateTurn(r)
               \/ JobLock(r)
               \/ CompleteCodingRound(r)
               \/ FailTurn(r)
               \/ Abandon(r)
        PROVE  Step
    BY <1>1, <1>9 DEF Start, SubmitAnswer, Relock, EvaluateTurn, JobLock,
                      CompleteCodingRound, FailTurn, Abandon
  <1>10. CASE UNCHANGED vars
    BY <1>1, <1>10 DEF vars
  <1> QED
    BY <1>3, <1>5, <1>6, <1>7, <1>8, <1>9, <1>10 DEF Next

\* The execution relies on no more than CodingVerdict promises of each coding
\* question: one verdict, handed over by one job or lost with it.
THEOREM VerdictsTaken == Spec => TakesVerdicts
  <1>1. Init => \A q \in DOMAIN questions : Verdict(q)!Init
    BY DEF Init
  <1>2. RowsInv /\ [Next]_vars =>
          [\A q \in DOMAIN questions' : [Verdict(q)!Next]_(Verdict(q)!vars)]_vars
    BY VerdictStep DEF RowsInv
  <1> QED
    BY <1>1, <1>2, RowsInvariant, PTL DEF Spec, TakesVerdicts
=============================================================================
