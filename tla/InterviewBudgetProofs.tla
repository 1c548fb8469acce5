------------------------ MODULE InterviewBudgetProofs ------------------------
(***************************************************************************)
(* How long an interview gets: its rounds are held in full and no longer,  *)
(* over every chain of follow-ups, for every plan of rounds.               *)
(***************************************************************************)
EXTENDS InterviewOrderProofs, FiniteSetTheorems

-----------------------------------------------------------------------------
(* The chains of parents.  RootOf is a recursive function: that it is well  *)
(* defined on the questions asked so far is kept, step by step, by asking   *)
(* each new question as a root or as a child of an earlier one.             *)

\* What asking one more question does to the list.
LEMMA AskedNext ==
    ASSUME NEW s \in Seq(Question), NEW new \in Question
    PROVE  /\ Len(s) \in Nat /\ DOMAIN s = 1 .. Len(s)
           /\ Append(s, new) \in Seq(Question)
           /\ Len(Append(s, new)) = Len(s) + 1
           /\ DOMAIN Append(s, new) = 1 .. Len(s) + 1
           /\ \A q \in DOMAIN s : Append(s, new)[q] = s[q]
           /\ Append(s, new)[Len(s) + 1] = new
           /\ \A q \in DOMAIN s : s[q].round \in Rounds /\ s[q].parent \in Nat
  <1>1. \A q \in DOMAIN s : s[q] \in Question
    OBVIOUS
  <1>2. \A q \in DOMAIN s : s[q].round \in Rounds /\ s[q].parent \in Nat
    BY <1>1 DEF Question
  <1>3. /\ Append(s, new) \in Seq(Question)
        /\ DOMAIN Append(s, new) = 1 .. Len(s) + 1
        /\ Len(Append(s, new)) = Len(s) + 1
    OBVIOUS
  <1>4. \A q \in DOMAIN s : Append(s, new)[q] = s[q]
    OBVIOUS
  <1>5. Append(s, new)[Len(s) + 1] = new
    OBVIOUS
  <1> QED
    BY <1>2, <1>3, <1>4, <1>5

\* f sends each question of s to the top of its chain.
Climbs(s, f) ==
    f = [q \in DOMAIN s |-> IF s[q].parent = 0 THEN q ELSE f[s[q].parent]]

\* One function does, and no other.
ClimbsOneWay(s) ==
    /\ \E f : Climbs(s, f)
    /\ \A f, g : Climbs(s, f) /\ Climbs(s, g) => f = g

\* A parent is an earlier question.
Earlier(s) == \A q \in DOMAIN s : s[q].parent < q

\* A question that is asked next leaves the tops of the others where they are.
LEMMA ClimbOfAppended ==
    ASSUME NEW s \in Seq(Question), Earlier(s), ClimbsOneWay(s),
           NEW new \in Question, new.parent \in 0 .. Len(s),
           NEW f, Climbs(s, f), NEW g, Climbs(Append(s, new), g)
    PROVE  /\ \A q \in DOMAIN s : g[q] = f[q]
           /\ g[Len(s) + 1] = IF new.parent = 0 THEN Len(s) + 1 ELSE f[new.parent]
  <1> DEFINE t == Append(s, new)
             h == [q \in DOMAIN s |-> g[q]]
  <1>1. /\ Len(s) \in Nat /\ DOMAIN s = 1 .. Len(s)
        /\ DOMAIN t = 1 .. Len(s) + 1
        /\ \A q \in DOMAIN s : t[q] = s[q]
        /\ t[Len(s) + 1] = new
        /\ \A q \in DOMAIN s : s[q].parent \in Nat
    BY AskedNext
  <1> HIDE DEF t
  <1>2. \A q \in DOMAIN t : g[q] = IF t[q].parent = 0 THEN q ELSE g[t[q].parent]
    BY DEF Climbs, t
  <1>3. \A q \in DOMAIN s : s[q].parent # 0 => s[q].parent \in DOMAIN s
    BY <1>1 DEF Earlier
  <1>4. \A q \in DOMAIN s : g[q] = IF s[q].parent = 0 THEN q ELSE h[s[q].parent]
    BY <1>1, <1>2, <1>3
  <1>5. Climbs(s, h)
    <2>1. h = [q \in DOMAIN s |-> IF s[q].parent = 0 THEN q ELSE h[s[q].parent]]
      BY <1>4
    <2> HIDE DEF h
    <2> QED
      BY <2>1 DEF Climbs
  <1>6. h = f
    BY <1>5 DEF ClimbsOneWay
  <1> QED
    BY <1>1, <1>2, <1>6

\* A question after an earlier one keeps the chains climbing one way.
LEMMA ClimbsAppended ==
    ASSUME NEW s \in Seq(Question), Earlier(s), ClimbsOneWay(s),
           NEW new \in Question, new.parent \in 0 .. Len(s)
    PROVE  ClimbsOneWay(Append(s, new))
  <1> DEFINE t == Append(s, new)
  <1>1. /\ Len(s) \in Nat /\ DOMAIN s = 1 .. Len(s)
        /\ DOMAIN t = 1 .. Len(s) + 1
        /\ \A q \in DOMAIN s : t[q] = s[q]
        /\ t[Len(s) + 1] = new
        /\ \A q \in DOMAIN s : s[q].parent \in Nat
    BY AskedNext
  <1>2. PICK f : Climbs(s, f)
    BY DEF ClimbsOneWay
  <1> DEFINE last == Len(s) + 1
             g == [q \in 1 .. last |->
                     IF q = last THEN (IF new.parent = 0 THEN q ELSE f[new.parent])
                                 ELSE f[q]]
  <1> HIDE DEF t
  <1>3. Climbs(t, g)
    <2>1. \A q \in DOMAIN s : f[q] = IF s[q].parent = 0 THEN q ELSE f[s[q].parent]
      BY <1>2 DEF Climbs
    <2>2. \A q \in DOMAIN s : s[q].parent # 0 => s[q].parent \in DOMAIN s
      BY <1>1 DEF Earlier
    <2>3. \A q \in DOMAIN s : g[q] = f[q]
      BY <1>1
    <2>4. \A q \in DOMAIN s : g[q] = IF t[q].parent = 0 THEN q ELSE g[t[q].parent]
      BY <1>1, <2>1, <2>2, <2>3
    <2>5. g[last] = IF t[last].parent = 0 THEN last ELSE g[t[last].parent]
      BY <1>1, <2>3
    <2>6. g = [q \in DOMAIN t |-> g[q]]
      BY <1>1
    <2> HIDE DEF g
    <2>7. \A q \in DOMAIN t : g[q] = IF t[q].parent = 0 THEN q ELSE g[t[q].parent]
      BY <1>1, <2>4, <2>5
    <2>8. [q \in DOMAIN t |-> g[q]] =
            [q \in DOMAIN t |-> IF t[q].parent = 0 THEN q ELSE g[t[q].parent]]
      BY <2>7
    <2> QED
      BY <2>6, <2>8 DEF Climbs
  <1>4. ASSUME NEW a, NEW b, Climbs(t, a), Climbs(t, b) PROVE a = b
    <2>1. /\ \A q \in DOMAIN s : a[q] = f[q] /\ b[q] = f[q]
          /\ a[last] = b[last]
      BY <1>2, <1>4, ClimbOfAppended DEF t
    <2>2. \A q \in DOMAIN t : a[q] = b[q]
      BY <1>1, <2>1
    <2>3. a = [q \in DOMAIN t |-> a[q]] /\ b = [q \in DOMAIN t |-> b[q]]
      BY <1>4 DEF Climbs
    <2> QED
      BY <2>2, <2>3
  <1> QED
    BY <1>3, <1>4 DEF ClimbsOneWay, t

\* RootOf is that function, for the questions asked so far.
LEMMA RootOfClimbs ==
    /\ ClimbsOneWay(questions) => Climbs(questions, RootOf)
    /\ ClimbsOneWay(questions') => Climbs(questions', RootOf')
  <1>1. ASSUME ClimbsOneWay(questions) PROVE Climbs(questions, RootOf)
    <2>1. PICK f : Climbs(questions, f)
      BY <1>1 DEF ClimbsOneWay
    <2>2. f = [q \in DOMAIN questions |->
                 IF questions[q].parent = 0 THEN q ELSE f[questions[q].parent]]
      BY <2>1 DEF Climbs
    <2>3. RootOf = [q \in DOMAIN questions |->
                      IF questions[q].parent = 0 THEN q ELSE RootOf[questions[q].parent]]
      BY <2>2 DEF RootOf
    <2> QED
      BY <2>3 DEF Climbs
  <1>2. ASSUME ClimbsOneWay(questions') PROVE Climbs(questions', RootOf')
    <2>1. PICK f : Climbs(questions', f)
      BY <1>2 DEF ClimbsOneWay
    <2>2. f = [q \in DOMAIN questions' |->
                 IF questions'[q].parent = 0 THEN q ELSE f[questions'[q].parent]]
      BY <2>1 DEF Climbs
    <2>3. RootOf' = [q \in DOMAIN questions' |->
                       IF questions'[q].parent = 0 THEN q
                                                   ELSE RootOf'[questions'[q].parent]]
      BY <2>2 DEF RootOf
    <2> QED
      BY <2>3 DEF Climbs
  <1> QED
    BY <1>1, <1>2

-----------------------------------------------------------------------------
(* The inductive invariant.                                                *)

\* Questions are asked in the rounds begun so far, the last one in the current
\* round, and a follow-up in the round of its parent.
Asked ==
    /\ Earlier(questions)
    /\ ClimbsOneWay(questions)
    /\ \A q \in DOMAIN questions :
         /\ questions[q].parent # 0 =>
              questions[questions[q].parent].round = questions[q].round
         /\ questions[q].round <= interview.round
         /\ q = Len(questions) => questions[q].round = interview.round

\* At the top of a chain is a root question of the same round.
RootsKnown ==
    \A q \in DOMAIN questions :
       /\ RootOf[q] \in DOMAIN questions
       /\ questions[RootOf[q]].parent = 0
       /\ questions[RootOf[q]].round = questions[q].round
       /\ questions[q].parent = 0 => RootOf[q] = q

\* The rounds that are over asked all their root questions.
Over(i) == i < interview.round \/ (i = interview.round /\ interview.status = "completed")

RoundsHeld ==
    /\ interview.status = "completed" => interview.round = Len(RoundPlan)
    /\ \A i \in Rounds : Over(i) =>
         Cardinality(RootQuestions(i)) = DefaultQuestionsPerRound[RoundPlan[i]]

BudgetInv == OrderInv /\ Asked /\ RootsKnown /\ QuestionBudget /\ RoundsHeld

\* The sets that are counted are finite.
LEMMA CountsFinite ==
    ASSUME questions \in Seq(Question)
    PROVE  /\ \A i : IsFiniteSet(RootQuestions(i)) /\ Cardinality(RootQuestions(i)) \in Nat
           /\ \A q : IsFiniteSet(FollowUps(q)) /\ Cardinality(FollowUps(q)) \in Nat
  <1>1. IsFiniteSet(1 .. Len(questions)) /\ DOMAIN questions = 1 .. Len(questions)
    BY FS_Interval
  <1>2. ASSUME NEW i PROVE IsFiniteSet(RootQuestions(i))
    <2>1. RootQuestions(i) \subseteq 1 .. Len(questions)
      BY <1>1 DEF RootQuestions, RoundQuestions
    <2> QED
      BY <1>1, <2>1, FS_Subset
  <1>3. ASSUME NEW q PROVE IsFiniteSet(FollowUps(q))
    <2>1. FollowUps(q) \subseteq 1 .. Len(questions)
      BY <1>1 DEF FollowUps, RoundQuestions
    <2> QED
      BY <1>1, <2>1, FS_Subset
  <1> QED
    BY <1>2, <1>3, FS_CardinalityType

\* Asking a root question or a follow-up of the last one: the chains grow at
\* their end, and only the counts of the new question's round and root change.
LEMMA ChainsAfter ==
    ASSUME questions \in Seq(Question), Asked, RootsKnown,
           NEW new \in Question,
           new.parent \in 0 .. Len(questions),
           new.parent # 0 => questions[new.parent].round = new.round,
           questions' = Append(questions, new)
    PROVE  LET n == Len(questions) + 1
           IN  /\ Earlier(questions') /\ ClimbsOneWay(questions')
               /\ \A q \in DOMAIN questions' : questions'[q].parent # 0 =>
                    questions'[questions'[q].parent].round = questions'[q].round
               /\ \A q \in DOMAIN questions : RootOf'[q] = RootOf[q]
               /\ RootOf'[n] = IF new.parent = 0 THEN n ELSE RootOf[new.parent]
               /\ RootsKnown'
  <1> DEFINE n == Len(questions) + 1
  <1>1. /\ Len(questions) \in Nat /\ DOMAIN questions = 1 .. Len(questions)
        /\ DOMAIN questions' = 1 .. n
        /\ \A q \in DOMAIN questions : questions'[q] = questions[q]
        /\ questions'[n] = new
        /\ \A q \in DOMAIN questions : questions[q].parent \in Nat
    BY AskedNext
  <1>2. Earlier(questions) /\ ClimbsOneWay(questions)
    BY DEF Asked
  <1>3. ClimbsOneWay(questions')
    BY <1>2, ClimbsAppended
  <1>4. /\ \A q \in DOMAIN questions : RootOf'[q] = RootOf[q]
        /\ RootOf'[n] = IF new.parent = 0 THEN n ELSE RootOf[new.parent]
    BY <1>2, <1>3, RootOfClimbs, ClimbOfAppended
  <1>5. \A q \in DOMAIN questions' : q \in DOMAIN questions \/ q = n
    BY <1>1
  <1>6. \A q \in DOMAIN questions : questions[q].parent # 0 =>
          questions[q].parent \in DOMAIN questions
    BY <1>1, <1>2 DEF Earlier
  <1>7. new.parent # 0 => new.parent \in DOMAIN questions
    BY <1>1
  <1>8. Earlier(questions')
    BY <1>1, <1>2, <1>5 DEF Earlier
  <1>9. \A q \in DOMAIN questions' : questions'[q].parent # 0 =>
          questions'[questions'[q].parent].round = questions'[q].round
    BY <1>1, <1>5, <1>6, <1>7 DEF Asked
  <1>10. RootsKnown'
    <2> SUFFICES ASSUME NEW q \in DOMAIN questions'
                 PROVE  /\ RootOf'[q] \in DOMAIN questions'
                        /\ questions'[RootOf'[q]].parent = 0
                        /\ questions'[RootOf'[q]].round = questions'[q].round
                        /\ questions'[q].parent = 0 => RootOf'[q] = q
      BY DEF RootsKnown
    <2>1. \A p \in DOMAIN questions : p \in DOMAIN questions'
      BY <1>1
    <2>2. CASE q \in DOMAIN questions
      BY <1>1, <1>4, <2>1, <2>2 DEF RootsKnown
    <2>3. CASE q = n /\ new.parent = 0
      BY <1>1, <1>4, <2>3
    <2>4. CASE q = n /\ new.parent # 0
      BY <1>1, <1>4, <1>7, <2>1, <2>4 DEF RootsKnown
    <2> QED
      BY <1>5, <2>2, <2>3, <2>4
  <1> QED
    BY <1>3, <1>4, <1>8, <1>9, <1>10

\* What a question that is asked adds to its root's follow-ups.
LEMMA CountsAfter ==
    ASSUME questions \in Seq(Question), Asked, RootsKnown,
           NEW new \in Question,
           new.parent \in 0 .. Len(questions),
           new.parent # 0 => questions[new.parent].round = new.round,
           questions' = Append(questions, new),
           NEW n, n = Len(questions) + 1
    PROVE  /\ \A i : RootQuestions(i)' =
                IF new.parent = 0 /\ new.round = i THEN RootQuestions(i) \union {n}
                                                  ELSE RootQuestions(i)
           /\ \A q \in DOMAIN questions : questions[q].parent = 0 =>
                FollowUps(q)' =
                  IF new.parent # 0 /\ RootOf[new.parent] = q
                  THEN FollowUps(q) \union {n} ELSE FollowUps(q)
           /\ new.parent = 0 => FollowUps(n)' = {}
  <1>1. /\ Len(questions) \in Nat /\ DOMAIN questions = 1 .. Len(questions)
        /\ DOMAIN questions' = 1 .. n
        /\ \A q \in DOMAIN questions : questions'[q] = questions[q]
        /\ questions'[n] = new
    BY AskedNext
  <1>2. /\ \A q \in DOMAIN questions : RootOf'[q] = RootOf[q]
        /\ RootOf'[n] = IF new.parent = 0 THEN n ELSE RootOf[new.parent]
    BY ChainsAfter
  <1>3. /\ \A q \in DOMAIN questions' : q \in DOMAIN questions \/ q = n
        /\ n \notin DOMAIN questions
        /\ n \in DOMAIN questions' /\ DOMAIN questions \subseteq DOMAIN questions'
        /\ new.parent # 0 => new.parent \in DOMAIN questions
    BY <1>1
  <1>4. ASSUME NEW i
        PROVE  RootQuestions(i)' =
                 IF new.parent = 0 /\ new.round = i THEN RootQuestions(i) \union {n}
                                                   ELSE RootQuestions(i)
    BY <1>1, <1>3 DEF RootQuestions, RoundQuestions
  <1>5. ASSUME NEW q \in DOMAIN questions, questions[q].parent = 0
        PROVE  FollowUps(q)' =
                 IF new.parent # 0 /\ RootOf[new.parent] = q
                 THEN FollowUps(q) \union {n} ELSE FollowUps(q)
    <2>1. RootOf[q] = q /\ RootOf'[q] = q /\ questions'[q] = questions[q]
      BY <1>1, <1>2, <1>5 DEF RootsKnown
    <2>2. new.parent # 0 /\ RootOf[new.parent] = q => new.round = questions[q].round
      BY <1>3 DEF RootsKnown
    <2>3. FollowUps(q) = {p \in DOMAIN questions :
                            /\ questions[p].round = questions[q].round
                            /\ p # q /\ RootOf[p] = q}
      BY <2>1 DEF FollowUps, RoundQuestions
    <2>4. FollowUps(q)' = {p \in DOMAIN questions' :
                             /\ questions'[p].round = questions[q].round
                             /\ p # q /\ RootOf'[p] = q}
      BY <2>1 DEF FollowUps, RoundQuestions
    <2>5. \A p \in DOMAIN questions :
             p \in FollowUps(q)' <=> p \in FollowUps(q)
      BY <1>1, <1>2, <1>3, <2>3, <2>4
    <2>6. n \in FollowUps(q)' <=> new.parent # 0 /\ RootOf[new.parent] = q
      BY <1>1, <1>2, <1>3, <2>2, <2>4
    <2>7. n \notin FollowUps(q) /\ FollowUps(q) \subseteq DOMAIN questions
          /\ FollowUps(q)' \subseteq DOMAIN questions'
      BY <1>3, <2>3, <2>4
    <2>8. CASE new.parent # 0 /\ RootOf[new.parent] = q
      BY <1>3, <2>5, <2>6, <2>7, <2>8
    <2>9. CASE ~(new.parent # 0 /\ RootOf[new.parent] = q)
      <3>1. FollowUps(q)' = FollowUps(q)
        BY <1>3, <2>5, <2>6, <2>7, <2>9
      <3> QED
        BY <2>9, <3>1
    <2> QED
      BY <2>8, <2>9
  <1>6. ASSUME new.parent = 0 PROVE FollowUps(n)' = {}
    <2>1. RootOf'[n] = n
      BY <1>2, <1>6
    <2>2. \A p \in DOMAIN questions : RootOf'[p] # n
      BY <1>2, <1>3 DEF RootsKnown
    <2>3. FollowUps(n)' \subseteq {p \in DOMAIN questions' : p # n /\ RootOf'[p] = n}
      BY <2>1 DEF FollowUps, RoundQuestions
    <2> QED
      BY <1>3, <2>2, <2>3
  <1> QED
    BY <1>4, <1>5, <1>6

\* Every kind of round asks a question at least, and a coding round just one.
LEMMA BudgetsPositive ==
    /\ \A type \in RoundTypes : DefaultQuestionsPerRound[type] \in Nat \ {0}
    /\ DefaultQuestionsPerRound[CODING] = 1
  BY DEF RoundTypes, DefaultQuestionsPerRound, CODING

\* Where no question is asked the chains and the counts stay.
LEMMA ChainsKept ==
    ASSUME Asked, RootsKnown, questions' = questions
    PROVE  /\ RootsKnown'
           /\ \A i : RootQuestions(i)' = RootQuestions(i)
           /\ \A q : FollowUps(q)' = FollowUps(q)
  <1>1. RootOf' = RootOf
    <2>1. ClimbsOneWay(questions)
      BY DEF Asked
    <2>2. Climbs(questions, RootOf) /\ Climbs(questions, RootOf')
      BY <2>1, RootOfClimbs
    <2> QED
      BY <2>1, <2>2 DEF ClimbsOneWay
  <1> QED
    BY <1>1 DEF RootsKnown, RootQuestions, RoundQuestions, FollowUps

-----------------------------------------------------------------------------
(* The steps.                                                              *)

\* The budget holds at first.
LEMMA BudgetInit == Init => BudgetInv
  <1> SUFFICES ASSUME Init PROVE BudgetInv
    OBVIOUS
  <1>1. questions = <<>> /\ DOMAIN questions = {} /\ questions \in Seq(Question)
    BY DEF Init
  <1>2. Asked
    <2> DEFINE f == [q \in DOMAIN questions |-> 0]
    <2>1. Climbs(questions, f)
      BY <1>1 DEF Climbs
    <2>2. \A a, b : Climbs(questions, a) /\ Climbs(questions, b) => a = b
      BY <1>1 DEF Climbs
    <2> HIDE DEF f
    <2>3. ClimbsOneWay(questions)
      BY <2>1, <2>2 DEF ClimbsOneWay
    <2> QED
      BY <1>1, <2>3 DEF Asked, Earlier
  <1>3. RootsKnown
    BY <1>1 DEF RootsKnown
  <1>4. QuestionBudget
    <2>1. \A i : RootQuestions(i) = {}
      BY <1>1 DEF RootQuestions, RoundQuestions
    <2>2. Cardinality({}) = 0
      BY FS_EmptySet
    <2>3. \A i \in Rounds : DefaultQuestionsPerRound[RoundPlan[i]] \in Nat
      BY PlanAssumption, BudgetsPositive DEF Rounds
    <2> QED
      BY <2>1, <2>2, <2>3 DEF QuestionBudget
  <1>5. RoundsHeld
    BY PlanAssumption DEF Init, PlannedRow, RoundsHeld, Over, Rounds
  <1> QED
    BY <1>2, <1>3, <1>4, <1>5, OrderInit DEF BudgetInv

\* The steps that ask nothing and end no round.
LEMMA BudgetKept ==
    ASSUME BudgetInv, OrderInv', questions' = questions,
           interview'.round = interview.round,
           interview'.status = "completed" => interview.status = "completed"
    PROVE  BudgetInv'
  <1>1. /\ RootsKnown'
        /\ \A i : RootQuestions(i)' = RootQuestions(i)
        /\ \A q : FollowUps(q)' = FollowUps(q)
    BY ChainsKept DEF BudgetInv
  <1>2. Asked'
    BY DEF BudgetInv, Asked
  <1>3. QuestionBudget'
    BY <1>1 DEF BudgetInv, QuestionBudget
  <1>4. RoundsHeld'
    BY <1>1 DEF BudgetInv, RoundsHeld, Over
  <1> QED
    BY <1>1, <1>2, <1>3, <1>4 DEF BudgetInv

\* A question is asked within the budget of its round, or of its root, and the
\* first one of a round only when the round before is full.
LEMMA BudgetAsked ==
    ASSUME BudgetInv, OrderInv', NEW new \in Question,
           questions' = Append(questions, new),
           new.parent \in {0, Len(questions)},
           new.round = interview'.round,
           interview'.round \in {interview.round, interview.round + 1},
           interview'.status # "completed",
           new.parent # 0 =>
             /\ new.round = interview.round
             /\ Cardinality(FollowUps(new.parent)) < MaxFollowUpsPerQuestion,
           new.parent = 0 /\ new.round = interview.round =>
             Cardinality(RootQuestions(new.round)) <
               DefaultQuestionsPerRound[RoundPlan[new.round]],
           new.round # interview.round /\ interview.round \in Rounds =>
             Cardinality(RootQuestions(interview.round)) =
               DefaultQuestionsPerRound[RoundPlan[interview.round]]
    PROVE  BudgetInv'
  <1> DEFINE here == interview.round
  <1>1. PICK n : n = Len(questions) + 1
    OBVIOUS
  <1>2. /\ questions \in Seq(Question) /\ Len(questions) \in Nat
        /\ DOMAIN questions = 1 .. Len(questions)
        /\ DOMAIN questions' = 1 .. n /\ Len(questions') = n
        /\ \A q \in DOMAIN questions : questions'[q] = questions[q]
        /\ questions'[n] = new
        /\ \A q \in DOMAIN questions : questions[q].round \in Nat
        /\ here \in Nat /\ new.round \in Rounds /\ Rounds \subseteq Nat
    <2>1. questions \in Seq(Question) /\ here \in Rounds \union {0}
      BY DEF BudgetInv, OrderInv, RowsInv, TypeOK, InterviewRow
    <2>2. new.round \in Rounds
      BY DEF Question
    <2>3. Rounds \subseteq Nat
      BY PlanAssumption DEF Rounds
    <2>4. /\ Len(questions) \in Nat
          /\ DOMAIN questions = 1 .. Len(questions)
          /\ DOMAIN questions' = 1 .. n /\ Len(questions') = n
          /\ \A q \in DOMAIN questions : questions'[q] = questions[q]
          /\ questions'[n] = new
          /\ \A q \in DOMAIN questions : questions[q].round \in Rounds
      BY <1>1, <2>1, AskedNext
    <2>5. here \in Nat
      <3>1. CASE here \in Rounds
        BY <2>3, <3>1
      <3>2. CASE here = 0
        BY <3>2
      <3> QED
        BY <2>1, <3>1, <3>2
    <2>6. \A q \in DOMAIN questions : questions[q].round \in Nat
      BY <2>3, <2>4
    <2> QED
      BY <2>1, <2>2, <2>3, <2>4, <2>5, <2>6
  <1>3. new.parent # 0 => questions[new.parent].round = new.round
    BY <1>2 DEF BudgetInv, Asked
  <1>4. new.parent \in 0 .. Len(questions)
    BY <1>2
  <1>5. Asked /\ RootsKnown
    BY DEF BudgetInv
  <1>6. /\ Earlier(questions') /\ ClimbsOneWay(questions')
        /\ \A q \in DOMAIN questions' : questions'[q].parent # 0 =>
             questions'[questions'[q].parent].round = questions'[q].round
        /\ RootsKnown'
    BY <1>2, <1>3, <1>4, <1>5, ChainsAfter
  <1>7. /\ \A i : RootQuestions(i)' =
             IF new.parent = 0 /\ new.round = i THEN RootQuestions(i) \union {n}
                                               ELSE RootQuestions(i)
        /\ new.parent = 0 => FollowUps(n)' = {}
    BY <1>1, <1>2, <1>3, <1>4, <1>5, CountsAfter
  <1>13. \A q \in DOMAIN questions : questions[q].parent = 0 =>
            FollowUps(q)' =
              IF new.parent # 0 /\ RootOf[new.parent] = q
              THEN FollowUps(q) \union {n} ELSE FollowUps(q)
    BY <1>1, <1>2, <1>3, <1>4, <1>5, CountsAfter
  <1>8. Asked'
    <2>1. \A q \in DOMAIN questions' :
            /\ questions'[q].round <= interview'.round
            /\ q = Len(questions') => questions'[q].round = interview'.round
      BY <1>1, <1>2, <1>5 DEF Asked
    <2> QED
      BY <1>6, <2>1 DEF Asked
  <1>9. /\ \A i : IsFiniteSet(RootQuestions(i)) /\ Cardinality(RootQuestions(i)) \in Nat
        /\ \A q : IsFiniteSet(FollowUps(q)) /\ Cardinality(FollowUps(q)) \in Nat
    BY <1>2, CountsFinite
  <1>10. /\ \A i : n \notin RootQuestions(i) /\ \A q : n \notin FollowUps(q)
    BY <1>1, <1>2 DEF RootQuestions, FollowUps, RoundQuestions
  <1>11. QuestionBudget'
    <2> SUFFICES ASSUME NEW i \in Rounds
                 PROVE  /\ Cardinality(RootQuestions(i)') <=
                              DefaultQuestionsPerRound[RoundPlan[i]]
                        /\ \A q \in RootQuestions(i)' :
                             Cardinality(FollowUps(q)') <= MaxFollowUpsPerQuestion
      BY DEF QuestionBudget
    <2>1. DefaultQuestionsPerRound[RoundPlan[i]] \in Nat \ {0}
      BY PlanAssumption, BudgetsPositive DEF Rounds
    <2>2. Cardinality(RootQuestions(i)') <= DefaultQuestionsPerRound[RoundPlan[i]]
      <3>1. CASE ~(new.parent = 0 /\ new.round = i)
        BY <1>7, <3>1 DEF BudgetInv, QuestionBudget
      <3>2. CASE new.parent = 0 /\ new.round = i
        <4>1. Cardinality(RootQuestions(i)') = Cardinality(RootQuestions(i)) + 1
          BY <1>7, <1>9, <1>10, <3>2, FS_AddElement
        <4>2. CASE i = here
          BY <1>9, <2>1, <3>2, <4>1, <4>2
        <4>3. CASE i # here
          <5>1. \A q \in DOMAIN questions : questions[q].round # i
            BY <1>2, <1>5, <3>2, <4>3 DEF Asked
          <5>2. RootQuestions(i) = {}
            BY <5>1 DEF RootQuestions, RoundQuestions
          <5> QED
            BY <2>1, <4>1, <5>2, FS_EmptySet
        <4> QED
          BY <4>2, <4>3
      <3> QED
        BY <3>1, <3>2
    <2>3. ASSUME NEW q \in RootQuestions(i)'
          PROVE  Cardinality(FollowUps(q)') <= MaxFollowUpsPerQuestion
      <3>1. CASE q = n
        <4>1. new.parent = 0
          BY <1>7, <1>10, <2>3, <3>1
        <4>2. FollowUps(q)' = {} /\ Cardinality({}) = 0
          BY <1>7, <3>1, <4>1, FS_EmptySet
        <4> QED
          BY <4>2 DEF MaxFollowUpsPerQuestion
      <3>2. CASE q # n
        <4>1. /\ q \in RootQuestions(i)
              /\ q \in DOMAIN questions /\ questions[q].parent = 0
          <5>1. q \in RootQuestions(i)
            BY <1>7, <2>3, <3>2
          <5> QED
            BY <5>1 DEF RootQuestions, RoundQuestions
        <4>2. Cardinality(FollowUps(q)) <= MaxFollowUpsPerQuestion
          BY <4>1 DEF BudgetInv, QuestionBudget
        <4>3. CASE new.parent # 0 /\ RootOf[new.parent] = q
          <5>1. new.parent \in DOMAIN questions
            BY <1>2, <1>4, <4>3
          <5>2. FollowUps(q) = FollowUps(new.parent)
            BY <1>5, <4>1, <4>3, <5>1 DEF RootsKnown, FollowUps
          <5>3. Cardinality(FollowUps(q)) < MaxFollowUpsPerQuestion
            BY <4>3, <5>2
          <5>4. Cardinality(FollowUps(q)') = Cardinality(FollowUps(q)) + 1
            <6>1. FollowUps(q)' = FollowUps(q) \union {n}
              <7>1. q \in DOMAIN questions /\ questions[q].parent = 0
                BY <4>1
              <7> QED
                BY <1>13, <4>3, <7>1
            <6>2. n \notin FollowUps(q)
              BY <1>10
            <6>3. IsFiniteSet(FollowUps(q))
              BY <1>9
            <6>4. Cardinality(FollowUps(q) \union {n}) = Cardinality(FollowUps(q)) + 1
              BY <6>2, <6>3, FS_AddElement
            <6> QED
              BY <6>1, <6>4
          <5> QED
            BY <1>9, <5>3, <5>4 DEF MaxFollowUpsPerQuestion
        <4>4. CASE ~(new.parent # 0 /\ RootOf[new.parent] = q)
          BY <1>13, <4>1, <4>2, <4>4
        <4> QED
          BY <4>3, <4>4
      <3> QED
        BY <3>1, <3>2
    <2> QED
      BY <2>2, <2>3
  <1>12. RoundsHeld'
    <2> SUFFICES ASSUME NEW i \in Rounds, i < interview'.round
                 PROVE  Cardinality(RootQuestions(i)') = DefaultQuestionsPerRound[RoundPlan[i]]
      BY DEF RoundsHeld, Over
    <2>1. i \in Nat /\ i # new.round
      BY <1>2
    <2>2. RootQuestions(i)' = RootQuestions(i)
      BY <1>7, <2>1
    <2>3. CASE i < here
      BY <2>2, <2>3 DEF BudgetInv, RoundsHeld, Over
    <2>4. CASE i = here
      BY <2>1, <2>2, <2>4
    <2> QED
      BY <1>2, <2>1, <2>3, <2>4
  <1> QED
    BY <1>6, <1>8, <1>11, <1>12 DEF BudgetInv

\* What a turn decides: a follow-up while the root has any left, another root
\* question while the round is short, the next round or the end once it is full.
LEMMA TurnDecided ==
    ASSUME BudgetInv, NEW r \in Requests,
           EvaluateTurn(r) \/ CompleteCodingRound(r)
    PROVE  \E action \in Actions, new \in Question :
             /\ interview.round \in Rounds
             /\ interview.status # "completed"
             /\ new.round = NextRound(interview.round, action)
             /\ new.parent = IF action = "FOLLOW_UP" THEN Len(questions) ELSE 0
             /\ interview'.round = new.round
             /\ interview'.status = IF action = "COMPLETE" THEN "completed"
                                                           ELSE interview.status
             /\ questions' = IF action = "COMPLETE" THEN questions
                             ELSE Append(questions, new)
             /\ action = "COMPLETE" => interview.round = Len(RoundPlan)
             /\ action = "FOLLOW_UP" =>
                  Cardinality(FollowUps(Len(questions))) < MaxFollowUpsPerQuestion
             /\ action = "NEXT_QUESTION" =>
                  Cardinality(RootQuestions(interview.round)) <
                    DefaultQuestionsPerRound[RoundPlan[interview.round]]
             /\ action \in {"NEXT_ROUND", "COMPLETE"} =>
                  Cardinality(RootQuestions(interview.round)) =
                    DefaultQuestionsPerRound[RoundPlan[interview.round]]
  <1> DEFINE q == req[r].question
             here == interview.round
             seen == req[r].view.interview
             roots == Cardinality(RootQuestions(here))
             length == DefaultQuestionsPerRound[RoundPlan[here]]
  <1>1. /\ q = Len(questions) /\ q \in DOMAIN questions
        /\ seen.round = here /\ here \in Rounds
        /\ interview.status # "completed"
        /\ seen.difficulty \in Difficulties
        /\ req[r].stage = "completing" => IsCoding(q)
    BY TurnOfPending, TurnTaken DEF BudgetInv, OrderInv
  <1>2. roots \in Nat /\ length \in Nat /\ roots <= length
    <2>1. questions \in Seq(Question)
      BY DEF BudgetInv, OrderInv, RowsInv, TypeOK
    <2>2. length \in Nat
      BY <1>1, PlanAssumption, BudgetsPositive DEF Rounds
    <2> QED
      BY <1>1, <2>1, <2>2, CountsFinite DEF BudgetInv, QuestionBudget
  <1>3. ASSUME NEW action \in Actions, NEW parent \in Nat, NEW difficulty \in Difficulties,
               NextRound(here, action) \in Rounds,
               ApplyTransition(r, action, parent, difficulty),
               parent = IF action = "FOLLOW_UP" THEN q ELSE 0,
               action = "COMPLETE" => here = Len(RoundPlan),
               action = "FOLLOW_UP" => Cardinality(FollowUps(q)) < MaxFollowUpsPerQuestion,
               action = "NEXT_QUESTION" => roots < length,
               action \in {"NEXT_ROUND", "COMPLETE"} => roots = length
        PROVE  \E new \in Question :
                 /\ new.round = NextRound(here, action)
                 /\ new.parent = IF action = "FOLLOW_UP" THEN Len(questions) ELSE 0
                 /\ interview'.round = new.round
                 /\ interview'.status = IF action = "COMPLETE" THEN "completed"
                                                               ELSE interview.status
                 /\ questions' = IF action = "COMPLETE" THEN questions
                                 ELSE Append(questions, new)
    <2> DEFINE new == [round |-> NextRound(here, action), parent |-> parent]
    <2>1. /\ interview'.status = IF action = "COMPLETE" THEN "completed"
                                                        ELSE interview.status
          /\ interview'.round = NextRound(here, action)
          /\ questions' = IF action = "COMPLETE" THEN questions ELSE Append(questions, new)
      BY <1>1, <1>3, RowsAfterTransition DEF BudgetInv
    <2>2. new \in Question /\ new.round = NextRound(here, action) /\ new.parent = parent
      BY <1>3 DEF Question
    <2> HIDE DEF new
    <2> QED
      BY <1>1, <1>3, <2>1, <2>2
  <1>4. CASE EvaluateTurn(r)
    <2>1. PICK worthy \in BOOLEAN, signal \in Signals :
            LET difficulty == ApplyDifficultySignal(seen.difficulty, signal)
                action == DecideNextAction(RoundPlan[here], here, Len(RoundPlan), roots,
                                           Cardinality(FollowUps(q)), worthy)
            IN  ApplyTransition(r, action, IF action = "FOLLOW_UP" THEN q ELSE 0, difficulty)
      BY <1>1, <1>4 DEF EvaluateTurn
    <2>2. PICK action : action = DecideNextAction(RoundPlan[here], here, Len(RoundPlan),
                                   roots, Cardinality(FollowUps(q)), worthy)
      OBVIOUS
    <2>3. PICK difficulty \in Difficulties :
            ApplyTransition(r, action, IF action = "FOLLOW_UP" THEN q ELSE 0, difficulty)
      BY <1>1, <2>1, <2>2, DifficultyClamped
    <2>4. /\ action \in Actions /\ NextRound(here, action) \in Rounds
          /\ action = "COMPLETE" => here = Len(RoundPlan)
      BY <1>1, <2>2, ActionInPlan
    <2>5. /\ action = "FOLLOW_UP" => Cardinality(FollowUps(q)) < MaxFollowUpsPerQuestion
          /\ action = "NEXT_QUESTION" => roots < length
          /\ action \in {"NEXT_ROUND", "COMPLETE"} => ~(roots < length)
      BY <2>2 DEF DecideNextAction, FollowUpDue, RoundShort
    <2>6. action \in {"NEXT_ROUND", "COMPLETE"} => roots = length
      BY <1>2, <2>5
    <2>7. PICK parent \in Nat : parent = IF action = "FOLLOW_UP" THEN q ELSE 0
      BY <1>1, TurnTaken DEF BudgetInv, OrderInv
    <2> HIDE DEF roots, length, q, here
    <2> QED
      BY <1>1, <1>3, <2>3, <2>4, <2>5, <2>6, <2>7 DEF roots, length, q, here
  <1>5. CASE CompleteCodingRound(r)
    <2> DEFINE action == RoundTransition(here, Len(RoundPlan))
    <2>1. /\ ApplyTransition(r, action, 0, seen.difficulty)
          /\ req[r].stage = "completing"
      BY <1>1, <1>5 DEF CompleteCodingRound
    <2>2. /\ action \in {"NEXT_ROUND", "COMPLETE"} /\ NextRound(here, action) \in Rounds
          /\ action = "COMPLETE" => here = Len(RoundPlan)
      BY <1>1, ActionInPlan
    <2>3. roots = length
      <3>1. questions[q].round = here /\ length = 1
        BY <1>1, <2>1, BudgetsPositive DEF BudgetInv, Asked, IsCoding
      <3>2. RootOf[q] \in RootQuestions(here)
        BY <1>1, <3>1 DEF BudgetInv, RootsKnown, RootQuestions, RoundQuestions
      <3>3. IsFiniteSet(RootQuestions(here))
        BY CountsFinite DEF BudgetInv, OrderInv, RowsInv, TypeOK
      <3>4. roots # 0
        BY <3>2, <3>3, FS_EmptySet
      <3> QED
        BY <1>2, <3>1, <3>4
    <2> HIDE DEF action
    <2>4. action \in Actions /\ action # "FOLLOW_UP" /\ action # "NEXT_QUESTION"
      BY <2>2 DEF Actions
    <2> QED
      BY <1>1, <1>3, <2>1, <2>2, <2>3, <2>4
  <1> QED
    BY <1>4, <1>5

\* A turn keeps it.
LEMMA BudgetStepTurns ==
    ASSUME BudgetInv, OrderInv', NEW r \in Requests,
           EvaluateTurn(r) \/ CompleteCodingRound(r)
    PROVE  BudgetInv'
  <1> DEFINE here == interview.round
  <1>1. PICK action \in Actions, new \in Question :
          /\ here \in Rounds
          /\ interview.status # "completed"
          /\ new.round = NextRound(here, action)
          /\ new.parent = IF action = "FOLLOW_UP" THEN Len(questions) ELSE 0
          /\ interview'.round = new.round
          /\ interview'.status = IF action = "COMPLETE" THEN "completed"
                                                        ELSE interview.status
          /\ questions' = IF action = "COMPLETE" THEN questions
                          ELSE Append(questions, new)
          /\ action = "COMPLETE" => here = Len(RoundPlan)
          /\ action = "FOLLOW_UP" =>
               Cardinality(FollowUps(Len(questions))) < MaxFollowUpsPerQuestion
          /\ action = "NEXT_QUESTION" =>
               Cardinality(RootQuestions(here)) < DefaultQuestionsPerRound[RoundPlan[here]]
          /\ action \in {"NEXT_ROUND", "COMPLETE"} =>
               Cardinality(RootQuestions(here)) = DefaultQuestionsPerRound[RoundPlan[here]]
    BY TurnDecided
  <1>2. here \in Nat
    BY <1>1, PlanAssumption DEF Rounds
  <1>3. CASE action = "COMPLETE"
    <2>1. new.round = here /\ questions' = questions /\ interview'.status = "completed"
      BY <1>1, <1>3 DEF NextRound
    <2>2. /\ RootsKnown'
          /\ \A i : RootQuestions(i)' = RootQuestions(i)
          /\ \A q : FollowUps(q)' = FollowUps(q)
      BY <2>1, ChainsKept DEF BudgetInv
    <2>3. Asked'
      BY <1>1, <2>1 DEF BudgetInv, Asked
    <2>4. QuestionBudget'
      BY <2>2 DEF BudgetInv, QuestionBudget
    <2>5. RoundsHeld'
      <3>1. interview'.round = Len(RoundPlan)
        BY <1>1, <1>3, <2>1
      <3>2. ASSUME NEW i \in Rounds, Over(i)'
            PROVE  Cardinality(RootQuestions(i)') = DefaultQuestionsPerRound[RoundPlan[i]]
        <4>1. i < here \/ i = here
          BY <1>1, <2>1, <3>2 DEF Over
        <4>2. CASE i < here
          BY <2>2, <4>2 DEF BudgetInv, RoundsHeld, Over
        <4>3. CASE i = here
          BY <1>1, <1>3, <2>2, <4>3
        <4> QED
          BY <4>1, <4>2, <4>3
      <3> QED
        BY <3>1, <3>2 DEF RoundsHeld
    <2> QED
      BY <2>2, <2>3, <2>4, <2>5 DEF BudgetInv
  <1>4. CASE action # "COMPLETE"
    <2>1. new.parent \in {0, Len(questions)} /\ questions' = Append(questions, new)
          /\ interview'.status # "completed"
      BY <1>1, <1>4
    <2>2. new.round = IF action = "NEXT_ROUND" THEN here + 1 ELSE here
      BY <1>1 DEF NextRound
    <2>3. new.parent # 0 =>
            /\ new.round = here
            /\ Cardinality(FollowUps(new.parent)) < MaxFollowUpsPerQuestion
      BY <1>1, <2>2
    <2>4. new.parent = 0 /\ new.round = here =>
            Cardinality(RootQuestions(new.round)) <
              DefaultQuestionsPerRound[RoundPlan[new.round]]
      <3>1. Len(questions) # 0
        BY TurnOfPending DEF BudgetInv, OrderInv, RowsInv, TypeOK
      <3>2. new.parent = 0 /\ new.round = here => action = "NEXT_QUESTION"
        BY <1>1, <1>2, <1>4, <2>2, <3>1 DEF Actions
      <3> QED
        BY <1>1, <3>2
    <2>5. new.round # here =>
            Cardinality(RootQuestions(here)) = DefaultQuestionsPerRound[RoundPlan[here]]
      BY <1>1, <2>2
    <2>6. new.round \in {here, here + 1} /\ new.round = interview'.round
      BY <1>1, <2>2
    <2> QED
      BY <2>1, <2>3, <2>4, <2>5, <2>6, BudgetAsked
  <1> QED
    BY <1>3, <1>4

\* So does a start.
LEMMA BudgetStepStart ==
    ASSUME BudgetInv, OrderInv', NEW r \in Requests, Start(r)
    PROVE  BudgetInv'
  <1> DEFINE new == [round |-> 1, parent |-> 0]
  <1>1. /\ 1 \in Rounds /\ interview \in InterviewRow
        /\ interview.status = "not_started" /\ questions = <<>>
    <2>1. 1 \in Rounds
      BY PlanAssumption DEF Start, Rounds
    <2> QED
      BY <2>1 DEF Start, BudgetInv, OrderInv, RowsInv, TypeOK, Begun
  <1>2. interview.round = 0
    BY <1>1 DEF BudgetInv, OrderInv, Ledger, RowsInv, TypeOK
  <1>3. /\ interview'.status = "in_progress" /\ interview'.round = 1
        /\ questions' = Append(questions, new)
    BY <1>1 DEF Start, InterviewRow
  <1>4. new \in Question /\ new.round = 1 /\ new.parent = 0
    BY <1>1 DEF Question
  <1>5. interview.round \notin Rounds
    BY <1>2, PlanAssumption DEF Rounds
  <1> HIDE DEF new
  <1> QED
    BY <1>2, <1>3, <1>4, <1>5, BudgetAsked

\* So does every step.
LEMMA BudgetStep ==
    ASSUME BudgetInv, [Next]_vars, ~AnswersOnCoding
    PROVE  BudgetInv'
  <1>0. OrderInv'
    BY OrderStep DEF BudgetInv
  <1>1. ASSUME NEW r \in Requests, Start(r) PROVE BudgetInv'
    BY <1>0, <1>1, BudgetStepStart
  <1>2. ASSUME NEW r \in Requests, EvaluateTurn(r) \/ CompleteCodingRound(r)
        PROVE  BudgetInv'
    BY <1>0, <1>2, BudgetStepTurns
  <1>3. ASSUME NEW r \in Requests, Abandon(r) PROVE BudgetInv'
    <2>1. interview \in InterviewRow
      BY DEF BudgetInv, OrderInv, RowsInv, TypeOK
    <2>2. /\ questions' = questions /\ interview'.round = interview.round
          /\ interview'.status = "abandoned"
      BY <1>3, <2>1 DEF Abandon, InterviewRow
    <2> QED
      BY <1>0, <2>2, BudgetKept
  <1>4. ASSUME UNCHANGED rows PROVE BudgetInv'
    BY <1>0, <1>4, BudgetKept DEF rows
  <1>5. ASSUME \/ \E r \in Requests :
                    \/ \E q \in DOMAIN questions : SubmitAnswer(r, q)
                    \/ PersistAnswer(r)
                    \/ Relock(r)
                    \/ JobLock(r)
                    \/ FailTurn(r)
                    \/ \E q \in jobs : JobRead(r, q)
               \/ \E q \in DOMAIN questions : FirstSubmission(q) \/ GradeFinal(q)
               \/ Crash
               \/ UNCHANGED vars
        PROVE  UNCHANGED rows
    BY <1>5 DEF SubmitAnswer, PersistAnswer, Relock, JobLock, FailTurn, JobRead,
                FirstSubmission, GradeFinal, Crash, vars, rows
  <1> QED
    BY <1>1, <1>2, <1>3, <1>4, <1>5 DEF Next

\* It holds in every reachable state.
LEMMA BudgetInvariant == ASSUME ~AnswersOnCoding PROVE Spec => []BudgetInv
  <1>1. BudgetInv /\ [Next]_vars => BudgetInv'
    BY BudgetStep
  <1> QED
    BY <1>1, BudgetInit, PTL DEF Spec

\* No round asks more root questions than its policy allows and no root gets
\* more follow-ups than the cap, however long the chains of follow-ups to
\* follow-ups, for every plan and any number of racing requests and jobs
\* (decide_next_action, _count_follow_ups_for_root).
THEOREM BudgetKeptByAll ==
    ASSUME ~AnswersOnCoding
    PROVE  Spec => []QuestionBudget
  <1>1. BudgetInv => QuestionBudget
    BY DEF BudgetInv
  <1> QED
    BY <1>1, BudgetInvariant, PTL

\* An interview that has completed was held in full: each round of the plan
\* asked all its root questions, each text answer was evaluated and each coding
\* question graded, whatever crashed or raced on the way.
THEOREM CompletedInFull ==
    ASSUME ~AnswersOnCoding
    PROVE  Spec => []CompletedIsWhole
  <1>1. BudgetInv => CompletedIsWhole
    <2> SUFFICES ASSUME BudgetInv, interview.status = "completed"
                 PROVE  /\ \A i \in Rounds :
                             Cardinality(RootQuestions(i)) = DefaultQuestionsPerRound[RoundPlan[i]]
                        /\ \A q \in DOMAIN questions :
                             q \in (IF IsCoding(q) THEN graded ELSE evaluated)
      BY DEF CompletedIsWhole
    <2>1. \A i \in Rounds : Over(i)
      BY PlanAssumption DEF BudgetInv, RoundsHeld, Over, Rounds
    <2>2. \A i \in Rounds :
            Cardinality(RootQuestions(i)) = DefaultQuestionsPerRound[RoundPlan[i]]
      BY <2>1 DEF BudgetInv, RoundsHeld
    <2>3. DOMAIN questions = 1 .. Len(turns)
      BY DEF BudgetInv, OrderInv, Ledger, RowsInv, TypeOK
    <2> QED
      BY <2>2, <2>3 DEF BudgetInv, OrderInv, Settled
  <1> QED
    BY <1>1, BudgetInvariant, PTL
=============================================================================
