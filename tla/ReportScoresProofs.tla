-------------------------- MODULE ReportScoresProofs --------------------------
(***************************************************************************)
(* What holds of the numbers of a report for any evaluations and weights:  *)
(* an average lies between the values it averages, and so do the section   *)
(* scores, the composites and the overall score.                           *)
(***************************************************************************)
EXTENDS ReportScores, TLAPS, FiniteSetTheorems, WellFoundedInduction

-----------------------------------------------------------------------------
(* Sums. *)

\* A set of naturals that holds 0 and every successor holds them all.
LEMMA AllNaturals ==
    ASSUME NEW H \in SUBSET Nat, 0 \in H, \A n \in H : n + 1 \in H
    PROVE  \A n \in Nat : n \in H
  <1> DEFINE Less == {ss \in Nat \X Nat : ss[1] < ss[2]}
             T == Nat \ H
  <1>1. IsWellFoundedOn(Less, Nat)
    BY NatLessThanWellFounded DEF OpToRel
  <1>2. SUFFICES ASSUME T # {} PROVE FALSE
    OBVIOUS
  <1>3. T \subseteq Nat
    OBVIOUS
  <1> HIDE DEF T, Less
  <1>4. PICK m \in T : \A k \in T : ~ (<<k, m>> \in Less)
    BY <1>1, <1>2, <1>3, WFMin
  <1>5. m \in Nat /\ m \notin H
    BY DEF T
  <1>6. m # 0 /\ m - 1 \in Nat
    BY <1>5
  <1>7. m - 1 \notin H
    BY <1>5, <1>6
  <1>8. m - 1 \in T
    BY <1>6, <1>7 DEF T
  <1>9. <<m - 1, m>> \in Less
    BY <1>5, <1>6 DEF Less
  <1> QED
    BY <1>4, <1>8, <1>9

Some(T) == CHOOSE x \in T : TRUE

\* sum adds up f over the subsets of S of at most n elements.
AddsUp(f, S, n, sum) ==
    sum = [T \in {U \in SUBSET S : Cardinality(U) <= n} |->
             IF T = {} THEN 0 ELSE f[Some(T)] + sum[T \ {Some(T)}]]

\* Taking the chosen element away.
LEMMA Without ==
    ASSUME NEW S, IsFiniteSet(S), NEW T \in SUBSET S, T # {}
    PROVE  /\ Some(T) \in T /\ T \ {Some(T)} \in SUBSET S
           /\ Cardinality(T) \in Nat \ {0}
           /\ Cardinality(T \ {Some(T)}) = Cardinality(T) - 1
  <1>1. Some(T) \in T
    BY DEF Some
  <1>2. IsFiniteSet(T)
    BY FS_Subset
  <1>3. Cardinality(T) \in Nat /\ Cardinality(T) # 0
    BY <1>2, FS_CardinalityType, FS_EmptySet
  <1>4. Cardinality(T \ {Some(T)}) = Cardinality(T) - 1
    BY <1>1, <1>2, FS_RemoveElement
  <1> QED
    BY <1>1, <1>3, <1>4

\* There is one such function for each n, by adding one element to the sums of
\* n elements.
LEMMA SumsExist ==
    ASSUME NEW S, IsFiniteSet(S), NEW f
    PROVE  \A n \in Nat : \E sum : AddsUp(f, S, n, sum)
  <1> DEFINE H == {n \in Nat : \E sum : AddsUp(f, S, n, sum)}
             Upto(n) == {U \in SUBSET S : Cardinality(U) <= n}
  <1>0. \A T \in SUBSET S : Cardinality(T) \in Nat /\ (Cardinality(T) = 0 <=> T = {})
    BY FS_Subset, FS_CardinalityType, FS_EmptySet
  <1>1. 0 \in H
    <2> DEFINE sum == [T \in Upto(0) |-> 0]
    <2>1. \A T \in Upto(0) : T = {}
      BY <1>0
    <2>2. sum = [T \in Upto(0) |->
                   IF T = {} THEN 0 ELSE f[Some(T)] + sum[T \ {Some(T)}]]
      BY <2>1
    <2>3. AddsUp(f, S, 0, sum)
      BY <2>2 DEF AddsUp
    <2> QED
      BY <2>3
  <1>2. ASSUME NEW n \in H PROVE n + 1 \in H
    <2>1. n \in Nat
      OBVIOUS
    <2>2. PICK sum : AddsUp(f, S, n, sum)
      OBVIOUS
    <2> DEFINE next == [T \in Upto(n + 1) |->
                          IF T = {} THEN 0 ELSE f[Some(T)] + sum[T \ {Some(T)}]]
    <2>3. \A T \in Upto(n) : T \in Upto(n + 1) /\ next[T] = sum[T]
      <3>1. \A T \in Upto(n) : T \in Upto(n + 1)
        BY <1>0, <2>1
      <3>2. \A T \in Upto(n) :
              sum[T] = IF T = {} THEN 0 ELSE f[Some(T)] + sum[T \ {Some(T)}]
        BY <2>2 DEF AddsUp
      <3> QED
        BY <3>1, <3>2
    <2>4. \A T \in Upto(n + 1) : T # {} => T \ {Some(T)} \in Upto(n)
      BY <1>0, <2>1, Without
    <2>5. \A T \in Upto(n + 1) :
             next[T] = IF T = {} THEN 0 ELSE f[Some(T)] + next[T \ {Some(T)}]
      BY <2>3, <2>4
    <2>6. next = [T \in Upto(n + 1) |-> next[T]]
      OBVIOUS
    <2> HIDE DEF next
    <2>7. next = [T \in Upto(n + 1) |->
                    IF T = {} THEN 0 ELSE f[Some(T)] + next[T \ {Some(T)}]]
      BY <2>5, <2>6
    <2>8. AddsUp(f, S, n + 1, next)
      BY <2>7 DEF AddsUp
    <2> QED
      BY <2>1, <2>8
  <1>3. H \in SUBSET Nat
    OBVIOUS
  <1>4. \A n \in Nat : n \in H
    <2> HIDE DEF H
    <2> QED
      BY <1>1, <1>2, <1>3, AllNaturals
  <1> QED
    BY <1>4

\* SumFunction adds up the values of a function with a finite domain, one element
\* after the other.
LEMMA SumFunctionAddsUp ==
    ASSUME NEW f, IsFiniteSet(DOMAIN f)
    PROVE  \E sum :
              /\ \A T \in SUBSET DOMAIN f :
                    sum[T] = IF T = {} THEN 0 ELSE f[Some(T)] + sum[T \ {Some(T)}]
              /\ SumFunction(f) = sum[DOMAIN f]
  <1> DEFINE S == DOMAIN f
             Plain(sum) == sum = [T \in SUBSET S |->
                                   IF T = {} THEN 0 ELSE f[Some(T)] + sum[T \ {Some(T)}]]
  <1>1. /\ Cardinality(S) \in Nat
        /\ \A T \in SUBSET S : Cardinality(T) \in Nat /\ Cardinality(T) <= Cardinality(S)
    BY FS_Subset, FS_CardinalityType
  <1>2. {U \in SUBSET S : Cardinality(U) <= Cardinality(S)} = SUBSET S
    BY <1>1
  <1>3. \A sum : AddsUp(f, S, Cardinality(S), sum) <=> Plain(sum)
    BY <1>2 DEF AddsUp
  <1>4. \E sum : Plain(sum)
    BY <1>1, <1>3, SumsExist
  <1>5. PICK sum : sum = CHOOSE g : Plain(g)
    OBVIOUS
  <1>6. Plain(sum)
    BY <1>4, <1>5
  <1>7. SumFunction(f) = sum[S]
    BY <1>5 DEF SumFunction, SumFunctionOnSet, FoldFunctionOnSet, MapThenFoldSet, Some
  <1>8. \A T \in SUBSET S :
           sum[T] = IF T = {} THEN 0 ELSE f[Some(T)] + sum[T \ {Some(T)}]
    BY <1>6
  <1> QED
    BY <1>7, <1>8

\* What holds of no element, and of a set whenever it holds without one of its
\* elements, holds of a finite set.
LEMMA OneByOne ==
    ASSUME NEW S, IsFiniteSet(S), NEW H, {} \in H,
           \A T \in SUBSET S : T # {} /\ T \ {Some(T)} \in H => T \in H
    PROVE  S \in H
  <1> DEFINE N == {n \in Nat : \A T \in SUBSET S : Cardinality(T) = n => T \in H}
  <1>0. \A T \in SUBSET S : Cardinality(T) \in Nat /\ (Cardinality(T) = 0 <=> T = {})
    BY FS_Subset, FS_CardinalityType, FS_EmptySet
  <1>1. 0 \in N
    BY <1>0
  <1>2. ASSUME NEW n \in N PROVE n + 1 \in N
    <2> SUFFICES ASSUME NEW T \in SUBSET S, Cardinality(T) = n + 1 PROVE T \in H
      OBVIOUS
    <2>1. T # {}
      BY <1>0
    <2>2. /\ T \ {Some(T)} \in SUBSET S
          /\ Cardinality(T \ {Some(T)}) = n
      BY <2>1, Without
    <2> QED
      BY <2>1, <2>2
  <1>3. \A n \in Nat : n \in N
    <2> HIDE DEF N
    <2>1. N \in SUBSET Nat
      BY DEF N
    <2> QED
      BY <1>1, <1>2, <2>1, AllNaturals
  <1> QED
    BY <1>0, <1>3

\* A sum of terms that lie between two multiples of their weights.
LEMMA SumBetween ==
    ASSUME NEW S, IsFiniteSet(S), NEW f \in [S -> Int], NEW w \in [S -> Int],
           NEW lo \in Int, NEW hi \in Int,
           \A x \in S : lo * w[x] <= f[x] /\ f[x] <= hi * w[x]
    PROVE  /\ SumFunction(f) \in Int /\ SumFunction(w) \in Int
           /\ lo * SumFunction(w) <= SumFunction(f)
           /\ SumFunction(f) <= hi * SumFunction(w)
  <1>1. DOMAIN f = S /\ DOMAIN w = S
    OBVIOUS
  <1>2. PICK F : /\ \A T \in SUBSET S :
                       F[T] = IF T = {} THEN 0 ELSE f[Some(T)] + F[T \ {Some(T)}]
                 /\ SumFunction(f) = F[S]
    BY <1>1, SumFunctionAddsUp
  <1>3. PICK W : /\ \A T \in SUBSET S :
                       W[T] = IF T = {} THEN 0 ELSE w[Some(T)] + W[T \ {Some(T)}]
                 /\ SumFunction(w) = W[S]
    BY <1>1, SumFunctionAddsUp
  <1> DEFINE Between(T) == /\ F[T] \in Int /\ W[T] \in Int
                           /\ lo * W[T] <= F[T]
                           /\ F[T] <= hi * W[T]
             H == {T \in SUBSET S : Between(T)}
  <1>4. {} \in H
    <2>1. F[{}] = 0 /\ W[{}] = 0
      BY <1>2, <1>3
    <2> QED
      BY <2>1
  <1>5. ASSUME NEW T \in SUBSET S, T # {}, T \ {Some(T)} \in H
        PROVE  T \in H
    <2> DEFINE x == Some(T)
               R == T \ {x}
    <2>1. x \in S
      BY <1>5 DEF Some
    <2>2. F[T] = f[x] + F[R] /\ W[T] = w[x] + W[R]
      BY <1>2, <1>3, <1>5
    <2>3. f[x] \in Int /\ w[x] \in Int /\ lo * w[x] <= f[x] /\ f[x] <= hi * w[x]
      BY <2>1
    <2>4. Between(R)
      BY <1>5
    <2> HIDE DEF x, R
    <2>5. /\ lo * (w[x] + W[R]) = lo * w[x] + lo * W[R]
          /\ hi * (w[x] + W[R]) = hi * w[x] + hi * W[R]
      BY <2>3, <2>4
    <2>6. \A fx, wx, fr, wr, lw, hw, lr, hr \in Int :
             lw <= fx /\ fx <= hw /\ lr <= fr /\ fr <= hr
                => lw + lr <= fx + fr /\ fx + fr <= hw + hr
      OBVIOUS
    <2>7. lo * w[x] \in Int /\ hi * w[x] \in Int /\ lo * W[R] \in Int /\ hi * W[R] \in Int
      BY <2>3, <2>4
    <2>8. Between(T)
      BY <2>2, <2>3, <2>4, <2>5, <2>6, <2>7
    <2> QED
      BY <2>8
  <1>6. S \in H
    <2> HIDE DEF H
    <2> QED
      BY <1>4, <1>5, OneByOne
  <1> QED
    BY <1>2, <1>3, <1>6

\* A sum of ones counts.
LEMMA SumOfOnes ==
    ASSUME NEW S, IsFiniteSet(S)
    PROVE  SumFunction([x \in S |-> 1]) = Cardinality(S)
  <1> DEFINE ones == [x \in S |-> 1]
  <1>1. DOMAIN ones = S /\ \A x \in S : ones[x] = 1
    OBVIOUS
  <1> HIDE DEF ones
  <1>2. PICK F : /\ \A T \in SUBSET S :
                       F[T] = IF T = {} THEN 0 ELSE ones[Some(T)] + F[T \ {Some(T)}]
                 /\ SumFunction(ones) = F[S]
    BY <1>1, SumFunctionAddsUp
  <1> DEFINE H == {T \in SUBSET S : F[T] = Cardinality(T)}
  <1>3. {} \in H
    BY <1>2, FS_EmptySet
  <1>4. ASSUME NEW T \in SUBSET S, T # {}, T \ {Some(T)} \in H
        PROVE  T \in H
    <2>1. /\ Some(T) \in S
          /\ Cardinality(T) \in Nat
          /\ Cardinality(T \ {Some(T)}) = Cardinality(T) - 1
      BY <1>4, Without
    <2>2. F[T] = 1 + (Cardinality(T) - 1)
      BY <1>1, <1>2, <1>4, <2>1
    <2> QED
      BY <2>1, <2>2
  <1>5. S \in H
    <2> HIDE DEF H
    <2> QED
      BY <1>3, <1>4, OneByOne
  <1> QED
    BY <1>2, <1>5 DEF ones

-----------------------------------------------------------------------------
(* Averages. *)

\* Rounding does not leave an interval with integer bounds.
LEMMA RoundedBetween ==
    ASSUME NEW a \in Int, NEW n \in Nat \ {0}, NEW lo \in Int, NEW hi \in Int,
           lo * n <= a, a <= hi * n
    PROVE  RoundedQuotient(a, n) \in lo..hi
  <1> DEFINE q == RoundedQuotient(a, n)
             m == 2 * n
  <1>1. m \in Nat \ {0} /\ 2 * a + n \in Int
    OBVIOUS
  <1>2. q \in Int /\ m * q <= 2 * a + n /\ 2 * a + n < m * q + m
    <2>1. \A x \in Int, d \in Nat \ {0} :
             /\ x \div d \in Int
             /\ d * (x \div d) <= x
             /\ x < d * (x \div d) + d
      OBVIOUS
    <2>2. q = (2 * a + n) \div m
      BY DEF RoundedQuotient
    <2> HIDE DEF q, m
    <2> QED
      BY <1>1, <2>1, <2>2
  <1>3. lo <= q
    <2> SUFFICES ASSUME q + 1 <= lo PROVE FALSE
      BY <1>2
    <2>1. m * (q + 1) <= m * lo
      BY <1>1, <1>2
    <2>2. m * (q + 1) = m * q + m /\ m * lo = 2 * (lo * n)
      BY <1>1, <1>2
    <2>3. lo * n \in Int /\ m * q \in Int
      BY <1>1, <1>2
    <2> HIDE DEF q, m
    <2>4. m * q + m <= 2 * (lo * n)
      BY <2>1, <2>2
    <2>5. 2 * (lo * n) <= 2 * a
      BY <2>3
    <2>6. m * q + m <= 2 * a
      BY <1>1, <2>3, <2>4, <2>5
    <2>7. 2 * a < 2 * a + n
      OBVIOUS
    <2> QED
      BY <1>1, <1>2, <2>3, <2>6, <2>7
  <1>4. q <= hi
    <2> SUFFICES ASSUME hi + 1 <= q PROVE FALSE
      BY <1>2
    <2>1. m * (hi + 1) <= m * q
      BY <1>1, <1>2
    <2>2. m * (hi + 1) = 2 * (hi * n) + 2 * n
      BY <1>1
    <2> HIDE DEF q
    <2> QED
      BY <1>1, <1>2, <2>1, <2>2
  <1> QED
    BY <1>2, <1>3, <1>4

\* An average lies between the values it averages.
LEMMA AverageBetween ==
    ASSUME NEW S, IsFiniteSet(S), S # {}, NEW f \in [S -> Int],
           NEW lo \in Int, NEW hi \in Int, \A x \in S : f[x] \in lo..hi
    PROVE  Average(f) \in lo..hi
  <1> DEFINE ones == [x \in S |-> 1]
  <1>1. Cardinality(S) \in Nat \ {0} /\ DOMAIN f = S
    BY FS_CardinalityType, FS_EmptySet
  <1>2. SumFunction(ones) = Cardinality(S)
    BY SumOfOnes
  <1>3. \A x \in S : lo * ones[x] <= f[x] /\ f[x] <= hi * ones[x]
    OBVIOUS
  <1>4. ones \in [S -> Int]
    OBVIOUS
  <1> HIDE DEF ones
  <1>5. /\ SumFunction(f) \in Int
        /\ lo * Cardinality(S) <= SumFunction(f)
        /\ SumFunction(f) <= hi * Cardinality(S)
    BY <1>2, <1>3, <1>4, SumBetween
  <1> QED
    BY <1>1, <1>5, RoundedBetween DEF Average

\* A sum of naturals is a natural, and not 0 if one of them is not.
LEMMA SumOfNaturals ==
    ASSUME NEW S, IsFiniteSet(S), NEW f \in [S -> Nat]
    PROVE  /\ SumFunction(f) \in Nat
           /\ (\E x \in S : f[x] > 0) => SumFunction(f) > 0
  <1>1. DOMAIN f = S
    OBVIOUS
  <1>2. PICK F : /\ \A T \in SUBSET S :
                       F[T] = IF T = {} THEN 0 ELSE f[Some(T)] + F[T \ {Some(T)}]
                 /\ SumFunction(f) = F[S]
    BY <1>1, SumFunctionAddsUp
  <1> DEFINE H == {T \in SUBSET S : /\ F[T] \in Nat
                                   /\ \A x \in T : f[x] <= F[T]}
  <1>3. {} \in H
    BY <1>2
  <1>4. ASSUME NEW T \in SUBSET S, T # {}, T \ {Some(T)} \in H
        PROVE  T \in H
    <2> DEFINE y == Some(T)
               R == T \ {y}
    <2>1. y \in S /\ \A x \in T : x = y \/ x \in R
      BY <1>4 DEF Some
    <2>2. F[T] = f[y] + F[R]
      BY <1>2, <1>4
    <2>3. F[R] \in Nat /\ \A x \in R : f[x] <= F[R]
      BY <1>4
    <2> HIDE DEF y, R
    <2>4. f[y] \in Nat /\ \A x \in T : f[x] \in Nat
      BY <2>1
    <2>5. F[T] \in Nat /\ \A x \in T : f[x] <= F[T]
      BY <2>1, <2>2, <2>3, <2>4
    <2> QED
      BY <2>5
  <1>5. S \in H
    <2> HIDE DEF H
    <2> QED
      BY <1>3, <1>4, OneByOne
  <1> QED
    BY <1>2, <1>5

-----------------------------------------------------------------------------
(* The scores of a report. *)

\* The evaluations of an interview all lie between two scores.
Within(evals, lo, hi) ==
    \A e \in evals : \A d \in DOMAIN e.scores : e.scores[d] \in lo..hi

\* Scores are an interval from zero.
LEMMA Scale == \E top \in Nat : Points = 0..top
  <1> DEFINE top == 10000
  <1>1. top \in Nat
    OBVIOUS
  <1>2. Points = 0..top
    BY DEF Points
  <1> HIDE DEF top
  <1> QED
    BY <1>1, <1>2

\* A report has finitely many sections.
LEMMA SectionsFinite == IsFiniteSet(Sections)
  <1>1. /\ IsFiniteSet({"technical"})
        /\ IsFiniteSet({"technical"} \cup {"coding"})
    BY FS_Singleton, FS_AddElement
  <1>2. IsFiniteSet({"technical"} \cup {"coding"} \cup {"communication"})
    BY <1>1, FS_AddElement
  <1>3. IsFiniteSet({"technical"} \cup {"coding"} \cup {"communication"}
                      \cup {"problem_solving"})
    BY <1>2, FS_AddElement
  <1>4. IsFiniteSet({"technical"} \cup {"coding"} \cup {"communication"}
                      \cup {"problem_solving"} \cup {"confidence"})
    BY <1>3, FS_AddElement
  <1>5. Sections = {"technical"} \cup {"coding"} \cup {"communication"}
                      \cup {"problem_solving"} \cup {"confidence"}
    BY DEF Sections
  <1> QED
    BY <1>4, <1>5

\* A section has a score if an evaluation contributes to it, and the score lies
\* between the evaluations.
LEMMA SectionScoresBetween ==
    ASSUME NEW evals, NEW weight, IsInterview(evals, weight),
           NEW lo \in Int, NEW hi \in Int, Within(evals, lo, hi)
    PROVE  /\ DOMAIN SectionScores(evals) \subseteq Sections
           /\ \A section \in DOMAIN SectionScores(evals) :
                  SectionScores(evals)[section] \in lo..hi
  <1>1. DOMAIN SectionScores(evals) = UNION {DOMAIN e.scores : e \in evals}
    BY DEF SectionScores
  <1>2. \A e \in evals : DOMAIN e.scores \subseteq Sections
    BY DEF IsInterview
  <1>3. ASSUME NEW section \in DOMAIN SectionScores(evals)
        PROVE  SectionScores(evals)[section] \in lo..hi
    <2> DEFINE C == Contributing(evals, section)
               f == [e \in C |-> e.scores[section]]
    <2>1. C \in SUBSET evals /\ C # {}
      BY <1>1 DEF Contributing
    <2>2. IsFiniteSet(C)
      BY <2>1, FS_Subset DEF IsInterview
    <2>3. \A e \in C : e.scores[section] \in lo..hi
      BY DEF Contributing, Within
    <2>4. f \in [C -> Int] /\ \A e \in C : f[e] \in lo..hi
      BY <2>3
    <2>5. SectionScores(evals)[section] = Average(f)
      BY <1>1 DEF SectionScores, SectionScore
    <2> HIDE DEF f, C
    <2> QED
      BY <2>1, <2>2, <2>4, <2>5, AverageBetween
  <1> QED
    BY <1>1, <1>2, <1>3

\* The composite of a round lies between the evaluations.
LEMMA CompositeBetween ==
    ASSUME NEW evals, NEW weight, IsInterview(evals, weight),
           NEW lo \in Int, NEW hi \in Int, Within(evals, lo, hi),
           NEW r \in RoundsOf(evals)
    PROVE  RoundComposite(evals, r) \in lo..hi
  <1> DEFINE P == Pooled(evals, r)
             f == [p \in P |-> p[1].scores[p[2]]]
  <1>1. P \in SUBSET (evals \X Sections)
    BY DEF Pooled, IsInterview
  <1>2. IsFiniteSet(evals \X Sections)
    BY SectionsFinite, FS_Product DEF IsInterview
  <1>3. IsFiniteSet(P)
    BY <1>1, <1>2, FS_Subset
  <1>4. P # {}
    <2>1. PICK e \in evals : e.round = r
      BY DEF RoundsOf
    <2>2. PICK d : d \in DOMAIN e.scores
      BY DEF IsInterview
    <2>3. <<e, d>> \in P
      BY <2>1, <2>2 DEF Pooled
    <2> QED
      BY <2>3
  <1>5. \A p \in P : p[1] \in evals /\ p[2] \in DOMAIN p[1].scores
    BY DEF Pooled
  <1>6. f \in [P -> Int] /\ \A p \in P : f[p] \in lo..hi
    BY <1>5 DEF Within
  <1>7. RoundComposite(evals, r) = Average(f)
    BY DEF RoundComposite
  <1> HIDE DEF P, f
  <1> QED
    BY <1>3, <1>4, <1>6, <1>7, AverageBetween

\* The overall score lies between the evaluations, if a round that contributed has
\* a weight at all, and within the scale in any case.
LEMMA OverallBetween ==
    ASSUME NEW evals, NEW weight, IsInterview(evals, weight),
           NEW lo \in Int, NEW hi \in Int, Within(evals, lo, hi)
    PROVE  /\ (\E e \in evals : weight[e.round] > 0) => OverallScore(evals, weight) \in lo..hi
           /\ OverallScore(evals, weight) \in lo..hi \cup {0}
  <1> DEFINE R == RoundsOf(evals)
             w == [r \in R |-> weight[r]]
             f == WeightedComposites(evals, weight)
             total == SumFunction(w)
  <1>1. IsFiniteSet(R)
    <2> DEFINE round == [e \in evals |-> e.round]
    <2>1. round \in Surjection(evals, R)
      BY DEF Surjection, RoundsOf
    <2> QED
      BY <2>1, FS_Surjection DEF IsInterview
  <1>2. w \in [R -> Nat]
    BY DEF RoundsOf, IsInterview
  <1>3. \A r \in R : /\ RoundComposite(evals, r) \in Int
                     /\ lo <= RoundComposite(evals, r)
                     /\ RoundComposite(evals, r) <= hi
    BY CompositeBetween
  <1>4. \A r \in R : f[r] = RoundComposite(evals, r) * w[r]
    BY DEF WeightedComposites
  <1>5. f = [r \in R |-> f[r]]
    BY DEF WeightedComposites
  <1>6. OverallScore(evals, weight) =
           IF total = 0 THEN 0 ELSE RoundedQuotient(SumFunction(f), total)
    BY DEF OverallScore
  <1>7. (\E e \in evals : weight[e.round] > 0) => \E r \in R : w[r] > 0
    BY DEF RoundsOf
  <1> HIDE DEF R, w, f
  <1>8. total \in Nat /\ ((\E r \in R : w[r] > 0) => total # 0)
    BY <1>1, <1>2, SumOfNaturals
  <1>9. \A r \in R : f[r] \in Int /\ lo * w[r] <= f[r] /\ f[r] <= hi * w[r]
    <2>1. \A c \in Int, k \in Nat : lo <= c /\ c <= hi => lo * k <= c * k /\ c * k <= hi * k
      <3> SUFFICES ASSUME NEW c \in Int, NEW k \in Nat, lo <= c, c <= hi
                   PROVE  lo * k <= c * k /\ c * k <= hi * k
        OBVIOUS
      <3> QED
        OBVIOUS
    <2> QED
      BY <1>2, <1>3, <1>4, <2>1
  <1>10. f \in [R -> Int] /\ w \in [R -> Int]
    BY <1>2, <1>5, <1>9
  <1>11. /\ SumFunction(f) \in Int
         /\ lo * total <= SumFunction(f)
         /\ SumFunction(f) <= hi * total
    BY <1>1, <1>9, <1>10, SumBetween
  <1> HIDE DEF total
  <1>12. total # 0 => RoundedQuotient(SumFunction(f), total) \in lo..hi
    BY <1>8, <1>11, RoundedBetween
  <1> QED
    BY <1>6, <1>7, <1>8, <1>12

\* A set of naturals that is not empty has a least element.
LEMMA Least ==
    ASSUME NEW T, \A x \in T : x \in Nat, T # {}
    PROVE  \E m \in T : \A x \in T : m <= x
  <1>1. SUFFICES ASSUME \A m \in T : \E x \in T : ~(m <= x) PROVE FALSE
    OBVIOUS
  <1>2. ASSUME NEW m \in T PROVE \E x \in T : x < m
    BY <1>1
  <1> DEFINE Below == {n \in Nat : \A x \in T : ~(x <= n)}
  <1>3. 0 \in Below
    <2> SUFFICES ASSUME NEW x \in T, x <= 0 PROVE FALSE
      OBVIOUS
    <2>1. PICK y \in T : y < x
      BY <1>2
    <2> QED
      BY <2>1
  <1>4. ASSUME NEW n \in Below PROVE n + 1 \in Below
    <2> SUFFICES ASSUME NEW x \in T, x <= n + 1 PROVE FALSE
      OBVIOUS
    <2>1. PICK y \in T : y < x
      BY <1>2
    <2>2. y <= n
      BY <2>1
    <2> QED
      BY <2>2
  <1>5. \A n \in Nat : n \in Below
    <2>1. Below \in SUBSET Nat
      OBVIOUS
    <2> HIDE DEF Below
    <2> QED
      BY <1>3, <1>4, <2>1, AllNaturals
  <1>6. PICK x \in T : TRUE
    OBVIOUS
  <1> QED
    BY <1>5, <1>6

\* A set of numbers between 0 and n that is not empty has a least and a greatest one.
LEMMA Extremes ==
    ASSUME NEW n \in Nat, NEW S \in SUBSET (0..n), S # {}
    PROVE  /\ Min(S) \in S /\ Max(S) \in S
           /\ \A x \in S : Min(S) <= x /\ x <= Max(S)
  <1>1. \A x \in S : x \in Nat /\ n - x \in Nat
    OBVIOUS
  <1>2. \E m \in S : \A x \in S : m <= x
    BY <1>1, Least
  <1>3. \E m \in S : \A x \in S : m >= x
    <2> DEFINE T == {n - x : x \in S}
    <2>1. (\A t \in T : t \in Nat) /\ T # {}
      BY <1>1
    <2>2. PICK t \in T : \A y \in T : t <= y
      <3> HIDE DEF T
      <3> QED
        BY <2>1, Least
    <2>3. PICK m \in S : t = n - m
      BY <2>2
    <2>4. \A x \in S : n - m <= n - x
      BY <2>2, <2>3
    <2> QED
      BY <1>1, <2>3, <2>4
  <1>4. Min(S) \in S /\ \A x \in S : Min(S) <= x
    BY <1>2 DEF Min
  <1>5. Max(S) \in S /\ \A x \in S : Max(S) >= x
    BY <1>3 DEF Max
  <1> QED
    BY <1>1, <1>4, <1>5

-----------------------------------------------------------------------------
(* The report and the skills that it assesses. *)

\* The elements of a sequence are of its type.
LEMMA ElementsOfSeq ==
    \A T : \A s \in Seq(T) : \A i \in DOMAIN s : i \in Nat /\ s[i] \in T
  OBVIOUS

\* The areas of a list are filed under one of some sections.
FiledAreas(areas, topics, sections) ==
    \A i \in DOMAIN areas : /\ i \in Nat
                            /\ areas[i].topic \in topics
                            /\ areas[i].section \in sections

\* The areas of a report are filed under sections that it scores.
FiledReport(r, topics) ==
    /\ NoSection \notin DOMAIN r.sections
    /\ \A k \in DOMAIN r.sections : r.sections[k] \in Points
    /\ FiledAreas(r.weak, topics, DOMAIN r.sections)
    /\ FiledAreas(r.strong, topics, DOMAIN r.sections \cup {NoSection})

\* The scores of a report are on the scale, and its areas are filed under sections
\* that have a score; a strong area may be filed under none.
LEMMA BuiltReport ==
    ASSUME NEW evals, NEW weight, IsInterview(evals, weight),
           NEW topics, NEW c, IsContent(c, topics),
           NEW r, r = BuildReport(evals, weight, c)
    PROVE  /\ r.overall = OverallScore(evals, weight)
           /\ r.overall \in Points
           /\ DOMAIN r.sections \subseteq Sections
           /\ \A k \in DOMAIN r.sections : r.sections[k] \in Points
           /\ FiledAreas(r.weak, topics, DOMAIN r.sections)
           /\ FiledAreas(r.strong, topics, DOMAIN r.sections \cup {NoSection})
           /\ r.done = {}
  <1> DEFINE sections == SectionScores(evals)
             weak == WeakAreas(c, sections)
             strong == StrongAreas(c, sections)
  <1>0. PICK top \in Nat : Points = 0..top
    BY Scale
  <1>1. Within(evals, 0, top)
    BY <1>0 DEF Within, IsInterview
  <1>2. OverallScore(evals, weight) \in Points
    <2>1. OverallScore(evals, weight) \in 0..top \cup {0}
      BY <1>1, OverallBetween
    <2> QED
      BY <1>0, <2>1
  <1>3. /\ DOMAIN sections \subseteq Sections
        /\ \A k \in DOMAIN sections : sections[k] \in Points
    <2>1. /\ DOMAIN sections \subseteq Sections
          /\ \A k \in DOMAIN sections : sections[k] \in 0..top
      BY <1>1, SectionScoresBetween
    <2> QED
      BY <1>0, <2>1
  <1> HIDE DEF sections
  <1>4. FiledAreas(weak, topics, DOMAIN sections)
    <2>0. c.weak \in Seq([topic : topics, section : Sections])
      BY DEF IsContent
    <2>1. \A i \in DOMAIN c.weak :
             i \in Nat /\ c.weak[i] \in [topic : topics, section : Sections]
      BY <2>0, ElementsOfSeq
    <2>2. \A i \in DOMAIN weak : /\ i \in DOMAIN c.weak
                                 /\ weak[i] = c.weak[i]
                                 /\ weak[i].section \in DOMAIN sections
      BY DEF WeakAreas, RestrictValues, Restrict
    <2> HIDE DEF weak
    <2> QED
      BY <2>1, <2>2 DEF FiledAreas
  <1>5. FiledAreas(strong, topics, DOMAIN sections \cup {NoSection})
    <2> SUFFICES ASSUME NEW i \in DOMAIN strong
                 PROVE  /\ i \in Nat
                        /\ strong[i].topic \in topics
                        /\ strong[i].section \in DOMAIN sections \cup {NoSection}
      BY DEF FiledAreas
    <2> DEFINE a == c.strong[i]
    <2>1. i \in DOMAIN c.strong
      BY DEF StrongAreas
    <2>2. i \in Nat /\ a \in [topic : topics, section : Sections]
      <3>1. c.strong \in Seq([topic : topics, section : Sections])
        BY DEF IsContent
      <3> QED
        BY <2>1, <3>1, ElementsOfSeq
    <2>3. strong[i] = [a EXCEPT !.section = IF a.section \in DOMAIN sections
                                            THEN a.section ELSE NoSection]
      BY <2>1 DEF StrongAreas
    <2> HIDE DEF a, strong
    <2> QED
      BY <2>2, <2>3
  <1>6. r = [overall |-> OverallScore(evals, weight), sections |-> sections, weak |-> weak,
             strong |-> strong, items |-> ByPriority(c.items), done |-> {}]
    BY DEF BuildReport, sections
  <1> HIDE DEF weak, strong
  <1> QED
    BY <1>2, <1>3, <1>4, <1>5, <1>6

\* A skill that a list names has a first mention.
LEMMA MentionFound ==
    ASSUME NEW areas, NEW skillOf, \A i \in DOMAIN areas : i \in Nat,
           NEW skill \in SkillsNamed(areas, skillOf)
    PROVE  /\ Mention(areas, skillOf, skill) \in DOMAIN areas
           /\ skillOf[areas[Mention(areas, skillOf, skill)].topic] = skill
  <1> DEFINE T == {i \in DOMAIN areas : skillOf[areas[i].topic] = skill}
  <1>1. (\A i \in T : i \in Nat) /\ T # {}
    BY DEF SkillsNamed
  <1>2. \E m \in T : \A x \in T : m <= x
    <2> HIDE DEF T
    <2> QED
      BY <1>1, Least
  <1>3. \E m \in DOMAIN areas :
           /\ skillOf[areas[m].topic] = skill
           /\ \A k \in DOMAIN areas : skillOf[areas[k].topic] = skill => m <= k
    BY <1>2
  <1> QED
    BY <1>3 DEF Mention

\* Some area of the list carries the skill, and the score is that of its section.
ScoredBy(areas, skillOf, skill, score, report) ==
    \E i \in DOMAIN areas :
        /\ skillOf[areas[i].topic] = skill
        /\ areas[i].section # NoSection
        /\ report.sections[areas[i].section] = score

\* A report scores a skill by its weak topics if they name it, else by its strong ones.
Assesses(r, skillOf, skill, score) ==
    IF skill \in SkillsNamed(r.weak, skillOf)
    THEN ScoredBy(r.weak, skillOf, skill, score, r)
    ELSE ScoredBy(r.strong, skillOf, skill, score, r)

\* The skills of a report and their scores.
LEMMA SkillsScored ==
    ASSUME NEW r, NEW skillOf, NEW topics, FiledReport(r, topics),
           NEW skill \in DOMAIN SkillScores(r, skillOf),
           NEW score, score = SkillScores(r, skillOf)[skill]
    PROVE  /\ \E t \in topics : skill = skillOf[t]
           /\ score \in Points
           /\ Assesses(r, skillOf, skill, score)
  <1> DEFINE strong == Filed(r.strong)
  <1>0. /\ NoSection \notin DOMAIN r.sections
        /\ \A k \in DOMAIN r.sections : r.sections[k] \in Points
        /\ FiledAreas(r.weak, topics, DOMAIN r.sections)
        /\ FiledAreas(r.strong, topics, DOMAIN r.sections \cup {NoSection})
    BY DEF FiledReport
  <1>1. /\ DOMAIN strong \subseteq DOMAIN r.strong
        /\ \A i \in DOMAIN strong : /\ strong[i] = r.strong[i]
                                    /\ strong[i].section # NoSection
    BY DEF Filed, RestrictValues, Restrict
  <1>2. /\ skill \in SkillsNamed(r.weak, skillOf) \/ skill \in SkillsNamed(strong, skillOf)
        /\ score = LET areas == IF skill \in SkillsNamed(r.weak, skillOf) THEN r.weak ELSE strong
                   IN  r.sections[areas[Mention(areas, skillOf, skill)].section]
    BY DEF SkillScores, ScoresBy
  <1> HIDE DEF strong
  <1>3. CASE skill \in SkillsNamed(r.weak, skillOf)
    <2> DEFINE m == Mention(r.weak, skillOf, skill)
    <2>1. m \in DOMAIN r.weak /\ skillOf[r.weak[m].topic] = skill
      BY <1>0, <1>3, MentionFound DEF FiledAreas
    <2>2. score = r.sections[r.weak[m].section]
      BY <1>2, <1>3
    <2>3. /\ r.weak[m].topic \in topics
          /\ r.weak[m].section \in DOMAIN r.sections
      BY <1>0, <2>1 DEF FiledAreas
    <2> HIDE DEF m
    <2>4. ScoredBy(r.weak, skillOf, skill, score, r)
      BY <1>0, <2>1, <2>2, <2>3 DEF ScoredBy
    <2>5. score \in Points /\ \E t \in topics : skill = skillOf[t]
      BY <1>0, <2>1, <2>2, <2>3
    <2> QED
      BY <1>3, <2>4, <2>5 DEF Assesses
  <1>4. CASE skill \notin SkillsNamed(r.weak, skillOf)
    <2> DEFINE m == Mention(strong, skillOf, skill)
    <2>0. \A i \in DOMAIN strong : i \in Nat
      BY <1>0, <1>1 DEF FiledAreas
    <2>1. m \in DOMAIN strong /\ skillOf[strong[m].topic] = skill
      BY <1>2, <1>4, <2>0, MentionFound
    <2>2. score = r.sections[strong[m].section]
      BY <1>2, <1>4
    <2> HIDE DEF m
    <2>3. /\ m \in DOMAIN r.strong /\ strong[m] = r.strong[m]
          /\ r.strong[m].topic \in topics
          /\ r.strong[m].section # NoSection
          /\ r.strong[m].section \in DOMAIN r.sections
      BY <1>0, <1>1, <2>1 DEF FiledAreas
    <2>4. ScoredBy(r.strong, skillOf, skill, score, r)
      BY <1>0, <2>1, <2>2, <2>3 DEF ScoredBy
    <2>5. score \in Points /\ \E t \in topics : skill = skillOf[t]
      BY <1>0, <2>1, <2>2, <2>3
    <2> QED
      BY <1>4, <2>4, <2>5 DEF Assesses
  <1> QED
    BY <1>3, <1>4
=============================================================================
