---------------------------- MODULE ReportScores ----------------------------
(***************************************************************************)
(* The numbers of a report and of the progress it feeds: section scores,   *)
(* the weighted overall score, severities, trends, and the report built    *)
(* from them and from the provider's narrative (backend/app/agents/        *)
(* policy.py and backend/app/services/report/report_service.py).           *)
(* Constant operators only.  Scores are in hundredths of a point, as the   *)
(* columns numeric(5,2) keep them.                                         *)
(***************************************************************************)
EXTENDS Integers, FiniteSets, FiniteSetsExt, SequencesExt

Sections == {"technical", "coding", "communication", "problem_solving", "confidence"}
Severities == {"low", "medium", "high"}
Trends == {"improving", "stable", "declining"}

Points == 0..10000

\* round(a / n, 2) on hundredths: to the nearest, a half upwards.
RoundedQuotient(a, n) == (2 * a + n) \div (2 * n)

\* The plain average of the values of a function, round(sum(f) / len(f), 2).
Average(f) == RoundedQuotient(SumFunction(f), Cardinality(DOMAIN f))

-----------------------------------------------------------------------------
\* An evaluation is a record [answer, round, scores]: the four text sections of
\* an answer, or the one overall_code_score of a final submission.

Contributing(evals, section) == {e \in evals : section \in DOMAIN e.scores}

\* compute_section_score: the plain average of one dimension over the session.
SectionScore(evals, section) ==
    Average([e \in Contributing(evals, section) |-> e.scores[section]])

\* A section without a contributing evaluation has no row.
SectionScores(evals) ==
    [section \in UNION {DOMAIN e.scores : e \in evals} |-> SectionScore(evals, section)]

\* What an interview leaves for its report: every answer and final submission
\* evaluated once, in a round of the plan and within the scale.
IsInterview(evals, weight) ==
    /\ IsFiniteSet(evals)
    /\ \A e \in evals : /\ e.round \in DOMAIN weight
                        /\ DOMAIN e.scores \in (SUBSET Sections) \ {{}}
                        /\ \A d \in DOMAIN e.scores : e.scores[d] \in Points
    /\ \A r \in DOMAIN weight : weight[r] \in Nat

\* Every dimension score that a round's evaluations contributed.
Pooled(evals, round) ==
    UNION {{<<e, section>> : section \in DOMAIN e.scores} :
           e \in {x \in evals : x.round = round}}

RoundComposite(evals, round) ==
    Average([p \in Pooled(evals, round) |-> p[1].scores[p[2]]])

RoundsOf(evals) == {e.round : e \in evals}

WeightedComposites(evals, weight) ==
    [r \in RoundsOf(evals) |-> RoundComposite(evals, r) * weight[r]]

\* Mutant: a round that contributed nothing still weighs in.
OverallOverWholePlan(evals, weight) ==
    LET total == SumFunction(weight)
    IN  IF total = 0 THEN 0
        ELSE RoundedQuotient(SumFunction(WeightedComposites(evals, weight)), total)

\* Mutant: the weighted sum is not divided.
OverallUndivided(evals, weight) == SumFunction(WeightedComposites(evals, weight))

\* compute_overall_score over the rounds that contributed evaluations; weight is
\* the plan's snapshot of the round weights.
OverallScore(evals, weight) ==
    LET total == SumFunction([r \in RoundsOf(evals) |-> weight[r]])
    IN  IF total = 0 THEN 0
        ELSE RoundedQuotient(SumFunction(WeightedComposites(evals, weight)), total)

\* classify_weak_area_severity
Severity(score) ==
    CASE score <= 4000 -> "high"
      [] score > 4000 /\ score <= 6500 -> "medium"
      [] OTHER -> "low"

\* classify_score_trend: a move of less than five points either way is no trend.
Trend(delta) ==
    CASE delta >= 500 -> "improving"
      [] delta <= -500 -> "declining"
      [] OTHER -> "stable"

-----------------------------------------------------------------------------
NoSection == "none"

\* The narrative of the provider: weak and strong topics, each with the section
\* it is filed under, and roadmap items with a priority.
IsContent(c, topics) ==
    /\ c.weak \in Seq([topic : topics, section : Sections])
    /\ c.strong \in Seq([topic : topics, section : Sections])
    /\ c.items \in Seq([topic : topics, priority : Int])

\* sorted(..., key=priority): a stable sort, so equal priorities keep their order.
ByPriority(items) ==
    LET before(i, j) == \/ items[i].priority < items[j].priority
                        \/ items[i].priority = items[j].priority /\ i < j
        order == SetToSortSeq(DOMAIN items, before)
    IN  [k \in DOMAIN items |-> items[order[k]]]

\* A weak area needs a scored section, for its severity comes from the score;
\* those that are kept keep their places, and so their order.
WeakAreas(content, sections) ==
    RestrictValues(content.weak, LAMBDA w : w.section \in DOMAIN sections)

\* A strong area of a section without a score keeps its topic and no section.
StrongAreas(content, sections) ==
    [i \in DOMAIN content.strong |->
        [content.strong[i] EXCEPT !.section = IF @ \in DOMAIN sections THEN @ ELSE NoSection]]

\* _build_report; done is is_completed of the roadmap items, by their sequence_no.
BuildReport(evals, weight, content) ==
    LET sections == SectionScores(evals)
    IN  [overall  |-> OverallScore(evals, weight),
         sections |-> sections,
         weak     |-> WeakAreas(content, sections),
         strong   |-> StrongAreas(content, sections),
         items    |-> ByPriority(content.items),
         done     |-> {}]

WeakSeverity(report, i) == Severity(report.sections[report.weak[i].section])

-----------------------------------------------------------------------------
\* The strong areas that are filed under a scored section.
Filed(areas) == RestrictValues(areas, LAMBDA a : a.section # NoSection)

SkillsNamed(areas, skillOf) == {skillOf[areas[i].topic] : i \in DOMAIN areas}

\* The first mention of a skill decides (the set "seen").
Mention(areas, skillOf, skill) ==
    CHOOSE i \in DOMAIN areas :
        /\ skillOf[areas[i].topic] = skill
        /\ \A k \in DOMAIN areas : skillOf[areas[k].topic] = skill => i <= k

\* The skills of two lists of areas, each with the score of the section that its
\* first mention is filed under.
ScoresBy(first, second, report, skillOf) ==
    [skill \in SkillsNamed(first, skillOf) \cup SkillsNamed(second, skillOf) |->
        LET areas == IF skill \in SkillsNamed(first, skillOf) THEN first ELSE second
        IN  report.sections[areas[Mention(areas, skillOf, skill)].section]]

\* Mutant: the strong topics come first.
StrongFirst(report, skillOf) ==
    ScoresBy(Filed(report.strong), report.weak, report, skillOf)

\* The skills a report assesses: its weak topics first, then the strong ones.
SkillScores(report, skillOf) ==
    ScoresBy(report.weak, Filed(report.strong), report, skillOf)
=============================================================================
