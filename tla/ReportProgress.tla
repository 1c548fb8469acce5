--------------------------- MODULE ReportProgress ---------------------------
(***************************************************************************)
(* The report of a completed interview and the progress recorded from it   *)
(* (backend/app/services/report/, backend/app/services/progress/ and       *)
(* backend/app/jobs/report_generation.py).                                 *)
(*                                                                         *)
(* A job is started by the request or the coding job that completes the    *)
(* interview, and again by every replay of that request.  It writes the    *)
(* report once, then records the user's progress in a second transaction   *)
(* of several reads and one commit.  Jobs run side by side and die with    *)
(* the process; nothing retries them.                                      *)
(***************************************************************************)
EXTENDS ReportScores

CONSTANTS
    Sessions,      \* interview sessions
    Users,
    UserOf,        \* [Sessions -> Users]
    Companies,
    CompanyOf,     \* [Sessions -> Companies \cup {NoCompany}]
    NoCompany,
    Evaluations,   \* [Sessions -> sets of evaluations], what the interview left
    WeightOf,      \* [Sessions -> [rounds -> weight]]
    Contents,      \* [Sessions -> narratives the provider may answer with]
    SkillOf,       \* [topics -> skill], the curated alias table
    Jobs,          \* report jobs that may run at once
    MaxDay,        \* bound: days the model spans
    MaxReplays     \* bound: repeated requests and coding jobs of completed interviews

ASSUME ReportAssumption ==
    /\ UserOf \in [Sessions -> Users]
    /\ CompanyOf \in [Sessions -> Companies \cup {NoCompany}]
    /\ NoCompany \notin Companies
    /\ MaxDay \in Nat \ {0}
    /\ MaxReplays \in Nat
    /\ IsFiniteSet(Sessions)
    /\ \A s \in Sessions : IsInterview(Evaluations[s], WeightOf[s])
    /\ \A s \in Sessions : \A c \in Contents[s] : IsContent(c, DOMAIN SkillOf)

VARIABLES
    completed,  \* sessions whose status is COMPLETED
    reports,    \* [Sessions -> report or NoReport]: session_id is unique
    snapshots,  \* [Users -> [Days -> row or NoRow]]
    readiness,  \* [Users -> [Companies -> row or NoRow]]
    skills,     \* [Users -> [Skills -> row or NoRow]]
    jobs,       \* [Jobs -> job record]
    today,
    replays,    \* how many triggers have been repeated
    dropped,    \* history: sessions one of whose jobs failed or died
    overlapped  \* history: pairs of sessions that were recorded at once

rows == <<snapshots, readiness, skills>>
vars == <<completed, reports, rows, jobs, today, replays, dropped, overlapped>>

NoReport == [overall |-> -1]
NoRow == [score |-> -1]
Days == 1..MaxDay
Skills == {SkillOf[t] : t \in DOMAIN SkillOf}

-----------------------------------------------------------------------------
\* A job: where it is, the provider call or recording attempt it is in, the
\* report it holds in memory, and what the recording transaction has read.
NoSession == "none"
Nothing == <<>>

Idle == [phase |-> "idle", session |-> NoSession, attempt |-> 0, report |-> NoReport,
         totals |-> NoRow, seen |-> Nothing]

\* The phases of the recording are named for what is read next.
Phases == {"idle", "started", "asking", "writing", "totals", "snapshot", "readiness", "skills"}

Recording == {"totals", "snapshot", "readiness", "skills"}

\* The job holds rows it has loaded.
Loaded(j) == jobs[j].phase \in {"readiness", "skills"}

Running(j) == jobs[j].phase # "idle"

UserOfJob(j) == UserOf[jobs[j].session]

Advance(j, job) == jobs' = [jobs EXCEPT ![j] = job]

Init ==
    /\ completed = {}
    /\ reports = [s \in Sessions |-> NoReport]
    /\ snapshots = [u \in Users |-> [d \in Days |-> NoRow]]
    /\ readiness = [u \in Users |-> [c \in Companies |-> NoRow]]
    /\ skills = [u \in Users |-> [k \in Skills |-> NoRow]]
    /\ jobs = [j \in Jobs |-> Idle]
    /\ today = 1
    /\ replays = 0
    /\ dropped = {}
    /\ overlapped = {}

-----------------------------------------------------------------------------
(* The triggers. *)

StartJob(j, s) ==
    /\ ~Running(j)
    /\ Advance(j, [Idle EXCEPT !.phase = "started", !.session = s])

\* The interview completes: by a text turn, whose request enqueues the job with
\* its response, or by the coding job, which goes on as the report job.
Complete(j, s) ==
    /\ s \notin completed
    /\ completed' = completed \cup {s}
    /\ StartJob(j, s)
    /\ UNCHANGED <<reports, rows, today, replays, dropped, overlapped>>

\* A request or coding job repeated after the end finds the interview COMPLETED
\* and triggers the job again.
Retrigger(j, s) ==
    /\ replays < MaxReplays
    /\ replays' = replays + 1
    /\ s \in completed
    /\ StartJob(j, s)
    /\ UNCHANGED <<completed, reports, rows, today, dropped, overlapped>>

-----------------------------------------------------------------------------
(* Writing the report. *)

\* All of a report but the ticks on its roadmap, which recording does not read.
Narrative(report) == [report EXCEPT !.done = {}]

\* The reports a job can build: the scores are fixed by the evaluations before
\* the provider is asked for its narrative.
Drafts ==
    [s \in Sessions |->
        [c \in Contents[s] |-> BuildReport(Evaluations[s], WeightOf[s], c)]]

\* The skills that each of them assesses.
Assessments ==
    [r \in UNION {{Drafts[s][c] : c \in Contents[s]} : s \in Sessions} |->
        SkillScores(r, SkillOf)]

\* The pre-check: an existing report goes straight to the recording of progress.
Check(j) ==
    LET s == jobs[j].session
    IN  /\ jobs[j].phase = "started"
        /\ IF reports[s] # NoReport
           THEN Advance(j, [jobs[j] EXCEPT !.phase = "totals", !.attempt = 1,
                                           !.report = Narrative(reports[s])])
           ELSE Advance(j, [jobs[j] EXCEPT !.phase = "asking", !.attempt = 1])
        /\ UNCHANGED <<completed, reports, rows, today, replays, dropped, overlapped>>

\* A ServerError of the first call is retried once.
ProviderRetries(j) ==
    /\ jobs[j].phase = "asking"
    /\ jobs[j].attempt = 1
    /\ Advance(j, [jobs[j] EXCEPT !.attempt = 2])
    /\ UNCHANGED <<completed, reports, rows, today, replays, dropped, overlapped>>

ProviderAnswers(j, s, content) ==
    /\ jobs[j].phase = "asking"
    /\ jobs[j].session = s
    /\ Advance(j, [jobs[j] EXCEPT !.phase = "writing",
                      !.report = Drafts[s][content]])
    /\ UNCHANGED <<completed, reports, rows, today, replays, dropped, overlapped>>

EndJob(j, lost) ==
    /\ Advance(j, Idle)
    /\ dropped' = IF lost THEN dropped \cup {jobs[j].session} ELSE dropped

\* A timeout, a rejected request, a second ServerError, an answer that does not
\* fit the schema: the job logs it and stops.
ProviderFails(j) ==
    /\ jobs[j].phase = "asking"
    /\ EndJob(j, TRUE)
    /\ UNCHANGED <<completed, reports, rows, today, replays, overlapped>>

\* Mutant: the loser of the race overwrites the report.
StoreAnyway(j) ==
    LET s == jobs[j].session
    IN  /\ jobs[j].phase = "writing"
        /\ reports' = [reports EXCEPT ![s] = jobs[j].report]
        /\ Advance(j, [jobs[j] EXCEPT !.phase = "totals", !.attempt = 1])
        /\ UNCHANGED <<completed, rows, today, replays, dropped, overlapped>>

\* Mutant: the loser of the race goes on with the report it built.
StoreKeepsOwn(j) ==
    LET s == jobs[j].session
    IN  /\ jobs[j].phase = "writing"
        /\ reports' = IF reports[s] = NoReport
                      THEN [reports EXCEPT ![s] = jobs[j].report] ELSE reports
        /\ Advance(j, [jobs[j] EXCEPT !.phase = "totals", !.attempt = 1])
        /\ UNCHANGED <<completed, rows, today, replays, dropped, overlapped>>

\* One commit of the whole report, or the IntegrityError of the unique
\* session_id, a rollback and the report of the winner.
Store(j) ==
    LET s == jobs[j].session
        winner == IF reports[s] = NoReport THEN jobs[j].report ELSE reports[s]
    IN  /\ jobs[j].phase = "writing"
        /\ reports' = [reports EXCEPT ![s] = winner]
        /\ Advance(j, [jobs[j] EXCEPT !.phase = "totals", !.attempt = 1,
                                       !.report = Narrative(winner)])
        /\ UNCHANGED <<completed, rows, today, replays, dropped, overlapped>>

-----------------------------------------------------------------------------
(* Recording the progress: reads, then one commit. *)

\* Mutant: interviews count before they have a report.
CompletedBy(u) == {s \in Sessions : UserOf[s] = u /\ s \in completed}

ReportedBy(u) == {s \in Sessions : UserOf[s] = u /\ s \in completed /\ reports[s] # NoReport}

Overalls(S) == [s \in S |-> reports[s].overall]

\* A float equals the Decimal that a numeric(5,2) column loads as only where binary
\* fractions are exact, at quarters of a point.
ExactFloat(score) == score % 25 = 0

\* count_and_average_for_user; the average is a float that no column has rounded yet.
Totals(u) ==
    LET mine == ReportedBy(u)
        score == IF mine = {} THEN 0 ELSE Average(Overalls(mine))
    IN  [count |-> Cardinality(mine),
         score |-> score,
         exact |-> /\ ExactFloat(score)
                   /\ SumFunction(Overalls(mine)) = score * Cardinality(mine)]

ReadTotals(j) ==
    /\ jobs[j].phase = "totals"
    /\ Advance(j, [jobs[j] EXCEPT !.phase = "snapshot", !.totals = Totals(UserOfJob(j))])
    /\ UNCHANGED <<completed, reports, rows, today, replays, dropped, overlapped>>

Assessed(j) == Assessments[jobs[j].report]

\* The row of the day it is by then; the target company comes next, if there is one.
ReadSnapshot(j) ==
    /\ jobs[j].phase = "snapshot"
    /\ Advance(j, [jobs[j] EXCEPT
           !.phase = IF CompanyOf[jobs[j].session] = NoCompany THEN "skills" ELSE "readiness",
           !.seen = [day      |-> today,
                     snapshot |-> snapshots[UserOfJob(j)][today],
                     company  |-> NoRow,
                     skill    |-> Nothing]])
    /\ UNCHANGED <<completed, reports, rows, today, replays, dropped, overlapped>>

ReadReadiness(j) ==
    /\ jobs[j].phase = "readiness"
    /\ Advance(j, [jobs[j] EXCEPT
           !.phase = "skills",
           !.seen.company = readiness[UserOfJob(j)][CompanyOf[jobs[j].session]]])
    /\ UNCHANGED <<completed, reports, rows, today, replays, dropped, overlapped>>

With(found, k, row) ==
    [x \in DOMAIN found \cup {k} |-> IF x = k THEN row ELSE found[x]]

\* The assessed skills are looked up one by one; no property tells their order.
ReadSkill(j) ==
    /\ jobs[j].phase = "skills"
    /\ \E k \in DOMAIN Assessed(j) \ DOMAIN jobs[j].seen.skill :
           Advance(j, [jobs[j] EXCEPT !.seen.skill = With(@, k, skills[UserOfJob(j)][k])])
    /\ UNCHANGED <<completed, reports, rows, today, replays, dropped, overlapped>>

ReadyToCommit(j) ==
    /\ jobs[j].phase = "skills"
    /\ DOMAIN jobs[j].seen.skill = DOMAIN Assessed(j)

Fresh(loaded, row) == loaded = NoRow /\ row # NoRow

\* A row that was missing when it was looked up and is there now: the INSERT
\* meets the unique constraint.
Conflict(j) ==
    LET u == UserOfJob(j)
        c == CompanyOf[jobs[j].session]
        seen == jobs[j].seen
    IN  \/ Fresh(seen.snapshot, snapshots[u][seen.day])
        \/ c # NoCompany /\ Fresh(seen.company, readiness[u][c])
        \/ \E k \in DOMAIN seen.skill : Fresh(seen.skill[k], skills[u][k])

\* An INSERT, or the UPDATE of a row that was loaded: it sets the columns whose new
\* value differs from the loaded one and leaves the others to the row it meets.
Upserted(row, loaded, new, exact) ==
    IF loaded = NoRow THEN new
    ELSE [column \in DOMAIN new |->
             IF new[column] = loaded[column] /\ (column = "score" => exact)
             THEN row[column] ELSE new[column]]

\* A skill assessed for the first time has no trend; a later score is compared
\* with the score that was loaded.
SkillRow(score, loaded) ==
    [score |-> score,
     trend |-> IF loaded = NoRow THEN "stable" ELSE Trend(score - loaded.score)]

\* Mutant: the row keeps the interview it was created for.
FirstInterviewKept(loaded, score, s) ==
    [score |-> score, session |-> IF loaded = NoRow THEN s ELSE loaded.session]

\* _upsert_company_readiness: whichever interview is recorded last, replays included.
ReadinessRow(loaded, score, s) == [score |-> score, session |-> s]

SnapshotRow(totals) == [count |-> totals.count, score |-> totals.score]

\* The recordings of the same user that hold rows while this one commits.
Overlaps(j) ==
    {{jobs[j].session, jobs[i].session} :
        i \in {x \in Jobs \ {j} : Loaded(x) /\ UserOfJob(x) = UserOfJob(j)}}

Record(j) ==
    LET u == UserOfJob(j)
        s == jobs[j].session
        c == CompanyOf[s]
        overall == jobs[j].report.overall
        seen == jobs[j].seen
    IN  /\ ReadyToCommit(j)
        /\ ~Conflict(j)
        /\ snapshots' = [snapshots EXCEPT
               ![u][seen.day] = Upserted(@, seen.snapshot, SnapshotRow(jobs[j].totals),
                                         jobs[j].totals.exact)]
        /\ readiness' = IF c = NoCompany THEN readiness
                        ELSE [readiness EXCEPT
                                 ![u][c] = Upserted(@, seen.company,
                                                    ReadinessRow(seen.company, overall, s),
                                                    ExactFloat(overall))]
        /\ skills' = [skills EXCEPT ![u] =
                         [k \in Skills |->
                             IF k \in DOMAIN seen.skill
                             THEN Upserted(@[k], seen.skill[k],
                                           SkillRow(Assessed(j)[k], seen.skill[k]),
                                           ExactFloat(Assessed(j)[k]))
                             ELSE @[k]]]
        /\ overlapped' = overlapped \cup Overlaps(j)
        /\ EndJob(j, FALSE)
        /\ UNCHANGED <<completed, reports, today, replays>>

\* Mutant: a race is not retried.
GiveUpAtOnce(j) ==
    /\ ReadyToCommit(j)
    /\ Conflict(j)
    /\ EndJob(j, FALSE)
    /\ UNCHANGED <<completed, reports, rows, today, replays, overlapped>>

\* A rollback, and once a second attempt from the first read on.
RecordConflicts(j) ==
    /\ ReadyToCommit(j)
    /\ Conflict(j)
    /\ IF jobs[j].attempt = 1
       THEN /\ Advance(j, [jobs[j] EXCEPT !.phase = "totals", !.attempt = 2,
                                          !.totals = NoRow, !.seen = Nothing])
            /\ UNCHANGED dropped
       ELSE EndJob(j, TRUE)
    /\ UNCHANGED <<completed, reports, rows, today, replays, overlapped>>

-----------------------------------------------------------------------------
(* Failures, time and the user. *)

\* Any other exception of a database call: logged, never retried.
DatabaseFails(j) ==
    /\ jobs[j].phase \in Phases \ {"idle", "asking"}
    /\ EndJob(j, TRUE)
    /\ UNCHANGED <<completed, reports, rows, today, replays, overlapped>>

\* Background tasks live in the process: they end with it, and so do their
\* transactions.
ProcessCrash ==
    /\ \E j \in Jobs : Running(j)
    /\ jobs' = [j \in Jobs |-> Idle]
    /\ dropped' = dropped \cup {jobs[j].session : j \in {x \in Jobs : Running(x)}}
    /\ UNCHANGED <<completed, reports, rows, today, replays, overlapped>>

Midnight ==
    /\ today < MaxDay
    /\ today' = today + 1
    /\ UNCHANGED <<completed, reports, rows, jobs, replays, dropped, overlapped>>

\* PATCH /roadmap-items/{id} by the report's owner.
UpdateRoadmapItem(u, s, i, isCompleted) ==
    /\ reports[s] # NoReport
    /\ UserOf[s] = u
    /\ i \in DOMAIN reports[s].items
    /\ reports' = [reports EXCEPT ![s].done = IF isCompleted THEN @ \cup {i} ELSE @ \ {i}]
    /\ UNCHANGED <<completed, rows, jobs, today, replays, dropped, overlapped>>

-----------------------------------------------------------------------------
JobStep(j) ==
    \/ Check(j)
    \/ ProviderRetries(j)
    \/ \E s \in Sessions : \E c \in Contents[s] : ProviderAnswers(j, s, c)
    \/ ProviderFails(j)
    \/ Store(j)
    \/ ReadTotals(j)
    \/ ReadSnapshot(j)
    \/ ReadReadiness(j)
    \/ ReadSkill(j)
    \/ Record(j)
    \/ RecordConflicts(j)

Next ==
    \/ \E j \in Jobs, s \in Sessions : Complete(j, s) \/ Retrigger(j, s)
    \/ \E j \in Jobs : JobStep(j) \/ DatabaseFails(j)
    \/ ProcessCrash
    \/ Midnight
    \/ \E u \in Users, s \in Sessions, i \in 1..2, b \in BOOLEAN : UpdateRoadmapItem(u, s, i, b)

Spec == Init /\ [][Next]_vars

\* A job that runs goes on: the event loop resumes it, the provider's call ends
\* in an answer, an error or its timeout.
FairSpec == Spec /\ \A j \in Jobs : WF_vars(JobStep(j))

-----------------------------------------------------------------------------
(* What the API serves. *)

\* get_report_for_session
ReportResponse(u, s) ==
    IF UserOf[s] # u THEN "INTERVIEW_NOT_FOUND"
    ELSE IF reports[s] = NoReport THEN "REPORT_NOT_YET_AVAILABLE"
    ELSE Narrative(reports[s])

\* get_overview: the latest snapshot, and its average against the one before it.
Overview(u) ==
    LET days == {d \in Days : snapshots[u][d] # NoRow}
        latest == Max(days)
        before == Max(days \ {latest})
    IN  IF days = {} THEN [count |-> 0, score |-> 0, trend |-> "stable"]
        ELSE [count |-> snapshots[u][latest].count,
              score |-> snapshots[u][latest].score,
              trend |-> IF Cardinality(days) = 1 THEN "stable"
                        ELSE Trend(snapshots[u][latest].score - snapshots[u][before].score)]

-----------------------------------------------------------------------------
(* Properties. *)

IsReport(r) ==
    /\ r.overall \in Points
    /\ DOMAIN r.sections \subseteq Sections
    /\ \A k \in DOMAIN r.sections : r.sections[k] \in Points
    /\ \A i \in DOMAIN r.weak : r.weak[i].section \in DOMAIN r.sections
    /\ \A i \in DOMAIN r.strong : r.strong[i].section \in DOMAIN r.sections \cup {NoSection}
    /\ r.done \subseteq DOMAIN r.items

SnapshotRows == [count : 0..Cardinality(Sessions), score : Points]
ReadinessRows == [score : Points, session : Sessions]
SkillRows == [score : Points, trend : Trends]
TotalsRead == [count : 0..Cardinality(Sessions), score : Points, exact : BOOLEAN]

\* The rows and the jobs have the shapes and ranges of their columns.
TypeOK ==
    /\ completed \subseteq Sessions
    /\ DOMAIN reports = Sessions
    /\ \A s \in Sessions : reports[s] # NoReport => IsReport(reports[s])
    /\ snapshots \in [Users -> [Days -> SnapshotRows \cup {NoRow}]]
    /\ readiness \in [Users -> [Companies -> ReadinessRows \cup {NoRow}]]
    /\ skills \in [Users -> [Skills -> SkillRows \cup {NoRow}]]
    /\ \A j \in Jobs : /\ jobs[j].phase \in Phases
                       /\ jobs[j].session \in Sessions \cup {NoSession}
                       /\ jobs[j].attempt \in 0..2
                       /\ jobs[j].report # NoReport => IsReport(jobs[j].report)
                       /\ jobs[j].totals \in TotalsRead \cup {NoRow}
    /\ today \in Days
    /\ replays \in 0..MaxReplays
    /\ dropped \subseteq completed
    /\ overlapped \subseteq SUBSET completed

\* A report that was served once is served ever after with the same scores and
\* narrative, whatever other triggers, races and replays come later; only the
\* owner's ticks on its roadmap change.
ReportStands ==
    [][\A s \in Sessions :
          reports[s] # NoReport =>
              ReportResponse(UserOf[s], s)' = ReportResponse(UserOf[s], s)]_vars

\* Progress is recorded from the stored report: of two jobs that wrote the report
\* of one session at once, the loser goes on with the winner's.
RecordsStored ==
    \A j \in Jobs :
        jobs[j].phase \in Recording =>
            jobs[j].report = ReportResponse(UserOfJob(j), jobs[j].session)

AllScores(s) == UNION {{e.scores[d] : d \in DOMAIN e.scores} : e \in Evaluations[s]}

\* The overall score lies within the scores the interview was given: a round that
\* was never reached does not pull it down.
OverallWithinScores ==
    \A s \in Sessions :
        reports[s] # NoReport /\ AllScores(s) # {} =>
            reports[s].overall \in Min(AllScores(s))..Max(AllScores(s))

FiledUnder(areas, k, score, report) ==
    \E i \in DOMAIN areas : /\ SkillOf[areas[i].topic] = k
                            /\ areas[i].section # NoSection
                            /\ report.sections[areas[i].section] = score

\* A skill's score is one of the user's own: that of the section the skill is filed
\* under in one of the user's reports, and where a report calls it both weak and
\* strong, that of the weak one.
SkillsGrounded ==
    \A u \in Users, k \in Skills :
        skills[u][k] # NoRow =>
            \E s \in ReportedBy(u) :
                LET r == reports[s]
                    weak == {i \in DOMAIN r.weak : SkillOf[r.weak[i].topic] = k}
                IN  IF weak # {} THEN FiledUnder(r.weak, k, skills[u][k].score, r)
                    ELSE FiledUnder(r.strong, k, skills[u][k].score, r)

RecordedAtOnce(s, t) == {s, t} \in overlapped

\* The readiness for a company names an interview of that user at that company and
\* carries its overall score: but where recordings overlapped, their UPDATEs of
\* one row can interleave column by column, and the score can be that of an
\* interview at the company which was recorded at the same time as the named one.
ReadinessPaired ==
    \A u \in Users, c \in Companies :
        readiness[u][c] # NoRow =>
            LET s == readiness[u][c].session
                mine == {t \in ReportedBy(u) : CompanyOf[t] = c}
            IN  /\ s \in mine
                /\ \E t \in mine : /\ t = s \/ RecordedAtOnce(s, t)
                                   /\ readiness[u][c].score = reports[t].overall

\* The dashboard never claims an interview that has no report, and its average is
\* that of as many of the user's reports as it counts, however stale the
\* transaction that wrote it; after two recordings of the user have overlapped,
\* count and average can each be those of a set of reports of its own.
OverviewHonest ==
    \A u \in Users :
        LET o == Overview(u)
        IN  o.count > 0 =>
              \E S, T \in (SUBSET ReportedBy(u)) \ {{}} :
                  /\ Cardinality(S) = o.count
                  /\ o.score = Average(Overalls(T))
                  /\ S = T \/ \E s, t \in ReportedBy(u) : RecordedAtOnce(s, t)

\* The dashboard's rows hold the figures of single recordings, as the docstring of
\* ProgressService has it (a clean retry always converges to the same result): the
\* readiness score is that of the interview the row names, and the overview's
\* average is that of as many reports as it counts.
FiguresOfOneRecording ==
    \A u \in Users :
        /\ \A c \in Companies :
               readiness[u][c] # NoRow =>
                   readiness[u][c].score = reports[readiness[u][c].session].overall
        /\ LET o == Overview(u)
           IN  o.count > 0 =>
                  \E S \in SUBSET ReportedBy(u) :
                      Cardinality(S) = o.count /\ o.score = Average(Overalls(S))

Covered(s) ==
    LET u == UserOf[s]
        c == CompanyOf[s]
    IN  /\ \E d \in Days : snapshots[u][d] # NoRow
        /\ c # NoCompany => readiness[u][c] # NoRow
        /\ \A k \in DOMAIN Assessments[Narrative(reports[s])] : skills[u][k] # NoRow

\* Every completed interview gets its report and its progress rows, unless one of
\* its jobs failed or died with the process: a race of two recordings is not a
\* failure, the retry brings the loser's rows in.
ReportArrives ==
    \A s \in Sessions :
        s \in completed ~> \/ s \in dropped
                           \/ reports[s] # NoReport /\ Covered(s)
=============================================================================
