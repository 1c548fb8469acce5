------------------------- MODULE ReportProgressProofs -------------------------
(***************************************************************************)
(* What holds of reports and of the progress recorded from them for any    *)
(* interviews, any narratives of the provider and any number of jobs that  *)
(* race, fail and are replayed.                                            *)
(***************************************************************************)
EXTENDS ReportProgress, ReportScoresProofs

\* A report has the six parts of BuildReport, which tells it from NoReport.
Whole(r) ==
    r = [overall |-> r.overall, sections |-> r.sections, weak |-> r.weak,
         strong |-> r.strong, items |-> r.items, done |-> r.done]

\* A job has the fields that the properties look at.
JobShape(job) ==
    "phase" \in DOMAIN job /\ "session" \in DOMAIN job /\ "report" \in DOMAIN job

Shapes ==
    /\ completed \subseteq Sessions
    /\ reports = [s \in Sessions |-> reports[s]]
    /\ jobs = [j \in Jobs |-> jobs[j]]
    /\ \A j \in Jobs : JobShape(jobs[j])

StoredWhole == \A s \in Sessions : reports[s] # NoReport => Whole(reports[s])

\* Jobs are about completed interviews.
JobsCompleted == \A j \in Jobs : Running(j) => jobs[j].session \in completed

\* What a job is about to write is a report without ticks, ...
WritesWhole ==
    \A j \in Jobs : jobs[j].phase = "writing" =>
        Whole(jobs[j].report) /\ jobs[j].report.done = {}

\* ... and what it records is the stored one.
RecordsNarrative ==
    \A j \in Jobs : jobs[j].phase \in Recording =>
        /\ reports[jobs[j].session] # NoReport
        /\ jobs[j].report = Narrative(reports[jobs[j].session])

Inv ==
    /\ Shapes
    /\ StoredWhole
    /\ JobsCompleted
    /\ WritesWhole
    /\ RecordsNarrative

-----------------------------------------------------------------------------
\* The ticks are all that a report and its narrative differ in.
LEMMA NarrativeOfWhole ==
    ASSUME NEW r, Whole(r)
    PROVE  /\ r # NoReport
           /\ Whole(Narrative(r))
           /\ Narrative(r).overall = r.overall
           /\ r.done = {} => Narrative(r) = r
           /\ \A ticks : LET t == [r EXCEPT !.done = ticks]
                         IN  /\ Whole(t)
                             /\ t.overall = r.overall
                             /\ Narrative(t) = Narrative(r)
  <1> DEFINE T(x) == [overall |-> r.overall, sections |-> r.sections, weak |-> r.weak,
                      strong |-> r.strong, items |-> r.items, done |-> x]
  <1>1. r = T(r.done)
    BY DEF Whole
  <1>2. \A x : [r EXCEPT !.done = x] = T(x)
    BY <1>1
  <1>3. \A x : Whole(T(x)) /\ T(x).overall = r.overall /\ T(x).done = x
    BY DEF Whole
  <1>4. \A x : Narrative(T(x)) = T({})
    BY DEF Narrative
  <1>5. r # NoReport
    <2>1. "done" \in DOMAIN T(r.done) /\ "done" \notin DOMAIN NoReport
      BY DEF NoReport
    <2> QED
      BY <1>1, <2>1
  <1>6. Narrative(r) = T({})
    BY <1>1, <1>4
  <1> HIDE DEF T
  <1> QED
    BY <1>1, <1>2, <1>3, <1>4, <1>5, <1>6

\* Every report that can be built is whole and without ticks.
LEMMA DraftsAreWhole ==
    ASSUME NEW s \in Sessions, NEW c \in Contents[s]
    PROVE  Whole(Drafts[s][c]) /\ Drafts[s][c].done = {}
  <1>1. Drafts[s][c] = BuildReport(Evaluations[s], WeightOf[s], c)
    BY DEF Drafts
  <1> QED
    BY <1>1 DEF BuildReport, Whole

-----------------------------------------------------------------------------
\* Nothing is stored, recorded or running at the start.
LEMMA InitInv == Init => Inv
  <1> SUFFICES ASSUME Init PROVE Inv
    OBVIOUS
  <1>1. Shapes
    BY DEF Init, Shapes, JobShape, Idle
  <1>2. StoredWhole
    BY DEF Init, StoredWhole
  <1>3. JobsCompleted /\ WritesWhole /\ RecordsNarrative
    BY DEF Init, Idle, JobsCompleted, Running, WritesWhole, RecordsNarrative, Recording
  <1> QED
    BY <1>1, <1>2, <1>3 DEF Inv

\* A step of one job that leaves the reports alone.
LEMMA JobMoves ==
    ASSUME Inv, NEW j \in Jobs, NEW job, JobShape(job), jobs' = [jobs EXCEPT ![j] = job],
           completed \subseteq completed', completed' \subseteq Sessions,
           UNCHANGED reports,
           job.phase # "idle" => job.session \in completed',
           job.phase = "writing" => Whole(job.report) /\ job.report.done = {},
           job.phase \in Recording =>
               /\ reports[job.session] # NoReport
               /\ job.report = Narrative(reports[job.session])
    PROVE  Inv'
  <1>1. \A i \in Jobs : jobs'[i] = IF i = j THEN job ELSE jobs[i]
    BY DEF Inv, Shapes
  <1>2. Shapes'
    BY <1>1 DEF Inv, Shapes
  <1>3. StoredWhole'
    BY DEF Inv, StoredWhole
  <1>4. JobsCompleted'
    BY <1>1 DEF Inv, JobsCompleted, Running
  <1>5. WritesWhole'
    BY <1>1 DEF Inv, WritesWhole
  <1>6. RecordsNarrative'
    BY <1>1 DEF Inv, RecordsNarrative
  <1> QED
    BY <1>2, <1>3, <1>4, <1>5, <1>6 DEF Inv

\* A job that ends is an idle job.
LEMMA JobEnds ==
    ASSUME Inv, NEW j \in Jobs, NEW lost \in BOOLEAN, EndJob(j, lost),
           UNCHANGED <<completed, reports>>
    PROVE  Inv'
  <1>1. JobShape(Idle) /\ Idle.phase = "idle"
    BY DEF JobShape, Idle
  <1>2. jobs' = [jobs EXCEPT ![j] = Idle]
    BY DEF EndJob, Advance
  <1>3. completed \subseteq Sessions
    BY DEF Inv, Shapes
  <1> QED
    BY <1>1, <1>2, <1>3, JobMoves DEF Recording

\* A trigger starts an idle job about a completed interview.
LEMMA TriggerInv ==
    ASSUME Inv, NEW j \in Jobs, NEW s \in Sessions, Complete(j, s) \/ Retrigger(j, s)
    PROVE  Inv'
  <1> DEFINE job == [Idle EXCEPT !.phase = "started", !.session = s]
  <1>1. JobShape(job) /\ job.phase = "started" /\ job.session = s
    <2>1. JobShape(Idle)
      BY DEF JobShape, Idle
    <2> QED
      BY <2>1 DEF JobShape
  <1>2. /\ jobs' = [jobs EXCEPT ![j] = job]
        /\ UNCHANGED reports
        /\ completed \subseteq completed' /\ completed' \subseteq Sessions
        /\ s \in completed'
    BY DEF Complete, Retrigger, StartJob, Advance, Inv, Shapes
  <1> HIDE DEF job
  <1> QED
    BY <1>1, <1>2, JobMoves DEF Recording

\* The steps of a job before and after the report is written.
LEMMA QuietInv ==
    ASSUME Inv, NEW j \in Jobs,
           \/ Check(j)
           \/ ProviderRetries(j)
           \/ \E s \in Sessions : \E c \in Contents[s] : ProviderAnswers(j, s, c)
           \/ ProviderFails(j)
           \/ ReadTotals(j)
           \/ ReadSnapshot(j)
           \/ ReadReadiness(j)
           \/ ReadSkill(j)
           \/ RecordConflicts(j)
           \/ DatabaseFails(j)
    PROVE  Inv'
  <1>0. /\ completed \subseteq Sessions
        /\ JobShape(jobs[j])
        /\ Running(j) => jobs[j].session \in completed
    BY DEF Inv, Shapes, JobsCompleted
  <1>1. CASE Check(j) /\ reports[jobs[j].session] # NoReport
    <2> DEFINE s == jobs[j].session
               told == Narrative(reports[s])
               job == [jobs[j] EXCEPT !.phase = "totals", !.attempt = 1, !.report = told]
    <2> HIDE DEF told
    <2>1. /\ JobShape(job) /\ job.phase = "totals" /\ job.session = s
          /\ job.report = told
      BY <1>0 DEF JobShape
    <2>2. /\ jobs' = [jobs EXCEPT ![j] = job]
          /\ s \in completed /\ UNCHANGED <<completed, reports>>
      BY <1>0, <1>1 DEF Check, Advance, Running, told
    <2> HIDE DEF job
    <2> QED
      BY <1>0, <1>1, <2>1, <2>2, JobMoves DEF told
  <1>2. CASE Check(j) /\ reports[jobs[j].session] = NoReport
    <2> DEFINE job == [jobs[j] EXCEPT !.phase = "asking", !.attempt = 1]
    <2>1. JobShape(job) /\ job.phase = "asking" /\ job.session = jobs[j].session
      BY <1>0 DEF JobShape
    <2>2. /\ jobs' = [jobs EXCEPT ![j] = job]
          /\ jobs[j].session \in completed /\ UNCHANGED <<completed, reports>>
      BY <1>0, <1>2 DEF Check, Advance, Running
    <2> HIDE DEF job
    <2> QED
      BY <1>0, <2>1, <2>2, JobMoves DEF Recording
  <1>3. CASE ProviderRetries(j)
    <2> DEFINE job == [jobs[j] EXCEPT !.attempt = 2]
    <2>1. JobShape(job) /\ job.phase = "asking" /\ job.session = jobs[j].session
      BY <1>0, <1>3 DEF JobShape, ProviderRetries
    <2>2. /\ jobs' = [jobs EXCEPT ![j] = job]
          /\ jobs[j].session \in completed /\ UNCHANGED <<completed, reports>>
      BY <1>0, <1>3 DEF ProviderRetries, Advance, Running
    <2> HIDE DEF job
    <2> QED
      BY <1>0, <2>1, <2>2, JobMoves DEF Recording
  <1>4. ASSUME NEW s \in Sessions, NEW c \in Contents[s], ProviderAnswers(j, s, c)
        PROVE  Inv'
    <2> DEFINE job == [jobs[j] EXCEPT !.phase = "writing", !.report = Drafts[s][c]]
    <2>1. /\ JobShape(job) /\ job.phase = "writing" /\ job.session = jobs[j].session
          /\ job.report = Drafts[s][c]
      BY <1>0 DEF JobShape
    <2>2. /\ jobs' = [jobs EXCEPT ![j] = job]
          /\ jobs[j].session \in completed /\ UNCHANGED <<completed, reports>>
      BY <1>0, <1>4 DEF ProviderAnswers, Advance, Running
    <2>3. Whole(job.report) /\ job.report.done = {}
      BY <2>1, DraftsAreWhole
    <2> HIDE DEF job
    <2> QED
      BY <1>0, <2>1, <2>2, <2>3, JobMoves DEF Recording
  <1>5. CASE ProviderFails(j) \/ DatabaseFails(j)
    BY <1>5, JobEnds DEF ProviderFails, DatabaseFails
  <1>6. ASSUME NEW job, JobShape(job), job.session = jobs[j].session,
               job.report = jobs[j].report, job.phase \in Recording,
               jobs[j].phase \in Recording, jobs' = [jobs EXCEPT ![j] = job],
               UNCHANGED <<completed, reports>>
        PROVE  Inv'
    BY <1>0, <1>6, JobMoves DEF Inv, RecordsNarrative, Recording, Running
  <1>7. CASE ReadTotals(j) \/ ReadSnapshot(j) \/ ReadReadiness(j) \/ ReadSkill(j)
    <2>1. PICK job : /\ JobShape(job)
                     /\ job.session = jobs[j].session
                     /\ job.report = jobs[j].report
                     /\ job.phase \in Recording
                     /\ jobs' = [jobs EXCEPT ![j] = job]
      <3>1. CASE ReadTotals(j)
        <4> DEFINE job == [jobs[j] EXCEPT !.phase = "snapshot", !.totals = Totals(UserOfJob(j))]
        <4>1. /\ JobShape(job) /\ job.phase = "snapshot" /\ job.session = jobs[j].session
              /\ job.report = jobs[j].report
          BY <1>0 DEF JobShape
        <4> QED
          BY <3>1, <4>1 DEF ReadTotals, Advance, Recording
      <3>2. CASE ReadSnapshot(j)
        <4> DEFINE read == [day      |-> today,
                            snapshot |-> snapshots[UserOfJob(j)][today],
                            company  |-> NoRow,
                            skill    |-> Nothing]
                   next == IF CompanyOf[jobs[j].session] = NoCompany
                           THEN "skills" ELSE "readiness"
                   job == [jobs[j] EXCEPT !.phase = next, !.seen = read]
        <4>1. next \in Recording
          BY DEF Recording
        <4>2. jobs' = [jobs EXCEPT ![j] = job]
          BY <3>2 DEF ReadSnapshot, Advance
        <4> HIDE DEF read, next
        <4>3. /\ JobShape(job) /\ job.phase = next /\ job.session = jobs[j].session
              /\ job.report = jobs[j].report
          BY <1>0 DEF JobShape
        <4> QED
          BY <4>1, <4>2, <4>3
      <3>3. CASE ReadReadiness(j)
        <4> DEFINE row == readiness[UserOfJob(j)][CompanyOf[jobs[j].session]]
                   read == [jobs[j].seen EXCEPT !.company = row]
                   job == [jobs[j] EXCEPT !.phase = "skills", !.seen = read]
        <4>1. jobs' = [jobs EXCEPT ![j] = job]
          BY <3>3 DEF ReadReadiness, Advance
        <4> HIDE DEF read
        <4>2. /\ JobShape(job) /\ job.phase = "skills" /\ job.session = jobs[j].session
              /\ job.report = jobs[j].report
          BY <1>0 DEF JobShape
        <4> QED
          BY <4>1, <4>2 DEF Recording
      <3>4. CASE ReadSkill(j)
        <4>1. PICK k \in DOMAIN Assessed(j) \ DOMAIN jobs[j].seen.skill :
                 Advance(j, [jobs[j] EXCEPT !.seen.skill = With(@, k, skills[UserOfJob(j)][k])])
          BY <3>4 DEF ReadSkill
        <4> DEFINE found == With(jobs[j].seen.skill, k, skills[UserOfJob(j)][k])
                   read == [jobs[j].seen EXCEPT !.skill = found]
                   job == [jobs[j] EXCEPT !.seen = read]
        <4>2. jobs' = [jobs EXCEPT ![j] = job]
          BY <4>1 DEF Advance
        <4> HIDE DEF read
        <4>3. /\ JobShape(job) /\ job.phase = jobs[j].phase /\ job.session = jobs[j].session
              /\ job.report = jobs[j].report
          BY <1>0 DEF JobShape
        <4> QED
          BY <3>4, <4>2, <4>3 DEF ReadSkill, Recording
      <3> QED
        BY <1>7, <3>1, <3>2, <3>3, <3>4
    <2>2. jobs[j].phase \in Recording /\ UNCHANGED <<completed, reports>>
      BY <1>7 DEF ReadTotals, ReadSnapshot, ReadReadiness, ReadSkill, Recording
    <2> QED
      BY <1>6, <2>1, <2>2
  <1>8. CASE RecordConflicts(j)
    <2>1. CASE jobs[j].attempt # 1
      BY <1>8, <2>1, JobEnds DEF RecordConflicts
    <2>2. CASE jobs[j].attempt = 1
      <3> DEFINE job == [jobs[j] EXCEPT !.phase = "totals", !.attempt = 2,
                                        !.totals = NoRow, !.seen = Nothing]
      <3>1. /\ JobShape(job) /\ job.phase = "totals" /\ job.session = jobs[j].session
            /\ job.report = jobs[j].report
        BY <1>0 DEF JobShape
      <3>2. /\ jobs' = [jobs EXCEPT ![j] = job] /\ jobs[j].phase = "skills"
            /\ UNCHANGED <<completed, reports>>
        BY <1>8, <2>2 DEF RecordConflicts, ReadyToCommit, Advance
      <3> HIDE DEF job
      <3> QED
        BY <1>6, <3>1, <3>2 DEF Recording
    <2> QED
      BY <2>1, <2>2
  <1> QED
    BY <1>1, <1>2, <1>3, <1>4, <1>5, <1>7, <1>8

\* The commit of the report.  Jobs that record are about stored reports, which it
\* does not touch; the job that stores goes on with the stored one.
LEMMA StoreInv ==
    ASSUME Inv, NEW j \in Jobs, Store(j)
    PROVE  Inv'
  <1> DEFINE s == jobs[j].session
             winner == IF reports[s] = NoReport THEN jobs[j].report ELSE reports[s]
             told == Narrative(winner)
             job == [jobs[j] EXCEPT !.phase = "totals", !.attempt = 1, !.report = told]
  <1>1. /\ jobs[j].phase = "writing"
        /\ reports' = [reports EXCEPT ![s] = winner]
        /\ jobs' = [jobs EXCEPT ![j] = job]
        /\ UNCHANGED completed
    BY DEF Store, Advance
  <1>2. s \in completed /\ s \in Sessions /\ JobShape(jobs[j])
    BY <1>1 DEF Inv, Shapes, JobsCompleted, Running
  <1>3. /\ Whole(winner) /\ winner # NoReport
        /\ reports[s] = NoReport => told = jobs[j].report
    BY <1>1, <1>2, NarrativeOfWhole DEF Inv, StoredWhole, WritesWhole
  <1>4. \A x \in Sessions : reports'[x] = IF x = s THEN winner ELSE reports[x]
    BY <1>1 DEF Inv, Shapes
  <1>5. \A x \in Sessions : reports[x] # NoReport => reports'[x] = reports[x]
    BY <1>4
  <1> HIDE DEF winner, told
  <1>6. /\ JobShape(job) /\ job.phase = "totals" /\ job.session = s /\ job.report = told
    BY <1>2 DEF JobShape
  <1> HIDE DEF job
  <1>7. \A i \in Jobs : jobs'[i] = IF i = j THEN job ELSE jobs[i]
    BY <1>1 DEF Inv, Shapes
  <1>8. Shapes'
    BY <1>1, <1>6, <1>7 DEF Inv, Shapes
  <1>9. StoredWhole'
    BY <1>3, <1>4 DEF Inv, StoredWhole
  <1>10. JobsCompleted'
    BY <1>1, <1>2, <1>6, <1>7 DEF Inv, JobsCompleted, Running
  <1>11. WritesWhole'
    BY <1>6, <1>7 DEF Inv, WritesWhole
  <1>12. RecordsNarrative'
    <2> SUFFICES ASSUME NEW i \in Jobs, jobs'[i].phase \in Recording
                 PROVE  /\ reports'[jobs'[i].session] # NoReport
                        /\ jobs'[i].report = Narrative(reports'[jobs'[i].session])
      BY DEF RecordsNarrative
    <2>1. CASE i = j
      BY <1>2, <1>3, <1>4, <1>6, <1>7, <2>1 DEF told
    <2>2. CASE i # j
      <3>1. jobs'[i] = jobs[i] /\ jobs[i].session \in Sessions
        BY <1>7, <2>2 DEF Inv, JobsCompleted, Running, Recording, Shapes
      <3> QED
        BY <1>5, <3>1 DEF Inv, RecordsNarrative
    <2> QED
      BY <2>1, <2>2
  <1> QED
    BY <1>8, <1>9, <1>10, <1>11, <1>12 DEF Inv

\* The commit of the progress ends its job.
LEMMA RecordInv ==
    ASSUME Inv, NEW j \in Jobs, Record(j)
    PROVE  Inv'
  <1>1. EndJob(j, FALSE) /\ UNCHANGED <<completed, reports>>
    BY DEF Record
  <1> QED
    BY <1>1, JobEnds

\* The process dies: its jobs are gone, what was committed stays.
LEMMA CrashInv ==
    ASSUME Inv, ProcessCrash
    PROVE  Inv'
  <1>1. /\ jobs' = [j \in Jobs |-> Idle]
        /\ UNCHANGED <<completed, reports>>
    BY DEF ProcessCrash
  <1>2. JobShape(Idle) /\ Idle.phase = "idle"
    BY DEF JobShape, Idle
  <1>3. Shapes'
    BY <1>1, <1>2 DEF Inv, Shapes
  <1>4. JobsCompleted' /\ WritesWhole' /\ RecordsNarrative'
    BY <1>1, <1>2 DEF JobsCompleted, WritesWhole, RecordsNarrative, Running, Recording
  <1>5. StoredWhole'
    BY <1>1 DEF Inv, StoredWhole
  <1> QED
    BY <1>3, <1>4, <1>5 DEF Inv

\* A tick on the roadmap: the narrative and the overall score do not change.
LEMMA RoadmapInv ==
    ASSUME Inv, NEW u \in Users, NEW s \in Sessions, NEW i, NEW b,
           UpdateRoadmapItem(u, s, i, b)
    PROVE  /\ Inv'
           /\ \A x \in Sessions : reports[x] # NoReport =>
                  reports'[x] # NoReport /\ Narrative(reports'[x]) = Narrative(reports[x])
  <1> DEFINE ticks == IF b THEN reports[s].done \cup {i} ELSE reports[s].done \ {i}
             ticked == [reports[s] EXCEPT !.done = ticks]
  <1>1. /\ reports[s] # NoReport
        /\ UNCHANGED <<completed, jobs>>
    BY DEF UpdateRoadmapItem
  <1>2. \A x \in Sessions : reports'[x] = IF x = s THEN ticked ELSE reports[x]
    BY DEF UpdateRoadmapItem, Inv, Shapes
  <1>3. reports' = [x \in Sessions |-> reports'[x]]
    BY DEF UpdateRoadmapItem, Inv, Shapes
  <1> HIDE DEF ticks
  <1>4. Whole(reports[s])
    BY <1>1 DEF Inv, StoredWhole
  <1>5. /\ Whole(ticked)
        /\ ticked.overall = reports[s].overall
        /\ Narrative(ticked) = Narrative(reports[s])
    BY <1>4, NarrativeOfWhole
  <1> HIDE DEF ticked
  <1>6. ticked # NoReport
    BY <1>5, NarrativeOfWhole
  <1>7. \A x \in Sessions : reports[x] # NoReport =>
            /\ reports'[x] # NoReport
            /\ reports'[x].overall = reports[x].overall
            /\ Narrative(reports'[x]) = Narrative(reports[x])
    BY <1>2, <1>5, <1>6
  <1>8. Shapes'
    BY <1>1, <1>3 DEF Inv, Shapes
  <1>9. StoredWhole'
    BY <1>2, <1>5 DEF Inv, StoredWhole
  <1>10. JobsCompleted' /\ WritesWhole'
    BY <1>1 DEF Inv, JobsCompleted, WritesWhole, Running
  <1>11. RecordsNarrative'
    <2> SUFFICES ASSUME NEW j \in Jobs, jobs[j].phase \in Recording
                 PROVE  /\ reports'[jobs[j].session] # NoReport
                        /\ jobs[j].report = Narrative(reports'[jobs[j].session])
      BY <1>1 DEF RecordsNarrative
    <2>1. jobs[j].session \in Sessions
      BY DEF Inv, Shapes, JobsCompleted, Running, Recording
    <2> QED
      BY <1>7, <2>1 DEF Inv, RecordsNarrative
  <1> QED
    BY <1>7, <1>8, <1>9, <1>10, <1>11 DEF Inv

-----------------------------------------------------------------------------
\* Every step keeps the invariant, and the narrative of every stored report.
LEMMA NextInv ==
    ASSUME Inv, [Next]_vars
    PROVE  /\ Inv'
           /\ \A x \in Sessions : reports[x] # NoReport =>
                  reports'[x] # NoReport /\ Narrative(reports'[x]) = Narrative(reports[x])
  <1>1. ASSUME UNCHANGED <<completed, reports, jobs>>
        PROVE  Inv' /\ reports' = reports
    <2>1. Shapes' /\ StoredWhole'
      BY <1>1 DEF Inv, Shapes, StoredWhole
    <2>2. JobsCompleted' /\ WritesWhole' /\ RecordsNarrative'
      BY <1>1 DEF Inv, JobsCompleted, WritesWhole, RecordsNarrative, Running
    <2> QED
      BY <1>1, <2>1, <2>2 DEF Inv
  <1>2. ASSUME NEW j \in Jobs, NEW s \in Sessions, Complete(j, s) \/ Retrigger(j, s)
        PROVE  Inv' /\ reports' = reports
    BY <1>2, TriggerInv DEF Complete, Retrigger
  <1>3. ASSUME NEW j \in Jobs,
               \/ Check(j)
               \/ ProviderRetries(j)
               \/ \E s \in Sessions : \E c \in Contents[s] : ProviderAnswers(j, s, c)
               \/ ProviderFails(j)
               \/ ReadTotals(j)
               \/ ReadSnapshot(j)
               \/ ReadReadiness(j)
               \/ ReadSkill(j)
               \/ RecordConflicts(j)
               \/ DatabaseFails(j)
        PROVE  Inv' /\ reports' = reports
    BY <1>3, QuietInv DEF Check, ProviderRetries, ProviderAnswers, ProviderFails, ReadTotals,
                          ReadSnapshot, ReadReadiness, ReadSkill, RecordConflicts, DatabaseFails
  <1>4. ASSUME NEW j \in Jobs, Store(j)
        PROVE  /\ Inv'
               /\ \A x \in Sessions : reports[x] # NoReport => reports'[x] = reports[x]
    <2>1. \A x \in Sessions : reports[x] # NoReport => reports'[x] = reports[x]
      BY <1>4 DEF Store, Inv, Shapes
    <2> QED
      BY <1>4, <2>1, StoreInv
  <1>5. ASSUME NEW j \in Jobs, Record(j)
        PROVE  Inv' /\ reports' = reports
    BY <1>5, RecordInv DEF Record
  <1>6. CASE ProcessCrash
    BY <1>6, CrashInv DEF ProcessCrash
  <1>7. CASE Midnight \/ UNCHANGED vars
    BY <1>1, <1>7 DEF Midnight, vars
  <1>8. ASSUME NEW u \in Users, NEW s \in Sessions, NEW i \in 1..2, NEW b \in BOOLEAN,
               UpdateRoadmapItem(u, s, i, b)
        PROVE  /\ Inv'
               /\ \A x \in Sessions : reports[x] # NoReport =>
                      reports'[x] # NoReport /\ Narrative(reports'[x]) = Narrative(reports[x])
    BY <1>8, RoadmapInv
  <1> DEFINE Stands == \A x \in Sessions : reports[x] # NoReport =>
                          reports'[x] # NoReport /\ Narrative(reports'[x]) = Narrative(reports[x])
  <1>9. reports' = reports => Stands
    OBVIOUS
  <1>10. (\A x \in Sessions : reports[x] # NoReport => reports'[x] = reports[x]) => Stands
    OBVIOUS
  <1> HIDE DEF Stands
  <1>11. ASSUME NEW j \in Jobs, JobStep(j) \/ DatabaseFails(j)
         PROVE  Inv' /\ Stands
    BY <1>3, <1>4, <1>5, <1>9, <1>10, <1>11 DEF JobStep
  <1>12. Inv' /\ Stands
    <2>1. CASE \E j \in Jobs, s \in Sessions : Complete(j, s) \/ Retrigger(j, s)
      BY <1>2, <1>9, <2>1
    <2>2. CASE \E u \in Users, s \in Sessions, i \in 1..2, b \in BOOLEAN :
                   UpdateRoadmapItem(u, s, i, b)
      BY <1>8, <2>2 DEF Stands
    <2>3. CASE \E j \in Jobs : JobStep(j) \/ DatabaseFails(j)
      BY <1>11, <2>3
    <2>4. CASE ProcessCrash \/ Midnight \/ UNCHANGED vars
      BY <1>6, <1>7, <2>4 DEF Stands
    <2> QED
      BY <2>1, <2>2, <2>3, <2>4 DEF Next
  <1> QED
    BY <1>12 DEF Stands

\* The strengthening of the two properties below is an invariant.
THEOREM ReportsInvariant == Spec => []Inv
  <1>1. Init => Inv
    BY InitInv
  <1>2. Inv /\ [Next]_vars => Inv'
    BY NextInv
  <1> QED
    BY <1>1, <1>2, PTL DEF Spec

\* However many jobs race for the report of one interview, each of them records
\* the progress of the one report that is stored (report_service.py:99-117).
THEOREM RecordsAreStored == Spec => []RecordsStored
  <1>1. Inv => RecordsStored
    <2> SUFFICES ASSUME Inv, NEW j \in Jobs, jobs[j].phase \in Recording
                 PROVE  jobs[j].report = ReportResponse(UserOfJob(j), jobs[j].session)
      BY DEF RecordsStored
    <2> QED
      BY DEF Inv, RecordsNarrative, ReportResponse, UserOfJob
  <1> QED
    BY <1>1, ReportsInvariant, PTL

\* Whatever later triggers, races, replays and crashes there are, what the report's
\* endpoint answers once it has a report never changes, but for the owner's ticks.
THEOREM ReportsStand == Spec => ReportStands
  <1>1. Inv /\ [Next]_vars =>
            \A s \in Sessions :
                reports[s] # NoReport =>
                    ReportResponse(UserOf[s], s)' = ReportResponse(UserOf[s], s)
    BY NextInv DEF ReportResponse
  <1>2. [Next]_vars /\ Inv =>
            [\A s \in Sessions :
                reports[s] # NoReport =>
                    ReportResponse(UserOf[s], s)' = ReportResponse(UserOf[s], s)]_vars
    BY <1>1
  <1> QED
    BY <1>2, ReportsInvariant, PTL DEF Spec, ReportStands

-----------------------------------------------------------------------------
(* The figures: every report is one that could be built, every row of the  *)
(* progress is about reports of its user.                                  *)

ReportedIn(reps, done, u) ==
    {s \in Sessions : UserOf[s] = u /\ s \in done /\ reps[s] # NoReport}

SetsOf(reps, done, u) == (SUBSET ReportedIn(reps, done, u)) \ {{}}

AverageOf(reps, S) == Average([s \in S |-> reps[s].overall])

\* So many of the user's reports there are, ...
Counted(reps, done, u, n) == \E S \in SetsOf(reps, done, u) : Cardinality(S) = n

\* ... this is the average of some of them, ...
Averaged(reps, done, u, x) == \E S \in SetsOf(reps, done, u) : x = AverageOf(reps, S)

\* ... and these totals are the count and the average of the same ones.
Tallied(reps, done, u, row) ==
    \E S \in SetsOf(reps, done, u) :
        Cardinality(S) = row.count /\ row.score = AverageOf(reps, S)

\* Recordings of the user have overlapped.
Mixed(u) == \E s, t \in ReportedBy(u) : RecordedAtOnce(s, t)

Held(reps, done, u, k, score) ==
    \E s \in ReportedIn(reps, done, u) : Assesses(reps[s], SkillOf, k, score)

FromDraft(s, r) == \E c \in Contents[s] : r = Drafts[s][c]

JobFields == {"phase", "session", "attempt", "report", "totals", "seen"}

\* A job writes a report that could be built and records totals that hold.
JobFacts(reps, done, job) ==
    /\ DOMAIN job = JobFields
    /\ job.phase \in Phases
    /\ job.session \in Sessions \cup {NoSession}
    /\ job.attempt \in 0..2
    /\ job.report # NoReport => IsReport(job.report)
    /\ job.totals \in TotalsRead \cup {NoRow}
    /\ job.phase = "writing" => FromDraft(job.session, job.report)
    /\ job.phase \in {"snapshot", "readiness", "skills"} =>
           /\ job.totals \in TotalsRead
           /\ Tallied(reps, done, UserOf[job.session], job.totals)
    /\ job.phase = "readiness" => CompanyOf[job.session] # NoCompany

JobsSound == \A j \in Jobs : JobFacts(reports, completed, jobs[j])

StoredSound ==
    \A s \in Sessions : reports[s] # NoReport =>
        IsReport(reports[s]) /\ FromDraft(s, Narrative(reports[s]))

HonestRow(u, row) ==
    /\ Counted(reports, completed, u, row.count)
    /\ Averaged(reports, completed, u, row.score)
    /\ Tallied(reports, completed, u, row) \/ Mixed(u)

SnapshotsSound ==
    /\ snapshots \in [Users -> [Days -> SnapshotRows \cup {NoRow}]]
    /\ \A u \in Users, d \in Days :
          snapshots[u][d] # NoRow => HonestRow(u, snapshots[u][d])

ReadinessSound ==
    /\ readiness \in [Users -> [Companies -> ReadinessRows \cup {NoRow}]]
    /\ ReadinessPaired

SkillsSound ==
    /\ skills \in [Users -> [Skills -> SkillRows \cup {NoRow}]]
    /\ \A u \in Users, k \in Skills :
          skills[u][k] # NoRow => Held(reports, completed, u, k, skills[u][k].score)

\* What has become of a row since a recording loaded it.  A snapshot is as it was
\* unless recordings of the user have overlapped; ...
SnapshotMet(u, day, loaded) ==
    LET row == snapshots[u][day]
    IN  /\ day \in Days
        /\ loaded # NoRow =>
               /\ row # NoRow
               /\ row = loaded \/ Mixed(u)

\* ... a company's readiness has the columns it had or those of recordings that
\* overlapped with this one, of session s; ...
ReadinessMet(s, loaded) ==
    LET u == UserOf[s]
        c == CompanyOf[s]
        row == readiness[u][c]
    IN  loaded # NoRow =>
            /\ c # NoCompany
            /\ row # NoRow
            /\ row.session = loaded.session \/ RecordedAtOnce(s, row.session)
            /\ \/ row.score = loaded.score
               \/ \E t \in ReportedBy(u) : /\ CompanyOf[t] = c
                                           /\ RecordedAtOnce(s, t)
                                           /\ row.score = reports[t].overall

\* ... and a skill that had a row has one.
SkillsMet(u, loaded) ==
    \A k \in Skills \cap DOMAIN loaded : loaded[k] # NoRow => skills[u][k] # NoRow

Met(job) ==
    /\ DOMAIN job.seen = {"day", "snapshot", "company", "skill"}
    /\ SnapshotMet(UserOf[job.session], job.seen.day, job.seen.snapshot)
    /\ ReadinessMet(job.session, job.seen.company)
    /\ SkillsMet(UserOf[job.session], job.seen.skill)

Loads(job) == job.phase \in {"readiness", "skills"}

LoadsMet == \A j \in Jobs : Loads(jobs[j]) => Met(jobs[j])

Sound ==
    /\ JobsSound
    /\ StoredSound
    /\ SnapshotsSound
    /\ ReadinessSound
    /\ SkillsSound
    /\ LoadsMet
    /\ today \in Days
    /\ replays \in 0..MaxReplays
    /\ dropped \subseteq completed
    /\ overlapped \subseteq SUBSET completed

-----------------------------------------------------------------------------
\* A draft is a report, and its overall score is that of the interview.
LEMMA DraftSound ==
    ASSUME NEW s \in Sessions, NEW r, FromDraft(s, r)
    PROVE  /\ IsReport(r)
           /\ r.overall = OverallScore(Evaluations[s], WeightOf[s])
           /\ FiledAreas(r.weak, DOMAIN SkillOf, DOMAIN r.sections)
           /\ FiledAreas(r.strong, DOMAIN SkillOf, DOMAIN r.sections \cup {NoSection})
           /\ Assessments[r] = SkillScores(r, SkillOf)
  <1>1. PICK c \in Contents[s] : r = Drafts[s][c]
    BY DEF FromDraft
  <1> DEFINE evals == Evaluations[s]
             weight == WeightOf[s]
             topics == DOMAIN SkillOf
  <1>2. IsInterview(evals, weight) /\ IsContent(c, topics)
    BY ReportAssumption
  <1>3. r = BuildReport(evals, weight, c)
    BY <1>1 DEF Drafts
  <1> HIDE DEF evals, weight, topics
  <1>4. /\ r.overall = OverallScore(evals, weight)
        /\ r.overall \in Points
        /\ DOMAIN r.sections \subseteq Sections
        /\ \A k \in DOMAIN r.sections : r.sections[k] \in Points
        /\ FiledAreas(r.weak, topics, DOMAIN r.sections)
        /\ FiledAreas(r.strong, topics, DOMAIN r.sections \cup {NoSection})
        /\ r.done = {}
    BY <1>2, <1>3, BuiltReport
  <1>5. IsReport(r)
    BY <1>4 DEF IsReport, FiledAreas
  <1>6. Assessments[r] = SkillScores(r, SkillOf)
    BY <1>1 DEF Assessments
  <1> QED
    BY <1>4, <1>5, <1>6 DEF evals, weight, topics

\* The skills that a draft assesses are known ones, scored by its areas.
LEMMA AssessmentSound ==
    ASSUME NEW s \in Sessions, NEW r, FromDraft(s, r), NEW k \in DOMAIN Assessments[r]
    PROVE  /\ k \in Skills
           /\ Assessments[r][k] \in Points
           /\ Assesses(r, SkillOf, k, Assessments[r][k])
  <1>1. /\ IsReport(r)
        /\ FiledAreas(r.weak, DOMAIN SkillOf, DOMAIN r.sections)
        /\ FiledAreas(r.strong, DOMAIN SkillOf, DOMAIN r.sections \cup {NoSection})
        /\ Assessments[r] = SkillScores(r, SkillOf)
    BY DraftSound
  <1>2. NoSection \notin DOMAIN r.sections
    BY <1>1 DEF IsReport, NoSection, Sections
  <1> DEFINE topics == DOMAIN SkillOf
             score == Assessments[r][k]
  <1>3. k \in DOMAIN SkillScores(r, SkillOf) /\ score = SkillScores(r, SkillOf)[k]
    BY <1>1
  <1>4. FiledReport(r, topics)
    BY <1>1, <1>2 DEF IsReport, FiledReport
  <1> HIDE DEF topics, score
  <1>5. /\ \E t \in topics : k = SkillOf[t]
        /\ score \in Points
        /\ Assesses(r, SkillOf, k, score)
    BY <1>3, <1>4, SkillsScored
  <1> QED
    BY <1>5 DEF Skills, score, topics

\* What was counted once stays true of later reports with the same scores.
LEMMA TalliedStays ==
    ASSUME NEW reps, NEW done, NEW reps2, NEW done2, done \subseteq done2,
           \A s \in Sessions : reps[s] # NoReport =>
               reps2[s] # NoReport /\ reps2[s].overall = reps[s].overall,
           NEW u
    PROVE  /\ SetsOf(reps, done, u) \subseteq SetsOf(reps2, done2, u)
           /\ \A S \in SetsOf(reps, done, u) : AverageOf(reps2, S) = AverageOf(reps, S)
           /\ \A n : Counted(reps, done, u, n) => Counted(reps2, done2, u, n)
           /\ \A x : Averaged(reps, done, u, x) => Averaged(reps2, done2, u, x)
           /\ \A row : Tallied(reps, done, u, row) => Tallied(reps2, done2, u, row)
  <1>1. SetsOf(reps, done, u) \subseteq SetsOf(reps2, done2, u)
    BY DEF SetsOf, ReportedIn
  <1>2. ASSUME NEW S \in SetsOf(reps, done, u)
        PROVE  AverageOf(reps2, S) = AverageOf(reps, S)
    <2>1. [s \in S |-> reps[s].overall] = [s \in S |-> reps2[s].overall]
      BY DEF SetsOf, ReportedIn
    <2> QED
      BY <2>1 DEF AverageOf
  <1>3. \A n : Counted(reps, done, u, n) => Counted(reps2, done2, u, n)
    BY <1>1 DEF Counted
  <1>4. \A x : Averaged(reps, done, u, x) => Averaged(reps2, done2, u, x)
    BY <1>1, <1>2 DEF Averaged
  <1>5. \A row : Tallied(reps, done, u, row) => Tallied(reps2, done2, u, row)
    BY <1>1, <1>2 DEF Tallied
  <1> QED
    BY <1>1, <1>2, <1>3, <1>4, <1>5

\* What a stored report says stays while reports are only added.
LEMMA HeldStays ==
    ASSUME NEW reps, NEW done, NEW reps2, NEW done2, done \subseteq done2,
           \A s \in Sessions : reps[s] # NoReport =>
               /\ reps2[s] # NoReport
               /\ reps2[s].weak = reps[s].weak
               /\ reps2[s].strong = reps[s].strong
               /\ reps2[s].sections = reps[s].sections,
           NEW u, NEW k, NEW score, Held(reps, done, u, k, score)
    PROVE  Held(reps2, done2, u, k, score)
  <1>1. PICK s \in ReportedIn(reps, done, u) : Assesses(reps[s], SkillOf, k, score)
    BY DEF Held
  <1>2. /\ s \in ReportedIn(reps2, done2, u)
        /\ reps2[s].weak = reps[s].weak
        /\ reps2[s].strong = reps[s].strong
        /\ reps2[s].sections = reps[s].sections
    BY DEF ReportedIn
  <1>3. Assesses(reps2[s], SkillOf, k, score)
    BY <1>1, <1>2 DEF Assesses, ScoredBy
  <1> QED
    BY <1>2, <1>3 DEF Held

\* The parts that a whole report shares with its narrative.
LEMMA NarrativeParts ==
    ASSUME NEW r, Whole(r)
    PROVE  /\ Narrative(r).overall = r.overall
           /\ Narrative(r).weak = r.weak
           /\ Narrative(r).strong = r.strong
           /\ Narrative(r).sections = r.sections
           /\ Narrative(r).items = r.items
  <1> DEFINE T(x) == [overall |-> r.overall, sections |-> r.sections, weak |-> r.weak,
                      strong |-> r.strong, items |-> r.items, done |-> x]
  <1>1. r = T(r.done)
    BY DEF Whole
  <1>2. Narrative(r) = T({})
    BY <1>1 DEF Narrative
  <1> QED
    BY <1>2

\* A job's facts stay true as well.
LEMMA JobFactsStay ==
    ASSUME NEW reps, NEW done, NEW reps2, NEW done2, done \subseteq done2,
           \A s \in Sessions : reps[s] # NoReport =>
               reps2[s] # NoReport /\ reps2[s].overall = reps[s].overall,
           NEW job, JobFacts(reps, done, job)
    PROVE  JobFacts(reps2, done2, job)
  <1>1. Tallied(reps, done, UserOf[job.session], job.totals)
           => Tallied(reps2, done2, UserOf[job.session], job.totals)
    BY TalliedStays
  <1> QED
    BY <1>1 DEF JobFacts

\* What a step keeps of the stored reports, part by part.
StandsFor(reps, reps2) ==
    \A s \in Sessions : reps[s] # NoReport =>
        /\ reps2[s] # NoReport
        /\ reps2[s].overall = reps[s].overall
        /\ reps2[s].weak = reps[s].weak
        /\ reps2[s].strong = reps[s].strong
        /\ reps2[s].sections = reps[s].sections

\* What every step keeps: reports, completions and overlaps are only added.
Grows ==
    /\ StandsFor(reports, reports')
    /\ completed \subseteq completed'
    /\ overlapped \subseteq overlapped'

LEMMA NextGrows ==
    ASSUME Inv, [Next]_vars
    PROVE  Grows
  <1>1. StandsFor(reports, reports')
    <2> SUFFICES ASSUME NEW s \in Sessions, reports[s] # NoReport
                 PROVE  /\ reports'[s] # NoReport
                        /\ reports'[s].overall = reports[s].overall
                        /\ reports'[s].weak = reports[s].weak
                        /\ reports'[s].strong = reports[s].strong
                        /\ reports'[s].sections = reports[s].sections
      BY DEF StandsFor
    <2>1. reports'[s] # NoReport /\ Narrative(reports'[s]) = Narrative(reports[s])
      BY NextInv
    <2>2. Whole(reports[s]) /\ Whole(reports'[s])
      BY <2>1, NextInv DEF Inv, StoredWhole
    <2> QED
      BY <2>1, <2>2, NarrativeParts
  <1>2. completed \subseteq completed' /\ overlapped \subseteq overlapped'
    <2>1. CASE \E j \in Jobs, s \in Sessions : Complete(j, s) \/ Retrigger(j, s)
      BY <2>1 DEF Complete, Retrigger
    <2>2. CASE \E j \in Jobs : JobStep(j) \/ DatabaseFails(j)
      BY <2>2 DEF JobStep, DatabaseFails, Check, ProviderRetries, ProviderAnswers, ProviderFails,
                  Store, ReadTotals, ReadSnapshot, ReadReadiness, ReadSkill, Record, RecordConflicts
    <2>3. CASE \E u \in Users, s \in Sessions, i \in 1..2, b \in BOOLEAN :
                   UpdateRoadmapItem(u, s, i, b)
      BY <2>3 DEF UpdateRoadmapItem
    <2>4. CASE ProcessCrash \/ Midnight \/ UNCHANGED vars
      BY <2>4 DEF ProcessCrash, Midnight, vars
    <2> QED
      BY <2>1, <2>2, <2>3, <2>4 DEF Next
  <1> QED
    BY <1>1, <1>2 DEF Grows

\* So are the reports of a user, and the overlaps of their recordings.
LEMMA ReportedGrows ==
    ASSUME Grows, NEW u
    PROVE  /\ ReportedBy(u) \subseteq ReportedBy(u)'
           /\ \A s \in ReportedBy(u) : reports'[s].overall = reports[s].overall
           /\ \A s, t : RecordedAtOnce(s, t) => RecordedAtOnce(s, t)'
           /\ Mixed(u) => Mixed(u)'
  <1>1. /\ ReportedBy(u) \subseteq ReportedBy(u)'
        /\ \A s \in ReportedBy(u) : reports'[s].overall = reports[s].overall
    BY DEF Grows, StandsFor, ReportedBy
  <1>2. \A s, t : RecordedAtOnce(s, t) => RecordedAtOnce(s, t)'
    BY DEF Grows, RecordedAtOnce
  <1> QED
    BY <1>1, <1>2 DEF Mixed

LEMMA HonestStays ==
    ASSUME Grows, NEW u, NEW row, HonestRow(u, row)
    PROVE  HonestRow(u, row)'
  <1>1. /\ Counted(reports, completed, u, row.count) => Counted(reports', completed', u, row.count)
        /\ Averaged(reports, completed, u, row.score) => Averaged(reports', completed', u, row.score)
        /\ Tallied(reports, completed, u, row) => Tallied(reports', completed', u, row)
    BY TalliedStays DEF Grows, StandsFor
  <1>2. Mixed(u) => Mixed(u)'
    BY ReportedGrows
  <1> QED
    BY <1>1, <1>2 DEF HonestRow

\* The rows that a recording has loaded, while no row is written.
LEMMA MetStays ==
    ASSUME Grows, UNCHANGED rows, NEW job, Met(job)
    PROVE  Met(job)'
  <1> DEFINE u == UserOf[job.session]
             s == job.session
  <1>1. UNCHANGED <<snapshots, readiness, skills>>
    BY DEF rows
  <1>2. SnapshotMet(u, job.seen.day, job.seen.snapshot)'
    BY <1>1, ReportedGrows DEF Met, SnapshotMet
  <1>3. ReadinessMet(s, job.seen.company)'
    BY <1>1, ReportedGrows DEF Met, ReadinessMet
  <1>4. SkillsMet(u, job.seen.skill)'
    BY <1>1 DEF Met, SkillsMet
  <1> QED
    BY <1>2, <1>3, <1>4 DEF Met

-----------------------------------------------------------------------------
\* The figures are sound at first.
LEMMA InitSound == Init => Sound
  <1> SUFFICES ASSUME Init PROVE Sound
    OBVIOUS
  <1>1. JobFacts(reports, completed, Idle)
    BY DEF JobFacts, JobFields, Idle, Phases
  <1>2. JobsSound
    BY <1>1 DEF Init, JobsSound
  <1>3. StoredSound
    BY DEF Init, StoredSound
  <1>4. SnapshotsSound
    BY DEF Init, SnapshotsSound
  <1>5. ReadinessSound /\ SkillsSound
    BY DEF Init, ReadinessSound, ReadinessPaired, SkillsSound
  <1>6. LoadsMet
    BY DEF Init, LoadsMet, Loads, Idle
  <1>7. /\ today \in Days /\ replays \in 0..MaxReplays
        /\ dropped \subseteq completed /\ overlapped \subseteq SUBSET completed
    BY ReportAssumption DEF Init, Days
  <1> QED
    BY <1>2, <1>3, <1>4, <1>5, <1>6, <1>7 DEF Sound

\* A readiness that is not written stays paired.
LEMMA PairedStays ==
    ASSUME ReadinessPaired, Grows, UNCHANGED readiness
    PROVE  ReadinessPaired'
  <1> SUFFICES ASSUME NEW u \in Users, NEW c \in Companies, readiness[u][c] # NoRow
               PROVE  LET s == readiness[u][c].session
                          mine == {t \in ReportedBy(u)' : CompanyOf[t] = c}
                      IN  /\ s \in mine
                          /\ \E t \in mine : /\ t = s \/ RecordedAtOnce(s, t)'
                                             /\ readiness[u][c].score = reports'[t].overall
    BY DEF ReadinessPaired
  <1> DEFINE s == readiness[u][c].session
  <1>1. /\ s \in ReportedBy(u) /\ CompanyOf[s] = c
        /\ \E t \in ReportedBy(u) : /\ CompanyOf[t] = c
                                    /\ t = s \/ RecordedAtOnce(s, t)
                                    /\ readiness[u][c].score = reports[t].overall
    BY DEF ReadinessPaired
  <1> QED
    BY <1>1, ReportedGrows

\* The rows outlive every step that does not write them.
LEMMA RowsStay ==
    ASSUME Sound, Grows, UNCHANGED rows
    PROVE  SnapshotsSound' /\ ReadinessSound' /\ SkillsSound'
  <1>1. UNCHANGED <<snapshots, readiness, skills>>
    BY DEF rows
  <1>2. ASSUME NEW u \in Users, NEW d \in Days, snapshots[u][d] # NoRow
        PROVE  HonestRow(u, snapshots[u][d])'
    <2> DEFINE row == snapshots[u][d]
    <2>1. PICK r : r = row /\ HonestRow(u, r)
      BY <1>2 DEF Sound, SnapshotsSound
    <2>2. HonestRow(u, r)'
      BY <2>1, HonestStays
    <2> QED
      BY <1>1, <2>1, <2>2
  <1>3. ASSUME NEW u \in Users, NEW k \in Skills, skills[u][k] # NoRow
        PROVE  Held(reports', completed', u, k, skills[u][k].score)
    <2>1. Held(reports, completed, u, k, skills[u][k].score)
      BY <1>3 DEF Sound, SkillsSound
    <2> QED
      BY <2>1, HeldStays DEF Grows, StandsFor
  <1>4. SnapshotsSound'
    BY <1>1, <1>2 DEF Sound, SnapshotsSound
  <1>5. ReadinessPaired'
    BY <1>1, PairedStays DEF Sound, ReadinessSound
  <1>6. ReadinessSound'
    BY <1>1, <1>5 DEF Sound, ReadinessSound
  <1>7. SkillsSound'
    BY <1>1, <1>3 DEF Sound, SkillsSound
  <1> QED
    BY <1>4, <1>6, <1>7

\* One job moves on with what is true of it before the step, the others stay.
LEMMA JobsStay ==
    ASSUME Inv, Sound, Grows,
           NEW j \in Jobs, NEW job, JobFacts(reports, completed, job),
           jobs' = [jobs EXCEPT ![j] = job]
    PROVE  JobsSound'
  <1>1. \A i \in Jobs : jobs'[i] = IF i = j THEN job ELSE jobs[i]
    BY DEF Inv, Shapes
  <1>2. ASSUME NEW i \in Jobs PROVE JobFacts(reports', completed', jobs'[i])
    <2>1. JobFacts(reports, completed, jobs'[i])
      BY <1>1 DEF Sound, JobsSound
    <2> QED
      BY <2>1, JobFactsStay DEF Grows, StandsFor
  <1> QED
    BY <1>2 DEF JobsSound

\* So with the rows that the jobs have loaded, while none is written.
LEMMA LoadsStay ==
    ASSUME Inv, Sound, Grows, UNCHANGED rows,
           NEW j \in Jobs, NEW job, Loads(job) => Met(job),
           jobs' = [jobs EXCEPT ![j] = job]
    PROVE  LoadsMet'
  <1> SUFFICES ASSUME NEW i \in Jobs, Loads(jobs'[i])
               PROVE  Met(jobs[i])'
    BY DEF LoadsMet, Loads
  <1>1. jobs'[i] = IF i = j THEN job ELSE jobs[i]
    BY DEF Inv, Shapes
  <1>2. PICK now : now = jobs'[i]
    OBVIOUS
  <1>3. Met(now)
    BY <1>1, <1>2 DEF Sound, LoadsMet
  <1>4. Met(now)'
    BY <1>3, MetStays
  <1> QED
    BY <1>2, <1>4

\* A step of one job that leaves reports and rows alone.
LEMMA JobMovesSound ==
    ASSUME Inv, Sound, [Next]_vars, NEW j \in Jobs, NEW job,
           JobFacts(reports, completed, job), Loads(job) => Met(job),
           jobs' = [jobs EXCEPT ![j] = job],
           UNCHANGED <<reports, rows, today, overlapped>>,
           replays' \in 0..MaxReplays, dropped' \subseteq completed'
    PROVE  Sound'
  <1>1. Grows
    BY NextGrows
  <1>2. JobsSound'
    BY <1>1, JobsStay
  <1>3. SnapshotsSound' /\ ReadinessSound' /\ SkillsSound'
    BY <1>1, RowsStay
  <1>4. StoredSound'
    BY DEF Sound, StoredSound
  <1>5. LoadsMet'
    BY <1>1, LoadsStay
  <1>6. today' \in Days /\ overlapped' \subseteq SUBSET completed'
    BY <1>1 DEF Sound, Grows
  <1> QED
    BY <1>2, <1>3, <1>4, <1>5, <1>6 DEF Sound

\* A job that does nothing has read nothing.
LEMMA IdleFacts == JobFacts(reports, completed, Idle) /\ ~Loads(Idle)
  BY DEF JobFacts, JobFields, Idle, Phases, Loads

\* A trigger keeps them sound.
LEMMA TriggerSound ==
    ASSUME Inv, Sound, [Next]_vars, NEW j \in Jobs, NEW s \in Sessions,
           Complete(j, s) \/ Retrigger(j, s)
    PROVE  Sound'
  <1> DEFINE job == [Idle EXCEPT !.phase = "started", !.session = s]
  <1>1. JobFacts(reports, completed, job)
    <2>1. /\ DOMAIN job = JobFields
          /\ job.phase = "started" /\ job.session = s
          /\ job.attempt = 0 /\ job.report = NoReport
          /\ job.totals = NoRow /\ job.seen = Nothing
      BY DEF Idle, JobFields
    <2> HIDE DEF job
    <2> QED
      BY <2>1 DEF JobFacts, Phases
  <1>2. /\ jobs' = [jobs EXCEPT ![j] = job]
        /\ UNCHANGED <<reports, rows, today, dropped, overlapped>>
        /\ completed \subseteq completed'
    BY DEF Complete, Retrigger, StartJob, Advance
  <1>3. dropped' \subseteq completed'
    BY <1>2 DEF Sound
  <1>4. replays' \in 0..MaxReplays
    BY ReportAssumption DEF Complete, Retrigger, Sound
  <1>5. ~Loads(job)
    BY DEF Loads, Idle
  <1> HIDE DEF job
  <1> QED
    BY <1>1, <1>2, <1>3, <1>4, <1>5, JobMovesSound

\* A job that ends was about a completed interview.
LEMMA EndSound ==
    ASSUME Inv, Sound, [Next]_vars, NEW j \in Jobs, Running(j), NEW lost \in BOOLEAN,
           EndJob(j, lost), UNCHANGED <<completed, reports, rows, today, replays, overlapped>>
    PROVE  Sound'
  <1>1. jobs' = [jobs EXCEPT ![j] = Idle]
    BY DEF EndJob, Advance
  <1>2. jobs[j].session \in completed
    BY DEF Inv, JobsCompleted
  <1>3. dropped' \subseteq completed'
    BY <1>2 DEF EndJob, Sound
  <1>4. JobFacts(reports, completed, Idle) /\ ~Loads(Idle)
    BY IdleFacts
  <1>5. replays' \in 0..MaxReplays
    BY DEF Sound
  <1> QED
    BY <1>1, <1>3, <1>4, <1>5, JobMovesSound

\* What a recording counts is a number of reports, its own among them, and their
\* average is on the scale.
LEMMA TalliedNow ==
    ASSUME Inv, Sound, NEW j \in Jobs, jobs[j].phase = "totals"
    PROVE  LET u == UserOf[jobs[j].session]
           IN  /\ Totals(u) \in TotalsRead
               /\ Tallied(reports, completed, u, Totals(u))
  <1> DEFINE s == jobs[j].session
             u == UserOf[s]
             mine == ReportedBy(u)
             row == Totals(u)
  <1>0. s \in mine
    BY DEF Inv, Shapes, JobsCompleted, Running, RecordsNarrative, Recording, ReportedBy
  <1>1. /\ mine \in SUBSET Sessions
        /\ mine \in SetsOf(reports, completed, u)
    BY <1>0 DEF ReportedBy, ReportedIn, SetsOf
  <1>2. IsFiniteSet(Sessions)
    BY ReportAssumption
  <1>3. /\ IsFiniteSet(mine)
        /\ Cardinality(mine) \in 0..Cardinality(Sessions)
    BY <1>1, <1>2, FS_Subset, FS_CardinalityType
  <1>4. /\ row.count = Cardinality(mine)
        /\ row.score = Average(Overalls(mine))
        /\ row.exact \in BOOLEAN
        /\ row = [count |-> row.count, score |-> row.score, exact |-> row.exact]
    <2> DEFINE score == IF mine = {} THEN 0 ELSE Average(Overalls(mine))
               exact == /\ ExactFloat(score)
                        /\ SumFunction(Overalls(mine)) = score * Cardinality(mine)
    <2>1. row = [count |-> Cardinality(mine), score |-> score, exact |-> exact]
      BY DEF Totals
    <2>2. score = Average(Overalls(mine))
      BY <1>0
    <2>3. exact \in BOOLEAN
      BY DEF ExactFloat
    <2> HIDE DEF score, exact, mine, row
    <2> QED
      BY <2>1, <2>2, <2>3
  <1>5. PICK top \in Nat : Points = 0..top
    BY Scale
  <1>6. \A x \in mine : reports[x].overall \in 0..top
    BY <1>5 DEF ReportedBy, Sound, StoredSound, IsReport
  <1>7. Average(Overalls(mine)) \in 0..top
    <2> DEFINE f == Overalls(mine)
    <2>1. f \in [mine -> Int] /\ \A x \in mine : f[x] \in 0..top
      BY <1>6 DEF Overalls
    <2>2. mine # {}
      BY <1>0
    <2> HIDE DEF f, mine
    <2>3. Average(f) \in 0..top
      BY <1>3, <2>1, <2>2, AverageBetween
    <2> QED
      BY <2>3 DEF f
  <1>8. Overalls(mine) = [x \in mine |-> reports[x].overall]
    BY DEF Overalls
  <1> HIDE DEF mine, row
  <1>9. row \in TotalsRead
    BY <1>3, <1>4, <1>5, <1>7 DEF TotalsRead
  <1>10. Tallied(reports, completed, u, row)
    BY <1>1, <1>4, <1>8 DEF Tallied, AverageOf
  <1> QED
    BY <1>9, <1>10 DEF row

\* A row that a recording has just loaded is the current one.
LEMMA LoadSound ==
    ASSUME Inv, Sound, [Next]_vars, NEW j \in Jobs,
           ReadSnapshot(j) \/ ReadReadiness(j) \/ ReadSkill(j)
    PROVE  Sound'
  <1> DEFINE old == jobs[j]
             s == old.session
             u == UserOf[s]
  <1>1. /\ JobFacts(reports, completed, old)
        /\ DOMAIN old = JobFields
        /\ dropped \subseteq completed
        /\ replays \in 0..MaxReplays
        /\ today \in Days
        /\ Loads(old) => Met(old)
    BY DEF Sound, JobsSound, JobFacts, LoadsMet
  <1>2. /\ old.phase \in {"snapshot", "readiness", "skills"}
        /\ UNCHANGED <<completed, reports, rows, today, replays, dropped, overlapped>>
    BY DEF ReadSnapshot, ReadReadiness, ReadSkill
  <1>3. ASSUME NEW next \in {"readiness", "skills"}, NEW read,
               next = "readiness" => CompanyOf[s] # NoCompany,
               DOMAIN read = {"day", "snapshot", "company", "skill"},
               jobs' = [jobs EXCEPT ![j] = [old EXCEPT !.phase = next, !.seen = read]],
               SnapshotMet(u, read.day, read.snapshot),
               ReadinessMet(s, read.company),
               SkillsMet(u, read.skill)
        PROVE  Sound'
    <2> DEFINE job == [old EXCEPT !.phase = next, !.seen = read]
    <2>1. jobs' = [jobs EXCEPT ![j] = job]
      BY <1>3
    <2> HIDE DEF old
    <2>2. /\ DOMAIN job = JobFields
          /\ job.phase = next /\ job.session = old.session
          /\ job.attempt = old.attempt /\ job.report = old.report
          /\ job.totals = old.totals /\ job.seen = read
      BY <1>1 DEF JobFields
    <2> HIDE DEF job
    <2>3. JobFacts(reports, completed, job)
      BY <1>1, <1>2, <1>3, <2>2 DEF JobFacts, Phases, old
    <2>4. Met(job)
      BY <1>3, <2>2 DEF Met, old
    <2> QED
      BY <1>1, <1>2, <2>1, <2>3, <2>4, JobMovesSound
  <1>4. CASE ReadSnapshot(j)
    <2> DEFINE next == IF CompanyOf[s] = NoCompany THEN "skills" ELSE "readiness"
               row == snapshots[u][today]
               read == [day |-> today, snapshot |-> row, company |-> NoRow, skill |-> Nothing]
    <2>1. /\ next \in {"readiness", "skills"}
          /\ next = "readiness" => CompanyOf[s] # NoCompany
      OBVIOUS
    <2>2. jobs' = [jobs EXCEPT ![j] = [old EXCEPT !.phase = next, !.seen = read]]
      BY <1>4 DEF ReadSnapshot, Advance, UserOfJob
    <2>3. SnapshotMet(u, today, row) /\ ReadinessMet(s, NoRow) /\ SkillsMet(u, Nothing)
      BY <1>1 DEF SnapshotMet, ReadinessMet, SkillsMet, Nothing
    <2>4. /\ DOMAIN read = {"day", "snapshot", "company", "skill"}
          /\ read.day = today /\ read.snapshot = row
          /\ read.company = NoRow /\ read.skill = Nothing
      OBVIOUS
    <2> HIDE DEF next, row, read, old
    <2> QED
      BY <1>3, <2>1, <2>2, <2>3, <2>4
  <1>5. CASE ReadReadiness(j)
    <2> DEFINE row == readiness[u][CompanyOf[s]]
               read == [old.seen EXCEPT !.company = row]
    <2>1. jobs' = [jobs EXCEPT ![j] = [old EXCEPT !.phase = "skills", !.seen = read]]
      BY <1>5 DEF ReadReadiness, Advance, UserOfJob
    <2>2. Met(old)
      BY <1>1, <1>5 DEF ReadReadiness, Loads
    <2>3. CompanyOf[s] # NoCompany
      BY <1>1, <1>5 DEF ReadReadiness, JobFacts
    <2>4. ReadinessMet(s, row)
      BY <2>3 DEF ReadinessMet
    <2>5. DOMAIN old.seen = {"day", "snapshot", "company", "skill"}
      BY <2>2 DEF Met
    <2> HIDE DEF row
    <2>6. /\ DOMAIN read = {"day", "snapshot", "company", "skill"}
          /\ read.day = old.seen.day /\ read.snapshot = old.seen.snapshot
          /\ read.company = row /\ read.skill = old.seen.skill
      BY <2>5
    <2> HIDE DEF read
    <2>7. /\ SnapshotMet(u, read.day, read.snapshot)
          /\ ReadinessMet(s, read.company)
          /\ SkillsMet(u, read.skill)
      BY <2>2, <2>4, <2>6 DEF Met
    <2> HIDE DEF old
    <2> QED
      BY <1>3, <2>1, <2>6, <2>7
  <1>6. CASE ReadSkill(j)
    <2>1. PICK k \in DOMAIN Assessed(j) \ DOMAIN old.seen.skill :
             Advance(j, [old EXCEPT !.seen.skill = With(@, k, skills[UserOfJob(j)][k])])
      BY <1>6 DEF ReadSkill
    <2> DEFINE found == With(old.seen.skill, k, skills[u][k])
               read == [old.seen EXCEPT !.skill = found]
    <2>2. jobs' = [jobs EXCEPT ![j] = [old EXCEPT !.phase = "skills", !.seen = read]]
      BY <1>1, <1>6, <2>1 DEF ReadSkill, Advance, UserOfJob
    <2>3. Met(old)
      BY <1>1, <1>6 DEF ReadSkill, Loads
    <2>4. SkillsMet(u, found)
      <3> DEFINE before == old.seen.skill
      <3>1. SkillsMet(u, before)
        BY <2>3 DEF Met
      <3> HIDE DEF before
      <3>2. /\ DOMAIN found = DOMAIN before \cup {k}
            /\ \A x \in DOMAIN found :
                  found[x] = IF x = k THEN skills[u][k] ELSE before[x]
        BY DEF before, With
      <3> HIDE DEF found
      <3>3. ASSUME NEW x \in Skills \cap DOMAIN found, found[x] # NoRow
            PROVE  skills[u][x] # NoRow
        BY <3>1, <3>2, <3>3 DEF SkillsMet
      <3> QED
        BY <3>3 DEF SkillsMet
    <2>5. DOMAIN old.seen = {"day", "snapshot", "company", "skill"}
      BY <2>3 DEF Met
    <2> HIDE DEF found
    <2>6. /\ DOMAIN read = {"day", "snapshot", "company", "skill"}
          /\ read.day = old.seen.day /\ read.snapshot = old.seen.snapshot
          /\ read.company = old.seen.company /\ read.skill = found
      BY <2>5
    <2> HIDE DEF read
    <2>7. /\ SnapshotMet(u, read.day, read.snapshot)
          /\ ReadinessMet(s, read.company)
          /\ SkillsMet(u, read.skill)
      BY <2>3, <2>4, <2>6 DEF Met
    <2> HIDE DEF old
    <2> QED
      BY <1>3, <2>2, <2>6, <2>7
  <1> QED
    BY <1>4, <1>5, <1>6

\* So does a step that records nothing.
LEMMA QuietSound ==
    ASSUME Inv, Sound, [Next]_vars, NEW j \in Jobs,
           \/ Check(j)
           \/ ProviderRetries(j)
           \/ \E s \in Sessions : \E c \in Contents[s] : ProviderAnswers(j, s, c)
           \/ ProviderFails(j)
           \/ ReadTotals(j)
           \/ ReadSnapshot(j)
           \/ ReadReadiness(j)
           \/ ReadSkill(j)
           \/ RecordConflicts(j)
           \/ DatabaseFails(j)
    PROVE  Sound'
  <1> DEFINE old == jobs[j]
  <1>1. /\ JobFacts(reports, completed, old)
        /\ dropped \subseteq completed
        /\ replays \in 0..MaxReplays
        /\ Loads(old) => Met(old)
    BY DEF Sound, JobsSound, LoadsMet
  <1>2. Running(j) => old.session \in Sessions /\ old.session \in completed
    BY DEF Inv, JobsCompleted, Shapes
  <1>3. DOMAIN old = JobFields
    BY <1>1 DEF JobFacts
  <1>4. CASE Check(j) /\ reports[old.session] # NoReport
    <2> DEFINE told == Narrative(reports[old.session])
               job == [old EXCEPT !.phase = "totals", !.attempt = 1, !.report = told]
    <2>1. IsReport(told)
      BY <1>2, <1>4, DraftSound DEF Check, Running, Sound, StoredSound
    <2>2. /\ jobs' = [jobs EXCEPT ![j] = job]
          /\ UNCHANGED <<completed, reports, rows, today, replays, dropped, overlapped>>
      BY <1>4 DEF Check, Advance
    <2> HIDE DEF told, old
    <2>3. /\ DOMAIN job = JobFields
          /\ job.phase = "totals" /\ job.session = old.session
          /\ job.attempt = 1 /\ job.report = told
          /\ job.totals = old.totals /\ job.seen = old.seen
      BY <1>3 DEF JobFields
    <2> HIDE DEF job
    <2>4. JobFacts(reports, completed, job)
      BY <1>1, <2>1, <2>3 DEF JobFacts, Phases
    <2>5. ~Loads(job)
      BY <2>3 DEF Loads
    <2> QED
      BY <1>1, <2>2, <2>4, <2>5, JobMovesSound
  <1>5. CASE Check(j) /\ reports[old.session] = NoReport
    <2> DEFINE job == [old EXCEPT !.phase = "asking", !.attempt = 1]
    <2>2. /\ jobs' = [jobs EXCEPT ![j] = job]
          /\ UNCHANGED <<completed, reports, rows, today, replays, dropped, overlapped>>
      BY <1>5 DEF Check, Advance
    <2> HIDE DEF old
    <2>3. /\ DOMAIN job = JobFields
          /\ job.phase = "asking" /\ job.session = old.session
          /\ job.attempt = 1 /\ job.report = old.report
          /\ job.totals = old.totals /\ job.seen = old.seen
      BY <1>3 DEF JobFields
    <2> HIDE DEF job
    <2>4. JobFacts(reports, completed, job)
      BY <1>1, <2>3 DEF JobFacts, Phases
    <2>5. ~Loads(job)
      BY <2>3 DEF Loads
    <2> QED
      BY <1>1, <2>2, <2>4, <2>5, JobMovesSound
  <1>6. CASE ProviderRetries(j)
    <2> DEFINE job == [old EXCEPT !.attempt = 2]
    <2>2. /\ jobs' = [jobs EXCEPT ![j] = job]
          /\ old.phase = "asking"
          /\ UNCHANGED <<completed, reports, rows, today, replays, dropped, overlapped>>
      BY <1>6 DEF ProviderRetries, Advance
    <2> HIDE DEF old
    <2>3. /\ DOMAIN job = JobFields
          /\ job.phase = old.phase /\ job.session = old.session
          /\ job.attempt = 2 /\ job.report = old.report
          /\ job.totals = old.totals /\ job.seen = old.seen
      BY <1>3 DEF JobFields
    <2> HIDE DEF job
    <2>4. JobFacts(reports, completed, job)
      BY <1>1, <2>2, <2>3 DEF JobFacts, Phases
    <2>5. ~Loads(job)
      BY <2>2, <2>3 DEF Loads
    <2> QED
      BY <1>1, <2>2, <2>4, <2>5, JobMovesSound
  <1>7. ASSUME NEW s \in Sessions, NEW c \in Contents[s], ProviderAnswers(j, s, c)
        PROVE  Sound'
    <2> DEFINE draft == Drafts[s][c]
               job == [old EXCEPT !.phase = "writing", !.report = draft]
    <2>1. FromDraft(s, draft) /\ IsReport(draft)
      BY DraftSound DEF FromDraft
    <2>2. /\ jobs' = [jobs EXCEPT ![j] = job]
          /\ old.session = s
          /\ UNCHANGED <<completed, reports, rows, today, replays, dropped, overlapped>>
      BY <1>7 DEF ProviderAnswers, Advance
    <2> HIDE DEF draft, old
    <2>3. /\ DOMAIN job = JobFields
          /\ job.phase = "writing" /\ job.session = s
          /\ job.attempt = old.attempt /\ job.report = draft
          /\ job.totals = old.totals /\ job.seen = old.seen
      BY <1>3, <2>2 DEF JobFields
    <2> HIDE DEF job
    <2>4. JobFacts(reports, completed, job)
      BY <1>1, <2>1, <2>3 DEF JobFacts, Phases
    <2>5. ~Loads(job)
      BY <2>3 DEF Loads
    <2> QED
      BY <1>1, <2>2, <2>4, <2>5, JobMovesSound
  <1>8. CASE ProviderFails(j) \/ DatabaseFails(j)
    BY <1>8, EndSound DEF ProviderFails, DatabaseFails, Running
  <1>9. CASE ReadTotals(j)
    <2> DEFINE tally == Totals(UserOfJob(j))
               job == [old EXCEPT !.phase = "snapshot", !.totals = tally]
    <2>1. tally \in TotalsRead /\ Tallied(reports, completed, UserOf[old.session], tally)
      BY <1>9, TalliedNow DEF ReadTotals, UserOfJob
    <2>2. /\ jobs' = [jobs EXCEPT ![j] = job]
          /\ UNCHANGED <<completed, reports, rows, today, replays, dropped, overlapped>>
      BY <1>9 DEF ReadTotals, Advance
    <2> HIDE DEF tally, old
    <2>3. /\ DOMAIN job = JobFields
          /\ job.phase = "snapshot" /\ job.session = old.session
          /\ job.attempt = old.attempt /\ job.report = old.report
          /\ job.totals = tally /\ job.seen = old.seen
      BY <1>3 DEF JobFields
    <2> HIDE DEF job
    <2>4. JobFacts(reports, completed, job)
      BY <1>1, <2>1, <2>3 DEF JobFacts, Phases
    <2>5. ~Loads(job)
      BY <2>3 DEF Loads
    <2> QED
      BY <1>1, <2>2, <2>4, <2>5, JobMovesSound
  <1>10. CASE ReadSnapshot(j) \/ ReadReadiness(j) \/ ReadSkill(j)
    BY <1>10, LoadSound
  <1>11. CASE RecordConflicts(j) /\ old.attempt = 1
    <2> DEFINE job == [old EXCEPT !.phase = "totals", !.attempt = 2, !.totals = NoRow,
                                  !.seen = Nothing]
    <2>2. /\ jobs' = [jobs EXCEPT ![j] = job]
          /\ UNCHANGED <<completed, reports, rows, today, replays, dropped, overlapped>>
      BY <1>11 DEF RecordConflicts, Advance
    <2> HIDE DEF old
    <2>3. /\ DOMAIN job = JobFields
          /\ job.phase = "totals" /\ job.session = old.session
          /\ job.attempt = 2 /\ job.report = old.report
          /\ job.totals = NoRow /\ job.seen = Nothing
      BY <1>3 DEF JobFields
    <2> HIDE DEF job
    <2>4. JobFacts(reports, completed, job)
      BY <1>1, <2>3 DEF JobFacts, Phases
    <2>5. ~Loads(job)
      BY <2>3 DEF Loads
    <2> QED
      BY <1>1, <2>2, <2>4, <2>5, JobMovesSound
  <1>12. CASE RecordConflicts(j) /\ old.attempt # 1
    BY <1>12, EndSound DEF RecordConflicts, ReadyToCommit, Running
  <1> QED
    BY <1>4, <1>5, <1>6, <1>7, <1>8, <1>9, <1>10, <1>11, <1>12

\* The report that is stored was built from the interview's evaluations.
LEMMA StoreSound ==
    ASSUME Inv, Sound, [Next]_vars, NEW j \in Jobs, Store(j)
    PROVE  Sound'
  <1> DEFINE old == jobs[j]
             s == old.session
             winner == IF reports[s] = NoReport THEN old.report ELSE reports[s]
             told == Narrative(winner)
             job == [old EXCEPT !.phase = "totals", !.attempt = 1, !.report = told]
  <1>1. /\ old.phase = "writing"
        /\ reports' = [reports EXCEPT ![s] = winner]
        /\ jobs' = [jobs EXCEPT ![j] = job]
        /\ UNCHANGED <<completed, rows, today, replays, dropped, overlapped>>
    BY DEF Store, Advance
  <1>2. s \in Sessions /\ JobFacts(reports, completed, old)
    BY <1>1 DEF Inv, Shapes, JobsCompleted, Running, Sound, JobsSound
  <1>3. /\ Whole(winner)
        /\ IsReport(winner)
        /\ FromDraft(s, told)
    <2>1. CASE reports[s] = NoReport
      <3>1. FromDraft(s, old.report)
        BY <1>1, <1>2 DEF JobFacts
      <3>2. Whole(old.report) /\ old.report.done = {}
        BY <1>1 DEF Inv, WritesWhole
      <3>3. Narrative(old.report) = old.report
        BY <3>2, NarrativeOfWhole
      <3>4. IsReport(old.report)
        BY <1>2, <3>1, DraftSound
      <3> QED
        BY <2>1, <3>1, <3>2, <3>3, <3>4
    <2>2. CASE reports[s] # NoReport
      BY <1>2, <2>2 DEF Inv, StoredWhole, Sound, StoredSound
    <2> QED
      BY <2>1, <2>2
  <1>4. IsReport(told)
    BY <1>2, <1>3, DraftSound
  <1>5. \A x \in Sessions : reports'[x] = IF x = s THEN winner ELSE reports[x]
    BY <1>1 DEF Inv, Shapes
  <1>6. StoredSound'
    BY <1>3, <1>5 DEF Sound, StoredSound
  <1> HIDE DEF winner, told
  <1>7. /\ DOMAIN job = JobFields
        /\ job.phase = "totals" /\ job.session = s
        /\ job.attempt = 1 /\ job.report = told
        /\ job.totals = old.totals /\ job.seen = old.seen
    BY <1>2 DEF JobFacts, JobFields
  <1> HIDE DEF job
  <1>8. JobFacts(reports, completed, job)
    BY <1>2, <1>4, <1>7 DEF JobFacts, Phases
  <1>9. Grows
    BY NextGrows
  <1>10. JobsSound'
    BY <1>1, <1>8, <1>9, JobsStay
  <1>11. SnapshotsSound' /\ ReadinessSound' /\ SkillsSound'
    BY <1>1, <1>9, RowsStay
  <1>12. LoadsMet'
    <2>1. ~Loads(job)
      BY <1>7 DEF Loads
    <2> QED
      BY <1>1, <1>9, <2>1, LoadsStay
  <1>13. /\ today' \in Days /\ replays' \in 0..MaxReplays
         /\ dropped' \subseteq completed' /\ overlapped' \subseteq SUBSET completed'
    BY <1>1 DEF Sound
  <1> QED
    BY <1>6, <1>10, <1>11, <1>12, <1>13 DEF Sound

\* A trend is one of the three.
LEMMA TrendInTrends == \A delta : Trend(delta) \in Trends
  BY DEF Trend, Trends

\* An upsert writes each column or leaves it, and leaves only what it loaded.
LEMMA UpsertedColumns ==
    ASSUME NEW row, NEW loaded, NEW new, NEW exact
    PROVE  LET up == Upserted(row, loaded, new, exact)
           IN  /\ loaded = NoRow => up = new
               /\ loaded # NoRow =>
                      /\ up = [column \in DOMAIN new |-> up[column]]
                      /\ \A column \in DOMAIN new :
                            \/ up[column] = new[column]
                            \/ /\ new[column] = loaded[column]
                               /\ up[column] = row[column]
  BY DEF Upserted

\* So each column of a row is the new one or, where that was loaded, the row's own.
LEMMA UpsertedSnapshot ==
    ASSUME NEW row, NEW loaded, NEW new, NEW exact, NEW up,
           row \in SnapshotRows \cup {NoRow},
           new \in SnapshotRows,
           loaded = NoRow \/ row # NoRow,
           up = Upserted(row, loaded, new, exact)
    PROVE  /\ up \in SnapshotRows
           /\ \/ up.count = new.count
              \/ /\ loaded # NoRow /\ new.count = loaded.count
                 /\ up.count = row.count
           /\ \/ up.score = new.score
              \/ /\ loaded # NoRow /\ new.score = loaded.score
                 /\ up.score = row.score
  <1>1. CASE loaded = NoRow
    BY <1>1, UpsertedColumns
  <1>2. CASE loaded # NoRow
    <2>1. /\ up = [column \in DOMAIN new |-> up[column]]
          /\ \A column \in DOMAIN new :
                \/ up[column] = new[column]
                \/ /\ new[column] = loaded[column]
                   /\ up[column] = row[column]
      BY <1>2, UpsertedColumns
    <2>2. row \in SnapshotRows
      BY <1>2
    <2>3. DOMAIN new = {"count", "score"}
      BY DEF SnapshotRows
    <2>4. up = [count |-> up.count, score |-> up.score]
      BY <2>1, <2>3
    <2>5. /\ \/ up.count = new.count
             \/ /\ new.count = loaded.count
                /\ up.count = row.count
          /\ \/ up.score = new.score
             \/ /\ new.score = loaded.score
                /\ up.score = row.score
      BY <2>1, <2>3
    <2>6. up \in SnapshotRows
      BY <2>2, <2>4, <2>5 DEF SnapshotRows
    <2> QED
      BY <1>2, <2>5, <2>6
  <1> QED
    BY <1>1, <1>2

\* The same of a company's readiness, ...
LEMMA UpsertedReadiness ==
    ASSUME NEW row, NEW loaded, NEW new, NEW exact, NEW up,
           row \in ReadinessRows \cup {NoRow},
           new \in ReadinessRows,
           loaded = NoRow \/ row # NoRow,
           up = Upserted(row, loaded, new, exact)
    PROVE  /\ up \in ReadinessRows
           /\ \/ up.session = new.session
              \/ /\ loaded # NoRow /\ new.session = loaded.session
                 /\ up.session = row.session
           /\ \/ up.score = new.score
              \/ /\ loaded # NoRow /\ new.score = loaded.score
                 /\ up.score = row.score
  <1>1. CASE loaded = NoRow
    BY <1>1, UpsertedColumns
  <1>2. CASE loaded # NoRow
    <2>1. /\ up = [column \in DOMAIN new |-> up[column]]
          /\ \A column \in DOMAIN new :
                \/ up[column] = new[column]
                \/ /\ new[column] = loaded[column]
                   /\ up[column] = row[column]
      BY <1>2, UpsertedColumns
    <2>2. row \in ReadinessRows
      BY <1>2
    <2>3. DOMAIN new = {"session", "score"}
      BY DEF ReadinessRows
    <2>4. up = [session |-> up.session, score |-> up.score]
      BY <2>1, <2>3
    <2>5. /\ \/ up.session = new.session
             \/ /\ new.session = loaded.session
                /\ up.session = row.session
          /\ \/ up.score = new.score
             \/ /\ new.score = loaded.score
                /\ up.score = row.score
      BY <2>1, <2>3
    <2>6. up \in ReadinessRows
      BY <2>2, <2>4, <2>5 DEF ReadinessRows
    <2> QED
      BY <1>2, <2>5, <2>6
  <1> QED
    BY <1>1, <1>2

\* ... and of a skill.
LEMMA UpsertedSkill ==
    ASSUME NEW row, NEW loaded, NEW new, NEW exact, NEW up,
           row \in SkillRows \cup {NoRow},
           new \in SkillRows,
           loaded = NoRow \/ row # NoRow,
           up = Upserted(row, loaded, new, exact)
    PROVE  /\ up \in SkillRows
           /\ \/ up.trend = new.trend
              \/ /\ loaded # NoRow /\ new.trend = loaded.trend
                 /\ up.trend = row.trend
           /\ \/ up.score = new.score
              \/ /\ loaded # NoRow /\ new.score = loaded.score
                 /\ up.score = row.score
  <1>1. CASE loaded = NoRow
    BY <1>1, UpsertedColumns
  <1>2. CASE loaded # NoRow
    <2>1. /\ up = [column \in DOMAIN new |-> up[column]]
          /\ \A column \in DOMAIN new :
                \/ up[column] = new[column]
                \/ /\ new[column] = loaded[column]
                   /\ up[column] = row[column]
      BY <1>2, UpsertedColumns
    <2>2. row \in SkillRows
      BY <1>2
    <2>3. DOMAIN new = {"trend", "score"}
      BY DEF SkillRows
    <2>4. up = [trend |-> up.trend, score |-> up.score]
      BY <2>1, <2>3
    <2>5. /\ \/ up.trend = new.trend
             \/ /\ new.trend = loaded.trend
                /\ up.trend = row.trend
          /\ \/ up.score = new.score
             \/ /\ new.score = loaded.score
                /\ up.score = row.score
      BY <2>1, <2>3
    <2>6. up \in SkillRows
      BY <2>2, <2>4, <2>5 DEF SkillRows
    <2> QED
      BY <1>2, <2>5, <2>6
  <1> QED
    BY <1>1, <1>2

\* The rows that a job commits are about its user's reports.
LEMMA RecordSound ==
    ASSUME Inv, Sound, [Next]_vars, NEW j \in Jobs, Record(j)
    PROVE  Sound'
  <1>0. PICK s, u, c : s = jobs[j].session /\ u = UserOf[s] /\ c = CompanyOf[s]
    OBVIOUS
  <1> DEFINE old == jobs[j]
             seen == old.seen
             overall == old.report.overall
             counted == SnapshotRow(old.totals)
             snap == Upserted(snapshots[u][seen.day], seen.snapshot, counted, old.totals.exact)
             pair == ReadinessRow(seen.company, overall, s)
             ready == Upserted(readiness[u][c], seen.company, pair, ExactFloat(overall))
             scored(k) == SkillRow(Assessed(j)[k], seen.skill[k])
             skill(k) == Upserted(skills[u][k], seen.skill[k], scored(k),
                                  ExactFloat(Assessed(j)[k]))
             mine == [k \in Skills |-> IF k \in DOMAIN seen.skill THEN skill(k)
                                      ELSE skills[u][k]]
  <1>1. /\ old.phase = "skills"
        /\ DOMAIN seen.skill = DOMAIN Assessments[old.report]
        /\ jobs' = [jobs EXCEPT ![j] = Idle]
        /\ UNCHANGED <<completed, reports, today, replays, dropped>>
    BY DEF Record, ReadyToCommit, EndJob, Advance, Assessed
  <1>2. /\ snapshots' = [snapshots EXCEPT ![u][seen.day] = snap]
        /\ c = NoCompany => readiness' = readiness
        /\ c # NoCompany => readiness' = [readiness EXCEPT ![u][c] = ready]
        /\ skills' = [skills EXCEPT ![u] = mine]
        /\ overlapped' = overlapped \cup Overlaps(j)
    BY <1>0 DEF Record, UserOfJob
  <1>3. /\ seen.snapshot = NoRow => snapshots[u][seen.day] = NoRow
        /\ c # NoCompany /\ seen.company = NoRow => readiness[u][c] = NoRow
        /\ \A k \in DOMAIN seen.skill : seen.skill[k] = NoRow => skills[u][k] = NoRow
    BY <1>0 DEF Record, Conflict, Fresh, UserOfJob
  <1>4. /\ s \in completed /\ s \in Sessions /\ u \in Users
        /\ c \in Companies \/ c = NoCompany
        /\ \A i \in Jobs : jobs'[i] = IF i = j THEN Idle ELSE jobs[i]
    BY <1>0, <1>1, ReportAssumption DEF Inv, Shapes, JobsCompleted, Running
  <1>5. /\ reports[s] # NoReport
        /\ old.report = Narrative(reports[s])
        /\ Whole(reports[s])
        /\ IsReport(reports[s])
        /\ FromDraft(s, old.report)
    BY <1>0, <1>1, <1>4 DEF Inv, RecordsNarrative, Recording, StoredWhole, Sound, StoredSound
  <1>6. /\ overall = reports[s].overall
        /\ overall \in Points
        /\ s \in ReportedBy(u)
    BY <1>0, <1>4, <1>5, NarrativeParts DEF IsReport, ReportedBy
  <1>7. Grows /\ JobsSound'
    <2>1. Grows
      BY NextGrows
    <2> QED
      BY <1>1, <2>1, IdleFacts, JobsStay
  <1>8. /\ SnapshotMet(u, seen.day, seen.snapshot)
        /\ ReadinessMet(s, seen.company)
        /\ SkillsMet(u, seen.skill)
    BY <1>0, <1>1 DEF Sound, LoadsMet, Loads, Met
  <1>9. ASSUME NEW i \in Jobs, NEW job, job = jobs'[i], Loads(job)
        PROVE  /\ job = jobs[i]
               /\ Met(job)
               /\ job.session \in Sessions
               /\ UserOf[job.session] = u => {s, job.session} \in overlapped' /\ Mixed(u)'
    <2>1. i # j /\ job = jobs[i]
      BY <1>4, <1>9, IdleFacts
    <2>2. /\ Met(job)
          /\ Running(i) /\ job.phase \in Recording
      BY <1>9, <2>1 DEF Sound, LoadsMet, Loads, Running, Recording
    <2>3. job.session \in completed /\ job.session \in Sessions
      BY <2>1, <2>2 DEF Inv, Shapes, JobsCompleted
    <2>4. ASSUME UserOf[job.session] = u
          PROVE  {s, job.session} \in overlapped' /\ Mixed(u)'
      <3> DEFINE t == job.session
      <3>1. {s, t} \in Overlaps(j)
        BY <1>0, <1>9, <2>1, <2>4 DEF Overlaps, Loaded, Loads, UserOfJob
      <3>2. {s, t} \in overlapped'
        BY <1>2, <3>1
      <3>3. t \in ReportedBy(u)
        BY <2>1, <2>2, <2>3, <2>4 DEF Inv, RecordsNarrative, ReportedBy
      <3>4. s \in ReportedBy(u)' /\ t \in ReportedBy(u)'
        BY <1>1, <1>6, <3>3 DEF ReportedBy
      <3>5. Mixed(u)'
        BY <3>2, <3>4 DEF Mixed, RecordedAtOnce
      <3> QED
        BY <3>2, <3>5
    <2> QED
      BY <2>1, <2>2, <2>3, <2>4
  <1>10. /\ SnapshotsSound'
         /\ \A v \in Users, d \in Days :
               /\ snapshots[v][d] # NoRow => snapshots'[v][d] # NoRow
               /\ v # u => snapshots'[v][d] = snapshots[v][d]
    <2>1. /\ old.totals \in TotalsRead
          /\ Tallied(reports, completed, u, old.totals)
      BY <1>0, <1>1 DEF Sound, JobsSound, JobFacts
    <2>2. /\ counted \in SnapshotRows
          /\ counted.count = old.totals.count /\ counted.score = old.totals.score
      BY <2>1 DEF TotalsRead, SnapshotRows, SnapshotRow
    <2>3. /\ snapshots \in [Users -> [Days -> SnapshotRows \cup {NoRow}]]
          /\ seen.day \in Days
      BY <1>8 DEF Sound, SnapshotsSound, SnapshotMet
    <2> DEFINE row == snapshots[u][seen.day]
               loaded == seen.snapshot
    <2>4. row \in SnapshotRows \cup {NoRow}
      BY <1>4, <2>3
    <2>5. /\ loaded = NoRow <=> row = NoRow
          /\ loaded # NoRow => row = loaded \/ Mixed(u)
          /\ row # NoRow => HonestRow(u, row)
      BY <1>3, <1>4, <1>8, <2>3 DEF SnapshotMet, Sound, SnapshotsSound
    <2> DEFINE exact == old.totals.exact
    <2>13. snap = Upserted(row, loaded, counted, exact)
      OBVIOUS
    <2>14. loaded = NoRow \/ row # NoRow
      BY <2>5
    <2> HIDE DEF old, counted, row, loaded, snap, exact
    <2>6. /\ snap \in SnapshotRows
          /\ \/ snap.count = counted.count
             \/ loaded # NoRow /\ counted.count = loaded.count /\ snap.count = row.count
          /\ \/ snap.score = counted.score
             \/ loaded # NoRow /\ counted.score = loaded.score /\ snap.score = row.score
      BY <2>2, <2>4, <2>13, <2>14, UpsertedSnapshot
    <2>7. /\ Counted(reports, completed, u, counted.count)
          /\ Averaged(reports, completed, u, counted.score)
          /\ Tallied(reports, completed, u, counted)
      BY <2>1, <2>2 DEF Tallied, Counted, Averaged
    <2>8. HonestRow(u, snap)
      <3>1. /\ Counted(reports, completed, u, snap.count)
            /\ Averaged(reports, completed, u, snap.score)
        BY <2>5, <2>6, <2>7 DEF HonestRow
      <3>2. (snap.count = counted.count /\ snap.score = counted.score) \/ Mixed(u)
        BY <2>5, <2>6
      <3>3. Tallied(reports, completed, u, snap) \/ Mixed(u)
        BY <2>7, <3>2 DEF Tallied
      <3> QED
        BY <3>1, <3>3 DEF HonestRow
    <2> HIDE DEF seen
    <2>9. /\ snapshots' \in [Users -> [Days -> SnapshotRows \cup {NoRow}]]
          /\ \A v \in Users, d \in Days :
                snapshots'[v][d] = IF v = u /\ d = seen.day THEN snap ELSE snapshots[v][d]
      BY <1>2, <1>4, <2>3, <2>6
    <2>10. snap # NoRow
      BY <2>6 DEF SnapshotRows, NoRow
    <2>11. ASSUME NEW v \in Users, NEW d \in Days, snapshots'[v][d] # NoRow
           PROVE  HonestRow(v, snapshots'[v][d])
      BY <2>8, <2>9, <2>11 DEF Sound, SnapshotsSound
    <2>12. ASSUME NEW v \in Users, NEW d \in Days, snapshots'[v][d] # NoRow
           PROVE  HonestRow(v, snapshots[v][d])'
      <3>1. PICK r : r = snapshots'[v][d]
        OBVIOUS
      <3>2. HonestRow(v, r)'
        BY <1>7, <2>11, <2>12, <3>1, HonestStays
      <3> QED
        BY <3>1, <3>2 DEF HonestRow
    <2> QED
      BY <2>9, <2>10, <2>12 DEF SnapshotsSound
  <1>11. /\ ReadinessSound'
         /\ \A v \in Users, d \in Companies :
               LET row == readiness[v][d]
                   now == readiness'[v][d]
               IN  IF v = u /\ d = c
                   THEN /\ now # NoRow
                        /\ row = NoRow \/ now.session \in {s, row.session}
                        /\ row = NoRow \/ now.score \in {overall, row.score}
                   ELSE now = row
    <2>1. CASE c = NoCompany
      <3>1. readiness' = readiness
        BY <1>2, <2>1
      <3>2. ReadinessPaired'
        BY <1>7, <3>1, PairedStays DEF Sound, ReadinessSound
      <3>3. NoCompany \notin Companies
        BY ReportAssumption
      <3> QED
        BY <2>1, <3>1, <3>2, <3>3 DEF Sound, ReadinessSound
    <2>2. CASE c # NoCompany
      <3>0. c \in Companies
        BY <1>4, <2>2
      <3> DEFINE row == readiness[u][c]
                 loaded == seen.company
      <3>1. readiness \in [Users -> [Companies -> ReadinessRows \cup {NoRow}]]
        BY DEF Sound, ReadinessSound
      <3>2. /\ pair \in ReadinessRows
            /\ pair.score = overall /\ pair.session = s
        BY <1>0, <1>4, <1>6 DEF ReadinessRow, ReadinessRows
      <3>3. row \in ReadinessRows \cup {NoRow}
        BY <1>4, <3>0, <3>1
      <3>4. loaded = NoRow <=> row = NoRow
        BY <1>0, <1>3, <1>8, <2>2 DEF ReadinessMet
      <3> DEFINE exact == ExactFloat(overall)
      <3>12. ready = Upserted(row, loaded, pair, exact)
        OBVIOUS
      <3>13. loaded = NoRow \/ row # NoRow
        BY <3>4
      <3> HIDE DEF row, loaded, pair, overall, ready, exact
      <3>5. /\ ready \in ReadinessRows
            /\ \/ ready.session = s
               \/ loaded # NoRow /\ s = loaded.session /\ ready.session = row.session
            /\ \/ ready.score = overall
               \/ loaded # NoRow /\ overall = loaded.score /\ ready.score = row.score
        BY <3>2, <3>3, <3>12, <3>13, UpsertedReadiness
      <3>6. ready # NoRow
        BY <3>5 DEF ReadinessRows, NoRow
      <3>7. /\ readiness' \in [Users -> [Companies -> ReadinessRows \cup {NoRow}]]
            /\ \A v \in Users, d \in Companies :
                  readiness'[v][d] = IF v = u /\ d = c THEN ready ELSE readiness[v][d]
        <4>1. readiness' = [readiness EXCEPT ![u][c] = ready]
          BY <1>2, <2>2
        <4> QED
          BY <1>4, <3>0, <3>1, <3>5, <4>1
      <3>8. /\ ready.session \in ReportedBy(u) /\ CompanyOf[ready.session] = c
            /\ \E t \in ReportedBy(u) :
                   /\ CompanyOf[t] = c
                   /\ t = ready.session \/ RecordedAtOnce(ready.session, t)
                   /\ ready.score = reports[t].overall
        <4>1. row # NoRow =>
                 /\ row.session \in ReportedBy(u) /\ CompanyOf[row.session] = c
                 /\ \E t \in ReportedBy(u) :
                        /\ CompanyOf[t] = c
                        /\ t = row.session \/ RecordedAtOnce(row.session, t)
                        /\ row.score = reports[t].overall
          BY <1>4, <3>0 DEF row, Sound, ReadinessSound, ReadinessPaired
        <4>6. /\ s \in ReportedBy(u)
              /\ CompanyOf[s] = c
              /\ reports[s].overall = overall
          BY <1>0, <1>6
        <4>2. loaded # NoRow =>
                 /\ row.session = loaded.session \/ RecordedAtOnce(s, row.session)
                 /\ \/ row.score = loaded.score
                    \/ \E t \in ReportedBy(u) : /\ CompanyOf[t] = c
                                                /\ RecordedAtOnce(s, t)
                                                /\ row.score = reports[t].overall
          BY <1>0, <1>8 DEF ReadinessMet, row, loaded
        <4>3. \A x, y : RecordedAtOnce(x, y) => RecordedAtOnce(y, x)
          <5>1. \A x, y : {x, y} = {y, x}
            OBVIOUS
          <5> QED
            BY <5>1 DEF RecordedAtOnce
        <4>4. CASE ready.session = s
          <5>1. CASE ready.score = overall
            BY <4>4, <4>6, <5>1
          <5>2. CASE /\ loaded # NoRow
                     /\ overall = loaded.score
                     /\ ready.score = row.score
            BY <4>2, <4>4, <4>6, <5>2
          <5> QED
            BY <3>5, <5>1, <5>2
        <4>5. CASE /\ loaded # NoRow
                   /\ s = loaded.session
                   /\ ready.session = row.session
          <5>1. row # NoRow
            BY <3>4, <4>5
          <5>2. CASE ready.score = overall
            <6>1. s = ready.session \/ RecordedAtOnce(ready.session, s)
              BY <4>2, <4>3, <4>5
            <6> QED
              BY <4>1, <4>5, <4>6, <5>1, <5>2, <6>1
          <5>3. CASE ready.score = row.score
            BY <4>1, <4>5, <5>1, <5>3
          <5> QED
            BY <3>5, <5>2, <5>3
        <4> QED
          BY <3>5, <4>4, <4>5
      <3>9. ReadinessPaired'
        <4> SUFFICES ASSUME NEW v \in Users, NEW d \in Companies, readiness'[v][d] # NoRow
                     PROVE  LET x == readiness'[v][d].session
                                own == {t \in ReportedBy(v)' : CompanyOf[t] = d}
                            IN  /\ x \in own
                                /\ \E t \in own :
                                      /\ t = x \/ {x, t} \in overlapped'
                                      /\ readiness'[v][d].score = reports'[t].overall
          BY DEF ReadinessPaired, RecordedAtOnce
        <4> DEFINE now == readiness'[v][d]
        <4>1. /\ now.session \in ReportedBy(v) /\ CompanyOf[now.session] = d
              /\ \E t \in ReportedBy(v) :
                     /\ CompanyOf[t] = d
                     /\ t = now.session \/ RecordedAtOnce(now.session, t)
                     /\ now.score = reports[t].overall
          <5>1. CASE v = u /\ d = c
            BY <3>7, <3>8, <5>1
          <5>2. CASE ~(v = u /\ d = c)
            BY <3>7, <5>2 DEF Sound, ReadinessSound, ReadinessPaired
          <5> QED
            BY <5>1, <5>2
        <4> HIDE DEF now
        <4>2. /\ now.session \in ReportedBy(v)' /\ CompanyOf[now.session] = d
              /\ \E t \in ReportedBy(v)' :
                     /\ CompanyOf[t] = d
                     /\ t = now.session \/ {now.session, t} \in overlapped'
                     /\ now.score = reports'[t].overall
          BY <1>7, <4>1, ReportedGrows DEF RecordedAtOnce
        <4> QED
          BY <4>2 DEF now
      <3>10. ReadinessSound'
        BY <3>7, <3>9 DEF ReadinessSound
      <3>11. /\ row = NoRow \/ ready.session \in {s, row.session}
             /\ row = NoRow \/ ready.score \in {overall, row.score}
        BY <3>5
      <3> QED
        BY <3>6, <3>7, <3>10, <3>11 DEF row, overall
    <2> QED
      BY <2>1, <2>2
  <1>12. /\ SkillsSound'
         /\ \A v \in Users, k \in Skills :
               skills[v][k] # NoRow => skills'[v][k] # NoRow
    <2>1. skills \in [Users -> [Skills -> SkillRows \cup {NoRow}]]
      BY DEF Sound, SkillsSound
    <2>2. ASSUME NEW k \in DOMAIN seen.skill
          PROVE  /\ k \in Skills
                 /\ skill(k) \in SkillRows
                 /\ skill(k) # NoRow
                 /\ Held(reports, completed, u, k, skill(k).score)
      <3> DEFINE row == skills[u][k]
                 loaded == seen.skill[k]
                 score == Assessed(j)[k]
                 new == scored(k)
      <3>1. k \in DOMAIN Assessments[old.report] /\ Assessed(j) = Assessments[old.report]
        BY <1>1, <2>2 DEF Assessed
      <3>2. /\ k \in Skills
            /\ score \in Points
            /\ Assesses(old.report, SkillOf, k, score)
        BY <1>4, <1>5, <3>1, AssessmentSound
      <3>3. new.score = score /\ new \in SkillRows
        <4>1. "stable" \in Trends
          BY DEF Trends
        <4> HIDE DEF score, loaded
        <4>2. new = SkillRow(score, loaded)
          BY DEF score, loaded
        <4> HIDE DEF new
        <4> QED
          BY <3>2, <4>1, <4>2, TrendInTrends DEF SkillRow, SkillRows
      <3>4. Held(reports, completed, u, k, score)
        <4>1. /\ old.report.weak = reports[s].weak
              /\ old.report.strong = reports[s].strong
              /\ old.report.sections = reports[s].sections
          BY <1>5, NarrativeParts
        <4>2. Assesses(reports[s], SkillOf, k, score)
          BY <3>2, <4>1 DEF Assesses, ScoredBy
        <4>3. s \in ReportedIn(reports, completed, u)
          BY <1>0, <1>4, <1>5 DEF ReportedIn
        <4> QED
          BY <4>2, <4>3 DEF Held
      <3>5. row \in SkillRows \cup {NoRow}
        BY <1>4, <2>1, <3>2
      <3>6. loaded = NoRow <=> row = NoRow
        BY <1>3, <1>8, <2>2, <3>2 DEF SkillsMet
      <3>7. row # NoRow => Held(reports, completed, u, k, row.score)
        BY <1>4, <3>2 DEF Sound, SkillsSound
      <3> DEFINE up == skill(k)
                 exact == ExactFloat(score)
      <3>10. up = Upserted(row, loaded, new, exact)
        OBVIOUS
      <3>11. loaded = NoRow \/ row # NoRow
        BY <3>6
      <3> HIDE DEF row, loaded, score, new, up, exact
      <3>8. /\ up \in SkillRows
            /\ up.score = score \/ (row # NoRow /\ up.score = row.score)
        BY <3>3, <3>5, <3>6, <3>10, <3>11, UpsertedSkill
      <3>9. up # NoRow
        BY <3>8 DEF SkillRows, NoRow
      <3>12. Held(reports, completed, u, k, up.score)
        BY <3>4, <3>7, <3>8
      <3> QED
        BY <3>2, <3>8, <3>9, <3>12 DEF up
    <2> HIDE DEF skill
    <2>3. mine \in [Skills -> SkillRows \cup {NoRow}]
      BY <1>4, <2>1, <2>2
    <2>4. \A k \in Skills :
             /\ mine[k] # NoRow => Held(reports, completed, u, k, mine[k].score)
             /\ skills[u][k] # NoRow => mine[k] # NoRow
      BY <1>4, <2>2 DEF Sound, SkillsSound
    <2> HIDE DEF mine
    <2>5. /\ skills' \in [Users -> [Skills -> SkillRows \cup {NoRow}]]
          /\ \A v \in Users : skills'[v] = IF v = u THEN mine ELSE skills[v]
      BY <1>2, <2>1, <2>3
    <2>6. ASSUME NEW v \in Users, NEW k \in Skills, skills'[v][k] # NoRow
          PROVE  Held(reports, completed, v, k, skills'[v][k].score)
      BY <2>4, <2>5, <2>6 DEF Sound, SkillsSound
    <2> QED
      BY <1>1, <2>4, <2>5, <2>6 DEF SkillsSound
  <1>13. LoadsMet'
    <2> SUFFICES ASSUME NEW i \in Jobs, NEW job, job = jobs'[i], Loads(job)
                 PROVE  Met(job)'
      BY DEF LoadsMet, Loads, Met
    <2> DEFINE x == job.session
               v == UserOf[x]
               d == CompanyOf[x]
    <2>1. {x, s} = {s, x}
      OBVIOUS
    <2>2. /\ Met(job) /\ x \in Sessions /\ v \in Users
          /\ v = u => {x, s} \in overlapped' /\ Mixed(u)'
      BY <1>9, <2>1, ReportAssumption
    <2>3. SnapshotMet(v, job.seen.day, job.seen.snapshot)'
      <3> DEFINE day == job.seen.day
                 loaded == job.seen.snapshot
      <3>1. /\ day \in Days
            /\ loaded # NoRow => /\ snapshots[v][day] # NoRow
                                 /\ snapshots[v][day] = loaded \/ Mixed(v)
        BY <2>2 DEF Met, SnapshotMet
      <3>2. loaded # NoRow => snapshots'[v][day] # NoRow
        BY <1>10, <2>2, <3>1
      <3>3. loaded # NoRow => snapshots'[v][day] = loaded \/ Mixed(v)'
        <4>1. CASE v = u
          <5>1. Mixed(u)'
            BY <2>2, <4>1
          <5> HIDE DEF v
          <5>2. Mixed(v)'
            BY <4>1, <5>1
          <5> QED
            BY <5>2
        <4>2. CASE v # u
          BY <1>7, <1>10, <2>2, <3>1, <4>2, ReportedGrows
        <4> QED
          BY <4>1, <4>2
      <3> QED
        BY <3>1, <3>2, <3>3 DEF SnapshotMet
    <2>4. ReadinessMet(x, job.seen.company)'
      <3> DEFINE loaded == job.seen.company
                 row == readiness[v][d]
                 now == readiness'[v][d]
      <3>1. ASSUME loaded # NoRow
            PROVE  /\ d # NoCompany
                   /\ row # NoRow
                   /\ row.session = loaded.session \/ {x, row.session} \in overlapped'
                   /\ \/ row.score = loaded.score
                      \/ \E t \in ReportedBy(v)' : /\ CompanyOf[t] = d
                                                   /\ {x, t} \in overlapped'
                                                   /\ row.score = reports'[t].overall
        <4>1. /\ d # NoCompany
              /\ row # NoRow
              /\ row.session = loaded.session \/ RecordedAtOnce(x, row.session)
              /\ \/ row.score = loaded.score
                 \/ \E t \in ReportedBy(v) : /\ CompanyOf[t] = d
                                             /\ RecordedAtOnce(x, t)
                                             /\ row.score = reports[t].overall
          BY <2>2, <3>1 DEF Met, ReadinessMet
        <4> HIDE DEF row, loaded, x, v, d
        <4> QED
          BY <1>7, <4>1, ReportedGrows DEF RecordedAtOnce
      <3>2. ASSUME loaded # NoRow
            PROVE  /\ d # NoCompany
                   /\ now # NoRow
                   /\ now.session = loaded.session \/ {x, now.session} \in overlapped'
                   /\ \/ now.score = loaded.score
                      \/ \E t \in ReportedBy(v)' : /\ CompanyOf[t] = d
                                                   /\ {x, t} \in overlapped'
                                                   /\ now.score = reports'[t].overall
        <4>1. d \in Companies
          BY <2>2, <3>1, <3>2, ReportAssumption
        <4>2. IF v = u /\ d = c
              THEN /\ now # NoRow
                   /\ now.session \in {s, row.session}
                   /\ now.score \in {overall, row.score}
              ELSE now = row
          BY <1>11, <2>2, <3>1, <3>2, <4>1
        <4>3. v = u /\ d = c =>
                 /\ {x, s} \in overlapped'
                 /\ s \in ReportedBy(v)' /\ CompanyOf[s] = d
                 /\ reports'[s].overall = overall
          BY <1>0, <1>1, <1>6, <2>2 DEF ReportedBy
        <4> HIDE DEF now, row, loaded, overall, x, v, d
        <4>4. CASE v = u /\ d = c
          BY <3>1, <3>2, <4>2, <4>3, <4>4
        <4>5. CASE ~(v = u /\ d = c)
          BY <3>1, <3>2, <4>2, <4>5
        <4> QED
          BY <4>4, <4>5
      <3> QED
        BY <3>2 DEF ReadinessMet, RecordedAtOnce
    <2>5. SkillsMet(v, job.seen.skill)'
      BY <1>12, <2>2 DEF Met, SkillsMet
    <2>6. Met(job)'
      BY <2>2, <2>3, <2>4, <2>5 DEF Met
    <2> QED
      BY <2>6
  <1>14. /\ StoredSound' /\ today' \in Days /\ replays' \in 0..MaxReplays
         /\ dropped' \subseteq completed'
    BY <1>1 DEF Sound, StoredSound
  <1>15. overlapped' \subseteq SUBSET completed'
    <2>1. \A i \in Jobs : Loaded(i) => jobs[i].session \in completed
      BY DEF Inv, JobsCompleted, Running, Loaded
    <2>2. Overlaps(j) \subseteq SUBSET completed
      BY <1>0, <1>4, <2>1 DEF Overlaps
    <2> QED
      BY <1>1, <1>2, <2>2 DEF Sound
  <1> QED
    BY <1>7, <1>10, <1>11, <1>12, <1>13, <1>14, <1>15 DEF Sound

\* Jobs end, and with them what they had not committed.
LEMMA CrashSound ==
    ASSUME Inv, Sound, [Next]_vars, ProcessCrash
    PROVE  Sound'
  <1>1. /\ jobs' = [j \in Jobs |-> Idle]
        /\ dropped' = dropped \cup {jobs[j].session : j \in {x \in Jobs : Running(x)}}
        /\ UNCHANGED <<completed, reports, rows, today, replays, overlapped>>
    BY DEF ProcessCrash
  <1>2. Grows
    BY NextGrows
  <1>3. SnapshotsSound' /\ ReadinessSound' /\ SkillsSound'
    BY <1>1, <1>2, RowsStay
  <1>4. JobsSound' /\ LoadsMet'
    <2>1. JobFacts(reports', completed', Idle) /\ ~Loads(Idle)
      BY <1>1, IdleFacts
    <2> QED
      BY <1>1, <2>1 DEF JobsSound, LoadsMet, Loads
  <1>5. dropped' \subseteq completed'
    BY <1>1 DEF Sound, Inv, JobsCompleted
  <1>6. /\ StoredSound' /\ today' \in Days /\ replays' \in 0..MaxReplays
        /\ overlapped' \subseteq SUBSET completed'
    BY <1>1 DEF Sound, StoredSound
  <1> QED
    BY <1>3, <1>4, <1>5, <1>6 DEF Sound

\* A tick stays within the items of the roadmap.
LEMMA RoadmapSound ==
    ASSUME Inv, Sound, [Next]_vars, NEW u \in Users, NEW s \in Sessions, NEW i, NEW b,
           UpdateRoadmapItem(u, s, i, b)
    PROVE  Sound'
  <1> DEFINE ticks == IF b THEN reports[s].done \cup {i} ELSE reports[s].done \ {i}
             ticked == [reports[s] EXCEPT !.done = ticks]
  <1>1. /\ reports[s] # NoReport
        /\ i \in DOMAIN reports[s].items
        /\ UNCHANGED <<completed, rows, jobs, today, replays, dropped, overlapped>>
    BY DEF UpdateRoadmapItem
  <1>2. \A x \in Sessions : reports'[x] = IF x = s THEN ticked ELSE reports[x]
    BY DEF UpdateRoadmapItem, Inv, Shapes
  <1>3. Whole(reports[s]) /\ IsReport(reports[s]) /\ FromDraft(s, Narrative(reports[s]))
    BY <1>1 DEF Inv, StoredWhole, Sound, StoredSound
  <1>4. ticks \subseteq DOMAIN reports[s].items
    BY <1>1, <1>3 DEF IsReport
  <1> HIDE DEF ticks
  <1>5. /\ Narrative(ticked) = Narrative(reports[s])
        /\ IsReport(ticked)
    <2>1. Whole(ticked) /\ Narrative(ticked) = Narrative(reports[s])
      BY <1>3, NarrativeOfWhole
    <2>2. ticked.done = ticks
      BY <1>3 DEF Whole
    <2> HIDE DEF ticked
    <2>3. /\ ticked.overall = reports[s].overall
          /\ ticked.weak = reports[s].weak
          /\ ticked.strong = reports[s].strong
          /\ ticked.sections = reports[s].sections
          /\ ticked.items = reports[s].items
      BY <1>3, <2>1, NarrativeParts
    <2>4. IsReport(ticked)
      BY <1>3, <1>4, <2>2, <2>3 DEF IsReport
    <2> QED
      BY <2>1, <2>4
  <1> HIDE DEF ticked
  <1>6. StoredSound'
    BY <1>2, <1>3, <1>5 DEF Sound, StoredSound
  <1>7. Grows
    BY NextGrows
  <1>8. SnapshotsSound' /\ ReadinessSound' /\ SkillsSound'
    BY <1>1, <1>7, RowsStay
  <1>9. JobsSound'
    <2>1. \A j \in Jobs : JobFacts(reports', completed', jobs[j])
      BY <1>7, JobFactsStay DEF Grows, StandsFor, Sound, JobsSound
    <2> QED
      BY <1>1, <2>1 DEF JobsSound
  <1>10. LoadsMet'
    BY <1>1, <1>7, MetStays DEF Sound, LoadsMet, Loads
  <1>11. /\ today' \in Days /\ replays' \in 0..MaxReplays
         /\ dropped' \subseteq completed' /\ overlapped' \subseteq SUBSET completed'
    BY <1>1 DEF Sound
  <1> QED
    BY <1>6, <1>8, <1>9, <1>10, <1>11 DEF Sound

\* So does every step.
LEMMA NextSound ==
    ASSUME Inv, Sound, [Next]_vars
    PROVE  Sound'
  <1>1. CASE \E j \in Jobs, s \in Sessions : Complete(j, s) \/ Retrigger(j, s)
    BY <1>1, TriggerSound
  <1>2. CASE \E j \in Jobs : JobStep(j) \/ DatabaseFails(j)
    <2> SUFFICES ASSUME NEW j \in Jobs, JobStep(j) \/ DatabaseFails(j) PROVE Sound'
      BY <1>2
    <2>1. CASE Store(j)
      BY <2>1, StoreSound
    <2>2. CASE Record(j)
      BY <2>2, RecordSound
    <2>3. CASE ~Store(j) /\ ~Record(j)
      BY <2>3, QuietSound DEF JobStep
    <2> QED
      BY <2>1, <2>2, <2>3
  <1>3. CASE ProcessCrash
    BY <1>3, CrashSound
  <1>4. CASE \E u \in Users, s \in Sessions, i \in 1..2, b \in BOOLEAN :
                 UpdateRoadmapItem(u, s, i, b)
    BY <1>4, RoadmapSound
  <1>5. CASE Midnight \/ UNCHANGED vars
    <2>1. /\ UNCHANGED <<completed, reports, rows, jobs, replays, dropped, overlapped>>
          /\ today' \in Days
      BY <1>5, ReportAssumption DEF Midnight, vars, Days, Sound
    <2>2. /\ JobsSound' = JobsSound
          /\ StoredSound' = StoredSound
          /\ SnapshotsSound' = SnapshotsSound
          /\ ReadinessSound' = ReadinessSound
          /\ SkillsSound' = SkillsSound
      BY <2>1 DEF rows, JobsSound, StoredSound, SnapshotsSound, HonestRow, Mixed, ReportedBy,
                  RecordedAtOnce, ReadinessSound, ReadinessPaired, SkillsSound
    <2>3. LoadsMet' = LoadsMet
      BY <2>1 DEF rows, LoadsMet, Loads, Met, SnapshotMet, ReadinessMet, SkillsMet, Mixed,
                  ReportedBy, RecordedAtOnce
    <2> QED
      BY <2>1, <2>2, <2>3 DEF Sound
  <1> QED
    BY <1>1, <1>2, <1>3, <1>4, <1>5 DEF Next

\* The figures' invariant holds beside the first one.
THEOREM FiguresInvariant == Spec => [](Inv /\ Sound)
  <1>1. Init => Inv /\ Sound
    BY InitInv, InitSound
  <1>2. Inv /\ Sound /\ [Next]_vars => (Inv /\ Sound)'
    BY NextInv, NextSound
  <1> QED
    BY <1>1, <1>2, PTL DEF Spec

\* The rows and the jobs keep the shapes and ranges of their columns.
THEOREM ProgressTypeOK == Spec => []TypeOK
  <1>1. Inv /\ Sound => TypeOK
    <2> SUFFICES ASSUME Inv, Sound PROVE TypeOK
      OBVIOUS
    <2>1. completed \subseteq Sessions /\ DOMAIN reports = Sessions
      BY DEF Inv, Shapes
    <2>2. \A s \in Sessions : reports[s] # NoReport => IsReport(reports[s])
      BY DEF Sound, StoredSound
    <2>3. /\ snapshots \in [Users -> [Days -> SnapshotRows \cup {NoRow}]]
          /\ readiness \in [Users -> [Companies -> ReadinessRows \cup {NoRow}]]
          /\ skills \in [Users -> [Skills -> SkillRows \cup {NoRow}]]
      BY DEF Sound, SnapshotsSound, ReadinessSound, SkillsSound
    <2>4. \A j \in Jobs : /\ jobs[j].phase \in Phases
                          /\ jobs[j].session \in Sessions \cup {NoSession}
                          /\ jobs[j].attempt \in 0..2
                          /\ jobs[j].report # NoReport => IsReport(jobs[j].report)
                          /\ jobs[j].totals \in TotalsRead \cup {NoRow}
      BY DEF Sound, JobsSound, JobFacts
    <2> QED
      BY <2>1, <2>2, <2>3, <2>4 DEF Sound, TypeOK
  <1> QED
    BY <1>1, FiguresInvariant, PTL

\* A skill's score is one of the user's own, the weak topics of a report before its
\* strong ones (_extract_assessed_skills, upsert_skill_progress).
THEOREM SkillsStandOnReports == Spec => []SkillsGrounded
  <1>1. Inv /\ Sound => SkillsGrounded
    <2> SUFFICES ASSUME Inv, Sound, NEW u \in Users, NEW k \in Skills, skills[u][k] # NoRow
                 PROVE  \E s \in ReportedBy(u) :
                            LET r == reports[s]
                                weak == {i \in DOMAIN r.weak : SkillOf[r.weak[i].topic] = k}
                            IN  IF weak # {}
                                THEN FiledUnder(r.weak, k, skills[u][k].score, r)
                                ELSE FiledUnder(r.strong, k, skills[u][k].score, r)
      BY DEF SkillsGrounded
    <2>1. Held(reports, completed, u, k, skills[u][k].score)
      BY DEF Sound, SkillsSound
    <2>2. PICK s \in ReportedIn(reports, completed, u) :
             Assesses(reports[s], SkillOf, k, skills[u][k].score)
      BY <2>1 DEF Held
    <2> DEFINE r == reports[s]
               weak == {i \in DOMAIN r.weak : SkillOf[r.weak[i].topic] = k}
               score == skills[u][k].score
    <2>3. weak # {} <=> k \in SkillsNamed(r.weak, SkillOf)
      BY DEF SkillsNamed
    <2>4. /\ ScoredBy(r.weak, SkillOf, k, score, r) => FiledUnder(r.weak, k, score, r)
          /\ ScoredBy(r.strong, SkillOf, k, score, r) => FiledUnder(r.strong, k, score, r)
      BY DEF ScoredBy, FiledUnder
    <2>5. s \in ReportedBy(u)
      BY <2>2 DEF ReportedIn, ReportedBy
    <2> HIDE DEF weak, score
    <2>6. IF weak # {} THEN FiledUnder(r.weak, k, score, r)
                       ELSE FiledUnder(r.strong, k, score, r)
      BY <2>2, <2>3, <2>4 DEF Assesses, score
    <2> QED
      BY <2>5, <2>6 DEF weak, score
  <1> QED
    BY <1>1, FiguresInvariant, PTL

\* A company's readiness always names one of the user's own interviews at that
\* company, and its score is that interview's unless another of them was recorded at
\* the same time, whose score it then may be (progress_service.py:127-131).
THEOREM ReadinessStaysPaired == Spec => []ReadinessPaired
  <1>1. Inv /\ Sound => ReadinessPaired
    BY DEF Sound, ReadinessSound
  <1> QED
    BY <1>1, FiguresInvariant, PTL

\* The dashboard's count and average are those of the same reports of the user,
\* whatever the transaction that wrote the snapshot had read, until two recordings
\* of the user overlap; from then on each is that of reports of its own
\* (get_overview, count_and_average_for_user).
THEOREM OverviewStandsOnReports == Spec => []OverviewHonest
  <1>1. Inv /\ Sound => OverviewHonest
    <2> SUFFICES ASSUME Inv, Sound, NEW u \in Users, Overview(u).count > 0
                 PROVE  \E S, T \in (SUBSET ReportedBy(u)) \ {{}} :
                            /\ Cardinality(S) = Overview(u).count
                            /\ Overview(u).score = Average(Overalls(T))
                            /\ S = T \/ Mixed(u)
      BY DEF OverviewHonest, Mixed
    <2> DEFINE days == {d \in Days : snapshots[u][d] # NoRow}
               latest == Max(days)
               row == snapshots[u][latest]
    <2>1. days # {}
      BY DEF Overview
    <2>2. MaxDay \in Nat /\ days \in SUBSET (0..MaxDay)
      BY ReportAssumption DEF Days
    <2> HIDE DEF days
    <2>3. latest \in days
      BY <2>1, <2>2, Extremes
    <2>4. Overview(u).count = row.count /\ Overview(u).score = row.score
      BY <2>1 DEF Overview, days
    <2> HIDE DEF latest
    <2>5. HonestRow(u, row)
      BY <2>3 DEF Sound, SnapshotsSound, days
    <2> HIDE DEF row
    <2>6. /\ SetsOf(reports, completed, u) = (SUBSET ReportedBy(u)) \ {{}}
          /\ \A S : AverageOf(reports, S) = Average(Overalls(S))
      BY DEF SetsOf, ReportedIn, ReportedBy, AverageOf, Overalls
    <2>7. CASE Tallied(reports, completed, u, row)
      BY <2>4, <2>6, <2>7 DEF Tallied
    <2>8. CASE Mixed(u)
      BY <2>4, <2>5, <2>6, <2>8 DEF HonestRow, Counted, Averaged
    <2> QED
      BY <2>5, <2>7, <2>8 DEF HonestRow
  <1> QED
    BY <1>1, FiguresInvariant, PTL

\* The overall score lies within the scores the interview was given, if every round
\* of its plan has a weight (compute_overall_score: the seeded catalog's rounds do,
\* and a plan whose weights are all zero is what its docstring calls an error of the
\* catalog).
THEOREM OverallStaysWithin ==
    ASSUME \A s \in Sessions : \A round \in DOMAIN WeightOf[s] : WeightOf[s][round] > 0
    PROVE  Spec => []OverallWithinScores
  <1>1. Inv /\ Sound => OverallWithinScores
    <2> SUFFICES ASSUME Inv, Sound, NEW s \in Sessions,
                        reports[s] # NoReport, AllScores(s) # {}
                 PROVE  reports[s].overall \in Min(AllScores(s))..Max(AllScores(s))
      BY DEF OverallWithinScores
    <2> DEFINE evals == Evaluations[s]
               weight == WeightOf[s]
               A == AllScores(s)
    <2>1. IsInterview(evals, weight)
      BY ReportAssumption
    <2>2. reports[s].overall = OverallScore(evals, weight)
      <3>1. FromDraft(s, Narrative(reports[s])) /\ Whole(reports[s])
        BY DEF Sound, StoredSound, Inv, StoredWhole
      <3> QED
        BY <3>1, DraftSound, NarrativeParts
    <2>3. \A e \in evals : \A d \in DOMAIN e.scores : e.scores[d] \in A
      BY DEF AllScores
    <2>4. PICK top \in Nat : Points = 0..top
      BY Scale
    <2>5. A \in SUBSET (0..top)
      BY <2>1, <2>4 DEF AllScores, IsInterview
    <2>6. \E e \in evals : weight[e.round] > 0
      <3>1. PICK e \in evals : TRUE
        BY DEF AllScores
      <3> QED
        BY <2>1, <3>1 DEF IsInterview
    <2> HIDE DEF A, evals, weight
    <2>7. /\ Min(A) \in A /\ Max(A) \in A
          /\ \A x \in A : Min(A) <= x /\ x <= Max(A)
      BY <2>4, <2>5, Extremes DEF A
    <2>8. /\ Min(A) \in Int /\ Max(A) \in Int
          /\ Within(evals, Min(A), Max(A))
      <3>1. \A x \in A : x \in Int
        BY <2>4, <2>5
      <3>2. Min(A) \in Int /\ Max(A) \in Int
        BY <2>7, <3>1
      <3>3. \A x \in A : x \in Min(A)..Max(A)
        BY <2>7, <3>1, <3>2
      <3> QED
        BY <2>3, <3>2, <3>3 DEF Within
    <2>9. OverallScore(evals, weight) \in Min(A)..Max(A)
      BY <2>1, <2>6, <2>8, OverallBetween
    <2> QED
      BY <2>2, <2>9 DEF A
  <1> QED
    BY <1>1, FiguresInvariant, PTL
=============================================================================
