-------------------------- MODULE PreparationProofs --------------------------
(***************************************************************************)
(* What holds of resumes, files, readiness rows and plans for any number   *)
(* of resumes, requests, tabs' fetches, profiles and catalogs.             *)
(* First the invariant of the server (Inv), then the types of the server   *)
(* and of the tab on top of it (AllTyped), last the plans' immutability.   *)
(***************************************************************************)
EXTENDS PreparationPages, WellFoundedInduction, FiniteSetTheorems, TLAPS

RowFields == {"life", "active", "status", "profile", "gap"}

RequestFields == {"op", "phase", "id", "was", "seen", "pick", "loaded", "made", "draft"}

IsRow(row) == RowFields \subseteq DOMAIN row /\ row.active \in BOOLEAN

IsRequest(request) == RequestFields \subseteq DOMAIN request

WorldShape == "extracted" \in DOMAIN world /\ world.extracted \subseteq Profiles

RowShapes == DOMAIN rows = Ids /\ \A r \in Ids : IsRow(rows[r])

RequestShapes == DOMAIN req = Requests /\ \A q \in Requests : IsRequest(req[q])

Shapes == RowShapes /\ DOMAIN jobs = Ids /\ RequestShapes /\ WorldShape

\* The file of a resume that is being stored is there, and its row is not yet.
Uploading(q) ==
    req[q].op = "upload" =>
        req[q].id \in Ids \cap files /\ rows[req[q].id].life = "none"

UploadsApart ==
    \A p, q \in Requests :
        req[p].op = "upload" /\ req[q].op = "upload" /\ p # q => req[p].id # req[q].id

\* A deletion removes the file of a row that is gone.
Deleting(q) ==
    req[q].op = "delete" =>
        /\ req[q].id \in Ids
        /\ rows[req[q].id].life # "none"
        /\ req[q].pick \in 0..MaxResumes
        /\ req[q].pick # req[q].id
        /\ req[q].phase \in {"files", "vectors"} => rows[req[q].id].life = "gone"

\* A readiness is computed from the profile its resume still has.
Computing(q) ==
    req[q].op = "readiness" =>
        /\ req[q].id \in Ids
        /\ rows[req[q].id].life # "none"
        /\ req[q].id \in Live =>
               /\ rows[req[q].id].status = "done"
               /\ \E role : req[q].made = GapOf(rows[req[q].id].profile, role)

\* What a plan was made from; its resume may have been deleted.
Grounded(plan) ==
    /\ plan.resume \in 0..MaxResumes
    /\ plan.resume # 0 => rows[plan.resume].life # "none"
    /\ plan.resume # 0 /\ plan.resume \in Live =>
           /\ rows[plan.resume].status = "done"
           /\ plan.snapshot.skills = Skills(rows[plan.resume].profile)
    /\ ResumeRequired(plan.mode, plan.rounds) => plan.resume # 0
    /\ Templates[plan.template] = plan.role
    /\ Roles[plan.role] = plan.company
    /\ plan.template \in DOMAIN catalog.templates

Planning(q) ==
    req[q].op = "plan" =>
        /\ req[q].phase = "template" => req[q].draft.ask.template \in DOMAIN catalog.templates
        /\ req[q].phase = "drafted" => Grounded(req[q].draft)

RequestOK(q) == Uploading(q) /\ Deleting(q) /\ Computing(q) /\ Planning(q)

\* The analysis of a resume is not done twice, and what it stored stays.
Finished == {"indexing", "embedding", "ended", "died"}

DoneOnce ==
    \A r \in Ids :
        rows[r].status = "done" =>
            jobs[r] \in Finished /\ (r \in Live => rows[r].profile \in Profiles)

ActiveOnce == \A a, b \in Active : a = b

\* One deletion after another leaves an active resume: it still knows whether there is one
\* besides the resume it deletes.
DeletesAlone ==
    "delete" \notin overlapped =>
        /\ \A p, q \in Requests : req[p].op = "delete" /\ req[q].op = "delete" => p = q
        /\ Live # {} => Active # {}
        /\ \A q \in Requests :
              req[q].op = "delete" =>
                  /\ req[q].phase = "read" /\ ~req[q].was => req[q].id \notin Active
                  /\ req[q].phase = "picked" /\ req[q].pick = 0 =>
                         Live \ {req[q].id} = {} \/ Active \ {req[q].id} # {}

\* One readiness after another: each has loaded the row that it replaces.
ReadinessAlone ==
    "readiness" \notin overlapped =>
        /\ \A p, q \in Requests : req[p].op = "readiness" /\ req[q].op = "readiness" => p = q
        /\ \A q \in Requests :
              req[q].op = "readiness" /\ req[q].id \in Live => req[q].loaded = rows[req[q].id].gap
        /\ \A r \in Live :
              rows[r].gap # NoGap =>
                  /\ rows[r].status = "done"
                  /\ rows[r].gap = GapOf(rows[r].profile, rows[r].gap.role)

PlanKept(plan) ==
    /\ Grounded(plan)
    /\ plan.resume # 0 => plan.resume \in Live
    /\ DOMAIN plan.rounds \subseteq DOMAIN catalog.templates[plan.template].rounds

Inv ==
    /\ Shapes
    /\ \A q \in Requests : RequestOK(q)
    /\ UploadsApart
    /\ FilesKept
    /\ DoneOnce
    /\ ActiveOnce
    /\ DeletesAlone
    /\ ReadinessAlone
    /\ \A plan \in plans : PlanKept(plan)
-----------------------------------------------------------------------------
(* The invariant and what it says. *)

\* The invariant says that the files are there.
LEMMA SaysFilesKept == Inv => FilesKept
  BY DEF Inv

\* Two active resumes would be one.
LEMMA SaysOneActive == Inv => OneActive
  <1> SUFFICES ASSUME Inv
               PROVE  OneActive
    OBVIOUS
  <1>1. Cardinality(Active) <= 1
    <2>1. CASE Active = {}
      BY <2>1, FS_EmptySet
    <2>2. CASE Active # {}
      <3>1. PICK a \in Active : TRUE
        BY <2>2
      <3>2. Active = {a}
        BY <3>1 DEF Inv, ActiveOnce
      <3>3. Cardinality({a}) = 1
        BY FS_Singleton
      <3> QED
        BY <3>2, <3>3
    <2> QED
      BY <2>1, <2>2
  <1> QED
    BY <1>1 DEF OneActive, Inv, DeletesAlone

\* A readiness stands beside an analysis, which has a profile.
LEMMA SaysReadinessWhole == Inv => ReadinessWhole
  BY LibraryAssumption DEF Inv, ReadinessWhole, ReadinessAlone, DoneOnce, Live

\* A plan in the invariant is grounded.
LEMMA SaysPlansGrounded == Inv => PlansGrounded
  BY DEF Inv, PlansGrounded, PlanKept, Grounded, Ready

-----------------------------------------------------------------------------
(* Steps that keep the rows but for what is being analysed. *)

\* Rows stay there and active or not, and what is analysed stays so.
RowsKept ==
    \A r \in Ids :
        /\ rows'[r].life = rows[r].life
        /\ rows'[r].active = rows[r].active
        /\ rows[r].status = "done" => /\ rows'[r].status = "done"
                                      /\ rows'[r].profile = rows[r].profile

\* The catalog loses no template and no round that a plan has.
CatalogKept ==
    /\ DOMAIN catalog.templates \subseteq DOMAIN catalog'.templates
    /\ \A plan \in plans :
          DOMAIN plan.rounds \subseteq DOMAIN catalog.templates[plan.template].rounds =>
              DOMAIN plan.rounds \subseteq DOMAIN catalog'.templates[plan.template].rounds

Quiet(request) == IsRequest(request) /\ request.op = "none"

\* Such a step leaves the resumes there and the active one.
LEMMA LiveKept ==
    ASSUME RowsKept
    PROVE  Live' = Live /\ Active' = Active
  BY DEF RowsKept, Live, Active

\* It leaves what a plan was made from.
LEMMA GroundedKept ==
    ASSUME RowsKept, DOMAIN catalog.templates \subseteq DOMAIN catalog'.templates,
           NEW plan, Grounded(plan)
    PROVE  Grounded(plan)'
  <1>1. plan.resume # 0 => plan.resume \in Ids
    BY DEF Grounded, Ids
  <1>2. Live' = Live
    BY LiveKept
  <1> QED
    BY <1>1, <1>2 DEF Grounded, RowsKept, Live

\* A request that stays as it is stays right.
LEMMA RequestKept ==
    ASSUME RowsKept, DOMAIN catalog.templates \subseteq DOMAIN catalog'.templates,
           files \subseteq files', NEW q \in Requests, RequestOK(q), req'[q] = req[q]
    PROVE  RequestOK(q)'
  <1>1. Live' = Live
    BY LiveKept
  <1>2. Uploading(q)'
    BY DEF RequestOK, Uploading, RowsKept
  <1>3. Deleting(q)'
    BY DEF RequestOK, Deleting, RowsKept
  <1>4. Computing(q)'
    BY <1>1 DEF RequestOK, Computing, RowsKept
  <1>5. Planning(q)'
    BY GroundedKept DEF RequestOK, Planning
  <1> QED
    BY <1>2, <1>3, <1>4, <1>5 DEF RequestOK

\* What is left to show of a step that keeps rows, plans and catalog.
LEMMA RowsKeptInv ==
    ASSUME Inv, RowsKept, CatalogKept, files \subseteq files', UNCHANGED plans,
           Shapes', DoneOnce', UploadsApart', DeletesAlone', ReadinessAlone',
           \A q \in Requests : req'[q] = req[q] \/ RequestOK(q)'
    PROVE  Inv'
  <1>1. Live' = Live /\ Active' = Active
    BY LiveKept
  <1>2. \A q \in Requests : RequestOK(q)'
    BY RequestKept DEF Inv, CatalogKept
  <1>3. FilesKept' /\ ActiveOnce'
    BY <1>1 DEF Inv, FilesKept, ActiveOnce
  <1>4. ASSUME NEW plan \in plans
        PROVE  PlanKept(plan)'
    <2>1. PlanKept(plan)
      BY DEF Inv
    <2>2. Grounded(plan)'
      BY <2>1, GroundedKept DEF PlanKept, CatalogKept
    <2> QED
      BY <1>1, <2>1, <2>2 DEF PlanKept, CatalogKept
  <1> QED
    BY <1>2, <1>3, <1>4 DEF Inv

\* Requests end, jobs go on, and the catalog is seeded.
LEMMA KeepInv ==
    ASSUME Inv, RowsKept, CatalogKept, files \subseteq files', UNCHANGED <<plans, overlapped>>,
           Shapes', DoneOnce', \A r \in Ids : rows'[r].gap = rows[r].gap,
           \A q \in Requests : req'[q] = req[q] \/ Quiet(req'[q])
    PROVE  Inv'
  <1>1. Live' = Live /\ Active' = Active
    BY LiveKept
  <1>2. \A q \in Requests : req'[q].op # "none" => req'[q] = req[q]
    BY DEF Quiet
  <1>3. UploadsApart'
    BY <1>2 DEF Inv, UploadsApart
  <1>4. DeletesAlone'
    BY <1>1, <1>2 DEF Inv, DeletesAlone
  <1>5. ReadinessAlone'
    <2> SUFFICES ASSUME "readiness" \notin overlapped
                 PROVE  ReadinessAlone'
      BY DEF ReadinessAlone
    <2>1. \A r \in Live : r \in Ids
      BY DEF Live
    <2> QED
      BY <1>1, <1>2, <2>1 DEF Inv, ReadinessAlone, RowsKept
  <1>6. \A q \in Requests : Quiet(req'[q]) => RequestOK(q)'
    BY DEF Quiet, RequestOK, Uploading, Deleting, Computing, Planning
  <1> QED
    BY <1>3, <1>4, <1>5, <1>6, RowsKeptInv

\* The world changes in what is still to come.
LEMMA MishapShape == WorldShape /\ (Mishap \/ UNCHANGED world) => WorldShape'
  BY DEF WorldShape, Mishap

\* A free slot, and one whose request has ended.
LEMMA IdleIsQuiet ==
    ASSUME NEW outcome
    PROVE  Quiet(Idle) /\ Quiet([Idle EXCEPT !.phase = outcome])
  BY DEF Quiet, IsRequest, RequestFields, Idle

\* A request that ends leaves a quiet slot and the others alone.
LEMMA Finishing ==
    ASSUME RequestShapes, NEW q \in Requests, NEW outcome, Finish(q, outcome)
    PROVE  /\ RequestShapes'
           /\ \A p \in Requests : req'[p] = req[p] \/ Quiet(req'[p])
  <1> DEFINE e == IF q = Mine THEN [Idle EXCEPT !.phase = outcome] ELSE Idle
  <1>1. Quiet(e)
    BY IdleIsQuiet
  <1>2. req' = [req EXCEPT ![q] = e]
    BY DEF Finish
  <1> HIDE DEF e
  <1> QED
    BY <1>1, <1>2 DEF RequestShapes, Quiet

\* An unchanged catalog is kept,
LEMMA CatalogUntouched == UNCHANGED catalog => CatalogKept
  BY DEF CatalogKept

\* and so are unchanged rows.
LEMMA RowsUntouched == UNCHANGED rows => RowsKept
  BY DEF RowsKept

\* A request ends and changes nothing but files or vectors it adds or removes.
LEMMA FinishInv ==
    ASSUME Inv, NEW q \in Requests, NEW outcome, Finish(q, outcome),
           UNCHANGED <<rows, jobs, overlapped, plans, catalog>>, files \subseteq files',
           Mishap \/ UNCHANGED world
    PROVE  Inv'
  <1>1. /\ RequestShapes'
        /\ \A p \in Requests : req'[p] = req[p] \/ Quiet(req'[p])
    BY Finishing DEF Inv, Shapes
  <1>2. Shapes'
    BY <1>1, MishapShape DEF Inv, Shapes, RowShapes
  <1>3. DoneOnce'
    BY DEF Inv, DoneOnce, Live
  <1> QED
    BY <1>1, <1>2, <1>3, KeepInv, CatalogUntouched, RowsUntouched

\* The pages' own steps.
LEMMA PageInv ==
    ASSUME Inv, UNCHANGED <<libraryVars, req, plans, catalog>>, Mishap \/ UNCHANGED world
    PROVE  Inv'
  <1>1. UNCHANGED <<rows, files, jobs, overlapped>>
    BY DEF libraryVars
  <1>2. Shapes'
    BY <1>1, MishapShape DEF Inv, Shapes, RowShapes, RequestShapes
  <1>3. DoneOnce'
    BY <1>1 DEF Inv, DoneOnce, Live
  <1> QED
    BY <1>1, <1>2, <1>3, KeepInv, CatalogUntouched, RowsUntouched

\* The tab takes its answer.
LEMMA TabAnsweredInv ==
    ASSUME Inv, TabAnswered
    PROVE  Inv'
  <1>1. /\ UNCHANGED <<world, rows, files, jobs, overlapped, plans, catalog>>
        /\ req' = [req EXCEPT ![Mine] = Idle]
    BY DEF TabAnswered, libraryVars
  <1>2. RequestShapes' /\ \A p \in Requests : req'[p] = req[p] \/ Quiet(req'[p])
    BY <1>1, IdleIsQuiet DEF Inv, Shapes, RequestShapes, Quiet
  <1>3. Shapes'
    BY <1>1, <1>2 DEF Inv, Shapes, RowShapes, WorldShape
  <1>4. DoneOnce'
    BY <1>1 DEF Inv, DoneOnce, Live
  <1> QED
    BY <1>1, <1>2, <1>3, <1>4, KeepInv, CatalogUntouched, RowsUntouched

\* A crash quiets every slot and ends every job.
LEMMA CrashInv ==
    ASSUME Inv, Crash, UNCHANGED catalog
    PROVE  Inv'
  <1>1. /\ UNCHANGED <<rows, files, overlapped, plans, catalog>> /\ Mishap
        /\ req' = [q \in Requests |->
                  CASE req[q].op = "none" -> req[q]
                    [] q = Mine -> [Idle EXCEPT !.phase = "failed"]
                    [] OTHER -> Idle]
        /\ jobs' = [r \in Ids |-> IF jobs[r] \in {"none", "ended", "died"} THEN jobs[r]
                                  ELSE "died"]
    BY DEF Crash
  <1>2. \A p \in Requests : \/ req'[p] = req[p]
                            \/ req'[p] = Idle
                            \/ req'[p] = [Idle EXCEPT !.phase = "failed"]
    <2> SUFFICES ASSUME NEW p \in Requests
                 PROVE  \/ req'[p] = req[p]
                        \/ req'[p] = Idle
                        \/ req'[p] = [Idle EXCEPT !.phase = "failed"]
      OBVIOUS
    <2>1. CASE req[p].op = "none"
      BY <1>1, <2>1
    <2>2. CASE req[p].op # "none" /\ p = Mine
      BY <1>1, <2>2
    <2>3. CASE req[p].op # "none" /\ p # Mine
      BY <1>1, <2>3
    <2> QED
      BY <2>1, <2>2, <2>3
  <1>3. \A p \in Requests : req'[p] = req[p] \/ Quiet(req'[p])
    BY <1>2, IdleIsQuiet
  <1>4. DOMAIN req' = Requests
    BY <1>1
  <1>5. Shapes'
    BY <1>1, <1>3, <1>4, MishapShape DEF Inv, Shapes, RowShapes, RequestShapes, Quiet
  <1>6. DoneOnce'
    BY <1>1 DEF Inv, DoneOnce, Live, Finished
  <1> QED
    BY <1>1, <1>3, <1>5, <1>6, KeepInv, CatalogUntouched, RowsUntouched

-----------------------------------------------------------------------------
(* The jobs. *)

\* A job's commit, for a resume that is not analysed yet or whose row stays.
LEMMA JobCommitInv ==
    ASSUME Inv, NEW r \in Ids, NEW row, NEW stage, JobCommit(r, row, stage),
           UNCHANGED <<world, files, req, overlapped, plans, catalog>>,
           IsRow(row), row.life = rows[r].life, row.active = rows[r].active,
           row.gap = rows[r].gap,
           rows[r].status = "done" => row = rows[r] /\ stage \in Finished,
           row.status = "done" => stage \in Finished /\ row.profile \in Profiles
    PROVE  Inv'
  <1>1. \/ r \in Live /\ rows' = [rows EXCEPT ![r] = row] /\ jobs' = [jobs EXCEPT ![r] = stage]
        \/ r \notin Live /\ UNCHANGED rows /\ jobs' = [jobs EXCEPT ![r] = "ended"]
    BY DEF JobCommit
  <1>2. RowsKept /\ \A x \in Ids : rows'[x].gap = rows[x].gap
    BY <1>1 DEF RowsKept, Inv, Shapes, RowShapes
  <1>3. Shapes'
    BY <1>1 DEF Inv, Shapes, RowShapes, RequestShapes, WorldShape
  <1>4. DoneOnce'
    <2>1. Live' = Live
      BY <1>2, LiveKept
    <2> QED
      BY <1>1, <2>1 DEF Inv, DoneOnce, Shapes, RowShapes, Finished
  <1> QED
    BY <1>2, <1>3, <1>4, KeepInv, CatalogUntouched

\* A job that moves on.
LEMMA JobStageInv ==
    ASSUME Inv, NEW r \in Ids, NEW stage \in Finished, jobs' = [jobs EXCEPT ![r] = stage],
           UNCHANGED <<world, rows, files, req, overlapped, plans, catalog>>
    PROVE  Inv'
  <1>1. Shapes'
    BY DEF Inv, Shapes, RowShapes, RequestShapes, WorldShape
  <1>2. DoneOnce'
    BY DEF Inv, DoneOnce, Live, Shapes
  <1> QED
    BY <1>1, <1>2, KeepInv, CatalogUntouched, RowsUntouched

\* Every step of a job: only an unfinished one stores an analysis.
LEMMA JobInv ==
    ASSUME Inv, NEW r \in Ids, JobStep(r), UNCHANGED catalog
    PROVE  Inv'
  <1>1. IsRow(rows[r])
    BY DEF Inv, Shapes, RowShapes
  <1>2. ASSUME NEW status
        PROVE  LET row == WithStatus(r, status)
               IN  /\ IsRow(row) /\ row.life = rows[r].life /\ row.active = rows[r].active
                   /\ row.gap = rows[r].gap /\ row.status = status
    BY <1>1 DEF WithStatus, IsRow, RowFields
  <1>3. jobs[r] \notin Finished => rows[r].status # "done"
    BY DEF Inv, DoneOnce
  <1>4. CASE JobStart(r)
    <2>1. jobs[r] = "queued" /\ JobCommit(r, WithStatus(r, "processing"), "reading")
      BY <1>4 DEF JobStart
    <2> QED
      BY <1>2, <1>3, <1>4, <2>1, JobCommitInv DEF JobStart, Finished
  <1>5. CASE JobRead(r)
    <2>1. jobs[r] = "reading" /\ rows[r].status # "done"
      BY <1>3, <1>5 DEF JobRead, Finished
    <2>2. CASE JobCommit(r, rows[r], "asking")
      BY <1>1, <1>5, <2>1, <2>2, JobCommitInv DEF JobRead
    <2>3. CASE JobCommit(r, WithStatus(r, "failed"), "ended")
      BY <1>2, <1>5, <2>1, <2>3, JobCommitInv DEF JobRead
    <2> QED
      BY <1>5, <2>2, <2>3 DEF JobRead
  <1>6. CASE JobAsk(r)
    <2>1. jobs[r] = "asking" /\ rows[r].status # "done"
      BY <1>3, <1>6 DEF JobAsk, Finished
    <2>2. ASSUME NEW p \in world.extracted,
                 JobCommit(r, [WithStatus(r, "done") EXCEPT !.profile = p], "indexing")
          PROVE  Inv'
      <3> DEFINE row == [WithStatus(r, "done") EXCEPT !.profile = p]
      <3>1. p \in Profiles
        BY DEF Inv, Shapes, WorldShape
      <3>2. /\ IsRow(row) /\ row.life = rows[r].life /\ row.active = rows[r].active
            /\ row.gap = rows[r].gap /\ row.profile = p
        BY <1>2 DEF IsRow, RowFields
      <3> HIDE DEF row
      <3> QED
        BY <1>6, <2>1, <2>2, <3>1, <3>2, JobCommitInv DEF JobAsk, Finished, row
    <2>3. CASE jobs' = [jobs EXCEPT ![r] = "died"] /\ UNCHANGED rows
      BY <1>6, <2>3, JobStageInv DEF JobAsk, Finished
    <2>4. CASE JobCommit(r, WithStatus(r, "failed"), "ended")
      BY <1>2, <1>6, <2>1, <2>4, JobCommitInv DEF JobAsk
    <2> QED
      BY <1>6, <2>2, <2>3, <2>4 DEF JobAsk
  <1>7. CASE JobIndex(r)
    <2>1. jobs' = [jobs EXCEPT ![r] = "embedding"] \/ jobs' = [jobs EXCEPT ![r] = "ended"]
      BY <1>7 DEF JobIndex
    <2> QED
      BY <1>7, <2>1, JobStageInv DEF JobIndex, Finished
  <1>8. CASE JobEmbed(r)
    BY <1>8, JobStageInv DEF JobEmbed, Finished
  <1> QED
    BY <1>4, <1>5, <1>6, <1>7, <1>8 DEF JobStep
-----------------------------------------------------------------------------
(* The seeding of the catalog. *)

\* A template that plans refer to keeps the rounds they have.
LEMMA SeededKeeps ==
    ASSUME NEW t \in DOMAIN catalog.templates, NEW new, "rounds" \in DOMAIN new,
           NEW plan \in plans, plan.template = t,
           DOMAIN plan.rounds \subseteq DOMAIN catalog.templates[t].rounds
    PROVE  DOMAIN plan.rounds \subseteq DOMAIN SeededTemplate(t, new).rounds
  <1> DEFINE old == catalog.templates[t].rounds
             kept == SeededRounds(t, old, new.rounds)
  <1>1. DOMAIN plan.rounds \subseteq InUse(t)
    BY DEF InUse
  <1>2. DOMAIN old \cap InUse(t) \subseteq DOMAIN kept
    BY DEF SeededRounds, Restrict, Upserted
  <1>3. SeededTemplate(t, new).rounds = kept
    <2>1. SeededTemplate(t, new) = [new EXCEPT !.rounds = kept]
      BY DEF SeededTemplate
    <2> HIDE DEF kept
    <2> QED
      BY <2>1
  <1> HIDE DEF kept
  <1> QED
    BY <1>1, <1>2, <1>3

\* Seeding the catalog keeps the rounds that plans refer to.
LEMMA SeedInv ==
    ASSUME Inv, NEW v \in DOMAIN Releases, SeedCatalog(v)
    PROVE  Inv'
  <1> DEFINE file == Releases[v]
             seeded == [t \in DOMAIN file.templates |-> SeededTemplate(t, file.templates[t])]
  <1>1. \A t \in DOMAIN file.templates : "rounds" \in DOMAIN file.templates[t]
    BY PlanningAssumption DEF IsRelease
  <1>2. /\ catalog'.templates = Upserted(seeded, catalog.templates)
        /\ world' = [world EXCEPT !.releases = @ \ {v}]
        /\ UNCHANGED <<rows, files, jobs, overlapped, req, plans>>
    BY DEF SeedCatalog, libraryVars
  <1>3. \A t \in DOMAIN seeded : t \in DOMAIN file.templates
                                 /\ seeded[t] = SeededTemplate(t, file.templates[t])
    OBVIOUS
  <1> HIDE DEF seeded, file
  <1>4. /\ DOMAIN catalog'.templates = DOMAIN seeded \cup DOMAIN catalog.templates
        /\ \A t \in DOMAIN catalog'.templates :
              catalog'.templates[t] = IF t \in DOMAIN seeded THEN seeded[t]
                                      ELSE catalog.templates[t]
    BY <1>2 DEF Upserted
  <1>5. ASSUME NEW plan \in plans,
               DOMAIN plan.rounds \subseteq DOMAIN catalog.templates[plan.template].rounds
        PROVE  DOMAIN plan.rounds \subseteq DOMAIN catalog'.templates[plan.template].rounds
    <2> DEFINE t == plan.template
    <2>1. t \in DOMAIN catalog.templates
      BY DEF Inv, PlanKept, Grounded
    <2>2. CASE t \in DOMAIN seeded
      <3>1. catalog'.templates[t] = SeededTemplate(t, file.templates[t])
            /\ "rounds" \in DOMAIN file.templates[t]
        BY <1>1, <1>3, <1>4, <2>2
      <3> QED
        BY <1>5, <2>1, <3>1, SeededKeeps
    <2>3. CASE t \notin DOMAIN seeded
      BY <1>4, <1>5, <2>1, <2>3
    <2> QED
      BY <2>2, <2>3
  <1>6. CatalogKept
    BY <1>4, <1>5 DEF CatalogKept
  <1>7. Shapes'
    BY <1>2 DEF Inv, Shapes, RowShapes, RequestShapes, WorldShape
  <1>8. DoneOnce'
    BY <1>2 DEF Inv, DoneOnce, Live
  <1> QED
    BY <1>2, <1>6, <1>7, <1>8, KeepInv, RowsUntouched

-----------------------------------------------------------------------------
(* A request goes on. *)

\* One slot changes, and files are added.
LEMMA SlotInv ==
    ASSUME Inv, NEW q \in Requests, NEW e, req' = [req EXCEPT ![q] = e], IsRequest(e),
           UNCHANGED <<world, rows, jobs, plans, catalog>>, files \subseteq files',
           RequestOK(q)', UploadsApart', DeletesAlone', ReadinessAlone'
    PROVE  Inv'
  <1>1. Shapes'
    BY DEF Inv, Shapes, RowShapes, RequestShapes, WorldShape
  <1>2. DoneOnce'
    BY DEF Inv, DoneOnce, Live
  <1>3. \A p \in Requests : req'[p] = req[p] \/ RequestOK(p)'
    BY DEF Inv, Shapes, RequestShapes
  <1> QED
    BY <1>1, <1>2, <1>3, RowsKeptInv, CatalogUntouched, RowsUntouched

\* The other slots in such a step.
LEMMA OtherSlots ==
    ASSUME RequestShapes, NEW q \in Requests, NEW e, req' = [req EXCEPT ![q] = e]
    PROVE  req'[q] = e /\ \A p \in Requests : p # q => req'[p] = req[p]
  BY DEF RequestShapes

\* Uploads: a file under a new id, then the rows to deactivate are read.
LEMMA UploadSaveInv ==
    ASSUME Inv, NEW q \in Requests, UploadSave(q), UNCHANGED catalog
    PROVE  Inv'
  <1>1. PICK id \in Ids :
            /\ Fresh(id)
            /\ files' = files \cup {id}
            /\ req' = [req EXCEPT ![q] = [Idle EXCEPT !.op = "upload", !.phase = "saved",
                                                      !.id = id]]
    BY DEF UploadSave
  <1>2. UNCHANGED <<world, rows, jobs, overlapped, plans>> /\ req[q] = Idle
    BY DEF UploadSave
  <1> DEFINE e == [Idle EXCEPT !.op = "upload", !.phase = "saved", !.id = id]
  <1>3. IsRequest(e) /\ e.op = "upload" /\ e.id = id
    BY DEF IsRequest, RequestFields, Idle
  <1>4. req' = [req EXCEPT ![q] = e]
    BY <1>1
  <1> HIDE DEF e
  <1>5. req'[q] = e /\ \A p \in Requests : p # q => req'[p] = req[p]
    BY <1>4, OtherSlots DEF Inv, Shapes
  <1>6. id \notin files /\ rows[id].life = "none"
    BY <1>1 DEF Fresh, Used
  <1>7. RequestOK(q)'
    BY <1>1, <1>2, <1>3, <1>5, <1>6
       DEF RequestOK, Uploading, Deleting, Computing, Planning
  <1>8. UploadsApart'
    BY <1>3, <1>5, <1>6 DEF Inv, UploadsApart, RequestOK, Uploading
  <1>9. DeletesAlone' /\ ReadinessAlone'
    BY <1>2, <1>3, <1>5 DEF Inv, DeletesAlone, ReadinessAlone, Live, Active
  <1> QED
    BY <1>1, <1>2, <1>3, <1>4, <1>7, <1>8, <1>9, SlotInv

\* The rows to deactivate are read.
LEMMA DeactivateInv ==
    ASSUME Inv, NEW q \in Requests, Deactivate(q), UNCHANGED catalog
    PROVE  Inv'
  <1> DEFINE e == [req[q] EXCEPT !.phase = "inserting", !.seen = Live]
  <1>1. /\ req[q].op = "upload" /\ req' = [req EXCEPT ![q] = e]
        /\ UNCHANGED <<world, rows, files, jobs, overlapped, plans>>
    BY DEF Deactivate, libraryVars
  <1>2. IsRequest(e) /\ e.op = "upload" /\ e.id = req[q].id
    <2>1. IsRequest(req[q])
      BY DEF Inv, Shapes, RequestShapes
    <2> QED
      BY <1>1, <2>1 DEF IsRequest, RequestFields
  <1> HIDE DEF e
  <1>3. req'[q] = e /\ \A p \in Requests : p # q => req'[p] = req[p]
    BY <1>1, OtherSlots DEF Inv, Shapes
  <1>4. RequestOK(q)'
    BY <1>1, <1>2, <1>3 DEF Inv, RequestOK, Uploading, Deleting, Computing, Planning
  <1>5. UploadsApart'
    BY <1>1, <1>2, <1>3 DEF Inv, UploadsApart
  <1>6. DeletesAlone' /\ ReadinessAlone'
    BY <1>1, <1>2, <1>3 DEF Inv, DeletesAlone, ReadinessAlone, Live, Active
  <1> QED
    BY <1>1, <1>2, <1>4, <1>5, <1>6, SlotInv

\* The insert takes the place of the resumes that were active.
LEMMA UploadCommitInv ==
    ASSUME Inv, NEW q \in Requests, UploadCommit(q), UNCHANGED catalog
    PROVE  Inv'
  <1> DEFINE id == req[q].id
             deactivated == [r \in Ids |-> IF r \in req[q].seen /\ r \in Live
                                           THEN [rows[r] EXCEPT !.active = FALSE] ELSE rows[r]]
  <1>1. req[q].op = "upload" /\ UNCHANGED <<world, files, overlapped, plans>>
    BY DEF UploadCommit
  <1>2. CASE Finish(q, "failed") /\ UNCHANGED <<rows, jobs>>
    BY <1>1, <1>2, FinishInv
  <1>3. ASSUME Active \subseteq req[q].seen,
               rows' = [deactivated EXCEPT ![id] = Uploaded],
               jobs' = [jobs EXCEPT ![id] = "queued"],
               Finish(q, "ok")
        PROVE  Inv'
    <2>1. id \in Ids /\ id \in files /\ rows[id].life = "none"
      BY <1>1 DEF Inv, RequestOK, Uploading
    <2>2. RequestShapes' /\ \A p \in Requests : req'[p] = req[p] \/ Quiet(req'[p])
      BY <1>3, Finishing DEF Inv, Shapes
    <2>3. req'[q].op = "none"
      <3>1. req' = [req EXCEPT ![q] = IF q = Mine THEN [Idle EXCEPT !.phase = "ok"] ELSE Idle]
        BY <1>3 DEF Finish
      <3>2. Quiet(req'[q])
        BY <3>1, IdleIsQuiet DEF Inv, Shapes, RequestShapes
      <3> QED
        BY <3>2 DEF Quiet
    <2>4. /\ IsRow(Uploaded) /\ Uploaded.life = "live" /\ Uploaded.active = TRUE
          /\ Uploaded.status = "pending" /\ Uploaded.gap = NoGap
      BY DEF Uploaded, Absent, IsRow, RowFields
    <2>5. rows'[id] = Uploaded
      BY <1>3, <2>1
    <2>6. ASSUME NEW r \in Ids, r # id
          PROVE  /\ IsRow(rows'[r])
                 /\ rows'[r].life = rows[r].life /\ rows'[r].status = rows[r].status
                 /\ rows'[r].profile = rows[r].profile /\ rows'[r].gap = rows[r].gap
                 /\ rows[r].life = "live" => ~rows'[r].active
      <3>1. \/ r \in req[q].seen /\ r \in Live /\ rows'[r] = [rows[r] EXCEPT !.active = FALSE]
            \/ ~(r \in req[q].seen /\ r \in Live) /\ rows'[r] = rows[r]
        BY <1>3, <2>6
      <3>2. IsRow(rows[r])
        BY DEF Inv, Shapes, RowShapes
      <3>3. CASE rows'[r] = [rows[r] EXCEPT !.active = FALSE]
        BY <3>2, <3>3 DEF IsRow, RowFields
      <3>4. CASE ~(r \in req[q].seen /\ r \in Live) /\ rows'[r] = rows[r]
        BY <1>3, <3>2, <3>4 DEF Live, Active
      <3> QED
        BY <3>1, <3>3, <3>4
    <2>7. DOMAIN rows' = Ids
      BY <1>3
    <2>8. Live' = Live \cup {id} /\ Active' = {id} /\ id \notin Live
      BY <2>1, <2>4, <2>5, <2>6 DEF Live, Active
    <2>9. Shapes'
      BY <1>1, <1>3, <2>2, <2>4, <2>5, <2>6, <2>7 DEF Inv, Shapes, RowShapes, WorldShape
    <2>10. ASSUME NEW plan, Grounded(plan)
           PROVE  Grounded(plan)'
      <3>1. plan.resume # 0 => plan.resume \in Ids /\ plan.resume # id
        BY <2>1, <2>10 DEF Grounded, Ids
      <3> QED
        BY <2>6, <2>8, <2>10, <3>1 DEF Grounded
    <2>11. ASSUME NEW p \in Requests
           PROVE  RequestOK(p)'
      <3>1. CASE req'[p].op = "none"
        BY <3>1 DEF RequestOK, Uploading, Deleting, Computing, Planning
      <3>2. CASE req'[p].op # "none"
        <4>1. p # q /\ req'[p] = req[p] /\ RequestOK(p)
          BY <2>2, <2>3, <3>2 DEF Quiet, Inv
        <4>2. Uploading(p)'
          BY <1>1, <2>6, <4>1 DEF RequestOK, Uploading, Inv, UploadsApart
        <4>3. Deleting(p)'
          BY <2>1, <2>6, <4>1 DEF RequestOK, Deleting
        <4>4. Computing(p)'
          BY <2>1, <2>6, <2>8, <4>1 DEF RequestOK, Computing
        <4>5. Planning(p)'
          BY <2>10, <4>1 DEF RequestOK, Planning
        <4> QED
          BY <4>2, <4>3, <4>4, <4>5 DEF RequestOK
      <3> QED
        BY <3>1, <3>2
    <2>12. \A p \in Requests : req'[p].op # "none" => p # q /\ req'[p] = req[p]
      BY <2>2, <2>3 DEF Quiet
    <2>13. UploadsApart'
      BY <2>12 DEF Inv, UploadsApart
    <2>14. FilesKept' /\ ActiveOnce'
      BY <1>1, <2>1, <2>8 DEF Inv, FilesKept, ActiveOnce
    <2>15. DoneOnce'
      BY <1>3, <2>1, <2>4, <2>5, <2>6, <2>8 DEF Inv, Shapes, DoneOnce
    <2>16. DeletesAlone'
      <3>1. \A p \in Requests : req[p].op = "delete" => req[p].id # id
        BY <2>1 DEF Inv, RequestOK, Deleting
      <3> QED
        BY <1>1, <2>8, <2>12, <3>1 DEF Inv, DeletesAlone
    <2>17. ReadinessAlone'
      <3> SUFFICES ASSUME "readiness" \notin overlapped
                   PROVE  ReadinessAlone'
        BY <1>1 DEF ReadinessAlone
      <3>1. \A r \in Live : r \in Ids /\ r # id
        BY <2>8 DEF Live
      <3>2. \A p \in Requests : req[p].op = "readiness" => req[p].id \in Ids \ {id}
        BY <2>1 DEF Inv, RequestOK, Computing
      <3>3. \A x, y \in Requests :
               req'[x].op = "readiness" /\ req'[y].op = "readiness" => x = y
        BY <2>12 DEF Inv, ReadinessAlone
      <3>4. \A p \in Requests :
               req'[p].op = "readiness" /\ req'[p].id \in Live' =>
                   req'[p].loaded = rows'[req'[p].id].gap
        BY <2>6, <2>8, <2>12, <3>2 DEF Inv, ReadinessAlone
      <3>5. \A r \in Live' :
               rows'[r].gap # NoGap =>
                   /\ rows'[r].status = "done"
                   /\ rows'[r].gap = GapOf(rows'[r].profile, rows'[r].gap.role)
        BY <2>4, <2>5, <2>6, <2>8, <3>1 DEF Inv, ReadinessAlone
      <3> QED
        BY <3>3, <3>4, <3>5 DEF ReadinessAlone
    <2>18. ASSUME NEW plan \in plans
           PROVE  PlanKept(plan)'
      BY <2>8, <2>10 DEF Inv, PlanKept
    <2> QED
      BY <1>1, <2>9, <2>11, <2>13, <2>14, <2>15, <2>16, <2>17, <2>18 DEF Inv
  <1> QED
    BY <1>2, <1>3 DEF UploadCommit

-----------------------------------------------------------------------------
(* Deletions. *)

\* A deletion reads whether its resume is active.
LEMMA DeleteReadInv ==
    ASSUME Inv, NEW q \in Requests, NEW r, DeleteRead(q, r), UNCHANGED catalog
    PROVE  Inv'
  <1> DEFINE e == [Idle EXCEPT !.op = "delete", !.phase = "read", !.id = r,
                               !.was = rows[r].active]
  <1>1. /\ r \in Live /\ r \in Ids /\ req' = [req EXCEPT ![q] = e]
        /\ UNCHANGED <<world, rows, files, jobs, plans>>
        /\ Overlap(q, "delete")
    BY DEF DeleteRead, Live
  <1>2. /\ IsRequest(e) /\ e.op = "delete" /\ e.phase = "read" /\ e.id = r
        /\ e.was = rows[r].active /\ e.pick = 0
    BY DEF IsRequest, RequestFields, Idle
  <1> HIDE DEF e
  <1>3. req'[q] = e /\ \A p \in Requests : p # q => req'[p] = req[p]
    BY <1>1, OtherSlots DEF Inv, Shapes
  <1>4. RequestOK(q)'
    BY <1>1, <1>2, <1>3, LibraryAssumption
       DEF RequestOK, Uploading, Deleting, Computing, Planning, Live, Ids
  <1>5. UploadsApart'
    BY <1>2, <1>3 DEF Inv, UploadsApart
  <1>6. Live' = Live /\ Active' = Active
    BY <1>1 DEF Live, Active
  <1>7. DeletesAlone'
    <2> SUFFICES ASSUME "delete" \notin overlapped'
                 PROVE  DeletesAlone'
      BY DEF DeletesAlone
    <2>1. "delete" \notin overlapped /\ \A p \in Requests : p # q => req[p].op # "delete"
      BY <1>1 DEF Overlap
    <2>2. \A p \in Requests : req'[p].op = "delete" => p = q
      BY <1>3, <2>1
    <2>3. r \in Active <=> rows[r].active
      BY <1>1 DEF Active
    <2> QED
      BY <1>2, <1>3, <1>6, <2>1, <2>2, <2>3 DEF Inv, DeletesAlone
  <1>8. ReadinessAlone'
    <2>1. "readiness" \in overlapped => "readiness" \in overlapped'
      BY <1>1 DEF Overlap
    <2> QED
      BY <1>1, <1>2, <1>3, <1>6, <2>1 DEF Inv, ReadinessAlone
  <1> QED
    BY <1>1, <1>2, <1>4, <1>5, <1>7, <1>8, SlotInv

\* The latest of some numbers is one of them.
LEMMA Smallest ==
    ASSUME NEW S \in SUBSET Nat, S # {}
    PROVE  \E x \in S : \A y \in S : x <= y
  <1> DEFINE R == OpToRel(<, Nat)
  <1>1. IsWellFoundedOn(R, Nat)
    BY NatLessThanWellFounded
  <1>2. \A x, y \in Nat : y < x => <<y, x>> \in R
    BY DEF OpToRel
  <1> HIDE DEF R
  <1>3. PICK m \in S : \A y \in S : ~(<<y, m>> \in R)
    BY <1>1, WFMin
  <1>4. ASSUME NEW y \in S
        PROVE  m <= y
    <2>1. ~(y < m)
      <3>1. m \in Nat /\ y \in Nat /\ ~(<<y, m>> \in R)
        BY <1>3
      <3> QED
        BY <1>2, <3>1
    <2>2. m \in Nat /\ y \in Nat
      OBVIOUS
    <2> QED
      BY <2>1, <2>2
  <1> QED
    BY <1>4

\* A non-empty set of ids has a largest element.
LEMMA Largest ==
    ASSUME NEW N \in Nat, NEW S \in SUBSET (0..N), S # {}
    PROVE  Max(S) \in S /\ \A y \in S : Max(S) >= y
  <1> DEFINE T == {N - x : x \in S}
  <1>1. T \in SUBSET Nat /\ T # {}
    <2>1. \A x \in S : x \in Nat /\ N - x \in Nat
      OBVIOUS
    <2>2. S # {}
      OBVIOUS
    <2> QED
      BY <2>1, <2>2
  <1>2. \E t \in T : \A y \in T : t <= y
    <2> HIDE DEF T
    <2> QED
      BY <1>1, Smallest
  <1>3. PICK m \in S : \A y \in T : N - m <= y
    BY <1>2
  <1>4. \A y \in S : m >= y
    BY <1>3
  <1> QED
    BY <1>4 DEF Max

\* most_recent_other_resume finds another one if there is one.
LEMMA Successor ==
    ASSUME NEW r
    PROVE  /\ MostRecentOther(r) \in {0} \cup (Live \ {r})
           /\ MostRecentOther(r) = 0 => Live \ {r} = {}
  <1> DEFINE S == {0} \cup (Live \ {r})
  <1>1. S \in SUBSET (0..MaxResumes) /\ S # {}
    BY LibraryAssumption DEF Live, Ids
  <1>2. Max(S) \in S /\ \A y \in S : Max(S) >= y
    <2> HIDE DEF S
    <2> QED
      BY <1>1, Largest, LibraryAssumption
  <1>3. \A y \in Live : y \in Nat /\ y > 0
    BY LibraryAssumption DEF Live, Ids
  <1> QED
    BY <1>2, <1>3 DEF MostRecentOther

\* The successor, when one is needed, is another resume there.
LEMMA DeletePickInv ==
    ASSUME Inv, NEW q \in Requests, DeletePick(q), UNCHANGED catalog
    PROVE  Inv'
  <1> DEFINE other == IF req[q].was THEN MostRecentOther(req[q].id) ELSE 0
             pick == IF other \in Active THEN 0 ELSE other
             e == [req[q] EXCEPT !.phase = "picked", !.pick = pick]
  <1>1. /\ req[q].op = "delete" /\ req[q].phase = "read"
        /\ UNCHANGED <<world, rows, files, jobs, overlapped, plans>>
    BY DEF DeletePick, libraryVars
  <1>2. CASE Finish(q, "failed")
    BY <1>1, <1>2, FinishInv
  <1>3. ASSUME req' = [req EXCEPT ![q] = e]
        PROVE  Inv'
    <2>1. /\ IsRequest(e) /\ e.op = "delete" /\ e.phase = "picked" /\ e.pick = pick
          /\ e.id = req[q].id
      <3> HIDE DEF pick
      <3>1. IsRequest(req[q])
        BY DEF Inv, Shapes, RequestShapes
      <3> QED
        BY <1>1, <3>1 DEF IsRequest, RequestFields
    <2>2. /\ req[q].id \in Ids /\ rows[req[q].id].life # "none"
      BY <1>1 DEF Inv, RequestOK, Deleting
    <2>3. pick \in {0} \cup (Live \ {req[q].id})
      BY Successor
    <2>4. pick \in 0..MaxResumes /\ pick # req[q].id
      BY <2>2, <2>3, LibraryAssumption DEF Live, Ids
    <2>5. \/ ~req[q].was
          \/ Live \ {req[q].id} = {}
          \/ pick # 0
          \/ Active \ {req[q].id} # {}
      <3>1. CASE req[q].was /\ other = 0
        BY <3>1, Successor
      <3>2. CASE req[q].was /\ other # 0
        <4>1. other \in Live \ {req[q].id}
          BY <3>2, Successor
        <4> QED
          BY <3>2, <4>1
      <3> QED
        BY <3>1, <3>2
    <2> HIDE DEF e, pick
    <2>6. req'[q] = e /\ \A p \in Requests : p # q => req'[p] = req[p]
      BY <1>3, OtherSlots DEF Inv, Shapes
    <2>7. RequestOK(q)'
      BY <1>1, <2>1, <2>2, <2>4, <2>6
         DEF RequestOK, Uploading, Deleting, Computing, Planning
    <2>8. UploadsApart'
      BY <2>1, <2>6 DEF Inv, UploadsApart
    <2>9. Live' = Live /\ Active' = Active
      BY <1>1 DEF Live, Active
    <2>10. DeletesAlone'
      <3> SUFFICES ASSUME "delete" \notin overlapped
                   PROVE  DeletesAlone'
        BY <1>1 DEF DeletesAlone
      <3>1. /\ \A p \in Requests : req[p].op = "delete" => p = q
            /\ Live # {} => Active # {}
            /\ ~req[q].was => req[q].id \notin Active
        BY <1>1 DEF Inv, DeletesAlone
      <3>2. pick = 0 => Live \ {req[q].id} = {} \/ Active \ {req[q].id} # {}
        BY <2>5, <3>1
      <3>3. \A p \in Requests : req'[p].op = "delete" => p = q
        BY <2>6, <3>1
      <3> QED
        BY <2>1, <2>6, <2>9, <3>1, <3>2, <3>3 DEF DeletesAlone
    <2>11. ReadinessAlone'
      BY <1>1, <2>1, <2>6, <2>9 DEF Inv, ReadinessAlone
    <2> QED
      BY <1>1, <1>3, <2>1, <2>7, <2>8, <2>10, <2>11, SlotInv
  <1> QED
    BY <1>2, <1>3 DEF DeletePick

\* The commit: the row is gone, and its successor is the active one.
LEMMA DeleteCommitInv ==
    ASSUME Inv, NEW q \in Requests, DeleteCommit(q), UNCHANGED catalog
    PROVE  Inv'
  <1> DEFINE id == req[q].id
             pick == req[q].pick
             e == [req[q] EXCEPT !.phase = "files"]
  <1>1. /\ req[q].op = "delete" /\ req[q].phase = "picked"
        /\ UNCHANGED <<world, files, jobs, overlapped, plans>>
    BY DEF DeleteCommit
  <1>2. CASE Finish(q, "failed") /\ UNCHANGED rows
    BY <1>1, <1>2, FinishInv
  <1>3. ASSUME ~DeleteRefused(id, pick),
               rows' = [r \in Ids |-> CASE r = id -> Deleted(rows[r])
                                        [] r = pick -> [rows[r] EXCEPT !.active = TRUE]
                                        [] OTHER -> rows[r]],
               req' = [req EXCEPT ![q] = e]
        PROVE  Inv'
    <2>1. id \in Ids /\ rows[id].life # "none" /\ pick \in 0..MaxResumes /\ pick # id
      BY <1>1 DEF Inv, RequestOK, Deleting
    <2>2. /\ \A plan \in plans : plan.resume # id
          /\ pick # 0 => pick \in Live /\ Active \ {id, pick} = {}
      BY <1>3 DEF DeleteRefused, Pinned
    <2>3. /\ IsRequest(e) /\ e.op = "delete" /\ e.phase = "files" /\ e.id = id /\ e.pick = pick
      <3>1. IsRequest(req[q])
        BY DEF Inv, Shapes, RequestShapes
      <3> QED
        BY <1>1, <3>1 DEF IsRequest, RequestFields
    <2> HIDE DEF e
    <2>4. req'[q] = e /\ \A p \in Requests : p # q => req'[p] = req[p]
      BY <1>3, OtherSlots DEF Inv, Shapes
    <2>5. \A row : /\ IsRow(Deleted(row)) /\ Deleted(row).life = "gone"
                   /\ Deleted(row).active = FALSE /\ Deleted(row).status = "pending"
      BY DEF Deleted, Absent, IsRow, RowFields
    <2>6. rows'[id] = Deleted(rows[id])
      BY <1>3, <2>1
    <2>7. ASSUME NEW r \in Ids, r # id
          PROVE  /\ IsRow(rows'[r])
                 /\ rows'[r].life = rows[r].life /\ rows'[r].status = rows[r].status
                 /\ rows'[r].profile = rows[r].profile /\ rows'[r].gap = rows[r].gap
                 /\ rows'[r].active <=> rows[r].active \/ r = pick
      <3>1. IsRow(rows[r])
        BY DEF Inv, Shapes, RowShapes
      <3>2. CASE r = pick
        <4>1. rows'[r] = [rows[r] EXCEPT !.active = TRUE]
          BY <1>3, <2>7, <3>2
        <4> QED
          BY <3>1, <3>2, <4>1 DEF IsRow, RowFields
      <3>3. CASE r # pick
        <4>1. rows'[r] = rows[r]
          BY <1>3, <2>7, <3>3
        <4> QED
          BY <3>1, <3>3, <4>1 DEF IsRow
      <3> QED
        BY <3>2, <3>3
    <2>8. DOMAIN rows' = Ids
      BY <1>3
    <2>9. Live' = Live \ {id}
      BY <2>1, <2>5, <2>6, <2>7 DEF Live
    <2>10. /\ Active' = (Active \ {id}) \cup ({pick} \ {0})
           /\ pick # 0 => Active' = {pick}
      <3>1. \A r \in Ids : r # 0
        BY DEF Ids
      <3>2. \A r \in Active' : r \in Ids /\ r # id /\ r \in Live /\ (r \in Active \/ r = pick)
        BY <2>7, <2>9 DEF Active, Live
      <3>3. \A r \in Active : r # id => r \in Active'
        BY <2>7, <2>9 DEF Active, Live
      <3>4. pick # 0 => pick \in Active'
        BY <2>1, <2>2, <2>7, <2>9 DEF Active, Live
      <3>5. Active' = (Active \ {id}) \cup ({pick} \ {0})
        BY <3>1, <3>2, <3>3, <3>4
      <3> QED
        BY <2>2, <3>5
    <2>11. Shapes'
      BY <1>1, <1>3, <2>3, <2>4, <2>5, <2>6, <2>7, <2>8
         DEF Inv, Shapes, RowShapes, RequestShapes, WorldShape
    <2>12. ASSUME NEW plan, Grounded(plan)
           PROVE  Grounded(plan)'
      <3>1. plan.resume # 0 => plan.resume \in Ids
        BY <2>12 DEF Grounded, Ids
      <3> QED
        BY <1>1, <2>1, <2>5, <2>6, <2>7, <2>9, <2>12, <3>1 DEF Grounded
    <2>13. ASSUME NEW p \in Requests
           PROVE  RequestOK(p)'
      <3>1. CASE p = q
        BY <2>1, <2>3, <2>4, <2>5, <2>6, <3>1
           DEF RequestOK, Uploading, Deleting, Computing, Planning
      <3>2. CASE p # q
        <4>1. req'[p] = req[p] /\ RequestOK(p)
          BY <2>4, <3>2 DEF Inv
        <4>2. Uploading(p)'
          BY <1>1, <2>1, <2>7, <4>1 DEF RequestOK, Uploading
        <4>3. Deleting(p)'
          BY <2>5, <2>6, <2>7, <4>1 DEF RequestOK, Deleting
        <4>4. Computing(p)'
          BY <2>5, <2>6, <2>7, <2>9, <4>1 DEF RequestOK, Computing
        <4>5. Planning(p)'
          BY <2>12, <4>1 DEF RequestOK, Planning
        <4> QED
          BY <4>2, <4>3, <4>4, <4>5 DEF RequestOK
      <3> QED
        BY <3>1, <3>2
    <2>14. UploadsApart'
      BY <2>3, <2>4 DEF Inv, UploadsApart
    <2>15. FilesKept' /\ ActiveOnce'
      BY <1>1, <2>9, <2>10 DEF Inv, FilesKept, ActiveOnce
    <2>16. DoneOnce'
      BY <1>1, <2>5, <2>6, <2>7, <2>9 DEF Inv, DoneOnce
    <2>17. DeletesAlone'
      <3> SUFFICES ASSUME "delete" \notin overlapped
                   PROVE  DeletesAlone'
        BY <1>1 DEF DeletesAlone
      <3>1. /\ \A p \in Requests : req[p].op = "delete" => p = q
            /\ pick = 0 => Live \ {id} = {} \/ Active \ {id} # {}
        BY <1>1 DEF Inv, DeletesAlone
      <3>2. \A p \in Requests : req'[p].op = "delete" => p = q
        BY <2>4, <3>1
      <3> QED
        BY <2>3, <2>4, <2>9, <2>10, <3>1, <3>2 DEF DeletesAlone
    <2>18. ReadinessAlone'
      <3> SUFFICES ASSUME "readiness" \notin overlapped
                   PROVE  ReadinessAlone'
        BY <1>1 DEF ReadinessAlone
      <3>1. \A r \in Live' : r \in Ids /\ r # id /\ r \in Live
        BY <2>9 DEF Live
      <3>2. \A p \in Requests : req'[p].op = "readiness" => req'[p] = req[p]
        BY <2>3, <2>4
      <3> QED
        BY <2>7, <3>1, <3>2 DEF Inv, ReadinessAlone
    <2>19. ASSUME NEW plan \in plans
           PROVE  PlanKept(plan)'
      BY <2>2, <2>9, <2>12 DEF Inv, PlanKept
    <2> QED
      BY <1>1, <2>11, <2>13, <2>14, <2>15, <2>16, <2>17, <2>18, <2>19 DEF Inv
  <1> QED
    BY <1>2, <1>3 DEF DeleteCommit

\* The clean-up is about a row that is gone.
LEMMA DeleteFileInv ==
    ASSUME Inv, NEW q \in Requests, DeleteFile(q), UNCHANGED catalog
    PROVE  Inv'
  <1> DEFINE e == [req[q] EXCEPT !.phase = "vectors"]
  <1>1. /\ req[q].op = "delete" /\ req[q].phase = "files" /\ req' = [req EXCEPT ![q] = e]
        /\ UNCHANGED <<rows, jobs, overlapped, plans>> /\ (Mishap \/ UNCHANGED world)
        /\ files' = files \ {req[q].id} \/ UNCHANGED files
    BY DEF DeleteFile
  <1>2. rows[req[q].id].life = "gone" /\ req[q].id \in Ids
        /\ req[q].pick \in 0..MaxResumes /\ req[q].pick # req[q].id
    BY <1>1 DEF Inv, RequestOK, Deleting
  <1>3. /\ IsRequest(e) /\ e.op = "delete" /\ e.phase = "vectors" /\ e.id = req[q].id
        /\ e.pick = req[q].pick
    <2>1. IsRequest(req[q])
      BY DEF Inv, Shapes, RequestShapes
    <2> QED
      BY <1>1, <2>1 DEF IsRequest, RequestFields
  <1> HIDE DEF e
  <1>4. req'[q] = e /\ \A p \in Requests : p # q => req'[p] = req[p]
    BY <1>1, OtherSlots DEF Inv, Shapes
  <1>5. Live' = Live /\ Active' = Active
    BY <1>1 DEF Live, Active
  <1>6. Shapes'
    BY <1>1, <1>3, <1>4, MishapShape DEF Inv, Shapes, RowShapes, RequestShapes
  <1>7. \A plan : Grounded(plan) => Grounded(plan)'
    BY <1>1, <1>5 DEF Grounded
  <1>8. ASSUME NEW p \in Requests
        PROVE  RequestOK(p)'
    <2>1. CASE p = q
      BY <1>1, <1>2, <1>3, <1>4, <2>1
         DEF RequestOK, Uploading, Deleting, Computing, Planning
    <2>2. CASE p # q
      <3>1. req'[p] = req[p] /\ RequestOK(p)
        BY <1>4, <2>2 DEF Inv
      <3>2. Uploading(p)'
        BY <1>1, <1>2, <3>1 DEF RequestOK, Uploading
      <3> QED
        BY <1>1, <1>5, <1>7, <3>1, <3>2 DEF RequestOK, Deleting, Computing, Planning
    <2> QED
      BY <2>1, <2>2
  <1>9. UploadsApart'
    BY <1>3, <1>4 DEF Inv, UploadsApart
  <1>10. FilesKept' /\ ActiveOnce' /\ DoneOnce'
    BY <1>1, <1>2, <1>5 DEF Inv, FilesKept, ActiveOnce, DoneOnce, Live
  <1>11. DeletesAlone' /\ ReadinessAlone'
    <2>1. \A p \in Requests : /\ req'[p].op = req[p].op
                              /\ req'[p].op = "delete" /\ req'[p].phase \in {"read", "picked"} =>
                                     req'[p] = req[p]
                              /\ req'[p].op = "readiness" => req'[p] = req[p]
      BY <1>1, <1>3, <1>4
    <2>2. DeletesAlone'
      BY <1>1, <1>5, <2>1 DEF Inv, DeletesAlone
    <2>3. ReadinessAlone'
      BY <1>1, <1>5, <2>1 DEF Inv, ReadinessAlone
    <2> QED
      BY <2>2, <2>3
  <1>12. \A plan \in plans' : PlanKept(plan)'
    BY <1>1, <1>5, <1>7 DEF Inv, PlanKept
  <1> QED
    BY <1>6, <1>8, <1>9, <1>10, <1>11, <1>12 DEF Inv

\* The vectors go last.
LEMMA DeleteVectorsInv ==
    ASSUME Inv, NEW q \in Requests, DeleteVectors(q), UNCHANGED catalog
    PROVE  Inv'
  <1>1. /\ Finish(q, "ok") /\ (Mishap \/ UNCHANGED world)
        /\ UNCHANGED <<rows, files, jobs, overlapped, plans>>
    BY DEF DeleteVectors
  <1> QED
    BY <1>1, FinishInv

-----------------------------------------------------------------------------
(* Readiness. *)

\* It is computed from an analysed resume.
LEMMA ReadinessReadInv ==
    ASSUME Inv, NEW q \in Requests, NEW r, NEW role, ReadinessRead(q, r, role),
           UNCHANGED catalog
    PROVE  Inv'
  <1> DEFINE made == GapOf(rows[r].profile, role)
             e == [Idle EXCEPT !.op = "readiness", !.phase = "computed", !.id = r,
                               !.loaded = rows[r].gap, !.made = made]
  <1>1. r \in Live /\ r \in Ids /\ UNCHANGED <<world, rows, files, jobs, plans>>
    BY DEF ReadinessRead, Live
  <1>2. CASE Finish(q, "conflict") /\ UNCHANGED overlapped
    BY <1>1, <1>2, FinishInv
  <1>3. ASSUME Ready(r), req' = [req EXCEPT ![q] = e], Overlap(q, "readiness")
        PROVE  Inv'
    <2>1. /\ IsRequest(e) /\ e.op = "readiness" /\ e.id = r /\ e.made = made
          /\ e.loaded = rows[r].gap
      <3> HIDE DEF made
      <3> QED
        BY DEF IsRequest, RequestFields, Idle
    <2> HIDE DEF e
    <2>2. req'[q] = e /\ \A p \in Requests : p # q => req'[p] = req[p]
      BY <1>3, OtherSlots DEF Inv, Shapes
    <2>3. Live' = Live /\ Active' = Active
      BY <1>1 DEF Live, Active
    <2>4. RequestOK(q)'
      <3>1. Computing(q)'
        BY <1>1, <1>3, <2>1, <2>2, <2>3 DEF Computing, Ready, Live
      <3> QED
        BY <2>1, <2>2, <3>1 DEF RequestOK, Uploading, Deleting, Planning
    <2>5. UploadsApart'
      BY <2>1, <2>2 DEF Inv, UploadsApart
    <2>6. DeletesAlone'
      <3>1. "delete" \in overlapped => "delete" \in overlapped'
        BY <1>3 DEF Overlap
      <3> QED
        BY <2>1, <2>2, <2>3, <3>1 DEF Inv, DeletesAlone
    <2>7. ReadinessAlone'
      <3> SUFFICES ASSUME "readiness" \notin overlapped'
                   PROVE  ReadinessAlone'
        BY DEF ReadinessAlone
      <3>1. "readiness" \notin overlapped /\ \A p \in Requests : p # q => req[p].op # "readiness"
        BY <1>3 DEF Overlap
      <3>2. \A p \in Requests : req'[p].op = "readiness" => p = q
        BY <2>2, <3>1
      <3> QED
        BY <1>1, <2>1, <2>2, <2>3, <3>1, <3>2 DEF Inv, ReadinessAlone
    <2> QED
      BY <1>1, <1>3, <2>1, <2>4, <2>5, <2>6, <2>7, SlotInv
  <1> QED
    BY <1>2, <1>3 DEF ReadinessRead

\* What is loaded still being there, writing what differs from it writes it all.
LEMMA MergedWhole ==
    ASSUME NEW now, NEW p, NEW role
    PROVE  Merged(now, now, GapOf(p, role)) = GapOf(p, role)
  <1>1. GapOf(p, role) = [column \in DOMAIN GapOf(p, role) |-> GapOf(p, role)[column]]
    BY DEF GapOf
  <1> QED
    BY <1>1 DEF Merged

\* The row is replaced by one computed from the profile it is stored beside.
LEMMA ReadinessCommitInv ==
    ASSUME Inv, NEW q \in Requests, ReadinessCommit(q), UNCHANGED catalog
    PROVE  Inv'
  <1> DEFINE id == req[q].id
             gap == IF req[q].loaded = NoGap THEN req[q].made
                    ELSE Merged(rows[id].gap, req[q].loaded, req[q].made)
             row == [rows[id] EXCEPT !.gap = gap]
  <1>1. /\ req[q].op = "readiness"
        /\ UNCHANGED <<world, files, jobs, overlapped, plans>>
    BY DEF ReadinessCommit
  <1>2. CASE Finish(q, "failed") /\ UNCHANGED rows
    BY <1>1, <1>2, FinishInv
  <1>3. ASSUME id \in Live, rows' = [rows EXCEPT ![id] = row], Finish(q, "ok")
        PROVE  Inv'
    <2>1. /\ id \in Ids /\ rows[id].status = "done"
          /\ \E role : req[q].made = GapOf(rows[id].profile, role)
      BY <1>1, <1>3 DEF Inv, RequestOK, Computing
    <2>2. /\ IsRow(row) /\ row.life = rows[id].life /\ row.active = rows[id].active
          /\ row.status = rows[id].status /\ row.profile = rows[id].profile /\ row.gap = gap
      <3>1. IsRow(rows[id])
        BY <2>1 DEF Inv, Shapes, RowShapes
      <3> HIDE DEF gap
      <3> QED
        BY <3>1 DEF IsRow, RowFields
    <2> HIDE DEF row
    <2>3. rows'[id] = row /\ DOMAIN rows' = Ids /\ \A r \in Ids : r # id => rows'[r] = rows[r]
      BY <1>3, <2>1 DEF Inv, Shapes, RowShapes
    <2>4. RowsKept
      BY <2>2, <2>3 DEF RowsKept
    <2>5. Live' = Live /\ Active' = Active
      BY <2>4, LiveKept
    <2>6. RequestShapes' /\ \A p \in Requests : req'[p] = req[p] \/ Quiet(req'[p])
      BY <1>3, Finishing DEF Inv, Shapes
    <2>7. req'[q].op = "none"
      <3>1. req' = [req EXCEPT ![q] = IF q = Mine THEN [Idle EXCEPT !.phase = "ok"] ELSE Idle]
        BY <1>3 DEF Finish
      <3>2. Quiet(req'[q])
        BY <3>1, IdleIsQuiet DEF Inv, Shapes, RequestShapes
      <3> QED
        BY <3>2 DEF Quiet
    <2>8. \A p \in Requests : req'[p].op # "none" => p # q /\ req'[p] = req[p]
      BY <2>6, <2>7 DEF Quiet
    <2>9. Shapes'
      BY <1>1, <2>2, <2>3, <2>6 DEF Inv, Shapes, RowShapes, WorldShape
    <2>10. DoneOnce'
      BY <1>1, <2>2, <2>3, <2>5 DEF Inv, DoneOnce
    <2>11. UploadsApart' /\ DeletesAlone'
      BY <1>1, <2>5, <2>8 DEF Inv, UploadsApart, DeletesAlone
    <2>12. ReadinessAlone'
      <3> SUFFICES ASSUME "readiness" \notin overlapped
                   PROVE  ReadinessAlone'
        BY <1>1 DEF ReadinessAlone
      <3>1. /\ \A p \in Requests : req[p].op = "readiness" => p = q
            /\ req[q].loaded = rows[id].gap
        BY <1>1, <1>3 DEF Inv, ReadinessAlone
      <3>2. PICK role : req[q].made = GapOf(rows[id].profile, role)
        BY <2>1
      <3>3. gap = GapOf(rows[id].profile, role)
        BY <3>1, <3>2, MergedWhole
      <3>4. gap.role = role
        BY <3>3 DEF GapOf
      <3>5. \A p \in Requests : req'[p].op # "readiness"
        BY <2>8, <3>1
      <3>6. ASSUME NEW r \in Live', rows'[r].gap # NoGap
            PROVE  /\ rows'[r].status = "done"
                   /\ rows'[r].gap = GapOf(rows'[r].profile, rows'[r].gap.role)
        <4>1. CASE r = id
          BY <2>1, <2>2, <2>3, <3>3, <3>4, <4>1
        <4>2. CASE r # id
          <5>1. rows'[r] = rows[r] /\ r \in Live
            BY <2>3, <2>5, <4>2 DEF Live
          <5> QED
            BY <3>6, <5>1 DEF Inv, ReadinessAlone
        <4> QED
          BY <4>1, <4>2
      <3> QED
        BY <3>5, <3>6 DEF ReadinessAlone
    <2>13. \A p \in Requests : req'[p] = req[p] \/ RequestOK(p)'
      BY <2>6 DEF Quiet, RequestOK, Uploading, Deleting, Computing, Planning
    <2> QED
      BY <1>1, <2>4, <2>9, <2>10, <2>11, <2>12, <2>13, RowsKeptInv, CatalogUntouched
  <1> QED
    BY <1>2, <1>3 DEF ReadinessCommit
-----------------------------------------------------------------------------
(* Planning. *)

\* A slot of a planning request, which the invariants on uploads, deletions and readiness

\* do not concern.
LEMMA PlanSlotInv ==
    ASSUME Inv, NEW q \in Requests, NEW e, req' = [req EXCEPT ![q] = e], IsRequest(e),
           e.op = "plan", UNCHANGED <<world, libraryVars, plans, catalog>>,
           Planning(q)'
    PROVE  Inv'
  <1>1. UNCHANGED <<rows, files, jobs, overlapped>>
    BY DEF libraryVars
  <1>2. req'[q] = e /\ \A p \in Requests : p # q => req'[p] = req[p]
    BY OtherSlots DEF Inv, Shapes
  <1>3. RequestOK(q)'
    BY <1>2 DEF RequestOK, Uploading, Deleting, Computing
  <1>4. UploadsApart' /\ DeletesAlone' /\ ReadinessAlone'
    BY <1>1, <1>2 DEF Inv, UploadsApart, DeletesAlone, ReadinessAlone, Live, Active
  <1> QED
    BY <1>1, <1>3, <1>4, SlotInv

\* The template is read: an active one, of the catalog.
LEMMA PlanReadInv ==
    ASSUME Inv, NEW q \in Requests, NEW ask, PlanRead(q, ask)
    PROVE  Inv'
  <1> DEFINE draft == [ask |-> ask, mode |-> catalog.templates[ask.template].mode]
             e == [Idle EXCEPT !.op = "plan", !.phase = "template", !.draft = draft]
  <1>1. UNCHANGED <<world, libraryVars, plans, catalog>>
    BY DEF PlanRead
  <1>2. CASE Finish(q, "failed")
    BY <1>1, <1>2, FinishInv DEF libraryVars
  <1>3. ASSUME ActiveTemplate(ask.template), req' = [req EXCEPT ![q] = e]
        PROVE  Inv'
    <2>1. draft.ask = ask
      OBVIOUS
    <2> HIDE DEF draft
    <2>2. IsRequest(e) /\ e.op = "plan" /\ e.phase = "template" /\ e.draft = draft
      BY DEF IsRequest, RequestFields, Idle
    <2> HIDE DEF e
    <2>3. req'[q] = e
      BY <1>3, OtherSlots DEF Inv, Shapes
    <2>4. Planning(q)'
      BY <1>1, <1>3, <2>1, <2>2, <2>3 DEF Planning, ActiveTemplate
    <2> QED
      BY <1>1, <1>3, <2>2, <2>4, PlanSlotInv
  <1> QED
    BY <1>2, <1>3 DEF PlanRead

\* The resumes that a request may be planned with.
LEMMA ResumeTaken ==
    ASSUME NEW ask, NEW required, NEW r \in ResolvedResume(ask, required)
    PROVE  /\ r # 0 => r \in Ids /\ Ready(r)
           /\ required => r # 0
  <1>1. \A x \in Ids : x # 0
    BY DEF Ids
  <1>2. \A x : Ready(x) => x \in Ids
    BY DEF Ready, Live
  <1> QED
    BY <1>1, <1>2 DEF ResolvedResume

\* A plan has the mode of its template and the types of its rounds.
LEMMA PlanRequires ==
    ASSUME NEW ask, NEW mode, NEW rounds, NEW r
    PROVE  ResumeRequired(PlanOf(ask, mode, rounds, r).mode, PlanOf(ask, mode, rounds, r).rounds)
               => ResumeRequired(mode, rounds)
  BY DEF PlanOf, ResumeRequired

\* The plan is made from an analysed resume and of the template asked for.
LEMMA PlanDraftInv ==
    ASSUME Inv, NEW q \in Requests, PlanDraft(q)
    PROVE  Inv'
  <1> DEFINE ask == req[q].draft.ask
             mode == req[q].draft.mode
             rounds == catalog.templates[ask.template].rounds
             required == ResumeRequired(mode, rounds)
  <1>1. /\ req[q].op = "plan" /\ req[q].phase = "template"
        /\ UNCHANGED <<world, libraryVars, plans, catalog>>
    BY DEF PlanDraft
  <1>2. CASE Finish(q, "failed")
    BY <1>1, <1>2, FinishInv DEF libraryVars
  <1>3. ASSUME TemplateMatches(ask), NEW r \in ResolvedResume(ask, required),
               req' = [req EXCEPT ![q].phase = "drafted",
                                  ![q].draft = PlanOf(ask, mode, rounds, r)]
        PROVE  Inv'
    <2> PICK plan : plan = PlanOf(ask, mode, rounds, r)
      OBVIOUS
    <2> DEFINE e == [req[q] EXCEPT !.phase = "drafted", !.draft = plan]
    <2>1. r # 0 => r \in Ids /\ Ready(r)
      BY <1>3, ResumeTaken
    <2>2. required => r # 0
      BY <1>3, ResumeTaken
    <2>3. ask.template \in DOMAIN catalog.templates
      BY <1>1 DEF Inv, RequestOK, Planning
    <2>4. ResumeRequired(plan.mode, plan.rounds) => required
      BY PlanRequires
    <2>5. /\ plan.resume = r /\ plan.template = ask.template /\ plan.role = ask.role
          /\ plan.company = ask.company /\ plan.snapshot.skills = ResumeContext(r)
      BY DEF PlanOf
    <2> HIDE DEF required
    <2>6. Grounded(plan)
      <3>1. r \in 0..MaxResumes
        BY <2>1, LibraryAssumption DEF Ids
      <3>2. Templates[plan.template] = plan.role /\ Roles[plan.role] = plan.company
        BY <1>3, <2>5 DEF TemplateMatches, TemplateCompany
      <3>3. r # 0 => /\ rows[r].life = "live" /\ rows[r].status = "done"
                     /\ plan.snapshot.skills = Skills(rows[r].profile)
        BY <2>1, <2>5 DEF Ready, Live, ResumeContext
      <3> QED
        BY <2>2, <2>3, <2>4, <2>5, <3>1, <3>2, <3>3 DEF Grounded
    <2>7. IsRequest(req[q])
      BY DEF Inv, Shapes, RequestShapes
    <2>8. IsRequest(e) /\ e.op = "plan" /\ e.phase = "drafted" /\ e.draft = plan
      BY <1>1, <2>7 DEF IsRequest, RequestFields
    <2>9. req' = [req EXCEPT ![q] = e]
      BY <1>3
    <2> HIDE DEF e
    <2>10. req'[q] = e
      BY <2>9, OtherSlots DEF Inv, Shapes
    <2>11. Grounded(plan)'
      BY <1>1, <2>6, GroundedKept, RowsUntouched DEF libraryVars
    <2>12. Planning(q)'
      BY <2>8, <2>10, <2>11 DEF Planning
    <2> QED
      BY <1>1, <2>8, <2>9, <2>12, PlanSlotInv
  <1> QED
    BY <1>2, <1>3 DEF PlanDraft

\* The commit finds the resume and the rounds still there.
LEMMA PlanCommitInv ==
    ASSUME Inv, NEW q \in Requests, PlanCommit(q)
    PROVE  Inv'
  <1> DEFINE made == req[q].draft
  <1>1. /\ req[q].op = "plan" /\ req[q].phase = "drafted"
        /\ UNCHANGED <<world, libraryVars, catalog>>
    BY DEF PlanCommit
  <1>2. CASE Finish(q, "failed") /\ UNCHANGED plans
    BY <1>1, <1>2, FinishInv DEF libraryVars
  <1>3. ASSUME made.resume = 0 \/ made.resume \in Live,
               DOMAIN made.rounds \subseteq DOMAIN catalog.templates[made.template].rounds,
               plans' = plans \cup {made}, Finish(q, "ok")
        PROVE  Inv'
    <2>1. UNCHANGED <<world, rows, files, jobs, overlapped, catalog>>
      BY <1>1 DEF libraryVars
    <2>2. PlanKept(made)
      BY <1>1, <1>3 DEF PlanKept, Inv, RequestOK, Planning
    <2>3. RequestShapes' /\ \A p \in Requests : req'[p] = req[p] \/ Quiet(req'[p])
      BY <1>3, Finishing DEF Inv, Shapes
    <2>4. \A p \in Requests : req'[p].op # "none" => req'[p] = req[p]
      BY <2>3 DEF Quiet
    <2>5. Live' = Live /\ Active' = Active
      BY <2>1 DEF Live, Active
    <2>6. Shapes'
      BY <2>1, <2>3 DEF Inv, Shapes, RowShapes, WorldShape
    <2>7. \A plan : Grounded(plan) => Grounded(plan)'
      BY <2>1, <2>5 DEF Grounded
    <2>8. \A plan \in plans' : PlanKept(plan)'
      BY <1>3, <2>1, <2>2, <2>5, <2>7 DEF Inv, PlanKept
    <2>9. ASSUME NEW p \in Requests
          PROVE  RequestOK(p)'
      <3>1. CASE req'[p].op = "none"
        BY <3>1 DEF RequestOK, Uploading, Deleting, Computing, Planning
      <3>2. CASE req'[p].op # "none"
        <4>1. req'[p] = req[p] /\ RequestOK(p)
          BY <2>4, <3>2 DEF Inv
        <4> QED
          BY <2>1, <2>5, <2>7, <4>1 DEF RequestOK, Uploading, Deleting, Computing, Planning
      <3> QED
        BY <3>1, <3>2
    <2>10. UploadsApart'
      BY <2>4 DEF Inv, UploadsApart
    <2>11. FilesKept' /\ ActiveOnce' /\ DoneOnce'
      BY <2>1, <2>5 DEF Inv, FilesKept, ActiveOnce, DoneOnce
    <2>12. DeletesAlone'
      BY <2>1, <2>4, <2>5 DEF Inv, DeletesAlone
    <2>13. ReadinessAlone'
      BY <2>1, <2>4, <2>5 DEF Inv, ReadinessAlone
    <2> QED
      BY <2>6, <2>8, <2>9, <2>10, <2>11, <2>12, <2>13 DEF Inv
  <1> QED
    BY <1>2, <1>3 DEF PlanCommit
-----------------------------------------------------------------------------
(* The invariant is inductive. *)

\* At first there are only analysed resumes, the latest of them active.
LEMMA InitInv == Init => Inv
  <1> SUFFICES ASSUME Init
               PROVE  Inv
    OBVIOUS
  <1>1. /\ world \in Worlds
        /\ rows = [r \in Ids |-> IF r <= world.stored THEN StoredRow(r) ELSE Absent]
        /\ files = 1..world.stored
        /\ jobs = [r \in Ids |-> IF r <= world.stored THEN "ended" ELSE "none"]
        /\ req = [q \in Requests |-> Idle]
        /\ overlapped = {} /\ plans = {}
    BY DEF Init, InitPlanning, InitLibrary
  <1>2. /\ {"stored", "profile", "extracted"} \subseteq DOMAIN world
        /\ world.stored \in 0..MaxResumes /\ MaxResumes \in Nat
        /\ world.profile \in Profiles /\ world.extracted \subseteq Profiles
    BY <1>1, LibraryAssumption
  <1>3. /\ IsRow(Absent) /\ Absent.life = "none" /\ Absent.status = "pending"
        /\ Absent.gap = NoGap /\ Absent.active = FALSE
    BY DEF Absent, IsRow, RowFields
  <1>4. \A r \in Ids : /\ IsRow(StoredRow(r)) /\ StoredRow(r).life = "live"
                       /\ StoredRow(r).status = "done" /\ StoredRow(r).gap = NoGap
                       /\ StoredRow(r).profile = world.profile
                       /\ StoredRow(r).active = (r = world.stored)
    BY DEF StoredRow, Uploaded, Absent, IsRow, RowFields
  <1>5. \A r \in Ids : /\ r <= world.stored => rows[r] = StoredRow(r) /\ jobs[r] = "ended"
                       /\ ~(r <= world.stored) => rows[r] = Absent
    BY <1>1
  <1>6. DOMAIN rows = Ids /\ DOMAIN jobs = Ids
    BY <1>1
  <1>7. \A r : r \in Live <=> r \in Ids /\ r <= world.stored
    BY <1>3, <1>4, <1>5 DEF Live
  <1>8. \A r : r \in Active <=> r \in Ids /\ r = world.stored
    <2>1. \A r \in Ids : r = world.stored => r <= world.stored
      BY <1>2
    <2>2. ASSUME NEW r \in Live
          PROVE  r \in Ids /\ (rows[r].active <=> r = world.stored)
      <3>1. r \in Ids /\ rows[r] = StoredRow(r)
        BY <1>5, <1>7
      <3>2. StoredRow(r).active = (r = world.stored)
        BY <1>4, <3>1
      <3> QED
        BY <3>1, <3>2, Zenon
    <2>3. \A r : r \in Active <=> r \in Live /\ rows[r].active
      BY DEF Active
    <2> QED
      BY <1>7, <2>1, <2>2, <2>3
  <1>9. \A q \in Requests : Quiet(req[q])
    BY <1>1, IdleIsQuiet
  <1>10. Shapes
    BY <1>1, <1>2, <1>3, <1>4, <1>5, <1>6, <1>9
       DEF Shapes, RowShapes, RequestShapes, WorldShape, Quiet
  <1>11. FilesKept
    BY <1>1, <1>2, <1>7 DEF FilesKept, Ids
  <1>12. DoneOnce
    BY <1>2, <1>3, <1>4, <1>5, <1>7 DEF DoneOnce, Finished
  <1>13. ActiveOnce
    BY <1>8 DEF ActiveOnce
  <1>14. Live # {} => Active # {}
    <2> SUFFICES ASSUME NEW r \in Live
                 PROVE  world.stored \in Active
      OBVIOUS
    <2>1. r \in 1..MaxResumes /\ r <= world.stored
      BY <1>7 DEF Ids
    <2>2. world.stored \in Ids
      BY <1>2, <2>1 DEF Ids
    <2> QED
      BY <1>8, <2>2
  <1>15. \A r \in Live : rows[r].gap = NoGap
    BY <1>4, <1>5, <1>7
  <1>16. DeletesAlone /\ ReadinessAlone
    BY <1>9, <1>14, <1>15 DEF DeletesAlone, ReadinessAlone, Quiet
  <1>17. UploadsApart /\ \A q \in Requests : RequestOK(q)
    BY <1>9 DEF Quiet, UploadsApart, RequestOK, Uploading, Deleting, Computing, Planning
  <1> QED
    BY <1>1, <1>10, <1>11, <1>12, <1>13, <1>16, <1>17 DEF Inv

\* What other clients request.
LEMMA OthersInv ==
    ASSUME Inv, NEW q \in Requests, Others(q)
    PROVE  Inv'
  <1>1. CASE UploadSave(q) /\ UNCHANGED catalog
    BY <1>1, UploadSaveInv
  <1>2. CASE UNCHANGED catalog /\ \E r \in Ids : DeleteRead(q, r)
    BY <1>2, DeleteReadInv
  <1>3. CASE UNCHANGED catalog /\ \E r \in Ids, role \in RoleKeys : ReadinessRead(q, r, role)
    BY <1>3, ReadinessReadInv
  <1>4. CASE \E ask \in PlanRequests : PlanRead(q, ask)
    BY <1>4, PlanReadInv
  <1> QED
    BY <1>1, <1>2, <1>3, <1>4 DEF Others

\* What the server does with a request.
LEMMA ServeInv ==
    ASSUME Inv, NEW q \in Requests, Serve(q)
    PROVE  Inv'
  <1>1. CASE LibraryStep(q) /\ UNCHANGED catalog
    BY <1>1, DeactivateInv, UploadCommitInv, DeletePickInv, DeleteCommitInv, DeleteFileInv,
       DeleteVectorsInv, ReadinessCommitInv DEF LibraryStep
  <1>2. CASE PlanDraft(q) \/ PlanCommit(q)
    BY <1>2, PlanDraftInv, PlanCommitInv
  <1> QED
    BY <1>1, <1>2 DEF Serve, PlanningStep

\* The tab's requests are those of any client.
LEMMA TabInv ==
    ASSUME Inv,
           \/ TabUpload
           \/ \E r \in Ids : TabDelete(r)
           \/ \E role \in RoleKeys : TabReadiness(role)
           \/ \E r \in Ids \cup {0}, difficulty \in Difficulties : TabPlan(r, difficulty)
    PROVE  Inv'
  <1> Mine \in Requests
    BY LibraryAssumption
  <1>1. CASE TabUpload
    BY <1>1, UploadSaveInv DEF TabUpload
  <1>2. CASE \E r \in Ids : TabDelete(r)
    BY <1>2, DeleteReadInv DEF TabDelete
  <1>3. CASE \E role \in RoleKeys : TabReadiness(role)
    BY <1>3, ReadinessReadInv DEF TabReadiness
  <1>4. CASE \E r \in Ids \cup {0}, difficulty \in Difficulties : TabPlan(r, difficulty)
    BY <1>4, PlanReadInv DEF TabPlan
  <1> QED
    BY <1>1, <1>2, <1>3, <1>4

\* The rest of what the tab does reads the server and changes nothing there.
LEMMA TabReads ==
    ASSUME \/ OpenList \/ OpenWizard \/ \E r \in Ids : OpenDetail(r)
           \/ Poll \/ Retry
           \/ \E c \in Companies \cup {NoCompany} : SelectCompany(c)
           \/ \E r \in DOMAIN Roles : SelectRole(r)
           \/ \E t \in DOMAIN Templates : SelectTemplate(t)
           \/ Back \/ LoadResumes \/ PlanAnother
           \/ \E f \in DOMAIN fetches : Fetching(f)
    PROVE  UNCHANGED serverVars
  <1>1. CASE OpenList \/ OpenWizard \/ \E r \in Ids : OpenDetail(r)
    BY <1>1 DEF OpenList, OpenWizard, OpenDetail
  <1>2. CASE Poll \/ Retry \/ LoadResumes
    BY <1>2 DEF Poll, Retry, LoadResumes, Choose
  <1>3. CASE \/ \E c \in Companies \cup {NoCompany} : SelectCompany(c)
             \/ \E r \in DOMAIN Roles : SelectRole(r)
    BY <1>3 DEF SelectCompany, SelectRole, Choose
  <1>4. CASE (\E t \in DOMAIN Templates : SelectTemplate(t)) \/ Back \/ PlanAnother
    BY <1>4 DEF SelectTemplate, Back, PlanAnother
  <1>5. CASE \E f \in DOMAIN fetches : Fetching(f)
    BY <1>5 DEF Fetching, Answer, Arrive
  <1> QED
    BY <1>1, <1>2, <1>3, <1>4, <1>5

\* Every step of the server, of the tab and of the deployment keeps the invariant.
LEMMA StepInv == Inv /\ [Next]_vars => Inv'
  <1> SUFFICES ASSUME Inv, [Next]_vars
               PROVE  Inv'
    OBVIOUS
  <1>1. CASE UNCHANGED serverVars
    BY <1>1, PageInv DEF serverVars
  <1>2. CASE \E q \in Requests : Others(q) \/ Serve(q)
    BY <1>2, OthersInv, ServeInv
  <1>3. CASE \E r \in Ids : Work(r)
    BY <1>3, JobInv DEF Work
  <1>4. CASE Deploy
    BY <1>4, SeedInv DEF Deploy
  <1>5. CASE Die
    BY <1>5, CrashInv DEF Die
  <1>6. CASE Browse \/ Poll \/ Retry \/ Plan
    BY <1>1, <1>6, TabInv, TabReads DEF Browse, Plan
  <1>7. CASE TabAnswered
    BY <1>7, TabAnsweredInv
  <1>8. CASE \E f \in DOMAIN fetches : Fetching(f)
    BY <1>1, <1>8, TabReads
  <1>9. CASE \E f \in DOMAIN fetches : FetchFails(f)
    BY <1>9, PageInv DEF FetchFails
  <1>10. CASE UNCHANGED vars
    BY <1>1, <1>10 DEF vars
  <1> QED
    BY <1>2, <1>3, <1>4, <1>5, <1>6, <1>7, <1>8, <1>9, <1>10 DEF Next

\* The invariant holds for any number of resumes, requests and GETs in flight.
LEMMA Invariance == Spec => []Inv
  BY InitInv, StepInv, PTL DEF Spec

\* A resume that is there has its file, through failed uploads, clean-ups and crashes.
THEOREM FilesStay == Spec => []FilesKept
  BY Invariance, SaysFilesKept, PTL

\* There is never more than one active resume, and one as long as there are resumes unless
\* two deletions overlapped.
THEOREM OneStaysActive == Spec => []OneActive
  BY Invariance, SaysOneActive, PTL

\* A readiness is the one computed for its role from the profile stored, unless two of them
\* were computed at once.
THEOREM ReadinessStaysWhole == Spec => []ReadinessWhole
  BY Invariance, SaysReadinessWhole, PTL

\* A plan's resume is there and analysed, the skills in its snapshot are that resume's, and
\* the rounds that it was made from stay in the catalog.
THEOREM PlansStayGrounded == Spec => []PlansGrounded
  BY Invariance, SaysPlansGrounded, PTL

-----------------------------------------------------------------------------
(* The types of the rows, the stores and the requests. *)

\* A row and its children: nothing of a row that is gone, a profile with the status done,
\* a readiness beside a profile.
RowTyped(row) ==
    /\ row \in Row
    /\ row.life # "live" => row \in {Absent, [Absent EXCEPT !.life = "gone"]}
    /\ row.profile # NoProfile <=> row.status = "done"
    /\ row.gap # NoGap => row.profile # NoProfile

\* A request; what it drafts is a plan in the making and is left open here.
RequestTyped(e) ==
    /\ DOMAIN e = RequestFields
    /\ e.op \in {"none", "upload", "delete", "readiness", "plan"}
    /\ e.phase \in {"idle", "saved", "inserting", "read", "picked", "files", "vectors",
                    "computed", "template", "drafted", "ok", "failed", "conflict"}
    /\ e.id \in 0..MaxResumes
    /\ e.was \in BOOLEAN
    /\ e.seen \subseteq Ids
    /\ e.pick \in 0..MaxResumes
    /\ e.loaded \in Gaps \cup {NoGap}
    /\ e.made \in Gaps \cup {NoGap}

\* A typed request has the columns that the type invariant names.
LEMMA RequestRowOf ==
    ASSUME NEW e, RequestTyped(e)
    PROVE  [field \in DOMAIN e \ {"draft"} |-> e[field]] \in RequestRow
  <1>1. DOMAIN e \ {"draft"} = {"op", "phase", "id", "was", "seen", "pick", "loaded", "made"}
    BY DEF RequestTyped, RequestFields
  <1>2. [field \in DOMAIN e \ {"draft"} |-> e[field]] =
           [op |-> e.op, phase |-> e.phase, id |-> e.id, was |-> e.was, seen |-> e.seen,
            pick |-> e.pick, loaded |-> e.loaded, made |-> e.made]
    BY <1>1
  <1> QED
    BY <1>2 DEF RequestTyped, RequestRow

\* A profile has finitely many skills.
LEMMA SkillsCounted ==
    ASSUME NEW p \in Profiles
    PROVE  Cardinality(Skills(p)) \in Nat
  <1> DEFINE f == [name \in p.names |-> CanonicalOf[name]]
  <1>1. IsFiniteSet(p.names)
    BY LibraryAssumption DEF IsProfile
  <1>2. f \in Surjection(p.names, Skills(p))
    BY DEF Surjection, Skills
  <1>3. IsFiniteSet(Skills(p))
    BY <1>1, <1>2, FS_Surjection
  <1> QED
    BY <1>3, FS_CardinalityType

\* The confidence is capped at 95 whatever the profile holds.
LEMMA ConfidenceTyped ==
    ASSUME NEW p \in Profiles
    PROVE  Confidence(p) \in 0..95
  <1> DEFINE x == 30 + 3 * (Cardinality(Skills(p)) + 2 * p.projects + 2 * p.experience)
             S == {95, x}
  <1>1. p.projects \in Nat /\ p.experience \in Nat
    BY LibraryAssumption DEF IsProfile
  <1>2. x \in Nat
    <2>1. \A c, k, m \in Nat : 30 + 3 * (c + 2 * k + 2 * m) \in Nat
      OBVIOUS
    <2> QED
      BY <1>1, <2>1, SkillsCounted
  <1> HIDE DEF x
  <1>3. \E m \in S : \A y \in S : m <= y
    <2>1. S \in SUBSET Nat /\ S # {}
      BY <1>2
    <2> HIDE DEF S
    <2> QED
      BY <2>1, Smallest
  <1>4. Min(S) \in S /\ \A y \in S : Min(S) <= y
    <2> HIDE DEF S
    <2> QED
      BY <1>3 DEF Min
  <1>5. Min(S) \in 0..95
    BY <1>2, <1>4
  <1> QED
    BY <1>5 DEF Confidence, x

\* A computed readiness is one of Gaps.
LEMMA GapOfTyped ==
    ASSUME NEW p \in Profiles, NEW role \in RoleKeys
    PROVE  GapOf(p, role) \in Gaps
  <1>1. InterviewLevel(p, role) \in Levels
    BY DEF InterviewLevel, Levels
  <1>2. /\ Missing(Skills(p), role) \in SUBSET UNION {Required[k] : k \in RoleKeys}
        /\ Matching(Skills(p), role) \in SUBSET UNION {Required[k] : k \in RoleKeys}
        /\ FocusAreas(Skills(p), role) \in SUBSET UNION {Required[k] \cup NiceToHave[k] : k \in RoleKeys}
    BY DEF Missing, Matching, FocusAreas
  <1>3. Confidence(p) \in 0..95
    BY ConfidenceTyped
  <1> QED
    BY <1>1, <1>2, <1>3 DEF GapOf, Gaps

\* The columns of a readiness.
GapColumns == {"role", "missing", "matching", "focus", "level", "confidence"}

\* A readiness merged column by column has the types of its columns.
LEMMA MergedTyped ==
    ASSUME NEW now \in Gaps, NEW loaded, NEW made \in Gaps
    PROVE  Merged(now, loaded, made) \in Gaps
  <1> DEFINE g == Merged(now, loaded, made)
  <1>1. DOMAIN made = GapColumns
    BY DEF Gaps, GapColumns
  <1>2. \A c \in GapColumns : g[c] = now[c] \/ g[c] = made[c]
    BY <1>1 DEF Merged
  <1>3. g = [role |-> g["role"], missing |-> g["missing"], matching |-> g["matching"],
             focus |-> g["focus"], level |-> g["level"], confidence |-> g["confidence"]]
    BY <1>1 DEF Merged, GapColumns
  <1> HIDE DEF g
  <1>4. /\ g["role"] = now.role \/ g["role"] = made.role
        /\ g["missing"] = now.missing \/ g["missing"] = made.missing
        /\ g["matching"] = now.matching \/ g["matching"] = made.matching
        /\ g["focus"] = now.focus \/ g["focus"] = made.focus
        /\ g["level"] = now.level \/ g["level"] = made.level
        /\ g["confidence"] = now.confidence \/ g["confidence"] = made.confidence
    BY <1>2 DEF GapColumns
  <1>5. g \in Gaps
    BY <1>3, <1>4 DEF Gaps
  <1> QED
    BY <1>5 DEF g

\* The edits of a live row: active flag, readiness of an analysed one, status of one that
\* is not analysed.
LEMMA RowEdits ==
    ASSUME NEW row, RowTyped(row), row.life = "live"
    PROVE  /\ \A a \in BOOLEAN : RowTyped([row EXCEPT !.active = a])
           /\ \A g \in Gaps : row.status = "done" => RowTyped([row EXCEPT !.gap = g])
           /\ \A s \in Statuses \ {"done"} : row.status # "done" => RowTyped([row EXCEPT !.status = s])
  <1>1. \A a \in BOOLEAN : RowTyped([row EXCEPT !.active = a])
    BY DEF RowTyped, Row
  <1>2. \A g \in Gaps : row.status = "done" => RowTyped([row EXCEPT !.gap = g])
    BY DEF RowTyped, Row
  <1>3. \A s \in Statuses \ {"done"} : row.status # "done" => RowTyped([row EXCEPT !.status = s])
    BY DEF RowTyped, Row, Statuses
  <1> QED
    BY <1>1, <1>2, <1>3

\* The row an analysis leaves.
LEMMA AnalysedRow ==
    ASSUME NEW row, RowTyped(row), row.life = "live", NEW p \in Profiles
    PROVE  RowTyped([[row EXCEPT !.status = "done"] EXCEPT !.profile = p])
  <1>1. [row EXCEPT !.status = "done"] \in Row
    BY DEF RowTyped, Row, Statuses
  <1>2. p # NoProfile
    BY LibraryAssumption
  <1> QED
    BY <1>1, <1>2 DEF RowTyped, Row, Statuses

\* The rows there are without an analysis.
LEMMA FirstRows ==
    /\ RowTyped(Absent) /\ RowTyped(Uploaded)
    /\ \A row : RowTyped(Deleted(row)) /\ Deleted(row).life = "gone" /\ Deleted(row).gap = NoGap
  BY DEF RowTyped, Row, Absent, Uploaded, Deleted, Statuses

\* A readiness is computed for rows that have one if it has read one.
ReadinessTyped(q) ==
    req[q].op = "readiness" =>
        /\ req[q].made \in Gaps
        /\ req[q].loaded # NoGap /\ req[q].id \in Live => rows[req[q].id].gap \in Gaps

\* The resumes.
RowsTyped ==
    /\ rows \in [Ids -> Row]
    /\ \A r \in Ids : RowTyped(rows[r])

\* The storage, the vectors, the jobs and the history.
StoresTyped ==
    /\ files \subseteq Ids /\ vectors \subseteq Ids
    /\ jobs \in [Ids -> JobStages]
    /\ overlapped \subseteq {"delete", "readiness"}

\* The requests.
RequestsTyped == \A q \in Requests : RequestTyped(req[q]) /\ ReadinessTyped(q)

\* The server.
ServerTyped == RowsTyped /\ StoresTyped /\ RequestsTyped

\* The parts say what the type invariant of the library says.
LEMMA SaysLibraryTypes ==
    ASSUME ServerTyped
    PROVE  LibraryTypeOK
  BY RequestRowOf DEF ServerTyped, RowsTyped, StoresTyped, RequestsTyped, RowTyped, LibraryTypeOK, Live

\* Rows that were there keep their readiness, or get one.
GapsStay ==
    \A r \in Ids :
        rows[r].life # "none" /\ rows'[r].life = "live" =>
            /\ rows[r].life = "live"
            /\ rows[r].gap \in Gaps => rows'[r].gap \in Gaps

\* A request that has a new state.
RequestMade(q) ==
    /\ RequestTyped(req'[q])
    /\ req'[q].op = "readiness" =>
           /\ req'[q].made \in Gaps
           /\ req'[q].loaded # NoGap => rows[req'[q].id].gap \in Gaps
           /\ UNCHANGED rows

\* Requests stay typed while the rows they refer to keep a readiness.
LEMMA RequestsStayTyped ==
    ASSUME Inv, ServerTyped, GapsStay,
           \A q \in Requests : req'[q] = req[q] \/ RequestMade(q)
    PROVE  RequestsTyped'
  <1>1. ASSUME NEW q \in Requests
        PROVE  RequestTyped(req'[q]) /\ ReadinessTyped(q)'
    <2>1. CASE RequestMade(q)
      BY <2>1 DEF RequestMade, ReadinessTyped
    <2>2. CASE req'[q] = req[q]
      <3>1. RequestTyped(req[q]) /\ ReadinessTyped(q) /\ Computing(q)
        BY DEF ServerTyped, RequestsTyped, Inv, RequestOK
      <3>2. req[q].op = "readiness" => req[q].id \in Ids /\ rows[req[q].id].life # "none"
        BY <3>1 DEF Computing
      <3>3. req[q].op = "readiness" /\ req[q].id \in Live' /\ req[q].loaded # NoGap =>
                rows'[req[q].id].gap \in Gaps
        BY <3>1, <3>2 DEF GapsStay, ReadinessTyped, Live
      <3>4. ReadinessTyped(q)'
        BY <2>2, <3>1, <3>3 DEF ReadinessTyped
      <3> QED
        BY <2>2, <3>1, <3>4
    <2> QED
      BY <1>1, <2>1, <2>2
  <1> QED
    BY <1>1 DEF RequestsTyped

\* Nothing happens to the rows.
LEMMA SameRows ==
    ASSUME ServerTyped, UNCHANGED rows
    PROVE  RowsTyped' /\ GapsStay
  BY DEF ServerTyped, RowsTyped, GapsStay

\* One row is replaced.
LEMMA OneRow ==
    ASSUME ServerTyped, NEW r \in Ids, NEW row, RowTyped(row), rows' = [rows EXCEPT ![r] = row],
           row.life = "live" /\ rows[r].life # "none" =>
               rows[r].life = "live" /\ (rows[r].gap \in Gaps => row.gap \in Gaps)
    PROVE  RowsTyped' /\ GapsStay
  <1>1. /\ rows'[r] = row /\ row \in Row
        /\ \A x \in Ids : x # r => rows'[x] = rows[x]
    BY DEF ServerTyped, RowsTyped, RowTyped
  <1>2. rows' \in [Ids -> Row]
    BY <1>1 DEF ServerTyped, RowsTyped
  <1>3. \A x \in Ids : RowTyped(rows'[x])
    BY <1>1 DEF ServerTyped, RowsTyped
  <1>4. GapsStay
    BY <1>1 DEF GapsStay
  <1> QED
    BY <1>2, <1>3, <1>4 DEF RowsTyped

\* A slot without a request, and the answer that the tab waits for.
LEMMA IdleTyped ==
    /\ RequestTyped(Idle) /\ Idle.op = "none" /\ Idle.phase = "idle"
    /\ \A o \in {"ok", "failed", "conflict"} :
          /\ RequestTyped([Idle EXCEPT !.phase = o])
          /\ [Idle EXCEPT !.phase = o].op = "none"
          /\ [Idle EXCEPT !.phase = o].phase = o
  BY LibraryAssumption DEF RequestTyped, RequestFields, Idle

\* One request is replaced.
LEMMA OneRequest ==
    ASSUME Inv, NEW q \in Requests, NEW e, req' = [req EXCEPT ![q] = e], RequestTyped(e),
           e.op # "readiness"
    PROVE  /\ \A p \in Requests : req'[p] = req[p] \/ RequestMade(p)
           /\ req'[q] = e
  BY DEF RequestMade, Inv, Shapes, RequestShapes

\* A request that ends.
LEMMA FinishTyped ==
    ASSUME Inv, NEW q \in Requests, NEW o \in {"ok", "failed", "conflict"}, Finish(q, o)
    PROVE  /\ \A p \in Requests : req'[p] = req[p] \/ RequestMade(p)
           /\ q = Mine => req'[q].phase = o
  <1> DEFINE e == IF q = Mine THEN [Idle EXCEPT !.phase = o] ELSE Idle
  <1>1. RequestTyped(e) /\ e.op = "none" /\ (q = Mine => e.phase = o)
    BY IdleTyped
  <1>2. req' = [req EXCEPT ![q] = e]
    BY DEF Finish
  <1> HIDE DEF e
  <1> QED
    BY <1>1, <1>2, OneRequest

\* A request that goes on.
GoesOn(e, f, phase) == RequestTyped(f) /\ f.op = e.op /\ f.phase = phase

\* A step to a phase that has nothing to remember.
LEMMA NextPhaseTyped ==
    ASSUME NEW e, RequestTyped(e), NEW ph \in {"inserting", "files", "vectors"},
           NEW f, f = [e EXCEPT !.phase = ph]
    PROVE  GoesOn(e, f, ph)
  BY DEF RequestTyped, RequestFields, GoesOn

\* An upload remembers the resumes it has deactivated.
LEMMA InsertingTyped ==
    ASSUME NEW e, RequestTyped(e), NEW s \in SUBSET Ids,
           NEW f, f = [e EXCEPT !.phase = "inserting", !.seen = s]
    PROVE  GoesOn(e, f, "inserting")
  BY DEF RequestTyped, RequestFields, GoesOn

\* A deletion remembers the successor it has chosen.
LEMMA PickedTyped ==
    ASSUME NEW e, RequestTyped(e), NEW n \in 0..MaxResumes,
           NEW f, f = [e EXCEPT !.phase = "picked", !.pick = n]
    PROVE  GoesOn(e, f, "picked")
  BY DEF RequestTyped, RequestFields, GoesOn

\* A plan request remembers its draft.
LEMMA DraftedTyped ==
    ASSUME NEW e, RequestTyped(e), NEW d,
           NEW f, f = [e EXCEPT !.phase = "drafted", !.draft = d]
    PROVE  GoesOn(e, f, "drafted")
  BY DEF RequestTyped, RequestFields, GoesOn

\* What every step of the server has in common for the types.
ServerMoves ==
    /\ RowsTyped' /\ GapsStay /\ StoresTyped'
    /\ \A q \in Requests : req'[q] = req[q] \/ RequestMade(q)

\* Such a step keeps the types.
LEMMA ServerMovesTyped ==
    ASSUME Inv, ServerTyped, ServerMoves
    PROVE  ServerTyped'
  BY RequestsStayTyped DEF ServerMoves, ServerTyped

\* The tab goes on waiting for its request.
MineWaits(q) ==
    /\ q = Mine => req[Mine] # Idle /\ req'[Mine] # Idle
    /\ q # Mine => req'[Mine] = req[Mine]

\* A slot that is busy or answered is not idle.
LEMMA NotIdle ==
    ASSUME NEW e, e.op # "none" \/ e.phase # "idle"
    PROVE  e # Idle
  BY IdleTyped

\* A request that goes on, in the slots.
LEMMA SlotMoves ==
    ASSUME Inv, NEW q \in Requests, NEW e, req' = [req EXCEPT ![q] = e], RequestTyped(e),
           e.op = req[q].op, req[q].op # "none", e.op # "readiness"
    PROVE  /\ \A p \in Requests : req'[p] = req[p] \/ RequestMade(p)
           /\ MineWaits(q)
  <1>1. e # Idle /\ req[q] # Idle
    BY NotIdle
  <1>2. req'[q] = e /\ \A p \in Requests : p # q => req'[p] = req[p]
    BY DEF Inv, Shapes, RequestShapes
  <1>3. Mine \in Requests
    BY LibraryAssumption
  <1> QED
    BY <1>1, <1>2, <1>3, OneRequest DEF MineWaits

\* A request that ends, in the slots.
LEMMA SlotEnds ==
    ASSUME Inv, NEW q \in Requests, NEW o \in {"ok", "failed", "conflict"}, Finish(q, o),
           req[q].op # "none"
    PROVE  /\ \A p \in Requests : req'[p] = req[p] \/ RequestMade(p)
           /\ MineWaits(q)
  <1>1. req[q] # Idle /\ (q = Mine => req'[q] # Idle)
    BY FinishTyped, NotIdle
  <1>2. \A p \in Requests : p # q => req'[p] = req[p]
    BY DEF Finish, Inv, Shapes, RequestShapes
  <1>3. Mine \in Requests
    BY LibraryAssumption
  <1> QED
    BY <1>1, <1>2, <1>3, FinishTyped DEF MineWaits

\* The steps of an upload.
LEMMA UploadTyped ==
    ASSUME Inv, ServerTyped, NEW q \in Requests, Deactivate(q) \/ UploadCommit(q)
    PROVE  ServerMoves /\ MineWaits(q)
  <1>1. RequestTyped(req[q])
    BY DEF ServerTyped, RequestsTyped
  <1>2. req[q].op = "upload"
    BY DEF Deactivate, UploadCommit
  <1>3. CASE Deactivate(q)
    <2> DEFINE e == [req[q] EXCEPT !.phase = "inserting", !.seen = Live]
    <2>1. req' = [req EXCEPT ![q] = e]
      BY <1>3 DEF Deactivate
    <2>5. e = [req[q] EXCEPT !.phase = "inserting", !.seen = Live]
      OBVIOUS
    <2> HIDE DEF e
    <2>6. Live \in SUBSET Ids
      BY DEF Live
    <2>2. RequestTyped(e) /\ e.op = req[q].op
      BY <1>1, <2>5, <2>6, InsertingTyped DEF GoesOn
    <2>3. UNCHANGED <<rows, files, vectors, jobs, overlapped>>
      BY <1>3 DEF Deactivate, libraryVars
    <2>4. RowsTyped' /\ GapsStay /\ StoresTyped'
      BY <2>3, SameRows DEF ServerTyped, StoresTyped
    <2> QED
      BY <1>2, <2>1, <2>2, <2>4, SlotMoves DEF ServerMoves
  <1>4. CASE UploadCommit(q)
    <2> DEFINE id == req[q].id
               deactivated == [r \in Ids |-> IF r \in req[q].seen /\ r \in Live
                                             THEN [rows[r] EXCEPT !.active = FALSE]
                                             ELSE rows[r]]
    <2>1. id \in Ids /\ rows[id].life = "none"
      BY <1>2 DEF Inv, RequestOK, Uploading
    <2>2. CASE rows' = [deactivated EXCEPT ![id] = Uploaded] /\ jobs' = [jobs EXCEPT ![id] = "queued"]
               /\ Finish(q, "ok")
      <3>1. \A r \in Ids : /\ r = id => rows'[r] = Uploaded
                           /\ r # id => \/ rows'[r] = rows[r]
                                        \/ /\ rows[r].life = "live"
                                           /\ rows'[r] = [rows[r] EXCEPT !.active = FALSE]
        BY <2>1, <2>2 DEF Live
      <3>2. \A r \in Ids : RowTyped(rows[r])
        BY DEF ServerTyped, RowsTyped
      <3>3. ASSUME NEW r \in Ids
            PROVE  RowTyped(rows'[r])
        <4>1. CASE r = id
          BY <3>1, <4>1, FirstRows
        <4>2. CASE r # id /\ rows'[r] = rows[r]
          BY <3>2, <4>2
        <4>3. CASE rows[r].life = "live" /\ rows'[r] = [rows[r] EXCEPT !.active = FALSE]
          BY <3>2, <4>3, RowEdits
        <4> QED
          BY <3>1, <4>1, <4>2, <4>3
      <3>4. rows' \in [Ids -> Row]
        <4>1. DOMAIN rows' = Ids /\ rows' = [r \in Ids |-> rows'[r]]
          BY <2>2
        <4>2. \A r \in Ids : rows'[r] \in Row
          BY <3>3 DEF RowTyped
        <4> QED
          BY <4>1, <4>2
      <3>5. ASSUME NEW r \in Ids, r # id
            PROVE  rows'[r].life = rows[r].life /\ rows'[r].gap = rows[r].gap
        <4>1. CASE rows'[r] = rows[r]
          BY <4>1
        <4>2. CASE rows'[r] = [rows[r] EXCEPT !.active = FALSE]
          <5>1. rows[r] \in Row
            BY <3>2 DEF RowTyped
          <5> QED
            BY <4>2, <5>1 DEF Row
        <4> QED
          BY <3>1, <3>5, <4>1, <4>2
      <3>6. GapsStay
        BY <2>1, <3>5 DEF GapsStay
      <3>7. StoresTyped'
        BY <1>4, <2>1, <2>2 DEF UploadCommit, ServerTyped, StoresTyped, JobStages
      <3> QED
        BY <1>2, <2>2, <3>3, <3>4, <3>6, <3>7, SlotEnds DEF ServerMoves, RowsTyped
    <2>3. CASE UNCHANGED <<rows, jobs>> /\ Finish(q, "failed")
      <3>1. StoresTyped'
        BY <1>4, <2>3 DEF UploadCommit, ServerTyped, StoresTyped
      <3> QED
        BY <1>2, <2>3, <3>1, SlotEnds, SameRows DEF ServerMoves
    <2> QED
      BY <1>4, <2>2, <2>3 DEF UploadCommit
  <1> QED
    BY <1>3, <1>4

\* The steps of a deletion.
LEMMA DeleteTyped ==
    ASSUME Inv, ServerTyped, NEW q \in Requests,
           DeletePick(q) \/ DeleteCommit(q) \/ DeleteFile(q) \/ DeleteVectors(q)
    PROVE  ServerMoves /\ MineWaits(q)
  <1>1. RequestTyped(req[q])
    BY DEF ServerTyped, RequestsTyped
  <1>2. req[q].op = "delete" /\ req[q].id \in Ids
    BY DEF DeletePick, DeleteCommit, DeleteFile, DeleteVectors, Inv, RequestOK, Deleting
  <1>3. StoresTyped'
    BY DEF DeletePick, DeleteCommit, DeleteFile, DeleteVectors, libraryVars, ServerTyped, StoresTyped
  <1>4. CASE DeletePick(q)
    <2>1. UNCHANGED rows
      BY <1>4 DEF DeletePick, libraryVars
    <2>2. CASE Finish(q, "failed")
      BY <1>2, <1>3, <2>1, <2>2, SlotEnds, SameRows DEF ServerMoves
    <2>3. ASSUME NEW n \in 0..MaxResumes,
                 req' = [req EXCEPT ![q].phase = "picked", ![q].pick = n]
          PROVE  ServerMoves /\ MineWaits(q)
      <3> DEFINE e == [req[q] EXCEPT !.phase = "picked", !.pick = n]
      <3>1. req' = [req EXCEPT ![q] = e]
        BY <2>3
      <3>3. e = [req[q] EXCEPT !.phase = "picked", !.pick = n]
        OBVIOUS
      <3> HIDE DEF e
      <3>2. RequestTyped(e) /\ e.op = req[q].op
        BY <1>1, <3>3, PickedTyped DEF GoesOn
      <3> QED
        BY <1>2, <1>3, <2>1, <3>1, <3>2, SlotMoves, SameRows DEF ServerMoves
    <2> DEFINE other == IF req[q].was THEN MostRecentOther(req[q].id) ELSE 0
               n == IF other \in Active THEN 0 ELSE other
    <2>4. n \in 0..MaxResumes
      <3>1. MostRecentOther(req[q].id) \in {0} \cup Live
        BY Successor
      <3> QED
        BY <3>1, LibraryAssumption DEF Live, Ids
    <2>5. Finish(q, "failed") \/ req' = [req EXCEPT ![q].phase = "picked", ![q].pick = n]
      BY <1>4 DEF DeletePick
    <2> HIDE DEF n
    <2> QED
      BY <2>2, <2>3, <2>4, <2>5
  <1>5. ASSUME NEW ph \in {"files", "vectors"}, req' = [req EXCEPT ![q].phase = ph]
        PROVE  /\ \A p \in Requests : req'[p] = req[p] \/ RequestMade(p)
               /\ MineWaits(q)
    <2> DEFINE e == [req[q] EXCEPT !.phase = ph]
    <2>1. req' = [req EXCEPT ![q] = e]
      BY <1>5
    <2>3. e = [req[q] EXCEPT !.phase = ph]
      OBVIOUS
    <2> HIDE DEF e
    <2>4. ph \in {"inserting", "files", "vectors"}
      OBVIOUS
    <2>2. RequestTyped(e) /\ e.op = req[q].op
      BY <1>1, <2>3, <2>4, NextPhaseTyped DEF GoesOn
    <2> QED
      BY <1>2, <2>1, <2>2, SlotMoves
  <1>6. CASE DeleteCommit(q)
    <2> DEFINE id == req[q].id
               pick == req[q].pick
    <2>1. CASE Finish(q, "failed") /\ UNCHANGED rows
      BY <1>2, <1>3, <2>1, SlotEnds, SameRows DEF ServerMoves
    <2>3. pick # id
      BY <1>6 DEF DeleteCommit, Inv, RequestOK, Deleting
    <2>2. CASE /\ ~DeleteRefused(id, pick)
               /\ rows' = [r \in Ids |-> CASE r = id -> Deleted(rows[r])
                                           [] r = pick -> [rows[r] EXCEPT !.active = TRUE]
                                           [] OTHER -> rows[r]]
               /\ req' = [req EXCEPT ![q].phase = "files"]
      <3>1. ASSUME NEW r \in Ids
            PROVE  /\ r = id => rows'[r] = Deleted(rows[r])
                   /\ r # id /\ r = pick => rows'[r] = [rows[r] EXCEPT !.active = TRUE]
                   /\ r # id /\ r # pick => rows'[r] = rows[r]
        <4>1. CASE r = id
          BY <2>2, <2>3, <4>1
        <4>2. CASE r # id /\ r = pick
          BY <2>2, <4>2
        <4>3. CASE r # id /\ r # pick
          BY <2>2, <4>3
        <4> QED
          BY <4>1, <4>2, <4>3
      <3>2. \A r \in Ids : r = pick => rows[r].life = "live"
        BY <2>2, LibraryAssumption DEF DeleteRefused, Live, Ids
      <3>3. \A r \in Ids : RowTyped(rows[r])
        BY DEF ServerTyped, RowsTyped
      <3>4. ASSUME NEW r \in Ids
            PROVE  RowTyped(rows'[r])
        <4>1. CASE r = id
          <5>1. rows'[r] = Deleted(rows[r])
            BY <3>1, <4>1
          <5>2. RowTyped(Deleted(rows[r]))
            BY FirstRows
          <5> QED
            BY <5>1, <5>2
        <4>2. CASE r # id /\ r = pick
          <5>1. rows'[r] = [rows[r] EXCEPT !.active = TRUE]
            BY <3>1, <4>2
          <5>2. RowTyped(rows[r]) /\ rows[r].life = "live"
            BY <3>2, <3>3, <4>2
          <5> QED
            BY <5>1, <5>2, RowEdits
        <4>3. CASE r # id /\ r # pick
          BY <3>1, <3>3, <4>3
        <4> QED
          BY <4>1, <4>2, <4>3
      <3>5. rows' \in [Ids -> Row]
        <4>1. rows' = [r \in Ids |-> rows'[r]]
          BY <2>2
        <4>2. \A r \in Ids : rows'[r] \in Row
          BY <3>4 DEF RowTyped
        <4> QED
          BY <4>1, <4>2
      <3>6. ASSUME NEW r \in Ids
            PROVE  /\ r = id => rows'[r].life = "gone"
                   /\ r # id => rows'[r].life = rows[r].life /\ rows'[r].gap = rows[r].gap
        <4>1. CASE r = id
          BY <3>1, <4>1, FirstRows
        <4>2. CASE r # id /\ r = pick
          BY <3>1, <3>3, <4>2 DEF RowTyped, Row
        <4>3. CASE r # id /\ r # pick
          BY <3>1, <4>3
        <4> QED
          BY <4>1, <4>2, <4>3
      <3>7. GapsStay
        BY <3>6 DEF GapsStay
      <3> QED
        BY <1>3, <1>5, <2>2, <3>4, <3>5, <3>7 DEF ServerMoves, RowsTyped
    <2> QED
      BY <1>6, <2>1, <2>2 DEF DeleteCommit
  <1>7. CASE DeleteFile(q)
    BY <1>3, <1>5, <1>7, SameRows DEF DeleteFile, ServerMoves
  <1>8. CASE DeleteVectors(q)
    BY <1>2, <1>3, <1>8, SameRows, SlotEnds DEF DeleteVectors, ServerMoves
  <1> QED
    BY <1>4, <1>6, <1>7, <1>8

\* The write of a readiness.
LEMMA ReadinessCommitTyped ==
    ASSUME Inv, ServerTyped, NEW q \in Requests, ReadinessCommit(q)
    PROVE  ServerMoves /\ MineWaits(q)
  <1> DEFINE id == req[q].id
  <1>1. req[q].op = "readiness" /\ id \in Ids /\ req[q].made \in Gaps
    BY DEF ReadinessCommit, Inv, RequestOK, Computing, ServerTyped, RequestsTyped, ReadinessTyped
  <1>2. StoresTyped'
    BY DEF ReadinessCommit, ServerTyped, StoresTyped
  <1>3. CASE Finish(q, "failed") /\ UNCHANGED rows
    BY <1>1, <1>2, <1>3, SlotEnds, SameRows DEF ServerMoves
  <1>4. ASSUME NEW g \in Gaps, id \in Live, rows' = [rows EXCEPT ![id].gap = g], Finish(q, "ok")
        PROVE  ServerMoves /\ MineWaits(q)
    <2> DEFINE row == [rows[id] EXCEPT !.gap = g]
    <2>1. RowTyped(rows[id]) /\ rows[id].life = "live" /\ rows[id].status = "done"
      BY <1>1, <1>4 DEF ServerTyped, RowsTyped, Live, Inv, RequestOK, Computing
    <2>2. RowTyped(row) /\ row.life = "live" /\ row.gap = g
      BY <2>1, RowEdits DEF RowTyped, Row
    <2>3. rows' = [rows EXCEPT ![id] = row]
      BY <1>4
    <2> HIDE DEF row, id
    <2>4. RowsTyped' /\ GapsStay
      BY <1>1, <1>4, <2>1, <2>2, <2>3, OneRow
    <2> QED
      BY <1>1, <1>2, <1>4, <2>4, SlotEnds DEF ServerMoves
  <1>5. CASE id \in Live /\ ~(Finish(q, "failed") /\ UNCHANGED rows)
    <2> DEFINE loaded == req[q].loaded
               now == rows[id].gap
               g == IF loaded = NoGap THEN req[q].made ELSE Merged(now, loaded, req[q].made)
    <2>1. g \in Gaps
      BY <1>1, <1>5, MergedTyped DEF ServerTyped, RequestsTyped, ReadinessTyped
    <2>2. rows' = [rows EXCEPT ![id].gap = g] /\ Finish(q, "ok")
      BY <1>5 DEF ReadinessCommit
    <2> HIDE DEF g
    <2> QED
      BY <1>4, <1>5, <2>1, <2>2
  <1>6. CASE id \notin Live
    BY <1>3, <1>6 DEF ReadinessCommit
  <1> QED
    BY <1>3, <1>5, <1>6

\* A request that begins.
MineBegins(q) ==
    /\ q = Mine => req'[Mine] # Idle
    /\ q # Mine => req'[Mine] = req[Mine]

\* A request that begins, in the slots.
LEMMA SlotBegins ==
    ASSUME Inv, NEW q \in Requests, NEW e, req' = [req EXCEPT ![q] = e], RequestTyped(e),
           e.op # "none",
           e.op = "readiness" =>
               /\ e.made \in Gaps
               /\ e.loaded # NoGap => rows[e.id].gap \in Gaps
               /\ UNCHANGED rows
    PROVE  /\ \A p \in Requests : req'[p] = req[p] \/ RequestMade(p)
           /\ MineBegins(q)
  <1>1. e # Idle
    BY NotIdle
  <1>2. req'[q] = e /\ \A p \in Requests : p # q => req'[p] = req[p]
    BY DEF Inv, Shapes, RequestShapes
  <1>3. Mine \in Requests
    BY LibraryAssumption
  <1>4. RequestMade(q)
    BY <1>2 DEF RequestMade
  <1>5. MineBegins(q)
    BY <1>1, <1>2, <1>3 DEF MineBegins
  <1> QED
    BY <1>2, <1>4, <1>5

\* A request that is refused at once.
LEMMA SlotRefused ==
    ASSUME Inv, NEW q \in Requests, NEW o \in {"ok", "failed", "conflict"}, Finish(q, o)
    PROVE  /\ \A p \in Requests : req'[p] = req[p] \/ RequestMade(p)
           /\ MineBegins(q)
  <1>1. q = Mine => req'[q] # Idle
    BY FinishTyped, NotIdle
  <1>2. \A p \in Requests : p # q => req'[p] = req[p]
    BY DEF Finish, Inv, Shapes, RequestShapes
  <1>3. Mine \in Requests
    BY LibraryAssumption
  <1>4. MineBegins(q)
    BY <1>1, <1>2, <1>3 DEF MineBegins
  <1> QED
    BY <1>4, FinishTyped

\* The file of an upload is saved.
LEMMA UploadSaveTyped ==
    ASSUME Inv, ServerTyped, NEW q \in Requests, UploadSave(q)
    PROVE  ServerMoves /\ MineBegins(q)
  <1>1. PICK id \in Ids : /\ files' = files \cup {id}
                          /\ req' = [req EXCEPT ![q] = [Idle EXCEPT !.op = "upload", !.phase = "saved",
                                                                    !.id = id]]
    BY DEF UploadSave
  <1> DEFINE e == [Idle EXCEPT !.op = "upload", !.phase = "saved", !.id = id]
  <1>2. RequestTyped(e) /\ e.op = "upload"
    <2>1. id \in 0..MaxResumes
      BY LibraryAssumption DEF Ids
    <2> QED
      BY <2>1, IdleTyped DEF RequestTyped, RequestFields, Idle
  <1>3. req' = [req EXCEPT ![q] = e]
    BY <1>1
  <1> HIDE DEF e
  <1>4. StoresTyped'
    BY <1>1 DEF UploadSave, ServerTyped, StoresTyped
  <1>5. UNCHANGED rows
    BY DEF UploadSave
  <1> QED
    BY <1>2, <1>3, <1>4, <1>5, SlotBegins, SameRows DEF ServerMoves

\* A deletion reads its row.
LEMMA DeleteReadTyped ==
    ASSUME Inv, ServerTyped, NEW q \in Requests, NEW r \in Ids, DeleteRead(q, r)
    PROVE  ServerMoves /\ MineBegins(q)
  <1> DEFINE e == [Idle EXCEPT !.op = "delete", !.phase = "read", !.id = r, !.was = rows[r].active]
  <1>1. RequestTyped(e) /\ e.op = "delete"
    <2>1. r \in 0..MaxResumes
      BY LibraryAssumption DEF Ids
    <2>2. rows[r].active \in BOOLEAN
      BY DEF Inv, Shapes, RowShapes, IsRow
    <2> QED
      BY <2>1, <2>2, IdleTyped DEF RequestTyped, RequestFields, Idle
  <1>2. req' = [req EXCEPT ![q] = e]
    BY DEF DeleteRead
  <1> HIDE DEF e
  <1>3. StoresTyped'
    BY DEF DeleteRead, Overlap, ServerTyped, StoresTyped
  <1>4. UNCHANGED rows
    BY DEF DeleteRead
  <1> QED
    BY <1>1, <1>2, <1>3, <1>4, SlotBegins, SameRows DEF ServerMoves

\* A readiness is computed.
LEMMA ReadinessReadTyped ==
    ASSUME Inv, ServerTyped, NEW q \in Requests, NEW r \in Ids, NEW role \in RoleKeys,
           ReadinessRead(q, r, role)
    PROVE  ServerMoves /\ MineBegins(q)
  <1>1. UNCHANGED rows
    BY DEF ReadinessRead
  <1>2. StoresTyped'
    BY DEF ReadinessRead, Overlap, ServerTyped, StoresTyped
  <1>3. CASE Ready(r)
    <2> DEFINE gap == rows[r].gap
               made == GapOf(rows[r].profile, role)
               e == [Idle EXCEPT !.op = "readiness", !.phase = "computed", !.id = r,
                                 !.loaded = gap, !.made = made]
    <2>1. RowTyped(rows[r])
      BY DEF ServerTyped, RowsTyped
    <2>2. rows[r].profile \in Profiles /\ gap \in Gaps \cup {NoGap}
      BY <1>3, <2>1 DEF Ready, Inv, DoneOnce, RowTyped, Row
    <2>3. made \in Gaps
      BY <2>2, GapOfTyped
    <2>4. req' = [req EXCEPT ![q] = e]
      BY <1>3 DEF ReadinessRead
    <2>5. gap = rows[r].gap
      OBVIOUS
    <2> HIDE DEF gap, made
    <2>6. /\ RequestTyped(e)
          /\ e.op = "readiness" /\ e.id = r /\ e.loaded = gap /\ e.made = made
      <3>1. r \in 0..MaxResumes
        BY LibraryAssumption DEF Ids
      <3> QED
        BY <2>2, <2>3, <3>1, IdleTyped DEF RequestTyped, RequestFields, Idle
    <2> HIDE DEF e
    <2>7. e.loaded # NoGap => rows[e.id].gap \in Gaps
      BY <2>2, <2>5, <2>6
    <2> QED
      BY <1>1, <1>2, <2>3, <2>4, <2>6, <2>7, SlotBegins, SameRows DEF ServerMoves
  <1>4. CASE ~Ready(r)
    <2>1. Finish(q, "conflict")
      BY <1>4 DEF ReadinessRead
    <2> QED
      BY <1>1, <1>2, <2>1, SlotRefused, SameRows DEF ServerMoves
  <1> QED
    BY <1>3, <1>4

\* A plan request reads its template.
LEMMA PlanReadTyped ==
    ASSUME Inv, ServerTyped, NEW q \in Requests, NEW ask, PlanRead(q, ask)
    PROVE  ServerMoves /\ MineBegins(q)
  <1>1. UNCHANGED rows
    BY DEF PlanRead, libraryVars
  <1>2. StoresTyped'
    BY DEF PlanRead, libraryVars, ServerTyped, StoresTyped
  <1>3. CASE Finish(q, "failed")
    BY <1>1, <1>2, <1>3, SlotRefused, SameRows DEF ServerMoves
  <1>4. ASSUME NEW d, req' = [req EXCEPT ![q] = [Idle EXCEPT !.op = "plan", !.phase = "template",
                                                             !.draft = d]]
        PROVE  ServerMoves /\ MineBegins(q)
    <2> DEFINE e == [Idle EXCEPT !.op = "plan", !.phase = "template", !.draft = d]
    <2>1. RequestTyped(e) /\ e.op = "plan"
      BY IdleTyped DEF RequestTyped, RequestFields, Idle
    <2>2. req' = [req EXCEPT ![q] = e]
      BY <1>4
    <2> HIDE DEF e
    <2> QED
      BY <1>1, <1>2, <2>1, <2>2, SlotBegins, SameRows DEF ServerMoves
  <1> QED
    BY <1>3, <1>4 DEF PlanRead

\* A plan is drafted and stored.
LEMMA PlanTyped ==
    ASSUME Inv, ServerTyped, NEW q \in Requests, PlanDraft(q) \/ PlanCommit(q)
    PROVE  ServerMoves /\ MineWaits(q)
  <1>1. UNCHANGED rows
    BY DEF PlanDraft, PlanCommit, libraryVars
  <1>2. StoresTyped'
    BY DEF PlanDraft, PlanCommit, libraryVars, ServerTyped, StoresTyped
  <1>3. RequestTyped(req[q]) /\ req[q].op = "plan"
    BY DEF PlanDraft, PlanCommit, ServerTyped, RequestsTyped
  <1>4. ASSUME NEW o \in {"ok", "failed"}, Finish(q, o)
        PROVE  ServerMoves /\ MineWaits(q)
    BY <1>1, <1>2, <1>3, <1>4, SlotEnds, SameRows DEF ServerMoves
  <1>5. ASSUME NEW d, req' = [req EXCEPT ![q].phase = "drafted", ![q].draft = d]
        PROVE  ServerMoves /\ MineWaits(q)
    <2> DEFINE e == [req[q] EXCEPT !.phase = "drafted", !.draft = d]
    <2>1. req' = [req EXCEPT ![q] = e]
      BY <1>5
    <2>2. e = [req[q] EXCEPT !.phase = "drafted", !.draft = d]
      OBVIOUS
    <2> HIDE DEF e
    <2>3. GoesOn(req[q], e, "drafted")
      <3>1. RequestTyped(req[q])
        BY <1>3
      <3> QED
        BY ONLY <2>2, <3>1, DraftedTyped
    <2>4. RequestTyped(e) /\ e.op = "plan"
      BY <1>3, <2>3 DEF GoesOn
    <2> QED
      BY <1>1, <1>2, <1>3, <2>1, <2>4, SlotMoves, SameRows DEF ServerMoves
  <1>6. CASE PlanDraft(q)
    BY <1>4, <1>5, <1>6 DEF PlanDraft
  <1>7. CASE PlanCommit(q)
    BY <1>4, <1>7 DEF PlanCommit
  <1> QED
    BY <1>6, <1>7

\* A commit of the job.
LEMMA JobCommitTyped ==
    ASSUME Inv, ServerTyped, NEW r \in Ids, NEW row, NEW stage \in JobStages,
           JobCommit(r, row, stage), UNCHANGED <<files, vectors, req, overlapped>>,
           r \in Live => RowTyped(row) /\ row.gap = rows[r].gap
    PROVE  ServerMoves
  <1>1. StoresTyped'
    BY DEF JobCommit, ServerTyped, StoresTyped, JobStages
  <1>2. CASE r \in Live
    <2>1. rows' = [rows EXCEPT ![r] = row] /\ rows[r].life = "live"
      BY <1>2 DEF JobCommit, Live
    <2>2. RowsTyped' /\ GapsStay
      BY <1>2, <2>1, OneRow
    <2> QED
      BY <1>1, <2>2 DEF ServerMoves
  <1>3. CASE r \notin Live
    BY <1>1, <1>3, SameRows DEF JobCommit, ServerMoves
  <1> QED
    BY <1>2, <1>3

\* The status of a resume that is not analysed.
LEMMA StatusTyped ==
    ASSUME ServerTyped, NEW r \in Live, rows[r].status # "done",
           NEW status \in {"processing", "failed"}
    PROVE  RowTyped(WithStatus(r, status)) /\ WithStatus(r, status).gap = rows[r].gap
  <1>1. RowTyped(rows[r]) /\ rows[r].life = "live"
    BY DEF ServerTyped, RowsTyped, Live
  <1>2. status \in Statuses \ {"done"}
    BY DEF Statuses
  <1>3. RowTyped([rows[r] EXCEPT !.status = status])
    BY <1>1, <1>2, RowEdits
  <1>4. [rows[r] EXCEPT !.status = status].gap = rows[r].gap
    BY <1>1 DEF RowTyped, Row
  <1> QED
    BY <1>3, <1>4 DEF WithStatus

\* The stages of the job.
LEMMA JobTyped ==
    ASSUME Inv, ServerTyped, NEW r \in Ids, JobStep(r)
    PROVE  ServerMoves /\ UNCHANGED req
  <1>1. UNCHANGED <<files, req, overlapped>>
    BY DEF JobStep, JobStart, JobRead, JobAsk, JobIndex, JobEmbed
  <1>2. jobs[r] \notin Finished => rows[r].status # "done"
    BY DEF Inv, DoneOnce
  <1>3. ASSUME jobs[r] \notin Finished, UNCHANGED vectors,
               \/ JobCommit(r, WithStatus(r, "processing"), "reading")
               \/ JobCommit(r, WithStatus(r, "failed"), "ended")
        PROVE  ServerMoves
    <2>1. "reading" \in JobStages /\ "ended" \in JobStages
      BY DEF JobStages
    <2>2. CASE JobCommit(r, WithStatus(r, "processing"), "reading")
      <3>1. r \in Live => RowTyped(WithStatus(r, "processing"))
                           /\ WithStatus(r, "processing").gap = rows[r].gap
        BY <1>2, <1>3, StatusTyped
      <3> QED
        BY <1>1, <1>3, <2>1, <2>2, <3>1, JobCommitTyped
    <2>3. CASE JobCommit(r, WithStatus(r, "failed"), "ended")
      <3>1. r \in Live => RowTyped(WithStatus(r, "failed"))
                           /\ WithStatus(r, "failed").gap = rows[r].gap
        BY <1>2, <1>3, StatusTyped
      <3> QED
        BY <1>1, <1>3, <2>1, <2>3, <3>1, JobCommitTyped
    <2> QED
      BY <1>3, <2>2, <2>3
  <1>4. CASE JobStart(r)
    BY <1>1, <1>3, <1>4 DEF JobStart, Finished
  <1>5. CASE JobRead(r)
    <2>1. UNCHANGED vectors /\ jobs[r] \notin Finished
      BY <1>5 DEF JobRead, Finished
    <2>2. CASE JobCommit(r, rows[r], "asking")
      <3>1. r \in Live => RowTyped(rows[r])
        BY DEF ServerTyped, RowsTyped
      <3>2. "asking" \in JobStages
        BY DEF JobStages
      <3> QED
        BY <1>1, <2>1, <2>2, <3>1, <3>2, JobCommitTyped
    <2>3. CASE JobCommit(r, WithStatus(r, "failed"), "ended")
      BY <1>1, <1>3, <2>1, <2>3
    <2> QED
      BY <1>1, <1>5, <2>2, <2>3 DEF JobRead
  <1>6. CASE JobAsk(r)
    <2>1. UNCHANGED vectors /\ jobs[r] \notin Finished
      BY <1>6 DEF JobAsk, Finished
    <2>2. ASSUME NEW p \in Profiles, JobCommit(r, [WithStatus(r, "done") EXCEPT !.profile = p], "indexing")
          PROVE  ServerMoves
      <3> DEFINE row == [WithStatus(r, "done") EXCEPT !.profile = p]
      <3>1. ASSUME r \in Live
            PROVE  RowTyped(row) /\ row.gap = rows[r].gap
        <4>1. RowTyped(rows[r]) /\ rows[r].life = "live"
          BY <3>1 DEF ServerTyped, RowsTyped, Live
        <4>2. RowTyped(row)
          BY <4>1, AnalysedRow DEF WithStatus
        <4>3. row.gap = rows[r].gap
          BY <4>1 DEF RowTyped, Row, WithStatus
        <4> QED
          BY <4>2, <4>3
      <3>2. JobCommit(r, row, "indexing")
        BY <2>2
      <3> HIDE DEF row
      <3>3. "indexing" \in JobStages
        BY DEF JobStages
      <3> QED
        BY <1>1, <2>1, <3>1, <3>2, <3>3, JobCommitTyped
    <2>3. CASE jobs' = [jobs EXCEPT ![r] = "died"] /\ UNCHANGED rows
      <3>1. StoresTyped'
        BY <1>1, <2>1, <2>3 DEF ServerTyped, StoresTyped, JobStages
      <3> QED
        BY <1>1, <2>3, <3>1, SameRows DEF ServerMoves
    <2>4. CASE JobCommit(r, WithStatus(r, "failed"), "ended")
      BY <1>1, <1>3, <2>1, <2>4
    <2>5. \A p \in world.extracted : p \in Profiles
      BY DEF Inv, Shapes, WorldShape
    <2> QED
      BY <1>1, <1>6, <2>2, <2>3, <2>4, <2>5 DEF JobAsk
  <1>7. CASE JobIndex(r) \/ JobEmbed(r)
    <2>1. UNCHANGED rows
      BY <1>7 DEF JobIndex, JobEmbed
    <2>2. StoresTyped'
      BY <1>1, <1>7 DEF JobIndex, JobEmbed, ServerTyped, StoresTyped, JobStages
    <2> QED
      BY <1>1, <2>1, <2>2, SameRows DEF ServerMoves
  <1> QED
    BY <1>1, <1>4, <1>5, <1>6, <1>7 DEF JobStep

\* A crash: the tab still waits if it did.
LEMMA CrashTyped ==
    ASSUME Inv, ServerTyped, Crash
    PROVE  ServerMoves /\ (req'[Mine] = Idle <=> req[Mine] = Idle)
  <1>1. UNCHANGED rows
    BY DEF Crash
  <1>2. StoresTyped'
    <2>1. ASSUME NEW r \in Ids
          PROVE  jobs'[r] \in JobStages
      BY DEF Crash, ServerTyped, StoresTyped, JobStages
    <2>2. jobs' = [r \in Ids |-> jobs'[r]]
      BY DEF Crash
    <2>3. jobs' \in [Ids -> JobStages]
      BY <2>1, <2>2
    <2> QED
      BY <2>3 DEF Crash, ServerTyped, StoresTyped
  <1>3. ASSUME NEW q \in Requests
        PROVE  /\ req'[q] = req[q] \/ RequestMade(q)
               /\ q = Mine => (req'[q] = Idle <=> req[q] = Idle)
    <2> DEFINE failed == [Idle EXCEPT !.phase = "failed"]
    <2>1. RequestTyped(failed) /\ failed.op = "none" /\ failed # Idle
      BY IdleTyped, NotIdle
    <2>2. RequestTyped(Idle) /\ Idle.op = "none"
      BY IdleTyped
    <2>3. CASE req[q].op = "none"
      <3>1. req'[q] = req[q]
        BY <2>3 DEF Crash
      <3> QED
        BY <3>1
    <2>4. CASE req[q].op # "none" /\ q = Mine
      <3>1. req'[q] = failed /\ req[q] # Idle
        BY <2>4, NotIdle DEF Crash
      <3> HIDE DEF failed
      <3> QED
        BY <2>1, <3>1 DEF RequestMade
    <2>5. CASE req[q].op # "none" /\ q # Mine
      <3>1. req'[q] = Idle
        BY <2>5 DEF Crash
      <3> QED
        BY <2>2, <2>5, <3>1 DEF RequestMade
    <2> QED
      BY <2>3, <2>4, <2>5
  <1>4. Mine \in Requests
    BY LibraryAssumption
  <1> QED
    BY <1>1, <1>2, <1>3, <1>4, SameRows DEF ServerMoves

\* What the server and other clients do: the tab's request stays as it was.
LEMMA ServerSideTyped ==
    ASSUME Inv, ServerTyped,
           \/ \E q \in Requests : Others(q) \/ Serve(q)
           \/ \E r \in Ids : Work(r)
           \/ Deploy \/ Die
    PROVE  /\ ServerMoves
           /\ req'[Mine] = Idle <=> req[Mine] = Idle
  <1>1. ASSUME NEW q \in Requests, Others(q)
        PROVE  ServerMoves /\ req'[Mine] = req[Mine]
    <2>1. ServerMoves /\ MineBegins(q)
      BY <1>1, UploadSaveTyped, DeleteReadTyped, ReadinessReadTyped, PlanReadTyped DEF Others
    <2> QED
      BY <1>1, <2>1 DEF Others, MineBegins
  <1>2. ASSUME NEW q \in Requests, Serve(q)
        PROVE  ServerMoves /\ (req'[Mine] = Idle <=> req[Mine] = Idle)
    <2>1. ServerMoves /\ MineWaits(q)
      BY <1>2, UploadTyped, DeleteTyped, ReadinessCommitTyped, PlanTyped
         DEF Serve, PlanningStep, LibraryStep
    <2> QED
      BY <2>1 DEF MineWaits
  <1>3. ASSUME NEW r \in Ids, Work(r)
        PROVE  ServerMoves /\ req'[Mine] = req[Mine]
    BY <1>3, JobTyped DEF Work
  <1>4. CASE Deploy
    <2>1. UNCHANGED <<rows, files, vectors, jobs, overlapped, req>>
      BY <1>4 DEF Deploy, SeedCatalog, libraryVars
    <2>2. StoresTyped'
      BY <2>1 DEF ServerTyped, StoresTyped
    <2> QED
      BY <2>1, <2>2, SameRows DEF ServerMoves
  <1>5. CASE Die
    BY <1>5, CrashTyped DEF Die
  <1> QED
    BY <1>1, <1>2, <1>3, <1>4, <1>5

-----------------------------------------------------------------------------
(* What the tab holds has its type. *)

\* What a list shows of a resume.
Shown == Statuses \cup {"absent"}

\* The status of a store.
Loads == {"idle", "loading", "success", "error"}

\* What the tab may wait for.
Waits == {"none", "upload", "delete", "readiness", "plan"}

\* What a store holds of one kind.
EntryTyped(kind, entry) ==
    /\ DOMAIN entry = {"status", "data"}
    /\ entry.status \in Loads
    /\ kind = "list" => entry.data \in [Ids -> Shown]

\* The stores.
StoreTyped(s) == DOMAIN s = Kinds /\ \A kind \in Kinds : EntryTyped(kind, s[kind])

\* A GET in flight: a list is answered with a list, or not at all.
FetchTyped(g) ==
    /\ DOMAIN g = {"kind", "of", "phase", "answer"}
    /\ g.phase # "free" => g.kind \in Kinds
    /\ g.phase = "answered" /\ g.kind = "list" => g.answer \in {Nothing} \cup [Ids -> Shown]

\* The GETs in flight.
FetchesTyped(fs) == \A f \in DOMAIN fs : FetchTyped(fs[f])

\* The tab.
TabTyped(t) == t \in [page : Pages, of : 0..MaxResumes, awaiting : Waits]

\* The wizard.
WizardTyped(w) == DOMAIN w = {"step", "company", "role", "template"} /\ w.step \in Steps

\* The tab awaits an answer exactly while there is a request of it.
Agreed == tab.awaiting = "none" <=> req[Mine] = Idle

\* What the tab holds.
PagesTyped == TabTyped(tab) /\ StoreTyped(store) /\ FetchesTyped(fetches) /\ WizardTyped(wizard)

\* A status is set.
LEMMA StatusSet ==
    ASSUME NEW s, StoreTyped(s), NEW kind \in Kinds, NEW st \in Loads,
           NEW t, t = [s EXCEPT ![kind].status = st]
    PROVE  StoreTyped(t)
  <1> DEFINE entry == [s[kind] EXCEPT !.status = st]
  <1>1. EntryTyped(kind, entry)
    BY DEF StoreTyped, EntryTyped
  <1>2. DOMAIN t = Kinds
    BY DEF StoreTyped
  <1>3. t[kind] = entry /\ \A k \in Kinds : k # kind => t[k] = s[k]
    BY DEF StoreTyped
  <1> HIDE DEF entry
  <1> QED
    BY <1>1, <1>2, <1>3 DEF StoreTyped

\* An entry is replaced.
LEMMA EntrySet ==
    ASSUME NEW s, StoreTyped(s), NEW kind \in Kinds, NEW entry, EntryTyped(kind, entry),
           NEW t, t = [s EXCEPT ![kind] = entry]
    PROVE  StoreTyped(t)
  BY DEF StoreTyped

\* The stores before any fetch.
LEMMA EmptyTyped == StoreTyped(Empty)
  <1>1. DOMAIN Empty = Kinds
    BY DEF Empty
  <1>2. ASSUME NEW kind \in Kinds
        PROVE  EntryTyped(kind, Empty[kind])
    <2> DEFINE held == CASE kind = "list" -> [r \in Ids |-> "absent"]
                         [] kind = "analysis" -> Nothing
                         [] OTHER -> {}
    <2>1. Empty[kind] = [status |-> "idle", data |-> held]
      BY DEF Empty
    <2>2. kind = "list" => held = [r \in Ids |-> "absent"]
      OBVIOUS
    <2> HIDE DEF held
    <2>3. kind = "list" => held \in [Ids -> Shown]
      BY <2>2 DEF Shown
    <2> QED
      BY <2>1, <2>3 DEF EntryTyped, Loads
  <1> QED
    BY <1>1, <1>2 DEF StoreTyped

\* A page is left.
LEMMA LeftTyped ==
    ASSUME StoreTyped(store)
    PROVE  StoreTyped(Left)
  <1> DEFINE entry == Empty["analysis"]
  <1>1. "analysis" \in Kinds
    BY DEF Kinds
  <1>2. EntryTyped("analysis", entry)
    BY <1>1, EmptyTyped DEF StoreTyped
  <1>3. Left = store \/ Left = [store EXCEPT !["analysis"] = entry]
    BY DEF Left
  <1> HIDE DEF entry
  <1> QED
    BY <1>1, <1>2, <1>3, EntrySet

\* A GET is sent.
LEMMA SendTyped ==
    ASSUME FetchesTyped(fetches), NEW kind \in Kinds, NEW of, Send(kind, of)
    PROVE  FetchesTyped(fetches')
  <1> DEFINE g == [kind |-> kind, of |-> of, phase |-> "sent", answer |-> Nothing]
             n == Min(FreeFetches)
  <1>1. FetchTyped(g)
    BY DEF FetchTyped
  <1>2. fetches' = [fetches EXCEPT ![n] = g]
    BY DEF Send
  <1> HIDE DEF g, n
  <1> QED
    BY <1>1, <1>2 DEF FetchesTyped

\* A GET is over.
LEMMA FreedTyped ==
    ASSUME FetchesTyped(fetches), NEW f, fetches' = [fetches EXCEPT ![f] = NoFetch]
    PROVE  FetchesTyped(fetches')
  <1>1. FetchTyped(NoFetch)
    BY DEF FetchTyped, NoFetch
  <1> QED
    BY <1>1 DEF FetchesTyped

\* A store takes an error.
LEMMA FailedTyped ==
    ASSUME StoreTyped(store), NEW kind \in Kinds
    PROVE  StoreTyped(Failed(kind))
  <1> DEFINE data == IF kind = "analysis" THEN Nothing ELSE store[kind].data
             entry == [store[kind] EXCEPT !.status = "error", !.data = data]
  <1>1. kind = "list" => data = store[kind].data
    OBVIOUS
  <1>2. Failed(kind) = [store EXCEPT ![kind] = entry]
    BY DEF Failed
  <1> HIDE DEF data
  <1>3. EntryTyped(kind, entry)
    BY <1>1 DEF StoreTyped, EntryTyped, Loads
  <1> HIDE DEF entry
  <1> QED
    BY <1>2, <1>3, EntrySet

\* The server answers a GET.
LEMMA AnswerTyped ==
    ASSUME ServerTyped, FetchesTyped(fetches), NEW f \in DOMAIN fetches, Answer(f)
    PROVE  FetchesTyped(fetches')
  <1> DEFINE a == Answered(fetches[f].kind, fetches[f].of)
             g == [fetches[f] EXCEPT !.phase = "answered", !.answer = a]
  <1>1. fetches' = [fetches EXCEPT ![f] = g] /\ fetches[f].phase = "sent"
    BY DEF Answer
  <1>2. FetchTyped(fetches[f])
    BY DEF FetchesTyped
  <1>3. ResumeList \in [Ids -> Shown]
    <2>1. \A r \in Ids : rows[r].status \in Statuses
      BY DEF ServerTyped, RowsTyped, Row
    <2> QED
      BY <2>1 DEF ResumeList, Shown
  <1>4. fetches[f].kind = "list" => a \in [Ids -> Shown]
    <2>1. fetches[f].kind = "list" => a = ResumeList
      BY DEF Answered
    <2> QED
      BY <1>3, <2>1
  <1> HIDE DEF a
  <1>5. FetchTyped(g)
    BY <1>1, <1>2, <1>4 DEF FetchTyped
  <1> HIDE DEF g
  <1> QED
    BY <1>1, <1>5 DEF FetchesTyped

\* The store takes an answer.
LEMMA ArriveTyped ==
    ASSUME PagesTyped, NEW f \in DOMAIN fetches, Arrive(f)
    PROVE  PagesTyped'
  <1> DEFINE kind == fetches[f].kind
             entry == [status |-> "success", data |-> fetches[f].answer]
  <1>1. FetchTyped(fetches[f]) /\ fetches[f].phase = "answered"
    BY DEF Arrive, PagesTyped, FetchesTyped
  <1>2. kind \in Kinds
    BY <1>1 DEF FetchTyped
  <1>3. FetchesTyped(fetches')
    BY FreedTyped DEF Arrive, PagesTyped
  <1>4. StoreTyped(store')
    <2>1. CASE fetches[f].answer = Nothing
      <3>1. store' = Failed(kind)
        BY <2>1 DEF Arrive
      <3> QED
        BY <1>2, <3>1, FailedTyped DEF PagesTyped
    <2>2. CASE fetches[f].answer # Nothing
      <3>1. store' = [store EXCEPT ![kind] = entry]
        BY <2>2 DEF Arrive
      <3>2. EntryTyped(kind, entry)
        BY <1>1, <2>2 DEF FetchTyped, EntryTyped, Loads
      <3> HIDE DEF entry, kind
      <3> QED
        BY <1>2, <3>1, <3>2, EntrySet DEF PagesTyped
    <2> QED
      BY <2>1, <2>2
  <1> QED
    BY <1>3, <1>4 DEF Arrive, PagesTyped

\* A GET fails.
LEMMA FetchFailsTyped ==
    ASSUME PagesTyped, NEW f \in DOMAIN fetches, FetchFails(f)
    PROVE  PagesTyped'
  <1>1. fetches[f].kind \in Kinds
    BY DEF FetchFails, PagesTyped, FetchesTyped, FetchTyped
  <1>2. FetchesTyped(fetches')
    BY FreedTyped DEF FetchFails, PagesTyped
  <1>3. StoreTyped(store')
    BY <1>1, FailedTyped DEF FetchFails, PagesTyped
  <1> QED
    BY <1>2, <1>3 DEF FetchFails, PagesTyped

\* A store that fetches again.
LEMMA ChosenTyped ==
    ASSUME PagesTyped, NEW kind \in Kinds, NEW of, Send(kind, of), store' = Loading(kind)
    PROVE  StoreTyped(store') /\ FetchesTyped(fetches')
  <1>1. store' = [store EXCEPT ![kind].status = "loading"] /\ "loading" \in Loads
    BY DEF Loading, Loads
  <1>2. StoreTyped(store')
    BY <1>1, StatusSet DEF PagesTyped
  <1> QED
    BY <1>2, SendTyped DEF PagesTyped

\* A page is opened.
LEMMA OpenTyped ==
    ASSUME PagesTyped, NEW page \in Pages, NEW of \in 0..MaxResumes, Open(page, of)
    PROVE  TabTyped(tab') /\ tab'.awaiting = tab.awaiting
  BY DEF Open, PagesTyped, TabTyped

\* What the tab does without a request.
LEMMA BrowsingTyped ==
    ASSUME PagesTyped,
           \/ OpenList \/ OpenWizard \/ \E r \in Ids : OpenDetail(r)
           \/ Poll \/ Retry
           \/ \E c \in Companies \cup {NoCompany} : SelectCompany(c)
           \/ \E r \in DOMAIN Roles : SelectRole(r)
           \/ \E t \in DOMAIN Templates : SelectTemplate(t)
           \/ Back \/ LoadResumes \/ PlanAnother
    PROVE  PagesTyped' /\ tab'.awaiting = tab.awaiting
  <1>1. /\ {"list", "analysis", "companies", "roles", "templates"} \subseteq Kinds
        /\ {"list", "detail", "wizard"} \subseteq Pages
        /\ {"loading", "idle"} \subseteq Loads
    BY DEF Kinds, Pages, Loads
  <1>2. 0 \in 0..MaxResumes /\ Ids \subseteq 0..MaxResumes
    BY LibraryAssumption DEF Ids
  <1>3. WizardTyped(FirstStep)
    BY DEF WizardTyped, FirstStep, Steps
  <1>4. CASE OpenList
    <2>1. store' = [Left EXCEPT !["list"].status = "loading"]
      BY <1>4 DEF OpenList
    <2>2. StoreTyped(store')
      BY <1>1, <2>1, LeftTyped, StatusSet DEF PagesTyped
    <2>3. FetchesTyped(fetches')
      BY <1>1, <1>4, SendTyped DEF OpenList, PagesTyped
    <2> QED
      BY <1>1, <1>2, <1>4, <2>2, <2>3, OpenTyped DEF OpenList, PagesTyped
  <1>5. CASE OpenWizard
    <2>1. CASE Send("companies", Nothing) /\ store' = [Left EXCEPT !["companies"].status = "loading"]
      <3>1. StoreTyped(store')
        BY <1>1, <2>1, LeftTyped, StatusSet DEF PagesTyped
      <3>2. FetchesTyped(fetches')
        BY <1>1, <2>1, SendTyped DEF PagesTyped
      <3> QED
        BY <1>1, <1>2, <1>3, <1>5, <3>1, <3>2, OpenTyped DEF OpenWizard, PagesTyped
    <2>2. CASE store' = Left /\ UNCHANGED fetches
      <3>1. StoreTyped(store') /\ FetchesTyped(fetches')
        BY <2>2, LeftTyped DEF PagesTyped
      <3> QED
        BY <1>1, <1>2, <1>3, <1>5, <3>1, OpenTyped DEF OpenWizard, PagesTyped
    <2> QED
      BY <1>5, <2>1, <2>2 DEF OpenWizard
  <1>6. ASSUME NEW r \in Ids, OpenDetail(r)
        PROVE  PagesTyped' /\ tab'.awaiting = tab.awaiting
    <2>1. StoreTyped(store') /\ FetchesTyped(fetches')
      BY <1>1, <1>6, ChosenTyped DEF OpenDetail
    <2> QED
      BY <1>1, <1>2, <1>6, <2>1, OpenTyped DEF OpenDetail, PagesTyped
  <1>7. CASE Poll
    <2>1. StoreTyped(store') /\ FetchesTyped(fetches')
      BY <1>1, <1>7, ChosenTyped DEF Poll
    <2> QED
      BY <1>7, <2>1 DEF Poll, PagesTyped
  <1>8. CASE Retry \/ LoadResumes
    <2>1. StoreTyped(store') /\ FetchesTyped(fetches')
      BY <1>1, <1>8, ChosenTyped DEF Retry, LoadResumes, Choose
    <2> QED
      BY <1>8, <2>1 DEF Retry, LoadResumes, Choose, PagesTyped
  <1>9. ASSUME NEW c, SelectCompany(c)
        PROVE  PagesTyped' /\ tab'.awaiting = tab.awaiting
    <2>1. StoreTyped(store') /\ FetchesTyped(fetches')
      BY <1>1, <1>9, ChosenTyped DEF SelectCompany, Choose
    <2>2. WizardTyped(wizard')
      BY <1>9 DEF SelectCompany, WizardTyped, Steps
    <2> QED
      BY <1>9, <2>1, <2>2 DEF SelectCompany, Choose, PagesTyped
  <1>10. ASSUME NEW r, SelectRole(r)
         PROVE  PagesTyped' /\ tab'.awaiting = tab.awaiting
    <2>1. StoreTyped(store') /\ FetchesTyped(fetches')
      BY <1>1, <1>10, ChosenTyped DEF SelectRole, Choose
    <2>2. WizardTyped(wizard')
      BY <1>10 DEF SelectRole, PagesTyped, WizardTyped, Steps
    <2> QED
      BY <1>10, <2>1, <2>2 DEF SelectRole, Choose, PagesTyped
  <1>11. ASSUME NEW t, SelectTemplate(t)
         PROVE  PagesTyped' /\ tab'.awaiting = tab.awaiting
    <2>1. WizardTyped(wizard')
      BY <1>11 DEF SelectTemplate, PagesTyped, WizardTyped, Steps
    <2> QED
      BY <1>11, <2>1 DEF SelectTemplate, PagesTyped
  <1>12. CASE Back
    <2>1. PICK step \in Steps : wizard' = [wizard EXCEPT !.step = step]
      BY <1>12 DEF Back, Steps
    <2>2. WizardTyped(wizard')
      BY <2>1 DEF PagesTyped, WizardTyped
    <2> QED
      BY <1>12, <2>2 DEF Back, PagesTyped
  <1>13. CASE PlanAnother
    <2>1. store' = [kind \in Kinds |-> IF kind \in {"roles", "templates"} THEN Empty[kind] ELSE store[kind]]
      BY <1>13 DEF PlanAnother
    <2>2. StoreTyped(store')
      BY <2>1, EmptyTyped DEF PagesTyped, StoreTyped
    <2> QED
      BY <1>3, <1>13, <2>2 DEF PlanAnother, PagesTyped
  <1> QED
    BY <1>4, <1>5, <1>6, <1>7, <1>8, <1>9, <1>10, <1>11, <1>12, <1>13

\* What the tab requests.
LEMMA AwaitTyped ==
    ASSUME PagesTyped, NEW op \in Waits \ {"none"}, Await(op), MineBegins(Mine),
           UNCHANGED <<store, fetches, wizard>>
    PROVE  PagesTyped' /\ Agreed'
  BY DEF Await, MineBegins, PagesTyped, TabTyped, Agreed

\* The requests of the tab begin.
LEMMA RequestingTyped ==
    ASSUME Inv, ServerTyped, PagesTyped,
           \/ TabUpload
           \/ \E r \in Ids : TabDelete(r)
           \/ \E role \in RoleKeys : TabReadiness(role)
           \/ \E r \in Ids \cup {0}, difficulty \in Difficulties : TabPlan(r, difficulty)
    PROVE  ServerMoves /\ PagesTyped' /\ Agreed'
  <1>1. Mine \in Requests
    BY LibraryAssumption
  <1>2. {"upload", "delete", "readiness", "plan"} \subseteq Waits \ {"none"}
    BY DEF Waits
  <1>3. CASE TabUpload
    BY <1>1, <1>2, <1>3, UploadSaveTyped, AwaitTyped DEF TabUpload
  <1>4. ASSUME NEW r \in Ids, TabDelete(r)
        PROVE  ServerMoves /\ PagesTyped' /\ Agreed'
    BY <1>1, <1>2, <1>4, DeleteReadTyped, AwaitTyped DEF TabDelete
  <1>5. ASSUME NEW role \in RoleKeys, TabReadiness(role)
        PROVE  ServerMoves /\ PagesTyped' /\ Agreed'
    <2>1. tab.of \in Ids
      BY <1>5 DEF TabReadiness, ReadinessRead, Live
    <2> QED
      BY <1>1, <1>2, <1>5, <2>1, ReadinessReadTyped, AwaitTyped DEF TabReadiness
  <1>6. ASSUME NEW r \in Ids \cup {0}, NEW difficulty \in Difficulties, TabPlan(r, difficulty)
        PROVE  ServerMoves /\ PagesTyped' /\ Agreed'
    BY <1>1, <1>2, <1>6, PlanReadTyped, AwaitTyped DEF TabPlan
  <1> QED
    BY <1>3, <1>4, <1>5, <1>6

\* The tab takes the answer to its request.
LEMMA AnsweredTyped ==
    ASSUME Inv, ServerTyped, PagesTyped, TabAnswered
    PROVE  ServerMoves /\ PagesTyped' /\ Agreed'
  <1>1. Mine \in Requests
    BY LibraryAssumption
  <1>2. RequestTyped(Idle) /\ Idle.op = "none"
    BY IdleTyped
  <1>3. /\ \A q \in Requests : req'[q] = req[q] \/ RequestMade(q)
        /\ req'[Mine] = Idle
    BY <1>1, <1>2, OneRequest DEF TabAnswered
  <1>4. UNCHANGED rows /\ StoresTyped'
    BY DEF TabAnswered, libraryVars, ServerTyped, StoresTyped
  <1>5. ServerMoves
    BY <1>3, <1>4, SameRows DEF ServerMoves
  <1>6. TabTyped(tab') /\ Agreed'
    BY <1>3 DEF TabAnswered, PagesTyped, TabTyped, Waits, Agreed
  <1>7. StoreTyped(store') /\ FetchesTyped(fetches')
    <2>1. "list" \in Kinds
      BY DEF Kinds
    <2>2. CASE Send("list", Nothing) /\ store' = Loading("list")
      BY <2>1, <2>2, ChosenTyped
    <2>3. CASE UNCHANGED <<fetches, store>>
      BY <2>3 DEF PagesTyped
    <2> QED
      BY <2>2, <2>3 DEF TabAnswered
  <1>8. WizardTyped(wizard')
    <2>1. wizard' = wizard \/ wizard' = [wizard EXCEPT !.step = "success"]
      BY DEF TabAnswered
    <2> QED
      BY <2>1 DEF PagesTyped, WizardTyped, Steps
  <1> QED
    BY <1>5, <1>6, <1>7, <1>8 DEF PagesTyped

-----------------------------------------------------------------------------
(* The types of the pages over the server. *)

\* The inductive form of the type invariant.
AllTyped == ServerTyped /\ PagesTyped /\ Agreed

\* It says what the type invariant says.
LEMMA SaysTypes == AllTyped => TypeOK
  <1> SUFFICES ASSUME AllTyped
               PROVE  TypeOK
    OBVIOUS
  <1>1. LibraryTypeOK
    BY SaysLibraryTypes DEF AllTyped
  <1>2. tab \in [page : Pages, of : 0..MaxResumes,
                 awaiting : {"none", "upload", "delete", "readiness", "plan"}]
    BY DEF AllTyped, PagesTyped, TabTyped, Waits
  <1>3. /\ \A kind \in Kinds : store[kind].status \in {"idle", "loading", "success", "error"}
        /\ \A r \in Ids : store["list"].data[r] \in Statuses \cup {"absent"}
    <2>1. "list" \in Kinds
      BY DEF Kinds
    <2>2. store["list"].data \in [Ids -> Shown]
      BY <2>1 DEF AllTyped, PagesTyped, StoreTyped, EntryTyped
    <2>3. \A kind \in Kinds : store[kind].status \in Loads
      BY DEF AllTyped, PagesTyped, StoreTyped, EntryTyped
    <2> QED
      BY <2>2, <2>3 DEF Shown, Loads
  <1>4. wizard.step \in Steps
    BY DEF AllTyped, PagesTyped, WizardTyped
  <1>5. (tab.awaiting = "none") = (req[Mine] = Idle)
    BY DEF AllTyped, Agreed
  <1> QED
    BY <1>1, <1>2, <1>3, <1>4, <1>5 DEF TypeOK

\* It holds at first.
LEMMA InitTyped == Init => AllTyped
  <1> SUFFICES ASSUME Init
               PROVE  AllTyped
    OBVIOUS
  <1>1. /\ world.stored \in 0..MaxResumes
        /\ world.profile \in Profiles /\ world.profile # NoProfile
    BY LibraryAssumption DEF Init, InitPlanning, InitLibrary
  <1>2. ASSUME NEW r \in Ids
        PROVE  rows[r] \in Row /\ RowTyped(rows[r])
    <2>1. CASE r <= world.stored
      <3>1. rows[r] = StoredRow(r)
        BY <2>1 DEF Init, InitPlanning, InitLibrary
      <3>2. RowTyped(StoredRow(r))
        BY <1>1 DEF StoredRow, Uploaded, Absent, RowTyped, Row, Statuses
      <3> QED
        BY <3>1, <3>2 DEF RowTyped
    <2>2. CASE ~(r <= world.stored)
      BY <2>2, FirstRows DEF Init, InitPlanning, InitLibrary, RowTyped
    <2> QED
      BY <2>1, <2>2
  <1>3. RowsTyped
    <2>1. rows = [r \in Ids |-> rows[r]]
      BY DEF Init, InitPlanning, InitLibrary
    <2>2. rows \in [Ids -> Row]
      BY <1>2, <2>1
    <2> QED
      BY <1>2, <2>2 DEF RowsTyped
  <1>4. StoresTyped
    <2>1. 1..world.stored \subseteq Ids
      BY <1>1, LibraryAssumption DEF Ids
    <2>2. jobs \in [Ids -> JobStages]
      BY DEF Init, InitPlanning, InitLibrary, JobStages
    <2> QED
      BY <2>1, <2>2 DEF StoresTyped, Init, InitPlanning, InitLibrary
  <1>5. \A q \in Requests : req[q] = Idle
    BY DEF Init, InitPlanning, InitLibrary
  <1>6. RequestsTyped
    BY <1>5, IdleTyped DEF RequestsTyped, ReadinessTyped
  <1>7. PagesTyped
    <2>1. TabTyped(tab)
      BY LibraryAssumption DEF Init, TabTyped, Pages, Waits
    <2>2. FetchesTyped(fetches)
      BY DEF Init, FetchesTyped, FetchTyped, NoFetch
    <2>3. WizardTyped(wizard)
      BY DEF Init, FirstStep, WizardTyped, Steps
    <2> QED
      BY <2>1, <2>2, <2>3, EmptyTyped DEF Init, PagesTyped
  <1>8. Agreed
    BY <1>5, LibraryAssumption DEF Init, Agreed
  <1> QED
    BY <1>3, <1>4, <1>6, <1>7, <1>8 DEF AllTyped, ServerTyped

\* Every step keeps it.
LEMMA StepTyped == Inv /\ AllTyped /\ [Next]_vars => AllTyped'
  <1> SUFFICES ASSUME Inv, AllTyped, [Next]_vars
               PROVE  AllTyped'
    OBVIOUS
  <1>1. ServerTyped /\ PagesTyped /\ Agreed
    BY DEF AllTyped
  <1>2. ASSUME UNCHANGED <<rows, files, vectors, jobs, overlapped, req>>
        PROVE  ServerTyped'
    BY <1>1, <1>2 DEF ServerTyped, RowsTyped, StoresTyped, RequestsTyped, ReadinessTyped, Live
  <1>3. ASSUME \/ \E q \in Requests : Others(q) \/ Serve(q)
               \/ \E r \in Ids : Work(r)
               \/ Deploy \/ Die
        PROVE  AllTyped'
    <2>1. UNCHANGED pageVars
      BY <1>3 DEF Others, Serve, Work, Deploy, Die
    <2>2. ServerTyped' /\ (req'[Mine] = Idle <=> req[Mine] = Idle)
      BY <1>1, <1>3, ServerSideTyped, ServerMovesTyped
    <2>3. PagesTyped' /\ Agreed'
      BY <1>1, <2>1, <2>2 DEF pageVars, PagesTyped, Agreed
    <2> QED
      BY <2>2, <2>3 DEF AllTyped
  <1>4. ASSUME \/ TabUpload
               \/ \E r \in Ids : TabDelete(r)
               \/ \E role \in RoleKeys : TabReadiness(role)
               \/ \E r \in Ids \cup {0}, difficulty \in Difficulties : TabPlan(r, difficulty)
        PROVE  AllTyped'
    BY <1>1, <1>4, RequestingTyped, ServerMovesTyped DEF AllTyped
  <1>5. CASE TabAnswered
    BY <1>1, <1>5, AnsweredTyped, ServerMovesTyped DEF AllTyped
  <1>6. ASSUME \/ OpenList \/ OpenWizard \/ \E r \in Ids : OpenDetail(r)
               \/ Poll \/ Retry
               \/ \E c \in Companies \cup {NoCompany} : SelectCompany(c)
               \/ \E r \in DOMAIN Roles : SelectRole(r)
               \/ \E t \in DOMAIN Templates : SelectTemplate(t)
               \/ Back \/ LoadResumes \/ PlanAnother
        PROVE  AllTyped'
    <2>1. UNCHANGED serverVars
      BY <1>6, TabReads
    <2>2. ServerTyped'
      BY <1>2, <2>1 DEF serverVars, libraryVars
    <2>3. PagesTyped' /\ tab'.awaiting = tab.awaiting
      BY <1>1, <1>6, BrowsingTyped
    <2> QED
      BY <1>1, <2>1, <2>2, <2>3 DEF AllTyped, Agreed, serverVars
  <1>7. ASSUME NEW f \in DOMAIN fetches, Answer(f)
        PROVE  AllTyped'
    <2>1. FetchesTyped(fetches')
      BY <1>1, <1>7, AnswerTyped DEF PagesTyped
    <2>2. UNCHANGED <<serverVars, tab, store, wizard>>
      BY <1>7 DEF Answer
    <2>3. ServerTyped'
      BY <1>2, <2>2 DEF serverVars, libraryVars
    <2> QED
      BY <1>1, <2>1, <2>2, <2>3 DEF AllTyped, PagesTyped, Agreed, serverVars
  <1>8. ASSUME NEW f \in DOMAIN fetches, Arrive(f)
        PROVE  AllTyped'
    <2>1. PagesTyped'
      BY <1>1, <1>8, ArriveTyped
    <2>2. UNCHANGED <<serverVars, tab>>
      BY <1>8 DEF Arrive
    <2>3. ServerTyped'
      BY <1>2, <2>2 DEF serverVars, libraryVars
    <2> QED
      BY <1>1, <2>1, <2>2, <2>3 DEF AllTyped, Agreed, serverVars
  <1>9. ASSUME NEW f \in DOMAIN fetches, FetchFails(f)
        PROVE  AllTyped'
    <2>1. PagesTyped'
      BY <1>1, <1>9, FetchFailsTyped
    <2>2. UNCHANGED <<libraryVars, req, tab>>
      BY <1>9 DEF FetchFails
    <2>3. ServerTyped'
      BY <1>2, <2>2 DEF libraryVars
    <2> QED
      BY <1>1, <2>1, <2>2, <2>3 DEF AllTyped, Agreed
  <1>10. CASE UNCHANGED vars
    <2>1. ServerTyped'
      BY <1>2, <1>10 DEF vars, serverVars, libraryVars
    <2> QED
      BY <1>1, <1>10, <2>1 DEF vars, serverVars, pageVars, AllTyped, PagesTyped, Agreed
  <1> QED
    BY <1>3, <1>4, <1>5, <1>6, <1>7, <1>8, <1>9, <1>10 DEF Next, Browse, Plan, Fetching

\* It holds in every reachable state.
LEMMA TypesInvariance == Spec => []AllTyped
  BY Invariance, InitTyped, StepTyped, PTL DEF Spec

\* Rows, requests, stores and pages have their types: an analysed resume has a profile and
\* no other has one, a readiness stands beside a profile, what a deletion leaves behind is
\* empty, and the tab waits for an answer exactly while there is a request of it.
THEOREM PreparationTypes == Spec => []TypeOK
  BY TypesInvariance, SaysTypes, PTL

-----------------------------------------------------------------------------
(* Plans are only added. *)

\* Every step keeps the plans there are.
LEMMA PlansOnlyAdded == [Next]_vars => plans \subseteq plans'
  <1> SUFFICES ASSUME [Next]_vars
               PROVE  plans \subseteq plans'
    OBVIOUS
  <1>1. ASSUME NEW q \in Requests, Others(q) \/ Serve(q)
        PROVE  plans \subseteq plans'
    <2>1. CASE Others(q)
      BY <2>1 DEF Others, UploadSave, DeleteRead, ReadinessRead, PlanRead
    <2>2. CASE Serve(q) /\ LibraryStep(q)
      BY <2>2 DEF LibraryStep, Deactivate, UploadCommit, DeletePick, DeleteCommit, DeleteFile,
                  DeleteVectors, ReadinessCommit
    <2>3. CASE Serve(q) /\ (PlanDraft(q) \/ PlanCommit(q))
      BY <2>3 DEF PlanDraft, PlanCommit
    <2> QED
      BY <1>1, <2>1, <2>2, <2>3 DEF Serve, PlanningStep
  <1>2. ASSUME NEW r \in Ids, Work(r)
        PROVE  plans \subseteq plans'
    BY <1>2 DEF Work, JobStep, JobStart, JobRead, JobAsk, JobIndex, JobEmbed
  <1>3. CASE Deploy \/ Die
    BY <1>3 DEF Deploy, SeedCatalog, Die, Crash
  <1>4. ASSUME \/ TabUpload
               \/ \E r \in Ids : TabDelete(r)
               \/ \E role \in RoleKeys : TabReadiness(role)
               \/ \E r \in Ids \cup {0}, difficulty \in Difficulties : TabPlan(r, difficulty)
        PROVE  plans \subseteq plans'
    BY <1>4 DEF TabUpload, UploadSave, TabDelete, DeleteRead, TabReadiness, ReadinessRead,
                TabPlan, PlanRead
  <1>5. ASSUME \/ OpenList \/ OpenWizard \/ \E r \in Ids : OpenDetail(r)
               \/ Poll \/ Retry
               \/ \E c \in Companies \cup {NoCompany} : SelectCompany(c)
               \/ \E r \in DOMAIN Roles : SelectRole(r)
               \/ \E t \in DOMAIN Templates : SelectTemplate(t)
               \/ Back \/ LoadResumes \/ PlanAnother
               \/ \E f \in DOMAIN fetches : Fetching(f)
        PROVE  plans \subseteq plans'
    BY <1>5, TabReads DEF serverVars
  <1>6. CASE TabAnswered
    BY <1>6 DEF TabAnswered
  <1>7. ASSUME NEW f \in DOMAIN fetches, FetchFails(f)
        PROVE  plans \subseteq plans'
    BY <1>7 DEF FetchFails
  <1>8. CASE UNCHANGED vars
    BY <1>8 DEF vars, serverVars
  <1> QED
    BY <1>1, <1>2, <1>3, <1>4, <1>5, <1>6, <1>7, <1>8 DEF Next, Browse, Plan

\* A plan is never changed or removed, and what an interview sees of it is what was
\* planned, whatever becomes of the catalog and the resumes.
THEOREM PlansNeverChange == Spec => PlansStand
  <1>1. [Next]_vars =>
            [\A plan \in plans : plan \in plans' /\ Context(plan)' = Context(plan)]_<<plans, catalog, rows>>
    <2> SUFFICES ASSUME [Next]_vars, NEW plan \in plans
                 PROVE  plan \in plans' /\ Context(plan)' = Context(plan)
      OBVIOUS
    <2>1. plan \in plans'
      BY PlansOnlyAdded
    <2>2. Context(plan)' = Context(plan)
      BY DEF Context
    <2> QED
      BY <2>1, <2>2
  <1> QED
    BY <1>1, PTL DEF Spec, PlansStand
=============================================================================
