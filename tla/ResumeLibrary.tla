---------------------------- MODULE ResumeLibrary ----------------------------
(***************************************************************************)
(* The resumes of one candidate (backend/app/services/resume/              *)
(* resume_service.py, repositories/resume.py) and the background job that  *)
(* analyses each (jobs/resume_processing.py), over PostgreSQL, the file    *)
(* storage and the vector store.                                           *)
(*                                                                         *)
(* A request is one transaction, or one and the clean-up after it.  Its    *)
(* steps are what it has read and what it commits: rows read before may    *)
(* have changed since, and the constraints of the schema then refuse the   *)
(* commit.                                                                 *)
(***************************************************************************)
EXTENDS ResumeReadiness

CONSTANTS
    MaxResumes, \* bound: how many resumes there ever are
    Profiles,   \* what the provider may extract, bounded by world
    NoProfile, NoGap, NoPlan,
    Requests,   \* slots of requests in flight
    Mine,       \* the slot of the requests of the tab of PreparationPages
    Worlds      \* bounds: what happens in a behaviour, see world

ASSUME LibraryAssumption ==
    /\ MaxResumes \in Nat \ {0}
    /\ \A p \in Profiles : IsProfile(p)
    /\ NoProfile \notin Profiles
    /\ Mine \in Requests
    /\ \A w \in Worlds : /\ {"stored", "profile", "extracted"} \subseteq DOMAIN w
                         /\ w.stored \in 0..MaxResumes
                         /\ w.profile \in Profiles /\ w.extracted \subseteq Profiles

VARIABLES
    world,     \* bounds: how many resumes there are at first and their profile, how many
               \* there may be and what is extracted from new ones, the operations that
               \* others request, the pages that the tab opens and how many GETs it has
               \* in flight, how many more things may go wrong, the release of the
               \* catalog installed and those to be seeded
    rows,      \* [Ids -> the row of resumes with its children]
    files,     \* the resumes whose file is in the storage
    vectors,   \* the resumes that have embeddings
    jobs,      \* [Ids -> stage of process_resume]
    req,       \* [Requests -> what each request has read]
    plans,     \* the interview plans, written by InterviewPlanning
    overlapped \* history: the operations two requests have been in at once

libraryVars == <<rows, files, vectors, jobs, overlapped>>

\* In the order of created_at, which is when the upload's transaction began.
Ids == 1..MaxResumes

Statuses == {"pending", "processing", "done", "failed"}
Terminal == {"done", "failed"}

Absent == [life |-> "none", active |-> FALSE, status |-> "pending",
           profile |-> NoProfile, gap |-> NoGap]

\* Mutant: the row is hidden and its children stay.
DeletedRowOnly(row) == [row EXCEPT !.life = "gone"]

\* Deleting a row deletes its children with it.
Deleted(row) == [Absent EXCEPT !.life = "gone"]

Uploaded == [Absent EXCEPT !.life = "live", !.active = TRUE]

Live == {r \in Ids : rows[r].life = "live"}
Active == {r \in Live : rows[r].active}

JobStages == {"none", "queued", "reading", "asking", "indexing", "embedding",
              "ended", "died"}

Idle == [op |-> "none", phase |-> "idle", id |-> 0, was |-> FALSE, seen |-> {},
         pick |-> 0, loaded |-> NoGap, made |-> NoGap, draft |-> NoPlan]

\* The tab waits for the answer to its request; others just send the next one.
Finish(q, outcome) ==
    req' = [req EXCEPT ![q] = IF q = Mine THEN [Idle EXCEPT !.phase = outcome] ELSE Idle]

Pinned(r) == \E plan \in plans : plan.resume = r

\* A history of overlapping requests for the same operation.
Overlap(q, op) ==
    overlapped' = IF \E other \in Requests \ {q} : req[other].op = op
                  THEN overlapped \cup {op} ELSE overlapped

Mishap == world.mishaps > 0 /\ world' = [world EXCEPT !.mishaps = @ - 1]

\* A candidate with analysed resumes, the latest of them active.
StoredRow(r) ==
    [Uploaded EXCEPT !.active = r = world.stored, !.status = "done",
                     !.profile = world.profile]

InitLibrary ==
    /\ world \in Worlds
    /\ rows = [r \in Ids |-> IF r <= world.stored THEN StoredRow(r) ELSE Absent]
    /\ files = 1..world.stored
    /\ vectors = 1..world.stored
    /\ jobs = [r \in Ids |-> IF r <= world.stored THEN "ended" ELSE "none"]
    /\ req = [q \in Requests |-> Idle]
    /\ overlapped = {}

-----------------------------------------------------------------------------
\* upload.  A refused file changes nothing.

\* The ids of resumes there are, were, or are being stored; a new one comes after them.
Used == files \cup {r \in Ids : rows[r].life # "none"}
Fresh(id) == id \notin Used /\ \A r \in Ids : r < id => r \in Used

\* The file is saved under a key of its own, before there is a row.
UploadSave(q) ==
    /\ req[q] = Idle
    /\ \E id \in {r \in Ids : r <= world.most /\ Fresh(r)} :
          /\ files' = files \cup {id}
          /\ req' = [req EXCEPT ![q] = [Idle EXCEPT !.op = "upload", !.phase = "saved",
                                                    !.id = id]]
    /\ UNCHANGED <<world, rows, vectors, jobs, overlapped, plans>>

\* deactivate_all_for_user: an UPDATE of the rows that are there when it starts; it may
\* have to wait for their locks.
Deactivate(q) ==
    /\ req[q].op = "upload" /\ req[q].phase = "saved"
    /\ req' = [req EXCEPT ![q].phase = "inserting", ![q].seen = Live]
    /\ UNCHANGED <<world, libraryVars, plans>>

\* The insert and the commit, unless another row became active meanwhile: the partial
\* unique index refuses the row and the file stays behind.
UploadCommit(q) ==
    LET id == req[q].id
        deactivated == [r \in Ids |-> IF r \in req[q].seen /\ r \in Live
                                      THEN [rows[r] EXCEPT !.active = FALSE] ELSE rows[r]]
    IN  /\ req[q].op = "upload" /\ req[q].phase = "inserting"
        /\ IF Active \subseteq req[q].seen
           THEN /\ rows' = [deactivated EXCEPT ![id] = Uploaded]
                /\ jobs' = [jobs EXCEPT ![id] = "queued"]
                /\ Finish(q, "ok")
           ELSE /\ Finish(q, "failed")
                /\ UNCHANGED <<rows, jobs>>
        /\ UNCHANGED <<world, files, vectors, overlapped, plans>>

-----------------------------------------------------------------------------
\* delete_resume

DeleteRead(q, r) ==
    /\ req[q] = Idle
    /\ r \in Live
    /\ req' = [req EXCEPT ![q] = [Idle EXCEPT !.op = "delete", !.phase = "read", !.id = r,
                                              !.was = rows[r].active]]
    /\ Overlap(q, "delete")
    /\ UNCHANGED <<world, rows, files, vectors, jobs, plans>>

\* Mutant: no resume takes the place of the one deleted.
NoSuccessor(r) == 0

\* most_recent_other_resume
MostRecentOther(r) == Max({0} \cup (Live \ {r}))

\* The DELETE, which the plans' foreign key refuses, and the choice of a successor. A
\* successor that is active already needs no UPDATE.
DeletePick(q) ==
    LET other == IF req[q].was THEN MostRecentOther(req[q].id) ELSE 0
    IN  /\ req[q].op = "delete" /\ req[q].phase = "read"
        /\ IF Pinned(req[q].id)
           THEN Finish(q, "failed")
           ELSE req' = [req EXCEPT ![q].phase = "picked",
                                   ![q].pick = IF other \in Active THEN 0 ELSE other]
        /\ UNCHANGED <<world, libraryVars, plans>>

\* The commit, unless the successor is gone (its UPDATE matches no row), there is an
\* active resume beside it, or a plan has come to refer to the resume.
DeleteRefused(id, pick) ==
    \/ Pinned(id)
    \/ pick # 0 /\ pick \notin Live
    \/ pick # 0 /\ Active \ {id, pick} # {}

DeleteCommit(q) ==
    LET id == req[q].id
        pick == req[q].pick
    IN  /\ req[q].op = "delete" /\ req[q].phase = "picked"
        /\ IF DeleteRefused(id, pick)
           THEN Finish(q, "failed") /\ UNCHANGED rows
           ELSE /\ rows' = [r \in Ids |-> CASE r = id -> Deleted(rows[r])
                                            [] r = pick -> [rows[r] EXCEPT !.active = TRUE]
                                            [] OTHER -> rows[r]]
                /\ req' = [req EXCEPT ![q].phase = "files"]
        /\ UNCHANGED <<world, files, vectors, jobs, overlapped, plans>>

\* Mutant: the file is deleted before the row.
DeleteFileFirst(q) ==
    /\ req[q].op = "delete" /\ req[q].phase = "picked"
    /\ files' = files \ {req[q].id}
    /\ UNCHANGED <<world, rows, vectors, jobs, req, overlapped, plans>>

\* The clean-up, best effort: either store may fail, which is only logged.
DeleteFile(q) ==
    /\ req[q].op = "delete" /\ req[q].phase = "files"
    /\ req' = [req EXCEPT ![q].phase = "vectors"]
    /\ \/ files' = files \ {req[q].id} /\ UNCHANGED world
       \/ Mishap /\ UNCHANGED files
    /\ UNCHANGED <<rows, vectors, jobs, overlapped, plans>>

DeleteVectors(q) ==
    /\ req[q].op = "delete" /\ req[q].phase = "vectors"
    /\ Finish(q, "ok")
    /\ \/ vectors' = vectors \ {req[q].id} /\ UNCHANGED world
       \/ Mishap /\ UNCHANGED vectors
    /\ UNCHANGED <<rows, files, jobs, overlapped, plans>>

-----------------------------------------------------------------------------
\* generate_role_readiness

\* Refused unless the analysis is done; the row there is is loaded with the resume.
Ready(r) == r \in Live /\ rows[r].status = "done"

ReadinessRead(q, r, role) ==
    /\ req[q] = Idle
    /\ r \in Live
    /\ IF Ready(r)
       THEN /\ req' = [req EXCEPT ![q] = [Idle EXCEPT
                           !.op = "readiness", !.phase = "computed", !.id = r,
                           !.loaded = rows[r].gap, !.made = GapOf(rows[r].profile, role)]]
            /\ Overlap(q, "readiness")
       ELSE Finish(q, "conflict") /\ UNCHANGED overlapped
    /\ UNCHANGED <<world, rows, files, vectors, jobs, plans>>

\* Mutant: the level is not computed again.
MergedKeepsLevel(now, loaded, made) == [made EXCEPT !.level = now.level]

\* The unit of work writes the columns whose value differs from the one loaded.
Merged(now, loaded, made) ==
    [column \in DOMAIN made |->
        IF made[column] = loaded[column] THEN now[column] ELSE made[column]]

\* The insert of the first row fails when there is one already, and either write fails
\* when the resume is gone.
ReadinessCommit(q) ==
    LET now == rows[req[q].id].gap
        loaded == req[q].loaded
    IN  /\ req[q].op = "readiness" /\ req[q].phase = "computed"
        /\ IF req[q].id \in Live /\ (loaded = NoGap => now = NoGap)
           THEN /\ rows' = [rows EXCEPT ![req[q].id].gap =
                                IF loaded = NoGap THEN req[q].made
                                ELSE Merged(now, loaded, req[q].made)]
                /\ Finish(q, "ok")
           ELSE Finish(q, "failed") /\ UNCHANGED rows
        /\ UNCHANGED <<world, files, vectors, jobs, overlapped, plans>>

-----------------------------------------------------------------------------
\* process_resume_job

\* A commit of the job: the row gets the values, or it is gone, which ends the job with
\* an error.
JobCommit(r, row, stage) ==
    IF r \in Live
    THEN rows' = [rows EXCEPT ![r] = row] /\ jobs' = [jobs EXCEPT ![r] = stage]
    ELSE UNCHANGED rows /\ jobs' = [jobs EXCEPT ![r] = "ended"]

WithStatus(r, status) == [rows[r] EXCEPT !.status = status]

JobStart(r) ==
    /\ jobs[r] = "queued"
    /\ JobCommit(r, WithStatus(r, "processing"), "reading")
    /\ UNCHANGED <<world, files, vectors, req, overlapped, plans>>

\* The file is read and its text extracted: text and sections are kept, or the resume is
\* failed because the file or a text in it is missing.
JobRead(r) ==
    /\ jobs[r] = "reading"
    /\ \/ r \in files /\ JobCommit(r, rows[r], "asking")
       \/ JobCommit(r, WithStatus(r, "failed"), "ended")
    /\ UNCHANGED <<world, files, vectors, req, overlapped, plans>>

\* The provider answers with a profile, which is stored with the status, or it fails.  A
\* date that cannot be built is raised past the handlers and ends the job as it is.
JobAsk(r) ==
    /\ jobs[r] = "asking"
    /\ \/ \E p \in world.extracted :
             IF p.dated
             THEN JobCommit(r, [WithStatus(r, "done") EXCEPT !.profile = p], "indexing")
             ELSE jobs' = [jobs EXCEPT ![r] = "died"] /\ UNCHANGED rows
       \/ JobCommit(r, WithStatus(r, "failed"), "ended")
    /\ UNCHANGED <<world, files, vectors, req, overlapped, plans>>

\* _index_embeddings reads the rows again, replaces the vectors and stamps the row; what
\* fails in it is only logged.
JobIndex(r) ==
    /\ jobs[r] = "indexing"
    /\ IF r \in Live
       THEN vectors' = vectors \ {r} /\ jobs' = [jobs EXCEPT ![r] = "embedding"]
       ELSE jobs' = [jobs EXCEPT ![r] = "ended"] /\ UNCHANGED vectors
    /\ UNCHANGED <<world, rows, files, req, overlapped, plans>>

JobEmbed(r) ==
    /\ jobs[r] = "embedding"
    /\ jobs' = [jobs EXCEPT ![r] = "ended"]
    /\ vectors' \in {vectors, vectors \cup {r}}
    /\ UNCHANGED <<world, rows, files, req, overlapped, plans>>

-----------------------------------------------------------------------------
\* The process dies: requests and jobs in flight are lost, and what was not committed.
Crash ==
    /\ Mishap
    /\ req' = [q \in Requests |->
                  CASE req[q].op = "none" -> req[q]
                    [] req[q].op # "none" /\ q = Mine -> [Idle EXCEPT !.phase = "failed"]
                    [] OTHER -> Idle]
    /\ jobs' = [r \in Ids |-> IF jobs[r] \in {"none", "ended", "died"} THEN jobs[r] ELSE "died"]
    /\ UNCHANGED <<rows, files, vectors, overlapped, plans>>

JobStep(r) == JobStart(r) \/ JobRead(r) \/ JobAsk(r) \/ JobIndex(r) \/ JobEmbed(r)

LibraryStep(q) ==
    \/ Deactivate(q) \/ UploadCommit(q)
    \/ DeletePick(q) \/ DeleteCommit(q) \/ DeleteFile(q) \/ DeleteVectors(q)
    \/ ReadinessCommit(q)

-----------------------------------------------------------------------------
Row == [life : {"none", "live", "gone"}, active : BOOLEAN, status : Statuses,
        profile : Profiles \cup {NoProfile}, gap : Gaps \cup {NoGap}]

RequestRow == [op : {"none", "upload", "delete", "readiness", "plan"},
               phase : {"idle", "saved", "inserting", "read", "picked", "files", "vectors",
                        "computed", "template", "drafted", "ok", "failed", "conflict"},
               id : 0..MaxResumes, was : BOOLEAN, seen : SUBSET Ids, pick : 0..MaxResumes,
               loaded : Gaps \cup {NoGap}, made : Gaps \cup {NoGap}]

\* The columns have their types; a row that is not there is not active and has no children
\* (models/resume.py: ON DELETE CASCADE), the extracted profile is there exactly for the
\* status done, and a readiness only beside one.
LibraryTypeOK ==
    /\ rows \in [Ids -> Row]
    /\ \A r \in Ids :
          /\ r \notin Live => rows[r] \in {Absent, [Absent EXCEPT !.life = "gone"]}
          /\ (rows[r].profile # NoProfile) = (rows[r].status = "done")
          /\ rows[r].gap # NoGap => rows[r].profile # NoProfile
    /\ files \subseteq Ids /\ vectors \subseteq Ids
    /\ jobs \in [Ids -> JobStages]
    /\ \A q \in Requests :
          [field \in DOMAIN req[q] \ {"draft"} |-> req[q][field]] \in RequestRow
    /\ overlapped \subseteq {"delete", "readiness"}

\* The candidate has one active resume as long as there are resumes, whichever uploads and
\* deletions ran against each other (resume_service.py:87-90, 131-136) - except that two
\* deletions at once may leave none: one promotes the resume the other has read as
\* inactive.
OneActive ==
    /\ Cardinality(Active) <= 1
    /\ "delete" \in overlapped \/ (Live # {} => Active # {})

\* A resume that is there has its file: saved before the row, deleted after it
\* (resume_service.py:83, 144), with failures and crashes in between.
FilesKept == Live \subseteq files

\* A readiness is of one role and of the profile stored: its level and its skills are the
\* ones computed for its role_key, although it is replaced column by column
\* (resume_service.py:193-203) - except that two at once may mix their columns.
ReadinessWhole ==
    "readiness" \in overlapped \/
    \A r \in Live : rows[r].gap # NoGap =>
        /\ rows[r].profile # NoProfile
        /\ rows[r].gap = GapOf(rows[r].profile, rows[r].gap.role)
=============================================================================
