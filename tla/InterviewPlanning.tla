-------------------------- MODULE InterviewPlanning --------------------------
(***************************************************************************)
(* The catalog, its seeding, and the planning of interviews from it and    *)
(* from the candidate's resumes (backend/app/services/planning/            *)
(* interview_planner.py, catalog_seed.py, repositories/planning.py,        *)
(* services/interview/execution_context.py).                               *)
(*                                                                         *)
(* A plan copies the template's rounds into rows of its own and the rest   *)
(* into a snapshot; what the interview later reads is the plan and never   *)
(* the catalog.                                                            *)
(***************************************************************************)
EXTENDS ResumeLibrary, Functions

CONSTANTS
    Companies, NoCompany,
    Roles,        \* [role -> its company or NoCompany]
    RoleKeyOf,    \* [role -> role key]
    Templates,    \* [template -> its role; the company is the role's]
    Releases,     \* [release -> contents of catalog.json, see IsRelease]
    PlanRequests, \* what other clients ask for, see PlanRequest
    MaxPlans      \* bound

VARIABLE catalog

Modes == {"full_mock", "technical_only", "coding_only", "behavioral_only", "resume_deep_dive"}
RoundTypes == {"introduction", "technical", "coding", "behavioral", "system_design",
               "resume_discussion", "final"}

\* A round of a template: its type, weight, whether it is required, and its own
\* difficulty or "none".
TemplateRound == [type : RoundTypes, weight : Nat, required : BOOLEAN,
                  override : Levels \cup {"none"}]

\* The contents of catalog.json: which entries it has and which of them are active.
IsRelease(c) ==
    /\ DOMAIN c = {"companies", "roles", "templates"}
    /\ c.companies \in [DOMAIN c.companies -> BOOLEAN]
    /\ DOMAIN c.companies \subseteq Companies
    /\ c.roles \in [DOMAIN c.roles -> BOOLEAN]
    /\ DOMAIN c.roles \subseteq DOMAIN Roles
    /\ \A r \in DOMAIN c.roles : Roles[r] \in DOMAIN c.companies \cup {NoCompany}
    /\ DOMAIN c.templates \subseteq DOMAIN Templates
    /\ \A t \in DOMAIN c.templates : Templates[t] \in DOMAIN c.roles
    /\ \A t \in DOMAIN c.templates :
          /\ DOMAIN c.templates[t] = {"active", "mode", "rounds"}
          /\ c.templates[t].mode \in Modes
          /\ \A n \in DOMAIN c.templates[t].rounds : c.templates[t].rounds[n] \in TemplateRound

\* A client's request; mode may be left to the template, and resume is 0 when it names none.
PlanRequest == [company : Companies \cup {NoCompany}, role : DOMAIN Roles,
                template : DOMAIN Templates, mode : Modes \cup {"inherit"},
                difficulty : Levels \cup {"auto"}, resume : 0..MaxResumes]

ASSUME PlanningAssumption ==
    /\ \A v \in DOMAIN Releases : IsRelease(Releases[v])
    /\ PlanRequests \subseteq PlanRequest
    /\ RoleKeyOf \in [DOMAIN Roles -> RoleKeys]
    /\ MaxPlans \in Nat

TemplateCompany(t) == Roles[Templates[t]]

-----------------------------------------------------------------------------
\* seed_catalog.  Entries that catalog.json no longer has stay as they are.

\* The rows by their natural keys after an upsert of those of the file.
Upserted(new, old) ==
    [key \in DOMAIN new \cup DOMAIN old |-> IF key \in DOMAIN new THEN new[key] ELSE old[key]]

\* The rounds of a template that plans refer to: deleting one fails on their foreign key
\* and is undone by a savepoint.
InUse(t) == UNION {DOMAIN plan.rounds : plan \in {p \in plans : p.template = t}}

SeededRounds(t, old, new) == Upserted(new, Restrict(old, DOMAIN old \cap InUse(t)))

SeededTemplate(t, new) ==
    IF t \in DOMAIN catalog.templates
    THEN [new EXCEPT !.rounds = SeededRounds(t, catalog.templates[t].rounds, new.rounds)]
    ELSE new

\* One transaction: companies by slug, roles and templates by their natural keys, rounds
\* by sequence number.
SeedCatalog(v) ==
    LET file == Releases[v]
    IN  /\ v \in world.releases
        /\ world' = [world EXCEPT !.releases = @ \ {v}]
        /\ catalog' = [companies |-> Upserted(file.companies, catalog.companies),
                       roles |-> Upserted(file.roles, catalog.roles),
                       templates |-> Upserted([t \in DOMAIN file.templates |->
                                                  SeededTemplate(t, file.templates[t])],
                                              catalog.templates)]
        /\ UNCHANGED <<libraryVars, req, plans>>

\* What the catalog endpoints and the planner accept: active entries.
ActiveIn(entries, e) == e \in DOMAIN entries /\ entries[e]
ActiveTemplate(t) == t \in DOMAIN catalog.templates /\ catalog.templates[t].active

ListedRoles(company) ==
    {r \in DOMAIN catalog.roles : catalog.roles[r] /\ Roles[r] = company}

ListedTemplates(role, company) ==
    {t \in DOMAIN catalog.templates :
        /\ catalog.templates[t].active
        /\ Templates[t] = role
        /\ company \in {NoCompany, TemplateCompany(t)}}

-----------------------------------------------------------------------------
\* create_plan

\* _validate_template_matches and _resolve_mode
TemplateMatches(ask) ==
    /\ Templates[ask.template] = ask.role
    /\ TemplateCompany(ask.template) = ask.company

ModeFits(ask, mode) == ask.mode \in {"inherit", mode}

\* The template's row is read first, and its rounds by a statement of their own.
PlanRead(q, ask) ==
    /\ req[q] = Idle
    /\ Cardinality(plans) < MaxPlans
    /\ IF /\ ask.company = NoCompany \/ ActiveIn(catalog.companies, ask.company)
          /\ ActiveIn(catalog.roles, ask.role)
          /\ ActiveTemplate(ask.template)
       THEN req' = [req EXCEPT ![q] = [Idle EXCEPT
                        !.op = "plan", !.phase = "template",
                        !.draft = [ask |-> ask,
                                   mode |-> catalog.templates[ask.template].mode]]]
       ELSE Finish(q, "failed")
    /\ UNCHANGED <<world, libraryVars, plans, catalog>>

ResumeRequired(mode, rounds) ==
    \/ mode = "resume_deep_dive"
    \/ \E n \in DOMAIN rounds : rounds[n].type = "resume_discussion"

\* Mutant: the active resume is taken as it is.
ResolvedResumeUnchecked(ask, required) ==
    IF ask.resume # 0 THEN {r \in {ask.resume} : Ready(r)}
    ELSE IF Active # {} THEN Active
    ELSE IF required THEN {} ELSE {0}

\* _resolve_resume: the resumes a request may be planned with, 0 for none and nothing for
\* a refusal.  One that is named must be analysed; else the active one is taken if it is.
ResolvedResume(ask, required) ==
    IF ask.resume # 0 THEN {r \in {ask.resume} : Ready(r)}
    ELSE LET usable == {r \in Active : Ready(r)}
         IN  IF usable # {} THEN usable
             ELSE IF required THEN {} ELSE {0}

\* _resolve_difficulty: the one asked for, or the one recommended for the resume - of
\* whichever role its readiness is - or medium.
StartingDifficulty(ask, gap) ==
    CASE ask.difficulty # "auto" -> ask.difficulty
      [] ask.difficulty = "auto" /\ gap # NoGap -> gap.level
      [] OTHER -> "medium"

GapRead(r) == IF r = 0 THEN NoGap ELSE rows[r].gap

\* build_resume_interview_context: the skills a plan is personalised with.
ResumeContext(r) == IF r # 0 /\ Ready(r) THEN Skills(rows[r].profile) ELSE {}

\* The plan: rounds of its own, and the snapshot of the rest.
PlanOf(ask, mode, rounds, r) ==
    LET starting == StartingDifficulty(ask, GapRead(r))
    IN  [resume |-> r, company |-> ask.company, role |-> ask.role, template |-> ask.template,
         mode |-> mode, requested |-> ask.difficulty, starting |-> starting,
         rounds |-> [n \in DOMAIN rounds |->
                        [type |-> rounds[n].type, weight |-> rounds[n].weight,
                         planned |-> IF rounds[n].override # "none" THEN rounds[n].override
                                     ELSE starting]],
         snapshot |-> [required |-> [n \in DOMAIN rounds |-> rounds[n].required],
                       gap |-> GapRead(r),
                       skills |-> ResumeContext(r)]]

PlanDraft(q) ==
    LET ask == req[q].draft.ask
        mode == req[q].draft.mode
        rounds == catalog.templates[ask.template].rounds
        resumes == ResolvedResume(ask, ResumeRequired(mode, rounds))
    IN  /\ req[q].op = "plan" /\ req[q].phase = "template"
        /\ IF DOMAIN rounds # {} /\ TemplateMatches(ask) /\ ModeFits(ask, mode) /\ resumes # {}
           THEN \E r \in resumes :
                    req' = [req EXCEPT ![q].phase = "drafted",
                                       ![q].draft = PlanOf(ask, mode, rounds, r)]
           ELSE Finish(q, "failed")
        /\ UNCHANGED <<world, libraryVars, plans, catalog>>

\* The session and all its rounds in one commit, unless the resume or one of the template's
\* rounds has been deleted meanwhile.
PlanCommit(q) ==
    LET plan == req[q].draft
    IN  /\ req[q].op = "plan" /\ req[q].phase = "drafted"
        /\ IF /\ plan.resume = 0 \/ plan.resume \in Live
              /\ DOMAIN plan.rounds \subseteq DOMAIN catalog.templates[plan.template].rounds
           THEN plans' = plans \cup {plan} /\ Finish(q, "ok")
           ELSE Finish(q, "failed") /\ UNCHANGED plans
        /\ UNCHANGED <<world, libraryVars, catalog>>

\* Mutant: what is_required says is read from the template.
ContextOfTemplate(plan) ==
    [rounds |-> [n \in DOMAIN plan.rounds |->
                    [round |-> plan.rounds[n],
                     required |-> catalog.templates[plan.template].rounds[n].required]],
     starting |-> plan.starting, mode |-> plan.mode, skills |-> plan.snapshot.skills,
     gap |-> plan.snapshot.gap, resume |-> plan.resume]

\* build_execution_context, and _plan_response: what an interview sees of its plan.
Context(plan) ==
    [rounds |-> [n \in DOMAIN plan.rounds |->
                    [round |-> plan.rounds[n], required |-> plan.snapshot.required[n]]],
     starting |-> plan.starting, mode |-> plan.mode, skills |-> plan.snapshot.skills,
     gap |-> plan.snapshot.gap, resume |-> plan.resume]

InitPlanning ==
    /\ InitLibrary
    /\ plans = {}
    /\ catalog = Releases[world.installed]

PlanningStep(q) ==
    \/ LibraryStep(q) /\ UNCHANGED catalog
    \/ PlanDraft(q) \/ PlanCommit(q)

-----------------------------------------------------------------------------
\* A plan is grounded in what the candidate really has and in the catalog, whatever was
\* uploaded, analysed, deleted or seeded while it was made (interview_planner.py:176-246,
\* catalog_seed.py:269-288): its resume is still there and analysed, the skills it is
\* personalised with are that resume's, an interview that discusses a resume has one; its
\* template is of its role and of its company, and the template's rounds that it was made
\* from are never deleted.
PlansGrounded ==
    \A plan \in plans :
        /\ plan.resume # 0 => /\ Ready(plan.resume)
                              /\ plan.snapshot.skills = Skills(rows[plan.resume].profile)
        /\ ResumeRequired(plan.mode, plan.rounds) => plan.resume # 0
        /\ Templates[plan.template] = plan.role
        /\ Roles[plan.role] = plan.company
        /\ DOMAIN plan.rounds \subseteq DOMAIN catalog.templates[plan.template].rounds

\* A plan is immutable: it stays, and what an interview sees of it is the same whatever
\* happens to the catalog and to the resumes (execution_context.py:4-10).
PlansStand ==
    [][\A plan \in plans : plan \in plans' /\ Context(plan)' = Context(plan)]_<<plans, catalog, rows>>
=============================================================================
