--------------------------- MODULE PreparationPages ---------------------------
(***************************************************************************)
(* One tab of the web client on the pages that prepare an interview        *)
(* (frontend/src/features/resume: the list and one resume's analysis;      *)
(* frontend/src/features/interview: the planning wizard), with their       *)
(* stores, over the server of InterviewPlanning and beside other clients.  *)
(*                                                                         *)
(* Every GET is in flight on its own: the server answers it from what      *)
(* there is then, and the store takes the answers in any order.            *)
(***************************************************************************)
EXTENDS InterviewPlanning

CONSTANTS
    MaxFetches,   \* bound: GETs in flight at once, world may say fewer
    Difficulties, \* what the wizard's candidate may choose
    Nothing

ASSUME PagesAssumption ==
    /\ MaxFetches \in Nat \ {0}
    /\ Difficulties \subseteq Levels \cup {"auto"}

VARIABLES
    tab,     \* the page open, the resume of its URL, and the request awaited
    store,   \* [Kinds -> what the stores hold of it]
    fetches, \* [1..MaxFetches -> a GET in flight]
    wizard   \* the state of the wizard component

pageVars == <<tab, store, fetches, wizard>>
serverVars == <<world, libraryVars, req, plans, catalog>>
vars == <<serverVars, pageVars>>

Pages == {"none", "list", "detail", "wizard"}

\* What is fetched: the resumes, one's analysis, and the levels of the catalog.
\* (The rounds of a selected template are fetched only to be displayed: left out.)
Kinds == {"list", "analysis", "companies", "roles", "templates"}

\* No resume is shown, no analysis, no entries.
Empty == [kind \in Kinds |->
             [status |-> "idle", data |-> CASE kind = "list" -> [r \in Ids |-> "absent"]
                                            [] kind = "analysis" -> Nothing
                                            [] OTHER -> {}]]

NoFetch == [kind |-> "none", of |-> Nothing, phase |-> "free", answer |-> Nothing]
Steps == {"company", "role", "template", "details", "success"}

FirstStep == [step |-> "company", company |-> NoCompany, role |-> Nothing,
              template |-> Nothing]

-----------------------------------------------------------------------------
\* The stores' fetches.

FreeFetches == {f \in 1..world.fetches : fetches[f] = NoFetch}

Send(kind, of) ==
    /\ FreeFetches # {}
    /\ fetches' = [fetches EXCEPT ![Min(FreeFetches)] =
                      [kind |-> kind, of |-> of, phase |-> "sent", answer |-> Nothing]]

Loading(kind) == [store EXCEPT ![kind].status = "loading"]

\* GET /resumes and GET /resumes/{id}/analysis
ResumeList == [r \in Ids |-> IF r \in Live THEN rows[r].status ELSE "absent"]
Analysis(r) == IF r \in Live THEN [of |-> r, status |-> rows[r].status] ELSE Nothing

\* What the server answers: a list, or Nothing for a 404.
Answered(kind, of) ==
    CASE kind = "list" -> ResumeList
      [] kind = "analysis" -> Analysis(of)
      [] kind = "companies" ->
            {c \in DOMAIN catalog.companies : catalog.companies[c]}
      [] kind = "roles" ->
            IF of = NoCompany \/ ActiveIn(catalog.companies, of) THEN ListedRoles(of)
            ELSE Nothing
      [] OTHER ->
            IF ActiveIn(catalog.roles, of[1]) THEN ListedTemplates(of[1], of[2]) ELSE Nothing

Answer(f) ==
    /\ fetches[f].phase = "sent"
    /\ fetches' = [fetches EXCEPT ![f].phase = "answered",
                                  ![f].answer = Answered(fetches[f].kind, fetches[f].of)]
    /\ UNCHANGED <<serverVars, tab, store, wizard>>

\* An error leaves what the store holds, except for the analysis.
Failed(kind) ==
    [store EXCEPT ![kind].status = "error",
                  ![kind].data = IF kind = "analysis" THEN Nothing ELSE @]

Arrive(f) ==
    LET kind == fetches[f].kind
    IN  /\ fetches[f].phase = "answered"
        /\ fetches' = [fetches EXCEPT ![f] = NoFetch]
        /\ store' = IF fetches[f].answer = Nothing THEN Failed(kind)
                    ELSE [store EXCEPT ![kind] = [status |-> "success",
                                                  data |-> fetches[f].answer]]
        /\ UNCHANGED <<serverVars, tab, wizard>>

\* The network or the server fails it.
FetchFails(f) ==
    /\ fetches[f].phase = "sent"
    /\ Mishap
    /\ fetches' = [fetches EXCEPT ![f] = NoFetch]
    /\ store' = Failed(fetches[f].kind)
    /\ UNCHANGED <<libraryVars, req, plans, catalog, tab, wizard>>

-----------------------------------------------------------------------------
\* Opening a page; leaving the detail page forgets what it showed.  (The wizard is not
\* opened again while the plan of an earlier one is awaited.)

Left == IF tab.page = "detail" THEN [store EXCEPT !["analysis"] = Empty["analysis"]] ELSE store

Open(page, of) == tab' = [tab EXCEPT !.page = page, !.of = of]

OpenList ==
    /\ tab.page # "list" /\ "list" \in world.pages
    /\ Open("list", 0)
    /\ Send("list", Nothing)
    /\ store' = [Left EXCEPT !["list"].status = "loading"]
    /\ UNCHANGED <<serverVars, wizard>>

\* By the card of an analysed resume, or by an address.
OpenDetail(r) ==
    /\ tab.page # "detail" /\ "detail" \in world.pages
    /\ rows[r].life # "none"
    /\ Open("detail", r)
    /\ Send("analysis", r)
    /\ store' = Loading("analysis")
    /\ UNCHANGED <<serverVars, wizard>>

OpenWizard ==
    /\ tab.page # "wizard" /\ "wizard" \in world.pages /\ tab.awaiting # "plan"
    /\ Open("wizard", 0)
    /\ wizard' = FirstStep
    /\ IF store["companies"].status = "idle"
       THEN Send("companies", Nothing)
            /\ store' = [Left EXCEPT !["companies"].status = "loading"]
       ELSE store' = Left /\ UNCHANGED fetches
    /\ UNCHANGED serverVars

\* Mutant: only resumes still waiting for their analysis are watched.
HasPending(shown) == \E r \in DOMAIN shown : shown[r] = "pending"

HasNonTerminal(shown) == \E r \in DOMAIN shown : shown[r] \in {"pending", "processing"}

\* result: the analysis is of the resume that the URL names.
Result == IF store["analysis"].data # Nothing /\ store["analysis"].data.of = tab.of
          THEN store["analysis"].data ELSE Nothing

\* The intervals of the list and of the detail page.
Poll ==
    \/ /\ tab.page = "list" /\ HasNonTerminal(store["list"].data)
       /\ Send("list", Nothing)
       /\ store' = Loading("list")
       /\ UNCHANGED <<serverVars, tab, wizard>>
    \/ /\ tab.page = "detail" /\ Result # Nothing
       /\ HasNonTerminal([r \in {tab.of} |-> Result.status])
       /\ Send("analysis", tab.of)
       /\ store' = Loading("analysis")
       /\ UNCHANGED <<serverVars, tab, wizard>>

-----------------------------------------------------------------------------
\* What the tab requests; one request at a time (other clients overlap with it).

Await(op) ==
    /\ tab.awaiting = "none"
    /\ tab' = [tab EXCEPT !.awaiting = op]

TabUpload ==
    /\ tab.page = "list"
    /\ Await("upload")
    /\ UploadSave(Mine)
    /\ UNCHANGED <<catalog, store, fetches, wizard>>

\* The cards on the list page.
Cards == {r \in Ids : /\ tab.page = "list" /\ store["list"].status # "error"
                      /\ store["list"].data[r] # "absent"}

\* A resume that is gone is refused with a 404.
TabDelete(r) ==
    /\ r \in Cards
    /\ Await("delete")
    /\ DeleteRead(Mine, r)
    /\ UNCHANGED <<catalog, store, fetches, wizard>>

\* GapAnalysisPanel is offered once the analysis is done.
TabReadiness(role) ==
    /\ tab.page = "detail" /\ store["analysis"].status # "error"
    /\ Result # Nothing /\ Result.status = "done"
    /\ Await("readiness")
    /\ ReadinessRead(Mine, tab.of, role)
    /\ UNCHANGED <<catalog, store, fetches, wizard>>

\* The answer: the list is fetched again after an upload or a deletion, and the wizard
\* goes on to its last step if it is still there.
TabAnswered ==
    LET done == req[Mine].phase = "ok"
    IN  /\ req[Mine].phase \in {"ok", "failed", "conflict"}
        /\ req' = [req EXCEPT ![Mine] = Idle]
        /\ tab' = [tab EXCEPT !.awaiting = "none"]
        /\ IF done /\ tab.awaiting \in {"upload", "delete"}
           THEN Send("list", Nothing) /\ store' = Loading("list")
           ELSE UNCHANGED <<fetches, store>>
        /\ wizard' = IF done /\ tab.awaiting = "plan" /\ tab.page = "wizard"
                     THEN [wizard EXCEPT !.step = "success"] ELSE wizard
        /\ UNCHANGED <<world, libraryVars, plans, catalog>>

-----------------------------------------------------------------------------
\* The wizard.  What is offered is what the store holds, whichever choice it was fetched
\* for.

At(step) == tab.page = "wizard" /\ wizard.step = step
Offered(kind) == IF store[kind].status = "success" THEN store[kind].data ELSE {}

CompanyPicker == Offered("companies") \cup {NoCompany}
RolePicker == Offered("roles")
TemplatePicker == Offered("templates")

Choose(kind, of) ==
    /\ Send(kind, of)
    /\ store' = Loading(kind)
    /\ UNCHANGED <<serverVars, tab>>

SelectCompany(c) ==
    /\ At("company") /\ c \in CompanyPicker
    /\ wizard' = [step |-> "role", company |-> c, role |-> Nothing, template |-> Nothing]
    /\ Choose("roles", c)

SelectRole(r) ==
    /\ At("role") /\ r \in RolePicker
    /\ wizard' = [wizard EXCEPT !.step = "template", !.role = r, !.template = Nothing]
    /\ Choose("templates", <<r, wizard.company>>)

SelectTemplate(t) ==
    /\ At("template") /\ t \in TemplatePicker
    /\ wizard' = [wizard EXCEPT !.step = "details", !.template = t]
    /\ UNCHANGED <<serverVars, tab, store, fetches>>

Back ==
    /\ tab.page = "wizard" /\ wizard.step \in {"role", "template", "details"}
    /\ wizard' = [wizard EXCEPT !.step =
                     CASE @ = "role" -> "company" [] @ = "template" -> "role"
                       [] OTHER -> "template"]
    /\ UNCHANGED <<serverVars, tab, store, fetches>>

\* The retry of the level shown: offered after an error.
Retry ==
    \/ /\ tab.page = "list" /\ store["list"].status = "error"
       /\ UNCHANGED wizard /\ Choose("list", Nothing)
    \/ /\ tab.page = "detail" /\ store["analysis"].status = "error"
       /\ UNCHANGED wizard /\ Choose("analysis", tab.of)
    \/ /\ At("company") /\ store["companies"].status = "error"
       /\ UNCHANGED wizard /\ Choose("companies", Nothing)
    \/ /\ At("role") /\ store["roles"].status = "error"
       /\ UNCHANGED wizard /\ Choose("roles", wizard.company)
    \/ /\ At("template") /\ wizard.role # Nothing /\ store["templates"].status = "error"
       /\ UNCHANGED wizard /\ Choose("templates", <<wizard.role, wizard.company>>)

\* ResumeSelector fetches the list when nobody has, and offers what is analysed in it.
LoadResumes ==
    /\ At("details") /\ store["list"].status = "idle"
    /\ UNCHANGED wizard /\ Choose("list", Nothing)

Analysed == {r \in Ids : store["list"].data[r] = "done"}

TabPlan(r, difficulty) ==
    /\ At("details") /\ wizard.role # Nothing /\ wizard.template # Nothing
    /\ r \in Analysed \cup {0}
    /\ Await("plan")
    /\ PlanRead(Mine, [company |-> wizard.company, role |-> wizard.role,
                       template |-> wizard.template, mode |-> "inherit",
                       difficulty |-> difficulty, resume |-> r])
    /\ UNCHANGED <<store, fetches, wizard>>

PlanAnother ==
    /\ At("success")
    /\ wizard' = FirstStep
    /\ store' = [kind \in Kinds |-> IF kind \in {"roles", "templates"} THEN Empty[kind] ELSE store[kind]]
    /\ UNCHANGED <<serverVars, tab, fetches>>

-----------------------------------------------------------------------------
\* Other clients request what the world lets them.
Others(q) ==
    /\ q # Mine
    /\ UNCHANGED pageVars
    /\ \/ "upload" \in world.ops /\ UploadSave(q) /\ UNCHANGED catalog
       \/ "delete" \in world.ops /\ UNCHANGED catalog /\ \E r \in Ids : DeleteRead(q, r)
       \/ "readiness" \in world.ops /\ UNCHANGED catalog
          /\ \E r \in Ids, role \in RoleKeys : ReadinessRead(q, r, role)
       \/ "plan" \in world.ops /\ \E ask \in PlanRequests : PlanRead(q, ask)

Serve(q) == PlanningStep(q) /\ UNCHANGED pageVars
Work(r) == JobStep(r) /\ UNCHANGED <<catalog, pageVars>>
Deploy == (\E v \in DOMAIN Releases : SeedCatalog(v)) /\ UNCHANGED pageVars
Die == Crash /\ UNCHANGED <<catalog, pageVars>>

Browse ==
    \/ OpenList \/ OpenWizard \/ \E r \in Ids : OpenDetail(r)
    \/ TabUpload \/ \E r \in Ids : TabDelete(r)
    \/ \E role \in RoleKeys : TabReadiness(role)

Plan ==
    \/ \E c \in Companies \cup {NoCompany} : SelectCompany(c)
    \/ \E r \in DOMAIN Roles : SelectRole(r)
    \/ \E t \in DOMAIN Templates : SelectTemplate(t)
    \/ Back \/ LoadResumes \/ PlanAnother
    \/ \E r \in Ids \cup {0}, difficulty \in Difficulties : TabPlan(r, difficulty)

Fetching(f) == Answer(f) \/ Arrive(f)

Init ==
    /\ InitPlanning
    /\ tab = [page |-> "none", of |-> 0, awaiting |-> "none"]
    /\ store = Empty
    /\ fetches = [f \in 1..MaxFetches |-> NoFetch]
    /\ wizard = FirstStep

Next ==
    \/ \E q \in Requests : Others(q) \/ Serve(q)
    \/ \E r \in Ids : Work(r)
    \/ Deploy \/ Die
    \/ Browse \/ Poll \/ Retry \/ Plan \/ TabAnswered
    \/ \E f \in DOMAIN fetches : Fetching(f) \/ FetchFails(f)

Spec == Init /\ [][Next]_vars

\* The event loop goes on with a job it has begun, GETs come back, and the page's interval
\* fires; nobody has to request or to open anything, and no request has to end.
FairSpec ==
    /\ Spec
    /\ \A r \in Ids : WF_vars(Work(r))
    /\ \A f \in 1..MaxFetches : WF_vars(Fetching(f))
    /\ WF_vars(Poll)

-----------------------------------------------------------------------------
\* The rows and the files are well-formed (LibraryTypeOK), and so is what the tab holds.
TypeOK ==
    /\ LibraryTypeOK
    /\ tab \in [page : Pages, of : 0..MaxResumes,
                awaiting : {"none", "upload", "delete", "readiness", "plan"}]
    /\ (tab.awaiting = "none") = (req[Mine] = Idle)
    /\ \A kind \in Kinds : store[kind].status \in {"idle", "loading", "success", "error"}
    /\ \A r \in Ids : store["list"].data[r] \in Statuses \cup {"absent"}
    /\ wizard.step \in Steps

Watched(r) ==
    \/ tab.page = "list" /\ store["list"].data[r] \in Statuses \ Terminal
    \/ tab.page = "detail" /\ tab.of = r /\ Result # Nothing
       /\ Result.status \in Statuses \ Terminal

\* A resume whose analysis is awaited on a page does not stay so: the job ends it, and the
\* polling shows that in whichever order the answers come - unless the page is left or
\* shows an error, or the job has died, with the process or of a date that it could not
\* build (ResumeListPage.tsx:24-33, ResumeDetailPage.tsx:72-79, resume_processing.py:59-134).
WatchingEnds == \A r \in Ids : Watched(r) ~> (~Watched(r) \/ jobs[r] = "died")
=============================================================================
