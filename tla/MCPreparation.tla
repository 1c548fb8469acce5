---------------------------- MODULE MCPreparation ----------------------------
(***************************************************************************)
(* One role of no company and one of a company; two releases of the        *)
(* catalog, of which the second drops a round of a template and changes    *)
(* another.                                                                *)
(***************************************************************************)
EXTENDS PreparationPages

MCCanonicalOf == [py |-> "python", python |-> "python", sql |-> "sql", git |-> "git"]
MCRequired == [backend |-> {"python", "sql"}, data |-> {"sql"}]
MCNiceToHave == [backend |-> {"git"}, data |-> {"python"}]

\* The same skill by two names; ready for hard backend interviews and medium data ones.
Skilled == [names |-> {"py", "python"}, projects |-> 2, experience |-> 2, hits |-> 3,
            dated |-> TRUE]
Junior == [names |-> {"sql"}, projects |-> 1, experience |-> 0, hits |-> 0, dated |-> TRUE]
Undated == [Junior EXCEPT !.dated = FALSE]
MCProfiles == {Junior, Skilled, Undated}

MCRoles == [engineer |-> "no company", analyst |-> "acme"]
MCRoleKeyOf == [engineer |-> "backend", analyst |-> "data"]
MCTemplates == [general |-> "engineer", loop |-> "analyst"]

Round(type, weight, override) ==
    [type |-> type, weight |-> weight, required |-> TRUE, override |-> override]

Release(companies, active, rounds) ==
    [companies |-> companies,
     roles |-> [engineer |-> TRUE, analyst |-> TRUE],
     templates |->
        [general |-> [active |-> TRUE, mode |-> "full_mock", rounds |-> rounds],
         loop |-> [active |-> active, mode |-> "technical_only",
                   rounds |-> <<Round("technical", 100, "hard")>>]]]

MCReleases ==
    <<Release([acme |-> TRUE], TRUE,
              <<Round("resume_discussion", 40, "none"), Round("technical", 60, "none")>>),
      Release([acme |-> TRUE], FALSE,
              <<[Round("technical", 100, "hard") EXCEPT !.required = FALSE]>>)>>

Ask(company, role, template, mode, difficulty, resume) ==
    [company |-> company, role |-> role, template |-> template, mode |-> mode,
     difficulty |-> difficulty, resume |-> resume]

MCPlanRequests ==
    {Ask("no company", "engineer", "general", "full_mock", "auto", 0),
     Ask("acme", "engineer", "general", "inherit", "auto", 2),
     Ask("acme", "analyst", "loop", "coding_only", "hard", 0)}

World(stored, most, extracted, ops, pages, gets, mishaps, releases) ==
    [stored |-> stored, profile |-> Skilled, most |-> most, extracted |-> extracted,
     ops |-> ops, pages |-> pages, fetches |-> gets, mishaps |-> mishaps,
     installed |-> 1, releases |-> releases]

\* Uploads against deletions with a crash, readiness against deletions, plans against
\* deletions, uploads, readiness and a new release; then the tab on each page, with a
\* failure on some.
MCWorlds ==
    {World(2, 3, {Junior}, {"upload", "delete"}, {}, 0, 1, {}),
     World(2, 2, {}, {"readiness", "delete"}, {}, 0, 0, {}),
     World(2, 2, {}, {"plan", "delete"}, {}, 0, 0, {2}),
     World(1, 2, {Junior}, {"plan", "upload"}, {}, 0, 0, {}),
     World(0, 1, {Junior}, {"readiness", "upload"}, {}, 0, 0, {}),
     World(1, 1, {}, {"plan", "readiness"}, {}, 0, 0, {2}),
     World(1, 2, {Junior}, {}, {"list"}, 2, 0, {}),
     World(0, 1, {Junior, Undated}, {"delete"}, {"list"}, 1, 1, {}),
     World(0, 1, {Junior}, {}, {"detail", "list"}, 2, 0, {}),
     World(1, 1, {}, {}, {"detail"}, 2, 1, {}),
     World(1, 1, {}, {}, {"wizard"}, 2, 0, {}),
     World(0, 0, {}, {}, {"wizard", "list"}, 1, 1, {2})}
=============================================================================
