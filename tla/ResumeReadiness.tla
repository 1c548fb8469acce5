-------------------------- MODULE ResumeReadiness --------------------------
(***************************************************************************)
(* What the analysis of a resume computes: the canonical skills that are   *)
(* stored, and the readiness for a role with the recommended difficulty    *)
(* (backend/app/services/resume/readiness.py, skill_normalization.py and   *)
(* _persist_structured_profile of backend/app/jobs/resume_processing.py).  *)
(* Constant operators only.                                                *)
(***************************************************************************)
EXTENDS Integers, FiniteSets, FiniteSetsExt

CONSTANTS
    CanonicalOf, \* [names on a resume -> canonical skill]: the alias table
    Required,    \* [role key -> required skills]
    NiceToHave   \* [role key -> nice-to-have skills]

ASSUME ReadinessAssumption ==
    /\ DOMAIN NiceToHave = DOMAIN Required
    /\ \A role \in DOMAIN Required : IsFiniteSet(Required[role]) /\ Required[role] # {}

RoleKeys == DOMAIN Required

Levels == {"easy", "medium", "hard"}

\* What the provider extracts from a resume: the names of skills, how many projects and
\* experiences, how many complexity keywords their texts hold, and whether every date of
\* it is one that parse_loose_date can build.
IsProfile(p) ==
    /\ DOMAIN p = {"names", "projects", "experience", "hits", "dated"}
    /\ p.names \subseteq DOMAIN CanonicalOf /\ IsFiniteSet(p.names)
    /\ {p.projects, p.experience, p.hits} \subseteq Nat
    /\ p.dated \in BOOLEAN

\* normalize_skill, and one row per canonical name however often it is mentioned.
Skills(p) == {CanonicalOf[name] : name \in p.names}

-----------------------------------------------------------------------------
Matching(skills, role) == Required[role] \cap skills
Missing(skills, role)  == Required[role] \ skills

\* What to work on: the missing skills, or the next tier when none is missing.
\* (The five first of the next tier: roles here have fewer.)
FocusAreas(skills, role) ==
    IF Missing(skills, role) # {} THEN Missing(skills, role)
    ELSE NiceToHave[role] \ skills

\* compute_interview_level: 0.45 breadth + 0.30 depth + 0.25 complexity, in hundredths
\* of a point over 300 n for n required skills.  (The code adds floats: a score within
\* their error of a boundary may fall on the other side.)
Score(p, role) ==
    LET n == Cardinality(Required[role])
    IN  13500 * Cardinality(Matching(Skills(p), role))
          + 90 * n * Min({100, 25 * p.projects + 35 * p.experience})
          + 2500 * n * Min({3, p.hits})

InterviewLevel(p, role) ==
    LET unit == 300 * Cardinality(Required[role])
    IN  CASE Score(p, role) < 35 * unit -> "easy"
          [] Score(p, role) \in 35 * unit .. 70 * unit - 1 -> "medium"
          [] OTHER -> "hard"

\* How much material there was; the cap at 45 for less than three pieces never bites.
Confidence(p) ==
    Min({95, 30 + 3 * (Cardinality(Skills(p)) + 2 * p.projects + 2 * p.experience)})

\* The row of resume_gap_analysis that generate_role_readiness computes.
GapOf(p, role) ==
    [role |-> role, missing |-> Missing(Skills(p), role),
     matching |-> Matching(Skills(p), role), focus |-> FocusAreas(Skills(p), role),
     level |-> InterviewLevel(p, role), confidence |-> Confidence(p)]

Gaps == [role : RoleKeys, missing : SUBSET UNION {Required[k] : k \in RoleKeys},
         matching : SUBSET UNION {Required[k] : k \in RoleKeys},
         focus : SUBSET UNION {Required[k] \cup NiceToHave[k] : k \in RoleKeys},
         level : Levels, confidence : 0..95]
=============================================================================
