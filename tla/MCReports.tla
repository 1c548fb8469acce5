------------------------------ MODULE MCReports ------------------------------
(***************************************************************************)
(* Two interviews of one user at one company, the second without a coding  *)
(* round, and a provider with two narratives.                              *)
(***************************************************************************)
EXTENDS ReportProgress

Text(a, r, x, y) ==
    [answer |-> a, round |-> r,
     scores |-> [technical |-> x, problem_solving |-> x,
                 communication |-> y, confidence |-> y]]

Coding(a, r, x) == [answer |-> a, round |-> r, scores |-> [coding |-> x]]

MCSessions == {"s1", "s2"}
MCUserOf == [s \in MCSessions |-> "u1"]
MCCompanyOf == [s \in MCSessions |-> "c1"]

\* Scores that do not divide evenly and scores that are exact in binary, and a
\* planned round without evaluations.
MCEvaluations ==
    [s \in MCSessions |->
        IF s = "s1" THEN {Text("a1", 1, 3333, 8000), Text("a2", 1, 3300, 7000), Coding("a3", 2, 9100)}
        ELSE {Text("a1", 1, 6500, 9000)}]

MCWeightOf == [s \in MCSessions |-> [r \in 1..3 |-> 100 * r]]

\* Two topics are one skill, mentioned as weak and as strong.
MCSkillOf == [JS |-> "JavaScript", JavaScript |-> "JavaScript", SQL |-> "SQL"]

MCContents ==
    LET one == [weak |-> <<[topic |-> "JS", section |-> "technical"]>>,
                strong |-> <<[topic |-> "JavaScript", section |-> "communication"],
                             [topic |-> "SQL", section |-> "coding"]>>,
                items |-> <<>>]
        two == [weak |-> <<[topic |-> "SQL", section |-> "coding"]>>,
                strong |-> <<>>,
                items |-> <<[topic |-> "SQL", priority |-> 1]>>]
    IN  [s \in MCSessions |-> IF s = "s1" THEN {one, two} ELSE {one}]
=============================================================================
