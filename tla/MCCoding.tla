------------------------------ MODULE MCCoding ------------------------------
(***************************************************************************)
(* CodingSubmission on a question with a sample test and a heavier hidden  *)
(* one.                                                                    *)
(***************************************************************************)
EXTENDS CodingSubmission

MCTests == {"sample", "hidden"}
MCSampleTests == {"sample"}
MCTestWeight == [t \in MCTests |-> IF t = "sample" THEN 100 ELSE 200]

Exit(e, cut, ok) == [exit |-> e, truncated |-> cut, matches |-> ok]
Right == Exit("zero", FALSE, TRUE)
Wrong == Exit("zero", FALSE, FALSE)
Runs(sample, hidden) ==
    [compiler |-> "zero", run |-> [t \in MCTests |-> IF t = "sample" THEN sample ELSE hidden]]

\* Code that does not compile, is right, is wrong on the hidden test, exceeds the
\* time on it after crashing on the sample, and is right but floods stderr.
MCPrograms ==
    {[Runs(Wrong, Wrong) EXCEPT !.compiler = "killed"],
     Runs(Right, Right),
     Runs(Right, Wrong),
     Runs(Exit("nonzero", FALSE, FALSE), Exit("killed", FALSE, FALSE)),
     Runs(Right, Exit("zero", TRUE, TRUE))}

MCQualities == {[readability |-> 8000, optimization |-> 5000, edgeCase |-> 6500]}
=============================================================================
