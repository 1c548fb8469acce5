------------------------------ MODULE MCSession ------------------------------
(***************************************************************************)
(* One tab, one other device, and one emailed link of each kind.           *)
(***************************************************************************)
EXTENDS ClientSession

MCKindOf == [l \in {"reset", "verify", "oauth"} |-> l]

TabAlone == {[tab |-> TRUE, others |-> {}, mishaps |-> 0]}

\* The tab alone with two mishaps, the tab beside a reset, and the other devices among
\* themselves.
MCWorlds ==
    {[tab |-> TRUE, others |-> {}, mishaps |-> 2],
     [tab |-> TRUE, others |-> {"reset"}, mishaps |-> 0],
     [tab |-> FALSE, others |-> {"register", "refresh", "reset"}, mishaps |-> 1],
     [tab |-> FALSE, others |-> {"register", "google", "verify"}, mishaps |-> 1]}
=============================================================================
