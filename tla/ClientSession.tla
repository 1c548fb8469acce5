---------------------------- MODULE ClientSession ----------------------------
(***************************************************************************)
(* The session of one browser tab (frontend/src/features/auth/store.ts,    *)
(* lib/apiClient.ts, lib/authToken.ts) against the server of AuthTokens,   *)
(* with others who sign in, refresh and reset the password of the same     *)
(* account.                                                                *)
(*                                                                         *)
(* The access token lives in memory and the refresh token in localStorage. *)
(* A call answered 401 waits for one shared refresh and is sent once more; *)
(* a page load restores the session with a refresh of its own.  Answers    *)
(* get lost, tokens expire, and the page is reloaded at any time.          *)
(***************************************************************************)
EXTENDS AuthTokens

CONSTANTS
    Calls,      \* authenticated calls of the pages that may be in flight
    Me,         \* the call GET /users/me of the page load
    Refreshing, \* the request of the tab's refresh
    Form,       \* the request of the tab's login, registration or logout
    Elsewhere,  \* requests of other devices, and of links opened anywhere
    Worlds      \* bound: what happens around the tab, see world

ASSUME ClientAssumption ==
    /\ Me \notin Calls
    /\ Requests = {Refreshing, Form} \cup Elsewhere
    /\ Refreshing # Form
    /\ Refreshing \notin Elsewhere
    /\ Form \notin Elsewhere
    /\ Elsewhere # {}

VARIABLES
    world,   \* bounds: whether the tab is opened, which requests others may send, and
             \* how many more things may go wrong
    tab,     \* what the tab holds
    calls,   \* [Calls \cup {Me} -> call record]
    leaving  \* the logout: "no", "sent", "waiting" for the refresh, or "resent"

clientVars == <<world, tab, calls, leaving>>
vars == <<serverVars, clientVars>>

AllCalls == Calls \cup {Me}

\* access and stored are the two tokens, started says that the page load has run its
\* effect, checked is hasCheckedAuth, shared says
\* whether refreshInFlight is set; leavingWith is the token logout has read.
Tab == [access : {"none", "valid", "expired"}, stored : 0..MaxTokens, signedIn : BOOLEAN,
        started : BOOLEAN, checked : BOOLEAN, shared : BOOLEAN, leavingWith : 0..MaxTokens]

Fresh == [access |-> "none", stored |-> 0, signedIn |-> FALSE, started |-> FALSE,
          checked |-> FALSE, shared |-> FALSE, leavingWith |-> 0]

\* A call on its way carries a token the server will accept, or not.
Quiet == [phase |-> "idle", accepted |-> FALSE]

CallPhases == {"idle", "sent", "waiting", "resent"}

Init ==
    /\ InitServer
    /\ world \in Worlds
    /\ tab = Fresh
    /\ calls = [c \in AllCalls |-> Quiet]
    /\ leaving = "no"

-----------------------------------------------------------------------------
\* A request of the tab leaves in a free slot.
Request(op, token) == [Idle EXCEPT !.op = op, !.phase = "sent", !.token = token,
                                   !.by = "tab"]

Send(r, op, token) ==
    /\ req[r] = Idle
    /\ req' = [req EXCEPT ![r] = Request(op, token)]

Answered(r) == req[r].phase = "answered"

\* Bound: beside the tab there is one other request at a time.
Around == IF world.tab THEN {CHOOSE q \in Elsewhere : TRUE} ELSE Elsewhere

\* The tab no longer waits for its requests R: those the server is working on go on
\* there, others never arrive, and answers are lost.
Detach(R, rest) ==
    \E q \in Around, S \in SUBSET R :
        /\ Cardinality(S) <= 1
        /\ S # {} => req[q] = Idle
        /\ \A r \in S : req[r].phase \in {"sent", "open"}
        /\ \A r \in R \ S : req[r].phase # "open"
        /\ req' = [r \in Requests |->
                      IF r \in R THEN rest[r]
                      ELSE IF r = q /\ S # {}
                      THEN [req[CHOOSE x \in S : TRUE] EXCEPT !.by = "nobody"]
                      ELSE req[r]]

\* What setAccessToken and setRefreshToken leave.
Holding(t) == [tab EXCEPT !.access = "valid", !.stored = t]

\* clearTokens
Cleared == [tab EXCEPT !.access = "none", !.stored = 0]

SignedOut == [Cleared EXCEPT !.signedIn = FALSE]

\* The tokens as the tab receives one of them.
Received(t) == [tokens EXCEPT ![t].holder = "tab"]

\* get_current_user will take the access token.
Accepted == tab.access = "valid"

Launched == [phase |-> "sent", accepted |-> Accepted]

\* The router renders once checked: some routes for those who are signed in, the forms
\* for those who are not.
Rendered == tab.checked
ProtectedRoute == Rendered /\ tab.signedIn
PublicOnlyRoute == Rendered /\ ~tab.signedIn

-----------------------------------------------------------------------------
(* The page load. *)

\* initialize, up to its refresh.
Initialize ==
    /\ world.tab
    /\ ~tab.started
    /\ tab' = [tab EXCEPT !.started = TRUE, !.checked = tab.stored = 0]
    /\ IF tab.stored = 0
       THEN UNCHANGED serverVars
       ELSE /\ Send(Refreshing, "refresh", tab.stored)
            /\ UNCHANGED <<user, tokens, links>>
    /\ UNCHANGED <<world, calls, leaving>>

\* Its refresh is answered: the tokens are stored and the user is loaded.
Restored ==
    LET n == req[Refreshing].issued
    IN  /\ ~tab.checked /\ ~tab.shared
        /\ Answered(Refreshing)
        /\ req[Refreshing].answer = "ok"
        /\ tab' = Holding(n)
        /\ tokens' = Received(n)
        /\ calls' = [calls EXCEPT ![Me] = [phase |-> "sent", accepted |-> TRUE]]
        /\ req' = [req EXCEPT ![Refreshing] = Idle]
        /\ UNCHANGED <<user, links, world, leaving>>

\* Mutant: a failed restore leaves the application behind its spinner.
RestoreFailsSilently ==
    /\ ~tab.checked /\ ~tab.shared
    /\ Answered(Refreshing)
    /\ req[Refreshing].answer # "ok"
    /\ tab' = SignedOut
    /\ req' = [req EXCEPT ![Refreshing] = Idle]
    /\ UNCHANGED <<user, tokens, links, world, calls, leaving>>

\* Any error of the restore ends in a checked, signed-out tab.
RestoreFails ==
    /\ ~tab.checked /\ ~tab.shared
    /\ Answered(Refreshing)
    /\ req[Refreshing].answer # "ok"
    /\ tab' = [SignedOut EXCEPT !.checked = TRUE]
    /\ req' = [req EXCEPT ![Refreshing] = Idle]
    /\ UNCHANGED <<user, tokens, links, world, calls, leaving>>

-----------------------------------------------------------------------------
(* Calls, and the shared refresh. *)

\* A page of the signed-in tab calls the API.
StartCall(c) ==
    /\ ProtectedRoute
    /\ c \in Calls
    /\ calls[c].phase = "idle"
    /\ calls' = [calls EXCEPT ![c] = Launched]
    /\ UNCHANGED <<serverVars, world, tab, leaving>>

\* What a call's end means: the page load completes, or fails with any error.
AfterCall(c, ok) ==
    IF c # Me THEN tab
    ELSE IF ok THEN [tab EXCEPT !.signedIn = TRUE, !.checked = TRUE]
    ELSE [SignedOut EXCEPT !.checked = TRUE]

InFlight(c) == calls[c].phase \in {"sent", "resent"}

\* get_current_user accepts the token and the response arrives.
CallSucceeds(c) ==
    /\ InFlight(c)
    /\ calls[c].accepted
    /\ calls' = [calls EXCEPT ![c] = Quiet]
    /\ tab' = AfterCall(c, TRUE)
    /\ UNCHANGED <<serverVars, world, leaving>>

\* An error other than 401, no response at all, or a second 401.
CallFails(c) ==
    /\ InFlight(c)
    /\ calls' = [calls EXCEPT ![c] = Quiet]
    /\ tab' = AfterCall(c, FALSE)
    /\ UNCHANGED <<serverVars, world, leaving>>

\* Mutant: every 401 starts a refresh of its own.
OwnRefresh(t) ==
    /\ tab.stored # 0
    /\ \E r \in {Refreshing} \cup Around : Send(r, "refresh", tab.stored)
    /\ tab' = [t EXCEPT !.shared = TRUE]
    /\ UNCHANGED <<user, tokens, links>>

\* The unauthorized handler: whoever comes while a refresh is in flight shares it.
JoinRefresh(t) ==
    IF tab.shared
    THEN /\ tab' = t
         /\ UNCHANGED serverVars
    ELSE /\ tab.stored # 0
         /\ Send(Refreshing, "refresh", tab.stored)
         /\ tab' = [t EXCEPT !.shared = TRUE]
         /\ UNCHANGED <<user, tokens, links>>

\* The first 401 of a call.
CallRejected(c) ==
    /\ calls[c].phase = "sent"
    /\ ~calls[c].accepted
    /\ calls' = [calls EXCEPT ![c].phase = "waiting"]
    /\ JoinRefresh(tab)
    /\ UNCHANGED <<world, leaving>>

\* Without a stored token there is nothing to refresh with: the 401 is the answer.
CallGivesUp(c) ==
    /\ calls[c].phase = "sent"
    /\ ~calls[c].accepted
    /\ ~tab.shared
    /\ tab.stored = 0
    /\ calls' = [calls EXCEPT ![c] = Quiet]
    /\ tab' = AfterCall(c, FALSE)
    /\ UNCHANGED <<serverVars, world, leaving>>

Waiting == {c \in AllCalls : calls[c].phase = "waiting"}

\* Mutant: the new refresh token is not stored.
KeepStored(t) == [tab EXCEPT !.access = "valid"]

\* performRefresh stores both tokens.
Renewed(t) == Holding(t)

\* performRefresh succeeds: everyone who waited sends the call again, once.
Refreshed ==
    LET n == req[Refreshing].issued
    IN  /\ tab.shared
        /\ Answered(Refreshing)
        /\ req[Refreshing].answer = "ok"
        /\ tab' = [Renewed(n) EXCEPT !.shared = FALSE]
        /\ tokens' = Received(n)
        /\ calls' = [c \in AllCalls |->
                        IF c \in Waiting THEN [phase |-> "resent", accepted |-> TRUE]
                        ELSE calls[c]]
        /\ IF leaving = "waiting"
           THEN /\ leaving' = "resent"
                /\ req' = [req EXCEPT ![Refreshing] = Idle,
                                      ![Form] = Request("logout", tab.leavingWith)]
           ELSE /\ UNCHANGED leaving
                /\ req' = [req EXCEPT ![Refreshing] = Idle]
        /\ UNCHANGED <<user, links, world>>

\* Mutant: the refresh call takes the 401 hook itself and waits for its own end.
WaitsForItself ==
    /\ tab.shared
    /\ Answered(Refreshing)
    /\ req[Refreshing].answer \notin {"ok", "unauthorized"}
    /\ tab' = [SignedOut EXCEPT !.shared = FALSE, !.leavingWith = 0]
    /\ calls' = [c \in AllCalls |-> IF c \in Waiting THEN Quiet ELSE calls[c]]
    /\ leaving' = IF leaving = "waiting" THEN "no" ELSE leaving
    /\ req' = [req EXCEPT ![Refreshing] = Idle]
    /\ UNCHANGED <<user, tokens, links, world>>

\* performRefresh fails, for whatever reason: the session is cleared, and the calls
\* that waited end with their 401, the logout among them.
RefreshFails ==
    /\ tab.shared
    /\ Answered(Refreshing)
    /\ req[Refreshing].answer # "ok"
    /\ tab' = LET t == [SignedOut EXCEPT !.shared = FALSE, !.leavingWith = 0]
              IN  IF Me \in Waiting THEN [t EXCEPT !.checked = TRUE] ELSE t
    /\ calls' = [c \in AllCalls |-> IF c \in Waiting THEN Quiet ELSE calls[c]]
    /\ leaving' = IF leaving = "waiting" THEN "no" ELSE leaving
    /\ req' = [req EXCEPT ![Refreshing] = Idle]
    /\ UNCHANGED <<user, tokens, links, world>>

-----------------------------------------------------------------------------
(* The forms. *)

\* LoginPage and RegisterPage.
Submit(op) ==
    /\ PublicOnlyRoute
    /\ Send(Form, op, 0)
    /\ UNCHANGED <<user, tokens, links, clientVars>>

SubmitAnswered ==
    LET n == req[Form].issued
    IN  /\ Answered(Form)
        /\ req[Form].op \in {"login", "register"}
        /\ req' = [req EXCEPT ![Form] = Idle]
        /\ IF req[Form].answer = "ok"
           THEN /\ tab' = [Holding(n) EXCEPT !.signedIn = TRUE]
                /\ tokens' = Received(n)
           ELSE UNCHANGED <<tab, tokens>>
        /\ UNCHANGED <<user, links, world, calls, leaving>>

\* logout reads the stored token once; the call needs the access token.
Logout ==
    /\ ProtectedRoute
    /\ leaving = "no"
    /\ IF Accepted
       THEN /\ Send(Form, "logout", tab.stored)
            /\ leaving' = "sent"
            /\ tab' = [tab EXCEPT !.leavingWith = tab.stored]
            /\ UNCHANGED <<user, tokens, links>>
       ELSE /\ req[Form] = Idle
            /\ leaving' = "waiting"
            /\ JoinRefresh([tab EXCEPT !.leavingWith = tab.stored])
    /\ UNCHANGED <<world, calls>>

\* The access token expired on the way: the logout, too, waits for the shared refresh.
LogoutRejected ==
    /\ leaving = "sent"
    /\ At(Form, "logout", "sent")
    /\ tab.access = "expired"
    /\ leaving' = "waiting"
    /\ IF tab.shared
       THEN req' = [req EXCEPT ![Form] = Idle] /\ UNCHANGED tab
       ELSE /\ req[Refreshing] = Idle
            /\ req' = [req EXCEPT ![Form] = Idle,
                                  ![Refreshing] = Request("refresh", tab.stored)]
            /\ tab' = [tab EXCEPT !.shared = TRUE]
    /\ UNCHANGED <<user, tokens, links, world, calls>>

\* The local session is cleared whatever came of the call.
LogoutAnswered ==
    /\ leaving \in {"sent", "resent"}
    /\ Answered(Form)
    /\ tab' = [SignedOut EXCEPT !.leavingWith = 0]
    /\ leaving' = "no"
    /\ req' = [req EXCEPT ![Form] = Idle]
    /\ UNCHANGED <<user, tokens, links, world, calls>>

-----------------------------------------------------------------------------
(* Time, the network and the others. *)

Mishap ==
    /\ world.mishaps > 0
    /\ world' = [world EXCEPT !.mishaps = @ - 1]

\* The access token expires; a call on its way may reach the server before that.
AccessExpires(S) ==
    /\ tab.access = "valid"
    /\ S \subseteq {c \in AllCalls : InFlight(c)}
    /\ tab' = [tab EXCEPT !.access = "expired"]
    /\ calls' = [c \in AllCalls |-> IF c \in S THEN [calls[c] EXCEPT !.accepted = FALSE]
                                    ELSE calls[c]]
    /\ UNCHANGED <<serverVars, world, leaving>>

\* The answer to a request of the tab never comes: fetch throws.
NetworkError(r) ==
    /\ Mishap
    /\ req[r].by = "tab"
    /\ Answered(r) => req[r].answer # "error"
    /\ Detach({r}, [x \in {r} |-> [Request(req[r].op, 0) EXCEPT !.phase = "answered",
                                                              !.answer = "error"]])
    /\ UNCHANGED <<user, tokens, links, tab, calls, leaving>>

\* The page is loaded anew: all that is left is what localStorage keeps.
Reload ==
    /\ Mishap
    /\ Detach({Refreshing, Form}, [x \in {Refreshing, Form} |-> Idle])
    /\ tab' = [Fresh EXCEPT !.stored = tab.stored]
    /\ calls' = [c \in AllCalls |-> Quiet]
    /\ leaving' = "no"
    /\ UNCHANGED <<user, tokens, links>>

\* Somebody opens a link that was sent, as often as they like.
Opened(l, kind) == l \in Links /\ KindOf[l] = kind /\ links[l] # "unsent"

\* Another device signs in, registers or refreshes; somebody opens a link.
OtherRequest(r, op, t, l) ==
    /\ r \in Around
    /\ op \in world.others
    /\ req[r] = Idle
    /\ CASE op = "refresh" -> t \in DOMAIN tokens /\ tokens[t].holder = "elsewhere" /\ l = NoLink
         [] op \in {"reset", "verify"} -> t = 0 /\ Opened(l, op)
         [] op = "google" -> t = 0 /\ Opened(l, "oauth")
         [] OTHER -> t = 0 /\ l = NoLink /\ op \in {"login", "register"}
    /\ req' = [req EXCEPT ![r] = [Request(op, t) EXCEPT !.link = l, !.by = "elsewhere"]]
    /\ UNCHANGED <<user, tokens, links, clientVars>>

\* Somebody asks for a link that somebody opens.
SendTo(l) ==
    /\ (IF KindOf[l] = "oauth" THEN "google" ELSE KindOf[l]) \in world.others
    /\ SendLink(l)
    /\ UNCHANGED clientVars

-----------------------------------------------------------------------------
\* An error of the database, or the end of the process; at the bound on tokens the
\* commits of the model stop, and what waits for them fails.
ServerFailure(r) ==
    /\ ServerFails(r)
    /\ IF Len(tokens) = MaxTokens THEN UNCHANGED world ELSE Mishap
    /\ UNCHANGED <<tab, calls, leaving>>

Expiry ==
    /\ Mishap
    /\ \/ \E l \in Links : LinkExpires(l)
       \/ \E t \in DOMAIN tokens : TokenExpires(t)
    /\ UNCHANGED <<tab, calls, leaving>>

Server(r) == ServerStep(r) /\ UNCHANGED clientVars

RefreshStep ==
    \/ Initialize
    \/ Restored
    \/ RestoreFails
    \/ Refreshed
    \/ RefreshFails

FormStep ==
    \/ SubmitAnswered
    \/ LogoutRejected
    \/ LogoutAnswered

CallStep(c) ==
    \/ CallSucceeds(c)
    \/ CallFails(c)
    \/ CallRejected(c)
    \/ CallGivesUp(c)

Next ==
    \/ \E r \in Requests : Server(r) \/ ServerFailure(r)
    \/ \E l \in Links : SendTo(l)
    \/ Expiry
    \/ RefreshStep
    \/ FormStep
    \/ \E c \in AllCalls : CallStep(c)
    \/ \E c \in Calls : StartCall(c)
    \/ \E op \in {"login", "register"} : Submit(op)
    \/ Logout
    \/ \E S \in SUBSET AllCalls : AccessExpires(S)
    \/ \E r \in {Refreshing, Form} : NetworkError(r)
    \/ Reload
    \/ \E r \in Elsewhere, op \in Ops, t \in 0..MaxTokens, l \in Links \cup {NoLink} :
          OtherRequest(r, op, t, l)

Spec == Init /\ [][Next]_vars

\* The server ends every request, with an error if need be; every fetch settles; the
\* callbacks of settled requests run.
FairSpec ==
    /\ Spec
    /\ \A r \in Requests : WF_vars(Server(r) \/ ServerFailure(r))
    /\ WF_vars(RefreshStep)
    /\ WF_vars(FormStep)
    /\ \A c \in AllCalls : WF_vars(CallStep(c))

-----------------------------------------------------------------------------
(* Properties. *)

Request0 == [op : Ops \cup {"none"}, phase : {"idle", "sent", "open", "answered"},
             token : 0..MaxTokens, link : Links \cup {NoLink}, user : User,
             live : SUBSET (1..MaxTokens), answer : Answers \cup {"none"},
             issued : 0..MaxTokens, by : Holders]

\* The rows, requests and the tab have their shapes, and what they name exists.
TypeOK ==
    /\ user \in User
    /\ Len(tokens) <= MaxTokens
    /\ \A t \in DOMAIN tokens : tokens[t] \in Token
    /\ links \in [Links -> LinkStates]
    /\ \A r \in Requests : /\ req[r] \in Request0
                           /\ req[r].token <= Len(tokens)
                           /\ req[r].issued <= Len(tokens)
    /\ tab \in Tab
    /\ tab.stored <= Len(tokens)
    /\ calls \in [AllCalls -> [phase : CallPhases, accepted : BOOLEAN]]
    /\ leaving \in {"no", "sent", "waiting", "resent"}

\* The tab is never refused a refresh because of a refresh of its own that it got the
\* answer to: calls that are rejected together share one ("the rest would then wrongly
\* sign the user out", store.ts).
NoSelfRejection ==
    \A r \in Requests :
        At(r, "refresh", "answered") /\ req[r].answer = "unauthorized" =>
            LET t == tokens[req[r].token]
            IN  t.next # 0 => tokens[t.next].holder # "tab"

TabIsQuiet == \A r \in {Refreshing, Form} : req[r] = Idle

\* A tab that is signed in and has nothing under way holds a token that works, unless a
\* reset or its expiry has ended it: rotations, reloads and lost answers leave no tab
\* that only seems signed in.
SignedInCanRefresh ==
    tab.signedIn /\ TabIsQuiet =>
        /\ tab.stored # 0
        /\ tokens[tab.stored].state \in {"live", "reset", "expired"}

\* Every page load ends its check of the session, whatever is lost on the way.
SessionChecked == world.tab /\ ~tab.checked ~> tab.checked

\* Every call ends: no call waits for a refresh that waits for it.
CallsSettle == \A c \in AllCalls : calls[c].phase # "idle" ~> calls[c].phase = "idle"

\* "the server-side guarantee this endpoint provides is that the refresh session can no
\* longer mint new access tokens" (api/v1/auth.py, logout): once the tab has its 204, no
\* token of the session it named is live.
LogoutEndsSession ==
    [][\A t \in DOMAIN tokens :
          LogoutAnswered /\ req[Form].answer = "ok"
              /\ tokens[t].session = tokens[req[Form].token].session => ~Live(t)]_vars
=============================================================================
