------------------------- MODULE ClientSessionProofs -------------------------
(***************************************************************************)
(* What holds of the tokens, the passwords and the tab of one account for  *)
(* any number of requests, devices, links and calls: a session has one     *)
(* live token and a reset ends the sessions there are (Inv), each reset    *)
(* link sets one password (PasswordInv), everything keeps its type         *)
(* (Typed), a page refreshes once at a time (PageInv), and the tab only    *)
(* presents tokens that are its own (Owned).                               *)
(***************************************************************************)
EXTENDS ClientSession, SequenceTheorems, FiniteSetTheorems, TLAPS

TokenFields == {"session", "era", "state", "next", "clean", "holder"}

RequestFields == {"op", "phase", "token", "link", "user", "live", "answer", "issued", "by"}

UserFields == {"exists", "local", "password", "verified", "google"}

TabFields == {"access", "stored", "signedIn", "started", "checked", "shared", "leavingWith"}

IsRequest(q) ==
    /\ RequestFields \subseteq DOMAIN q
    /\ UserFields \subseteq DOMAIN q.user
    /\ q.user.password \in Nat

IsToken(t) == TokenFields \subseteq DOMAIN t

Shapes ==
    /\ \E S : tokens \in Seq(S)
    /\ \A t \in DOMAIN tokens : IsToken(tokens[t])
    /\ DOMAIN req = Requests
    /\ \A r \in Requests : IsRequest(req[r])
    /\ UserFields \subseteq DOMAIN user
    /\ user.password \in Nat
    /\ TabFields \subseteq DOMAIN tab

\* The refresh that has read token t and goes on to exchange it.
Rotating(r) == Holds(r, "refresh")

SameSession(i, j) == tokens[i].session = tokens[j].session

\* A session is named after its first token.
SessionsKnown == \A t \in DOMAIN tokens : tokens[t].session \in DOMAIN tokens

\* Whoever rotates a token is alone in that session: no other token of it is live, and
\* nobody else rotates one.
RotatingAlone ==
    \A r \in Requests :
        Rotating(r) =>
            /\ req[r].token \in DOMAIN tokens
            /\ \A t \in DOMAIN tokens :
                  t # req[r].token /\ SameSession(t, req[r].token) => ~Live(t)

RotatingApart ==
    \A q, r \in Requests :
        Rotating(q) /\ Rotating(r) /\ q # r => ~SameSession(req[q].token, req[r].token)

\* Tokens are those of an account, which is never deleted.
AccountExists ==
    /\ tokens # <<>> => user.exists = TRUE
    /\ \A r \in Requests :
          req[r].phase = "open" /\ (req[r].op = "login" \/ req[r].user.exists = TRUE) =>
              user.exists = TRUE

\* A live token that no reset could miss has the password of today, ...
CleanIsCurrent ==
    \A t \in DOMAIN tokens : Live(t) /\ tokens[t].clean = TRUE => tokens[t].era = user.password

\* ... and the reset under way has read it.
CleanIsRead ==
    \A r \in Requests :
        Holds(r, "reset") =>
            \A t \in DOMAIN tokens : Live(t) /\ tokens[t].clean = TRUE => t \in req[r].live

Safe ==
    /\ SessionsKnown
    /\ OneLivePerSession
    /\ RotatingAlone
    /\ RotatingApart
    /\ AccountExists
    /\ CleanIsCurrent
    /\ CleanIsRead

\* What requests name, and what they were answered with, exists.
Named(r) ==
    /\ req[r].op = "refresh" /\ req[r].phase \in {"sent", "open"} =>
           req[r].token \in DOMAIN tokens
    /\ req[r].phase = "answered" /\ req[r].answer = "ok"
           /\ req[r].op \in {"refresh", "login", "register"} => req[r].issued \in DOMAIN tokens
    /\ r = Refreshing /\ req[r].phase # "idle" => req[r].op = "refresh"
    /\ req[r].phase = "idle" => req[r].by # "tab"

\* What the tab holds exists, and it has an access token only beside a refresh token.
TabNamed ==
    /\ tab.stored # 0 => tab.stored \in DOMAIN tokens
    /\ tab.access # "none" => tab.stored # 0

Inv ==
    /\ Shapes
    /\ Safe
    /\ \A r \in Requests : Named(r)
    /\ TabNamed

-----------------------------------------------------------------------------
(* Steps, by what they do to the tokens and to the requests. *)

\* Nothing comes to life, and no session or password of a token changes.
TokensKept ==
    /\ \E S : tokens' \in Seq(S)
    /\ DOMAIN tokens' = DOMAIN tokens
    /\ \A t \in DOMAIN tokens :
          /\ IsToken(tokens'[t])
          /\ tokens'[t].session = tokens[t].session
          /\ tokens'[t].era = tokens[t].era
          /\ tokens'[t].clean = tokens[t].clean
          /\ tokens'[t].state = "live" => tokens[t].state = "live"

\* A request that is open was open before, in this slot or in another one.
OpenKept(slot) ==
    /\ \A r \in Requests :
          req'[r].phase = "open" =>
              /\ slot[r] \in Requests
              /\ req[slot[r]].phase = "open"
              /\ req'[r].op = req[slot[r]].op
              /\ req'[r].token = req[slot[r]].token
              /\ req'[r].live = req[slot[r]].live
              /\ req'[r].user = req[slot[r]].user
    /\ \A q, r \in Requests :
          req'[q].phase = "open" /\ req'[r].phase = "open" /\ q # r => slot[q] # slot[r]

AccountKept == user'.password = user.password /\ user'.exists = user.exists

\* A step that kills tokens and ends requests keeps the sessions apart.
LEMMA KeptIsSafe ==
    ASSUME Shapes, Safe, TokensKept, NEW slot, OpenKept(slot), AccountKept
    PROVE  Safe'
  <1>1. SessionsKnown'
    BY DEF Safe, SessionsKnown, TokensKept
  <1>2. OneLivePerSession'
    BY DEF Safe, OneLivePerSession, TokensKept, Live
  <1>3. RotatingAlone'
    BY DEF Safe, RotatingAlone, TokensKept, Live, Rotating, Holds, OpenKept, SameSession
  <1>4. RotatingApart'
    BY DEF Safe, RotatingAlone, RotatingApart, TokensKept, Rotating, Holds, OpenKept, SameSession
  <1>5. AccountExists'
    <2>1. tokens' # <<>> => tokens # <<>>
      BY DEF TokensKept, Shapes
    <2> QED
      BY <2>1 DEF Safe, AccountExists, OpenKept, AccountKept
  <1>6. CleanIsCurrent'
    BY DEF Safe, CleanIsCurrent, TokensKept, Live, AccountKept
  <1>7. CleanIsRead'
    BY DEF Safe, CleanIsRead, TokensKept, Live, Holds, OpenKept
  <1> QED
    BY <1>1, <1>2, <1>3, <1>4, <1>5, <1>6, <1>7 DEF Safe

\* The other requests stay as they are.
OnlyRequest(r) == \A q \in Requests \ {r} : req'[q] = req[q]

\* A request goes on with what it has read: a rotation with a live token that nobody else
\* rotates, a reset with all live tokens.
LEMMA OpenIsSafe ==
    ASSUME Shapes, Safe, NEW r \in Requests, OnlyRequest(r), UNCHANGED <<user, tokens>>,
           req'[r].op = "refresh" =>
               /\ req'[r].token \in DOMAIN tokens
               /\ Live(req'[r].token)
               /\ TokenFree(req'[r].token),
           req'[r].op = "reset" => req'[r].live = LiveTokens,
           req'[r].op = "login" \/ req'[r].user.exists = TRUE => user.exists = TRUE
    PROVE  Safe'
  <1>1. SessionsKnown' /\ OneLivePerSession' /\ CleanIsCurrent'
    BY DEF Safe, SessionsKnown, OneLivePerSession, CleanIsCurrent, Live
  <1>2. RotatingAlone'
    BY DEF Safe, RotatingAlone, Rotating, Holds, OnlyRequest, SameSession, Live,
           OneLivePerSession
  <1>3. ASSUME NEW q \in Requests \ {r}, Rotating(q)', Rotating(r)'
        PROVE  ~SameSession(req[q].token, req'[r].token)
    <2>1. Rotating(q) /\ req[q].token # req'[r].token
      BY <1>3 DEF OnlyRequest, Rotating, Holds, TokenFree
    <2>2. req'[r].token \in DOMAIN tokens /\ Live(req'[r].token)
      BY <1>3 DEF Rotating, Holds
    <2> QED
      BY <2>1, <2>2 DEF Safe, RotatingAlone, SameSession
  <1>4. RotatingApart'
    BY <1>3 DEF Safe, RotatingApart, Rotating, Holds, OnlyRequest, SameSession
  <1>5. AccountExists'
    BY DEF Safe, AccountExists, OnlyRequest
  <1>6. CleanIsRead'
    BY DEF Safe, CleanIsRead, Holds, OnlyRequest, LiveTokens, Live
  <1> QED
    BY <1>1, <1>2, <1>4, <1>5, <1>6 DEF Safe

\* A token is appended; it begins a session or takes the place of one that is rotated.
Issued(r) ==
    LET n == Len(tokens) + 1
    IN  /\ \E S : tokens' \in Seq(S)
        /\ DOMAIN tokens' = 1..n
        /\ \A t \in DOMAIN tokens :
              /\ IsToken(tokens'[t])
              /\ tokens'[t].session = tokens[t].session
              /\ tokens'[t].era = tokens[t].era
              /\ tokens'[t].clean = tokens[t].clean
              /\ tokens'[t].state = "live" => tokens[t].state = "live"
        /\ IsToken(tokens'[n])
        /\ \/ tokens'[n].session = n
           \/ /\ Rotating(r)
              /\ tokens'[n].session = tokens[req[r].token].session
              /\ tokens'[req[r].token].state # "live"
        /\ tokens'[n].clean = TRUE =>
              tokens'[n].era = user'.password /\ ~ResetUnderWay(r)

\* A new token keeps its session alone: the one it follows is no longer live.
LEMMA IssueIsSafe ==
    ASSUME Shapes, Safe, NEW r \in Requests, OnlyRequest(r), req'[r].phase # "open",
           Issued(r), user'.exists = TRUE,
           user.exists = TRUE => user'.password = user.password
    PROVE  Safe'
  <1> DEFINE n == Len(tokens) + 1
  <1>1. /\ DOMAIN tokens = 1..Len(tokens) /\ Len(tokens) \in Nat
        /\ n \notin DOMAIN tokens /\ DOMAIN tokens' = DOMAIN tokens \cup {n}
    BY DEF Shapes, Issued
  <1>2. /\ \A t \in DOMAIN tokens :
              /\ tokens'[t].session = tokens[t].session
              /\ tokens'[t].era = tokens[t].era
              /\ tokens'[t].clean = tokens[t].clean
              /\ tokens'[t].state = "live" => tokens[t].state = "live"
        /\ \/ tokens'[n].session = n
           \/ /\ Rotating(r)
              /\ tokens'[n].session = tokens[req[r].token].session
              /\ tokens'[req[r].token].state # "live"
        /\ tokens'[n].clean = TRUE =>
              tokens'[n].era = user'.password /\ ~ResetUnderWay(r)
    BY DEF Issued
  <1>3. \A q \in Requests : req'[q].phase = "open" => q # r /\ req'[q] = req[q]
    BY DEF OnlyRequest
  <1> HIDE DEF n
  <1>4. SessionsKnown'
    BY <1>1, <1>2 DEF Safe, SessionsKnown, RotatingAlone
  <1>5. OneLivePerSession'
    <2>1. \A t \in DOMAIN tokens : tokens'[t].session = tokens'[n].session => ~(tokens'[t].state = "live")
      BY <1>1, <1>2 DEF Safe, SessionsKnown, RotatingAlone, SameSession, Live
    <2> QED
      BY <1>1, <1>2, <2>1 DEF Safe, OneLivePerSession, Live
  <1>6. RotatingAlone'
    <2> SUFFICES ASSUME NEW q \in Requests, Rotating(q)'
                 PROVE  /\ req[q].token \in DOMAIN tokens'
                        /\ \A t \in DOMAIN tokens' :
                              t # req[q].token /\ tokens'[t].session = tokens'[req[q].token].session
                                  => tokens'[t].state # "live"
      BY <1>3 DEF RotatingAlone, Rotating, Holds, SameSession, Live
    <2>1. Rotating(q) /\ q # r
      BY <1>3 DEF Rotating, Holds
    <2>2. req[q].token \in DOMAIN tokens
      BY <2>1 DEF Safe, RotatingAlone
    <2>3. tokens'[n].session # tokens'[req[q].token].session
      BY <1>1, <1>2, <2>1, <2>2 DEF Safe, SessionsKnown, RotatingApart, SameSession
    <2> QED
      BY <1>1, <1>2, <2>1, <2>2, <2>3 DEF Safe, RotatingAlone, SameSession, Live
  <1>7. RotatingApart'
    BY <1>2, <1>3 DEF Safe, RotatingAlone, RotatingApart, Rotating, Holds, SameSession
  <1>8. AccountExists'
    BY DEF AccountExists
  <1>9. CleanIsCurrent'
    BY <1>1, <1>2 DEF Safe, CleanIsCurrent, Live, AccountExists
  <1>10. CleanIsRead'
    BY <1>1, <1>2, <1>3 DEF Safe, CleanIsRead, Live, Holds, ResetUnderWay
  <1> QED
    BY <1>4, <1>5, <1>6, <1>7, <1>8, <1>9, <1>10 DEF Safe

-----------------------------------------------------------------------------
(* What the helpers of AuthTokens leave of the requests. *)

RequestShapes == DOMAIN req = Requests /\ \A q \in Requests : IsRequest(req[q])

\* A free slot is well-formed and waits for nothing.
LEMMA IdleIsRequest ==
    IsRequest(Idle) /\ Idle.phase = "idle" /\ Idle.op = "none" /\ Idle.by = "nobody"
  BY DEF IsRequest, RequestFields, UserFields, Idle, NoUser

\* An answer ends the request: it is kept for the tab, and the slot is free otherwise.
LEMMA Answering ==
    ASSUME RequestShapes, NEW r \in Requests, NEW a, NEW n, AnswerWith(r, a, n)
    PROVE  /\ RequestShapes'
           /\ OnlyRequest(r)
           /\ req'[r].phase \in {"idle", "answered"}
           /\ req'[r].phase = "idle" => req'[r].by = "nobody"
           /\ req'[r].phase = "answered" =>
                  req'[r].op = req[r].op /\ req'[r].answer = a /\ req'[r].issued = n
  <1> DEFINE kept == [req[r] EXCEPT !.phase = "answered", !.answer = a, !.issued = n]
  <1>1. /\ IsRequest(kept) /\ kept.phase = "answered"
        /\ kept.op = req[r].op /\ kept.answer = a /\ kept.issued = n
    BY DEF RequestShapes, IsRequest, RequestFields
  <1>2. req' = [req EXCEPT ![r] = IF req[r].by = "tab" THEN kept ELSE Idle]
    BY DEF AnswerWith
  <1> HIDE DEF kept
  <1> QED
    BY <1>1, <1>2, IdleIsRequest DEF RequestShapes, OnlyRequest

\* A request that goes on keeps what it is about.
LEMMA Opening ==
    ASSUME RequestShapes, UserFields \subseteq DOMAIN user, user.password \in Nat,
           NEW r \in Requests, NEW live, Open(r, live)
    PROVE  /\ RequestShapes'
           /\ OnlyRequest(r)
           /\ req'[r].phase = "open"
           /\ req'[r].op = req[r].op
           /\ req'[r].token = req[r].token
           /\ req'[r].user = user
           /\ req'[r].live = live
  BY DEF Open, RequestShapes, IsRequest, RequestFields, OnlyRequest

\* What one request's step leaves named.
LEMMA NamedStill ==
    ASSUME NEW r \in Requests, \A q \in Requests : Named(q), OnlyRequest(r), Named(r)',
           DOMAIN tokens \subseteq DOMAIN tokens'
    PROVE  \A q \in Requests : Named(q)'
  BY DEF Named, OnlyRequest

-----------------------------------------------------------------------------
(* The steps of the server, by kind. *)

AccountShape == UserFields \subseteq DOMAIN user /\ user.password \in Nat

\* A request ends without a new token.
LEMMA EndInv ==
    ASSUME Inv, NEW r \in Requests, NEW a, NEW n, AnswerWith(r, a, n), TokensKept, AccountKept,
           AccountShape', UNCHANGED tab,
           a # "ok" \/ req[r].op \notin {"refresh", "login", "register"},
           r = Refreshing => req[r].op = "refresh"
    PROVE  Inv'
  <1>1. /\ RequestShapes'
        /\ OnlyRequest(r)
        /\ req'[r].phase \in {"idle", "answered"}
        /\ req'[r].phase = "idle" => req'[r].by = "nobody"
        /\ req'[r].phase = "answered" =>
               req'[r].op = req[r].op /\ req'[r].answer = a /\ req'[r].issued = n
    BY Answering DEF Inv, Shapes, RequestShapes
  <1>2. Shapes'
    BY <1>1 DEF Inv, Shapes, RequestShapes, TokensKept, AccountShape
  <1>3. OpenKept([q \in Requests |-> q])
    BY <1>1 DEF OpenKept, OnlyRequest
  <1>4. Safe'
    BY <1>3, KeptIsSafe DEF Inv
  <1>5. Named(r)'
    BY <1>1 DEF Named
  <1>6. \A q \in Requests : Named(q)'
    BY <1>1, <1>5, NamedStill DEF Inv, TokensKept
  <1>7. TabNamed'
    BY DEF Inv, TabNamed, TokensKept
  <1> QED
    BY <1>2, <1>4, <1>6, <1>7 DEF Inv

\* A request ends with the token it has been issued.
LEMMA IssueInv ==
    ASSUME Inv, NEW r \in Requests, AnswerWith(r, "ok", Len(tokens) + 1), Issued(r),
           AccountShape', user'.exists = TRUE, UNCHANGED tab,
           user.exists = TRUE => user'.password = user.password,
           r = Refreshing => req[r].op = "refresh"
    PROVE  Inv'
  <1> DEFINE n == Len(tokens) + 1
  <1>1. /\ RequestShapes'
        /\ OnlyRequest(r)
        /\ req'[r].phase \in {"idle", "answered"}
        /\ req'[r].phase = "idle" => req'[r].by = "nobody"
        /\ req'[r].phase = "answered" =>
               req'[r].op = req[r].op /\ req'[r].answer = "ok" /\ req'[r].issued = n
    BY Answering DEF Inv, Shapes, RequestShapes
  <1>2. /\ DOMAIN tokens = 1..Len(tokens) /\ Len(tokens) \in Nat
        /\ n \in DOMAIN tokens' /\ DOMAIN tokens' = DOMAIN tokens \cup {n}
    BY DEF Inv, Shapes, Issued
  <1>3. \A t \in DOMAIN tokens' : IsToken(tokens'[t])
    BY <1>2 DEF Issued
  <1>4. Shapes'
    BY <1>1, <1>3 DEF Inv, Shapes, RequestShapes, Issued, AccountShape
  <1>5. Safe'
    BY <1>1, IssueIsSafe DEF Inv
  <1>6. Named(r)'
    BY <1>1, <1>2 DEF Named
  <1>7. \A q \in Requests : Named(q)'
    BY <1>1, <1>2, <1>6, NamedStill DEF Inv
  <1>8. TabNamed'
    BY <1>2 DEF Inv, TabNamed
  <1> QED
    BY <1>4, <1>5, <1>7, <1>8 DEF Inv

\* A request goes on to its commit.
LEMMA OpenInv ==
    ASSUME Inv, NEW r \in Requests, NEW live, Open(r, live), UNCHANGED tab,
           req[r].op = "refresh" => /\ req[r].token \in DOMAIN tokens
                                    /\ Live(req[r].token)
                                    /\ TokenFree(req[r].token),
           req[r].op = "reset" => live = LiveTokens,
           req[r].op = "login" => user.exists = TRUE,
           r = Refreshing => req[r].op = "refresh"
    PROVE  Inv'
  <1>1. /\ RequestShapes'
        /\ OnlyRequest(r)
        /\ req'[r].phase = "open"
        /\ req'[r].op = req[r].op
        /\ req'[r].token = req[r].token
        /\ req'[r].user = user
        /\ req'[r].live = live
    BY Opening DEF Inv, Shapes, RequestShapes
  <1>2. UNCHANGED <<user, tokens>>
    BY DEF Open
  <1>3. Shapes'
    BY <1>1, <1>2 DEF Inv, Shapes, RequestShapes
  <1>4. Safe'
    BY <1>1, <1>2, OpenIsSafe DEF Inv
  <1>5. Named(r)'
    BY <1>1, <1>2 DEF Named
  <1>6. \A q \in Requests : Named(q)'
    BY <1>1, <1>2, <1>5, NamedStill DEF Inv
  <1>7. TabNamed'
    BY <1>2 DEF Inv, TabNamed
  <1> QED
    BY <1>3, <1>4, <1>6, <1>7 DEF Inv

\* A request that is rejected.
LEMMA RejectInv ==
    ASSUME Inv, NEW r \in Requests, NEW a, Reject(r, a), a # "ok", req[r].phase # "idle",
           UNCHANGED tab
    PROVE  Inv'
  <1>1. AnswerWith(r, a, 0) /\ UNCHANGED <<user, tokens>>
    BY DEF Reject
  <1>2. TokensKept /\ AccountKept /\ AccountShape'
    BY <1>1 DEF TokensKept, AccountKept, AccountShape, Inv, Shapes
  <1>3. r = Refreshing => req[r].op = "refresh"
    BY DEF Inv, Named
  <1> QED
    BY <1>1, <1>2, <1>3, EndInv

\* What an appended token leaves of the others.
LEMMA Appending ==
    ASSUME Shapes, NEW S, NEW edited \in Seq(S), DOMAIN edited = DOMAIN tokens, NEW child,
           tokens' = Append(edited, child)
    PROVE  /\ \E T : tokens' \in Seq(T)
           /\ DOMAIN tokens' = 1..(Len(tokens) + 1)
           /\ \A t \in DOMAIN tokens : tokens'[t] = edited[t]
           /\ tokens'[Len(tokens) + 1] = child
  <1> DEFINE T == S \cup {child}
  <1>1. edited \in Seq(T) /\ child \in T
    OBVIOUS
  <1>2. Len(edited) = Len(tokens) /\ DOMAIN tokens = 1..Len(edited) /\ Len(edited) \in Nat
    BY DEF Shapes
  <1> HIDE DEF T
  <1>3. /\ tokens' \in Seq(T) /\ Len(tokens') = Len(edited) + 1
        /\ \A t \in 1..Len(edited) : tokens'[t] = edited[t]
        /\ tokens'[Len(edited) + 1] = child
    BY <1>1, AppendProperties
  <1> QED
    BY <1>2, <1>3

\* The commit of a new sign-in.
LEMMA SignInInv ==
    ASSUME Inv, NEW r \in Requests, NEW era, IssueAndCommit(r, era), req[r].phase # "idle",
           AccountShape', user'.exists = TRUE, UNCHANGED tab,
           user.exists = TRUE => user'.password = user.password
    PROVE  Inv'
  <1> DEFINE n == Len(tokens) + 1
             child == [NewToken(r, n, era, TRUE) EXCEPT
                          !.clean = era = user'.password /\ ~ResetUnderWay(r)]
  <1>1. tokens' = Append(tokens, child) /\ AnswerWith(r, "ok", n)
    BY DEF IssueAndCommit
  <1>2. IsToken(child) /\ child.session = n /\ child.era = era
    BY DEF NewToken, IsToken, TokenFields
  <1>3. child.clean = (era = user'.password /\ ~ResetUnderWay(r))
    BY DEF NewToken
  <1> HIDE DEF child
  <1>4. /\ \E T : tokens' \in Seq(T)
        /\ DOMAIN tokens' = 1..n
        /\ \A t \in DOMAIN tokens : tokens'[t] = tokens[t]
        /\ tokens'[n] = child
    BY <1>1, Appending DEF Inv, Shapes
  <1>5. \A t \in DOMAIN tokens : IsToken(tokens[t])
    BY DEF Inv, Shapes
  <1>6. Issued(r)
    BY <1>2, <1>3, <1>4, <1>5 DEF Issued
  <1>7. r = Refreshing => req[r].op = "refresh"
    BY DEF Inv, Named
  <1> QED
    BY <1>1, <1>6, <1>7, IssueInv

-----------------------------------------------------------------------------
(* The steps of the server. *)

\* register
LEMMA RegisterInv ==
    ASSUME Inv, NEW r \in Requests, RegisterCheck(r) \/ RegisterCommit(r), UNCHANGED tab
    PROVE  Inv'
  <1>1. CASE RegisterCheck(r)
    <2>1. req[r].op = "register" /\ req[r].phase = "sent"
      BY <1>1 DEF RegisterCheck, At
    <2>2. CASE Reject(r, "conflict")
      BY <2>1, <2>2, RejectInv
    <2>3. CASE Open(r, {})
      BY <2>1, <2>3, OpenInv DEF Inv, Named
    <2> QED
      BY <1>1, <2>2, <2>3 DEF RegisterCheck
  <1>2. CASE RegisterCommit(r)
    <2>1. req[r].op = "register" /\ req[r].phase = "open"
      BY <1>2 DEF RegisterCommit, At
    <2>2. CASE Reject(r, "error")
      BY <2>1, <2>2, RejectInv
    <2>3. CASE ~user.exists
      <3>1. /\ user' = [NoUser EXCEPT !.exists = TRUE, !.local = TRUE, !.password = 1]
            /\ IssueAndCommit(r, 1)
        BY <1>2, <2>3 DEF RegisterCommit
      <3>2. AccountShape' /\ user'.exists = TRUE
        BY <3>1 DEF AccountShape, NoUser, UserFields
      <3>3. user.exists # TRUE
        BY <2>3
      <3> QED
        BY <2>1, <3>1, <3>2, <3>3, SignInInv
    <2> QED
      BY <1>2, <2>2, <2>3 DEF RegisterCommit
  <1> QED
    BY <1>1, <1>2

\* login
LEMMA LoginInv ==
    ASSUME Inv, NEW r \in Requests, LoginCheck(r) \/ LoginCommit(r), UNCHANGED tab
    PROVE  Inv'
  <1>1. CASE LoginCheck(r)
    <2>1. req[r].op = "login" /\ req[r].phase = "sent"
      BY <1>1 DEF LoginCheck, At
    <2>2. CASE Reject(r, "unauthorized")
      BY <2>1, <2>2, RejectInv
    <2>3. CASE user.exists /\ Open(r, {})
      <3>1. user.exists = TRUE
        BY <2>3 DEF Inv, Safe
      <3> QED
        BY <2>1, <2>3, <3>1, OpenInv DEF Inv, Named
    <2> QED
      BY <1>1, <2>2, <2>3 DEF LoginCheck
  <1>2. CASE LoginCommit(r)
    <2>1. /\ req[r].op = "login" /\ req[r].phase = "open"
          /\ IssueAndCommit(r, req[r].user.password) /\ UNCHANGED user
      BY <1>2 DEF LoginCommit, At
    <2>2. user'.exists = TRUE /\ AccountShape'
      BY <2>1 DEF Inv, Safe, AccountExists, Shapes, AccountShape
    <2> QED
      BY <2>1, <2>2, SignInInv
  <1> QED
    BY <1>1, <1>2

\* The Google callback.
LEMMA GoogleCheckInv ==
    ASSUME Inv, NEW r \in Requests, NEW l \in Links, NEW v \in BOOLEAN, GoogleCheck(r, l, v),
           UNCHANGED tab
    PROVE  Inv'
  <1>1. req[r].op = "google" /\ req[r].phase = "sent"
    BY DEF GoogleCheck, At
  <1>2. CASE Reject(r, "unauthorized")
    BY <1>1, <1>2, RejectInv
  <1>3. CASE AnswerWith(r, "unauthorized", 0) /\ UNCHANGED <<user, tokens>>
    <2>1. TokensKept /\ AccountKept /\ AccountShape'
      BY <1>3 DEF TokensKept, AccountKept, AccountShape, Inv, Shapes
    <2> QED
      BY <1>1, <1>3, <2>1, EndInv DEF Inv, Named
  <1>4. ASSUME UNCHANGED <<user, tokens>>,
               req' = [req EXCEPT ![r].phase = "open",
                          ![r].user = IF user.exists THEN user
                                      ELSE [NoUser EXCEPT !.verified = v]]
        PROVE  Inv'
    <2> DEFINE seen == IF user.exists THEN user ELSE [NoUser EXCEPT !.verified = v]
    <2>1. /\ UserFields \subseteq DOMAIN seen /\ seen.password \in Nat
          /\ seen.exists = TRUE => user.exists = TRUE
      BY DEF NoUser, UserFields, Inv, Shapes
    <2>2. req' = [req EXCEPT ![r].phase = "open", ![r].user = seen]
      BY <1>4
    <2> HIDE DEF seen
    <2>3. /\ RequestShapes'
          /\ OnlyRequest(r)
          /\ req'[r].phase = "open" /\ req'[r].op = "google" /\ req'[r].user = seen
      BY <1>1, <2>1, <2>2 DEF Inv, Shapes, RequestShapes, IsRequest, RequestFields, OnlyRequest
    <2>4. Shapes'
      BY <1>4, <2>3 DEF Inv, Shapes, RequestShapes
    <2>5. Safe'
      BY <1>4, <2>1, <2>3, OpenIsSafe DEF Inv
    <2>6. Named(r)'
      BY <1>1, <2>3 DEF Named, Inv
    <2>7. \A q \in Requests : Named(q)'
      BY <1>4, <2>3, <2>6, NamedStill DEF Inv
    <2>8. TabNamed'
      BY <1>4 DEF Inv, TabNamed
    <2> QED
      BY <2>4, <2>5, <2>7, <2>8 DEF Inv
  <1> QED
    BY <1>2, <1>3, <1>4 DEF GoogleCheck

\* The callback creates the account, links it, or signs in to it.
LEMMA GoogleCommitInv ==
    ASSUME Inv, NEW r \in Requests, GoogleCommit(r), UNCHANGED tab
    PROVE  Inv'
  <1> DEFINE seen == req[r].user
  <1>1. req[r].op = "google" /\ req[r].phase = "open"
    BY DEF GoogleCommit, At
  <1>2. CASE Reject(r, "error")
    BY <1>1, <1>2, RejectInv
  <1>3. ASSUME ~(~seen.exists /\ user.exists),
               user' = IF ~seen.exists
                       THEN [seen EXCEPT !.exists = TRUE, !.google = TRUE]
                       ELSE IF seen.google THEN user
                       ELSE [user EXCEPT !.google = TRUE, !.verified = TRUE],
               IssueAndCommit(r, seen.password)
        PROVE  Inv'
    <2>1. UserFields \subseteq DOMAIN seen /\ seen.password \in Nat
      BY DEF Inv, Shapes, IsRequest
    <2>2. seen.exists => user.exists = TRUE
      BY <1>1 DEF Inv, Safe, AccountExists
    <2>3. CASE ~seen.exists
      <3>1. user' = [seen EXCEPT !.exists = TRUE, !.google = TRUE] /\ ~user.exists
        BY <1>3, <2>3
      <3>2. AccountShape' /\ user'.exists = TRUE
        BY <2>1, <3>1 DEF AccountShape, UserFields
      <3> QED
        BY <1>1, <1>3, <3>1, <3>2, SignInInv
    <2>4. CASE seen.exists
      <3>1. user' = user \/ user' = [user EXCEPT !.google = TRUE, !.verified = TRUE]
        BY <1>3, <2>4
      <3>2. UserFields \subseteq DOMAIN user /\ user.password \in Nat /\ user.exists = TRUE
        BY <2>2, <2>4 DEF Inv, Shapes
      <3>3. AccountShape' /\ user'.exists = TRUE /\ user'.password = user.password
        BY <3>1, <3>2 DEF AccountShape, UserFields
      <3> QED
        BY <1>1, <1>3, <3>3, SignInInv
    <2> QED
      BY <2>3, <2>4
  <1> QED
    BY <1>2, <1>3 DEF GoogleCommit

\* refresh
LEMMA RefreshCheckInv ==
    ASSUME Inv, NEW r \in Requests, RefreshCheck(r), UNCHANGED tab
    PROVE  Inv'
  <1>1. /\ req[r].op = "refresh" /\ req[r].phase = "sent"
        /\ TokenFree(req[r].token) /\ req[r].token \in DOMAIN tokens
    BY DEF RefreshCheck, At, Inv, Named
  <1>2. CASE Live(req[r].token) /\ Open(r, {})
    BY <1>1, <1>2, OpenInv
  <1>3. CASE Reject(r, "unauthorized")
    BY <1>1, <1>3, RejectInv
  <1> QED
    BY <1>2, <1>3 DEF RefreshCheck

\* The rotation: the old token dies in the step that issues the new one.
LEMMA RefreshCommitInv ==
    ASSUME Inv, NEW r \in Requests, RefreshCommit(r), UNCHANGED tab
    PROVE  Inv'
  <1> DEFINE t == req[r].token
             n == Len(tokens) + 1
             child == NewToken(r, tokens[t].session, tokens[t].era, tokens[t].clean)
             edited == [tokens EXCEPT ![t].state = "rotated", ![t].next = n]
  <1>1. /\ req[r].op = "refresh" /\ req[r].phase = "open"
        /\ tokens' = Append(edited, child)
        /\ AnswerWith(r, "ok", n)
        /\ UNCHANGED user
    BY DEF RefreshCommit, At
  <1>2. Rotating(r) /\ t \in DOMAIN tokens
    BY <1>1 DEF Rotating, Holds, Inv, Named
  <1>3. /\ IsToken(child) /\ child.session = tokens[t].session /\ child.era = tokens[t].era
        /\ child.clean = TRUE => child.era = user.password /\ ~ResetUnderWay(r)
    BY DEF NewToken, IsToken, TokenFields
  <1>4. \A x \in DOMAIN tokens : IsToken(tokens[x])
    BY DEF Inv, Shapes
  <1>5. /\ DOMAIN edited = DOMAIN tokens
        /\ \A x \in DOMAIN tokens : x # t => edited[x] = tokens[x]
        /\ IsToken(edited[t]) /\ edited[t].session = tokens[t].session
        /\ edited[t].era = tokens[t].era /\ edited[t].clean = tokens[t].clean
        /\ edited[t].state = "rotated"
    BY <1>2, <1>4 DEF IsToken, TokenFields
  <1>6. PICK S : tokens \in Seq(S)
    BY DEF Inv, Shapes
  <1>7. edited \in Seq(S \cup {edited[t]})
    <2> DEFINE T == S \cup {edited[t]}
    <2>1. DOMAIN tokens = 1..Len(tokens) /\ tokens \in Seq(T) /\ edited[t] \in T
      BY <1>6
    <2>2. edited = [tokens EXCEPT ![t] = edited[t]]
      BY <1>2
    <2> HIDE DEF edited, T
    <2> QED
      BY <1>2, <2>1, <2>2, ExceptSeq DEF T
  <1> HIDE DEF edited, child
  <1>8. /\ \E T : tokens' \in Seq(T)
        /\ DOMAIN tokens' = 1..n
        /\ \A x \in DOMAIN tokens : tokens'[x] = edited[x]
        /\ tokens'[n] = child
    BY <1>1, <1>5, <1>7, Appending DEF Inv
  <1>9. Issued(r)
    BY <1>1, <1>2, <1>3, <1>4, <1>5, <1>8 DEF Issued
  <1>10. user'.exists = TRUE /\ AccountShape'
    <2>1. tokens # <<>>
      BY <1>2, <1>6
    <2> QED
      BY <1>1, <2>1 DEF Inv, Safe, AccountExists, AccountShape, Shapes
  <1> QED
    BY <1>1, <1>9, <1>10, IssueInv

\* A change of one token that neither revives it nor moves it to another session.
LEMMA EditKeeps ==
    ASSUME Shapes, NEW t \in DOMAIN tokens, NEW e, tokens' = [tokens EXCEPT ![t] = e],
           IsToken(e), e.session = tokens[t].session, e.era = tokens[t].era,
           e.clean = tokens[t].clean, e.state = "live" => tokens[t].state = "live"
    PROVE  TokensKept
  <1>1. PICK S : tokens \in Seq(S)
    BY DEF Shapes
  <1> DEFINE T == S \cup {e}
  <1>2. DOMAIN tokens = 1..Len(tokens) /\ tokens \in Seq(T) /\ e \in T
    BY <1>1
  <1> HIDE DEF T
  <1>3. tokens' \in Seq(T)
    BY <1>2, ExceptSeq
  <1>4. DOMAIN tokens' = DOMAIN tokens
    OBVIOUS
  <1>5. \A x \in DOMAIN tokens : tokens'[x] = IF x = t THEN e ELSE tokens[x]
    OBVIOUS
  <1> QED
    BY <1>3, <1>4, <1>5 DEF TokensKept, Shapes

\* logout
LEMMA LogoutInv ==
    ASSUME Inv, NEW r \in Requests, LogoutToken(r), UNCHANGED tab
    PROVE  Inv'
  <1> DEFINE t == req[r].token
             e == [tokens[t] EXCEPT !.state = IF tokens[t].state = "live" THEN "loggedOut"
                                              ELSE tokens[t].state]
  <1>1. /\ req[r].op = "logout" /\ req[r].phase = "sent"
        /\ tokens' = [tokens EXCEPT ![t] = e]
        /\ AnswerWith(r, "ok", 0) /\ UNCHANGED user
    BY DEF LogoutToken, At
  <1>2. TokensKept
    <2>1. CASE t \in DOMAIN tokens
      <3>1. /\ IsToken(e) /\ e.session = tokens[t].session /\ e.era = tokens[t].era
            /\ e.clean = tokens[t].clean
            /\ e.state = "live" => tokens[t].state = "live"
        BY <2>1 DEF Inv, Shapes, IsToken, TokenFields
      <3> HIDE DEF e
      <3> QED
        BY <1>1, <2>1, <3>1, EditKeeps DEF Inv
    <2>2. CASE t \notin DOMAIN tokens
      <3>1. tokens' = tokens
        <4>1. PICK S : tokens \in Seq(S)
          BY DEF Inv, Shapes
        <4>2. tokens = [i \in DOMAIN tokens |-> tokens[i]]
          BY <4>1
        <4> HIDE DEF e, t
        <4> QED
          BY <1>1, <2>2, <4>2
      <3> QED
        BY <3>1 DEF TokensKept, Inv, Shapes
    <2> QED
      BY <2>1, <2>2
  <1>3. AccountKept /\ AccountShape'
    BY <1>1 DEF AccountKept, AccountShape, Inv, Shapes
  <1> QED
    BY <1>1, <1>2, <1>3, EndInv DEF Inv, Named

\* confirm_password_reset up to its reads
LEMMA ResetCheckInv ==
    ASSUME Inv, NEW r \in Requests, ResetCheck(r), UNCHANGED tab
    PROVE  Inv'
  <1>1. req[r].op = "reset" /\ req[r].phase = "sent"
    BY DEF ResetCheck, At
  <1>2. CASE Open(r, LiveTokens)
    BY <1>1, <1>2, OpenInv DEF Inv, Named
  <1>3. CASE Reject(r, "unauthorized")
    BY <1>1, <1>3, RejectInv
  <1> QED
    BY <1>2, <1>3 DEF ResetCheck

\* The commit of a reset is where the password changes: no live token is clean any more.
LEMMA ResetCommitInv ==
    ASSUME Inv, NEW r \in Requests, ResetCommit(r), UNCHANGED tab
    PROVE  Inv'
  <1>1. /\ req[r].op = "reset" /\ req[r].phase = "open"
        /\ user' = [user EXCEPT !.password = @ + 1]
        /\ tokens' = [t \in DOMAIN tokens |->
                         IF t \in req[r].live /\ Live(t)
                         THEN [tokens[t] EXCEPT !.state = "reset"] ELSE tokens[t]]
        /\ AnswerWith(r, "ok", 0)
    BY DEF ResetCommit, At, Revoked
  <1>2. AccountShape' /\ user'.exists = user.exists
    BY <1>1 DEF AccountShape, UserFields, Inv, Shapes
  <1>3. TokensKept
    <2>1. \E S : tokens' \in Seq(S)
      <3>1. DOMAIN tokens = 1..Len(tokens) /\ Len(tokens) \in Nat
        BY DEF Inv, Shapes
      <3> DEFINE e(t) == IF t \in req[r].live /\ Live(t)
                         THEN [tokens[t] EXCEPT !.state = "reset"] ELSE tokens[t]
                 S == {e(t) : t \in DOMAIN tokens}
      <3>2. tokens' = [t \in 1..Len(tokens) |-> e(t)] /\ \A t \in 1..Len(tokens) : e(t) \in S
        BY <1>1, <3>1
      <3> HIDE DEF e, S
      <3>3. tokens' \in Seq(S)
        BY <3>1, <3>2
      <3> QED
        BY <3>3
    <2>2. \A t \in DOMAIN tokens : IsToken(tokens[t])
      BY DEF Inv, Shapes
    <2>3. ASSUME NEW t \in DOMAIN tokens
          PROVE  /\ IsToken(tokens'[t])
                 /\ tokens'[t].session = tokens[t].session
                 /\ tokens'[t].era = tokens[t].era
                 /\ tokens'[t].clean = tokens[t].clean
                 /\ tokens'[t].state = "live" => tokens[t].state = "live"
      <3>1. \/ tokens'[t] = tokens[t]
            \/ tokens'[t] = [tokens[t] EXCEPT !.state = "reset"]
        BY <1>1
      <3>2. CASE tokens'[t] = [tokens[t] EXCEPT !.state = "reset"]
        BY <2>2, <3>2 DEF IsToken, TokenFields
      <3> QED
        BY <2>2, <3>1, <3>2
    <2>4. DOMAIN tokens' = DOMAIN tokens
      BY <1>1
    <2> QED
      BY <2>1, <2>3, <2>4 DEF TokensKept
  <1>4. \A t \in DOMAIN tokens' : tokens'[t].state = "live" => tokens'[t].clean # TRUE
    <2> SUFFICES ASSUME NEW t \in DOMAIN tokens, tokens'[t].state = "live",
                        tokens[t].clean = TRUE
                 PROVE  FALSE
      BY <1>3 DEF TokensKept
    <2>1. Live(t)
      BY <1>3 DEF TokensKept, Live
    <2>2. t \in req[r].live
      BY <1>1, <2>1 DEF Inv, Safe, CleanIsRead, Holds
    <2>3. tokens'[t] = [tokens[t] EXCEPT !.state = "reset"]
      BY <1>1, <2>1, <2>2
    <2>4. "state" \in DOMAIN tokens[t]
      BY DEF Inv, Shapes, IsToken, TokenFields
    <2> QED
      BY <2>3, <2>4
  <1>5. /\ RequestShapes'
        /\ OnlyRequest(r)
        /\ req'[r].phase \in {"idle", "answered"}
        /\ req'[r].phase = "idle" => req'[r].by = "nobody"
        /\ req'[r].phase = "answered" =>
               req'[r].op = req[r].op /\ req'[r].answer = "ok" /\ req'[r].issued = 0
    BY <1>1, Answering DEF Inv, Shapes, RequestShapes
  <1>6. Shapes'
    BY <1>2, <1>3, <1>5 DEF Inv, Shapes, RequestShapes, TokensKept, AccountShape
  <1>7. Safe'
    <2>1. \A q \in Requests : req'[q].phase = "open" => q # r /\ req'[q] = req[q]
      BY <1>5 DEF OnlyRequest
    <2>2. SessionsKnown'
      BY <1>3 DEF Inv, Safe, SessionsKnown, TokensKept
    <2>3. OneLivePerSession'
      BY <1>3 DEF Inv, Safe, OneLivePerSession, TokensKept, Live
    <2>4. RotatingAlone'
      BY <1>3, <2>1 DEF Inv, Safe, RotatingAlone, TokensKept, Live, Rotating, Holds, SameSession
    <2>5. RotatingApart'
      BY <1>3, <2>1 DEF Inv, Safe, RotatingAlone, RotatingApart, TokensKept, Rotating, Holds,
                        SameSession
    <2>6. AccountExists'
      <3>1. tokens' # <<>> => tokens # <<>>
        BY <1>3 DEF TokensKept, Inv, Shapes
      <3> QED
        BY <1>2, <2>1, <3>1 DEF Inv, Safe, AccountExists
    <2>7. CleanIsCurrent' /\ CleanIsRead'
      BY <1>4 DEF CleanIsCurrent, CleanIsRead, Live
    <2> QED
      BY <2>2, <2>3, <2>4, <2>5, <2>6, <2>7 DEF Safe
  <1>8. \A q \in Requests : Named(q)'
    <2>1. Named(r)'
      BY <1>1, <1>5 DEF Inv, Named
    <2> QED
      BY <1>3, <1>5, <2>1, NamedStill DEF Inv, TokensKept
  <1>9. TabNamed'
    BY <1>3 DEF Inv, TabNamed, TokensKept
  <1> QED
    BY <1>6, <1>7, <1>8, <1>9 DEF Inv

\* verify_email
LEMMA VerifyInv ==
    ASSUME Inv, NEW r \in Requests, VerifyEmail(r), UNCHANGED tab
    PROVE  Inv'
  <1>1. req[r].op = "verify" /\ req[r].phase = "sent"
    BY DEF VerifyEmail, At
  <1>2. CASE Reject(r, "unauthorized")
    BY <1>1, <1>2, RejectInv
  <1>3. CASE AnswerWith(r, "ok", 0) /\ user' = [user EXCEPT !.verified = TRUE] /\ UNCHANGED tokens
    <2>1. TokensKept
      BY <1>3 DEF TokensKept, Inv, Shapes
    <2>2. AccountKept /\ AccountShape'
      BY <1>3 DEF AccountKept, AccountShape, UserFields, Inv, Shapes
    <2> QED
      BY <1>1, <1>3, <2>1, <2>2, EndInv DEF Inv, Named
  <1> QED
    BY <1>2, <1>3 DEF VerifyEmail

\* Every step of the server.
LEMMA ServerInv ==
    ASSUME Inv, NEW r \in Requests, Server(r) \/ ServerFailure(r)
    PROVE  Inv'
  <1>1. UNCHANGED tab
    BY DEF Server, ServerFailure, clientVars
  <1>2. CASE ServerFailure(r)
    <2>1. Reject(r, "error") /\ req[r].phase # "idle"
      BY <1>2 DEF ServerFailure, ServerFails
    <2> QED
      BY <1>1, <2>1, RejectInv
  <1>3. CASE Server(r)
    <2>1. CASE RegisterCheck(r) \/ RegisterCommit(r)
      BY <1>1, <2>1, RegisterInv
    <2>2. CASE LoginCheck(r) \/ LoginCommit(r)
      BY <1>1, <2>2, LoginInv
    <2>3. CASE \E l \in Links, v \in BOOLEAN : GoogleCheck(r, l, v)
      BY <1>1, <2>3, GoogleCheckInv
    <2>4. CASE GoogleCommit(r)
      BY <1>1, <2>4, GoogleCommitInv
    <2>5. CASE RefreshCheck(r)
      BY <1>1, <2>5, RefreshCheckInv
    <2>6. CASE RefreshCommit(r)
      BY <1>1, <2>6, RefreshCommitInv
    <2>7. CASE LogoutToken(r)
      BY <1>1, <2>7, LogoutInv
    <2>8. CASE ResetCheck(r)
      BY <1>1, <2>8, ResetCheckInv
    <2>9. CASE ResetCommit(r)
      BY <1>1, <2>9, ResetCommitInv
    <2>10. CASE VerifyEmail(r)
      BY <1>1, <2>10, VerifyInv
    <2> QED
      BY <1>3, <2>1, <2>2, <2>3, <2>4, <2>5, <2>6, <2>7, <2>8, <2>9, <2>10
         DEF Server, ServerStep
  <1> QED
    BY <1>2, <1>3

-----------------------------------------------------------------------------
(* The steps of the tab and of the others. *)

\* A tab that may follow: with its fields, and holding tokens that exist.
TabLike(t) ==
    /\ TabFields \subseteq DOMAIN t
    /\ t.stored # 0 => t.stored \in DOMAIN tokens
    /\ t.access # "none" => t.stored # 0

\* What a client may put into a slot.
Posted(r, q) ==
    /\ IsRequest(q)
    /\ q.phase = "sent"
    /\ q.op = "refresh" => q.token \in DOMAIN tokens
    /\ r = Refreshing => q.op = "refresh"

\* Clients send requests and take answers away.
PostOnly ==
    /\ DOMAIN req' = Requests
    /\ \A r \in Requests : \/ req'[r] = req[r]
                           \/ req'[r] = Idle
                           \/ Posted(r, req'[r])

\* A step of the clients brings no token to life and opens no transaction.
LEMMA PostInv ==
    ASSUME Inv, TokensKept, UNCHANGED user, PostOnly, TabLike(tab')
    PROVE  Inv'
  <1>1. RequestShapes'
    BY IdleIsRequest DEF RequestShapes, PostOnly, Posted, Inv, Shapes
  <1>2. Shapes'
    BY <1>1 DEF Inv, Shapes, RequestShapes, TokensKept, TabLike
  <1>3. \A r \in Requests : req'[r].phase = "open" => req'[r] = req[r]
    BY IdleIsRequest DEF PostOnly, Posted
  <1>4. OpenKept([q \in Requests |-> q]) /\ AccountKept
    BY <1>3 DEF OpenKept, AccountKept
  <1>5. Safe'
    BY <1>4, KeptIsSafe DEF Inv
  <1>6. ASSUME NEW r \in Requests
        PROVE  Named(r)'
    <2>1. CASE req'[r] = req[r]
      BY <2>1 DEF Inv, Named, TokensKept
    <2>2. CASE req'[r] = Idle
      BY <2>2, IdleIsRequest DEF Named
    <2>3. CASE Posted(r, req'[r])
      BY <2>3 DEF Named, Posted, TokensKept
    <2> QED
      BY <2>1, <2>2, <2>3 DEF PostOnly
  <1>7. TabNamed'
    BY DEF TabLike, TabNamed, TokensKept
  <1> QED
    BY <1>2, <1>5, <1>6, <1>7 DEF Inv

\* Tokens that nobody touches, or that somebody receives, stay what they are.
LEMMA Untouched == Shapes /\ UNCHANGED tokens => TokensKept
  BY DEF TokensKept, Shapes

\* A token the tab receives keeps its session, its password and its state.
LEMMA Receiving ==
    ASSUME Shapes, NEW t \in DOMAIN tokens, tokens' = Received(t)
    PROVE  TokensKept
  <1> DEFINE e == [tokens[t] EXCEPT !.holder = "tab"]
  <1>1. tokens' = [tokens EXCEPT ![t] = e]
    BY DEF Received
  <1>2. /\ IsToken(e) /\ e.session = tokens[t].session /\ e.era = tokens[t].era
        /\ e.clean = tokens[t].clean /\ e.state = tokens[t].state
    BY DEF Shapes, IsToken, TokenFields
  <1> HIDE DEF e
  <1> QED
    BY <1>1, <1>2, EditKeeps

\* The tab as it is, cleared, and with the tokens it is sent.
LEMMA TabsAreLike ==
    ASSUME Inv
    PROVE  /\ TabLike(tab)
           /\ TabLike(SignedOut)
           /\ TabFields \subseteq DOMAIN SignedOut /\ SignedOut.stored = 0
           /\ SignedOut.access = "none"
           /\ \A n \in DOMAIN tokens : TabLike(Holding(n))
  <1>1. TabFields \subseteq DOMAIN tab
    BY DEF Inv, Shapes
  <1>2. 0 \notin DOMAIN tokens
    BY DEF Inv, Shapes
  <1>3. TabLike(tab)
    BY <1>1 DEF Inv, TabNamed, TabLike
  <1>4. /\ TabFields \subseteq DOMAIN Cleared /\ Cleared.stored = 0 /\ Cleared.access = "none"
    BY <1>1 DEF Cleared, TabFields
  <1>5. /\ TabFields \subseteq DOMAIN SignedOut /\ SignedOut.stored = 0
        /\ SignedOut.access = "none"
    BY <1>4 DEF SignedOut, TabFields
  <1>6. ASSUME NEW n \in DOMAIN tokens
        PROVE  TabLike(Holding(n))
    BY <1>1, <1>2 DEF Holding, TabLike, TabFields
  <1> QED
    BY <1>3, <1>5, <1>6 DEF TabLike

\* A request of the tab in a free slot.
LEMMA RequestIsPosted ==
    ASSUME NEW op, NEW t, NEW r, r = Refreshing => op = "refresh",
           op = "refresh" => t \in DOMAIN tokens
    PROVE  Posted(r, Request(op, t))
  BY IdleIsRequest DEF Posted, Request, IsRequest, RequestFields, Idle, NoUser, UserFields

\* One slot is filled or freed.
LEMMA OnePosted ==
    ASSUME Inv, NEW r \in Requests, NEW q, req' = [req EXCEPT ![r] = q],
           q = Idle \/ Posted(r, q)
    PROVE  PostOnly
  BY DEF PostOnly, Inv, Shapes

\* Steps that leave the server's state alone.
LEMMA ServerKeptInv ==
    ASSUME Inv, UNCHANGED <<user, tokens, req>>, TabLike(tab')
    PROVE  Inv'
  <1>1. PostOnly
    BY DEF PostOnly, Inv, Shapes
  <1> QED
    BY <1>1, PostInv, Untouched DEF Inv

\* A tab asks for the refresh it shares.
LEMMA JoinInv ==
    ASSUME Inv, NEW t, JoinRefresh(t), TabFields \subseteq DOMAIN t,
           t.stored = tab.stored, t.access = tab.access
    PROVE  Inv'
  <1>1. TabLike(t) /\ TabLike([t EXCEPT !.shared = TRUE])
    <2>1. TabLike(tab)
      BY TabsAreLike
    <2> QED
      BY <2>1 DEF TabLike, TabFields
  <1>2. CASE tab' = t /\ UNCHANGED serverVars
    BY <1>1, <1>2, ServerKeptInv DEF serverVars
  <1>3. CASE /\ tab.stored # 0
             /\ Send(Refreshing, "refresh", tab.stored)
             /\ tab' = [t EXCEPT !.shared = TRUE]
             /\ UNCHANGED <<user, tokens, links>>
    <2>1. Posted(Refreshing, Request("refresh", tab.stored))
      BY <1>3, RequestIsPosted DEF Inv, TabNamed
    <2>2. PostOnly
      BY <1>3, <2>1, OnePosted, ClientAssumption DEF Send
    <2> QED
      BY <1>1, <1>3, <2>2, PostInv, Untouched DEF Inv
  <1> QED
    BY <1>2, <1>3 DEF JoinRefresh

\* The page load.
LEMMA InitializeInv ==
    ASSUME Inv, Initialize
    PROVE  Inv'
  <1>1. TabLike(tab')
    <2>1. TabLike(tab)
      BY TabsAreLike
    <2> QED
      BY <2>1 DEF Initialize, TabLike, TabFields
  <1>2. CASE tab.stored = 0
    BY <1>1, <1>2, ServerKeptInv DEF Initialize, serverVars
  <1>3. CASE tab.stored # 0
    <2>1. Posted(Refreshing, Request("refresh", tab.stored))
      BY <1>3, RequestIsPosted DEF Inv, TabNamed
    <2>2. PostOnly
      BY <1>3, <2>1, OnePosted, ClientAssumption DEF Initialize, Send
    <2> QED
      BY <1>1, <1>3, <2>2, PostInv, Untouched DEF Initialize, Inv
  <1> QED
    BY <1>2, <1>3

\* The page load's refresh is answered.
LEMMA RestoreInv ==
    ASSUME Inv, Restored \/ RestoreFails
    PROVE  Inv'
  <1>1. Refreshing \in Requests
    BY ClientAssumption
  <1>2. req' = [req EXCEPT ![Refreshing] = Idle] /\ UNCHANGED user
    BY DEF Restored, RestoreFails
  <1>3. PostOnly
    BY <1>1, <1>2, OnePosted
  <1>4. CASE Restored
    <2>1. req[Refreshing].issued \in DOMAIN tokens
      BY <1>1, <1>4 DEF Restored, Answered, Inv, Named
    <2>2. TokensKept /\ TabLike(tab')
      BY <1>4, <2>1, Receiving, TabsAreLike DEF Restored, Inv
    <2> QED
      BY <1>2, <1>3, <2>2, PostInv
  <1>5. CASE RestoreFails
    <2>1. TokensKept /\ TabLike(tab')
      <3>1. TokensKept
        BY <1>5, Untouched DEF RestoreFails, Inv
      <3>2. TabLike([SignedOut EXCEPT !.checked = TRUE])
        BY TabsAreLike DEF TabLike, TabFields
      <3> QED
        BY <1>5, <3>1, <3>2 DEF RestoreFails
    <2> QED
      BY <1>2, <1>3, <2>1, PostInv
  <1> QED
    BY <1>4, <1>5

\* The shared refresh succeeds; a logout that waited is sent again.
LEMMA RefreshedInv ==
    ASSUME Inv, Refreshed
    PROVE  Inv'
  <1>1. Refreshing \in Requests /\ Form \in Requests /\ Form # Refreshing
    BY ClientAssumption
  <1>2. req[Refreshing].issued \in DOMAIN tokens
    BY <1>1 DEF Refreshed, Answered, Inv, Named
  <1>3. TokensKept
    BY <1>2, Receiving DEF Refreshed, Inv
  <1>4. TabLike(tab')
    <2>1. TabLike([Holding(req[Refreshing].issued) EXCEPT !.shared = FALSE])
      BY <1>2, TabsAreLike DEF TabLike, TabFields
    <2> QED
      BY <2>1 DEF Refreshed, Renewed
  <1>5. Posted(Form, Request("logout", tab.leavingWith))
    BY <1>1, RequestIsPosted
  <1>6. PostOnly
    <2> DEFINE q == Request("logout", tab.leavingWith)
    <2>1. \/ req' = [req EXCEPT ![Refreshing] = Idle, ![Form] = q]
          \/ req' = [req EXCEPT ![Refreshing] = Idle]
      BY DEF Refreshed
    <2> HIDE DEF q
    <2> QED
      BY <1>1, <1>5, <2>1 DEF PostOnly, Inv, Shapes, q
  <1> QED
    BY <1>3, <1>4, <1>6, PostInv DEF Refreshed

\* The shared refresh fails.
LEMMA RefreshFailsInv ==
    ASSUME Inv, RefreshFails
    PROVE  Inv'
  <1>1. PostOnly
    BY OnePosted, ClientAssumption DEF RefreshFails
  <1>2. TabLike(tab')
    <2> DEFINE t == [SignedOut EXCEPT !.shared = FALSE, !.leavingWith = 0]
    <2>1. TabLike(t) /\ TabLike([t EXCEPT !.checked = TRUE])
      <3>1. TabFields \subseteq DOMAIN SignedOut /\ SignedOut.stored = 0
            /\ SignedOut.access = "none"
        BY TabsAreLike
      <3>2. TabFields \subseteq DOMAIN t /\ t.stored = 0 /\ t.access = "none"
        BY <3>1 DEF TabFields
      <3> HIDE DEF t
      <3> QED
        BY <3>2 DEF TabLike, TabFields
    <2> QED
      BY <2>1 DEF RefreshFails
  <1> QED
    BY <1>1, <1>2, PostInv, Untouched DEF RefreshFails, Inv

\* The calls of the pages.
LEMMA CallInv ==
    ASSUME Inv, NEW c, CallStep(c)
    PROVE  Inv'
  <1>1. TabLike(tab) /\ TabLike(AfterCall(c, TRUE)) /\ TabLike(AfterCall(c, FALSE))
    BY TabsAreLike DEF AfterCall, TabLike, TabFields
  <1>2. CASE CallSucceeds(c)
    BY <1>1, <1>2, ServerKeptInv DEF CallSucceeds, serverVars
  <1>3. CASE CallFails(c)
    BY <1>1, <1>3, ServerKeptInv DEF CallFails, serverVars
  <1>4. CASE CallRejected(c)
    BY <1>4, JoinInv DEF CallRejected, Inv, Shapes
  <1>5. CASE CallGivesUp(c)
    BY <1>1, <1>5, ServerKeptInv DEF CallGivesUp, serverVars
  <1> QED
    BY <1>2, <1>3, <1>4, <1>5 DEF CallStep

\* A login or a registration is sent.
LEMMA SubmitInv ==
    ASSUME Inv, NEW op \in {"login", "register"}, Submit(op)
    PROVE  Inv'
  <1>1. Posted(Form, Request(op, 0))
    BY RequestIsPosted, ClientAssumption
  <1>2. PostOnly
    BY <1>1, OnePosted, ClientAssumption DEF Submit, Send
  <1>3. TabLike(tab')
    BY TabsAreLike DEF Submit, clientVars
  <1> QED
    BY <1>2, <1>3, PostInv, Untouched DEF Submit, Inv

\* The answer to a login or a registration.
LEMMA SubmitAnsweredInv ==
    ASSUME Inv, SubmitAnswered
    PROVE  Inv'
  <1> DEFINE n == req[Form].issued
  <1>1. PostOnly
    BY OnePosted, ClientAssumption DEF SubmitAnswered
  <1>2. CASE req[Form].answer = "ok"
    <2>1. n \in DOMAIN tokens
      BY <1>2, ClientAssumption DEF SubmitAnswered, Answered, Inv, Named
    <2>2. TabLike([Holding(n) EXCEPT !.signedIn = TRUE])
      <3>1. TabLike(Holding(n))
        BY <2>1, TabsAreLike
      <3> HIDE DEF n
      <3> QED
        BY <3>1 DEF TabLike, TabFields
    <2>3. TokensKept
      BY <1>2, <2>1, Receiving DEF SubmitAnswered, Inv
    <2> QED
      BY <1>1, <1>2, <2>2, <2>3, PostInv DEF SubmitAnswered
  <1>3. CASE req[Form].answer # "ok"
    BY <1>1, <1>3, PostInv, Untouched, TabsAreLike DEF SubmitAnswered, Inv
  <1> QED
    BY <1>2, <1>3

\* The logout of the tab.
LEMMA LogoutRequestInv ==
    ASSUME Inv, Logout
    PROVE  Inv'
  <1> DEFINE t == [tab EXCEPT !.leavingWith = tab.stored]
  <1>1. /\ TabFields \subseteq DOMAIN t /\ t.stored = tab.stored /\ t.access = tab.access
        /\ TabLike(t)
    <2>1. TabLike(tab)
      BY TabsAreLike
    <2> QED
      BY <2>1 DEF TabLike, TabFields
  <1>2. CASE Accepted
    <2>1. Posted(Form, Request("logout", tab.stored))
      BY RequestIsPosted, ClientAssumption
    <2>2. PostOnly
      BY <1>2, <2>1, OnePosted, ClientAssumption DEF Logout, Send
    <2> QED
      BY <1>1, <1>2, <2>2, PostInv, Untouched DEF Logout, Inv
  <1>3. CASE ~Accepted
    <2>1. JoinRefresh(t)
      BY <1>3 DEF Logout
    <2> HIDE DEF t
    <2> QED
      BY <1>1, <2>1, JoinInv
  <1> QED
    BY <1>2, <1>3

\* A logout that waits for the shared refresh.
LEMMA LogoutRejectedInv ==
    ASSUME Inv, LogoutRejected
    PROVE  Inv'
  <1>1. Refreshing \in Requests /\ Form \in Requests /\ Form # Refreshing
    BY ClientAssumption
  <1>2. TabLike(tab) /\ TabLike([tab EXCEPT !.shared = TRUE])
    BY TabsAreLike DEF TabLike, TabFields
  <1>3. Posted(Refreshing, Request("refresh", tab.stored))
    BY RequestIsPosted DEF LogoutRejected, Inv, TabNamed
  <1>4. PostOnly
    <2> DEFINE q == Request("refresh", tab.stored)
    <2>1. \/ req' = [req EXCEPT ![Form] = Idle, ![Refreshing] = q]
          \/ req' = [req EXCEPT ![Form] = Idle]
      BY DEF LogoutRejected
    <2> HIDE DEF q
    <2> QED
      BY <1>1, <1>3, <2>1 DEF PostOnly, Inv, Shapes, q
  <1> QED
    BY <1>2, <1>4, PostInv, Untouched DEF LogoutRejected, Inv

\* The end of a logout.
LEMMA LogoutAnsweredInv ==
    ASSUME Inv, LogoutAnswered
    PROVE  Inv'
  <1>1. PostOnly
    BY OnePosted, ClientAssumption DEF LogoutAnswered
  <1>2. TabLike([SignedOut EXCEPT !.leavingWith = 0])
    BY TabsAreLike DEF TabLike, TabFields
  <1> QED
    BY <1>1, <1>2, PostInv, Untouched DEF LogoutAnswered, Inv

\* The access token expires.
LEMMA AccessExpiresInv ==
    ASSUME Inv, NEW S, AccessExpires(S)
    PROVE  Inv'
  <1>1. TabLike(tab)
    BY TabsAreLike
  <1>2. TabLike([tab EXCEPT !.access = "expired"])
    BY <1>1 DEF TabLike, TabFields, AccessExpires
  <1> QED
    BY <1>2, ServerKeptInv DEF AccessExpires, serverVars

\* A link is sent.
LEMMA SendToInv ==
    ASSUME Inv, NEW l, SendTo(l)
    PROVE  Inv'
  BY ServerKeptInv, TabsAreLike DEF SendTo, SendLink, clientVars

\* A link or a token expires.
LEMMA ExpiryInv ==
    ASSUME Inv, Expiry
    PROVE  Inv'
  <1>1. CASE \E l \in Links : LinkExpires(l)
    BY <1>1, ServerKeptInv, TabsAreLike DEF Expiry, LinkExpires
  <1>2. ASSUME NEW t \in DOMAIN tokens, TokenExpires(t)
        PROVE  Inv'
    <2> DEFINE e == [tokens[t] EXCEPT !.state = "expired"]
    <2>1. tokens' = [tokens EXCEPT ![t] = e] /\ UNCHANGED <<user, req>> /\ UNCHANGED tab
      BY <1>2 DEF TokenExpires, Expiry
    <2>2. /\ IsToken(e) /\ e.session = tokens[t].session /\ e.era = tokens[t].era
          /\ e.clean = tokens[t].clean /\ e.state = "expired"
      BY DEF Inv, Shapes, IsToken, TokenFields
    <2> HIDE DEF e
    <2>3. TokensKept
      BY <2>1, <2>2, EditKeeps DEF Inv
    <2>4. PostOnly
      BY <2>1 DEF PostOnly, Inv, Shapes
    <2> QED
      BY <2>1, <2>3, <2>4, PostInv, TabsAreLike
  <1> QED
    BY <1>1, <1>2 DEF Expiry

\* Another device asks for something.
LEMMA OtherRequestInv ==
    ASSUME Inv, NEW r \in Elsewhere, NEW op, NEW t, NEW l, OtherRequest(r, op, t, l)
    PROVE  Inv'
  <1> DEFINE q == [Request(op, t) EXCEPT !.link = l, !.by = "elsewhere"]
  <1>1. r \in Requests /\ r # Refreshing
    BY ClientAssumption
  <1>2. op = "refresh" => t \in DOMAIN tokens
    BY DEF OtherRequest
  <1>3. Posted(r, Request(op, t)) /\ Request(op, t).op = op /\ Request(op, t).token = t
    BY <1>1, <1>2, RequestIsPosted DEF Request, Idle
  <1>4. Posted(r, q)
    <2> DEFINE p == Request(op, t)
    <2>1. q = [p EXCEPT !.link = l, !.by = "elsewhere"]
      OBVIOUS
    <2>2. IsRequest(p) /\ p.phase = "sent" /\ (p.op = "refresh" => p.token \in DOMAIN tokens)
      BY <1>3 DEF Posted
    <2> HIDE DEF p, q
    <2> QED
      BY <1>1, <2>1, <2>2 DEF Posted, IsRequest, RequestFields
  <1>5. req' = [req EXCEPT ![r] = q] /\ UNCHANGED <<user, tokens, tab>>
    BY DEF OtherRequest, clientVars
  <1> HIDE DEF q
  <1>6. PostOnly
    BY <1>1, <1>4, <1>5, OnePosted
  <1> QED
    BY <1>5, <1>6, PostInv, Untouched, TabsAreLike DEF Inv

\* What is left in the slots of the tab when it no longer waits.
LeftOver(r, q) ==
    /\ IsRequest(q)
    /\ q.phase \in {"idle", "answered"}
    /\ q.phase = "idle" => q.by = "nobody"
    /\ q.phase = "answered" => q.answer # "ok"
    /\ r = Refreshing /\ q.phase # "idle" => q.op = "refresh"

\* A request the tab gives up goes on in another slot, with what it has read.
LEMMA DetachInv ==
    ASSUME Inv, NEW R \in SUBSET (Requests \ Elsewhere), NEW rest, Detach(R, rest),
           UNCHANGED <<user, tokens>>, \A r \in R : LeftOver(r, rest[r]), TabLike(tab')
    PROVE  Inv'
  <1>1. PICK q \in Around, S \in SUBSET R :
            /\ \A r \in S : req[r].phase \in {"sent", "open"}
            /\ req' = [r \in Requests |->
                          IF r \in R THEN rest[r]
                          ELSE IF r = q /\ S # {}
                          THEN [req[CHOOSE x \in S : TRUE] EXCEPT !.by = "nobody"]
                          ELSE req[r]]
    BY DEF Detach
  <1>2. q \in Elsewhere
    BY ClientAssumption DEF Around
  <1>3. q \in Requests /\ q \notin R /\ q # Refreshing
    BY <1>2, ClientAssumption
  <1> DEFINE s == CHOOSE x \in S : TRUE
             moved == [req[s] EXCEPT !.by = "nobody"]
             slot == [r \in Requests |-> IF r = q /\ S # {} THEN s ELSE r]
  <1>4. S # {} => s \in R /\ s \in Requests /\ req[s].phase \in {"sent", "open"}
    BY <1>1
  <1>5. S # {} => /\ IsRequest(moved)
                  /\ moved.op = req[s].op /\ moved.phase = req[s].phase
                  /\ moved.token = req[s].token /\ moved.live = req[s].live
                  /\ moved.user = req[s].user
    <2> SUFFICES ASSUME S # {}
                 PROVE  /\ IsRequest(moved)
                        /\ moved.op = req[s].op /\ moved.phase = req[s].phase
                        /\ moved.token = req[s].token /\ moved.live = req[s].live
                        /\ moved.user = req[s].user
      OBVIOUS
    <2>1. IsRequest(req[s])
      BY <1>4 DEF Inv, Shapes
    <2> QED
      BY <2>1 DEF IsRequest, RequestFields
  <1>6. req' = [r \in Requests |-> IF r \in R THEN rest[r]
                                   ELSE IF r = q /\ S # {} THEN moved ELSE req[r]]
    BY <1>1
  <1>7. slot = [r \in Requests |-> IF r = q /\ S # {} THEN s ELSE r]
    OBVIOUS
  <1> HIDE DEF s, moved, slot
  <1>8. ASSUME NEW r \in Requests
        PROVE  /\ r \in R => LeftOver(r, req'[r])
               /\ r \notin R /\ r = q /\ S # {} => req'[r] = moved /\ slot[r] = s
               /\ r \notin R /\ ~(r = q /\ S # {}) => req'[r] = req[r]
               /\ ~(r = q /\ S # {}) => slot[r] = r
    BY <1>6, <1>7
  <1>9. RequestShapes'
    BY <1>5, <1>6, <1>8 DEF RequestShapes, LeftOver, Inv, Shapes
  <1>10. Shapes'
    BY <1>9 DEF Inv, Shapes, RequestShapes, TabLike
  <1>11. OpenKept(slot)
    <2>1. ASSUME NEW r \in Requests, req'[r].phase = "open"
          PROVE  /\ r \notin R
                 /\ slot[r] \in Requests
                 /\ req[slot[r]].phase = "open"
                 /\ req'[r].op = req[slot[r]].op
                 /\ req'[r].token = req[slot[r]].token
                 /\ req'[r].live = req[slot[r]].live
                 /\ req'[r].user = req[slot[r]].user
      <3>1. r \notin R
        BY <1>8, <2>1 DEF LeftOver
      <3>2. CASE r = q /\ S # {}
        BY <1>4, <1>5, <1>8, <2>1, <3>1, <3>2
      <3>3. CASE ~(r = q /\ S # {})
        BY <1>8, <2>1, <3>1, <3>3
      <3> QED
        BY <3>1, <3>2, <3>3
    <2>2. ASSUME NEW x \in Requests, NEW y \in Requests, x \notin R, y \notin R, x # y
          PROVE  slot[x] # slot[y]
      BY <1>4, <1>8, <2>2
    <2> QED
      BY <2>1, <2>2 DEF OpenKept
  <1>12. Safe'
    BY <1>11, KeptIsSafe, Untouched DEF Inv, AccountKept
  <1>13. ASSUME NEW r \in Requests
         PROVE  Named(r)'
    <2>1. CASE r \in R
      BY <1>8, <2>1 DEF LeftOver, Named
    <2>2. CASE r \notin R /\ r = q /\ S # {}
      BY <1>3, <1>4, <1>5, <1>8, <2>2 DEF Named, Inv
    <2>3. CASE r \notin R /\ ~(r = q /\ S # {})
      BY <1>8, <2>3 DEF Named, Inv
    <2> QED
      BY <2>1, <2>2, <2>3
  <1>14. TabNamed'
    BY DEF TabLike, TabNamed
  <1> QED
    BY <1>10, <1>12, <1>13, <1>14 DEF Inv

\* A lost answer.
LEMMA NetworkErrorInv ==
    ASSUME Inv, NEW r \in {Refreshing, Form}, NetworkError(r)
    PROVE  Inv'
  <1> DEFINE q == [Request(req[r].op, 0) EXCEPT !.phase = "answered", !.answer = "error"]
  <1>1. {r} \in SUBSET (Requests \ Elsewhere)
    BY ClientAssumption
  <1>2. IsRequest(q) /\ q.phase = "answered" /\ q.answer = "error" /\ q.op = req[r].op
    BY DEF Request, Idle, NoUser, IsRequest, RequestFields, UserFields
  <1>3. r = Refreshing => req[r].op = "refresh"
    BY <1>1 DEF NetworkError, Inv, Named
  <1>4. Detach({r}, [x \in {r} |-> q]) /\ UNCHANGED <<user, tokens, tab>>
    BY DEF NetworkError
  <1> HIDE DEF q
  <1>5. \A x \in {r} : LeftOver(x, [y \in {r} |-> q][x])
    BY <1>2, <1>3 DEF LeftOver
  <1> QED
    BY <1>1, <1>4, <1>5, DetachInv, TabsAreLike

\* A page load.
LEMMA ReloadInv ==
    ASSUME Inv, Reload
    PROVE  Inv'
  <1> DEFINE R == {Refreshing, Form}
  <1>1. R \in SUBSET (Requests \ Elsewhere)
    BY ClientAssumption
  <1>2. Detach(R, [x \in R |-> Idle]) /\ UNCHANGED <<user, tokens>>
    BY DEF Reload
  <1>3. TabLike(tab')
    <2>1. TabLike(tab)
      BY TabsAreLike
    <2> QED
      BY <2>1 DEF Reload, Fresh, TabLike, TabFields
  <1> HIDE DEF R
  <1>4. \A x \in R : LeftOver(x, [y \in R |-> Idle][x])
    BY IdleIsRequest DEF LeftOver
  <1> QED
    BY <1>1, <1>2, <1>3, <1>4, DetachInv

-----------------------------------------------------------------------------
(* The invariant, and what it says. *)

\* No account, no tokens, no requests.
LEMMA InitInv ==
    ASSUME Init
    PROVE  Inv
  <1>1. tokens = <<>> /\ user = NoUser /\ tab = Fresh /\ req = [r \in Requests |-> Idle]
    BY DEF Init, InitServer
  <1>2. \E S : tokens \in Seq(S)
    <2>1. tokens \in Seq({})
      BY <1>1
    <2> QED
      BY <2>1
  <1>3. DOMAIN tokens = {}
    BY <1>1
  <1>4. \A r \in Requests : req[r] = Idle
    BY <1>1
  <1>5. Shapes
    BY <1>1, <1>2, <1>3, IdleIsRequest DEF Shapes, NoUser, Fresh, UserFields, TabFields
  <1>6. Safe
    BY <1>1, <1>3, <1>4, IdleIsRequest
       DEF Safe, SessionsKnown, OneLivePerSession, RotatingAlone, RotatingApart, Rotating,
           AccountExists, CleanIsCurrent, CleanIsRead, Holds
  <1>7. \A r \in Requests : Named(r)
    BY <1>4, IdleIsRequest DEF Named
  <1>8. TabNamed
    BY <1>1 DEF TabNamed, Fresh
  <1> QED
    BY <1>5, <1>6, <1>7, <1>8 DEF Inv

\* Every step keeps the invariant.
LEMMA StepInv ==
    ASSUME Inv, [Next]_vars
    PROVE  Inv'
  <1>1. CASE \E r \in Requests : Server(r) \/ ServerFailure(r)
    BY <1>1, ServerInv
  <1>2. CASE \E l \in Links : SendTo(l)
    BY <1>2, SendToInv
  <1>3. CASE Expiry
    BY <1>3, ExpiryInv
  <1>4. CASE RefreshStep
    BY <1>4, InitializeInv, RestoreInv, RefreshedInv, RefreshFailsInv DEF RefreshStep
  <1>5. CASE FormStep
    BY <1>5, SubmitAnsweredInv, LogoutRejectedInv, LogoutAnsweredInv DEF FormStep
  <1>6. CASE \E c \in AllCalls : CallStep(c)
    BY <1>6, CallInv
  <1>7. CASE \E c \in Calls : StartCall(c)
    BY <1>7, ServerKeptInv, TabsAreLike DEF StartCall, serverVars
  <1>8. CASE \E op \in {"login", "register"} : Submit(op)
    BY <1>8, SubmitInv
  <1>9. CASE Logout
    BY <1>9, LogoutRequestInv
  <1>10. CASE \E S \in SUBSET AllCalls : AccessExpires(S)
    BY <1>10, AccessExpiresInv
  <1>11. CASE \E r \in {Refreshing, Form} : NetworkError(r)
    BY <1>11, NetworkErrorInv
  <1>12. CASE Reload
    BY <1>12, ReloadInv
  <1>13. CASE \E r \in Elsewhere, op \in Ops, t \in 0..MaxTokens, l \in Links \cup {NoLink} :
                 OtherRequest(r, op, t, l)
    BY <1>13, OtherRequestInv
  <1>14. CASE UNCHANGED vars
    BY <1>14, ServerKeptInv, TabsAreLike DEF vars, serverVars, clientVars
  <1> QED
    BY <1>1, <1>2, <1>3, <1>4, <1>5, <1>6, <1>7, <1>8, <1>9, <1>10, <1>11, <1>12, <1>13,
       <1>14 DEF Next

\* The invariant holds of every reachable state.
LEMMA Invariance == Spec => []Inv
  BY InitInv, StepInv, PTL DEF Spec

\* OneLivePerSession: of the tokens that go back to one sign-in at most one is live,
\* because a refresh keeps the row of its token locked from the read to the commit.
THEOREM SessionsNeverFork == Spec => []OneLivePerSession
  <1>1. Inv => OneLivePerSession
    BY DEF Inv, Safe
  <1> QED
    BY <1>1, Invariance, PTL

\* ResetEndsSessions: no live token, nor one it was exchanged for, outlives a password
\* reset that was not already under way when its session began.
THEOREM ResetsEndSessions == Spec => []ResetEndsSessions
  <1>1. Inv => ResetEndsSessions
    <2> SUFFICES ASSUME Inv, NEW t \in DOMAIN tokens, Live(t), tokens[t].era < user.password,
                        tokens[t].clean = TRUE
                 PROVE  FALSE
      BY DEF ResetEndsSessions
    <2>1. tokens[t].era = user.password /\ user.password \in Nat
      BY DEF Inv, Shapes, Safe, CleanIsCurrent
    <2> QED
      BY <2>1
  <1> QED
    BY <1>1, Invariance, PTL

-----------------------------------------------------------------------------
(* Passwords: one by the registration and one by each reset link.          *)

UsedResets == {l \in Links : KindOf[l] = "reset" /\ links[l] = "used"}

\* The account has the passwords it was given; there are no reset links before it.
Accounted ==
    /\ DOMAIN links = Links
    /\ user.exists \in BOOLEAN
    /\ OnePasswordPerLink
    /\ user.exists = FALSE =>
           /\ user.password = 0
           /\ user.local = FALSE
           /\ \A l \in Links : KindOf[l] = "reset" => links[l] = "unsent"

\* One reset is under way, and its link has not been used.
ResetsApart ==
    /\ \A r \in Requests : Holds(r, "reset") => links[req[r].link] = "sent"
    /\ \A q, r \in Requests : Holds(q, "reset") /\ Holds(r, "reset") => q = r

\* A request follows a link of its kind; the account a callback is going to create has
\* no password.
Follows(q) ==
    /\ q.op = "reset" /\ q.phase \in {"sent", "open"} =>
           q.link \in Links /\ KindOf[q.link] = "reset"
    /\ q.op = "verify" /\ q.phase = "sent" => q.link \in Links /\ KindOf[q.link] = "verify"
    /\ q.op = "google" /\ q.phase = "sent" => q.link \in Links /\ KindOf[q.link] = "oauth"
    /\ q.op = "google" /\ q.phase = "open" =>
           /\ q.user.exists \in BOOLEAN
           /\ q.user.exists = FALSE => q.user.password = 0 /\ q.user.local = FALSE

PasswordInv ==
    /\ Accounted
    /\ ResetsApart
    /\ \A r \in Requests : Follows(req[r])

\* The requests stay, or become what holds no reset link.
Passive(q) == Follows(q) /\ ~(q.op = "reset" /\ q.phase = "open")

PassiveOnly == \A r \in Requests : req'[r] = req[r] \/ Passive(req'[r])

\* Neither the passwords nor the reset links that count them have changed.
LEMMA AccountedStill ==
    ASSUME Accounted, DOMAIN links' = Links,
           user'.exists = user.exists \/ user'.exists = TRUE,
           user'.password = user.password, user'.local = user.local,
           \A l \in Links : KindOf[l] = "reset" =>
               /\ links'[l] = "used" <=> links[l] = "used"
               /\ links'[l] # links[l] => user.exists = TRUE
    PROVE  Accounted'
  <1>1. UsedResets' = UsedResets
    BY DEF UsedResets
  <1>2. OnePasswordPerLink'
    BY <1>1 DEF Accounted, OnePasswordPerLink, UsedResets
  <1> QED
    BY <1>2 DEF Accounted

\* A step that takes no reset link away from the request that holds it.
LEMMA PassiveKeeps ==
    ASSUME PasswordInv, PassiveOnly, Accounted',
           \A r \in Requests : Holds(r, "reset") /\ req'[r] = req[r] =>
                                   links'[req[r].link] = "sent"
    PROVE  PasswordInv'
  <1>1. \A r \in Requests : Holds(r, "reset")' => Holds(r, "reset") /\ req'[r] = req[r]
    BY DEF Holds, PassiveOnly, Passive
  <1>2. ResetsApart'
    BY <1>1 DEF PasswordInv, ResetsApart
  <1>3. \A r \in Requests : Follows(req'[r])
    BY DEF PasswordInv, PassiveOnly, Passive
  <1> QED
    BY <1>2, <1>3 DEF PasswordInv

\* A step that leaves the account and the links alone.
LEMMA PassiveStep ==
    ASSUME PasswordInv, PassiveOnly, UNCHANGED <<user, links>>
    PROVE  PasswordInv'
  <1>1. Accounted'
    BY AccountedStill DEF PasswordInv, Accounted
  <1>2. \A r \in Requests : Holds(r, "reset") => links'[req[r].link] = "sent"
    BY DEF PasswordInv, ResetsApart
  <1> QED
    BY <1>1, <1>2, PassiveKeeps

\* An answer ends a request, and none that goes on holds a reset link.
LEMMA PassiveAnswer ==
    ASSUME Inv, NEW r \in Requests, NEW a, NEW n, AnswerWith(r, a, n)
    PROVE  PassiveOnly
  <1>1. OnlyRequest(r) /\ req'[r].phase \in {"idle", "answered"}
    BY Answering DEF Inv, Shapes, RequestShapes
  <1>2. Passive(req'[r])
    BY <1>1 DEF Passive, Follows
  <1> QED
    BY <1>1, <1>2 DEF PassiveOnly, OnlyRequest

\* A transaction that opens for anything but a reset or a Google sign-in sets no password.
LEMMA PassiveOpen ==
    ASSUME Inv, NEW r \in Requests, NEW live, Open(r, live),
           req[r].op \notin {"reset", "google"}
    PROVE  PassiveOnly
  <1>1. OnlyRequest(r) /\ req'[r].phase = "open" /\ req'[r].op = req[r].op
    BY Opening DEF Inv, Shapes, RequestShapes
  <1>2. Passive(req'[r])
    BY <1>1 DEF Passive, Follows
  <1> QED
    BY <1>1, <1>2 DEF PassiveOnly, OnlyRequest

\* A rejection changes nothing else.
LEMMA RejectPassword ==
    ASSUME Inv, PasswordInv, NEW r \in Requests, NEW a, Reject(r, a)
    PROVE  PasswordInv'
  BY PassiveAnswer, PassiveStep DEF Reject

\* A link that no reset holds changes its state.
LEMMA LinkChanges ==
    ASSUME PasswordInv, NEW l \in Links, NEW s, links' = [links EXCEPT ![l] = s],
           KindOf[l] = "reset" =>
               /\ links[l] # "used"
               /\ s # "used"
               /\ user.exists = TRUE
               /\ s = "sent" \/ LinkFree(l)
    PROVE  /\ DOMAIN links' = Links
           /\ \A k \in Links : KindOf[k] = "reset" =>
                  /\ links'[k] = "used" <=> links[k] = "used"
                  /\ links'[k] # links[k] => user.exists = TRUE
           /\ \A r \in Requests : Holds(r, "reset") => links'[req[r].link] = "sent"
  <1>1. DOMAIN links = Links
    BY DEF PasswordInv, Accounted
  <1>2. ASSUME NEW r \in Requests, Holds(r, "reset")
        PROVE  links'[req[r].link] = "sent"
    <2>1. /\ req[r].link \in Links /\ KindOf[req[r].link] = "reset"
          /\ links[req[r].link] = "sent"
      BY <1>2 DEF PasswordInv, ResetsApart, Follows, Holds
    <2>2. CASE req[r].link = l
      <3>1. s = "sent"
        BY <1>2, <2>1, <2>2 DEF LinkFree
      <3> QED
        BY <1>1, <2>2, <3>1
    <2>3. CASE req[r].link # l
      BY <1>1, <2>1, <2>3
    <2> QED
      BY <2>2, <2>3
  <1> QED
    BY <1>1, <1>2

\* A step that changes such a link, and nothing of the passwords.
LEMMA LinkStep ==
    ASSUME PasswordInv, PassiveOnly, NEW l \in Links, NEW s,
           links' = [links EXCEPT ![l] = s],
           user'.exists = user.exists \/ user'.exists = TRUE,
           user'.password = user.password, user'.local = user.local,
           KindOf[l] = "reset" =>
               /\ links[l] # "used"
               /\ s # "used"
               /\ user.exists = TRUE
               /\ s = "sent" \/ LinkFree(l)
    PROVE  PasswordInv'
  <1>1. /\ DOMAIN links' = Links
        /\ \A k \in Links : KindOf[k] = "reset" =>
               /\ links'[k] = "used" <=> links[k] = "used"
               /\ links'[k] # links[k] => user.exists = TRUE
        /\ \A r \in Requests : Holds(r, "reset") => links'[req[r].link] = "sent"
    BY LinkChanges
  <1>2. Accounted'
    BY <1>1, AccountedStill DEF PasswordInv
  <1> QED
    BY <1>1, <1>2, PassiveKeeps

\* The registration gives an account without reset links its first password.
LEMMA RegisterPassword ==
    ASSUME Inv, PasswordInv, NEW r \in Requests, RegisterCheck(r) \/ RegisterCommit(r)
    PROVE  PasswordInv'
  <1>1. CASE Reject(r, "conflict") \/ Reject(r, "error")
    BY <1>1, RejectPassword
  <1>2. CASE RegisterCheck(r) /\ Open(r, {})
    <2>1. req[r].op = "register" /\ UNCHANGED <<user, links>>
      BY <1>2 DEF RegisterCheck, At, Open
    <2> QED
      BY <1>2, <2>1, PassiveOpen, PassiveStep
  <1>3. CASE RegisterCommit(r) /\ ~user.exists
    <2>1. PICK l \in Links : KindOf[l] = "verify" /\ links' = [links EXCEPT ![l] = "sent"]
      BY <1>3 DEF RegisterCommit
    <2>2. /\ user' = [NoUser EXCEPT !.exists = TRUE, !.local = TRUE, !.password = 1]
          /\ AnswerWith(r, "ok", Len(tokens) + 1)
      BY <1>3 DEF RegisterCommit, IssueAndCommit
    <2>3. user'.exists = TRUE /\ user'.password = 1 /\ user'.local = TRUE
      BY <2>2 DEF NoUser
    <2>4. /\ DOMAIN links' = Links
          /\ \A k \in Links : KindOf[k] = "reset" => links'[k] = links[k]
          /\ \A q \in Requests : Holds(q, "reset") => links'[req[q].link] = "sent"
      <3>1. DOMAIN links = Links
        BY DEF PasswordInv, Accounted
      <3>2. DOMAIN links' = Links /\ \A k \in Links : KindOf[k] = "reset" => links'[k] = links[k]
        BY <2>1, <3>1
      <3> QED
        BY <2>1, <3>2, LinkChanges
    <2>5. UsedResets' = {}
      BY <1>3, <2>4 DEF UsedResets, PasswordInv, Accounted
    <2>6. OnePasswordPerLink'
      <3>1. Cardinality(UsedResets') = 0
        BY <2>5, FS_EmptySet
      <3> QED
        BY <2>3, <3>1 DEF OnePasswordPerLink, UsedResets
    <2>7. Accounted'
      BY <2>3, <2>4, <2>6 DEF Accounted
    <2> QED
      BY <2>2, <2>4, <2>7, PassiveAnswer, PassiveKeeps
  <1> QED
    BY <1>1, <1>2, <1>3 DEF RegisterCheck, RegisterCommit

\* Logins leave the passwords as they are counted.
LEMMA LoginPassword ==
    ASSUME Inv, PasswordInv, NEW r \in Requests, LoginCheck(r) \/ LoginCommit(r)
    PROVE  PasswordInv'
  <1>1. CASE Reject(r, "unauthorized")
    BY <1>1, RejectPassword
  <1>2. CASE LoginCheck(r) /\ Open(r, {})
    <2>1. req[r].op = "login" /\ UNCHANGED <<user, links>>
      BY <1>2 DEF LoginCheck, At, Open
    <2> QED
      BY <1>2, <2>1, PassiveOpen, PassiveStep
  <1>3. CASE LoginCommit(r)
    BY <1>3, PassiveAnswer, PassiveStep DEF LoginCommit, IssueAndCommit
  <1> QED
    BY <1>1, <1>2, <1>3 DEF LoginCheck

\* The callback uses up its own state, which is no reset link.
LEMMA GoogleCheckPassword ==
    ASSUME Inv, PasswordInv, NEW r \in Requests, NEW l \in Links, NEW v \in BOOLEAN,
           GoogleCheck(r, l, v)
    PROVE  PasswordInv'
  <1>1. CASE Reject(r, "unauthorized")
    BY <1>1, RejectPassword
  <1>2. ASSUME links' = [links EXCEPT ![l] = "used"], UNCHANGED user, PassiveOnly
        PROVE  PasswordInv'
    <2>1. KindOf[l] # "reset"
      BY DEF GoogleCheck, At, PasswordInv, Follows
    <2> QED
      BY <1>2, <2>1, LinkStep
  <1>3. ASSUME req' = [req EXCEPT ![r].phase = "open",
                          ![r].user = IF user.exists THEN user
                                      ELSE [NoUser EXCEPT !.verified = v]]
        PROVE  PassiveOnly
    <2> DEFINE seen == IF user.exists THEN user ELSE [NoUser EXCEPT !.verified = v]
    <2>1. /\ seen.exists \in BOOLEAN
          /\ seen.exists = FALSE => seen.password = 0 /\ seen.local = FALSE
      BY DEF NoUser, PasswordInv, Accounted
    <2>2. req' = [req EXCEPT ![r].phase = "open", ![r].user = seen]
      BY <1>3
    <2> HIDE DEF seen
    <2>3. req[r].op = "google"
      BY DEF GoogleCheck, At
    <2>4. /\ OnlyRequest(r)
          /\ req'[r].phase = "open" /\ req'[r].op = "google" /\ req'[r].user = seen
      BY <2>2, <2>3 DEF Inv, Shapes, IsRequest, RequestFields, OnlyRequest
    <2>5. Passive(req'[r])
      BY <2>1, <2>4 DEF Passive, Follows
    <2> QED
      BY <2>4, <2>5 DEF PassiveOnly, OnlyRequest
  <1> QED
    BY <1>1, <1>2, <1>3, PassiveAnswer DEF GoogleCheck

\* An account that the callback creates has no password and no reset link.
LEMMA GoogleCommitPassword ==
    ASSUME Inv, PasswordInv, NEW r \in Requests, GoogleCommit(r)
    PROVE  PasswordInv'
  <1> DEFINE seen == req[r].user
  <1>1. CASE Reject(r, "error")
    BY <1>1, RejectPassword
  <1>2. ASSUME ~(~seen.exists /\ user.exists),
               user' = IF ~seen.exists
                       THEN [seen EXCEPT !.exists = TRUE, !.google = TRUE]
                       ELSE IF seen.google THEN user
                       ELSE [user EXCEPT !.google = TRUE, !.verified = TRUE],
               IssueAndCommit(r, seen.password), UNCHANGED links
        PROVE  PasswordInv'
    <2>1. PassiveOnly
      BY <1>2, PassiveAnswer DEF IssueAndCommit
    <2>2. /\ UserFields \subseteq DOMAIN seen /\ UserFields \subseteq DOMAIN user
          /\ seen.exists \in BOOLEAN /\ user.exists \in BOOLEAN
          /\ seen.exists = FALSE => seen.password = 0 /\ seen.local = FALSE
      BY DEF Inv, Shapes, IsRequest, GoogleCommit, At, PasswordInv, Accounted, Follows
    <2>3. /\ user'.exists = user.exists \/ user'.exists = TRUE
          /\ user'.password = user.password /\ user'.local = user.local
      <3>1. CASE seen.exists = FALSE
        <4>1. user.exists = FALSE /\ user' = [seen EXCEPT !.exists = TRUE, !.google = TRUE]
          BY <1>2, <2>2, <3>1
        <4>2. user.password = 0 /\ user.local = FALSE
          BY <4>1 DEF PasswordInv, Accounted
        <4> HIDE DEF seen
        <4> QED
          BY <2>2, <3>1, <4>1, <4>2 DEF UserFields
      <3>2. CASE seen.exists = TRUE
        <4>1. user' = user \/ user' = [user EXCEPT !.google = TRUE, !.verified = TRUE]
          BY <1>2, <3>2
        <4> QED
          BY <2>2, <4>1 DEF UserFields
      <3> QED
        BY <2>2, <3>1, <3>2
    <2>4. Accounted'
      BY <1>2, <2>3, AccountedStill DEF PasswordInv, Accounted
    <2>5. \A q \in Requests : Holds(q, "reset") => links'[req[q].link] = "sent"
      BY <1>2 DEF PasswordInv, ResetsApart
    <2> QED
      BY <2>1, <2>4, <2>5, PassiveKeeps
  <1> QED
    BY <1>1, <1>2 DEF GoogleCommit

\* So do refreshes and logouts.
LEMMA RefreshPassword ==
    ASSUME Inv, PasswordInv, NEW r \in Requests,
           RefreshCheck(r) \/ RefreshCommit(r) \/ LogoutToken(r)
    PROVE  PasswordInv'
  <1>1. CASE Reject(r, "unauthorized")
    BY <1>1, RejectPassword
  <1>2. CASE RefreshCheck(r) /\ Open(r, {})
    <2>1. req[r].op = "refresh" /\ UNCHANGED <<user, links>>
      BY <1>2 DEF RefreshCheck, At, Open
    <2> QED
      BY <1>2, <2>1, PassiveOpen, PassiveStep
  <1>3. CASE RefreshCommit(r) \/ LogoutToken(r)
    BY <1>3, PassiveAnswer, PassiveStep DEF RefreshCommit, LogoutToken
  <1> QED
    BY <1>1, <1>2, <1>3 DEF RefreshCheck

\* A reset goes on only with a link that is not used, while no other one does.
LEMMA ResetCheckPassword ==
    ASSUME Inv, PasswordInv, NEW r \in Requests, ResetCheck(r)
    PROVE  PasswordInv'
  <1>1. CASE Reject(r, "unauthorized")
    BY <1>1, RejectPassword
  <1>2. CASE Usable(req[r].link) /\ Open(r, LiveTokens)
    <2>1. /\ OnlyRequest(r) /\ req'[r].phase = "open" /\ req'[r].op = "reset"
          /\ req'[r].link = req[r].link
          /\ links[req[r].link] = "sent" /\ UNCHANGED <<user, links>>
      <3>1. req[r].op = "reset"
        BY DEF ResetCheck, At
      <3> QED
        BY <1>2, <3>1 DEF Usable, Open, Inv, Shapes, IsRequest, RequestFields, OnlyRequest
    <2>2. \A q \in Requests : ~Holds(q, "reset")
      BY DEF ResetCheck, UserFree
    <2>3. \A q \in Requests : Holds(q, "reset")' => q = r
      BY <2>1, <2>2 DEF Holds, OnlyRequest
    <2>4. ResetsApart'
      BY <2>1, <2>3 DEF ResetsApart
    <2>5. Follows(req'[r])
      BY <2>1 DEF ResetCheck, At, PasswordInv, Follows
    <2>6. \A q \in Requests : Follows(req'[q])
      BY <2>1, <2>5 DEF PasswordInv, OnlyRequest
    <2>7. Accounted'
      BY <2>1, AccountedStill DEF PasswordInv, Accounted
    <2> QED
      BY <2>4, <2>6, <2>7 DEF PasswordInv
  <1> QED
    BY <1>1, <1>2 DEF ResetCheck

\* Its commit uses the link and sets one password.
LEMMA ResetCommitPassword ==
    ASSUME Inv, PasswordInv, NEW r \in Requests, ResetCommit(r)
    PROVE  PasswordInv'
  <1> DEFINE l == req[r].link
  <1>1. /\ Holds(r, "reset")
        /\ user' = [user EXCEPT !.password = @ + 1]
        /\ links' = [links EXCEPT ![l] = "used"]
        /\ AnswerWith(r, "ok", 0)
    BY DEF ResetCommit, At, Holds
  <1>2. l \in Links /\ KindOf[l] = "reset" /\ links[l] = "sent"
    BY <1>1 DEF PasswordInv, ResetsApart, Follows, Holds
  <1>3. /\ user.exists = TRUE /\ user.password \in Nat /\ UserFields \subseteq DOMAIN user
        /\ DOMAIN links = Links
    BY <1>2 DEF Inv, Shapes, PasswordInv, Accounted
  <1>4. user'.exists = TRUE /\ user'.local = user.local /\ user'.password = user.password + 1
    BY <1>1, <1>3 DEF UserFields
  <1> HIDE DEF l
  <1>5. DOMAIN links' = Links
    BY <1>1, <1>3
  <1>6. UsedResets' = UsedResets \cup {l} /\ l \notin UsedResets
    BY <1>1, <1>2, <1>3 DEF UsedResets
  <1>7. IsFiniteSet(UsedResets)
    <2>1. IsFiniteSet(Links) /\ UsedResets \subseteq Links
      BY AuthAssumption DEF UsedResets
    <2> QED
      BY <2>1, FS_Subset
  <1>8. Cardinality(UsedResets) \in Nat
    BY <1>7, FS_CardinalityType
  <1>9. Cardinality(UsedResets \cup {l}) = Cardinality(UsedResets) + 1
    BY <1>6, <1>7, FS_AddElement
  <1>10. OnePasswordPerLink'
    <2>1. user.password = (IF user.local THEN 1 ELSE 0) + Cardinality(UsedResets)
      BY DEF PasswordInv, Accounted, OnePasswordPerLink, UsedResets
    <2>2. user'.password = (IF user'.local THEN 1 ELSE 0) + Cardinality(UsedResets \cup {l})
      BY <1>4, <1>8, <1>9, <2>1
    <2>3. user'.password = (IF user'.local THEN 1 ELSE 0) + Cardinality(UsedResets')
      BY <1>6, <2>2
    <2> QED
      BY <2>3 DEF OnePasswordPerLink, UsedResets
  <1>11. Accounted'
    BY <1>4, <1>5, <1>10 DEF Accounted
  <1>12. OnlyRequest(r) /\ req'[r].phase \in {"idle", "answered"}
    BY <1>1, Answering DEF Inv, Shapes, RequestShapes
  <1>13. \A q \in Requests : ~Holds(q, "reset")'
    BY <1>1, <1>12 DEF PasswordInv, ResetsApart, Holds, OnlyRequest
  <1>14. \A q \in Requests : Follows(req'[q])
    BY <1>12 DEF PasswordInv, Follows, OnlyRequest
  <1> QED
    BY <1>11, <1>13, <1>14 DEF PasswordInv, ResetsApart

\* So does the verification of an email.
LEMMA VerifyPassword ==
    ASSUME Inv, PasswordInv, NEW r \in Requests, VerifyEmail(r)
    PROVE  PasswordInv'
  <1>1. CASE Reject(r, "unauthorized")
    BY <1>1, RejectPassword
  <1>2. CASE /\ user' = [user EXCEPT !.verified = TRUE]
             /\ links' = [links EXCEPT ![req[r].link] = "used"]
             /\ AnswerWith(r, "ok", 0)
    <2>1. req[r].link \in Links /\ KindOf[req[r].link] = "verify"
      BY DEF VerifyEmail, At, PasswordInv, Follows
    <2>2. /\ user'.exists = user.exists /\ user'.password = user.password
          /\ user'.local = user.local
      BY <1>2 DEF Inv, Shapes, UserFields
    <2> QED
      BY <1>2, <2>1, <2>2, PassiveAnswer, LinkStep
  <1> QED
    BY <1>1, <1>2 DEF VerifyEmail

\* Every step of the server.
LEMMA ServerPassword ==
    ASSUME Inv, PasswordInv, NEW r \in Requests, Server(r) \/ ServerFailure(r)
    PROVE  PasswordInv'
  <1>1. CASE ServerFailure(r)
    BY <1>1, RejectPassword DEF ServerFailure, ServerFails
  <1>2. CASE Server(r)
    BY <1>2, RegisterPassword, LoginPassword, GoogleCheckPassword, GoogleCommitPassword,
       RefreshPassword, ResetCheckPassword, ResetCommitPassword, VerifyPassword
       DEF Server, ServerStep
  <1> QED
    BY <1>1, <1>2

\* What the tab sends follows no link.
LEMMA RequestIsPassive ==
    ASSUME NEW op, NEW t, op \notin {"reset", "verify", "google"}
    PROVE  Passive(Request(op, t))
  BY DEF Request, Idle, Passive, Follows

\* A slot without a request sets no password.
LEMMA IdleIsPassive == Passive(Idle)
  BY IdleIsRequest DEF Passive, Follows

\* One slot is filled or freed.
LEMMA PassiveSlot ==
    ASSUME Inv, NEW r, NEW q, req' = [req EXCEPT ![r] = q], Passive(q)
    PROVE  PassiveOnly
  BY DEF PassiveOnly, Inv, Shapes

\* The tab asks for the refresh it shares.
LEMMA JoinPassword ==
    ASSUME Inv, PasswordInv, NEW t, JoinRefresh(t)
    PROVE  PasswordInv'
  <1>1. PassiveOnly
    <2>1. CASE UNCHANGED req
      BY <2>1 DEF PassiveOnly
    <2>2. CASE Send(Refreshing, "refresh", tab.stored)
      BY <2>2, RequestIsPassive, PassiveSlot DEF Send
    <2> QED
      BY <2>1, <2>2 DEF JoinRefresh, serverVars
  <1> QED
    BY <1>1, PassiveStep DEF JoinRefresh, serverVars

\* The page load, and the answers to the refresh.
LEMMA RefreshStepPassword ==
    ASSUME Inv, PasswordInv, RefreshStep
    PROVE  PasswordInv'
  <1>1. CASE Initialize
    <2>1. PassiveOnly
      <3>1. CASE UNCHANGED req
        BY <3>1 DEF PassiveOnly
      <3>2. CASE Send(Refreshing, "refresh", tab.stored)
        BY <3>2, RequestIsPassive, PassiveSlot DEF Send
      <3> QED
        BY <1>1, <3>1, <3>2 DEF Initialize, serverVars
    <2> QED
      BY <1>1, <2>1, PassiveStep DEF Initialize, serverVars
  <1>2. CASE Restored \/ RestoreFails \/ RefreshFails
    <2>1. req' = [req EXCEPT ![Refreshing] = Idle]
      BY <1>2 DEF Restored, RestoreFails, RefreshFails
    <2>2. UNCHANGED <<user, links>>
      BY <1>2 DEF Restored, RestoreFails, RefreshFails
    <2> QED
      BY <2>1, <2>2, IdleIsPassive, PassiveSlot, PassiveStep
  <1>3. CASE Refreshed
    <2> DEFINE q == Request("logout", tab.leavingWith)
    <2>1. \/ req' = [req EXCEPT ![Refreshing] = Idle, ![Form] = q]
          \/ req' = [req EXCEPT ![Refreshing] = Idle]
      BY <1>3 DEF Refreshed
    <2>2. Passive(q)
      BY RequestIsPassive
    <2> HIDE DEF q
    <2>3. PassiveOnly
      BY <2>1, <2>2, IdleIsPassive DEF PassiveOnly, Inv, Shapes
    <2> QED
      BY <1>3, <2>3, PassiveStep DEF Refreshed
  <1> QED
    BY <1>1, <1>2, <1>3 DEF RefreshStep

\* The forms.
LEMMA FormPassword ==
    ASSUME Inv, PasswordInv,
           FormStep \/ Logout \/ (\E op \in {"login", "register"} : Submit(op))
    PROVE  PasswordInv'
  <1>1. CASE SubmitAnswered \/ LogoutAnswered
    <2>1. req' = [req EXCEPT ![Form] = Idle] /\ UNCHANGED <<user, links>>
      BY <1>1 DEF SubmitAnswered, LogoutAnswered
    <2> QED
      BY <2>1, IdleIsPassive, PassiveSlot, PassiveStep
  <1>2. CASE LogoutRejected
    <2> DEFINE q == Request("refresh", tab.stored)
    <2>1. \/ req' = [req EXCEPT ![Form] = Idle, ![Refreshing] = q]
          \/ req' = [req EXCEPT ![Form] = Idle]
      BY <1>2 DEF LogoutRejected
    <2>2. Passive(q)
      BY RequestIsPassive
    <2> HIDE DEF q
    <2>3. PassiveOnly
      BY <2>1, <2>2, IdleIsPassive DEF PassiveOnly, Inv, Shapes
    <2> QED
      BY <1>2, <2>3, PassiveStep DEF LogoutRejected
  <1>3. CASE Logout
    <2>1. CASE JoinRefresh([tab EXCEPT !.leavingWith = tab.stored])
      BY <2>1, JoinPassword
    <2>2. CASE Accepted
      <3>1. PassiveOnly
        BY <1>3, <2>2, RequestIsPassive, PassiveSlot DEF Logout, Send
      <3> QED
        BY <1>3, <2>2, <3>1, PassiveStep DEF Logout
    <2> QED
      BY <1>3, <2>1, <2>2 DEF Logout
  <1>4. ASSUME NEW op \in {"login", "register"}, Submit(op)
        PROVE  PasswordInv'
    <2>1. PassiveOnly
      BY <1>4, RequestIsPassive, PassiveSlot DEF Submit, Send
    <2> QED
      BY <1>4, <2>1, PassiveStep DEF Submit
  <1> QED
    BY <1>1, <1>2, <1>3, <1>4 DEF FormStep

\* Calls, and what leaves the server alone.
LEMMA CallPassword ==
    ASSUME Inv, PasswordInv, NEW c, CallStep(c) \/ StartCall(c)
    PROVE  PasswordInv'
  <1>1. CASE CallRejected(c)
    BY <1>1, JoinPassword DEF CallRejected
  <1>2. CASE UNCHANGED serverVars
    <2>1. PassiveOnly
      BY <1>2 DEF serverVars, PassiveOnly
    <2> QED
      BY <1>2, <2>1, PassiveStep DEF serverVars
  <1> QED
    BY <1>1, <1>2 DEF CallStep, CallSucceeds, CallFails, CallGivesUp, StartCall

\* Links are sent and expire; none of these is a reset link in use.
LEMMA LinkPassword ==
    ASSUME Inv, PasswordInv, (\E l \in Links : SendTo(l)) \/ Expiry
    PROVE  PasswordInv'
  <1>1. ASSUME NEW l \in Links, SendTo(l)
        PROVE  PasswordInv'
    <2>1. /\ links[l] = "unsent" /\ links' = [links EXCEPT ![l] = "sent"]
          /\ UNCHANGED <<user, req>>
          /\ KindOf[l] = "reset" => user.exists
      BY <1>1 DEF SendTo, SendLink, ResetSent
    <2>2. PassiveOnly
      BY <2>1 DEF PassiveOnly
    <2>3. KindOf[l] = "reset" => user.exists = TRUE
      BY <2>1 DEF PasswordInv, Accounted
    <2> QED
      BY <2>1, <2>2, <2>3, LinkStep
  <1>2. ASSUME NEW l \in Links, LinkExpires(l)
        PROVE  PasswordInv'
    <2>1. /\ links[l] = "sent" /\ links' = [links EXCEPT ![l] = "expired"]
          /\ LinkFree(l)
          /\ UNCHANGED <<user, req>>
      BY <1>2 DEF LinkExpires, Usable
    <2>2. PassiveOnly
      BY <2>1 DEF PassiveOnly
    <2>3. KindOf[l] = "reset" => user.exists = TRUE
      BY <2>1 DEF PasswordInv, Accounted
    <2> QED
      BY <2>1, <2>2, <2>3, LinkStep
  <1>3. ASSUME NEW t, TokenExpires(t)
        PROVE  PasswordInv'
    BY <1>3, PassiveStep DEF TokenExpires, PassiveOnly
  <1> QED
    BY <1>1, <1>2, <1>3 DEF Expiry

\* Whoever opens a link has one of that kind.
LEMMA OtherPassword ==
    ASSUME Inv, PasswordInv, NEW r \in Elsewhere, NEW op \in Ops, NEW t, NEW l,
           OtherRequest(r, op, t, l)
    PROVE  PasswordInv'
  <1> DEFINE p == Request(op, t)
             q == [p EXCEPT !.link = l, !.by = "elsewhere"]
  <1>1. q.op = op /\ q.phase = "sent" /\ q.link = l
    BY DEF Request, Idle
  <1>2. req' = [req EXCEPT ![r] = q] /\ UNCHANGED <<user, links>>
    BY DEF OtherRequest, clientVars
  <1>3. /\ op = "reset" => l \in Links /\ KindOf[l] = "reset"
        /\ op = "verify" => l \in Links /\ KindOf[l] = "verify"
        /\ op = "google" => l \in Links /\ KindOf[l] = "oauth"
    BY DEF OtherRequest, Opened
  <1> HIDE DEF q, p
  <1>4. Passive(q)
    BY <1>1, <1>3 DEF Passive, Follows
  <1> QED
    BY <1>2, <1>4, PassiveSlot, PassiveStep

\* A request the tab gives up goes on with the link it has.
LEMMA DetachPassword ==
    ASSUME Inv, PasswordInv, NEW R \in SUBSET (Requests \ Elsewhere), NEW rest,
           Detach(R, rest), UNCHANGED <<user, links>>, \A r \in R : Passive(rest[r])
    PROVE  PasswordInv'
  <1>1. PICK q \in Around, S \in SUBSET R :
            req' = [r \in Requests |->
                       IF r \in R THEN rest[r]
                       ELSE IF r = q /\ S # {}
                       THEN [req[CHOOSE x \in S : TRUE] EXCEPT !.by = "nobody"]
                       ELSE req[r]]
    BY DEF Detach
  <1>2. q \in Elsewhere
    BY ClientAssumption DEF Around
  <1>3. q \in Requests /\ q \notin R
    BY <1>2, ClientAssumption
  <1> DEFINE s == CHOOSE x \in S : TRUE
             moved == [req[s] EXCEPT !.by = "nobody"]
  <1>4. S # {} => s \in R /\ s \in Requests
    OBVIOUS
  <1>5. S # {} => /\ moved.op = req[s].op /\ moved.phase = req[s].phase
                  /\ moved.link = req[s].link /\ moved.user = req[s].user
    <2> SUFFICES ASSUME S # {}
                 PROVE  /\ moved.op = req[s].op /\ moved.phase = req[s].phase
                        /\ moved.link = req[s].link /\ moved.user = req[s].user
      OBVIOUS
    <2>1. IsRequest(req[s])
      BY <1>4 DEF Inv, Shapes
    <2> QED
      BY <2>1 DEF IsRequest, RequestFields
  <1>6. req' = [r \in Requests |-> IF r \in R THEN rest[r]
                                   ELSE IF r = q /\ S # {} THEN moved ELSE req[r]]
    BY <1>1
  <1> HIDE DEF s, moved
  <1>7. ASSUME NEW r \in Requests
        PROVE  /\ r \in R => Passive(req'[r])
               /\ r \notin R /\ r = q /\ S # {} => req'[r] = moved
               /\ r \notin R /\ ~(r = q /\ S # {}) => req'[r] = req[r]
    BY <1>6
  <1>8. ASSUME NEW r \in Requests, Holds(r, "reset")'
        PROVE  /\ r \notin R
               /\ r = q /\ S # {} => Holds(s, "reset") /\ req'[r].link = req[s].link
               /\ ~(r = q /\ S # {}) => Holds(r, "reset") /\ req'[r].link = req[r].link
    BY <1>4, <1>5, <1>7, <1>8 DEF Holds, Passive
  <1>9. ResetsApart'
    <2>1. ASSUME NEW r \in Requests, Holds(r, "reset")'
          PROVE  links[req'[r].link] = "sent"
      BY <1>4, <1>8, <2>1 DEF PasswordInv, ResetsApart
    <2>2. ASSUME NEW x \in Requests, NEW y \in Requests, Holds(x, "reset")', Holds(y, "reset")'
          PROVE  x = y
      BY <1>4, <1>8, <2>2 DEF PasswordInv, ResetsApart
    <2> QED
      BY <2>1, <2>2 DEF ResetsApart
  <1>10. ASSUME NEW r \in Requests
         PROVE  Follows(req'[r])
    <2>1. CASE r \in R
      BY <1>7, <2>1 DEF Passive
    <2>2. CASE r \notin R /\ r = q /\ S # {}
      BY <1>4, <1>5, <1>7, <2>2 DEF PasswordInv, Follows
    <2>3. CASE r \notin R /\ ~(r = q /\ S # {})
      BY <1>7, <2>3 DEF PasswordInv
    <2> QED
      BY <2>1, <2>2, <2>3
  <1>11. Accounted'
    BY AccountedStill DEF PasswordInv, Accounted
  <1> QED
    BY <1>9, <1>10, <1>11 DEF PasswordInv

\* What a reload or a network error gives up has been counted already.
LEMMA LostPassword ==
    ASSUME Inv, PasswordInv, Reload \/ (\E r \in {Refreshing, Form} : NetworkError(r))
    PROVE  PasswordInv'
  <1>1. CASE Reload
    <2> DEFINE R == {Refreshing, Form}
    <2>1. R \in SUBSET (Requests \ Elsewhere)
      BY ClientAssumption
    <2>2. Detach(R, [x \in R |-> Idle]) /\ UNCHANGED <<user, links>>
      BY <1>1 DEF Reload
    <2> HIDE DEF R
    <2> QED
      BY <2>1, <2>2, IdleIsPassive, DetachPassword
  <1>2. ASSUME NEW r \in {Refreshing, Form}, NetworkError(r)
        PROVE  PasswordInv'
    <2> DEFINE q == [Request(req[r].op, 0) EXCEPT !.phase = "answered", !.answer = "error"]
    <2>1. {r} \in SUBSET (Requests \ Elsewhere)
      BY ClientAssumption
    <2>2. q.phase = "answered"
      BY DEF Request, Idle
    <2>3. Detach({r}, [x \in {r} |-> q]) /\ UNCHANGED <<user, links>>
      BY <1>2 DEF NetworkError
    <2> HIDE DEF q
    <2>4. Passive(q)
      BY <2>2 DEF Passive, Follows
    <2> QED
      BY <2>1, <2>3, <2>4, DetachPassword
  <1> QED
    BY <1>1, <1>2

\* Before the first request there is no account and no link.
LEMMA InitPassword ==
    ASSUME Init
    PROVE  PasswordInv
  <1>1. /\ user = NoUser /\ links = [l \in Links |-> "unsent"]
        /\ req = [r \in Requests |-> Idle]
    BY DEF Init, InitServer
  <1>2. UsedResets = {}
    BY <1>1 DEF UsedResets
  <1>3. OnePasswordPerLink
    <2>1. Cardinality(UsedResets) = 0
      BY <1>2, FS_EmptySet
    <2> QED
      BY <1>1, <2>1 DEF OnePasswordPerLink, UsedResets, NoUser
  <1>4. Accounted
    BY <1>1, <1>3 DEF Accounted, NoUser
  <1>5. \A r \in Requests : req[r] = Idle
    BY <1>1
  <1>6. ResetsApart
    BY <1>5, IdleIsRequest DEF ResetsApart, Holds
  <1>7. \A r \in Requests : Follows(req[r])
    BY <1>5, IdleIsRequest DEF Follows
  <1> QED
    BY <1>4, <1>6, <1>7 DEF PasswordInv

\* Every step keeps the passwords accounted for.
LEMMA StepPassword ==
    ASSUME Inv, PasswordInv, [Next]_vars
    PROVE  PasswordInv'
  <1>1. CASE \E r \in Requests : Server(r) \/ ServerFailure(r)
    BY <1>1, ServerPassword
  <1>2. CASE (\E l \in Links : SendTo(l)) \/ Expiry
    BY <1>2, LinkPassword
  <1>3. CASE RefreshStep
    BY <1>3, RefreshStepPassword
  <1>4. CASE FormStep \/ Logout \/ (\E op \in {"login", "register"} : Submit(op))
    BY <1>4, FormPassword
  <1>5. CASE (\E c \in AllCalls : CallStep(c)) \/ (\E c \in Calls : StartCall(c))
    BY <1>5, CallPassword
  <1>6. CASE (\E S \in SUBSET AllCalls : AccessExpires(S)) \/ UNCHANGED vars
    BY <1>6, PassiveStep DEF AccessExpires, vars, serverVars, PassiveOnly
  <1>7. CASE Reload \/ (\E r \in {Refreshing, Form} : NetworkError(r))
    BY <1>7, LostPassword
  <1>8. CASE \E r \in Elsewhere, op \in Ops, t \in 0..MaxTokens, l \in Links \cup {NoLink} :
                OtherRequest(r, op, t, l)
    BY <1>8, OtherPassword
  <1> QED
    BY <1>1, <1>2, <1>3, <1>4, <1>5, <1>6, <1>7, <1>8 DEF Next

\* The accounting holds in every reachable state.
LEMMA PasswordInvariance == Spec => []PasswordInv
  BY InitPassword, StepPassword, Invariance, PTL DEF Spec

\* OnePasswordPerLink: the account has had one password from its registration and one
\* from each reset link that was used, because a confirmation that has read its link
\* keeps every other one from reading it until it has marked it used.
THEOREM PasswordsCounted == Spec => []OnePasswordPerLink
  <1>1. PasswordInv => OnePasswordPerLink
    BY DEF PasswordInv, Accounted
  <1> QED
    BY <1>1, PasswordInvariance, PTL

-----------------------------------------------------------------------------
(* Types.  The bound on the passwords is what the accounting of them gives. *)

RequestTyped(q, n) == q \in Request0 /\ q.token <= n /\ q.issued <= n

RequestsTyped(f, n) ==
    /\ DOMAIN f = Requests
    /\ \A r \in Requests : RequestTyped(f[r], n)

ServerTyped ==
    /\ user \in User
    /\ tokens \in Seq(Token)
    /\ Len(tokens) <= MaxTokens
    /\ links \in [Links -> LinkStates]
    /\ RequestsTyped(req, Len(tokens))

TabTyped ==
    /\ tab \in Tab
    /\ tab.stored <= Len(tokens)
    /\ tab.leavingWith <= Len(tokens)
    /\ calls \in [AllCalls -> [phase : CallPhases, accepted : BOOLEAN]]
    /\ leaving \in {"no", "sent", "waiting", "resent"}

Typed == ServerTyped /\ TabTyped

ResetLinks == {l \in Links : KindOf[l] = "reset"}

\* The bound leaves room for one password per reset link.
LEMMA PasswordBound ==
    /\ MaxPassword \in Nat
    /\ MaxPassword >= 1
    /\ \A U \in SUBSET ResetLinks :
          Cardinality(U) \in Nat /\ Cardinality(U) + 1 <= MaxPassword
  <1>1. IsFiniteSet(ResetLinks)
    <2>1. IsFiniteSet(Links) /\ ResetLinks \subseteq Links
      BY AuthAssumption DEF ResetLinks
    <2> QED
      BY <2>1, FS_Subset
  <1>2. Cardinality(ResetLinks) \in Nat
    BY <1>1, FS_CardinalityType
  <1>3. MaxPassword = 1 + Cardinality(ResetLinks)
    BY DEF MaxPassword, ResetLinks
  <1>4. ASSUME NEW U \in SUBSET ResetLinks
        PROVE  Cardinality(U) \in Nat /\ Cardinality(U) <= Cardinality(ResetLinks)
    <2>1. IsFiniteSet(U) /\ Cardinality(U) <= Cardinality(ResetLinks)
      BY <1>1, FS_Subset
    <2> QED
      BY <2>1, FS_CardinalityType
  <1> QED
    BY <1>2, <1>3, <1>4

\* The account before it exists.
LEMMA NoUserTyped == NoUser \in User
  BY PasswordBound DEF NoUser, User

\* A slot without a request has its type.
LEMMA IdleTyped ==
    ASSUME NEW n \in Nat
    PROVE  RequestTyped(Idle, n)
  BY NoUserTyped, AuthAssumption DEF RequestTyped, Request0, Idle, Holders

\* A request after each of the changes that are made to it.
RequestKept(e, q) == e \in Request0 /\ e.token = q.token /\ e.issued = q.issued

RequestIssued(e, q, n) == e \in Request0 /\ e.token = q.token /\ e.issued = n

\* An answer keeps the type of a request.
LEMMA RequestAnswered ==
    ASSUME NEW q \in Request0, NEW a \in Answers, NEW n \in 0..MaxTokens, NEW e,
           e = [q EXCEPT !.phase = "answered", !.answer = a, !.issued = n]
    PROVE  RequestIssued(e, q, n)
  BY DEF Request0, RequestIssued

\* So does what a transaction reads.
LEMMA RequestOpened ==
    ASSUME NEW q \in Request0, NEW u \in User, NEW L \in SUBSET (1..MaxTokens), NEW e,
           \/ e = [q EXCEPT !.phase = "open", !.user = u, !.live = L]
           \/ e = [q EXCEPT !.phase = "open", !.user = u]
    PROVE  RequestKept(e, q)
  BY DEF Request0, RequestKept

\* So does a client that no longer waits.
LEMMA RequestGivenUp ==
    ASSUME NEW q \in Request0, NEW e, e = [q EXCEPT !.by = "nobody"]
    PROVE  RequestKept(e, q)
  BY DEF Request0, RequestKept, Holders

\* So does a request of another client.
LEMMA RequestElsewhere ==
    ASSUME NEW q \in Request0, NEW l \in Links \cup {NoLink}, NEW e,
           e = [q EXCEPT !.link = l, !.by = "elsewhere"]
    PROVE  RequestKept(e, q)
  BY DEF Request0, RequestKept, Holders

\* What the tab, and others, send.
LEMMA SentTyped ==
    ASSUME NEW op \in Ops \cup {"none"}, NEW t \in 0..MaxTokens, NEW n \in Nat, t <= n
    PROVE  RequestTyped(Request(op, t), n)
  <1>1. Idle \in Request0
    BY IdleTyped DEF RequestTyped
  <1>2. Request(op, t) \in Request0
    BY <1>1 DEF Request, Request0, Holders
  <1>3. Request(op, t).token = t /\ Request(op, t).issued = 0
    BY DEF Request, Idle
  <1> QED
    BY <1>2, <1>3 DEF RequestTyped

\* The rows there are.
LEMMA RowsTyped ==
    ASSUME ServerTyped
    PROVE  /\ Len(tokens) \in Nat /\ Len(tokens) \in 0..MaxTokens
           /\ DOMAIN tokens = 1..Len(tokens)
           /\ DOMAIN tokens \subseteq 1..MaxTokens
           /\ \A t \in DOMAIN tokens : tokens[t] \in Token
  <1>1. Len(tokens) \in Nat /\ DOMAIN tokens = 1..Len(tokens)
    BY DEF ServerTyped
  <1>2. \A t \in 1..Len(tokens) : tokens[t] \in Token
    BY ElementOfSeq DEF ServerTyped
  <1> QED
    BY <1>1, <1>2, AuthAssumption DEF ServerTyped

\* The requests after one of them is replaced, and the tokens have grown.
LEMMA ReplacedTyped ==
    ASSUME ServerTyped, NEW r \in Requests, NEW q, NEW n \in Nat, Len(tokens) <= n,
           req' = [req EXCEPT ![r] = q], RequestTyped(q, n)
    PROVE  RequestsTyped(req', n)
  <1>1. /\ DOMAIN req = Requests /\ Len(tokens) \in Nat
        /\ \A x \in Requests : RequestTyped(req[x], Len(tokens))
    BY DEF ServerTyped, RequestsTyped
  <1>2. \A x \in Requests : RequestTyped(req[x], n)
    BY <1>1 DEF RequestTyped, Request0
  <1> QED
    BY <1>1, <1>2 DEF RequestsTyped

\* One slot is replaced.
LEMMA SlotTyped ==
    ASSUME ServerTyped, NEW r \in Requests, NEW q, req' = [req EXCEPT ![r] = q],
           RequestTyped(q, Len(tokens))
    PROVE  RequestsTyped(req', Len(tokens))
  <1> DEFINE n == Len(tokens)
  <1>1. n \in Nat /\ Len(tokens) <= n /\ RequestTyped(q, n)
    BY RowsTyped
  <1> HIDE DEF n
  <1>2. RequestsTyped(req', n)
    BY <1>1, ReplacedTyped
  <1> QED
    BY <1>2 DEF n

\* A request is answered.
LEMMA AnswerTyped ==
    ASSUME ServerTyped, NEW r \in Requests, NEW a \in Answers, NEW i \in 0..MaxTokens,
           NEW n \in Nat, Len(tokens) <= n, i <= n, AnswerWith(r, a, i)
    PROVE  RequestsTyped(req', n)
  <1> DEFINE e == [req[r] EXCEPT !.phase = "answered", !.answer = a, !.issued = i]
             q == IF req[r].by = "tab" THEN e ELSE Idle
  <1>1. /\ req[r] \in Request0 /\ req[r].token <= Len(tokens) /\ Len(tokens) \in Nat
        /\ req[r].token \in 0..MaxTokens
    BY DEF ServerTyped, RequestsTyped, RequestTyped, Request0
  <1>2. e = [req[r] EXCEPT !.phase = "answered", !.answer = a, !.issued = i]
    OBVIOUS
  <1>3. req' = [req EXCEPT ![r] = q]
    BY DEF AnswerWith
  <1> HIDE DEF e
  <1>5. RequestIssued(e, req[r], i)
    BY <1>1, <1>2, RequestAnswered
  <1>4. RequestTyped(q, n)
    BY <1>1, <1>5, IdleTyped DEF RequestTyped, RequestIssued
  <1> HIDE DEF q
  <1> QED
    BY <1>3, <1>4, ReplacedTyped

\* An answer without a token.
LEMMA BareAnswerTyped ==
    ASSUME ServerTyped, NEW r \in Requests, NEW a \in Answers, AnswerWith(r, a, 0)
    PROVE  RequestsTyped(req', Len(tokens))
  <1> DEFINE n == Len(tokens)
  <1>1. n \in Nat /\ Len(tokens) <= n /\ 0 <= n /\ 0 \in 0..MaxTokens
    BY RowsTyped, AuthAssumption
  <1> HIDE DEF n
  <1>2. RequestsTyped(req', n)
    BY <1>1, AnswerTyped
  <1> QED
    BY <1>2 DEF n

\* A transaction opens.
LEMMA OpenTyped ==
    ASSUME ServerTyped, NEW r \in Requests, NEW L \in SUBSET (1..MaxTokens), Open(r, L)
    PROVE  ServerTyped'
  <1> DEFINE e == [req[r] EXCEPT !.phase = "open", !.user = user, !.live = L]
  <1>1. /\ req[r] \in Request0 /\ req[r].token <= Len(tokens) /\ Len(tokens) \in Nat
        /\ req[r].issued <= Len(tokens) /\ user \in User
    BY DEF ServerTyped, RequestsTyped, RequestTyped
  <1>2. e = [req[r] EXCEPT !.phase = "open", !.user = user, !.live = L]
    OBVIOUS
  <1>3. req' = [req EXCEPT ![r] = e] /\ UNCHANGED <<user, tokens, links>>
    BY DEF Open
  <1> HIDE DEF e
  <1>6. RequestKept(e, req[r])
    BY <1>1, <1>2, RequestOpened
  <1>4. RequestTyped(e, Len(tokens))
    BY <1>1, <1>6 DEF RequestTyped, RequestKept
  <1>5. RequestsTyped(req', Len(tokens))
    BY <1>3, <1>4, SlotTyped
  <1> QED
    BY <1>3, <1>5 DEF ServerTyped

\* A request is rejected.
LEMMA RejectTyped ==
    ASSUME ServerTyped, NEW r \in Requests, NEW a \in Answers, Reject(r, a)
    PROVE  ServerTyped'
  <1>1. RequestsTyped(req', Len(tokens))
    BY BareAnswerTyped DEF Reject
  <1> QED
    BY <1>1 DEF Reject, ServerTyped

\* A row is appended.
LEMMA AppendTyped ==
    ASSUME ServerTyped, NEW rows \in Seq(Token), Len(rows) = Len(tokens),
           NEW child \in Token, tokens' = Append(rows, child), NEW n, n = Len(tokens) + 1,
           n <= MaxTokens, NEW r \in Requests, AnswerWith(r, "ok", n),
           user' \in User, links' \in [Links -> LinkStates]
    PROVE  ServerTyped' /\ Len(tokens) <= Len(tokens')
  <1>1. tokens' \in Seq(Token) /\ Len(tokens') = n
    BY AppendProperties
  <1>2. n \in Nat /\ n \in 0..MaxTokens /\ Len(tokens) <= n
    BY RowsTyped, AuthAssumption
  <1>3. RequestsTyped(req', n)
    BY <1>2, AnswerTyped DEF Answers
  <1> QED
    BY <1>1, <1>2, <1>3 DEF ServerTyped

\* A token that is issued.
LEMMA NewTokenTyped ==
    ASSUME ServerTyped, NEW r \in Requests, NEW s \in 1..MaxTokens, NEW era \in 0..MaxPassword,
           NEW c \in BOOLEAN
    PROVE  /\ NewToken(r, s, era, c) \in Token
           /\ \A b \in BOOLEAN : [NewToken(r, s, era, c) EXCEPT !.clean = b] \in Token
  <1>1. NewToken(r, s, era, c) \in Token
    BY AuthAssumption DEF NewToken, Token, TokenStates, Holders
  <1> QED
    BY <1>1 DEF Token

\* A sign-in issues a token.
LEMMA SignInTyped ==
    ASSUME ServerTyped, NEW r \in Requests, NEW era \in 0..MaxPassword, IssueAndCommit(r, era),
           user' \in User, links' \in [Links -> LinkStates]
    PROVE  ServerTyped' /\ Len(tokens) <= Len(tokens')
  <1> DEFINE n == Len(tokens) + 1
             b == era = user'.password /\ ~ResetUnderWay(r)
             child == [NewToken(r, n, era, TRUE) EXCEPT !.clean = b]
  <1>1. n \in 1..MaxTokens /\ n <= MaxTokens
    BY RowsTyped, AuthAssumption DEF IssueAndCommit
  <1>2. b \in BOOLEAN
    OBVIOUS
  <1>3. tokens' = Append(tokens, child) /\ AnswerWith(r, "ok", n)
    BY DEF IssueAndCommit
  <1> HIDE DEF b
  <1>4. child \in Token
    BY <1>1, <1>2, NewTokenTyped
  <1>5. tokens \in Seq(Token)
    BY DEF ServerTyped
  <1> HIDE DEF child, n
  <1> QED
    BY <1>1, <1>3, <1>4, <1>5, AppendTyped DEF n

\* Links and the account, as the steps of the server leave them.
LEMMA UserEdits ==
    ASSUME NEW u \in User
    PROVE  /\ [u EXCEPT !.verified = TRUE] \in User
           /\ [u EXCEPT !.google = TRUE, !.verified = TRUE] \in User
           /\ [u EXCEPT !.exists = TRUE, !.google = TRUE] \in User
           /\ \A v \in BOOLEAN : [u EXCEPT !.verified = v] \in User
           /\ \A n \in 0..MaxPassword :
                 /\ [u EXCEPT !.password = n] \in User
                 /\ [u EXCEPT !.exists = TRUE, !.local = TRUE, !.password = n] \in User
  BY DEF User

\* A link changes its state.
LEMMA LinkEdits ==
    ASSUME ServerTyped, NEW l, NEW s \in LinkStates
    PROVE  [links EXCEPT ![l] = s] \in [Links -> LinkStates]
  BY DEF ServerTyped

\* The signing in of all kinds.
LEMMA SigningInTyped ==
    ASSUME Typed, NEW r \in Requests,
           \/ RegisterCheck(r) \/ RegisterCommit(r) \/ LoginCheck(r) \/ LoginCommit(r)
           \/ GoogleCommit(r)
    PROVE  ServerTyped' /\ Len(tokens) <= Len(tokens')
  <1>1. /\ ServerTyped /\ user \in User /\ links \in [Links -> LinkStates]
        /\ Len(tokens) \in Nat
        /\ req[r].user \in User /\ req[r].user.password \in 0..MaxPassword
    <2>1. ServerTyped
      BY DEF Typed
    <2>2. req[r].user \in User
      BY <2>1 DEF ServerTyped, RequestsTyped, RequestTyped, Request0
    <2>3. req[r].user.password \in 0..MaxPassword
      BY <2>2 DEF User
    <2> QED
      BY <2>1, <2>2, <2>3, RowsTyped DEF ServerTyped
  <1>2. ASSUME NEW a \in Answers, Reject(r, a)
        PROVE  ServerTyped' /\ Len(tokens) <= Len(tokens')
    BY <1>1, <1>2, RejectTyped DEF Reject
  <1>3. CASE Open(r, {})
    <2>1. ServerTyped'
      BY <1>1, <1>3, OpenTyped
    <2> QED
      BY <1>1, <1>3, <2>1 DEF Open
  <1>4. CASE RegisterCommit(r) /\ ~user.exists
    <2>1. \E l \in Links : links' = [links EXCEPT ![l] = "sent"]
      BY <1>4 DEF RegisterCommit
    <2>2. links' \in [Links -> LinkStates]
      BY <1>1, <2>1, LinkEdits DEF LinkStates
    <2>3. 1 \in 0..MaxPassword
      BY PasswordBound
    <2>4. user' \in User
      BY <1>4, <2>3, NoUserTyped, UserEdits DEF RegisterCommit
    <2>5. IssueAndCommit(r, 1)
      BY <1>4 DEF RegisterCommit
    <2> QED
      BY <1>1, <2>2, <2>3, <2>4, <2>5, SignInTyped
  <1>5. CASE LoginCommit(r)
    BY <1>1, <1>5, SignInTyped DEF LoginCommit
  <1>6. CASE GoogleCommit(r) /\ ~Reject(r, "error")
    <2> DEFINE seen == req[r].user
    <2>1. /\ user' = IF ~seen.exists
                     THEN [seen EXCEPT !.exists = TRUE, !.google = TRUE]
                     ELSE IF seen.google THEN user
                     ELSE [user EXCEPT !.google = TRUE, !.verified = TRUE]
          /\ UNCHANGED links
          /\ IssueAndCommit(r, seen.password)
      BY <1>6 DEF GoogleCommit
    <2>2. user' \in User
      BY <1>1, <2>1, UserEdits
    <2> QED
      BY <1>1, <2>1, <2>2, SignInTyped
  <1> QED
    BY <1>2, <1>3, <1>4, <1>5, <1>6
       DEF RegisterCheck, RegisterCommit, LoginCheck, Answers

\* The checks of a Google sign-in.
LEMMA GoogleCheckTyped ==
    ASSUME Typed, NEW r \in Requests, NEW l \in Links, NEW v \in BOOLEAN, GoogleCheck(r, l, v)
    PROVE  ServerTyped' /\ Len(tokens) <= Len(tokens')
  <1>1. /\ ServerTyped /\ user \in User /\ Len(tokens) \in Nat
        /\ tokens \in Seq(Token) /\ Len(tokens) <= MaxTokens
    BY RowsTyped DEF Typed, ServerTyped
  <1>2. CASE Reject(r, "unauthorized")
    <2>1. ServerTyped'
      BY <1>1, <1>2, RejectTyped DEF Answers
    <2> QED
      BY <1>1, <1>2, <2>1 DEF Reject
  <1>3. ASSUME links' = [links EXCEPT ![l] = "used"], UNCHANGED <<user, tokens>>,
               RequestsTyped(req', Len(tokens))
        PROVE  ServerTyped' /\ Len(tokens) <= Len(tokens')
    <2>1. links' \in [Links -> LinkStates]
      BY <1>1, <1>3, LinkEdits DEF LinkStates
    <2> QED
      BY <1>1, <1>3, <2>1 DEF ServerTyped
  <1>4. ASSUME AnswerWith(r, "unauthorized", 0)
        PROVE  RequestsTyped(req', Len(tokens))
    BY <1>1, <1>4, BareAnswerTyped DEF Answers
  <1>5. ASSUME req' = [req EXCEPT ![r].phase = "open",
                          ![r].user = IF user.exists THEN user
                                      ELSE [NoUser EXCEPT !.verified = v]]
        PROVE  RequestsTyped(req', Len(tokens))
    <2> DEFINE seen == IF user.exists THEN user ELSE [NoUser EXCEPT !.verified = v]
               e == [req[r] EXCEPT !.phase = "open", !.user = seen]
    <2>1. seen \in User
      BY <1>1, NoUserTyped, UserEdits
    <2>2. req' = [req EXCEPT ![r] = e]
      BY <1>5
    <2>3. req[r] \in Request0 /\ req[r].token <= Len(tokens) /\ req[r].issued <= Len(tokens)
      BY <1>1 DEF ServerTyped, RequestsTyped, RequestTyped
    <2> HIDE DEF seen
    <2>4. e = [req[r] EXCEPT !.phase = "open", !.user = seen]
      OBVIOUS
    <2> HIDE DEF e
    <2>5. RequestKept(e, req[r])
      BY <2>1, <2>3, <2>4, RequestOpened
    <2>6. e \in Request0 /\ e.token = req[r].token /\ e.issued = req[r].issued
      BY <2>5 DEF RequestKept
    <2>7. RequestTyped(e, Len(tokens))
      BY <2>3, <2>6 DEF RequestTyped
    <2> QED
      BY <1>1, <2>2, <2>7, SlotTyped
  <1> QED
    BY <1>2, <1>3, <1>4, <1>5 DEF GoogleCheck

\* The steps of a refresh.
LEMMA RefreshTyped ==
    ASSUME Inv, Typed, NEW r \in Requests, RefreshCheck(r) \/ RefreshCommit(r)
    PROVE  ServerTyped' /\ Len(tokens) <= Len(tokens')
  <1>1. ServerTyped /\ Len(tokens) \in Nat
    BY RowsTyped DEF Typed
  <1>2. CASE Reject(r, "unauthorized")
    <2>1. ServerTyped'
      BY <1>1, <1>2, RejectTyped DEF Answers
    <2> QED
      BY <1>1, <1>2, <2>1 DEF Reject
  <1>3. CASE Open(r, {})
    <2>1. ServerTyped'
      BY <1>1, <1>3, OpenTyped
    <2> QED
      BY <1>1, <1>3, <2>1 DEF Open
  <1>4. CASE RefreshCommit(r)
    <2> DEFINE t == req[r].token
               n == Len(tokens) + 1
               child == NewToken(r, tokens[t].session, tokens[t].era, tokens[t].clean)
               e == [tokens[t] EXCEPT !.state = "rotated", !.next = n]
               rows == [tokens EXCEPT ![t] = e]
    <2>1. /\ tokens' = Append(rows, child) /\ n <= MaxTokens
          /\ AnswerWith(r, "ok", n) /\ UNCHANGED <<user, links>>
      BY <1>4 DEF RefreshCommit
    <2>2. t \in DOMAIN tokens /\ tokens[t] \in Token /\ t \in 1..Len(tokens)
      <3>1. t \in DOMAIN tokens
        BY <1>4 DEF RefreshCommit, At, Inv, Named
      <3> QED
        BY <1>1, <3>1, RowsTyped
    <2>3. /\ tokens[t].session \in 1..MaxTokens /\ tokens[t].era \in 0..MaxPassword
          /\ tokens[t].clean \in BOOLEAN
      BY <2>2 DEF Token
    <2>4. child \in Token
      BY <1>1, <2>3, NewTokenTyped
    <2>5. n \in 0..MaxTokens
      BY <1>1, <2>1, AuthAssumption
    <2>6. e \in Token
      BY <2>2, <2>5 DEF Token, TokenStates
    <2> HIDE DEF e, n
    <2>7. rows \in Seq(Token) /\ Len(rows) = Len(tokens)
      BY <1>1, <2>2, <2>6, ExceptSeq DEF ServerTyped
    <2> HIDE DEF rows, child
    <2>8. user' \in User /\ links' \in [Links -> LinkStates]
      BY <1>1, <2>1 DEF ServerTyped
    <2> QED
      BY <1>1, <2>1, <2>4, <2>7, <2>8, AppendTyped DEF n
  <1> QED
    BY <1>2, <1>3, <1>4 DEF RefreshCheck

\* One row is changed.
LEMMA EditTyped ==
    ASSUME ServerTyped, NEW t \in DOMAIN tokens, NEW e \in Token,
           tokens' = [tokens EXCEPT ![t] = e]
    PROVE  tokens' \in Seq(Token) /\ Len(tokens') = Len(tokens)
  <1>1. t \in 1..Len(tokens)
    BY RowsTyped
  <1> QED
    BY <1>1, ExceptSeq DEF ServerTyped

\* The other requests that end with a bare answer.
LEMMA EndTyped ==
    ASSUME Inv, Typed, PasswordInv', NEW r \in Requests,
           LogoutToken(r) \/ ResetCommit(r) \/ VerifyEmail(r)
    PROVE  ServerTyped' /\ Len(tokens) <= Len(tokens')
  <1>1. ServerTyped /\ Len(tokens) \in Nat /\ 0 \in 0..MaxTokens /\ 0 <= Len(tokens)
    BY RowsTyped, AuthAssumption DEF Typed
  <1>2. CASE Reject(r, "unauthorized")
    <2>1. ServerTyped'
      BY <1>1, <1>2, RejectTyped DEF Answers
    <2> QED
      BY <1>1, <1>2, <2>1 DEF Reject
  <1>3. ASSUME AnswerWith(r, "ok", 0), tokens' \in Seq(Token), Len(tokens') = Len(tokens),
               user' \in User, links' \in [Links -> LinkStates]
        PROVE  ServerTyped' /\ Len(tokens) <= Len(tokens')
    <2>1. RequestsTyped(req', Len(tokens))
      BY <1>1, <1>3, BareAnswerTyped DEF Answers
    <2> QED
      BY <1>1, <1>3, <2>1 DEF ServerTyped
  <1>4. CASE LogoutToken(r)
    <2> DEFINE t == req[r].token
               s == IF tokens[t].state = "live" THEN "loggedOut" ELSE tokens[t].state
               e == [tokens[t] EXCEPT !.state = s]
    <2>1. tokens' = [tokens EXCEPT ![t] = e] /\ AnswerWith(r, "ok", 0) /\ UNCHANGED <<user, links>>
      BY <1>4 DEF LogoutToken
    <2>2. tokens' \in Seq(Token) /\ Len(tokens') = Len(tokens)
      <3>1. CASE t \in DOMAIN tokens
        <4>1. tokens[t] \in Token
          BY <1>1, <3>1, RowsTyped
        <4>2. e \in Token
          BY <4>1 DEF Token, TokenStates
        <4> HIDE DEF e, t
        <4> QED
          BY <1>1, <2>1, <3>1, <4>2, EditTyped
      <3>2. CASE t \notin DOMAIN tokens
        <4>1. tokens = [i \in DOMAIN tokens |-> tokens[i]] /\ tokens \in Seq(Token)
          BY <1>1 DEF ServerTyped
        <4> HIDE DEF e, t
        <4>2. tokens' = tokens
          BY <2>1, <3>2, <4>1
        <4> QED
          BY <4>1, <4>2
      <3> QED
        BY <3>1, <3>2
    <2>3. user' \in User /\ links' \in [Links -> LinkStates]
      BY <1>1, <2>1 DEF ServerTyped
    <2> QED
      BY <1>3, <2>1, <2>2, <2>3
  <1>5. CASE VerifyEmail(r) /\ ~Reject(r, "unauthorized")
    <2>1. /\ user' = [user EXCEPT !.verified = TRUE]
          /\ links' = [links EXCEPT ![req[r].link] = "used"]
          /\ AnswerWith(r, "ok", 0)
          /\ UNCHANGED tokens
      BY <1>5 DEF VerifyEmail
    <2>2. user' \in User /\ links' \in [Links -> LinkStates]
      BY <1>1, <2>1, UserEdits, LinkEdits DEF LinkStates, ServerTyped
    <2>3. tokens' \in Seq(Token) /\ Len(tokens') = Len(tokens)
      BY <1>1, <2>1 DEF ServerTyped
    <2> QED
      BY <1>3, <2>1, <2>2, <2>3
  <1>6. CASE ResetCommit(r)
    <2>1. /\ user' = [user EXCEPT !.password = @ + 1]
          /\ links' = [links EXCEPT ![req[r].link] = "used"]
          /\ tokens' = [t \in DOMAIN tokens |->
                           IF t \in Revoked(req[r].live) /\ Live(t)
                           THEN [tokens[t] EXCEPT !.state = "reset"] ELSE tokens[t]]
          /\ AnswerWith(r, "ok", 0)
      BY <1>6 DEF ResetCommit
    <2>2. links' \in [Links -> LinkStates]
      BY <1>1, <2>1, LinkEdits DEF LinkStates
    <2>3. tokens' \in Seq(Token) /\ Len(tokens') = Len(tokens)
      <3>1. \A t \in DOMAIN tokens :
               tokens[t] \in Token /\ [tokens[t] EXCEPT !.state = "reset"] \in Token
        <4>1. \A x \in Token : [x EXCEPT !.state = "reset"] \in Token
          BY DEF Token, TokenStates
        <4> QED
          BY <1>1, <4>1, RowsTyped
      <3>2. tokens' \in [1..Len(tokens) -> Token]
        BY <1>1, <2>1, <3>1, RowsTyped
      <3> QED
        BY <1>1, <3>2
    <2>4. user' \in User
      <3>1. user'.password <= MaxPassword
        <4>1. UsedResets' \subseteq ResetLinks
          BY DEF UsedResets, ResetLinks
        <4>2. user'.password = (IF user'.local THEN 1 ELSE 0) + Cardinality(UsedResets')
          BY DEF PasswordInv, Accounted, OnePasswordPerLink, UsedResets
        <4> QED
          BY <4>1, <4>2, PasswordBound
      <3>2. user \in User /\ user.password \in Nat
        BY <1>1, PasswordBound DEF ServerTyped, User
      <3>3. user.password + 1 <= MaxPassword
        BY <2>1, <3>1, <3>2 DEF User
      <3>4. user.password + 1 \in 0..MaxPassword
        BY <3>2, <3>3, PasswordBound
      <3> QED
        BY <2>1, <3>2, <3>4, UserEdits
    <2> QED
      BY <1>3, <2>1, <2>2, <2>3, <2>4
  <1> QED
    BY <1>2, <1>4, <1>5, <1>6

\* The check of a reset.
LEMMA ResetCheckTyped ==
    ASSUME Typed, NEW r \in Requests, ResetCheck(r)
    PROVE  ServerTyped' /\ Len(tokens) <= Len(tokens')
  <1>1. ServerTyped /\ Len(tokens) \in Nat /\ LiveTokens \in SUBSET (1..MaxTokens)
    BY RowsTyped DEF Typed, LiveTokens
  <1>2. CASE Reject(r, "unauthorized")
    <2>1. ServerTyped'
      BY <1>1, <1>2, RejectTyped DEF Answers
    <2> QED
      BY <1>1, <1>2, <2>1 DEF Reject
  <1>3. CASE Open(r, LiveTokens)
    <2>1. ServerTyped'
      BY <1>1, <1>3, OpenTyped
    <2> QED
      BY <1>1, <1>3, <2>1 DEF Open
  <1> QED
    BY <1>2, <1>3 DEF ResetCheck

\* Every step of the server.
LEMMA ServerStepTyped ==
    ASSUME Inv, Typed, PasswordInv', NEW r \in Requests, Server(r) \/ ServerFailure(r)
    PROVE  Typed'
  <1>1. UNCHANGED <<tab, calls, leaving>>
    BY DEF Server, ServerFailure, clientVars
  <1>2. ServerTyped' /\ Len(tokens) <= Len(tokens')
    <2>1. CASE ServerFailure(r)
      <3>1. ServerTyped /\ Reject(r, "error") /\ Len(tokens) \in Nat
        BY <2>1, RowsTyped DEF ServerFailure, ServerFails, Typed
      <3>2. ServerTyped'
        BY <3>1, RejectTyped DEF Answers
      <3> QED
        BY <3>1, <3>2 DEF Reject
    <2>2. CASE Server(r)
      BY <2>2, SigningInTyped, GoogleCheckTyped, RefreshTyped, ResetCheckTyped, EndTyped
         DEF Server, ServerStep
    <2> QED
      BY <2>1, <2>2
  <1>3. Len(tokens) \in Nat /\ Len(tokens') \in Nat
    BY <1>2 DEF Typed, ServerTyped
  <1>4. TabTyped'
    BY <1>1, <1>2, <1>3 DEF Typed, TabTyped, Tab
  <1> QED
    BY <1>2, <1>4 DEF Typed

\* A tab the client may leave.
TabMay(t) == t \in Tab /\ t.stored <= Len(tokens) /\ t.leavingWith <= Len(tokens)

CallRecord == [phase : CallPhases, accepted : BOOLEAN]

\* The states that the tab's actions give it.
LEMMA TabEdits ==
    ASSUME Typed
    PROVE  /\ TabMay(tab) /\ TabMay(SignedOut)
           /\ \A n \in DOMAIN tokens : TabMay(Holding(n))
           /\ \A t : TabMay(t) =>
                  /\ TabMay([t EXCEPT !.shared = TRUE])
                  /\ TabMay([t EXCEPT !.shared = FALSE])
                  /\ TabMay([t EXCEPT !.checked = TRUE])
                  /\ TabMay([t EXCEPT !.signedIn = TRUE])
                  /\ TabMay([t EXCEPT !.signedIn = TRUE, !.checked = TRUE])
                  /\ TabMay([t EXCEPT !.leavingWith = 0])
                  /\ TabMay([t EXCEPT !.shared = FALSE, !.leavingWith = 0])
                  /\ TabMay([t EXCEPT !.leavingWith = tab.stored])
                  /\ TabMay([t EXCEPT !.access = "expired"])
  <1>1. /\ Len(tokens) \in Nat /\ DOMAIN tokens = 1..Len(tokens)
        /\ DOMAIN tokens \subseteq 1..MaxTokens /\ 0 \in 0..MaxTokens
        /\ tab \in Tab /\ tab.stored <= Len(tokens) /\ tab.leavingWith <= Len(tokens)
    BY RowsTyped, AuthAssumption DEF Typed, TabTyped
  <1>2. TabMay(SignedOut)
    <2>1. Cleared \in Tab /\ Cleared.stored = 0 /\ Cleared.leavingWith = tab.leavingWith
      BY <1>1 DEF Cleared, Tab
    <2>2. SignedOut \in Tab /\ SignedOut.stored = 0 /\ SignedOut.leavingWith = tab.leavingWith
      BY <2>1 DEF SignedOut, Tab
    <2> QED
      BY <1>1, <2>2 DEF TabMay
  <1>3. ASSUME NEW n \in DOMAIN tokens
        PROVE  TabMay(Holding(n))
    <2>1. n \in 0..MaxTokens /\ n <= Len(tokens)
      BY <1>1
    <2>2. /\ Holding(n) \in Tab /\ Holding(n).stored = n
          /\ Holding(n).leavingWith = tab.leavingWith
      BY <1>1, <2>1 DEF Holding, Tab
    <2> QED
      BY <1>1, <2>1, <2>2 DEF TabMay
  <1>4. ASSUME NEW t, TabMay(t)
        PROVE  /\ TabMay([t EXCEPT !.shared = TRUE])
               /\ TabMay([t EXCEPT !.shared = FALSE])
               /\ TabMay([t EXCEPT !.checked = TRUE])
               /\ TabMay([t EXCEPT !.signedIn = TRUE])
               /\ TabMay([t EXCEPT !.signedIn = TRUE, !.checked = TRUE])
               /\ TabMay([t EXCEPT !.leavingWith = 0])
               /\ TabMay([t EXCEPT !.shared = FALSE, !.leavingWith = 0])
               /\ TabMay([t EXCEPT !.leavingWith = tab.stored])
               /\ TabMay([t EXCEPT !.access = "expired"])
    <2>1. tab.stored \in 0..MaxTokens
      BY <1>1 DEF Tab
    <2>2. t \in Tab /\ t.stored <= Len(tokens) /\ t.leavingWith <= Len(tokens)
      BY <1>4 DEF TabMay
    <2>3. /\ [t EXCEPT !.shared = TRUE] \in Tab
          /\ [t EXCEPT !.shared = TRUE].stored = t.stored
          /\ [t EXCEPT !.shared = TRUE].leavingWith = t.leavingWith
      BY <1>1, <2>1, <2>2 DEF Tab
    <2>4. /\ [t EXCEPT !.shared = FALSE] \in Tab
          /\ [t EXCEPT !.shared = FALSE].stored = t.stored
          /\ [t EXCEPT !.shared = FALSE].leavingWith = t.leavingWith
      BY <1>1, <2>1, <2>2 DEF Tab
    <2>5. /\ [t EXCEPT !.checked = TRUE] \in Tab
          /\ [t EXCEPT !.checked = TRUE].stored = t.stored
          /\ [t EXCEPT !.checked = TRUE].leavingWith = t.leavingWith
      BY <1>1, <2>1, <2>2 DEF Tab
    <2>6. /\ [t EXCEPT !.signedIn = TRUE] \in Tab
          /\ [t EXCEPT !.signedIn = TRUE].stored = t.stored
          /\ [t EXCEPT !.signedIn = TRUE].leavingWith = t.leavingWith
      BY <1>1, <2>1, <2>2 DEF Tab
    <2>7. /\ [t EXCEPT !.signedIn = TRUE, !.checked = TRUE] \in Tab
          /\ [t EXCEPT !.signedIn = TRUE, !.checked = TRUE].stored = t.stored
          /\ [t EXCEPT !.signedIn = TRUE, !.checked = TRUE].leavingWith = t.leavingWith
      BY <1>1, <2>1, <2>2 DEF Tab
    <2>8. /\ [t EXCEPT !.leavingWith = 0] \in Tab
          /\ [t EXCEPT !.leavingWith = 0].stored = t.stored
          /\ [t EXCEPT !.leavingWith = 0].leavingWith = 0
      BY <1>1, <2>1, <2>2 DEF Tab
    <2>9. /\ [t EXCEPT !.shared = FALSE, !.leavingWith = 0] \in Tab
          /\ [t EXCEPT !.shared = FALSE, !.leavingWith = 0].stored = t.stored
          /\ [t EXCEPT !.shared = FALSE, !.leavingWith = 0].leavingWith = 0
      BY <1>1, <2>1, <2>2 DEF Tab
    <2>10. /\ [t EXCEPT !.leavingWith = tab.stored] \in Tab
          /\ [t EXCEPT !.leavingWith = tab.stored].stored = t.stored
          /\ [t EXCEPT !.leavingWith = tab.stored].leavingWith = tab.stored
      BY <1>1, <2>1, <2>2 DEF Tab
    <2>11. /\ [t EXCEPT !.access = "expired"] \in Tab
          /\ [t EXCEPT !.access = "expired"].stored = t.stored
          /\ [t EXCEPT !.access = "expired"].leavingWith = t.leavingWith
      BY <1>1, <2>1, <2>2 DEF Tab
    <2> QED
      BY <1>1, <2>1, <2>2, <2>3, <2>4, <2>5, <2>6, <2>7,
         <2>8, <2>9, <2>10, <2>11 DEF TabMay
  <1> QED
    BY <1>1, <1>2, <1>3, <1>4 DEF TabMay

\* The states of a call.
LEMMA CallEdits ==
    /\ Quiet \in CallRecord
    /\ \A ok \in BOOLEAN, p \in CallPhases : [phase |-> p, accepted |-> ok] \in CallRecord
    /\ \A q \in CallRecord :
          /\ [q EXCEPT !.phase = "waiting"] \in CallRecord
          /\ [q EXCEPT !.accepted = FALSE] \in CallRecord
  BY DEF Quiet, CallRecord, CallPhases

\* A step of the client, from what it leaves of each part.
LEMMA ClientTyped ==
    ASSUME Typed, tokens' \in Seq(Token), Len(tokens') = Len(tokens),
           UNCHANGED user, links' \in [Links -> LinkStates],
           RequestsTyped(req', Len(tokens)), TabMay(tab'),
           calls' \in [AllCalls -> CallRecord],
           leaving' \in {"no", "sent", "waiting", "resent"}
    PROVE  Typed'
  BY DEF Typed, ServerTyped, TabTyped, TabMay, CallRecord

\* The parts a step of the client leaves alone, and the slots and tokens it changes.
LEMMA ClientParts ==
    ASSUME Typed
    PROVE  /\ tokens \in Seq(Token) /\ links \in [Links -> LinkStates]
           /\ RequestsTyped(req, Len(tokens)) /\ TabMay(tab)
           /\ calls \in [AllCalls -> CallRecord]
           /\ leaving \in {"no", "sent", "waiting", "resent"}
           /\ tab.stored \in 0..MaxTokens /\ tab.leavingWith \in 0..MaxTokens
           /\ \A n \in DOMAIN tokens :
                 Received(n) \in Seq(Token) /\ Len(Received(n)) = Len(tokens)
  <1>1. ASSUME NEW n \in DOMAIN tokens
        PROVE  Received(n) \in Seq(Token) /\ Len(Received(n)) = Len(tokens)
    <2> DEFINE e == [tokens[n] EXCEPT !.holder = "tab"]
    <2>1. tokens[n] \in Token /\ n \in 1..Len(tokens) /\ tokens \in Seq(Token)
      BY RowsTyped DEF Typed, ServerTyped
    <2>2. e \in Token
      BY <2>1 DEF Token, Holders
    <2>3. Received(n) = [tokens EXCEPT ![n] = e]
      BY DEF Received
    <2> HIDE DEF e
    <2> QED
      BY <2>1, <2>2, <2>3, ExceptSeq
  <1> QED
    BY <1>1 DEF Typed, ServerTyped, TabTyped, TabMay, CallRecord, Tab

\* What the tab puts into its slots.
LEMMA SlotIdle ==
    ASSUME Typed
    PROVE  /\ RequestTyped(Idle, Len(tokens))
           /\ \A op \in Ops \cup {"none"} : RequestTyped(Request(op, 0), Len(tokens))
           /\ \A op \in Ops : RequestTyped(Request(op, tab.stored), Len(tokens))
  <1>1. /\ Len(tokens) \in Nat /\ 0 \in 0..MaxTokens
        /\ tab.stored \in 0..MaxTokens /\ tab.stored <= Len(tokens)
    BY RowsTyped, AuthAssumption DEF Typed, TabTyped, Tab
  <1> QED
    BY <1>1, IdleTyped, SentTyped

\* The refresh that is shared.
LEMMA JoinTyped ==
    ASSUME Typed, NEW t, JoinRefresh(t), TabMay(t),
           calls' \in [AllCalls -> CallRecord],
           leaving' \in {"no", "sent", "waiting", "resent"}
    PROVE  Typed'
  <1>1. CASE tab' = t /\ UNCHANGED serverVars
    BY <1>1, ClientParts, ClientTyped DEF serverVars
  <1>2. CASE /\ Send(Refreshing, "refresh", tab.stored)
             /\ tab' = [t EXCEPT !.shared = TRUE]
             /\ UNCHANGED <<user, tokens, links>>
    <2>1. RequestsTyped(req', Len(tokens))
      BY <1>2, SlotIdle, SlotTyped, ClientAssumption DEF Send, Ops, Typed
    <2>2. TabMay(tab')
      BY <1>2, TabEdits
    <2> QED
      BY <1>2, <2>1, <2>2, ClientParts, ClientTyped
  <1> QED
    BY <1>1, <1>2 DEF JoinRefresh

\* The page loads.
LEMMA InitializeTyped ==
    ASSUME Typed, Initialize
    PROVE  Typed'
  <1>1. TabMay(tab')
    <2>1. TabMay(tab)
      BY ClientParts
    <2> QED
      BY <2>1 DEF Initialize, TabMay, Tab
  <1>2. RequestsTyped(req', Len(tokens)) /\ UNCHANGED <<user, tokens, links>>
    <2>1. CASE UNCHANGED serverVars
      BY <2>1, ClientParts DEF serverVars
    <2>2. CASE Send(Refreshing, "refresh", tab.stored) /\ UNCHANGED <<user, tokens, links>>
      BY <2>2, SlotIdle, SlotTyped, ClientAssumption DEF Send, Ops, Typed
    <2> QED
      BY <2>1, <2>2 DEF Initialize
  <1> QED
    BY <1>1, <1>2, ClientParts, ClientTyped DEF Initialize

\* The answer to the refresh of a page load.
LEMMA RestoreTyped ==
    ASSUME Inv, Typed, Restored \/ RestoreFails
    PROVE  Typed'
  <1>1. RequestsTyped(req', Len(tokens))
    <2>1. req' = [req EXCEPT ![Refreshing] = Idle] /\ Refreshing \in Requests
      BY ClientAssumption DEF Restored, RestoreFails
    <2> QED
      BY <2>1, SlotIdle, SlotTyped DEF Typed
  <1>2. CASE Restored
    <2>1. req[Refreshing].issued \in DOMAIN tokens
      BY <1>2, ClientAssumption DEF Restored, Answered, Inv, Named
    <2>2. /\ TabMay(tab')
          /\ tokens' \in Seq(Token) /\ Len(tokens') = Len(tokens)
      BY <1>2, <2>1, TabEdits, ClientParts DEF Restored
    <2>3. calls' \in [AllCalls -> CallRecord]
      BY <1>2, ClientParts, CallEdits DEF Restored, CallPhases
    <2> QED
      BY <1>1, <1>2, <2>2, <2>3, ClientParts, ClientTyped DEF Restored
  <1>3. CASE RestoreFails
    <2>1. TabMay(tab')
      BY <1>3, TabEdits DEF RestoreFails
    <2> QED
      BY <1>1, <1>3, <2>1, ClientParts, ClientTyped DEF RestoreFails
  <1> QED
    BY <1>2, <1>3

\* The answer to the shared refresh.
LEMMA RefreshedTyped ==
    ASSUME Inv, Typed, Refreshed
    PROVE  Typed'
  <1>1. req[Refreshing].issued \in DOMAIN tokens /\ Refreshing \in Requests /\ Form \in Requests
    BY ClientAssumption DEF Refreshed, Answered, Inv, Named
  <1>2. tokens' \in Seq(Token) /\ Len(tokens') = Len(tokens)
    BY <1>1, ClientParts DEF Refreshed
  <1>3. TabMay(tab')
    BY <1>1, TabEdits DEF Refreshed, Renewed
  <1>4. calls' \in [AllCalls -> CallRecord]
    BY ClientParts, CallEdits DEF Refreshed, CallPhases
  <1>5. leaving' \in {"no", "sent", "waiting", "resent"}
    BY ClientParts DEF Refreshed
  <1>6. RequestsTyped(req', Len(tokens))
    <2> DEFINE q == Request("logout", tab.leavingWith)
               kept == [req EXCEPT ![Refreshing] = Idle]
    <2>1. \/ req' = [req EXCEPT ![Refreshing] = Idle, ![Form] = q]
          \/ req' = [req EXCEPT ![Refreshing] = Idle]
      BY DEF Refreshed
    <2>2. RequestTyped(q, Len(tokens)) /\ RequestTyped(Idle, Len(tokens))
      <3>1. tab.leavingWith <= Len(tokens)
        BY DEF Typed, TabTyped
      <3> QED
        BY <3>1, SlotIdle, ClientParts, SentTyped, RowsTyped DEF Typed, Ops
    <2> HIDE DEF q
    <2>3. RequestsTyped(req, Len(tokens))
      BY ClientParts
    <2> QED
      BY <1>1, <2>1, <2>2, <2>3 DEF RequestsTyped
  <1> QED
    BY <1>2, <1>3, <1>4, <1>5, <1>6, ClientParts, ClientTyped DEF Refreshed

\* The shared refresh fails.
LEMMA RefreshFailsTyped ==
    ASSUME Typed, RefreshFails
    PROVE  Typed'
  <1>1. RequestsTyped(req', Len(tokens))
    <2>1. req' = [req EXCEPT ![Refreshing] = Idle] /\ Refreshing \in Requests
      BY ClientAssumption DEF RefreshFails
    <2> QED
      BY <2>1, SlotIdle, SlotTyped DEF Typed
  <1>2. TabMay(tab')
    <2> DEFINE t == [SignedOut EXCEPT !.shared = FALSE, !.leavingWith = 0]
    <2>1. TabMay(t)
      BY TabEdits
    <2>2. tab' = IF Me \in Waiting THEN [t EXCEPT !.checked = TRUE] ELSE t
      BY DEF RefreshFails
    <2> HIDE DEF t
    <2> QED
      BY <2>1, <2>2, TabEdits
  <1>3. calls' \in [AllCalls -> CallRecord]
    BY ClientParts, CallEdits DEF RefreshFails
  <1>4. leaving' \in {"no", "sent", "waiting", "resent"}
    BY ClientParts DEF RefreshFails
  <1> QED
    BY <1>1, <1>2, <1>3, <1>4, ClientParts, ClientTyped DEF RefreshFails

\* A call goes on.
LEMMA CallTyped ==
    ASSUME Typed, NEW c \in AllCalls, CallStep(c)
    PROVE  Typed'
  <1>1. TabMay(AfterCall(c, TRUE)) /\ TabMay(AfterCall(c, FALSE))
    BY TabEdits DEF AfterCall
  <1>2. [calls EXCEPT ![c] = Quiet] \in [AllCalls -> CallRecord]
    BY ClientParts, CallEdits
  <1>3. ASSUME calls' = [calls EXCEPT ![c] = Quiet], TabMay(tab'),
               UNCHANGED <<serverVars, leaving>>
        PROVE  Typed'
    BY <1>2, <1>3, ClientParts, ClientTyped DEF serverVars
  <1>4. CASE CallSucceeds(c) \/ CallFails(c) \/ CallGivesUp(c)
    BY <1>1, <1>3, <1>4 DEF CallSucceeds, CallFails, CallGivesUp
  <1>5. CASE CallRejected(c)
    <2> DEFINE q == [calls[c] EXCEPT !.phase = "waiting"]
    <2>1. q \in CallRecord
      BY ClientParts, CallEdits
    <2>2. calls' = [calls EXCEPT ![c] = q] /\ JoinRefresh(tab) /\ UNCHANGED leaving
      BY <1>5 DEF CallRejected
    <2> HIDE DEF q
    <2>3. calls' \in [AllCalls -> CallRecord]
      BY <2>1, <2>2, ClientParts
    <2> QED
      BY <2>2, <2>3, ClientParts, JoinTyped
  <1> QED
    BY <1>4, <1>5 DEF CallStep

\* A call starts.
LEMMA StartTyped ==
    ASSUME Typed, NEW c \in Calls, StartCall(c)
    PROVE  Typed'
  <1>1. Launched \in CallRecord
    BY CallEdits DEF Launched, Accepted, CallPhases
  <1>2. calls' \in [AllCalls -> CallRecord]
    BY <1>1, ClientParts DEF StartCall
  <1> QED
    BY <1>2, ClientParts, ClientTyped DEF StartCall, serverVars

\* The answers to the forms.
LEMMA FormsTyped ==
    ASSUME Inv, Typed, SubmitAnswered \/ LogoutAnswered \/ LogoutRejected
    PROVE  Typed'
  <1>1. Form \in Requests /\ Refreshing \in Requests
    BY ClientAssumption
  <1>2. CASE LogoutRejected
    <2> DEFINE q == Request("refresh", tab.stored)
    <2>1. \/ req' = [req EXCEPT ![Form] = Idle, ![Refreshing] = q]
          \/ req' = [req EXCEPT ![Form] = Idle]
      BY <1>2 DEF LogoutRejected
    <2>2. RequestTyped(q, Len(tokens)) /\ RequestTyped(Idle, Len(tokens))
      BY SlotIdle DEF Ops
    <2> HIDE DEF q
    <2>3. RequestsTyped(req, Len(tokens))
      BY ClientParts
    <2>4. RequestsTyped(req', Len(tokens))
      BY <1>1, <2>1, <2>2, <2>3 DEF RequestsTyped
    <2>5. TabMay(tab')
      BY <1>2, TabEdits DEF LogoutRejected
    <2> QED
      BY <1>2, <2>4, <2>5, ClientParts, ClientTyped DEF LogoutRejected
  <1>3. CASE SubmitAnswered \/ LogoutAnswered
    <2>1. req' = [req EXCEPT ![Form] = Idle]
      BY <1>3 DEF SubmitAnswered, LogoutAnswered
    <2>2. RequestsTyped(req', Len(tokens))
      BY <1>1, <2>1, SlotIdle, SlotTyped DEF Typed
    <2>3. CASE LogoutAnswered
      <3>1. TabMay(tab')
        BY <2>3, TabEdits DEF LogoutAnswered
      <3> QED
        BY <2>2, <2>3, <3>1, ClientParts, ClientTyped DEF LogoutAnswered
    <2>4. CASE SubmitAnswered /\ req[Form].answer = "ok"
      <3>1. req[Form].issued \in DOMAIN tokens
        BY <1>1, <2>4 DEF SubmitAnswered, Answered, Inv, Named
      <3>2. TabMay(tab')
        BY <2>4, <3>1, TabEdits DEF SubmitAnswered
      <3>3. tokens' \in Seq(Token) /\ Len(tokens') = Len(tokens)
        BY <2>4, <3>1, ClientParts DEF SubmitAnswered
      <3> QED
        BY <2>2, <2>4, <3>2, <3>3, ClientParts, ClientTyped DEF SubmitAnswered
    <2>5. CASE SubmitAnswered /\ req[Form].answer # "ok"
      BY <2>2, <2>5, ClientParts, ClientTyped DEF SubmitAnswered
    <2> QED
      BY <1>3, <2>3, <2>4, <2>5
  <1> QED
    BY <1>2, <1>3

\* A form is submitted.
LEMMA SubmitTyped ==
    ASSUME Typed, NEW op \in {"login", "register"}, Submit(op)
    PROVE  Typed'
  <1>1. RequestsTyped(req', Len(tokens))
    BY SlotIdle, SlotTyped, ClientAssumption DEF Submit, Send, Ops, Typed
  <1> QED
    BY <1>1, ClientParts, ClientTyped DEF Submit, clientVars

\* The user logs out.
LEMMA LogoutTyped ==
    ASSUME Typed, Logout
    PROVE  Typed'
  <1> DEFINE t == [tab EXCEPT !.leavingWith = tab.stored]
  <1>1. TabMay(t)
    BY ClientParts, TabEdits
  <1>2. CASE Accepted
    <2>1. RequestsTyped(req', Len(tokens))
      BY <1>2, SlotIdle, SlotTyped, ClientAssumption DEF Logout, Send, Ops, Typed
    <2>2. tab' = t /\ leaving' = "sent" /\ UNCHANGED <<user, tokens, links, calls>>
      BY <1>2 DEF Logout
    <2> HIDE DEF t
    <2> QED
      BY <1>1, <2>1, <2>2, ClientParts, ClientTyped
  <1>3. CASE ~Accepted
    <2>1. JoinRefresh(t) /\ leaving' = "waiting" /\ UNCHANGED calls
      BY <1>3 DEF Logout
    <2> HIDE DEF t
    <2> QED
      BY <1>1, <2>1, ClientParts, JoinTyped
  <1> QED
    BY <1>2, <1>3

\* The access token expires.
LEMMA AccessExpiresTyped ==
    ASSUME Typed, NEW S, AccessExpires(S)
    PROVE  Typed'
  <1>1. TabMay(tab')
    BY TabEdits DEF AccessExpires
  <1>2. calls' \in [AllCalls -> CallRecord]
    BY ClientParts, CallEdits DEF AccessExpires
  <1> QED
    BY <1>1, <1>2, ClientParts, ClientTyped DEF AccessExpires, serverVars

\* Links are sent and expire.
LEMMA LinksTyped ==
    ASSUME Typed, (\E l \in Links : SendTo(l)) \/ Expiry
    PROVE  Typed'
  <1>1. ASSUME NEW l \in Links, NEW s \in LinkStates, links' = [links EXCEPT ![l] = s],
               UNCHANGED <<user, tokens, req, tab, calls, leaving>>
        PROVE  Typed'
    <2>1. links' \in [Links -> LinkStates]
      BY <1>1, LinkEdits DEF Typed
    <2> QED
      BY <1>1, <2>1, ClientParts, ClientTyped
  <1>2. ASSUME NEW l \in Links, SendTo(l)
        PROVE  Typed'
    BY <1>1, <1>2 DEF SendTo, SendLink, clientVars, LinkStates
  <1>3. ASSUME NEW l \in Links, LinkExpires(l), UNCHANGED <<tab, calls, leaving>>
        PROVE  Typed'
    BY <1>1, <1>3 DEF LinkExpires, LinkStates
  <1>4. ASSUME NEW t \in DOMAIN tokens, TokenExpires(t), UNCHANGED <<tab, calls, leaving>>
        PROVE  Typed'
    <2> DEFINE e == [tokens[t] EXCEPT !.state = "expired"]
    <2>1. tokens[t] \in Token
      BY RowsTyped DEF Typed
    <2>2. e \in Token
      BY <2>1 DEF Token, TokenStates
    <2>3. tokens' = [tokens EXCEPT ![t] = e] /\ UNCHANGED <<user, links, req>>
      BY <1>4 DEF TokenExpires
    <2> HIDE DEF e
    <2>4. tokens' \in Seq(Token) /\ Len(tokens') = Len(tokens)
      BY <2>2, <2>3, EditTyped DEF Typed
    <2> QED
      BY <1>4, <2>3, <2>4, ClientParts, ClientTyped
  <1> QED
    BY <1>2, <1>3, <1>4 DEF Expiry

\* Another client requests.
LEMMA OtherTyped ==
    ASSUME Typed, NEW r \in Elsewhere, NEW op \in Ops, NEW t \in 0..MaxTokens,
           NEW l \in Links \cup {NoLink}, OtherRequest(r, op, t, l)
    PROVE  Typed'
  <1> DEFINE p == Request(op, t)
             q == [p EXCEPT !.link = l, !.by = "elsewhere"]
  <1>1. t <= Len(tokens) /\ Len(tokens) \in Nat
    <2>1. t \in DOMAIN tokens \/ t = 0
      BY DEF OtherRequest, Ops
    <2> QED
      BY <2>1, RowsTyped DEF Typed
  <1>2. RequestTyped(p, Len(tokens))
    BY <1>1, SentTyped
  <1>3. req' = [req EXCEPT ![r] = q] /\ UNCHANGED <<user, tokens, links, tab, calls, leaving>>
    BY DEF OtherRequest, clientVars
  <1>4. q = [p EXCEPT !.link = l, !.by = "elsewhere"]
    OBVIOUS
  <1> HIDE DEF p, q
  <1>5. RequestKept(q, p)
    BY <1>2, <1>4, RequestElsewhere DEF RequestTyped
  <1>6. RequestTyped(q, Len(tokens))
    BY <1>2, <1>5 DEF RequestTyped, RequestKept
  <1>7. RequestsTyped(req', Len(tokens))
    BY <1>3, <1>6, SlotTyped, ClientAssumption DEF Typed
  <1> QED
    BY <1>3, <1>7, ClientParts, ClientTyped

\* The slots when the tab gives requests up.
LEMMA DetachTyped ==
    ASSUME Typed, NEW R \in SUBSET (Requests \ Elsewhere), NEW rest, Detach(R, rest),
           \A r \in R : RequestTyped(rest[r], Len(tokens))
    PROVE  RequestsTyped(req', Len(tokens))
  <1>1. PICK q \in Around, S \in SUBSET R :
            req' = [r \in Requests |->
                       IF r \in R THEN rest[r]
                       ELSE IF r = q /\ S # {}
                       THEN [req[CHOOSE x \in S : TRUE] EXCEPT !.by = "nobody"]
                       ELSE req[r]]
    BY DEF Detach
  <1> DEFINE s == CHOOSE x \in S : TRUE
             moved == [req[s] EXCEPT !.by = "nobody"]
  <1>2. \A r \in Requests : RequestTyped(req[r], Len(tokens))
    BY ClientParts DEF RequestsTyped
  <1>3. S # {} => s \in Requests
    OBVIOUS
  <1>4. S # {} => RequestTyped(moved, Len(tokens))
    <2>1. moved = [req[s] EXCEPT !.by = "nobody"]
      OBVIOUS
    <2> HIDE DEF moved, s
    <2>2. ASSUME S # {}
          PROVE  RequestKept(moved, req[s])
      <3>1. req[s] \in Request0
        BY <1>2, <1>3, <2>2 DEF RequestTyped
      <3> QED
        BY <2>1, <3>1, RequestGivenUp
    <2> QED
      BY <1>2, <1>3, <2>2 DEF RequestTyped, RequestKept
  <1>5. req' = [r \in Requests |-> IF r \in R THEN rest[r]
                                   ELSE IF r = q /\ S # {} THEN moved ELSE req[r]]
    BY <1>1
  <1> HIDE DEF s, moved
  <1> QED
    BY <1>2, <1>4, <1>5 DEF RequestsTyped

\* A reload or a network error.
LEMMA LostTyped ==
    ASSUME Typed, Reload \/ (\E r \in {Refreshing, Form} : NetworkError(r))
    PROVE  Typed'
  <1>1. CASE Reload
    <2> DEFINE R == {Refreshing, Form}
    <2>1. R \in SUBSET (Requests \ Elsewhere)
      BY ClientAssumption
    <2>2. Detach(R, [x \in R |-> Idle])
      BY <1>1 DEF Reload
    <2> HIDE DEF R
    <2>3. RequestsTyped(req', Len(tokens))
      BY <2>1, <2>2, SlotIdle, DetachTyped
    <2>4. TabMay(tab')
      <3>1. tab.stored \in 0..MaxTokens /\ tab.stored <= Len(tokens) /\ 0 <= Len(tokens)
        BY RowsTyped DEF Typed, TabTyped, Tab
      <3>2. tab' = [Fresh EXCEPT !.stored = tab.stored]
        BY <1>1 DEF Reload
      <3>3. tab' \in Tab /\ tab'.stored = tab.stored /\ tab'.leavingWith = 0
        <4>1. Fresh \in Tab /\ Fresh.leavingWith = 0
          BY AuthAssumption DEF Tab, Fresh
        <4> QED
          BY <3>1, <3>2, <4>1 DEF Tab
      <3> QED
        BY <3>1, <3>3 DEF TabMay
    <2>5. calls' \in [AllCalls -> CallRecord]
      BY <1>1, CallEdits DEF Reload
    <2> QED
      BY <1>1, <2>3, <2>4, <2>5, ClientParts, ClientTyped DEF Reload
  <1>2. ASSUME NEW r \in {Refreshing, Form}, NetworkError(r)
        PROVE  Typed'
    <2> DEFINE p == Request(req[r].op, 0)
               q == [p EXCEPT !.phase = "answered", !.answer = "error"]
    <2>1. {r} \in SUBSET (Requests \ Elsewhere)
      BY ClientAssumption
    <2>2. RequestTyped(p, Len(tokens))
      <3>1. req[r].op \in Ops \cup {"none"}
        BY <2>1, ClientParts DEF RequestsTyped, RequestTyped, Request0
      <3> QED
        BY <3>1, SlotIdle
    <2>3. Detach({r}, [x \in {r} |-> q])
      BY <1>2 DEF NetworkError
    <2> HIDE DEF p
    <2>4. RequestTyped(q, Len(tokens))
      BY <2>2 DEF RequestTyped, Request0, Answers
    <2> HIDE DEF q
    <2>5. RequestsTyped(req', Len(tokens))
      BY <2>1, <2>3, <2>4, DetachTyped
    <2> QED
      BY <1>2, <2>5, ClientParts, ClientTyped DEF NetworkError
  <1> QED
    BY <1>1, <1>2

\* The types hold at first.
LEMMA InitTyped ==
    ASSUME Init
    PROVE  Typed
  <1>1. /\ user = NoUser /\ tokens = <<>> /\ links = [l \in Links |-> "unsent"]
        /\ req = [r \in Requests |-> Idle]
        /\ tab = Fresh /\ calls = [c \in AllCalls |-> Quiet] /\ leaving = "no"
    BY DEF Init, InitServer
  <1>2. tokens \in Seq(Token) /\ Len(tokens) = 0
    BY <1>1
  <1>3. RequestsTyped(req, Len(tokens))
    BY <1>1, <1>2, IdleTyped DEF RequestsTyped
  <1>4. ServerTyped
    BY <1>1, <1>2, <1>3, NoUserTyped, AuthAssumption DEF ServerTyped, LinkStates
  <1>5. TabTyped
    <2>1. calls \in [AllCalls -> [phase : CallPhases, accepted : BOOLEAN]]
      BY <1>1, CallEdits DEF CallRecord
    <2>2. tab \in Tab /\ tab.stored = 0 /\ tab.leavingWith = 0
      BY <1>1, AuthAssumption DEF Tab, Fresh
    <2> QED
      BY <1>1, <1>2, <2>1, <2>2 DEF TabTyped
  <1> QED
    BY <1>4, <1>5 DEF Typed

\* Every step keeps them.
LEMMA StepTyped ==
    ASSUME Inv, PasswordInv, Typed, [Next]_vars
    PROVE  Typed'
  <1>1. CASE \E r \in Requests : Server(r) \/ ServerFailure(r)
    BY <1>1, ServerPassword, ServerStepTyped
  <1>2. CASE (\E l \in Links : SendTo(l)) \/ Expiry
    BY <1>2, LinksTyped
  <1>3. CASE RefreshStep
    BY <1>3, InitializeTyped, RestoreTyped, RefreshedTyped, RefreshFailsTyped DEF RefreshStep
  <1>4. CASE FormStep
    BY <1>4, FormsTyped DEF FormStep
  <1>5. CASE \E c \in AllCalls : CallStep(c)
    BY <1>5, CallTyped
  <1>6. CASE \E c \in Calls : StartCall(c)
    BY <1>6, StartTyped
  <1>7. CASE \E op \in {"login", "register"} : Submit(op)
    BY <1>7, SubmitTyped
  <1>8. CASE Logout
    BY <1>8, LogoutTyped
  <1>9. CASE \E S \in SUBSET AllCalls : AccessExpires(S)
    BY <1>9, AccessExpiresTyped
  <1>10. CASE Reload \/ (\E r \in {Refreshing, Form} : NetworkError(r))
    BY <1>10, LostTyped
  <1>11. CASE \E r \in Elsewhere, op \in Ops, t \in 0..MaxTokens, l \in Links \cup {NoLink} :
                 OtherRequest(r, op, t, l)
    BY <1>11, OtherTyped
  <1>12. CASE UNCHANGED vars
    BY <1>12, ClientParts, ClientTyped DEF vars, serverVars, clientVars
  <1> QED
    BY <1>1, <1>2, <1>3, <1>4, <1>5, <1>6, <1>7, <1>8, <1>9, <1>10, <1>11, <1>12 DEF Next

\* They hold in every reachable state.
LEMMA TypedInvariance == Spec => []Typed
  BY InitTyped, StepTyped, Invariance, PasswordInvariance, PTL DEF Spec

\* TypeOK of ClientSession: every row, request and call has its shape, the tokens that
\* requests and the tab name exist, and there are no more passwords than a registration
\* and the reset links can set.
THEOREM SessionTypes == Spec => []TypeOK
  <1>1. Typed => TypeOK
    BY RowsTyped DEF Typed, TypeOK, ServerTyped, TabTyped, RequestsTyped, RequestTyped
  <1> QED
    BY <1>1, TypedInvariance, PTL

-----------------------------------------------------------------------------
(* The steps of the server as the tab sees them. *)

Pending(r) == req[r].phase \in {"sent", "open"}

IssuingOps == {"login", "register", "refresh", "google"}

\* A request ends: the tab gets its answer, and nobody else is followed.
Ends(r, a, n) ==
    /\ OnlyRequest(r)
    /\ req[r].by # "tab" => req'[r] = Idle
    /\ req[r].by = "tab" =>
           /\ req'[r].phase = "answered"
           /\ req'[r].answer = a
           /\ req'[r].issued = n
           /\ req'[r].op = req[r].op
           /\ req'[r].token = req[r].token
           /\ req'[r].by = "tab"

GoesOn(r) ==
    /\ OnlyRequest(r)
    /\ req'[r].phase = "open"
    /\ req'[r].op = req[r].op
    /\ req'[r].token = req[r].token
    /\ req'[r].by = req[r].by

\* No token is issued; only a logout ends a token as a logout does.
RowsKept(r) ==
    /\ DOMAIN tokens' = DOMAIN tokens
    /\ Len(tokens') = Len(tokens)
    /\ \A t \in DOMAIN tokens :
          /\ tokens'[t].holder = tokens[t].holder
          /\ tokens'[t].next = tokens[t].next
          /\ \/ tokens'[t].state = tokens[t].state
             \/ tokens'[t].state \in {"reset", "expired"}
             \/ /\ tokens'[t].state = "loggedOut"
                /\ t = req[r].token
                /\ req[r].op = "logout"

\* A token is issued, and a refresh exchanges its own for it.
RowIssued(r) ==
    LET n == Len(tokens) + 1
    IN  /\ DOMAIN tokens' = DOMAIN tokens \cup {n}
        /\ Len(tokens') = n
        /\ \A t \in DOMAIN tokens :
              /\ tokens'[t].holder = tokens[t].holder
              /\ \/ /\ tokens'[t].next = tokens[t].next
                    /\ tokens'[t].state = tokens[t].state
                 \/ /\ t = req[r].token
                    /\ req[r].op = "refresh"
                    /\ tokens'[t].next = n
                    /\ tokens'[t].state = "rotated"
        /\ tokens'[n].next = 0
        /\ tokens'[n].state = "live"
        /\ tokens'[n].holder = (IF req[r].by = "elsewhere" THEN "elsewhere" ELSE "nobody")

ServerMoves(r) ==
    /\ Pending(r)
    /\ \/ GoesOn(r) /\ UNCHANGED tokens
       \/ \E a \in Answers : /\ a # "ok" \/ req[r].op \notin IssuingOps
                             /\ Ends(r, a, 0)
                             /\ RowsKept(r)
       \/ /\ req[r].op \in IssuingOps
          /\ Ends(r, "ok", Len(tokens) + 1)
          /\ RowIssued(r)

\* An answer ends a request.
LEMMA AnswerEnds ==
    ASSUME Typed, NEW r \in Requests, NEW a, NEW n, AnswerWith(r, a, n)
    PROVE  Ends(r, a, n)
  <1> DEFINE e == [req[r] EXCEPT !.phase = "answered", !.answer = a, !.issued = n]
  <1>1. req[r] \in Request0 /\ DOMAIN req = Requests
    BY DEF Typed, ServerTyped, RequestsTyped, RequestTyped
  <1>2. /\ e.phase = "answered" /\ e.answer = a /\ e.issued = n
        /\ e.op = req[r].op /\ e.token = req[r].token /\ e.by = req[r].by
    BY <1>1 DEF Request0
  <1>3. req' = [req EXCEPT ![r] = IF req[r].by = "tab" THEN e ELSE Idle]
    BY DEF AnswerWith
  <1> HIDE DEF e
  <1> QED
    BY <1>1, <1>2, <1>3 DEF Ends, OnlyRequest

\* A transaction that opens changes no token.
LEMMA OpenGoesOn ==
    ASSUME Typed, NEW r \in Requests, NEW L, Open(r, L)
    PROVE  GoesOn(r) /\ UNCHANGED tokens
  <1>1. req[r] \in Request0 /\ DOMAIN req = Requests
    BY DEF Typed, ServerTyped, RequestsTyped, RequestTyped
  <1> QED
    BY <1>1 DEF Open, GoesOn, OnlyRequest, Request0

\* A rejection, as a move of the server.
LEMMA RejectMoves ==
    ASSUME Typed, NEW r \in Requests, NEW a \in Answers \ {"ok"}, Reject(r, a), Pending(r)
    PROVE  ServerMoves(r)
  <1>1. Ends(r, a, 0) /\ RowsKept(r)
    BY AnswerEnds DEF Reject, RowsKept
  <1> QED
    BY <1>1 DEF ServerMoves

\* A transaction that opens, as a move of the server.
LEMMA OpenMoves ==
    ASSUME Typed, NEW r \in Requests, NEW L, Open(r, L), Pending(r)
    PROVE  ServerMoves(r)
  BY OpenGoesOn DEF ServerMoves

\* An appended row beside rows that are kept.
LEMMA AppendedRow ==
    ASSUME Typed, NEW rows \in Seq(Token), Len(rows) = Len(tokens), NEW child \in Token,
           tokens' = Append(rows, child)
    PROVE  /\ DOMAIN tokens' = DOMAIN tokens \cup {Len(tokens) + 1}
           /\ Len(tokens') = Len(tokens) + 1
           /\ \A t \in DOMAIN tokens : tokens'[t] = rows[t]
           /\ tokens'[Len(tokens) + 1] = child
  <1>1. /\ tokens' \in Seq(Token) /\ Len(tokens') = Len(rows) + 1
        /\ \A t \in 1..Len(rows) : tokens'[t] = rows[t]
        /\ tokens'[Len(rows) + 1] = child
    BY AppendProperties
  <1>2. DOMAIN tokens = 1..Len(tokens) /\ Len(tokens) \in Nat
    BY RowsTyped DEF Typed
  <1> QED
    BY <1>1, <1>2

\* A sign-in, as a move of the server.
LEMMA SignInMoves ==
    ASSUME Typed, NEW r \in Requests, NEW era \in 0..MaxPassword, IssueAndCommit(r, era),
           Pending(r), req[r].op \in IssuingOps \ {"refresh"}
    PROVE  ServerMoves(r)
  <1> DEFINE n == Len(tokens) + 1
             b == era = user'.password /\ ~ResetUnderWay(r)
             child == [NewToken(r, n, era, TRUE) EXCEPT !.clean = b]
  <1>1. n \in 1..MaxTokens /\ n <= MaxTokens
    BY RowsTyped, AuthAssumption DEF IssueAndCommit, Typed
  <1>2. b \in BOOLEAN
    OBVIOUS
  <1>3. tokens' = Append(tokens, child) /\ AnswerWith(r, "ok", n)
    BY DEF IssueAndCommit
  <1>4. /\ child.next = 0 /\ child.state = "live"
        /\ child.holder = (IF req[r].by = "elsewhere" THEN "elsewhere" ELSE "nobody")
    BY DEF NewToken
  <1> HIDE DEF b
  <1>5. child \in Token
    BY <1>1, <1>2, NewTokenTyped DEF Typed
  <1> HIDE DEF child
  <1>6. /\ DOMAIN tokens' = DOMAIN tokens \cup {n} /\ Len(tokens') = n
        /\ \A t \in DOMAIN tokens : tokens'[t] = tokens[t]
        /\ tokens'[n] = child
    BY <1>3, <1>5, AppendedRow DEF Typed, ServerTyped
  <1>7. RowIssued(r)
    BY <1>4, <1>6 DEF RowIssued
  <1>8. Ends(r, "ok", n)
    BY <1>3, AnswerEnds
  <1> QED
    BY <1>7, <1>8 DEF ServerMoves

\* An exchange of tokens, as a move of the server.
LEMMA RefreshMoves ==
    ASSUME Inv, Typed, NEW r \in Requests, RefreshCommit(r)
    PROVE  ServerMoves(r)
  <1> DEFINE t == req[r].token
             n == Len(tokens) + 1
             child == NewToken(r, tokens[t].session, tokens[t].era, tokens[t].clean)
             e == [tokens[t] EXCEPT !.state = "rotated", !.next = n]
             rows == [tokens EXCEPT ![t] = e]
  <1>1. /\ tokens' = Append(rows, child) /\ n <= MaxTokens
        /\ AnswerWith(r, "ok", n)
        /\ req[r].op = "refresh" /\ Pending(r)
    BY DEF RefreshCommit, At, Pending
  <1>2. ServerTyped /\ Len(tokens) \in Nat /\ tokens \in Seq(Token)
    BY RowsTyped DEF Typed, ServerTyped
  <1>3. t \in DOMAIN tokens /\ tokens[t] \in Token /\ t \in 1..Len(tokens)
    <2>1. t \in DOMAIN tokens
      BY DEF RefreshCommit, At, Inv, Named
    <2> QED
      BY <1>2, <2>1, RowsTyped
  <1>4. child \in Token
    <2>1. /\ tokens[t].session \in 1..MaxTokens /\ tokens[t].era \in 0..MaxPassword
          /\ tokens[t].clean \in BOOLEAN
      BY <1>3 DEF Token
    <2> QED
      BY <1>2, <2>1, NewTokenTyped
  <1>5. /\ child.next = 0 /\ child.state = "live"
        /\ child.holder = (IF req[r].by = "elsewhere" THEN "elsewhere" ELSE "nobody")
    BY DEF NewToken
  <1>6. e \in Token /\ e.holder = tokens[t].holder /\ e.next = n /\ e.state = "rotated"
    <2>1. n \in 0..MaxTokens
      BY <1>1, <1>2, AuthAssumption
    <2> QED
      BY <1>3, <2>1 DEF Token, TokenStates
  <1> HIDE DEF e, n, child
  <1>7. /\ rows \in Seq(Token) /\ Len(rows) = Len(tokens)
        /\ \A x \in 1..Len(tokens) : rows[x] = IF x = t THEN e ELSE tokens[x]
    BY <1>2, <1>3, <1>6, ExceptSeq
  <1> HIDE DEF rows
  <1>8. /\ DOMAIN tokens' = DOMAIN tokens \cup {Len(tokens) + 1} /\ Len(tokens') = Len(tokens) + 1
        /\ \A x \in DOMAIN tokens : tokens'[x] = rows[x]
        /\ tokens'[Len(tokens) + 1] = child
    BY <1>1, <1>4, <1>7, AppendedRow
  <1>9. DOMAIN tokens = 1..Len(tokens)
    BY <1>2
  <1>10. RowIssued(r)
    BY <1>1, <1>5, <1>6, <1>7, <1>8, <1>9 DEF RowIssued, n
  <1>11. Ends(r, "ok", n)
    BY <1>1, AnswerEnds
  <1> QED
    BY <1>1, <1>10, <1>11 DEF ServerMoves, IssuingOps, n

\* A row that is changed without being exchanged.
LEMMA EndMoves ==
    ASSUME Inv, Typed, NEW r \in Requests,
           LogoutToken(r) \/ ResetCommit(r) \/ (VerifyEmail(r) /\ ~Reject(r, "unauthorized"))
    PROVE  ServerMoves(r)
  <1>1. /\ ServerTyped /\ tokens \in Seq(Token) /\ Len(tokens) \in Nat
        /\ DOMAIN tokens = 1..Len(tokens)
        /\ \A t \in DOMAIN tokens : tokens[t] \in Token
    BY RowsTyped DEF Typed, ServerTyped
  <1>2. Pending(r) /\ AnswerWith(r, "ok", 0) /\ req[r].op \notin IssuingOps
    BY DEF LogoutToken, ResetCommit, VerifyEmail, At, Pending, IssuingOps
  <1>3. CASE LogoutToken(r)
    <2> DEFINE t == req[r].token
               s == IF tokens[t].state = "live" THEN "loggedOut" ELSE tokens[t].state
               e == [tokens[t] EXCEPT !.state = s]
    <2>1. tokens' = [tokens EXCEPT ![t] = e] /\ req[r].op = "logout"
      BY <1>3 DEF LogoutToken, At
    <2>2. CASE t \in DOMAIN tokens
      <3>1. tokens[t] \in Token
        BY <1>1, <2>2
      <3>2. /\ e \in Token /\ e.holder = tokens[t].holder /\ e.next = tokens[t].next
            /\ e.state = "loggedOut" \/ e.state = tokens[t].state
        BY <3>1 DEF Token, TokenStates
      <3> HIDE DEF e
      <3>3. tokens' \in Seq(Token) /\ Len(tokens') = Len(tokens) /\ DOMAIN tokens' = DOMAIN tokens
        BY <1>1, <2>1, <2>2, <3>2, EditTyped
      <3>4. \A x \in DOMAIN tokens : tokens'[x] = IF x = t THEN e ELSE tokens[x]
        BY <2>1, <2>2
      <3>5. RowsKept(r)
        BY <2>1, <3>2, <3>3, <3>4 DEF RowsKept
      <3> QED
        BY <1>2, <3>5, AnswerEnds DEF ServerMoves, Answers
    <2>3. CASE t \notin DOMAIN tokens
      <3>1. tokens = [i \in DOMAIN tokens |-> tokens[i]]
        BY <1>1
      <3> HIDE DEF e, t
      <3>2. tokens' = tokens
        BY <2>1, <2>3, <3>1
      <3>3. RowsKept(r)
        BY <3>2 DEF RowsKept
      <3> QED
        BY <1>2, <3>3, AnswerEnds DEF ServerMoves, Answers
    <2> QED
      BY <2>2, <2>3
  <1>4. CASE ResetCommit(r)
    <2>1. tokens' = [t \in DOMAIN tokens |->
                        IF t \in Revoked(req[r].live) /\ Live(t)
                        THEN [tokens[t] EXCEPT !.state = "reset"] ELSE tokens[t]]
      BY <1>4 DEF ResetCommit
    <2>2. \A x \in Token : LET e == [x EXCEPT !.state = "reset"]
                           IN  e.holder = x.holder /\ e.next = x.next /\ e.state = "reset"
      BY DEF Token
    <2>3. DOMAIN tokens' = DOMAIN tokens /\ Len(tokens') = Len(tokens)
      BY <1>1, <2>1
    <2>4. RowsKept(r)
      BY <1>1, <2>1, <2>2, <2>3 DEF RowsKept
    <2> QED
      BY <1>2, <2>4, AnswerEnds DEF ServerMoves, Answers
  <1>5. CASE VerifyEmail(r) /\ ~Reject(r, "unauthorized")
    <2>1. RowsKept(r)
      BY <1>5 DEF VerifyEmail, RowsKept
    <2> QED
      BY <1>2, <2>1, AnswerEnds DEF ServerMoves, Answers
  <1> QED
    BY <1>3, <1>4, <1>5

\* A Google sign-in, as a move of the server.
LEMMA GoogleMoves ==
    ASSUME Typed, NEW r \in Requests, NEW l \in Links, NEW v \in BOOLEAN, GoogleCheck(r, l, v)
    PROVE  ServerMoves(r)
  <1>1. req[r] \in Request0 /\ DOMAIN req = Requests /\ Pending(r)
    BY DEF Typed, ServerTyped, RequestsTyped, RequestTyped, GoogleCheck, At, Pending
  <1>2. CASE Reject(r, "unauthorized")
    BY <1>1, <1>2, RejectMoves DEF Answers
  <1>3. CASE AnswerWith(r, "unauthorized", 0) /\ UNCHANGED tokens
    <2>1. Ends(r, "unauthorized", 0) /\ RowsKept(r)
      BY <1>3, AnswerEnds DEF RowsKept
    <2> QED
      BY <1>1, <2>1 DEF ServerMoves, Answers
  <1>4. ASSUME req' = [req EXCEPT ![r].phase = "open",
                          ![r].user = IF user.exists THEN user
                                      ELSE [NoUser EXCEPT !.verified = v]],
               UNCHANGED tokens
        PROVE  ServerMoves(r)
    <2> DEFINE seen == IF user.exists THEN user ELSE [NoUser EXCEPT !.verified = v]
    <2>1. req' = [req EXCEPT ![r].phase = "open", ![r].user = seen]
      BY <1>4
    <2> HIDE DEF seen
    <2>2. GoesOn(r)
      BY <1>1, <2>1 DEF GoesOn, OnlyRequest, Request0
    <2> QED
      BY <1>1, <1>4, <2>2 DEF ServerMoves
  <1> QED
    BY <1>2, <1>3, <1>4 DEF GoogleCheck

\* Every step of the server is one of these moves.
LEMMA ServerMove ==
    ASSUME Inv, Typed, NEW r \in Requests, Server(r) \/ ServerFailure(r)
    PROVE  ServerMoves(r)
  <1>1. CASE ServerFailure(r)
    <2>1. Reject(r, "error") /\ Pending(r)
      BY <1>1 DEF ServerFailure, ServerFails, Pending
    <2> QED
      BY <2>1, RejectMoves DEF Answers
  <1>2. CASE RegisterCheck(r) \/ LoginCheck(r) \/ RefreshCheck(r) \/ ResetCheck(r)
    <2>1. Pending(r)
      BY <1>2 DEF RegisterCheck, LoginCheck, RefreshCheck, ResetCheck, At, Pending
    <2>2. \/ Reject(r, "conflict") \/ Reject(r, "unauthorized")
          \/ Open(r, {}) \/ Open(r, LiveTokens)
      BY <1>2 DEF RegisterCheck, LoginCheck, RefreshCheck, ResetCheck
    <2> QED
      BY <2>1, <2>2, RejectMoves, OpenMoves DEF Answers
  <1>3. CASE RegisterCommit(r) \/ LoginCommit(r) \/ GoogleCommit(r)
    <2>1. Pending(r) /\ req[r].op \in IssuingOps \ {"refresh"}
      BY <1>3 DEF RegisterCommit, LoginCommit, GoogleCommit, At, Pending, IssuingOps
    <2>2. CASE Reject(r, "error")
      BY <2>1, <2>2, RejectMoves DEF Answers
    <2>3. ASSUME NEW era \in 0..MaxPassword, IssueAndCommit(r, era)
          PROVE  ServerMoves(r)
      BY <2>1, <2>3, SignInMoves
    <2>4. 1 \in 0..MaxPassword /\ req[r].user.password \in 0..MaxPassword
      <3>1. req[r].user \in User
        BY DEF Typed, ServerTyped, RequestsTyped, RequestTyped, Request0
      <3> QED
        BY <3>1, PasswordBound DEF User
    <2> QED
      BY <1>3, <2>2, <2>3, <2>4 DEF RegisterCommit, LoginCommit, GoogleCommit
  <1>4. CASE \E l \in Links, v \in BOOLEAN : GoogleCheck(r, l, v)
    BY <1>4, GoogleMoves
  <1>5. CASE RefreshCommit(r)
    BY <1>5, RefreshMoves
  <1>6. CASE LogoutToken(r) \/ ResetCommit(r) \/ VerifyEmail(r)
    <2>1. CASE Reject(r, "unauthorized") /\ VerifyEmail(r)
      BY <2>1, RejectMoves DEF VerifyEmail, At, Pending, Answers
    <2> QED
      BY <1>6, <2>1, EndMoves
  <1> QED
    BY <1>1, <1>2, <1>3, <1>4, <1>5, <1>6 DEF Server, ServerStep

-----------------------------------------------------------------------------
(* The page: one slot for the refresh and one for the forms, and until the *)
(* check of the session has ended only the page load.                      *)

Slots ==
    /\ req[Refreshing].phase # "idle" => req[Refreshing].by = "tab"
    /\ req[Form].phase # "idle" =>
           req[Form].by = "tab" /\ req[Form].op \in {"login", "register", "logout"}
    /\ \A r \in Elsewhere : req[r].by # "tab" /\ req[r].phase # "answered"

\* The load of the page up to the end of its check; only the page load's own call is
\* there before, and when it waits for a refresh then for the shared one.
Loading ==
    /\ ~tab.started => /\ ~tab.checked
                       /\ ~tab.shared
                       /\ calls[Me].phase = "idle"
                       /\ req[Refreshing].phase = "idle"
    /\ calls[Me].phase # "idle" => ~tab.checked
    /\ ~tab.checked => /\ ~tab.signedIn
                       /\ leaving = "no"
                       /\ req[Form].phase = "idle"
                       /\ \A c \in Calls : calls[c].phase = "idle"
    /\ calls[Me].phase # "idle" /\ req[Refreshing].phase # "idle" => tab.shared
    /\ calls[Me].phase # "idle" /\ tab.shared => calls[Me].phase = "waiting"

PageInv == Slots /\ Loading

\* The tab has two slots, and other clients have the rest.
LEMMA SlotsOf ==
    /\ Refreshing \in Requests /\ Form \in Requests /\ Refreshing # Form
    /\ Requests = {Refreshing, Form} \cup Elsewhere
    /\ Refreshing \notin Elsewhere /\ Form \notin Elsewhere
    /\ Me \in AllCalls /\ Me \notin Calls /\ Calls \subseteq AllCalls
  BY ClientAssumption DEF AllCalls

\* The server leaves a slot of the tab taken until the tab has read its answer.
LEMMA ServerPage ==
    ASSUME Typed, PageInv, NEW r \in Requests, ServerMoves(r), UNCHANGED <<tab, calls, leaving>>
    PROVE  PageInv'
  <1>1. /\ req[r].phase # "idle"
        /\ OnlyRequest(r)
        /\ req[r].by # "tab" => \/ req'[r] = Idle
                                \/ req'[r].phase = "open" /\ req'[r].by = req[r].by
        /\ req[r].by = "tab" => /\ req'[r].phase # "idle"
                                /\ req'[r].op = req[r].op
                                /\ req'[r].by = "tab"
    BY DEF ServerMoves, Pending, Ends, GoesOn
  <1>2. \A x \in {Refreshing, Form} :
           /\ (req'[x].phase = "idle") = (req[x].phase = "idle")
           /\ req[x].phase # "idle" => req'[x].by = req[x].by /\ req'[x].op = req[x].op
    BY <1>1, SlotsOf DEF PageInv, Slots, OnlyRequest
  <1>3. \A x \in Elsewhere : req'[x].by # "tab" /\ req'[x].phase # "answered"
    BY <1>1, SlotsOf, IdleIsRequest DEF PageInv, Slots, OnlyRequest
  <1>4. Slots'
    BY <1>2, <1>3 DEF PageInv, Slots
  <1>5. Loading'
    BY <1>2 DEF PageInv, Loading
  <1> QED
    BY <1>4, <1>5 DEF PageInv

\* What is in a slot after a step of the clients.
LEMMA PageSlots ==
    ASSUME PageInv, NEW r \in {Refreshing, Form}, NEW q, req' = [req EXCEPT ![r] = q],
           DOMAIN req = Requests,
           q.phase # "idle" => /\ q.by = "tab"
                               /\ r = Form => q.op \in {"login", "register", "logout"}
    PROVE  /\ Slots'
           /\ req'[r] = q
           /\ \A x \in {Refreshing, Form} \ {r} : req'[x] = req[x]
  BY SlotsOf DEF PageInv, Slots

\* A request of the tab.
LEMMA RequestFieldsOf ==
    ASSUME NEW op, NEW t
    PROVE  /\ Request(op, t).op = op /\ Request(op, t).phase = "sent"
           /\ Request(op, t).token = t /\ Request(op, t).by = "tab"
           /\ Request(op, t).answer = "none" /\ Request(op, t).issued = 0
  BY DEF Request, Idle

\* The tab and its calls as they are typed.
LEMMA TabShape ==
    ASSUME Typed
    PROVE  /\ tab \in Tab /\ DOMAIN req = Requests
           /\ calls \in [AllCalls -> CallRecord]
           /\ \A c \in AllCalls : calls[c].phase \in CallPhases
  BY ClientParts DEF Typed, TabTyped, CallRecord, ServerTyped, RequestsTyped

\* A 401 joins the refresh under way or starts one.
LEMMA JoinPage ==
    ASSUME Typed, PageInv, NEW t \in Tab, JoinRefresh(t)
    PROVE  /\ Slots'
           /\ req'[Form] = req[Form]
           /\ tab.shared => req' = req /\ tab' = t
           /\ ~tab.shared => /\ tab' = [t EXCEPT !.shared = TRUE]
                             /\ req[Refreshing] = Idle
                             /\ req'[Refreshing] = Request("refresh", tab.stored)
                             /\ req' = [req EXCEPT ![Refreshing] = Request("refresh", tab.stored)]
                             /\ tab.stored # 0
           /\ UNCHANGED <<user, tokens, links>>
  <1>1. CASE tab.shared
    BY <1>1 DEF JoinRefresh, serverVars, PageInv, Slots
  <1>2. CASE ~tab.shared
    <2> DEFINE q == Request("refresh", tab.stored)
    <2>1. /\ req[Refreshing] = Idle /\ req' = [req EXCEPT ![Refreshing] = q]
          /\ tab' = [t EXCEPT !.shared = TRUE] /\ tab.stored # 0
          /\ UNCHANGED <<user, tokens, links>>
      BY <1>2 DEF JoinRefresh, Send
    <2>2. q.by = "tab" /\ Refreshing # Form
      BY RequestFieldsOf, SlotsOf
    <2> HIDE DEF q
    <2>3. /\ Slots' /\ req'[Refreshing] = q
          /\ \A x \in {Refreshing, Form} \ {Refreshing} : req'[x] = req[x]
      BY <2>1, <2>2, PageSlots, TabShape
    <2> QED
      BY <1>2, <2>1, <2>2, <2>3 DEF q
  <1> QED
    BY <1>1, <1>2

\* The page loads.
LEMMA InitializePage ==
    ASSUME Typed, PageInv, Initialize
    PROVE  PageInv'
  <1> DEFINE q == Request("refresh", tab.stored)
  <1>1. \/ UNCHANGED req
        \/ req' = [req EXCEPT ![Refreshing] = q]
    BY DEF Initialize, serverVars, Send
  <1>2. q.by = "tab"
    BY RequestFieldsOf
  <1> HIDE DEF q
  <1>3. Slots' /\ req'[Form] = req[Form]
    <2>1. CASE UNCHANGED req
      BY <2>1 DEF PageInv, Slots
    <2>2. CASE req' = [req EXCEPT ![Refreshing] = q]
      BY <1>2, <2>2, PageSlots, TabShape, SlotsOf
    <2> QED
      BY <1>1, <2>1, <2>2
  <1>4. /\ tab'.started = TRUE /\ tab'.checked \in BOOLEAN
        /\ tab'.signedIn = tab.signedIn /\ tab'.shared = tab.shared
        /\ ~tab.started /\ UNCHANGED <<calls, leaving>>
    <2>1. tab \in Tab
      BY TabShape
    <2> QED
      BY <2>1 DEF Initialize, Tab
  <1>5. Loading'
    BY <1>3, <1>4 DEF PageInv, Loading
  <1> QED
    BY <1>3, <1>5 DEF PageInv

\* The fields of the tabs that the steps leave.
LEMMA TabFieldsOf ==
    ASSUME NEW t \in Tab
    PROVE  \A f : /\ [t EXCEPT !.shared = f].shared = f
                  /\ [t EXCEPT !.shared = f].checked = t.checked
                  /\ [t EXCEPT !.shared = f].signedIn = t.signedIn
                  /\ [t EXCEPT !.shared = f].started = t.started
                  /\ [t EXCEPT !.shared = f].stored = t.stored
  BY DEF Tab

\* What signing out leaves of the tab.
LEMMA SignedOutFields ==
    ASSUME Typed
    PROVE  /\ SignedOut \in Tab
           /\ SignedOut.signedIn = FALSE /\ SignedOut.stored = 0
           /\ SignedOut.checked = tab.checked /\ SignedOut.started = tab.started
           /\ SignedOut.shared = tab.shared
  <1>1. tab \in Tab /\ 0 \in 0..MaxTokens
    BY TabShape, AuthAssumption
  <1>2. /\ Cleared \in Tab /\ Cleared.stored = 0
        /\ Cleared.checked = tab.checked /\ Cleared.started = tab.started
        /\ Cleared.shared = tab.shared
    BY <1>1 DEF Cleared, Tab
  <1> QED
    BY <1>2 DEF SignedOut, Tab

\* The token of a logout under way outlives the sign-out.
LEMMA SignedOutLeaving ==
    ASSUME Typed
    PROVE  SignedOut.leavingWith = tab.leavingWith
  <1>1. tab \in Tab /\ 0 \in 0..MaxTokens
    BY TabShape, AuthAssumption
  <1>2. Cleared \in Tab /\ Cleared.leavingWith = tab.leavingWith
    BY <1>1 DEF Cleared, Tab
  <1> QED
    BY <1>2 DEF SignedOut, Tab

\* What receiving a token pair leaves of the tab.
LEMMA HoldingFields ==
    ASSUME Typed, NEW n \in DOMAIN tokens
    PROVE  /\ Holding(n) \in Tab
           /\ Holding(n).stored = n
           /\ Holding(n).signedIn = tab.signedIn /\ Holding(n).leavingWith = tab.leavingWith
           /\ Holding(n).checked = tab.checked /\ Holding(n).started = tab.started
           /\ Holding(n).shared = tab.shared
  <1>1. tab \in Tab /\ n \in 0..MaxTokens
    BY TabShape, RowsTyped DEF Typed
  <1> QED
    BY <1>1 DEF Holding, Tab

\* The answer to the refresh of a page load.
LEMMA RestorePage ==
    ASSUME Inv, Typed, PageInv, Restored \/ RestoreFails
    PROVE  PageInv'
  <1>1. req' = [req EXCEPT ![Refreshing] = Idle]
    BY DEF Restored, RestoreFails
  <1>2. Slots' /\ req'[Refreshing] = Idle /\ req'[Form] = req[Form]
    BY <1>1, PageSlots, TabShape, SlotsOf, IdleIsRequest
  <1>3. ~tab.checked /\ ~tab.shared /\ req[Refreshing].phase = "answered"
    BY DEF Restored, RestoreFails, Answered
  <1>4. tab.started /\ calls[Me].phase = "idle" /\ UNCHANGED leaving
    BY <1>3 DEF PageInv, Loading, Restored, RestoreFails
  <1>5. CASE Restored
    <2>1. req[Refreshing].issued \in DOMAIN tokens
      BY <1>5, SlotsOf DEF Restored, Answered, Inv, Named
    <2>2. /\ tab'.checked = tab.checked /\ tab'.started = tab.started
          /\ tab'.shared = tab.shared /\ tab'.signedIn = tab.signedIn
      BY <1>5, <2>1, HoldingFields DEF Restored
    <2>3. \A c \in Calls : calls'[c] = calls[c]
      BY <1>5, SlotsOf, TabShape DEF Restored
    <2>4. Loading'
      BY <1>2, <1>3, <1>4, <2>2, <2>3, IdleIsRequest DEF PageInv, Loading
    <2> QED
      BY <1>2, <2>4 DEF PageInv
  <1>6. CASE RestoreFails
    <2>1. tab'.checked = TRUE /\ tab'.started = tab.started /\ tab'.shared = tab.shared
      BY <1>6, SignedOutFields DEF RestoreFails, Tab
    <2>2. UNCHANGED calls
      BY <1>6 DEF RestoreFails
    <2>3. Loading'
      BY <1>2, <1>3, <1>4, <2>1, <2>2, IdleIsRequest DEF PageInv, Loading
    <2> QED
      BY <1>2, <2>3 DEF PageInv
  <1> QED
    BY <1>5, <1>6

\* What the end of the shared refresh makes of the calls.
LEMMA RefreshedPage ==
    ASSUME Inv, Typed, PageInv, Refreshed
    PROVE  PageInv'
  <1> DEFINE q == Request("logout", tab.leavingWith)
  <1>1. \/ leaving = "waiting" /\ req' = [req EXCEPT ![Refreshing] = Idle, ![Form] = q]
        \/ req' = [req EXCEPT ![Refreshing] = Idle] /\ leaving' = leaving
    BY DEF Refreshed
  <1>2. q.by = "tab" /\ q.op = "logout" /\ q.phase = "sent"
    BY RequestFieldsOf
  <1> HIDE DEF q
  <1>3. req'[Refreshing] = Idle /\ (req'[Form] = req[Form] \/ req'[Form] = q)
    BY <1>1, SlotsOf, TabShape
  <1>4. \A r \in Elsewhere : req'[r] = req[r]
    BY <1>1, SlotsOf, TabShape
  <1>5. Slots'
    BY <1>2, <1>3, <1>4, IdleIsRequest DEF PageInv, Slots
  <1>6. req[Refreshing].issued \in DOMAIN tokens /\ req[Refreshing].phase = "answered"
    BY SlotsOf DEF Refreshed, Answered, Inv, Named
  <1>7. /\ tab'.checked = tab.checked /\ tab'.started = tab.started
        /\ tab'.shared = FALSE /\ tab'.signedIn = tab.signedIn
    <2> DEFINE h == Holding(req[Refreshing].issued)
    <2>1. /\ h \in Tab /\ h.signedIn = tab.signedIn
          /\ h.checked = tab.checked /\ h.started = tab.started
      BY <1>6, HoldingFields
    <2>2. tab' = [h EXCEPT !.shared = FALSE]
      BY DEF Refreshed, Renewed
    <2> HIDE DEF h
    <2> QED
      BY <2>1, <2>2, TabFieldsOf
  <1>8. \A c \in AllCalls : calls'[c].phase = "idle" <=> calls[c].phase = "idle"
    BY TabShape DEF Refreshed, Waiting
  <1>9. tab.shared
    BY DEF Refreshed
  <1>10. ~tab.checked => leaving' = "no" /\ req'[Form] = req[Form]
    BY <1>1, <1>3, SlotsOf, TabShape DEF PageInv, Loading
  <1>11. Loading'
    BY <1>3, <1>6, <1>7, <1>8, <1>9, <1>10, SlotsOf, IdleIsRequest DEF PageInv, Loading
  <1> QED
    BY <1>5, <1>11 DEF PageInv

\* The shared refresh fails.
LEMMA RefreshFailsPage ==
    ASSUME Typed, PageInv, RefreshFails
    PROVE  PageInv'
  <1>1. req' = [req EXCEPT ![Refreshing] = Idle]
    BY DEF RefreshFails
  <1>2. Slots' /\ req'[Refreshing] = Idle /\ req'[Form] = req[Form]
    BY <1>1, PageSlots, TabShape, SlotsOf, IdleIsRequest
  <1>3. tab.shared /\ req[Refreshing].phase = "answered"
    BY DEF RefreshFails, Answered
  <1>4. /\ tab'.signedIn = FALSE /\ tab'.shared = FALSE /\ tab'.started = tab.started
        /\ tab'.checked = tab.checked \/ (tab'.checked = TRUE /\ Me \in Waiting)
    <2> DEFINE t == [SignedOut EXCEPT !.shared = FALSE, !.leavingWith = 0]
    <2>1. /\ t \in Tab /\ t.signedIn = FALSE /\ t.shared = FALSE /\ t.started = tab.started
          /\ t.checked = tab.checked
      BY SignedOutFields, AuthAssumption DEF Tab
    <2>2. tab' = IF Me \in Waiting THEN [t EXCEPT !.checked = TRUE] ELSE t
      BY DEF RefreshFails
    <2> HIDE DEF t
    <2> QED
      BY <2>1, <2>2 DEF Tab
  <1>5. \A c \in AllCalls : calls'[c] = IF c \in Waiting THEN Quiet ELSE calls[c]
    BY DEF RefreshFails
  <1>6. calls'[Me].phase = "idle" /\ \A c \in Calls : calls[c].phase = "idle" => calls'[c].phase = "idle"
    BY <1>3, <1>5, SlotsOf DEF PageInv, Loading, Waiting, Quiet
  <1>7. leaving' = "no" \/ leaving' = leaving
    BY DEF RefreshFails
  <1>8. Loading'
    BY <1>2, <1>3, <1>4, <1>6, <1>7 DEF PageInv, Loading
  <1> QED
    BY <1>2, <1>8 DEF PageInv

\* The forms are there once the check has ended.
LEMMA FormPage ==
    ASSUME Inv, Typed, PageInv, SubmitAnswered \/ LogoutAnswered
    PROVE  PageInv'
  <1>1. req' = [req EXCEPT ![Form] = Idle]
    BY DEF SubmitAnswered, LogoutAnswered
  <1>2. Slots' /\ req'[Form] = Idle /\ req'[Refreshing] = req[Refreshing]
    BY <1>1, PageSlots, TabShape, SlotsOf, IdleIsRequest
  <1>3. tab.checked = TRUE /\ tab.started = TRUE /\ calls[Me].phase = "idle" /\ UNCHANGED calls
    <2>1. req[Form].phase = "answered" /\ UNCHANGED calls
      BY DEF SubmitAnswered, LogoutAnswered, Answered
    <2>2. tab \in Tab
      BY TabShape
    <2> QED
      BY <2>1, <2>2 DEF PageInv, Loading, Tab
  <1>4. tab'.checked = tab.checked /\ tab'.started = tab.started
    <2>1. CASE LogoutAnswered
      BY <2>1, SignedOutFields DEF LogoutAnswered, Tab
    <2>2. CASE SubmitAnswered /\ req[Form].answer = "ok"
      <3> DEFINE h == Holding(req[Form].issued)
      <3>1. req[Form].issued \in DOMAIN tokens
        BY <2>2, SlotsOf DEF SubmitAnswered, Answered, Inv, Named
      <3>2. h \in Tab /\ h.checked = tab.checked /\ h.started = tab.started
        BY <3>1, HoldingFields
      <3>3. tab' = [h EXCEPT !.signedIn = TRUE]
        BY <2>2 DEF SubmitAnswered
      <3> HIDE DEF h
      <3> QED
        BY <3>2, <3>3 DEF Tab
    <2>3. CASE SubmitAnswered /\ req[Form].answer # "ok"
      BY <2>3 DEF SubmitAnswered
    <2> QED
      BY <2>1, <2>2, <2>3
  <1>5. Loading'
    BY <1>3, <1>4 DEF Loading
  <1> QED
    BY <1>2, <1>5 DEF PageInv

\* What the forms do once the page is checked leaves it so.
LEMMA CheckedPage ==
    ASSUME PageInv, tab \in Tab, tab.checked, UNCHANGED calls, Slots',
           tab'.checked = tab.checked, tab'.started = tab.started
    PROVE  PageInv'
  <1>1. tab.started = TRUE /\ calls[Me].phase = "idle" /\ tab.checked = TRUE
    BY DEF PageInv, Loading, Tab
  <1>2. Loading'
    BY <1>1 DEF Loading
  <1> QED
    BY <1>2 DEF PageInv

\* Whether or not the shared refresh begins, the tab is where it was.
LEMMA SharedFields ==
    ASSUME NEW t \in Tab, tab' = t \/ tab' = [t EXCEPT !.shared = TRUE]
    PROVE  tab'.checked = t.checked /\ tab'.started = t.started
  <1>1. CASE tab' = t
    BY <1>1
  <1>2. CASE tab' = [t EXCEPT !.shared = TRUE]
    BY <1>2 DEF Tab
  <1> QED
    BY <1>1, <1>2

\* The forms and the logout.
LEMMA FormsPage ==
    ASSUME Typed, PageInv,
           LogoutRejected \/ Logout \/ (\E op \in {"login", "register"} : Submit(op))
    PROVE  PageInv'
  <1>1. tab \in Tab /\ DOMAIN req = Requests
    BY TabShape
  <1>2. CASE LogoutRejected
    <2> DEFINE q == Request("refresh", tab.stored)
    <2>1. \/ req' = [req EXCEPT ![Form] = Idle, ![Refreshing] = q]
          \/ req' = [req EXCEPT ![Form] = Idle]
      BY <1>2 DEF LogoutRejected
    <2>2. q.by = "tab"
      BY RequestFieldsOf
    <2> HIDE DEF q
    <2>3. Slots'
      BY <1>1, <2>1, <2>2, SlotsOf, IdleIsRequest DEF PageInv, Slots
    <2>4. tab.checked
      BY <1>2 DEF LogoutRejected, PageInv, Loading
    <2>5. tab'.checked = tab.checked /\ tab'.started = tab.started /\ UNCHANGED calls
      <3>1. (tab' = tab \/ tab' = [tab EXCEPT !.shared = TRUE]) /\ UNCHANGED calls
        BY <1>2 DEF LogoutRejected
      <3> QED
        BY <1>1, <3>1, SharedFields
    <2> QED
      BY <1>1, <2>3, <2>4, <2>5, CheckedPage
  <1>3. CASE Logout
    <2> DEFINE t == [tab EXCEPT !.leavingWith = tab.stored]
    <2>1. t \in Tab /\ t.checked = tab.checked /\ t.started = tab.started
      BY <1>1 DEF Tab
    <2>2. tab.checked /\ UNCHANGED calls
      BY <1>3 DEF Logout, ProtectedRoute, Rendered
    <2>3. CASE Accepted
      <3> DEFINE q == Request("logout", tab.stored)
      <3>1. req' = [req EXCEPT ![Form] = q] /\ tab' = t
        BY <1>3, <2>3 DEF Logout, Send
      <3>2. q.by = "tab" /\ q.op = "logout"
        BY RequestFieldsOf
      <3> HIDE DEF q, t
      <3>3. Slots'
        BY <1>1, <3>1, <3>2, PageSlots
      <3> QED
        BY <1>1, <2>1, <2>2, <3>1, <3>3, CheckedPage
    <2>4. CASE ~Accepted
      <3>1. JoinRefresh(t)
        BY <1>3, <2>4 DEF Logout
      <3> HIDE DEF t
      <3>2. Slots' /\ (tab' = t \/ tab' = [t EXCEPT !.shared = TRUE])
        BY <2>1, <3>1, JoinPage
      <3>3. tab'.checked = tab.checked /\ tab'.started = tab.started
        BY <2>1, <3>2, SharedFields
      <3> QED
        BY <1>1, <2>2, <3>2, <3>3, CheckedPage
    <2> QED
      BY <2>3, <2>4
  <1>4. ASSUME NEW op \in {"login", "register"}, Submit(op)
        PROVE  PageInv'
    <2> DEFINE q == Request(op, 0)
    <2>1. req' = [req EXCEPT ![Form] = q] /\ UNCHANGED <<tab, calls>> /\ tab.checked
      BY <1>4 DEF Submit, Send, clientVars, PublicOnlyRoute, Rendered
    <2>2. q.by = "tab" /\ q.op = op
      BY RequestFieldsOf
    <2> HIDE DEF q
    <2>3. Slots'
      BY <1>1, <2>1, <2>2, PageSlots
    <2> QED
      BY <1>1, <2>1, <2>3, CheckedPage
  <1> QED
    BY <1>2, <1>3, <1>4

\* The end of a call.
LEMMA AfterCallFields ==
    ASSUME Typed, NEW c, NEW ok
    PROVE  /\ c # Me => AfterCall(c, ok) = tab
           /\ c = Me => /\ AfterCall(c, ok).checked = TRUE
                        /\ AfterCall(c, ok).started = tab.started
                        /\ AfterCall(c, ok).shared = tab.shared
  <1>1. tab \in Tab /\ SignedOut \in Tab
    BY TabShape, SignedOutFields
  <1> QED
    BY <1>1, SignedOutFields DEF AfterCall, Tab

\* A call goes on.
LEMMA CallPage ==
    ASSUME Typed, PageInv, NEW c \in AllCalls, CallStep(c)
    PROVE  PageInv'
  <1>1. tab \in Tab /\ DOMAIN req = Requests /\ calls \in [AllCalls -> CallRecord]
    BY TabShape
  <1>2. CASE CallSucceeds(c) \/ CallFails(c) \/ CallGivesUp(c)
    <2>1. /\ calls[c].phase # "idle" /\ calls' = [calls EXCEPT ![c] = Quiet]
          /\ UNCHANGED <<serverVars, leaving>>
          /\ tab' = AfterCall(c, TRUE) \/ tab' = AfterCall(c, FALSE)
      BY <1>2 DEF CallSucceeds, CallFails, CallGivesUp, InFlight
    <2>2. Slots' /\ UNCHANGED req
      BY <2>1 DEF serverVars, PageInv, Slots
    <2>3. /\ calls'[c].phase = "idle"
          /\ \A x \in AllCalls \ {c} : calls'[x] = calls[x]
      BY <1>1, <2>1 DEF Quiet
    <2>4. CASE c = Me
      <3>1. tab'.checked = TRUE /\ tab'.started = tab.started
        BY <2>1, <2>4, AfterCallFields
      <3>2. tab.started
        BY <2>1, <2>4 DEF PageInv, Loading
      <3>3. Loading'
        BY <2>3, <2>4, <3>1, <3>2 DEF Loading
      <3> QED
        BY <2>2, <3>3 DEF PageInv
    <2>5. CASE c # Me
      <3>1. tab' = tab /\ UNCHANGED leaving
        BY <2>1, <2>5, AfterCallFields
      <3>2. \A x \in AllCalls : calls[x].phase = "idle" => calls'[x].phase = "idle"
        BY <2>3
      <3>3. calls'[Me] = calls[Me]
        BY <2>3, <2>5, SlotsOf
      <3>4. Loading'
        BY <2>2, <3>1, <3>2, <3>3, SlotsOf DEF PageInv, Loading
      <3> QED
        BY <2>2, <3>4 DEF PageInv
    <2> QED
      BY <2>4, <2>5
  <1>3. CASE CallRejected(c)
    <2>1. /\ calls[c].phase = "sent" /\ calls' = [calls EXCEPT ![c].phase = "waiting"]
          /\ JoinRefresh(tab) /\ UNCHANGED leaving
      BY <1>3 DEF CallRejected
    <2>2. /\ calls'[c].phase = "waiting"
          /\ \A x \in AllCalls \ {c} : calls'[x] = calls[x]
      BY <1>1, <2>1 DEF CallRecord
    <2>3. /\ Slots' /\ req'[Form] = req[Form]
          /\ tab'.shared = TRUE
          /\ tab'.checked = tab.checked /\ tab'.started = tab.started
          /\ tab'.signedIn = tab.signedIn
      BY <1>1, <2>1, JoinPage, TabFieldsOf DEF Tab
    <2>4. tab.started
      BY <1>1, <2>1, SlotsOf DEF PageInv, Loading, AllCalls
    <2>5. c # Me => tab.checked /\ calls[Me].phase = "idle"
      BY <1>1, <2>1, SlotsOf DEF PageInv, Loading, AllCalls
    <2>6. Loading'
      BY <2>1, <2>2, <2>3, <2>4, <2>5, SlotsOf DEF PageInv, Loading
    <2> QED
      BY <2>3, <2>6 DEF PageInv
  <1> QED
    BY <1>2, <1>3 DEF CallStep

\* Steps that leave the slots alone.
LEMMA CallsPage ==
    ASSUME Typed, PageInv,
           (\E c \in Calls : StartCall(c)) \/ (\E S \in SUBSET AllCalls : AccessExpires(S))
    PROVE  PageInv'
  <1>1. tab \in Tab /\ DOMAIN req = Requests /\ calls \in [AllCalls -> CallRecord]
    BY TabShape
  <1>2. ASSUME NEW c \in Calls, StartCall(c)
        PROVE  PageInv'
    <2>1. /\ tab.checked /\ UNCHANGED <<req, tab, leaving>>
          /\ calls' = [calls EXCEPT ![c] = Launched]
      BY <1>2 DEF StartCall, ProtectedRoute, Rendered, serverVars
    <2>2. calls'[Me] = calls[Me]
      BY <1>1, <2>1, SlotsOf
    <2>3. Loading'
      BY <2>1, <2>2 DEF PageInv, Loading
    <2> QED
      BY <2>1, <2>3 DEF PageInv, Slots
  <1>3. ASSUME NEW S \in SUBSET AllCalls, AccessExpires(S)
        PROVE  PageInv'
    <2>1. /\ UNCHANGED <<req, leaving>>
          /\ tab' = [tab EXCEPT !.access = "expired"]
          /\ calls' = [c \in AllCalls |-> IF c \in S THEN [calls[c] EXCEPT !.accepted = FALSE]
                                          ELSE calls[c]]
      BY <1>3 DEF AccessExpires, serverVars
    <2>2. /\ tab'.checked = tab.checked /\ tab'.started = tab.started
          /\ tab'.signedIn = tab.signedIn /\ tab'.shared = tab.shared
      BY <1>1, <2>1 DEF Tab
    <2>3. \A c \in AllCalls : calls'[c].phase = calls[c].phase
      BY <1>1, <2>1 DEF CallRecord
    <2>4. Loading'
      BY <2>1, <2>2, <2>3, SlotsOf DEF PageInv, Loading
    <2> QED
      BY <2>1, <2>4 DEF PageInv, Slots
  <1> QED
    BY <1>2, <1>3

\* A slot that goes on elsewhere.
MovedTo(r, s) ==
    /\ Pending(s)
    /\ req[r] = Idle
    /\ req'[r].op = req[s].op
    /\ req'[r].phase = req[s].phase
    /\ req'[r].token = req[s].token
    /\ req'[r].by = "nobody"

\* A request that the tab gives up goes on as somebody else's.
LEMMA DetachSlots ==
    ASSUME Typed, NEW R \in SUBSET {Refreshing, Form}, NEW rest, Detach(R, rest)
    PROVE  /\ \A r \in R : req'[r] = rest[r]
           /\ \A r \in {Refreshing, Form} \ R : req'[r] = req[r]
           /\ \A r \in Elsewhere : req'[r] = req[r] \/ (\E s \in R : MovedTo(r, s))
  <1>1. PICK q \in Around, S \in SUBSET R :
            /\ S # {} => req[q] = Idle
            /\ \A r \in S : req[r].phase \in {"sent", "open"}
            /\ req' = [r \in Requests |->
                          IF r \in R THEN rest[r]
                          ELSE IF r = q /\ S # {}
                          THEN [req[CHOOSE x \in S : TRUE] EXCEPT !.by = "nobody"]
                          ELSE req[r]]
    BY DEF Detach
  <1>2. q \in Elsewhere
    BY ClientAssumption DEF Around
  <1> DEFINE s == CHOOSE x \in S : TRUE
             moved == [req[s] EXCEPT !.by = "nobody"]
  <1>3. S # {} => s \in R /\ s \in Requests /\ Pending(s)
    BY <1>1, SlotsOf DEF Pending
  <1>4. S # {} => /\ moved.op = req[s].op /\ moved.phase = req[s].phase
                  /\ moved.token = req[s].token /\ moved.by = "nobody"
    <2>1. S # {} => req[s] \in Request0
      BY <1>3 DEF Typed, ServerTyped, RequestsTyped, RequestTyped
    <2> HIDE DEF s
    <2> QED
      BY <2>1 DEF Request0
  <1>5. req' = [r \in Requests |-> IF r \in R THEN rest[r]
                                   ELSE IF r = q /\ S # {} THEN moved ELSE req[r]]
    BY <1>1
  <1> HIDE DEF s, moved
  <1>6. \A r \in Requests : req'[r] = IF r \in R THEN rest[r]
                                      ELSE IF r = q /\ S # {} THEN moved ELSE req[r]
    BY <1>5
  <1>7. S # {} => MovedTo(q, s)
    BY <1>1, <1>2, <1>3, <1>4, <1>6, SlotsOf DEF MovedTo
  <1> QED
    BY <1>2, <1>3, <1>6, <1>7, SlotsOf

\* A reload or a network error.
LEMMA LostPage ==
    ASSUME Inv, Typed, PageInv, Reload \/ (\E r \in {Refreshing, Form} : NetworkError(r))
    PROVE  PageInv'
  <1>1. tab \in Tab /\ DOMAIN req = Requests /\ calls \in [AllCalls -> CallRecord]
    BY TabShape
  <1>2. ASSUME NEW R \in SUBSET {Refreshing, Form}, NEW rest, Detach(R, rest)
        PROVE  \A r \in Elsewhere : req'[r].by # "tab" /\ req'[r].phase # "answered"
    <2>1. ASSUME NEW r \in Elsewhere
          PROVE  req'[r].by # "tab" /\ req'[r].phase # "answered"
      <3>1. CASE req'[r] = req[r]
        BY <3>1 DEF PageInv, Slots
      <3>2. ASSUME NEW s \in R, MovedTo(r, s)
            PROVE  req'[r].by # "tab" /\ req'[r].phase # "answered"
        BY <3>2 DEF MovedTo, Pending
      <3>3. req'[r] = req[r] \/ (\E s \in R : MovedTo(r, s))
        BY <1>2, DetachSlots
      <3> QED
        BY <3>1, <3>2, <3>3
    <2> QED
      BY <2>1
  <1>3. CASE Reload
    <2> DEFINE R == {Refreshing, Form}
    <2>1. Detach(R, [x \in R |-> Idle])
      BY <1>3 DEF Reload
    <2>2. req'[Refreshing] = Idle /\ req'[Form] = Idle
      BY <2>1, DetachSlots
    <2>3. Slots'
      BY <1>2, <2>1, <2>2, IdleIsRequest DEF Slots
    <2>4. /\ tab'.started = FALSE /\ tab'.checked = FALSE /\ tab'.shared = FALSE
          /\ tab'.signedIn = FALSE /\ leaving' = "no"
          /\ \A c \in AllCalls : calls'[c].phase = "idle"
      BY <1>3 DEF Reload, Fresh, Quiet
    <2>5. Loading'
      BY <2>2, <2>4, SlotsOf, IdleIsRequest DEF Loading
    <2> QED
      BY <2>3, <2>5 DEF PageInv
  <1>4. ASSUME NEW r \in {Refreshing, Form}, NetworkError(r)
        PROVE  PageInv'
    <2> DEFINE p == Request(req[r].op, 0)
               q == [p EXCEPT !.phase = "answered", !.answer = "error"]
    <2>1. Detach({r}, [x \in {r} |-> q]) /\ UNCHANGED <<tab, calls, leaving>>
      BY <1>4 DEF NetworkError
    <2>2. q.phase = "answered" /\ q.by = "tab" /\ q.op = req[r].op
      BY DEF Request, Idle
    <2> HIDE DEF q
    <2>3. /\ req'[r] = q
          /\ \A x \in {Refreshing, Form} \ {r} : req'[x] = req[x]
      BY <2>1, DetachSlots
    <2>4. req[r].phase # "idle"
      BY <1>4, SlotsOf DEF NetworkError, Inv, Named
    <2>5. Slots'
      BY <1>2, <2>1, <2>2, <2>3, <2>4 DEF PageInv, Slots
    <2>6. Loading'
      BY <2>1, <2>2, <2>3, <2>4 DEF PageInv, Loading
    <2> QED
      BY <2>5, <2>6 DEF PageInv
  <1> QED
    BY <1>3, <1>4

\* Before the page is loaded all slots are free.
LEMMA InitPage ==
    ASSUME Init
    PROVE  PageInv
  <1>1. /\ \A r \in Requests : req[r] = Idle
        /\ tab = Fresh /\ leaving = "no"
        /\ \A c \in AllCalls : calls[c].phase = "idle"
    BY DEF Init, InitServer, Quiet
  <1>2. \A r \in Requests : req[r].phase = "idle" /\ req[r].by = "nobody"
    BY <1>1 DEF Idle
  <1>3. Slots
    BY <1>2, SlotsOf DEF Slots
  <1>4. Loading
    BY <1>1, <1>2, SlotsOf DEF Loading, Fresh
  <1> QED
    BY <1>3, <1>4 DEF PageInv

\* Links, expiry and the requests of others leave the page alone.
LEMMA AroundPage ==
    ASSUME Typed, PageInv,
           \/ (\E l \in Links : SendTo(l)) \/ Expiry \/ UNCHANGED vars
           \/ \E r \in Elsewhere, op \in Ops, t \in 0..MaxTokens, l \in Links \cup {NoLink} :
                 OtherRequest(r, op, t, l)
    PROVE  PageInv'
  <1>1. UNCHANGED <<tab, calls, leaving>>
    BY DEF SendTo, Expiry, OtherRequest, clientVars, vars, serverVars
  <1>2. /\ \A r \in {Refreshing, Form} : req'[r] = req[r]
        /\ \A r \in Elsewhere : \/ req'[r] = req[r]
                                \/ req'[r].by = "elsewhere" /\ req'[r].phase = "sent"
    <2>1. CASE UNCHANGED req
      BY <2>1
    <2>2. ASSUME NEW r \in Elsewhere, NEW op, NEW t, NEW l, OtherRequest(r, op, t, l)
          PROVE  <1>2!1 /\ <1>2!2
      <3> DEFINE p == Request(op, t)
                 q == [p EXCEPT !.link = l, !.by = "elsewhere"]
      <3>1. req' = [req EXCEPT ![r] = q]
        BY <2>2 DEF OtherRequest
      <3>2. q.by = "elsewhere" /\ q.phase = "sent"
        BY DEF Request, Idle
      <3> HIDE DEF q
      <3> QED
        BY <3>1, <3>2, SlotsOf, TabShape
    <2> QED
      BY <2>1, <2>2 DEF SendTo, SendLink, Expiry, LinkExpires, TokenExpires, vars, serverVars
  <1>3. Slots'
    BY <1>2 DEF PageInv, Slots
  <1>4. Loading'
    BY <1>1, <1>2 DEF PageInv, Loading
  <1> QED
    BY <1>3, <1>4 DEF PageInv

\* Every step keeps it.
LEMMA StepPage ==
    ASSUME Inv, Typed, PageInv, [Next]_vars
    PROVE  PageInv'
  <1>1. ASSUME NEW r \in Requests, Server(r) \/ ServerFailure(r)
        PROVE  PageInv'
    BY <1>1, ServerMove, ServerPage DEF Server, ServerFailure, clientVars
  <1>2. CASE RefreshStep
    BY <1>2, InitializePage, RestorePage, RefreshedPage, RefreshFailsPage DEF RefreshStep
  <1>3. CASE \/ FormStep \/ Logout
             \/ \E op \in {"login", "register"} : Submit(op)
    BY <1>3, FormPage, FormsPage DEF FormStep
  <1>4. CASE \/ \E c \in AllCalls : CallStep(c)
             \/ \E c \in Calls : StartCall(c)
             \/ \E S \in SUBSET AllCalls : AccessExpires(S)
    BY <1>4, CallPage, CallsPage
  <1>5. CASE Reload \/ (\E r \in {Refreshing, Form} : NetworkError(r))
    BY <1>5, LostPage
  <1>6. CASE \/ (\E l \in Links : SendTo(l)) \/ Expiry \/ UNCHANGED vars
             \/ \E r \in Elsewhere, op \in Ops, t \in 0..MaxTokens, l \in Links \cup {NoLink} :
                   OtherRequest(r, op, t, l)
    BY <1>6, AroundPage
  <1> QED
    BY <1>1, <1>2, <1>3, <1>4, <1>5, <1>6 DEF Next

\* It holds in every reachable state.
LEMMA PageInvariance == Spec => []PageInv
  BY InitPage, StepPage, Invariance, TypedInvariance, PTL DEF Spec

-----------------------------------------------------------------------------
(* Whose tokens the tab uses: those it has received, and until the answer  *)
(* to its refresh is there it has received nothing newer.                  *)

\* A new token whose answer the tab has not read.
Unread(r) ==
    /\ req[r].phase = "answered"
    /\ req[r].answer = "ok"
    /\ req[r].op \in {"login", "register", "refresh"}

UnreceivedUnused ==
    \A t \in DOMAIN tokens :
        tokens[t].holder = "nobody" =>
            tokens[t].next = 0 /\ tokens[t].state \notin {"rotated", "loggedOut"}

Presentable(t) ==
    \/ t = 0
    \/ t \in DOMAIN tokens /\ tokens[t].holder # "nobody"

PresentedReceived ==
    \A r \in Requests :
        Pending(r) /\ req[r].op \in {"refresh", "logout"} => Presentable(req[r].token)

UnreadUnreceived ==
    \A r \in Requests :
        Unread(r) => req[r].issued \in DOMAIN tokens /\ tokens[req[r].issued].holder = "nobody"

TabReceived ==
    \A t \in {tab.stored, tab.leavingWith} :
        t # 0 => t \in DOMAIN tokens /\ tokens[t].holder = "tab"

NextExists ==
    \A t \in DOMAIN tokens : tokens[t].next # 0 => tokens[t].next \in DOMAIN tokens

\* What a form has been issued is nobody else's, and comes from no rotation.
FormIssued ==
    Unread(Form) =>
        /\ Unread(Refreshing) => req[Refreshing].issued # req[Form].issued
        /\ \A t \in DOMAIN tokens : tokens[t].next # req[Form].issued

\* The tab has not received what token t was exchanged for.
NotTaken(rows, t) ==
    /\ t \in DOMAIN rows
    /\ rows[t].next # 0 => rows[rows[t].next].holder # "tab"

Refused(r) == req[r].phase = "answered" /\ req[r].answer = "unauthorized"

RefreshesOwn ==
    /\ tab.stored # 0 => NotTaken(tokens, tab.stored)
    /\ Pending(Refreshing) \/ Refused(Refreshing) => NotTaken(tokens, req[Refreshing].token)

Ownership ==
    /\ UnreceivedUnused
    /\ PresentedReceived
    /\ UnreadUnreceived
    /\ TabReceived
    /\ NextExists
    /\ FormIssued
    /\ RefreshesOwn

\* The tab has a session, or its page load is about to have one.
Committed == tab.signedIn \/ calls[Me].phase # "idle"

\* What the tab waits for is going to sign it out.
Doomed ==
    \/ req[Refreshing].phase = "answered" /\ req[Refreshing].answer # "ok"
    \/ req[Form].phase = "answered" /\ req[Form].op = "logout"

\* A request that is going to end the token the tab has stored.
Spends(r) ==
    /\ Pending(r)
    /\ req[r].op \in {"refresh", "logout"}
    /\ req[r].token = tab.stored

\* Nobody but the tab spends the token it has stored, and it gives that one up only for
\* an answer that is there.
OwnSession ==
    Committed =>
        /\ tab.stored # 0
        /\ \/ Doomed
           \/ /\ \A r \in Elsewhere : ~Spends(r)
              /\ tokens[tab.stored].state = "rotated" => req[Refreshing].phase = "answered"
              /\ tokens[tab.stored].state # "loggedOut"

Owned == Ownership /\ OwnSession

\* The rows after a step of the tab that has received token n, or none.
RowsHeld(n) ==
    /\ DOMAIN tokens' = DOMAIN tokens
    /\ \A t \in DOMAIN tokens :
          /\ tokens'[t].next = tokens[t].next
          /\ tokens'[t].state \in {tokens[t].state, "expired"}
          /\ t = n => tokens'[t].holder = "tab"
          /\ t # n => tokens'[t].holder = tokens[t].holder

\* What a step beside the server's makes of a request.
RequestMoves(r, n) ==
    \/ req'[r] = req[r]
    \/ req'[r] = Idle
    \/ /\ r \in {Refreshing, Form}
       /\ req'[r].phase = "answered"
       /\ req'[r].answer = "error"
    \/ /\ r \in Elsewhere
       /\ \E s \in {Refreshing, Form} : MovedTo(r, s)
    \/ /\ req'[r].phase = "sent"
       /\ Presentable(req'[r].token)
       /\ r = Refreshing => /\ n = 0
                            /\ req'[r].token = tab.stored
                            /\ tab.stored # 0

Receives(n) ==
    /\ n \in DOMAIN tokens
    /\ tab'.stored = n
    /\ \E s \in {Refreshing, Form} : Unread(s) /\ req[s].issued = n /\ req'[s] = Idle

ClientMoves(n) ==
    /\ RowsHeld(n)
    /\ \A r \in Requests : RequestMoves(r, n)
    /\ tab'.leavingWith \in {0, tab.leavingWith, tab.stored}
    /\ n = 0 => tab'.stored \in {0, tab.stored}
    /\ n # 0 => Receives(n)

\* A step that goes on with the session of the tab.
KeepsSession ==
    /\ Committed' => Committed
    /\ tab'.stored = tab.stored
    /\ Doomed => Doomed'
    /\ \/ Doomed'
       \/ /\ req[Refreshing].phase = "answered" => req'[Refreshing].phase = "answered"
          /\ \A r \in Elsewhere : Spends(r)' => Spends(r)

\* It takes a new one, ends it, or goes on with it.
SessionMoves(n) ==
    \/ n # 0
    \/ ~Committed'
    \/ KeepsSession

\* Tokens are numbered from 1.
LEMMA NoZero ==
    ASSUME Typed
    PROVE  0 \notin DOMAIN tokens /\ Len(tokens) + 1 \notin DOMAIN tokens /\ Len(tokens) + 1 # 0
  BY RowsTyped DEF Typed

\* Steps of the tab leave it with tokens it has received.
LEMMA ClientOwns ==
    ASSUME Typed, PageInv, Ownership, NEW n, ClientMoves(n)
    PROVE  Ownership'
  <1>1. RowsHeld(n) /\ 0 \notin DOMAIN tokens /\ (n = 0 => tab'.stored \in {0, tab.stored})
    BY NoZero DEF ClientMoves
  <1>2. n # 0 => /\ n \in DOMAIN tokens /\ tokens[n].holder = "nobody" /\ tokens[n].next = 0
                 /\ tab'.stored = n
    BY SlotsOf DEF ClientMoves, Receives, Ownership, UnreadUnreceived, UnreceivedUnused
  <1>3. UnreceivedUnused'
    BY <1>1 DEF RowsHeld, Ownership, UnreceivedUnused
  <1>4. \A t : Presentable(t) => Presentable(t)'
    BY <1>1 DEF RowsHeld, Presentable
  <1>5. PresentedReceived'
    <2>1. ASSUME NEW r \in Requests, Pending(r)', req'[r].op \in {"refresh", "logout"}
          PROVE  Presentable(req'[r].token)
      <3>1. RequestMoves(r, n)
        BY DEF ClientMoves
      <3>2. Idle.phase = "idle"
        BY DEF Idle
      <3> QED
        BY <2>1, <3>1, <3>2, SlotsOf DEF RequestMoves, MovedTo, Pending, Ownership, PresentedReceived
    <2> QED
      BY <1>4, <2>1 DEF PresentedReceived
  <1>6. \A r \in Requests : Unread(r)' => req'[r] = req[r] /\ Unread(r)
    <2>1. ASSUME NEW r \in Requests, Unread(r)'
          PROVE  req'[r] = req[r]
      <3>1. RequestMoves(r, n)
        BY DEF ClientMoves
      <3>2. Idle.phase = "idle"
        BY DEF Idle
      <3> QED
        BY <2>1, <3>1, <3>2, SlotsOf DEF RequestMoves, MovedTo, Pending, Unread
    <2> QED
      BY <2>1 DEF Unread
  <1>7. \A r \in Requests : Unread(r)' => req[r].issued # n
    <2>1. ASSUME NEW r \in Requests, Unread(r)', req[r].issued = n
          PROVE  FALSE
      <3>1. Unread(r) /\ req'[r] = req[r] /\ n # 0
        BY <1>1, <1>6, <2>1 DEF Ownership, UnreadUnreceived
      <3>2. PICK s \in {Refreshing, Form} : Unread(s) /\ req[s].issued = n /\ req'[s] = Idle
        BY <3>1 DEF ClientMoves, Receives
      <3>3. r # s
        BY <3>1, <3>2, IdleIsRequest DEF Unread, Idle
      <3>4. r \in {Refreshing, Form}
        BY <3>1, SlotsOf DEF Unread, PageInv, Slots
      <3> QED
        BY <2>1, <3>1, <3>2, <3>3, <3>4 DEF Ownership, FormIssued
    <2> QED
      BY <2>1
  <1>8. UnreadUnreceived'
    BY <1>1, <1>6, <1>7 DEF RowsHeld, Ownership, UnreadUnreceived
  <1>9. TabReceived'
    BY <1>1, <1>2 DEF RowsHeld, ClientMoves, Ownership, TabReceived
  <1>10. NextExists'
    BY <1>1 DEF RowsHeld, Ownership, NextExists
  <1>11. FormIssued'
    BY <1>1, <1>6, SlotsOf DEF RowsHeld, Ownership, FormIssued
  <1>12. ASSUME NEW t, NotTaken(tokens, t), n = 0 \/ tokens[t].next # n
         PROVE  NotTaken(tokens', t)
    BY <1>1, <1>12 DEF RowsHeld, NotTaken, Ownership, NextExists
  <1>13. RefreshesOwn'
    <2>1. tab'.stored # 0 => NotTaken(tokens', tab'.stored)
      <3>1. CASE n = 0
        BY <1>1, <1>12, <3>1 DEF Ownership, RefreshesOwn
      <3>2. CASE n # 0
        BY <1>1, <1>2, <3>2 DEF RowsHeld, NotTaken
      <3> QED
        BY <3>1, <3>2
    <2>2. ASSUME Pending(Refreshing)' \/ Refused(Refreshing)'
          PROVE  NotTaken(tokens', req'[Refreshing].token)
      <3>1. RequestMoves(Refreshing, n)
        BY SlotsOf DEF ClientMoves
      <3>2. Idle.phase = "idle"
        BY DEF Idle
      <3>3. CASE req'[Refreshing] = req[Refreshing]
        <4>1. NotTaken(tokens, req[Refreshing].token)
          BY <2>2, <3>3 DEF Pending, Refused, Ownership, RefreshesOwn
        <4>2. n # 0 => tokens[req[Refreshing].token].next # n
          <5>1. n # 0 => Unread(Form) /\ req[Form].issued = n
            BY <2>2, <3>2, <3>3 DEF ClientMoves, Receives, Pending, Refused
          <5> QED
            BY <4>1, <5>1 DEF NotTaken, Ownership, FormIssued
        <4> QED
          BY <1>12, <3>3, <4>1, <4>2
      <3>4. CASE req'[Refreshing].phase = "sent" /\ n = 0 /\ tab.stored # 0
                 /\ req'[Refreshing].token = tab.stored
        BY <1>12, <3>4 DEF Ownership, RefreshesOwn
      <3> QED
        BY <2>2, <3>1, <3>2, <3>3, <3>4, SlotsOf DEF RequestMoves, Pending, Refused
    <2> QED
      BY <2>1, <2>2 DEF RefreshesOwn
  <1> QED
    BY <1>3, <1>5, <1>8, <1>9, <1>10, <1>11, <1>13 DEF Ownership

\* And with a session that nobody else ends.
LEMMA ClientHasSession ==
    ASSUME Typed, PageInv, Owned, NEW n, ClientMoves(n), SessionMoves(n)
    PROVE  OwnSession'
  <1>1. RowsHeld(n) /\ 0 \notin DOMAIN tokens
    BY NoZero DEF ClientMoves
  <1>2. CASE ~Committed'
    BY <1>2 DEF OwnSession
  <1>3. CASE n # 0
    <2>1. /\ n \in DOMAIN tokens /\ tab'.stored = n
          /\ tokens[n].holder = "nobody" /\ tokens[n].state \notin {"rotated", "loggedOut"}
      BY <1>3, SlotsOf
         DEF ClientMoves, Receives, Owned, Ownership, UnreadUnreceived, UnreceivedUnused
    <2>2. tokens'[n].state \notin {"rotated", "loggedOut"}
      BY <1>1, <2>1 DEF RowsHeld
    <2>3. ~Presentable(n)
      BY <1>3, <2>1 DEF Presentable
    <2>4. ASSUME NEW r \in Elsewhere, Spends(r)'
          PROVE  FALSE
      <3>1. RequestMoves(r, n) /\ r \in Requests
        BY SlotsOf DEF ClientMoves
      <3>2. Idle.phase = "idle"
        BY DEF Idle
      <3> QED
        BY <2>1, <2>3, <2>4, <3>1, <3>2, SlotsOf
           DEF RequestMoves, MovedTo, Spends, Pending, Owned, Ownership, PresentedReceived
    <2> QED
      BY <1>3, <2>1, <2>2, <2>4 DEF OwnSession
  <1>4. CASE KeepsSession
    <2>1. SUFFICES ASSUME Committed'
                   PROVE  OwnSession'
      BY DEF OwnSession
    <2>2. Committed /\ tab'.stored = tab.stored /\ tab.stored # 0
      BY <1>4, <2>1 DEF KeepsSession, Owned, OwnSession
    <2>3. CASE Doomed'
      BY <2>2, <2>3 DEF OwnSession
    <2>4. CASE ~Doomed'
      <3>1. /\ \A r \in Elsewhere : ~Spends(r)
            /\ tokens[tab.stored].state = "rotated" => req[Refreshing].phase = "answered"
            /\ tokens[tab.stored].state # "loggedOut"
        BY <1>4, <2>2, <2>4 DEF KeepsSession, Owned, OwnSession
      <3>2. tab.stored \in DOMAIN tokens
        BY <2>2 DEF Owned, Ownership, TabReceived
      <3>3. tokens'[tab.stored].state \in {tokens[tab.stored].state, "expired"}
        BY <1>1, <3>2 DEF RowsHeld
      <3> QED
        BY <1>4, <2>2, <2>4, <3>1, <3>3 DEF KeepsSession, OwnSession
    <2> QED
      BY <2>3, <2>4
  <1> QED
    BY <1>2, <1>3, <1>4 DEF SessionMoves

\* The server issues tokens nobody has received, and uses those that were presented.
LEMMA ServerOwns ==
    ASSUME Inv, Typed, PageInv, Ownership, NEW r \in Requests, ServerMoves(r),
           UNCHANGED <<tab, calls, leaving>>
    PROVE  Ownership'
  <1> DEFINE n == Len(tokens) + 1
  <1>1. 0 \notin DOMAIN tokens /\ n \notin DOMAIN tokens /\ n # 0
    BY NoZero
  <1> HIDE DEF n
  <1>2. OnlyRequest(r) /\ Pending(r)
    BY DEF ServerMoves, Ends, GoesOn
  <1>3. CASE GoesOn(r) /\ UNCHANGED tokens
    <2>1. \A q \in Requests : /\ Pending(q)' => Pending(q)
                              /\ req'[q].op = req[q].op /\ req'[q].token = req[q].token
                              /\ Unread(q)' => Unread(q) /\ req'[q] = req[q]
                              /\ Refused(q)' => Refused(q)
      BY <1>2, <1>3 DEF GoesOn, OnlyRequest, Pending, Unread, Refused
    <2>2. /\ UnreceivedUnused' /\ PresentedReceived' /\ UnreadUnreceived'
          /\ TabReceived' /\ NextExists'
      BY <1>3, <2>1 DEF Ownership, UnreceivedUnused, PresentedReceived, Presentable,
                        UnreadUnreceived, TabReceived, NextExists
    <2>3. FormIssued' /\ RefreshesOwn'
      BY <1>3, <2>1, SlotsOf DEF Ownership, FormIssued, RefreshesOwn
    <2> QED
      BY <2>2, <2>3 DEF Ownership
  <1>4. ASSUME NEW a \in Answers, a # "ok" \/ req[r].op \notin IssuingOps,
               Ends(r, a, 0), RowsKept(r)
        PROVE  Ownership'
    <2>1. /\ ~Pending(r)' /\ ~Unread(r)'
          /\ Refused(r)' => req'[r].token = req[r].token
          /\ \A q \in Requests \ {r} : req'[q] = req[q]
      BY <1>4, IdleIsRequest DEF Ends, OnlyRequest, Pending, Unread, Refused, IssuingOps
    <2>2. UnreceivedUnused'
      BY <1>1, <1>2, <1>4 DEF RowsKept, Ownership, UnreceivedUnused, PresentedReceived, Presentable
    <2>3. PresentedReceived'
      BY <1>4, <2>1 DEF RowsKept, Ownership, PresentedReceived, Presentable, Pending
    <2>4. UnreadUnreceived'
      BY <1>4, <2>1 DEF RowsKept, Ownership, UnreadUnreceived, Unread
    <2>5. TabReceived' /\ NextExists'
      BY <1>4 DEF RowsKept, Ownership, TabReceived, NextExists
    <2>6. FormIssued'
      BY <1>4, <2>1, SlotsOf DEF RowsKept, Ownership, FormIssued, Unread
    <2>7. \A t : NotTaken(tokens, t) => NotTaken(tokens', t)
      BY <1>4 DEF RowsKept, NotTaken, Ownership, NextExists
    <2>8. RefreshesOwn'
      BY <1>2, <2>1, <2>7, SlotsOf DEF Ownership, RefreshesOwn, Pending, Refused
    <2> QED
      BY <2>2, <2>3, <2>4, <2>5, <2>6, <2>8 DEF Ownership
  <1>5. CASE req[r].op \in IssuingOps /\ Ends(r, "ok", n) /\ RowIssued(r)
    <2>1. /\ DOMAIN tokens' = DOMAIN tokens \cup {n}
          /\ \A t \in DOMAIN tokens :
                /\ tokens'[t].holder = tokens[t].holder
                /\ \/ /\ tokens'[t].next = tokens[t].next
                      /\ tokens'[t].state = tokens[t].state
                   \/ /\ t = req[r].token
                      /\ req[r].op = "refresh"
                      /\ tokens'[t].next = n
          /\ tokens'[n].next = 0
          /\ tokens'[n].state = "live"
          /\ tokens'[n].holder # "tab"
          /\ req[r].by = "tab" => tokens'[n].holder = "nobody"
      BY <1>5 DEF RowIssued, n
    <2>2. /\ ~Pending(r)' /\ ~Refused(r)'
          /\ Unread(r)' => req'[r].issued = n /\ req[r].by = "tab" /\ req'[r].op = req[r].op
          /\ \A q \in Requests \ {r} : req'[q] = req[q]
      BY <1>5, IdleIsRequest DEF Ends, OnlyRequest, Pending, Unread, Refused
    <2>3. UnreceivedUnused'
      BY <1>1, <1>2, <2>1 DEF Ownership, UnreceivedUnused, PresentedReceived, Presentable
    <2>4. PresentedReceived'
      BY <2>1, <2>2 DEF Ownership, PresentedReceived, Presentable, Pending
    <2>5. UnreadUnreceived'
      BY <2>1, <2>2 DEF Ownership, UnreadUnreceived, Unread
    <2>6. TabReceived' /\ NextExists'
      BY <2>1 DEF Ownership, TabReceived, NextExists
    <2>7. FormIssued'
      <3>1. CASE r = Form
        <4>1. req[r].op # "refresh"
          BY <1>2, <3>1 DEF PageInv, Slots, Pending
        <4>2. Unread(Refreshing)' => req'[Refreshing].issued \in DOMAIN tokens
          BY <2>2, <3>1, SlotsOf DEF Ownership, UnreadUnreceived, Unread
        <4>3. \A t \in DOMAIN tokens' : tokens'[t].next # n
          BY <1>1, <2>1, <4>1 DEF Ownership, NextExists
        <4> QED
          BY <1>1, <2>2, <3>1, <4>2, <4>3 DEF FormIssued
      <3>2. CASE r # Form
        <4>1. req'[Form] = req[Form]
          BY <2>2, <3>2, SlotsOf
        <4>2. Unread(Form)' => Unread(Form) /\ req[Form].issued \in DOMAIN tokens
          BY <4>1, SlotsOf DEF Ownership, UnreadUnreceived, Unread
        <4>3. Unread(Form)' /\ Unread(Refreshing)' => req'[Refreshing].issued # req'[Form].issued
          <5>1. CASE r = Refreshing
            BY <1>1, <2>2, <4>1, <4>2, <5>1
          <5>2. CASE r # Refreshing
            <6>1. req'[Refreshing] = req[Refreshing]
              BY <2>2, <5>2, SlotsOf
            <6> QED
              BY <4>1, <4>2, <6>1 DEF Ownership, FormIssued, Unread
          <5> QED
            BY <5>1, <5>2
        <4>4. Unread(Form)' => \A t \in DOMAIN tokens' : tokens'[t].next # req'[Form].issued
          BY <1>1, <2>1, <4>1, <4>2 DEF Ownership, FormIssued
        <4> QED
          BY <4>3, <4>4 DEF FormIssued
      <3> QED
        BY <3>1, <3>2
    <2>8. \A t : NotTaken(tokens, t) => NotTaken(tokens', t)
      BY <1>1, <2>1 DEF NotTaken, Ownership, NextExists
    <2>9. RefreshesOwn'
      BY <1>2, <2>2, <2>8, SlotsOf DEF Ownership, RefreshesOwn, Pending, Refused
    <2> QED
      BY <2>3, <2>4, <2>5, <2>6, <2>7, <2>9 DEF Ownership
  <1> QED
    BY <1>3, <1>4, <1>5 DEF ServerMoves, n

\* The server spends the token of the tab only for a request of the tab.
LEMMA ServerHasSession ==
    ASSUME Inv, Typed, PageInv, Owned, NEW r \in Requests, ServerMoves(r),
           UNCHANGED <<tab, calls, leaving>>
    PROVE  OwnSession'
  <1>1. SUFFICES ASSUME Committed
                 PROVE  OwnSession'
    BY DEF OwnSession, Committed
  <1>2. tab.stored # 0 /\ tab'.stored = tab.stored /\ tab.stored \in DOMAIN tokens
    BY <1>1 DEF Owned, OwnSession, Ownership, TabReceived
  <1>3. /\ Pending(r)
        /\ \A q \in Requests \ {r} : req'[q] = req[q]
        /\ req[r].by = "tab" => /\ req'[r].phase \in {"open", "answered"}
                                /\ req'[r].op = req[r].op
        /\ Pending(r)' => req'[r].op = req[r].op /\ req'[r].token = req[r].token
    BY IdleIsRequest DEF ServerMoves, Ends, GoesOn, OnlyRequest, Pending
  <1>4. Doomed => Doomed'
    BY <1>3, SlotsOf DEF Doomed, Pending
  <1>5. CASE Doomed'
    BY <1>2, <1>5 DEF OwnSession
  <1>6. CASE ~Doomed'
    <2>1. /\ \A q \in Elsewhere : ~Spends(q)
          /\ tokens[tab.stored].state = "rotated" => req[Refreshing].phase = "answered"
          /\ tokens[tab.stored].state # "loggedOut"
      BY <1>1, <1>4, <1>6 DEF Owned, OwnSession
    <2>2. \A q \in Elsewhere : ~Spends(q)'
      BY <1>2, <1>3, <2>1, SlotsOf DEF Spends, Pending
    <2>3. req[Refreshing].phase = "answered" => req'[Refreshing].phase = "answered"
      BY <1>3, SlotsOf DEF Pending
    <2>4. Spends(r) => r \in {Refreshing, Form} /\ req[r].by = "tab"
      BY <1>3, <2>1, SlotsOf DEF PageInv, Slots, Pending
    <2>5. Pending(Refreshing) => req[Refreshing].op = "refresh"
      BY SlotsOf DEF Inv, Named, Pending
    <2>6. Pending(Form) => req[Form].op # "refresh"
      BY SlotsOf DEF PageInv, Slots, Pending
    <2>7. \/ tokens'[tab.stored].state \in {tokens[tab.stored].state, "reset", "expired"}
          \/ /\ tokens'[tab.stored].state = "loggedOut"
             /\ Spends(r) /\ req[r].op = "logout"
             /\ req[r].by = "tab" => req'[r].phase = "answered"
          \/ /\ tokens'[tab.stored].state = "rotated"
             /\ Spends(r) /\ req[r].op = "refresh"
             /\ req[r].by = "tab" => req'[r].phase = "answered"
      <3>1. CASE GoesOn(r) /\ UNCHANGED tokens
        BY <3>1
      <3>2. ASSUME NEW a \in Answers, Ends(r, a, 0), RowsKept(r)
            PROVE  <2>7
        BY <1>2, <1>3, <3>2 DEF Ends, RowsKept, Spends
      <3>3. CASE Ends(r, "ok", Len(tokens) + 1) /\ RowIssued(r)
        BY <1>2, <1>3, <3>3 DEF Ends, RowIssued, Spends
      <3> QED
        BY <3>1, <3>2, <3>3 DEF ServerMoves
    <2>8. ~(Spends(r) /\ req[r].op = "logout" /\ req'[r].phase = "answered")
      BY <1>3, <1>6, <2>4, <2>5 DEF Doomed
    <2>9. /\ tokens'[tab.stored].state = "rotated" => req'[Refreshing].phase = "answered"
          /\ tokens'[tab.stored].state # "loggedOut"
      BY <1>3, <2>1, <2>3, <2>4, <2>6, <2>7, <2>8
    <2> QED
      BY <1>2, <2>2, <2>9 DEF OwnSession
  <1> QED
    BY <1>5, <1>6

TabMoves == \E n : ClientMoves(n) /\ SessionMoves(n)

\* What the actions of the tab do to the rows, to its slots and to its session.
LEMMA RowsAlone ==
    ASSUME Typed, UNCHANGED tokens
    PROVE  RowsHeld(0)
  BY NoZero DEF RowsHeld

\* Receiving a token changes who holds it and nothing else.
LEMMA RowReceived ==
    ASSUME Typed, NEW n \in DOMAIN tokens, tokens' = Received(n)
    PROVE  RowsHeld(n)
  <1>1. \A t \in DOMAIN tokens : tokens[t] \in Token
    BY RowsTyped DEF Typed
  <1>2. DOMAIN tokens' = DOMAIN tokens
    BY DEF Received
  <1>3. tokens'[n] = [tokens[n] EXCEPT !.holder = "tab"]
    BY DEF Received
  <1>4. \A t \in DOMAIN tokens : t # n => tokens'[t] = tokens[t]
    BY DEF Received
  <1>5. tokens'[n].next = tokens[n].next /\ tokens'[n].state = tokens[n].state
        /\ tokens'[n].holder = "tab"
    BY <1>1, <1>3 DEF Token
  <1> QED
    BY <1>2, <1>4, <1>5 DEF RowsHeld

\* A slot is freed.
LEMMA SlotFreed ==
    ASSUME Typed, NEW n, NEW s \in {Refreshing, Form}, req' = [req EXCEPT ![s] = Idle]
    PROVE  /\ \A r \in Requests : RequestMoves(r, n)
           /\ req'[s] = Idle
           /\ \A r \in Requests : r # s => req'[r] = req[r]
  BY SlotsOf, TabShape DEF RequestMoves

\* The tab sends a request with a token it may present.
LEMMA SlotSent ==
    ASSUME Typed, NEW s \in {Refreshing, Form}, NEW op, NEW t, Presentable(t),
           req' = [req EXCEPT ![s] = Request(op, t)],
           s = Refreshing => t = tab.stored /\ t # 0
    PROVE  /\ \A r \in Requests : RequestMoves(r, 0)
           /\ \A r \in Requests : r # s => req'[r] = req[r]
  <1> DEFINE q == Request(op, t)
  <1>1. q.phase = "sent" /\ q.token = t
    BY RequestFieldsOf
  <1>2. req' = [req EXCEPT ![s] = q]
    OBVIOUS
  <1> HIDE DEF q
  <1>3. req'[s] = q /\ \A r \in Requests : r # s => req'[r] = req[r]
    BY <1>2, SlotsOf, TabShape
  <1> QED
    BY <1>1, <1>3 DEF RequestMoves

\* What the tab holds, it may present.
LEMMA HeldPresentable ==
    ASSUME Ownership
    PROVE  Presentable(tab.stored) /\ Presentable(tab.leavingWith) /\ Presentable(0)
  BY DEF Ownership, TabReceived, Presentable

\* A step of the tab that leaves its session alone.
LEMMA Keeping ==
    ASSUME tab'.stored = tab.stored, Committed' => Committed,
           req[Refreshing].phase # "idle" => req'[Refreshing] = req[Refreshing],
           req[Form].phase = "answered" /\ req[Form].op = "logout" => req'[Form] = req[Form],
           \A r \in Elsewhere : req'[r] = req[r]
    PROVE  KeepsSession
  BY DEF KeepsSession, Doomed, Spends, Pending

\* The page loads, as a move of the tab.
LEMMA InitializeMoves ==
    ASSUME Inv, Typed, PageInv, Owned, Initialize
    PROVE  TabMoves
  <1>1. /\ tab'.stored = tab.stored /\ tab'.leavingWith = tab.leavingWith
        /\ tab'.signedIn = tab.signedIn /\ UNCHANGED <<calls, tokens>> /\ ~tab.started
    <2>1. tab \in Tab
      BY TabShape
    <2> QED
      BY <2>1 DEF Initialize, Tab, serverVars
  <1>2. \A r \in Requests : RequestMoves(r, 0)
    <2>1. CASE UNCHANGED req
      BY <2>1 DEF RequestMoves
    <2>2. CASE tab.stored # 0 /\ req' = [req EXCEPT ![Refreshing] = Request("refresh", tab.stored)]
      BY <2>2, SlotSent, HeldPresentable DEF Owned
    <2> QED
      BY <2>1, <2>2 DEF Initialize, Send, serverVars
  <1>3. ~Committed'
    BY <1>1 DEF Committed, PageInv, Loading
  <1>4. ClientMoves(0)
    BY <1>1, <1>2, RowsAlone DEF ClientMoves
  <1> QED
    BY <1>3, <1>4 DEF TabMoves, SessionMoves

\* An answer of the refresh that the tab can use.
LEMMA RefreshUnread ==
    ASSUME Inv, Answered(Refreshing), req[Refreshing].answer = "ok"
    PROVE  Unread(Refreshing) /\ req[Refreshing].issued \in DOMAIN tokens
  BY SlotsOf DEF Inv, Named, Answered, Unread

\* The answer to the refresh of a page load, as a move of the tab.
LEMMA RestoreMoves ==
    ASSUME Inv, Typed, PageInv, Owned, Restored \/ RestoreFails
    PROVE  TabMoves
  <1>1. req' = [req EXCEPT ![Refreshing] = Idle]
    BY DEF Restored, RestoreFails
  <1>2. CASE Restored
    <2> DEFINE n == req[Refreshing].issued
    <2>1. Unread(Refreshing) /\ n \in DOMAIN tokens /\ tab' = Holding(n) /\ tokens' = Received(n)
      BY <1>2, RefreshUnread DEF Restored
    <2>2. n # 0 /\ req[Refreshing].issued = n
      BY <2>1, NoZero
    <2> HIDE DEF n
    <2>3. RowsHeld(n)
      BY <2>1, RowReceived
    <2>4. (\A r \in Requests : RequestMoves(r, n)) /\ req'[Refreshing] = Idle
      BY <1>1, SlotFreed
    <2>5. tab'.stored = n /\ tab'.leavingWith = tab.leavingWith
      BY <2>1, HoldingFields
    <2>6. ClientMoves(n)
      BY <2>1, <2>2, <2>3, <2>4, <2>5 DEF ClientMoves, Receives
    <2> QED
      BY <2>2, <2>6 DEF TabMoves, SessionMoves
  <1>3. CASE RestoreFails
    <2>1. /\ tab' = [SignedOut EXCEPT !.checked = TRUE] /\ UNCHANGED <<tokens, calls>>
          /\ ~tab.checked /\ ~tab.shared /\ req[Refreshing].phase = "answered"
      BY <1>3 DEF RestoreFails, Answered
    <2>2. tab'.stored = 0 /\ tab'.signedIn = FALSE /\ tab'.leavingWith = tab.leavingWith
      BY <2>1, SignedOutFields, SignedOutLeaving DEF Tab
    <2>3. calls[Me].phase = "idle"
      BY <2>1 DEF PageInv, Loading
    <2>4. \A r \in Requests : RequestMoves(r, 0)
      BY <1>1, SlotFreed
    <2>5. ClientMoves(0)
      BY <2>1, <2>2, <2>4, RowsAlone DEF ClientMoves
    <2>6. ~Committed'
      BY <2>1, <2>2, <2>3 DEF Committed
    <2> QED
      BY <2>5, <2>6 DEF TabMoves, SessionMoves
  <1> QED
    BY <1>2, <1>3

\* The answer to the shared refresh, as a move of the tab.
LEMMA RefreshedMoves ==
    ASSUME Inv, Typed, PageInv, Owned, Refreshed
    PROVE  TabMoves
  <1> DEFINE n == req[Refreshing].issued
             q == Request("logout", tab.leavingWith)
             h == Holding(n)
  <1>1. Unread(Refreshing) /\ n \in DOMAIN tokens /\ tokens' = Received(n)
    BY RefreshUnread DEF Refreshed
  <1>2. n # 0 /\ req[Refreshing].issued = n
    BY <1>1, NoZero
  <1>3. tab' = [h EXCEPT !.shared = FALSE]
    BY DEF Refreshed, Renewed
  <1>4. h \in Tab /\ h.stored = n /\ h.leavingWith = tab.leavingWith
    BY <1>1, HoldingFields
  <1>5. \/ req' = [req EXCEPT ![Refreshing] = Idle, ![Form] = q]
        \/ req' = [req EXCEPT ![Refreshing] = Idle]
    BY DEF Refreshed
  <1>6. q.phase = "sent" /\ q.token = tab.leavingWith
    BY RequestFieldsOf
  <1> HIDE DEF n, q, h
  <1>7. RowsHeld(n)
    BY <1>1, RowReceived
  <1>8. tab'.stored = n /\ tab'.leavingWith = tab.leavingWith
    BY <1>3, <1>4 DEF Tab
  <1>9. /\ req'[Refreshing] = Idle
        /\ req'[Form] = req[Form] \/ req'[Form] = q
        /\ \A r \in Elsewhere : req'[r] = req[r]
    BY <1>5, SlotsOf, TabShape
  <1>10. \A r \in Requests : RequestMoves(r, n)
    BY <1>6, <1>9, SlotsOf, HeldPresentable DEF RequestMoves, Owned
  <1>11. ClientMoves(n)
    BY <1>1, <1>2, <1>7, <1>8, <1>9, <1>10 DEF ClientMoves, Receives
  <1> QED
    BY <1>2, <1>11 DEF TabMoves, SessionMoves

\* A failed refresh, as a move of the tab.
LEMMA RefreshFailsMoves ==
    ASSUME Inv, Typed, PageInv, Owned, RefreshFails
    PROVE  TabMoves
  <1>1. /\ req' = [req EXCEPT ![Refreshing] = Idle] /\ UNCHANGED tokens
        /\ tab.shared
    BY DEF RefreshFails
  <1>2. tab'.signedIn = FALSE /\ tab'.stored = 0 /\ tab'.leavingWith = 0
    <2> DEFINE t == [SignedOut EXCEPT !.shared = FALSE, !.leavingWith = 0]
    <2>1. t \in Tab /\ t.signedIn = FALSE /\ t.stored = 0 /\ t.leavingWith = 0
      BY SignedOutFields, AuthAssumption DEF Tab
    <2>2. tab' = t \/ tab' = [t EXCEPT !.checked = TRUE]
      BY DEF RefreshFails
    <2> HIDE DEF t
    <2>3. CASE tab' = t
      BY <2>1, <2>3
    <2>4. CASE tab' = [t EXCEPT !.checked = TRUE]
      BY <2>1, <2>4 DEF Tab
    <2> QED
      BY <2>2, <2>3, <2>4
  <1>3. calls'[Me].phase = "idle"
    <2>1. calls'[Me] = IF Me \in Waiting THEN Quiet ELSE calls[Me]
      BY SlotsOf DEF RefreshFails
    <2> QED
      BY <1>1, <2>1, SlotsOf DEF PageInv, Loading, Waiting, Quiet
  <1>4. \A r \in Requests : RequestMoves(r, 0)
    BY <1>1, SlotFreed
  <1>5. ClientMoves(0)
    BY <1>1, <1>2, <1>4, RowsAlone DEF ClientMoves
  <1>6. ~Committed'
    BY <1>2, <1>3 DEF Committed
  <1> QED
    BY <1>5, <1>6 DEF TabMoves, SessionMoves

\* The answers to the forms, as moves of the tab.
LEMMA AnsweredFormMoves ==
    ASSUME Inv, Typed, PageInv, Owned, SubmitAnswered \/ LogoutAnswered
    PROVE  TabMoves
  <1>1. req' = [req EXCEPT ![Form] = Idle] /\ req[Form].phase = "answered"
    BY DEF SubmitAnswered, LogoutAnswered, Answered
  <1>2. /\ \A n : \A r \in Requests : RequestMoves(r, n)
        /\ req'[Form] = Idle
        /\ \A r \in Requests : r # Form => req'[r] = req[r]
    BY <1>1, SlotFreed
  <1>3. CASE LogoutAnswered
    <2>1. tab'.signedIn = FALSE /\ tab'.stored = 0 /\ tab'.leavingWith = 0
      BY <1>3, SignedOutFields, AuthAssumption DEF LogoutAnswered, Tab
    <2>2. calls'[Me].phase = "idle" /\ UNCHANGED tokens
      BY <1>1, <1>3 DEF LogoutAnswered, PageInv, Loading
    <2>3. ClientMoves(0)
      BY <1>2, <2>1, <2>2, RowsAlone DEF ClientMoves
    <2>4. ~Committed'
      BY <2>1, <2>2 DEF Committed
    <2> QED
      BY <2>3, <2>4 DEF TabMoves, SessionMoves
  <1>4. CASE SubmitAnswered /\ req[Form].answer = "ok"
    <2> DEFINE n == req[Form].issued
               h == Holding(n)
    <2>1. Unread(Form) /\ n \in DOMAIN tokens
      BY <1>4, SlotsOf DEF SubmitAnswered, Inv, Named, Answered, Unread
    <2>2. tab' = [h EXCEPT !.signedIn = TRUE] /\ tokens' = Received(n)
      BY <1>4 DEF SubmitAnswered
    <2>3. h \in Tab /\ h.stored = n /\ h.leavingWith = tab.leavingWith
      BY <2>1, HoldingFields
    <2>4. n # 0 /\ req[Form].issued = n
      BY <2>1, NoZero
    <2> HIDE DEF n, h
    <2>5. tab'.stored = n /\ tab'.leavingWith = tab.leavingWith
      BY <2>2, <2>3 DEF Tab
    <2>6. RowsHeld(n)
      BY <2>1, <2>2, RowReceived
    <2>7. ClientMoves(n)
      BY <1>2, <2>1, <2>4, <2>5, <2>6 DEF ClientMoves, Receives
    <2> QED
      BY <2>4, <2>7 DEF TabMoves, SessionMoves
  <1>5. CASE SubmitAnswered /\ req[Form].answer # "ok"
    <2>1. UNCHANGED <<tab, tokens, calls>> /\ req[Form].op # "logout"
      BY <1>5 DEF SubmitAnswered
    <2>2. ClientMoves(0)
      BY <1>2, <2>1, RowsAlone DEF ClientMoves
    <2>3. KeepsSession
      BY <1>2, <2>1, SlotsOf, Keeping DEF Committed
    <2> QED
      BY <2>2, <2>3 DEF TabMoves, SessionMoves
  <1> QED
    BY <1>3, <1>4, <1>5

\* The tab after a refresh has begun, or been joined.
LEMMA JoinedFields ==
    ASSUME NEW t \in Tab, tab' = t \/ tab' = [t EXCEPT !.shared = TRUE]
    PROVE  /\ tab'.stored = t.stored /\ tab'.leavingWith = t.leavingWith
           /\ tab'.signedIn = t.signedIn
  <1>1. CASE tab' = t
    BY <1>1
  <1>2. CASE tab' = [t EXCEPT !.shared = TRUE]
    BY <1>2 DEF Tab
  <1> QED
    BY <1>1, <1>2

\* A 401, as a move of the tab.
LEMMA JoinMoves ==
    ASSUME Typed, PageInv, Owned, NEW t \in Tab, JoinRefresh(t),
           t.stored = tab.stored, t.signedIn = tab.signedIn,
           t.leavingWith \in {tab.leavingWith, tab.stored},
           calls'[Me].phase # "idle" => calls[Me].phase # "idle"
    PROVE  TabMoves
  <1>1. /\ tab' = t \/ tab' = [t EXCEPT !.shared = TRUE]
        /\ UNCHANGED <<user, tokens, links>>
        /\ \/ req' = req
           \/ /\ req[Refreshing] = Idle /\ tab.stored # 0
              /\ req' = [req EXCEPT ![Refreshing] = Request("refresh", tab.stored)]
    BY JoinPage
  <1>2. /\ tab'.stored = tab.stored /\ tab'.signedIn = tab.signedIn
        /\ tab'.leavingWith \in {tab.leavingWith, tab.stored}
    BY <1>1, JoinedFields
  <1>3. /\ \A r \in Requests : RequestMoves(r, 0)
        /\ \A r \in Requests : r # Refreshing => req'[r] = req[r]
        /\ req[Refreshing].phase # "idle" => req'[Refreshing] = req[Refreshing]
    <2>1. CASE req' = req
      BY <2>1 DEF RequestMoves
    <2>2. CASE req[Refreshing] = Idle /\ tab.stored # 0
               /\ req' = [req EXCEPT ![Refreshing] = Request("refresh", tab.stored)]
      BY <2>2, SlotSent, HeldPresentable, IdleIsRequest DEF Owned, Idle
    <2> QED
      BY <1>1, <2>1, <2>2
  <1>4. ClientMoves(0)
    BY <1>1, <1>2, <1>3, RowsAlone DEF ClientMoves
  <1>5. Committed' => Committed
    BY <1>2 DEF Committed
  <1>6. KeepsSession
    BY <1>2, <1>3, <1>5, SlotsOf, Keeping
  <1> QED
    BY <1>4, <1>6 DEF TabMoves, SessionMoves

\* The logout, as a move of the tab.
LEMMA LogoutMoves ==
    ASSUME Inv, Typed, PageInv, Owned, Logout \/ LogoutRejected
    PROVE  TabMoves
  <1>1. tab \in Tab /\ UNCHANGED calls
    BY TabShape DEF Logout, LogoutRejected
  <1>2. CASE LogoutRejected
    <2> DEFINE q == Request("refresh", tab.stored)
    <2>1. /\ \/ tab' = tab /\ req' = [req EXCEPT ![Form] = Idle]
             \/ /\ tab' = [tab EXCEPT !.shared = TRUE] /\ req[Refreshing] = Idle
                /\ req' = [req EXCEPT ![Form] = Idle, ![Refreshing] = q]
          /\ UNCHANGED tokens
          /\ req[Form].phase = "sent" /\ tab.access = "expired"
      BY <1>2 DEF LogoutRejected, At
    <2>2. q.phase = "sent" /\ q.token = tab.stored
      BY RequestFieldsOf
    <2> HIDE DEF q
    <2>3. tab.stored # 0
      BY <2>1 DEF Inv, TabNamed
    <2>4. /\ req'[Form] = Idle
          /\ \/ req'[Refreshing] = req[Refreshing]
             \/ req[Refreshing] = Idle /\ req'[Refreshing] = q
          /\ \A r \in Elsewhere : req'[r] = req[r]
      BY <2>1, SlotsOf, TabShape
    <2>5. \A r \in Requests : RequestMoves(r, 0)
      BY <2>2, <2>3, <2>4, SlotsOf, HeldPresentable DEF RequestMoves, Owned
    <2>6. /\ tab'.stored = tab.stored /\ tab'.leavingWith = tab.leavingWith
          /\ tab'.signedIn = tab.signedIn
      BY <1>1, <2>1, JoinedFields
    <2>7. ClientMoves(0)
      BY <2>1, <2>5, <2>6, RowsAlone DEF ClientMoves
    <2>8. KeepsSession
      <3>1. req[Refreshing].phase # "idle" => req'[Refreshing] = req[Refreshing]
        BY <2>4 DEF Idle
      <3>2. Committed' => Committed
        BY <1>1, <2>6 DEF Committed
      <3> QED
        BY <2>1, <2>4, <2>6, <3>1, <3>2, Keeping
    <2> QED
      BY <2>7, <2>8 DEF TabMoves, SessionMoves
  <1>3. CASE Logout
    <2> DEFINE t == [tab EXCEPT !.leavingWith = tab.stored]
    <2>1. /\ t \in Tab /\ t.stored = tab.stored /\ t.signedIn = tab.signedIn
          /\ t.leavingWith = tab.stored
      BY <1>1 DEF Tab
    <2>2. CASE JoinRefresh(t)
      <3> HIDE DEF t
      <3> QED
        BY <1>1, <2>1, <2>2, JoinMoves
    <2>3. CASE tab' = t /\ UNCHANGED tokens /\ req[Form] = Idle
               /\ req' = [req EXCEPT ![Form] = Request("logout", tab.stored)]
      <3> HIDE DEF t
      <3>1. /\ \A r \in Requests : RequestMoves(r, 0)
            /\ \A r \in Requests : r # Form => req'[r] = req[r]
        BY <2>3, SlotSent, SlotsOf, HeldPresentable DEF Owned
      <3>2. ClientMoves(0)
        BY <2>1, <2>3, <3>1, RowsAlone DEF ClientMoves
      <3>3. Committed' => Committed
        BY <1>1, <2>1, <2>3 DEF Committed
      <3>4. req[Form].phase = "idle"
        BY <2>3 DEF Idle
      <3>5. KeepsSession
        BY <2>1, <2>3, <3>1, <3>3, <3>4, SlotsOf, Keeping
      <3> QED
        BY <3>2, <3>5 DEF TabMoves, SessionMoves
    <2> QED
      BY <1>3, <2>2, <2>3 DEF Logout, Send
  <1> QED
    BY <1>2, <1>3

\* A form, as a move of the tab.
LEMMA SubmitMoves ==
    ASSUME Inv, Typed, PageInv, Owned, NEW op \in {"login", "register"}, Submit(op)
    PROVE  TabMoves
  <1>1. /\ req[Form] = Idle /\ req' = [req EXCEPT ![Form] = Request(op, 0)]
        /\ UNCHANGED <<tokens, tab, calls>>
    BY DEF Submit, Send, clientVars
  <1>2. /\ \A r \in Requests : RequestMoves(r, 0)
        /\ \A r \in Requests : r # Form => req'[r] = req[r]
    BY <1>1, SlotSent, SlotsOf DEF Presentable
  <1>3. ClientMoves(0)
    BY <1>1, <1>2, RowsAlone DEF ClientMoves
  <1>4. req[Form].phase = "idle" /\ (Committed' => Committed)
    BY <1>1 DEF Idle, Committed
  <1>5. KeepsSession
    BY <1>1, <1>2, <1>4, SlotsOf, Keeping
  <1> QED
    BY <1>3, <1>5 DEF TabMoves, SessionMoves

\* A call, as a move of the tab.
LEMMA CallMoves ==
    ASSUME Inv, Typed, PageInv, Owned, NEW c \in AllCalls, CallStep(c)
    PROVE  TabMoves
  <1>1. tab \in Tab /\ calls \in [AllCalls -> CallRecord]
    BY TabShape
  <1>2. CASE CallRejected(c)
    <2>1. calls[c].phase = "sent" /\ calls' = [calls EXCEPT ![c].phase = "waiting"]
          /\ JoinRefresh(tab)
      BY <1>2 DEF CallRejected
    <2>2. calls'[Me].phase # "idle" => calls[Me].phase # "idle"
      BY <1>1, <2>1, SlotsOf
    <2> QED
      BY <1>1, <2>1, <2>2, JoinMoves
  <1>3. CASE CallSucceeds(c) \/ CallFails(c) \/ CallGivesUp(c)
    <2>1. /\ UNCHANGED <<tokens, req>>
          /\ calls[c].phase # "idle" /\ calls' = [calls EXCEPT ![c] = Quiet]
          /\ \/ tab' = AfterCall(c, TRUE)
             \/ tab' = AfterCall(c, FALSE)
      BY <1>3 DEF CallSucceeds, CallFails, CallGivesUp, InFlight, serverVars
    <2>2. calls'[c].phase = "idle" /\ \A x \in AllCalls : x # c => calls'[x] = calls[x]
      BY <1>1, <2>1 DEF Quiet
    <2>3. \A r \in Requests : RequestMoves(r, 0)
      BY <2>1 DEF RequestMoves
    <2>4. CASE tab' = tab
      <3>1. ClientMoves(0)
        BY <2>1, <2>3, <2>4, RowsAlone DEF ClientMoves
      <3>2. Committed' => Committed
        BY <2>1, <2>2, <2>4, SlotsOf DEF Committed
      <3>3. KeepsSession
        BY <2>1, <2>4, <3>2, SlotsOf, Keeping
      <3> QED
        BY <3>1, <3>3 DEF TabMoves, SessionMoves
    <2>5. CASE c = Me /\ tab' = [tab EXCEPT !.signedIn = TRUE, !.checked = TRUE]
      <3>1. tab'.stored = tab.stored /\ tab'.leavingWith = tab.leavingWith
        BY <1>1, <2>5 DEF Tab
      <3>2. ClientMoves(0)
        BY <2>1, <2>3, <3>1, RowsAlone DEF ClientMoves
      <3>3. Committed
        BY <2>1, <2>5 DEF Committed
      <3>4. KeepsSession
        BY <2>1, <3>1, <3>3, SlotsOf, Keeping
      <3> QED
        BY <3>2, <3>4 DEF TabMoves, SessionMoves
    <2>6. CASE c = Me /\ tab' = [SignedOut EXCEPT !.checked = TRUE]
      <3>1. tab'.stored = 0 /\ tab'.signedIn = FALSE /\ tab'.leavingWith = tab.leavingWith
        BY <2>6, SignedOutFields, SignedOutLeaving DEF Tab
      <3>2. ClientMoves(0)
        BY <2>1, <2>3, <3>1, RowsAlone DEF ClientMoves
      <3>3. ~Committed'
        BY <2>2, <2>6, <3>1 DEF Committed
      <3> QED
        BY <3>2, <3>3 DEF TabMoves, SessionMoves
    <2> QED
      BY <2>1, <2>4, <2>5, <2>6 DEF AfterCall
  <1> QED
    BY <1>2, <1>3 DEF CallStep

\* Calls that start and access tokens that expire, as moves of the tab.
LEMMA CallsMove ==
    ASSUME Inv, Typed, PageInv, Owned,
           (\E c \in Calls : StartCall(c)) \/ (\E S \in SUBSET AllCalls : AccessExpires(S))
    PROVE  TabMoves
  <1>1. tab \in Tab /\ calls \in [AllCalls -> CallRecord]
    BY TabShape
  <1>2. UNCHANGED <<tokens, req>>
    BY DEF StartCall, AccessExpires, serverVars
  <1>3. /\ tab'.stored = tab.stored /\ tab'.leavingWith = tab.leavingWith
        /\ tab'.signedIn = tab.signedIn
    BY <1>1 DEF StartCall, AccessExpires, Tab
  <1>4. calls'[Me].phase = calls[Me].phase
    <2>1. ASSUME NEW c \in Calls, StartCall(c)
          PROVE  calls'[Me].phase = calls[Me].phase
      BY <1>1, <2>1, SlotsOf DEF StartCall
    <2>2. ASSUME NEW S \in SUBSET AllCalls, AccessExpires(S)
          PROVE  calls'[Me].phase = calls[Me].phase
      BY <1>1, <2>2, SlotsOf DEF AccessExpires, CallRecord
    <2> QED
      BY <2>1, <2>2
  <1>5. ClientMoves(0)
    BY <1>2, <1>3, RowsAlone DEF ClientMoves, RequestMoves
  <1>6. KeepsSession
    BY <1>2, <1>3, <1>4, Keeping DEF Committed
  <1> QED
    BY <1>5, <1>6 DEF TabMoves, SessionMoves

\* A reload or a network error, as a move of the tab.
LEMMA LostMoves ==
    ASSUME Inv, Typed, PageInv, Owned,
           Reload \/ (\E r \in {Refreshing, Form} : NetworkError(r))
    PROVE  TabMoves
  <1>1. CASE Reload
    <2> DEFINE R == {Refreshing, Form}
    <2>1. Detach(R, [x \in R |-> Idle]) /\ UNCHANGED tokens
      BY <1>1 DEF Reload
    <2>2. /\ req'[Refreshing] = Idle /\ req'[Form] = Idle
          /\ \A r \in Elsewhere : req'[r] = req[r] \/ (\E s \in R : MovedTo(r, s))
      BY <2>1, DetachSlots
    <2>3. \A r \in Requests : RequestMoves(r, 0)
      BY <2>2, SlotsOf DEF RequestMoves
    <2>4. tab'.stored = tab.stored /\ tab'.signedIn = FALSE /\ tab'.leavingWith = 0
      BY <1>1 DEF Reload, Fresh
    <2>5. calls'[Me].phase = "idle"
      BY <1>1, SlotsOf DEF Reload, Quiet
    <2>6. ClientMoves(0)
      BY <2>1, <2>3, <2>4, RowsAlone DEF ClientMoves
    <2>7. ~Committed'
      BY <2>4, <2>5 DEF Committed
    <2> QED
      BY <2>6, <2>7 DEF TabMoves, SessionMoves
  <1>2. ASSUME NEW r \in {Refreshing, Form}, NetworkError(r)
        PROVE  TabMoves
    <2> DEFINE p == Request(req[r].op, 0)
               q == [p EXCEPT !.phase = "answered", !.answer = "error"]
    <2>1. /\ Detach({r}, [x \in {r} |-> q]) /\ UNCHANGED <<tokens, tab, calls>>
          /\ req[r].by = "tab"
      BY <1>2 DEF NetworkError
    <2>2. q.phase = "answered" /\ q.answer = "error" /\ q.op = req[r].op
      BY DEF Request, Idle
    <2> HIDE DEF q
    <2>3. /\ req'[r] = q
          /\ \A x \in {Refreshing, Form} \ {r} : req'[x] = req[x]
          /\ \A x \in Elsewhere : req'[x] = req[x] \/ MovedTo(x, r)
      BY <2>1, DetachSlots
    <2>4. \A x \in Requests : RequestMoves(x, 0)
      BY <2>2, <2>3, SlotsOf DEF RequestMoves
    <2>5. ClientMoves(0)
      BY <2>1, <2>4, RowsAlone DEF ClientMoves
    <2>6. Committed' => Committed
      BY <2>1 DEF Committed
    <2>7. CASE Doomed'
      BY <2>1, <2>6, <2>7, <2>5 DEF KeepsSession, TabMoves, SessionMoves
    <2>8. CASE ~Doomed'
      <3>1. r = Form /\ req[Form].op # "logout"
        BY <2>2, <2>3, <2>8 DEF Doomed
      <3>2. req[Form].phase # "idle"
        BY <2>1, <3>1, SlotsOf DEF Inv, Named
      <3>3. req[Form].op \notin {"refresh", "logout"}
        BY <3>1, <3>2 DEF PageInv, Slots
      <3>4. req'[Refreshing] = req[Refreshing]
        BY <2>3, <3>1, SlotsOf
      <3>5. \A x \in Elsewhere : Spends(x)' => Spends(x)
        BY <2>1, <2>3, <3>1, <3>3 DEF Spends, Pending, MovedTo
      <3>6. ~Doomed
        BY <2>8, <3>1, <3>4 DEF Doomed
      <3>7. KeepsSession
        BY <2>1, <2>6, <3>4, <3>5, <3>6 DEF KeepsSession
      <3> QED
        BY <2>5, <3>7 DEF TabMoves, SessionMoves
    <2> QED
      BY <2>7, <2>8
  <1> QED
    BY <1>1, <1>2

\* Others refresh with tokens of their own, and a token that expires was live.
LEMMA AroundMoves ==
    ASSUME Inv, Typed, PageInv, Owned,
           \/ (\E l \in Links : SendTo(l)) \/ Expiry \/ UNCHANGED vars
           \/ \E r \in Elsewhere, op \in Ops, t \in 0..MaxTokens, l \in Links \cup {NoLink} :
                 OtherRequest(r, op, t, l)
    PROVE  TabMoves
  <1>1. UNCHANGED <<tab, calls>>
    BY DEF SendTo, Expiry, OtherRequest, clientVars, vars, serverVars
  <1>2. CASE UNCHANGED req
    <2>1. RowsHeld(0)
      <3>1. CASE UNCHANGED tokens
        BY <3>1, RowsAlone
      <3>2. ASSUME NEW t \in DOMAIN tokens, TokenExpires(t)
            PROVE  RowsHeld(0)
        <4>1. /\ DOMAIN tokens' = DOMAIN tokens
              /\ tokens'[t] = [tokens[t] EXCEPT !.state = "expired"]
              /\ \A x \in DOMAIN tokens : x # t => tokens'[x] = tokens[x]
          BY <3>2 DEF TokenExpires
        <4>2. tokens[t] \in Token
          BY RowsTyped DEF Typed
        <4>3. /\ tokens'[t].next = tokens[t].next /\ tokens'[t].state = "expired"
              /\ tokens'[t].holder = tokens[t].holder
          BY <4>1, <4>2 DEF Token
        <4> QED
          BY <4>1, <4>3, NoZero DEF RowsHeld
      <3>3. ASSUME NEW r \in Elsewhere, NEW op, NEW t, NEW l, OtherRequest(r, op, t, l)
            PROVE  UNCHANGED tokens
        BY <3>3 DEF OtherRequest
      <3> QED
        BY <3>1, <3>2, <3>3 DEF SendTo, SendLink, Expiry, LinkExpires, vars, serverVars
    <2>2. ClientMoves(0)
      BY <1>1, <1>2, <2>1 DEF ClientMoves, RequestMoves
    <2>3. KeepsSession
      BY <1>1, <1>2, Keeping DEF Committed
    <2> QED
      BY <2>2, <2>3 DEF TabMoves, SessionMoves
  <1>3. ASSUME NEW r \in Elsewhere, NEW op \in Ops, NEW t \in 0..MaxTokens,
               NEW l \in Links \cup {NoLink}, OtherRequest(r, op, t, l)
        PROVE  TabMoves
    <2> DEFINE p == Request(op, t)
               q == [p EXCEPT !.link = l, !.by = "elsewhere"]
    <2>1. req' = [req EXCEPT ![r] = q] /\ UNCHANGED tokens
      BY <1>3 DEF OtherRequest
    <2>2. q.phase = "sent" /\ q.token = t /\ q.op = op
      BY DEF Request, Idle
    <2> HIDE DEF q
    <2>3. /\ op # "logout"
          /\ \/ t = 0
             \/ t \in DOMAIN tokens /\ tokens[t].holder = "elsewhere"
      BY <1>3 DEF OtherRequest
    <2>4. Presentable(t) /\ (t = tab.stored => t = 0)
      BY <2>3, NoZero DEF Presentable, Owned, Ownership, TabReceived
    <2>5. /\ req'[r] = q
          /\ \A x \in Requests : x # r => req'[x] = req[x]
      BY <2>1, SlotsOf, TabShape
    <2>6. ClientMoves(0)
      <3>1. \A x \in Requests : RequestMoves(x, 0)
        BY <2>2, <2>4, <2>5, SlotsOf DEF RequestMoves
      <3> QED
        BY <1>1, <2>1, <3>1, RowsAlone DEF ClientMoves
    <2>7. ASSUME tab.stored # 0
          PROVE  KeepsSession
      <3>1. ~Spends(r)'
        BY <1>1, <2>2, <2>4, <2>5, <2>7 DEF Spends
      <3>2. \A x \in Elsewhere : Spends(x)' => Spends(x)
        BY <1>1, <2>5, <3>1, SlotsOf DEF Spends, Pending
      <3>3. req'[Refreshing] = req[Refreshing] /\ req'[Form] = req[Form]
        BY <2>5, SlotsOf
      <3> QED
        BY <1>1, <3>2, <3>3 DEF KeepsSession, Committed, Doomed
    <2>8. tab.stored = 0 => ~Committed'
      BY <1>1 DEF Owned, OwnSession, Committed
    <2> QED
      BY <2>6, <2>7, <2>8 DEF TabMoves, SessionMoves
  <1> QED
    BY <1>2, <1>3 DEF SendTo, SendLink, Expiry, LinkExpires, TokenExpires, vars, serverVars

\* Ownership holds at first.
LEMMA InitOwned ==
    ASSUME Init
    PROVE  Owned
  <1>1. /\ \A r \in Requests : req[r].phase = "idle"
        /\ tokens = <<>>
        /\ tab.stored = 0 /\ tab.leavingWith = 0 /\ tab.signedIn = FALSE
        /\ calls[Me].phase = "idle"
    BY SlotsOf DEF Init, InitServer, Idle, Fresh, Quiet
  <1>2. DOMAIN tokens = {}
    BY <1>1
  <1>3. Ownership
    BY <1>1, <1>2, SlotsOf
       DEF Ownership, UnreceivedUnused, PresentedReceived, UnreadUnreceived, TabReceived,
           NextExists, FormIssued, RefreshesOwn, Pending, Unread, Refused
  <1>4. OwnSession
    BY <1>1 DEF OwnSession, Committed
  <1> QED
    BY <1>3, <1>4 DEF Owned

\* Every step keeps it.
LEMMA StepOwned ==
    ASSUME Inv, Typed, PageInv, Owned, [Next]_vars
    PROVE  Owned'
  <1>1. TabMoves => Owned'
    BY ClientOwns, ClientHasSession DEF TabMoves, Owned
  <1>2. ASSUME NEW r \in Requests, Server(r) \/ ServerFailure(r)
        PROVE  Owned'
    <2>1. ServerMoves(r) /\ UNCHANGED <<tab, calls, leaving>>
      BY <1>2, ServerMove DEF Server, ServerFailure, clientVars
    <2> QED
      BY <2>1, ServerOwns, ServerHasSession DEF Owned
  <1>3. CASE RefreshStep
    BY <1>1, <1>3, InitializeMoves, RestoreMoves, RefreshedMoves, RefreshFailsMoves
       DEF RefreshStep
  <1>4. CASE FormStep \/ Logout \/ (\E op \in {"login", "register"} : Submit(op))
    BY <1>1, <1>4, AnsweredFormMoves, LogoutMoves, SubmitMoves DEF FormStep
  <1>5. CASE \/ \E c \in AllCalls : CallStep(c)
             \/ \E c \in Calls : StartCall(c)
             \/ \E S \in SUBSET AllCalls : AccessExpires(S)
    BY <1>1, <1>5, CallMoves, CallsMove
  <1>6. CASE Reload \/ (\E r \in {Refreshing, Form} : NetworkError(r))
    BY <1>1, <1>6, LostMoves
  <1>7. CASE \/ (\E l \in Links : SendTo(l)) \/ Expiry \/ UNCHANGED vars
             \/ \E r \in Elsewhere, op \in Ops, t \in 0..MaxTokens, l \in Links \cup {NoLink} :
                   OtherRequest(r, op, t, l)
    BY <1>1, <1>7, AroundMoves
  <1> QED
    BY <1>2, <1>3, <1>4, <1>5, <1>6, <1>7 DEF Next

\* It holds in every reachable state.
LEMMA OwnedInvariance == Spec => []Owned
  BY InitOwned, StepOwned, Invariance, TypedInvariance, PageInvariance, PTL DEF Spec

\* NoSelfRejection: a refresh of the tab is never refused over a token whose successor the
\* tab holds, because calls that are rejected together share one refresh and the tab
\* stores the new token before it asks again (store.ts).
THEOREM OwnRefreshesAccepted == Spec => []NoSelfRejection
  <1>1. ASSUME PageInv, Owned
        PROVE  NoSelfRejection
    <2>1. SUFFICES ASSUME NEW r \in Requests, At(r, "refresh", "answered"),
                          req[r].answer = "unauthorized", tokens[req[r].token].next # 0
                   PROVE  tokens[tokens[req[r].token].next].holder # "tab"
      BY DEF NoSelfRejection
    <2>2. r = Refreshing
      BY <1>1, <2>1, SlotsOf DEF At, PageInv, Slots
    <2>3. NotTaken(tokens, req[r].token)
      BY <1>1, <2>1, <2>2 DEF At, Refused, Owned, Ownership, RefreshesOwn
    <2> QED
      BY <2>1, <2>3 DEF NotTaken
  <1> QED
    BY <1>1, PageInvariance, OwnedInvariance, PTL

\* SignedInCanRefresh: a tab that is signed in and waits for nothing has a token that
\* works, unless a reset or time has ended it: nobody else spends the token it stores,
\* and whatever answer it loses signs it out.
THEOREM SignedInTabsCanRefresh == Spec => []SignedInCanRefresh
  <1>1. ASSUME Typed, Owned
        PROVE  SignedInCanRefresh
    <2>1. SUFFICES ASSUME tab.signedIn, TabIsQuiet
                   PROVE  /\ tab.stored # 0
                          /\ tokens[tab.stored].state \in {"live", "reset", "expired"}
      BY DEF SignedInCanRefresh
    <2>2. req[Refreshing].phase = "idle" /\ req[Form].phase = "idle"
      BY <2>1 DEF TabIsQuiet, Idle
    <2>3. Committed /\ ~Doomed
      BY <2>1, <2>2 DEF Committed, Doomed
    <2>4. /\ tab.stored # 0
          /\ tokens[tab.stored].state \notin {"rotated", "loggedOut"}
      BY <1>1, <2>2, <2>3 DEF Owned, OwnSession
    <2>5. tokens[tab.stored] \in Token
      BY <1>1, <2>4, RowsTyped DEF Typed, Owned, Ownership, TabReceived
    <2>6. tokens[tab.stored].state \in TokenStates
      BY <2>5 DEF Token
    <2> QED
      BY <2>4, <2>6 DEF TokenStates
  <1> QED
    BY <1>1, TypedInvariance, OwnedInvariance, PTL
=============================================================================
