----------------------------- MODULE AuthTokens -----------------------------
(***************************************************************************)
(* The account of one person and the tokens issued for it (backend/app/    *)
(* services/auth_service.py): refresh tokens that rotate, emailed links    *)
(* that work once, and the transactions of the requests that use them.     *)
(*                                                                         *)
(* A request is a transaction in two steps, what it reads and checks, and  *)
(* its commit; in between others commit.  A row selected FOR UPDATE stays  *)
(* locked in between.  Who sends the requests and takes the answers is     *)
(* ClientSession.                                                          *)
(***************************************************************************)
EXTENDS Integers, Sequences, FiniteSets

CONSTANTS
    Requests,   \* requests that may be in flight at once
    Links,      \* one-time tokens that may be sent
    KindOf,     \* [Links -> LinkKinds]
    NoLink,
    MaxTokens   \* bound: refresh tokens issued

LinkKinds == {"reset", "verify", "oauth"}

ASSUME AuthAssumption ==
    /\ IsFiniteSet(Links)
    /\ KindOf \in [Links -> LinkKinds]
    /\ NoLink \notin Links
    /\ MaxTokens \in Nat

VARIABLES
    user,    \* the users row of the email
    tokens,  \* refresh_tokens in the order of their commits
    links,   \* [Links -> LinkStates]: reset and verification tokens, OAuth states
    req      \* [Requests -> request record]

serverVars == <<user, tokens, links, req>>

-----------------------------------------------------------------------------
\* One by registration, one by each reset.
MaxPassword == 1 + Cardinality({l \in Links : KindOf[l] = "reset"})

\* password counts the passwords set so far (0: the account only signs in with
\* Google); local is auth_provider; google says whether google_id is set.
User == [exists : BOOLEAN, local : BOOLEAN, password : 0..MaxPassword,
         verified : BOOLEAN, google : BOOLEAN]

NoUser == [exists |-> FALSE, local |-> FALSE, password |-> 0,
           verified |-> FALSE, google |-> FALSE]

\* A refresh token is live, or revoked in one of three ways, or past its expiry.
TokenStates == {"live", "rotated", "loggedOut", "reset", "expired"}

Holders == {"nobody", "tab", "elsewhere"}

\* session: the sign-in it goes back to; era: the password of that sign-in; next: the
\* token it was exchanged for; clean (a history) says that it was issued while no
\* reset was under way; holder who received it.
Token == [session : 1..MaxTokens, era : 0..MaxPassword, state : TokenStates,
          next : 0..MaxTokens, clean : BOOLEAN, holder : Holders]

LinkStates == {"unsent", "sent", "used", "expired"}

Ops == {"register", "login", "google", "refresh", "logout", "reset", "verify"}

\* user and live are what the transaction has read; by is who waits for the answer:
\* the tab, another device, or nobody any more.
Idle == [op |-> "none", phase |-> "idle", token |-> 0, link |-> NoLink, user |-> NoUser,
         live |-> {}, answer |-> "none", issued |-> 0, by |-> "nobody"]

Answers == {"ok", "unauthorized", "conflict", "error"}

InitServer ==
    /\ user = NoUser
    /\ tokens = <<>>
    /\ links = [l \in Links |-> "unsent"]
    /\ req = [r \in Requests |-> Idle]

Live(t) == tokens[t].state = "live"

LiveTokens == {t \in DOMAIN tokens : Live(t)}

\* _reset_token_usable, _verification_token_usable, the OAuth state in the cache.
Usable(l) == links[l] = "sent"

\* The row locks of get_by_token_hash_for_update.
Holds(r, op) == req[r].op = op /\ req[r].phase = "open"

TokenFree(t) == ~\E r \in Requests : Holds(r, "refresh") /\ req[r].token = t

LinkFree(l) == ~\E r \in Requests : Holds(r, "reset") /\ req[r].link = l

\* The reset flushes the new hash before it reads the tokens: a second one waits
\* for the users row.
UserFree == ~\E r \in Requests : Holds(r, "reset")

-----------------------------------------------------------------------------
(* How a request proceeds. *)

At(r, op, phase) == req[r].op = op /\ req[r].phase = phase

\* Only the answers to the tab are followed any further.
AnswerWith(r, answer, token) ==
    req' = [req EXCEPT ![r] = IF @.by = "tab"
                              THEN [@ EXCEPT !.phase = "answered", !.answer = answer,
                                             !.issued = token]
                              ELSE Idle]

Reject(r, answer) ==
    /\ AnswerWith(r, answer, 0)
    /\ UNCHANGED <<user, tokens, links>>

\* The transaction goes on to its commit with what it has read.
Open(r, live) ==
    /\ req' = [req EXCEPT ![r].phase = "open", ![r].user = user, ![r].live = live]
    /\ UNCHANGED <<user, tokens, links>>

ResetUnderWay(r) == \E q \in Requests \ {r} : Holds(q, "reset")

NewToken(r, session, era, clean) ==
    [session |-> session, era |-> era, state |-> "live", next |-> 0,
     clean   |-> clean /\ era = user.password /\ ~ResetUnderWay(r),
     holder  |-> IF req[r].by = "elsewhere" THEN "elsewhere" ELSE "nobody"]

\* _issue_token_pair for a new sign-in, and the commit.
IssueAndCommit(r, era) ==
    LET n == Len(tokens) + 1
    IN  /\ n <= MaxTokens
        /\ tokens' = Append(tokens, [NewToken(r, n, era, TRUE) EXCEPT
                                        !.clean = era = user'.password /\ ~ResetUnderWay(r)])
        /\ AnswerWith(r, "ok", n)

-----------------------------------------------------------------------------
(* Signing in. *)

\* register: the look for the email, then the insert.  The unique email is checked at
\* the flush, which no handler surrounds.
RegisterCheck(r) ==
    /\ At(r, "register", "sent")
    /\ IF user.exists THEN Reject(r, "conflict") ELSE Open(r, {})

RegisterCommit(r) ==
    /\ At(r, "register", "open")
    /\ IF user.exists
       THEN Reject(r, "error")
       ELSE /\ \E l \in Links : /\ KindOf[l] = "verify"
                                /\ links[l] = "unsent"
                                /\ links' = [links EXCEPT ![l] = "sent"]
            /\ user' = [NoUser EXCEPT !.exists = TRUE, !.local = TRUE, !.password = 1]
            /\ IssueAndCommit(r, 1)

\* The password is checked against the hash read here; the commit writes no users row.
LoginCheck(r) ==
    /\ At(r, "login", "sent")
    /\ IF user.exists /\ user.password > 0 THEN Open(r, {}) ELSE Reject(r, "unauthorized")

LoginCommit(r) ==
    /\ At(r, "login", "open")
    /\ UNCHANGED <<user, links>>
    /\ IssueAndCommit(r, req[r].user.password)

\* The callback takes its state out of the cache, and has the code exchanged.
GoogleCheck(r, l, emailVerified) ==
    /\ At(r, "google", "sent")
    /\ req[r].link = l
    /\ IF ~Usable(l)
       THEN Reject(r, "unauthorized")
       ELSE /\ links' = [links EXCEPT ![l] = "used"]
            /\ UNCHANGED <<user, tokens>>
            /\ IF user.exists /\ ~user.google /\ ~emailVerified
               THEN AnswerWith(r, "unauthorized", 0)
               ELSE req' = [req EXCEPT ![r].phase = "open",
                               ![r].user = IF user.exists THEN user
                                           ELSE [NoUser EXCEPT !.verified = emailVerified]]

\* The account is created, or the identity is linked to the account of that email.
GoogleCommit(r) ==
    LET seen == req[r].user
    IN  /\ At(r, "google", "open")
        /\ IF ~seen.exists /\ user.exists
           THEN Reject(r, "error")
           ELSE /\ user' = IF ~seen.exists
                           THEN [seen EXCEPT !.exists = TRUE, !.google = TRUE]
                           ELSE IF seen.google THEN user
                           ELSE [user EXCEPT !.google = TRUE, !.verified = TRUE]
                /\ UNCHANGED links
                /\ IssueAndCommit(r, seen.password)

-----------------------------------------------------------------------------
(* Rotation and logout. *)

\* Mutant: the token is selected without FOR UPDATE.
RefreshCheckUnlocked(r) ==
    /\ At(r, "refresh", "sent")
    /\ IF Live(req[r].token) THEN Open(r, {}) ELSE Reject(r, "unauthorized")

RefreshCheck(r) ==
    /\ At(r, "refresh", "sent")
    /\ TokenFree(req[r].token)
    /\ IF Live(req[r].token) THEN Open(r, {}) ELSE Reject(r, "unauthorized")

RefreshCommit(r) ==
    LET t == req[r].token
        n == Len(tokens) + 1
        child == NewToken(r, tokens[t].session, tokens[t].era, tokens[t].clean)
    IN  /\ At(r, "refresh", "open")
        /\ n <= MaxTokens
        /\ tokens' = Append([tokens EXCEPT ![t].state = "rotated", ![t].next = n], child)
        /\ AnswerWith(r, "ok", n)
        /\ UNCHANGED <<user, links>>

\* The named token only, and only if it is still live.
LogoutToken(r) ==
    LET t == req[r].token
    IN  /\ At(r, "logout", "sent")
        /\ TokenFree(t)
        /\ tokens' = [tokens EXCEPT ![t].state = IF @ = "live" THEN "loggedOut" ELSE @]
        /\ AnswerWith(r, "ok", 0)
        /\ UNCHANGED <<user, links>>

-----------------------------------------------------------------------------
(* The emailed links. *)

\* request_password_reset sends nothing for an unknown email, and
\* resend_verification_email nothing once it is verified.
ResetSent == user.exists
VerificationSent == user.exists /\ ~user.verified

\* A link of each kind, or the state of google_login.
SendLink(l) ==
    /\ links[l] = "unsent"
    /\ CASE KindOf[l] = "reset" -> ResetSent
         [] KindOf[l] = "verify" -> VerificationSent
         [] OTHER -> TRUE
    /\ links' = [links EXCEPT ![l] = "sent"]
    /\ UNCHANGED <<user, tokens, req>>

\* Mutant: two confirmations of one link read it unused.
ResetCheckUnlocked(r) ==
    /\ At(r, "reset", "sent")
    /\ IF Usable(req[r].link) THEN Open(r, LiveTokens) ELSE Reject(r, "unauthorized")

\* confirm_password_reset up to the read of the tokens it is going to revoke.
ResetCheck(r) ==
    /\ At(r, "reset", "sent")
    /\ LinkFree(req[r].link)
    /\ UserFree
    /\ IF Usable(req[r].link) THEN Open(r, LiveTokens) ELSE Reject(r, "unauthorized")

\* Mutant: only the latest session is revoked.
RevokedLast(live) == {t \in live : \A k \in live : k <= t}

\* _revoke_all_refresh_tokens: those it has read.
Revoked(live) == live

\* The rows to revoke may be locked by a refresh: the commit waits for it.
ResetCommit(r) ==
    /\ At(r, "reset", "open")
    /\ \A t \in req[r].live : TokenFree(t)
    /\ user' = [user EXCEPT !.password = @ + 1]
    /\ links' = [links EXCEPT ![req[r].link] = "used"]
    /\ tokens' = [t \in DOMAIN tokens |->
                     IF t \in Revoked(req[r].live) /\ Live(t)
                     THEN [tokens[t] EXCEPT !.state = "reset"] ELSE tokens[t]]
    /\ AnswerWith(r, "ok", 0)

VerifyEmail(r) ==
    LET l == req[r].link
    IN  /\ At(r, "verify", "sent")
        /\ IF ~Usable(l)
           THEN Reject(r, "unauthorized")
           ELSE /\ user' = [user EXCEPT !.verified = TRUE]
                /\ links' = [links EXCEPT ![l] = "used"]
                /\ AnswerWith(r, "ok", 0)
                /\ UNCHANGED tokens

-----------------------------------------------------------------------------
(* Failures and time. *)

\* The transaction is rolled back: an error of the database or the end of the process.
ServerFails(r) ==
    /\ req[r].phase \in {"sent", "open"}
    /\ Reject(r, "error")

TokenExpires(t) ==
    /\ Live(t)
    /\ tokens' = [tokens EXCEPT ![t].state = "expired"]
    /\ UNCHANGED <<user, links, req>>

LinkExpires(l) ==
    /\ Usable(l)
    /\ LinkFree(l)
    /\ links' = [links EXCEPT ![l] = "expired"]
    /\ UNCHANGED <<user, tokens, req>>

ServerStep(r) ==
    \/ RegisterCheck(r)
    \/ RegisterCommit(r)
    \/ LoginCheck(r)
    \/ LoginCommit(r)
    \/ \E l \in Links, v \in BOOLEAN : GoogleCheck(r, l, v)
    \/ GoogleCommit(r)
    \/ RefreshCheck(r)
    \/ RefreshCommit(r)
    \/ LogoutToken(r)
    \/ ResetCheck(r)
    \/ ResetCommit(r)
    \/ VerifyEmail(r)

-----------------------------------------------------------------------------
(* Properties. *)

\* A session never forks: of the tokens that go back to one sign-in at most one is
\* live, however many refreshes present the same token at once
\* (get_by_token_hash_for_update, _is_usable).
OneLivePerSession ==
    \A i, j \in DOMAIN tokens :
        i # j /\ tokens[i].session = tokens[j].session => ~(Live(i) /\ Live(j))

\* A session established while no reset was under way does not outlive a later one,
\* neither itself nor through a token it was exchanged for.
ResetEndsSessions ==
    \A t \in DOMAIN tokens :
        Live(t) /\ tokens[t].era < user.password => ~tokens[t].clean

\* Each reset link sets one password, however many confirmations of it race.
OnePasswordPerLink ==
    user.password = (IF user.local THEN 1 ELSE 0)
                    + Cardinality({l \in Links : KindOf[l] = "reset" /\ links[l] = "used"})
=============================================================================
