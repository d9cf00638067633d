---------------------------- MODULE AccountLinks ----------------------------
(***************************************************************************)
(* The links that are mailed for a new password and a new address, in one tab *)
(* (frontend/components/lexigo-premium-app.tsx, which is the sign-in form of a *)
(* guest, email-change-confirmation.tsx, and what lexigo-bootstrapped-app.tsx *)
(* does to the address), against the one-time tokens of the server            *)
(* (backend/internal/auth/postgres_repository.go ConsumePasswordReset,       *)
(* backend/internal/account/email_change_repository.go ConsumeEmailChange). A *)
(* token is in the fragment of the address, then in a form, and works once.   *)
(***************************************************************************)
EXTENDS Naturals, FiniteSets

CONSTANTS
  None,
  MaxRequests,      \* bound: requests under way at once
  MaxLinkEvents     \* bound: requests, lost answers, reloads and events elsewhere

Link == {"reset", "email"}
Mode == {"login", "register", "forgot", "reset"}

VARIABLES
  address,    \* the page, the token in the fragment, and whether it says "session expired"
  session,    \* what the tab knows of the session; "suppressed" is a guest for whom none is looked for
  restoring,  \* the session is being restored
  cookie,     \* the session the browser keeps
  form,       \* the sign-in form, or None: its mode, the token it holds, what it says
  email,      \* EmailChangeConfirmation, or None
  reading,    \* the forms whose timer will take the token from the address
  requests,   \* requests and answers under way
  tokens,     \* the tokens of the server
  opened,     \* history: the link the tab was opened with and has not left
  happened    \* events so far

vars == <<address, session, restoring, cookie, form, email, reading, requests, tokens, opened, happened>>

Request == [of : Mode \cup {"email"}, at : {"sent", "done", "refused", "lost"},
            heard : {"form", "page", "nobody"}]

TypeOK ==
  /\ address \in [page : {"profile", "elsewhere"}, link : Link \cup {None}, expired : BOOLEAN]
  /\ session \in {"unknown", "guest", "learner", "suppressed"} /\ restoring \in BOOLEAN /\ cookie \in {"none", "live", "ended"}
  /\ form \in {None} \cup [mode : Mode, token : BOOLEAN,
                           says : {"nothing", "sent", "changed", "invalid", "failed"}]
  /\ email \in {None} \cup [token : BOOLEAN, says : {"nothing", "invalid", "failed"}]
  /\ reading \subseteq Link /\ requests \subseteq Request
  /\ tokens \in [Link -> {"usable", "used", "void"}]
  /\ opened \in Link \cup {None} /\ happened \in 0..MaxLinkEvents

Init ==
  /\ address \in [page : {"profile"}, link : Link \cup {None}, expired : {FALSE}]
  /\ session = "unknown" /\ restoring = TRUE /\ cookie \in {"none", "live", "ended"}
  /\ form = None /\ email = None /\ reading = {} /\ requests = {}
  /\ tokens = [l \in Link |-> "usable"] /\ opened = address.link /\ happened = 0

Counts == happened < MaxLinkEvents /\ happened' = happened + 1

-----------------------------------------------------------------------------
(* What is mounted                                                           *)

Blank == [mode |-> "login", token |-> FALSE, says |-> "nothing"]

\* LexigoBootstrappedApp at address a, with session s and the requests rs: the form
\* is on the page of the profile for a guest; the confirmation of a new address lives
\* as long as the tab and shows on that page. Each has a timer that reads its token,
\* which starts when it comes up.
Mounts(a, s, rs) ==
  LET hasForm == a.page = "profile" /\ s \in {"guest", "suppressed"}
      comes   == a.page = "profile" /\ (email = None \/ address.page # "profile")
  IN  /\ form' = IF ~ hasForm THEN None ELSE IF form = None THEN Blank ELSE form
      /\ email' = IF email = None THEN [token |-> FALSE, says |-> "nothing"] ELSE email
      /\ reading' = {l \in reading : IF l = "reset" THEN hasForm ELSE a.page = "profile"}
                      \cup (IF hasForm /\ form = None /\ a.link = "reset" THEN {"reset"} ELSE {})
                      \cup (IF comes THEN {"email"} ELSE {})
      \* The handlers of a form that is unmounted still run, and find no form.
      /\ requests' = {[r EXCEPT !.heard = IF @ = "form" /\ r.of # "email" /\ ~ hasForm THEN "page" ELSE @] : r \in rs}

\* preflightSession, on every new page: a session of this document is kept as long as
\* there is a cookie; one the server refuses takes the tab to the screen that says so,
\* and the fragment with it (moveToSessionScreen); some pages are not for guests.
RestoreAnswers ==
  LET kept    == session = "learner" /\ cookie # "none"
      s       == IF kept \/ cookie = "live" THEN "learner" ELSE "guest"
      expired == ~ kept /\ cookie = "ended"
      screen  == [page |-> "profile", link |-> None, expired |-> expired]
  IN  /\ restoring
      /\ address' \in IF expired THEN {screen}
                      ELSE {address} \cup (IF s = "guest" /\ address.page # "profile" THEN {screen} ELSE {})
      /\ session' = s /\ restoring' = (address'.page # address.page)
      /\ cookie' = IF expired THEN "none" ELSE cookie
      /\ Mounts(address', s, requests)
      /\ UNCHANGED <<tokens, opened, happened>>

\* The effect of the form: the token is taken out of the address.
ReadReset ==
  /\ "reset" \in reading /\ reading' = reading \ {"reset"}
  /\ form' = [mode |-> "reset", token |-> TRUE, says |-> "nothing"]
  /\ address' = [address EXCEPT !.link = None]
  /\ UNCHANGED <<session, restoring, cookie, email, requests, tokens, opened, happened>>

\* The effect of the confirmation: the token stays in the address until it is used.
ReadEmail ==
  /\ "email" \in reading /\ reading' = reading \ {"email"}
  /\ email' = [email EXCEPT !.token = address.link = "email"]
  /\ UNCHANGED <<address, session, restoring, cookie, form, requests, tokens, opened, happened>>

-----------------------------------------------------------------------------
(* The learner                                                               *)

\* switchAuthMode, from the tabs and the links of the form; also while a request is
\* under way. Who leaves the new password leaves the link.
SwitchAuthMode(m) ==
  /\ form # None
  /\ \/ m \in {"login", "register"} /\ form.mode \in {"login", "register"}
     \/ m = "forgot" /\ form.mode = "login"
     \/ m = "login" /\ form.mode \in {"forgot", "reset"}
  /\ form' = [form EXCEPT !.mode = m, !.says = "nothing"]
  /\ opened' = IF form.mode = "reset" THEN None ELSE opened
  /\ UNCHANGED <<address, session, restoring, cookie, email, reading, requests, tokens, happened>>

Busy(of) == \E r \in requests : r.heard = "form" /\ (r.of = "email") = (of = "email")

Sends(of) ==
  /\ ~ Busy(of) /\ Cardinality(requests) < MaxRequests
  /\ requests' = requests \cup {[of |-> of, at |-> "sent", heard |-> "form"]}

\* submitAuth with values that validateAuthValues finds nothing wrong with.
SubmitAuth ==
  /\ form # None /\ (form.mode = "reset" => form.token)
  /\ Counts /\ Sends(form.mode)
  /\ form' = [form EXCEPT !.says = "nothing"]
  /\ UNCHANGED <<address, session, restoring, cookie, email, reading, tokens, opened>>

ConfirmEmailChange ==
  /\ email # None /\ email.token /\ address.page = "profile"
  /\ Counts /\ Sends("email")
  /\ email' = [email EXCEPT !.says = "nothing"]
  /\ UNCHANGED <<address, session, restoring, cookie, form, reading, tokens, opened>>

\* Another page of the application, and back.
Go(page) ==
  LET a == [page |-> page, link |-> None, expired |-> FALSE]
  IN  /\ Counts /\ session # "unknown" /\ address.page # page
      /\ address' = a /\ opened' = None /\ restoring' = (session # "suppressed")
      /\ Mounts(a, session, requests)
      /\ UNCHANGED <<session, cookie, tokens>>

\* handleLoggedOut and finalizeLoggedOut.
LogOut ==
  LET a == [page |-> "elsewhere", link |-> None, expired |-> FALSE]
  IN  /\ Counts /\ session = "learner" /\ address.page = "profile"
      /\ address' = a /\ opened' = None /\ session' = "suppressed" /\ restoring' = FALSE
      /\ cookie' = "none"
      /\ Mounts(a, "suppressed", requests)
      /\ UNCHANGED tokens

\* The tab is loaded again, with the address it has or with a link from the mail.
Load(link) ==
  /\ Counts /\ link \in {address.link} \cup Link
  /\ address' = IF link = address.link THEN address
                ELSE [page |-> "profile", link |-> link, expired |-> FALSE]
  /\ session' = "unknown" /\ restoring' = TRUE /\ opened' = link
  /\ form' = None /\ email' = None /\ reading' = {}
  /\ requests' = {[r EXCEPT !.heard = "nobody"] : r \in requests}
  /\ UNCHANGED <<cookie, tokens>>

-----------------------------------------------------------------------------
(* The server                                                                *)

Moves(r, to) == requests' = (requests \ {r}) \cup {[r EXCEPT !.at = to]}

\* ConsumePasswordReset, ConsumeEmailChange, Login: a token works once, and ends the
\* sessions of the account; a login may be refused for its password. ConfirmEmailChange
\* answers with cookies that are no session, login with one.
Serve(r) ==
  /\ r \in requests /\ r.at = "sent"
  /\ \/ /\ r.of = "forgot"
        /\ Moves(r, "done") /\ UNCHANGED <<tokens, cookie>>
     \/ /\ r.of \in {"login", "register"}
        /\ \/ Moves(r, "done") /\ cookie' = "live"
           \/ Moves(r, "refused") /\ UNCHANGED cookie
        /\ UNCHANGED tokens
     \/ /\ r.of \in Link /\ tokens[r.of] = "usable"
        /\ tokens' = [tokens EXCEPT ![r.of] = "used"]
        /\ Moves(r, "done")
        /\ cookie' = IF r.of = "email" THEN "none" ELSE IF cookie = "live" THEN "ended" ELSE cookie
     \/ /\ r.of \in Link /\ tokens[r.of] # "usable"
        /\ Moves(r, "refused") /\ UNCHANGED <<tokens, cookie>>
  /\ UNCHANGED <<address, session, restoring, form, email, reading, opened, happened>>

\* The request or the answer is lost.
Lose(r) ==
  /\ Counts /\ r \in requests /\ r.at # "lost"
  /\ Moves(r, "lost")
  /\ UNCHANGED <<address, session, restoring, cookie, form, email, reading, tokens, opened>>

\* A link expires or makes room for another, or the sessions end, on another device.
Elsewhere ==
  /\ Counts
  /\ \/ \E l \in Link : tokens[l] = "usable" /\ tokens' = [tokens EXCEPT ![l] = "void"] /\ UNCHANGED cookie
     \/ cookie = "live" /\ cookie' = "ended" /\ UNCHANGED tokens
  /\ UNCHANGED <<address, session, restoring, form, email, reading, requests, opened>>

-----------------------------------------------------------------------------
(* Answers                                                                   *)

Heard(r) == r \in requests /\ r.at # "sent" /\ r.heard # "nobody"
Done(r) == Heard(r) /\ r.at = "done"
Ends(r) == requests' = requests \ {r}

Ignored(r) ==
  /\ r \in requests /\ r.at # "sent" /\ r.heard = "nobody" /\ Ends(r)
  /\ UNCHANGED <<address, session, restoring, cookie, form, email, reading, tokens, opened, happened>>

\* What the form says of an answer: nothing, when it is not there any more.
Says(r, what) == IF r.heard = "form" THEN [form EXCEPT !.says = what] ELSE form

\* Not the code: the confirmation starts over without its token.
FailedBlank(f, r) == [f EXCEPT !.token = FALSE, !.says = IF r.at = "refused" THEN "invalid" ELSE "failed"]

\* The error of a link, which may be asked for again.
Failed(f, r) == [f EXCEPT !.says = IF r.at = "refused" THEN "invalid" ELSE "failed"]

\* The tab goes on to the next page, where the session is restored, unless it was
\* told not to look for one.
LoggedIn(r) ==
  LET a == [page |-> "elsewhere", link |-> None, expired |-> FALSE]
  IN  /\ r.of \in {"login", "register"} /\ Done(r)
      /\ address' = a /\ opened' = None /\ restoring' = (session # "suppressed")
      /\ Mounts(a, session, requests \ {r})
      /\ UNCHANGED <<session, cookie, tokens, happened>>

MailSent(r) ==
  /\ r.of = "forgot" /\ Done(r) /\ Ends(r)
  /\ form' = Says(r, "sent")
  /\ UNCHANGED <<address, session, restoring, cookie, email, reading, tokens, opened, happened>>

\* The form goes back to the sign-in whatever it shows by now, and takes the fragment
\* off the address of whatever page is shown.
PasswordChanged(r) ==
  /\ r.of = "reset" /\ Done(r) /\ Ends(r)
  /\ form' = IF r.heard = "form" THEN [mode |-> "login", token |-> FALSE, says |-> "changed"] ELSE form
  /\ address' = [address EXCEPT !.link = None]
  /\ opened' = IF r.heard = "form" \/ address.link = opened THEN None ELSE opened
  /\ UNCHANGED <<session, restoring, cookie, email, reading, tokens, happened>>

\* handleEmailChanged: the tab is a guest's, on the page of the profile.
EmailChanged(r) ==
  LET a == [page |-> "profile", link |-> None, expired |-> FALSE]
  IN  /\ r.of = "email" /\ Done(r)
      /\ address' = a /\ session' = "suppressed" /\ restoring' = FALSE /\ opened' = None
      /\ form' = IF form = None THEN Blank ELSE form
      /\ email' = [token |-> FALSE, says |-> "nothing"]
      /\ reading' = IF address.page = "profile" THEN reading ELSE {"email"}
      /\ Ends(r)
      /\ UNCHANGED <<cookie, tokens, happened>>

Refused(r) ==
  /\ Heard(r) /\ r.at \in {"refused", "lost"} /\ Ends(r)
  /\ IF r.heard # "form" THEN UNCHANGED <<form, email>>
     ELSE IF r.of = "email" THEN email' = Failed(email, r) /\ UNCHANGED form
     ELSE IF r.of = "reset" THEN form' = Failed(form, r) /\ UNCHANGED email
     ELSE form' = Says(r, "failed") /\ UNCHANGED email
  /\ UNCHANGED <<address, session, restoring, cookie, reading, tokens, opened, happened>>

-----------------------------------------------------------------------------

Next ==
  \/ RestoreAnswers \/ ReadReset \/ ReadEmail
  \/ \E m \in Mode : SwitchAuthMode(m)
  \/ SubmitAuth \/ ConfirmEmailChange \/ LogOut \/ Elsewhere
  \/ \E page \in {"profile", "elsewhere"} : Go(page)
  \/ \E link \in Link \cup {None} : Load(link)
  \/ \E r \in requests :
       Serve(r) \/ Lose(r) \/ Ignored(r) \/ LoggedIn(r) \/ MailSent(r)
       \/ PasswordChanged(r) \/ EmailChanged(r) \/ Refused(r)

Spec == Init /\ [][Next]_vars

-----------------------------------------------------------------------------

\* A link that was opened and still works is in the address or in its form, through
\* refused and lost answers, until the learner leaves it - unless the session of the
\* browser was found to be over, which throws the fragment away. A token that the
\* sign-in form holds is not in the address any more (docs/password-recovery.md), and
\* the forms say "changed" and "invalid" only of what has been changed or is invalid.
LinksAreKept ==
  /\ opened # None /\ tokens[opened] = "usable" /\ ~ address.expired =>
       \/ address.link = opened
       \/ opened = "reset" /\ form # None /\ form.mode = "reset" /\ form.token
  /\ opened = "email" /\ email # None /\ "email" \notin reading /\ tokens.email = "usable" /\ ~ address.expired
       => email.token
  /\ form # None /\ form.token /\ form.mode = "reset" => address.link # "reset"
  /\ form # None /\ form.says = "changed" => tokens.reset = "used"
  /\ form # None /\ form.says = "invalid" => tokens.reset # "usable"
  /\ email # None /\ email.says = "invalid" => tokens.email # "usable"

=============================================================================
