---------------------------- MODULE PortalSession ----------------------------
(***************************************************************************)
(* The session cookie of one browser, shared by the buyer's pages (app.py) *)
(* and the administrator's (admin.py).                                     *)
(*                                                                         *)
(* The framework keeps the session in a signed cookie: a request works on  *)
(* the copy it was sent with, and its response carries the copy back when  *)
(* the handler has written to it, and always when the session is permanent.*)
(* Requests overlap (two tabs, or the page that polls /api/code), so a     *)
(* response can bring back what another one has replaced.                  *)
(***************************************************************************)
EXTENDS Integers, Sequences

CONSTANTS
  Slots,     \* requests the browser has under way at once
  Kinds,     \* the requests it makes
  Languages, \* languages to choose from
  Lifetime,  \* ADMIN_SESSION_HOURS
  Horizon,   \* bound: the last moment
  MaxIssued  \* bound: tokens of each sort that are issued

Null == 0

ASSUME SessionAssumption ==
  /\ Lifetime \in Nat
  /\ Horizon \in Nat \ {0}
  /\ MaxIssued \in Nat
  /\ Languages \subseteq STRING \ {"none"}

VARIABLES
  jar,       \* the cookie the browser holds
  requests,  \* slot -> the request under way, with its copy of the cookie
  forms,     \* slot -> the admin page it shows: its CSRF token and its login
  issued,    \* how many CSRF tokens and buyer session tokens there are
  now,
  logins,    \* history: when each login took place
  ran,       \* history: of the administrator's last request that was allowed, its
             \* login, the login its form was written for, the age of the login
  choice,    \* history: the language the browser was last told is set
  left       \* history: which sessions it was last told are closed

sessionVars == <<jar, requests, forms, issued, now, logins, ran, choice, left>>

\* since: admin_authenticated_at; login: which login that was (history).
NewCookie == [since |-> Null, login |-> 0, csrf |-> Null, buyer |-> Null,
              language |-> "none", permanent |-> FALSE]

NoForm == [csrf |-> Null, login |-> 0]

NoRequest == [pc |-> "idle", kind |-> "none", cookie |-> NewCookie, form |-> NoForm,
              set |-> FALSE, done |-> FALSE]

SessionInit ==
  /\ jar = NewCookie
  /\ requests = [t \in Slots |-> NoRequest]
  /\ forms = [t \in Slots |-> NoForm]
  /\ issued = [csrf |-> 0, buyer |-> 0]
  /\ now = 1
  /\ logins = <<>>
  /\ ran = [login |-> 0, form |-> 0, age |-> 0]
  /\ choice = "none"
  /\ left = {}

----------------------------------------------------------------------------
(* Request and response.                                                   *)

Send(t, kind) ==
  /\ requests[t].pc = "idle"
  /\ requests' = [requests EXCEPT
       ![t] = [NoRequest EXCEPT !.pc = "sent", !.kind = kind,
                                !.cookie = jar, !.form = forms[t]]]
  /\ UNCHANGED <<jar, forms, issued, now, logins, ran, choice, left>>

Receives(t, kind) == requests[t].pc = "sent" /\ requests[t].kind = kind

\* _check_csrf: the form was written with the token of this very session.
ValidForm(t) ==
  requests[t].cookie.csrf # Null /\ requests[t].form.csrf = requests[t].cookie.csrf

\* A login that is refused shows a message, which passes through the session.
\* (The other messages are for an administrator, whose session is permanent.)
Flashes(t, done) == requests[t].kind = "login" /\ ValidForm(t) /\ ~done

\* The session interface after a handler that leaves the cookie as given.
Respond(t, cookie, done) ==
  requests' = [requests EXCEPT
    ![t].pc = "answered",
    ![t].set = cookie # requests[t].cookie \/ cookie.permanent \/ Flashes(t, done),
    ![t].cookie = cookie,
    ![t].done = done]

\* The browser takes the response: its cookie and, for an admin page, the form.
Receive(t) ==
  LET r == requests[t] IN
  /\ r.pc = "answered"
  /\ jar' = IF r.set THEN r.cookie ELSE jar
  /\ forms' = IF r.done /\ r.kind \in {"login_page", "admin_page"}
              THEN [forms EXCEPT ![t] = [csrf |-> r.cookie.csrf, login |-> r.cookie.login]]
              ELSE forms
  /\ choice' = IF r.kind = "language" THEN r.cookie.language ELSE choice
  /\ left' = CASE r.kind = "logout" -> left \cup {"buyer"}
               [] r.kind = "admin_logout" /\ r.done -> left \cup {"admin"}
               [] r.kind = "unlock" /\ r.done -> left \ {"buyer"}
               [] r.kind = "login" /\ r.done -> left \ {"admin"}
               [] OTHER -> left
  /\ requests' = [requests EXCEPT ![t] = NoRequest]
  /\ UNCHANGED <<issued, now, logins, ran>>

\* The answer is lost, or the page is closed.
Lose(t) ==
  /\ requests[t].pc # "idle"
  /\ requests' = [requests EXCEPT ![t] = NoRequest]
  /\ UNCHANGED <<jar, forms, issued, now, logins, ran, choice, left>>

----------------------------------------------------------------------------
(* The buyer's requests.                                                   *)

\* GET / and GET /api/code: the token is dropped when its session has ended.
ServeCode(t) ==
  LET c == requests[t].cookie IN
  /\ Receives(t, "code")
  /\ \/ Respond(t, c, c.buyer # Null)
     \/ Respond(t, [c EXCEPT !.buyer = Null], FALSE)
  /\ UNCHANGED <<jar, forms, issued, now, logins, ran, choice, left>>

\* POST /unlock, with a key that is refused or a new session.
ServeUnlock(t) ==
  LET c == requests[t].cookie IN
  /\ Receives(t, "unlock")
  /\ \/ /\ Respond(t, c, FALSE)
        /\ UNCHANGED issued
     \/ /\ issued.buyer < MaxIssued
        /\ issued' = [issued EXCEPT !.buyer = @ + 1]
        /\ Respond(t, [c EXCEPT !.buyer = issued'.buyer, !.permanent = TRUE], TRUE)
  /\ UNCHANGED <<jar, forms, now, logins, ran, choice, left>>

\* Faulty variant: the token is left in place.
WithoutBuyer_Kept(c) == c

WithoutBuyer(c) == [c EXCEPT !.buyer = Null]

ServeLogout(t) ==
  /\ Receives(t, "logout")
  /\ Respond(t, WithoutBuyer(requests[t].cookie), TRUE)
  /\ UNCHANGED <<jar, forms, issued, now, logins, ran, choice, left>>

ServeLanguage(t) ==
  /\ Receives(t, "language")
  /\ \E l \in Languages :
       Respond(t, [requests[t].cookie EXCEPT !.language = l, !.permanent = TRUE], TRUE)
  /\ UNCHANGED <<jar, forms, issued, now, logins, ran, choice, left>>

----------------------------------------------------------------------------
(* The administrator's requests.                                           *)

\* _admin_logged_in
LoggedIn(c) == c.since # Null /\ now - c.since <= Lifetime

Run(c, form) ==
  ran' = [login |-> c.login, form |-> form, age |-> now - logins[c.login]]

\* GET /admin/login: csrf_token() issues a token if the session has none.
ServeLoginPage(t) ==
  LET c == requests[t].cookie IN
  /\ Receives(t, "login_page")
  /\ IF c.csrf = Null
     THEN /\ issued.csrf < MaxIssued
          /\ issued' = [issued EXCEPT !.csrf = @ + 1]
          /\ Respond(t, [c EXCEPT !.csrf = issued'.csrf], TRUE)
     ELSE /\ Respond(t, c, TRUE)
          /\ UNCHANGED issued
  /\ UNCHANGED <<jar, forms, now, logins, ran, choice, left>>

\* Faulty variant: the token of the form that logs in stays valid.
LoggedInCookie_SameToken(c) ==
  [c EXCEPT !.since = now, !.login = Len(logins) + 1, !.permanent = TRUE]

\* The cookie after a login: a new token, whatever the session held.
LoggedInCookie(c) ==
  [c EXCEPT !.since = now, !.login = Len(logins) + 1, !.permanent = TRUE,
            !.csrf = issued.csrf + 1]

\* POST /admin/login
ServeLogin(t) ==
  LET c == requests[t].cookie IN
  /\ Receives(t, "login")
  /\ \/ /\ Respond(t, c, FALSE)
        /\ UNCHANGED <<issued, logins>>
     \/ /\ ValidForm(t)
        /\ issued.csrf < MaxIssued
        /\ issued' = [issued EXCEPT !.csrf = @ + 1]
        /\ logins' = Append(logins, now)
        /\ Respond(t, LoggedInCookie(c), TRUE)
  /\ UNCHANGED <<jar, forms, now, ran, choice, left>>

\* Faulty variant: every page an administrator opens starts the time anew.
SeenAgain_Extended(c) == [c EXCEPT !.since = now]

\* A page leaves the session as it is.
SeenAgain(c) == c

\* A page of the portal, or the redirect to the login page.
ServeAdminPage(t) ==
  LET c == requests[t].cookie IN
  /\ Receives(t, "admin_page")
  /\ IF LoggedIn(c)
     THEN Respond(t, SeenAgain(c), TRUE) /\ Run(c, c.login)
     ELSE Respond(t, c, FALSE) /\ UNCHANGED ran
  /\ UNCHANGED <<jar, forms, issued, now, logins, choice, left>>

\* A POST of the portal: revocation, renewal, retry, settings, key.
ServeAdminPost(t) ==
  LET r == requests[t]
      runs == LoggedIn(r.cookie) /\ ValidForm(t)
  IN /\ Receives(t, "admin_post")
     /\ Respond(t, r.cookie, runs)
     /\ IF runs THEN Run(r.cookie, r.form.login) ELSE UNCHANGED ran
     /\ UNCHANGED <<jar, forms, issued, now, logins, choice, left>>

WithoutAdmin(c) == [c EXCEPT !.since = Null, !.login = 0, !.csrf = Null]

ServeAdminLogout(t) ==
  LET c == requests[t].cookie IN
  /\ Receives(t, "admin_logout")
  /\ IF LoggedIn(c) /\ ValidForm(t)
     THEN Respond(t, WithoutAdmin(c), TRUE) ELSE Respond(t, c, FALSE)
  /\ UNCHANGED <<jar, forms, issued, now, logins, ran, choice, left>>

Tick ==
  /\ now < Horizon
  /\ now' = now + 1
  /\ UNCHANGED <<jar, requests, forms, issued, logins, ran, choice, left>>

Serve(t) ==
  \/ ServeCode(t)
  \/ ServeUnlock(t)
  \/ ServeLogout(t)
  \/ ServeLanguage(t)
  \/ ServeLoginPage(t)
  \/ ServeLogin(t)
  \/ ServeAdminPage(t)
  \/ ServeAdminPost(t)
  \/ ServeAdminLogout(t)

SessionNext ==
  \/ \E t \in Slots :
       \/ \E kind \in Kinds : Send(t, kind)
       \/ Serve(t)
       \/ Receive(t)
       \/ Lose(t)
  \/ Tick

SessionSpec == SessionInit /\ [][SessionNext]_sessionVars

----------------------------------------------------------------------------
(* Properties.                                                             *)

\* An administrator's request takes effect only within ADMIN_SESSION_HOURS of
\* a login with password and code: cookies that are sent back again and again,
\* by whichever response, do not prolong it (_admin_logged_in).
AdminWithinLifetime == ran.age <= Lifetime

\* A form takes effect only under the login it was written for: one left open
\* before a login, or from an earlier login, is refused however the responses
\* of two tabs cross (_check_csrf, and the new token of login()).
FormsDieWithTheirLogin == ran.form = ran.login

\* After the browser was told that it has logged out, it holds no session of
\* that sort until the next unlock or login.
LogoutHolds ==
  /\ "buyer" \in left => jar.buyer = Null
  /\ "admin" \in left => jar.since = Null

\* The language a buyer chose stays until another one is chosen, through
\* unlocks, logouts and the end of the access (set_language), while the browser
\* keeps the cookie: PERMANENT_SESSION_LIFETIME is not modelled.
LanguageStays == jar.language = choice
=============================================================================
