--------------------------- MODULE PortalProofs ---------------------------
(***************************************************************************)
(* Proofs about PortalSession, for any number of tabs, any lifetime and    *)
(* any requests, and about CodePage, for any period, poll, number of       *)
(* requests and trip time.  The two share no state, as in MCPortal.        *)
(***************************************************************************)
EXTENDS MCPortal, TLAPS

CookieType ==
  [since : Nat, login : Nat, csrf : Nat, buyer : Nat,
   language : Languages \cup {"none"}, permanent : BOOLEAN]

FormType == [csrf : Nat, login : Nat]

RequestType ==
  [pc : {"idle", "sent", "answered"}, kind : Kinds \cup {"none"}, cookie : CookieType,
   form : FormType, set : BOOLEAN, done : BOOLEAN]

SessionTypes ==
  /\ jar \in CookieType
  /\ requests \in [Slots -> RequestType]
  /\ forms \in [Slots -> FormType]
  /\ issued \in [csrf : Nat, buyer : Nat]
  /\ now \in Nat \ {0}
  /\ logins \in Seq(Nat)

\* A cookie that says since when its owner is logged in tells the truth.
Genuine(c) ==
  c.since # Null => c.login \in 1 .. Len(logins) /\ logins[c.login] = c.since

\* A cookie or a form, in the browser or on its way, holds token k under login l.
Held(k, l) ==
  \/ jar.csrf = k /\ jar.login = l
  \/ \E t \in Slots :
       \/ requests[t].cookie.csrf = k /\ requests[t].cookie.login = l
       \/ requests[t].form.csrf = k /\ requests[t].form.login = l
       \/ forms[t].csrf = k /\ forms[t].login = l

\* A token belongs to one login.
OneLogin ==
  \A k, l, m \in Nat : k # Null /\ Held(k, l) /\ Held(k, m) => l = m

SessionCore ==
  /\ SessionTypes
  /\ Genuine(jar) /\ \A t \in Slots : Genuine(requests[t].cookie)
  /\ \A k, l \in Nat : Held(k, l) => k <= issued.csrf
  /\ OneLogin

SessionInv ==
  /\ SessionCore
  /\ AdminWithinLifetime
  /\ FormsDieWithTheirLogin

----------------------------------------------------------------------------

\* What there is at the start has its type.
LEMMA StartTypes ==
  /\ NewCookie \in CookieType /\ NewCookie.since = Null
  /\ NewCookie.csrf = Null /\ NewCookie.login = 0
  /\ NoForm \in FormType /\ NoForm.csrf = Null
  /\ NoRequest \in RequestType /\ NoRequest.cookie = NewCookie /\ NoRequest.form = NoForm
  BY DEF NewCookie, CookieType, Null, NoForm, FormType, NoRequest, RequestType

\* The initial states satisfy the invariant.
LEMMA SessionInitInv == SessionInit => SessionInv
<1> SUFFICES ASSUME SessionInit PROVE SessionInv
  OBVIOUS
<1>1. SessionTypes
  BY StartTypes DEF SessionInit, SessionTypes
<1>2. Genuine(jar) /\ \A t \in Slots : Genuine(requests[t].cookie)
  BY StartTypes DEF SessionInit, Genuine
<1>3. \A k, l \in Nat : Held(k, l) => k = Null
  BY StartTypes DEF SessionInit, Held
<1>4. AdminWithinLifetime /\ FormsDieWithTheirLogin
  BY SessionAssumption DEF SessionInit, AdminWithinLifetime, FormsDieWithTheirLogin
<1>5. issued.csrf = 0
  BY DEF SessionInit
<1> QED BY <1>1, <1>2, <1>3, <1>4, <1>5 DEF SessionInv, SessionCore, OneLogin, Null

\* A cookie stays genuine while logins are added.
LEMMA GenuineStays ==
  ASSUME SessionTypes, NEW c \in CookieType, Genuine(c),
         logins' = logins \/ \E l \in Nat : logins' = Append(logins, l)
  PROVE  Genuine(c)'
<1>1. CASE logins' = logins
  BY <1>1 DEF Genuine
<1>2. CASE \E l \in Nat : logins' = Append(logins, l)
  <2>1. PICK l \in Nat : logins' = Append(logins, l)
    BY <1>2
  <2>2. /\ Len(logins') = Len(logins) + 1 /\ Len(logins) \in Nat
        /\ \A i \in 1 .. Len(logins) : logins'[i] = logins[i]
    BY <2>1 DEF SessionTypes
  <2> QED BY <2>2 DEF Genuine
<1> QED BY <1>1, <1>2

\* One request goes on.  Its cookie holds the token it held before, or none, or
\* a new one; its form is one that is open already, or none.
LEMMA RequestStep ==
  ASSUME SessionCore, NEW t \in Slots, NEW new \in RequestType,
         requests' = [requests EXCEPT ![t] = new],
         UNCHANGED <<jar, forms>>,
         now' \in Nat \ {0}, issued' \in [csrf : Nat, buyer : Nat],
         issued'.csrf >= issued.csrf,
         logins' = logins \/ \E l \in Nat : logins' = Append(logins, l),
         Genuine(new.cookie)',
         \/ new.cookie.csrf = Null
         \/ Held(new.cookie.csrf, new.cookie.login)
         \/ new.cookie.csrf = issued.csrf + 1 /\ issued'.csrf = issued.csrf + 1,
         new.form.csrf = Null \/ Held(new.form.csrf, new.form.login)
  PROVE  SessionCore'
<1>1. requests'[t] = new /\ \A u \in Slots \ {t} : requests'[u] = requests[u]
  BY DEF SessionCore, SessionTypes
<1>2. SessionTypes'
  <2>1. logins' \in Seq(Nat)
    <3>1. logins \in Seq(Nat)
      BY DEF SessionCore, SessionTypes
    <3>2. \A l \in Nat : Append(logins, l) \in Seq(Nat)
      BY <3>1
    <3> QED BY <3>1, <3>2
  <2> QED BY <2>1 DEF SessionCore, SessionTypes
<1>3. Genuine(jar)'
  <2> DEFINE c == jar
  <2>1. c \in CookieType /\ Genuine(c)
    BY DEF SessionCore, SessionTypes
  <2>2. c.since # Null => c.login \in 1 .. Len(logins') /\ logins'[c.login] = c.since
    BY <2>1, GenuineStays DEF SessionCore, Genuine
  <2> QED BY <2>2 DEF Genuine
<1>4. \A u \in Slots : Genuine(requests[u].cookie)'
  <2>1. ASSUME NEW u \in Slots \ {t}
        PROVE  Genuine(requests[u].cookie)'
    <3> DEFINE c == requests[u].cookie
    <3>1. c \in CookieType /\ Genuine(c) /\ requests'[u].cookie = c
      BY <1>1 DEF SessionCore, SessionTypes, RequestType
    <3>2. c.since # Null => c.login \in 1 .. Len(logins') /\ logins'[c.login] = c.since
      BY <3>1, GenuineStays DEF SessionCore, Genuine
    <3> QED BY <3>1, <3>2 DEF Genuine
  <2> QED BY <1>1, <2>1 DEF Genuine
<1>5. ASSUME NEW k \in Nat, NEW l \in Nat, Held(k, l)'
      PROVE  \/ Held(k, l)
             \/ k = Null
             \/ /\ k = issued.csrf + 1 /\ issued'.csrf = issued.csrf + 1
                /\ l = new.cookie.login
  <2>1. CASE jar.csrf = k /\ jar.login = l
    BY <2>1 DEF Held
  <2>2. CASE \E u \in Slots : forms[u].csrf = k /\ forms[u].login = l
    BY <2>2 DEF Held
  <2>3. ASSUME NEW u \in Slots,
               \/ requests'[u].cookie.csrf = k /\ requests'[u].cookie.login = l
               \/ requests'[u].form.csrf = k /\ requests'[u].form.login = l
        PROVE  \/ Held(k, l)
               \/ k = Null
               \/ /\ k = issued.csrf + 1 /\ issued'.csrf = issued.csrf + 1
                  /\ l = new.cookie.login
    <3>1. CASE u = t
      BY <1>1, <2>3, <3>1
    <3>2. CASE u # t
      BY <1>1, <2>3, <3>2 DEF Held
    <3> QED BY <3>1, <3>2
  <2> QED BY <1>5, <2>1, <2>2, <2>3 DEF Held
<1>6. issued.csrf \in Nat /\ issued'.csrf \in Nat
  BY DEF SessionCore, SessionTypes
<1>7. \A k, l \in Nat : Held(k, l) => k <= issued.csrf
  BY DEF SessionCore
<1>8. \A k, l \in Nat : Held(k, l)' => k <= issued'.csrf
  <2> SUFFICES ASSUME NEW k \in Nat, NEW l \in Nat, Held(k, l)'
               PROVE  k <= issued'.csrf
    OBVIOUS
  <2>1. Held(k, l) => k <= issued.csrf
    BY <1>7
  <2>2. issued.csrf <= issued'.csrf
    OBVIOUS
  <2> QED BY <1>5, <1>6, <2>1, <2>2 DEF Null
<1>9. OneLogin'
  <2> SUFFICES ASSUME NEW k \in Nat, NEW l \in Nat, NEW m \in Nat,
                      k # Null, Held(k, l)', Held(k, m)'
               PROVE  l = m
    BY DEF OneLogin
  <2>1. CASE k = issued.csrf + 1
    <3>1. ~Held(k, l) /\ ~Held(k, m)
      BY <1>6, <1>7, <2>1
    <3> QED BY <1>5, <3>1
  <2>2. CASE k # issued.csrf + 1
    BY <1>5, <2>2 DEF SessionCore, OneLogin
  <2> QED BY <2>1, <2>2
<1> QED BY <1>2, <1>3, <1>4, <1>8, <1>9 DEF SessionCore

\* A response leaves the form of its request in place.
LEMMA RespondStep ==
  ASSUME SessionTypes, NEW t \in Slots, NEW c \in CookieType, NEW done \in BOOLEAN,
         Respond(t, c, done)
  PROVE  \E new \in RequestType :
           /\ requests' = [requests EXCEPT ![t] = new]
           /\ new.cookie = c
           /\ new.form = requests[t].form
<1> DEFINE changed == c # requests[t].cookie \/ c.permanent \/ Flashes(t, done)
           new == [requests[t] EXCEPT !.pc = "answered", !.set = changed,
                                      !.cookie = c, !.done = done]
<1>1. requests[t] \in RequestType /\ changed \in BOOLEAN
  BY DEF SessionTypes, CookieType, Flashes
<1>2. new \in RequestType /\ new.cookie = c /\ new.form = requests[t].form
  <2> HIDE DEF changed
  <2> QED BY <1>1 DEF RequestType
<1>3. requests' = [requests EXCEPT ![t] = new]
  BY <1>1 DEF Respond, SessionTypes
<1> HIDE DEF new
<1> QED BY <1>2, <1>3

\* An answer with a cookie that holds its own token, none or a new one.
LEMMA AnswerStep ==
  ASSUME SessionCore, NEW t \in Slots, NEW c \in CookieType, NEW done \in BOOLEAN,
         Respond(t, c, done),
         UNCHANGED <<jar, forms, now>>,
         issued' \in [csrf : Nat, buyer : Nat], issued'.csrf >= issued.csrf,
         logins' = logins \/ \E l \in Nat : logins' = Append(logins, l),
         c.since # Null => c.login \in 1 .. Len(logins') /\ logins'[c.login] = c.since,
         \/ c.csrf = Null
         \/ c.csrf = requests[t].cookie.csrf /\ c.login = requests[t].cookie.login
         \/ c.csrf = issued.csrf + 1 /\ issued'.csrf = issued.csrf + 1
  PROVE  SessionCore'
<1>1. PICK new \in RequestType : /\ requests' = [requests EXCEPT ![t] = new]
                                 /\ new.cookie = c
                                 /\ new.form = requests[t].form
  BY RespondStep DEF SessionCore
<1>2. new.form.csrf = Null \/ Held(new.form.csrf, new.form.login)
  BY <1>1 DEF Held
<1>3. \/ c.csrf = Null
      \/ Held(c.csrf, c.login)
      \/ c.csrf = issued.csrf + 1 /\ issued'.csrf = issued.csrf + 1
  BY DEF Held
<1>4. now' \in Nat \ {0}
  BY DEF SessionCore, SessionTypes
<1>5. Genuine(new.cookie)'
  BY <1>1 DEF Genuine
<1> QED BY <1>1, <1>2, <1>3, <1>4, <1>5, RequestStep

\* An answer that does not touch the login or the token of its cookie.
LEMMA PlainAnswer ==
  ASSUME SessionCore, NEW t \in Slots, NEW c \in CookieType, NEW done \in BOOLEAN,
         Respond(t, c, done),
         UNCHANGED <<jar, forms, now, logins>>,
         issued' \in [csrf : Nat, buyer : Nat], issued'.csrf = issued.csrf,
         c.since = requests[t].cookie.since,
         c.login = requests[t].cookie.login,
         c.csrf = requests[t].cookie.csrf
  PROVE  SessionCore'
<1>1. Genuine(requests[t].cookie)
  BY DEF SessionCore
<1>2. c.since # Null => c.login \in 1 .. Len(logins') /\ logins'[c.login] = c.since
  BY <1>1 DEF Genuine
<1>3. issued'.csrf >= issued.csrf
  BY DEF SessionCore, SessionTypes
<1> QED BY <1>2, <1>3, AnswerStep

\* The buyer's requests.
LEMMA BuyerStep ==
  ASSUME SessionCore, NEW t \in Slots,
         ServeCode(t) \/ ServeUnlock(t) \/ ServeLogout(t) \/ ServeLanguage(t)
  PROVE  SessionCore' /\ UNCHANGED ran
<1> DEFINE c == requests[t].cookie
<1>0. c \in CookieType /\ issued \in [csrf : Nat, buyer : Nat]
  BY DEF SessionCore, SessionTypes, RequestType
<1>1. CASE ServeCode(t)
  <2>1. PICK done \in BOOLEAN : Respond(t, c, done) \/ Respond(t, [c EXCEPT !.buyer = Null], done)
    BY <1>1 DEF ServeCode
  <2>2. UNCHANGED <<jar, forms, now, logins, issued, ran>>
    BY <1>1 DEF ServeCode
  <2> DEFINE d == [c EXCEPT !.buyer = Null]
  <2>3. d \in CookieType /\ d.since = c.since /\ d.login = c.login /\ d.csrf = c.csrf
    BY <1>0 DEF CookieType, Null
  <2> HIDE DEF d
  <2>4. Respond(t, c, done) \/ Respond(t, d, done)
    BY <2>1 DEF d
  <2> QED BY <1>0, <2>2, <2>3, <2>4, PlainAnswer
<1>2. CASE ServeUnlock(t)
  <2>1. UNCHANGED <<jar, forms, now, logins, ran>>
    BY <1>2 DEF ServeUnlock
  <2>2. CASE Respond(t, c, FALSE) /\ UNCHANGED issued
    BY <1>0, <2>1, <2>2, PlainAnswer
  <2>3. CASE /\ issued' = [issued EXCEPT !.buyer = @ + 1]
             /\ Respond(t, [c EXCEPT !.buyer = issued'.buyer, !.permanent = TRUE], TRUE)
    <3> DEFINE d == [c EXCEPT !.buyer = issued'.buyer, !.permanent = TRUE]
    <3>1. issued' \in [csrf : Nat, buyer : Nat] /\ issued'.csrf = issued.csrf
      BY <1>0, <2>3
    <3>2. d \in CookieType /\ d.since = c.since /\ d.login = c.login /\ d.csrf = c.csrf
      BY <1>0, <3>1 DEF CookieType
    <3> HIDE DEF d
    <3>3. Respond(t, d, TRUE)
      BY <2>3 DEF d
    <3> QED BY <2>1, <3>1, <3>2, <3>3, PlainAnswer
  <2> QED BY <1>2, <2>2, <2>3 DEF ServeUnlock
<1>3. CASE ServeLogout(t)
  <2> DEFINE d == [c EXCEPT !.buyer = Null]
  <2>1. d \in CookieType /\ d.since = c.since /\ d.login = c.login /\ d.csrf = c.csrf
    BY <1>0 DEF CookieType, Null
  <2> HIDE DEF d
  <2>2. Respond(t, d, TRUE) /\ UNCHANGED <<jar, forms, now, logins, issued, ran>>
    BY <1>3 DEF ServeLogout, WithoutBuyer, d
  <2> QED BY <1>0, <2>1, <2>2, PlainAnswer
<1>4. CASE ServeLanguage(t)
  <2>1. PICK l \in Languages : Respond(t, [c EXCEPT !.language = l, !.permanent = TRUE], TRUE)
    BY <1>4 DEF ServeLanguage
  <2> DEFINE d == [c EXCEPT !.language = l, !.permanent = TRUE]
  <2>2. d \in CookieType /\ d.since = c.since /\ d.login = c.login /\ d.csrf = c.csrf
    BY <1>0 DEF CookieType
  <2> HIDE DEF d
  <2>3. Respond(t, d, TRUE) /\ UNCHANGED <<jar, forms, now, logins, issued, ran>>
    BY <1>4, <2>1 DEF ServeLanguage, d
  <2> QED BY <1>0, <2>2, <2>3, PlainAnswer
<1> QED BY <1>1, <1>2, <1>3, <1>4

\* What a request that is allowed to run leaves in the history.
LEMMA RunStep ==
  ASSUME SessionCore, NEW t \in Slots, NEW form \in Nat, LoggedIn(requests[t].cookie),
         Run(requests[t].cookie, form), form = requests[t].cookie.login
  PROVE  AdminWithinLifetime' /\ FormsDieWithTheirLogin'
<1> DEFINE c == requests[t].cookie
<1>1. c.since # Null /\ now - c.since <= Lifetime /\ logins[c.login] = c.since
  BY DEF LoggedIn, SessionCore, Genuine
<1>2. ran'.age = now - logins[c.login] /\ ran'.form = form /\ ran'.login = c.login
  BY DEF Run
<1> QED BY <1>1, <1>2 DEF AdminWithinLifetime, FormsDieWithTheirLogin

\* A form with the token of the session was written for its login.
LEMMA ValidFormLogin ==
  ASSUME SessionCore, NEW t \in Slots, ValidForm(t)
  PROVE  requests[t].form.login = requests[t].cookie.login
<1> DEFINE k == requests[t].cookie.csrf
<1>1. /\ k \in Nat /\ requests[t].cookie.login \in Nat
      /\ requests[t].form.login \in Nat
  BY DEF SessionCore, SessionTypes, RequestType, CookieType, FormType
<1>2. k # Null /\ Held(k, requests[t].cookie.login) /\ Held(k, requests[t].form.login)
  BY DEF ValidForm, Held
<1> QED BY <1>1, <1>2 DEF SessionCore, OneLogin

\* A request of the administrator's pages.
LEMMA AdminStep ==
  ASSUME SessionInv, NEW t \in Slots,
         \/ ServeLoginPage(t) \/ ServeLogin(t) \/ ServeAdminPage(t)
         \/ ServeAdminPost(t) \/ ServeAdminLogout(t)
  PROVE  SessionInv'
<1> DEFINE c == requests[t].cookie
<1>0. /\ SessionCore /\ c \in CookieType /\ Genuine(c)
      /\ issued \in [csrf : Nat, buyer : Nat]
      /\ logins \in Seq(Nat) /\ now \in Nat \ {0}
      /\ requests[t].form \in FormType
      /\ AdminWithinLifetime /\ FormsDieWithTheirLogin
  BY DEF SessionInv, SessionCore, SessionTypes, RequestType
<1>1. UNCHANGED ran => AdminWithinLifetime' /\ FormsDieWithTheirLogin'
  BY <1>0 DEF AdminWithinLifetime, FormsDieWithTheirLogin
<1>2. ASSUME NEW done \in BOOLEAN, Respond(t, c, done),
             UNCHANGED <<jar, forms, now, logins, issued>>
      PROVE  SessionCore'
  BY <1>0, <1>2, PlainAnswer
<1>3. CASE ServeLoginPage(t)
  <2>1. UNCHANGED <<jar, forms, now, logins, ran>>
    BY <1>3 DEF ServeLoginPage
  <2>2. CASE c.csrf = Null
    <3> DEFINE d == [c EXCEPT !.csrf = issued'.csrf]
    <3>1. issued' = [issued EXCEPT !.csrf = issued.csrf + 1] /\ Respond(t, d, TRUE)
      BY <1>3, <2>2 DEF ServeLoginPage
    <3>2. issued' \in [csrf : Nat, buyer : Nat] /\ issued'.csrf = issued.csrf + 1
      BY <1>0, <3>1
    <3>3. d \in CookieType /\ d.since = c.since /\ d.login = c.login /\ d.csrf = issued'.csrf
      BY <1>0, <3>2 DEF CookieType
    <3>4. d.since # Null => d.login \in 1 .. Len(logins') /\ logins'[d.login] = d.since
      BY <1>0, <2>1, <3>3 DEF Genuine
    <3> HIDE DEF d
    <3>5. Respond(t, d, TRUE)
      BY <3>1 DEF d
    <3>7. issued'.csrf >= issued.csrf
      BY <1>0, <3>2
    <3>8. SessionCore'
      BY <1>0, <2>1, <3>2, <3>3, <3>4, <3>5, <3>7, AnswerStep
    <3> QED BY <1>1, <2>1, <3>8 DEF SessionInv
  <2>3. CASE c.csrf # Null
    <3>1. Respond(t, c, TRUE) /\ issued' = issued
      BY <1>3, <2>3 DEF ServeLoginPage
    <3> QED BY <1>1, <1>2, <2>1, <3>1 DEF SessionInv
  <2> QED BY <2>2, <2>3
<1>4. CASE ServeLogin(t)
  <2>1. UNCHANGED <<jar, forms, now, ran>>
    BY <1>4 DEF ServeLogin
  <2>2. CASE Respond(t, c, FALSE) /\ UNCHANGED <<issued, logins>>
    BY <1>1, <1>2, <2>1, <2>2 DEF SessionInv
  <2>3. CASE /\ issued' = [issued EXCEPT !.csrf = @ + 1]
             /\ logins' = Append(logins, now)
             /\ Respond(t, LoggedInCookie(c), TRUE)
    <3> DEFINE d == LoggedInCookie(c)
    <3>1. issued' \in [csrf : Nat, buyer : Nat] /\ issued'.csrf = issued.csrf + 1
      <4>1. issued' = [issued EXCEPT !.csrf = issued.csrf + 1]
        BY <2>3
      <4>2. issued \in [csrf : Nat, buyer : Nat]
        BY <1>0
      <4> QED BY <4>1, <4>2
    <3>2. /\ Len(logins) \in Nat
          /\ Len(logins') = Len(logins) + 1
          /\ logins'[Len(logins) + 1] = now
      BY <1>0, <2>3
    <3>3. /\ d \in CookieType /\ d.since = now /\ d.login = Len(logins) + 1
          /\ d.csrf = issued.csrf + 1
      <4> DEFINE n == Len(logins) + 1
                 k == issued.csrf + 1
      <4>1. n \in Nat /\ k \in Nat /\ now \in Nat /\ c \in CookieType
        BY <1>0, <3>2
      <4>2. d = [c EXCEPT !.since = now, !.login = n, !.permanent = TRUE, !.csrf = k]
        BY DEF LoggedInCookie
      <4> HIDE DEF n, k, c, d
      <4>3. d \in CookieType /\ d.since = now /\ d.login = n /\ d.csrf = k
        BY <4>1, <4>2 DEF CookieType
      <4> QED BY <4>3 DEF n, k
    <3> HIDE DEF d
    <3>4. d.login \in 1 .. Len(logins') /\ logins'[d.login] = d.since
      BY <3>2, <3>3
    <3>5. issued'.csrf >= issued.csrf
      BY <1>0, <3>1
    <3>6. SessionCore'
      <4>1. Respond(t, d, TRUE)
        BY <2>3 DEF d
      <4>2. \E l \in Nat : logins' = Append(logins, l)
        BY <1>0, <2>3
      <4> QED BY <1>0, <2>1, <3>1, <3>3, <3>4, <3>5, <4>1, <4>2, AnswerStep DEF Genuine
    <3> QED BY <1>1, <2>1, <3>6 DEF SessionInv
  <2> QED BY <1>4, <2>2, <2>3 DEF ServeLogin
<1>5. CASE ServeAdminPage(t)
  <2>1. UNCHANGED <<jar, forms, now, logins, issued>>
    BY <1>5 DEF ServeAdminPage
  <2>2. CASE LoggedIn(c)
    <3>1. Respond(t, c, TRUE) /\ Run(c, c.login)
      BY <1>5, <2>2 DEF ServeAdminPage, SeenAgain
    <3>2. c.login \in Nat
      BY <1>0 DEF CookieType
    <3> QED BY <1>0, <1>2, <2>1, <2>2, <3>1, <3>2, RunStep DEF SessionInv
  <2>3. CASE ~LoggedIn(c)
    BY <1>1, <1>2, <1>5, <2>1, <2>3 DEF ServeAdminPage, SessionInv
  <2> QED BY <2>2, <2>3
<1>6. CASE ServeAdminPost(t)
  <2> DEFINE runs == LoggedIn(c) /\ ValidForm(t)
  <2>1. /\ UNCHANGED <<jar, forms, now, logins, issued>>
        /\ runs \in BOOLEAN /\ Respond(t, c, runs)
    BY <1>6 DEF ServeAdminPost, LoggedIn, ValidForm
  <2>2. SessionCore'
    <3> HIDE DEF runs
    <3> QED BY <1>2, <2>1
  <2>3. CASE runs
    <3>1. Run(c, requests[t].form.login)
      BY <1>6, <2>3 DEF ServeAdminPost
    <3>2. requests[t].form.login = c.login /\ requests[t].form.login \in Nat
      BY <1>0, <2>3, ValidFormLogin DEF FormType
    <3> QED BY <1>0, <2>2, <2>3, <3>1, <3>2, RunStep DEF SessionInv
  <2>4. CASE ~runs
    BY <1>1, <1>6, <2>2, <2>4 DEF ServeAdminPost, SessionInv
  <2> QED BY <2>3, <2>4
<1>7. CASE ServeAdminLogout(t)
  <2>1. UNCHANGED <<jar, forms, now, logins, issued, ran>>
    BY <1>7 DEF ServeAdminLogout
  <2>2. CASE Respond(t, c, FALSE)
    BY <1>1, <1>2, <2>1, <2>2 DEF SessionInv
  <2>3. CASE Respond(t, WithoutAdmin(c), TRUE)
    <3> DEFINE d == WithoutAdmin(c)
    <3>1. d \in CookieType /\ d.since = Null /\ d.csrf = Null
      BY <1>0 DEF WithoutAdmin, CookieType, Null
    <3> HIDE DEF d
    <3>2. Respond(t, d, TRUE)
      BY <2>3 DEF d
    <3>3. issued' \in [csrf : Nat, buyer : Nat] /\ issued'.csrf >= issued.csrf
      BY <1>0, <2>1
    <3>4. SessionCore'
      BY <1>0, <2>1, <3>1, <3>2, <3>3, AnswerStep
    <3> QED BY <1>1, <2>1, <3>4 DEF SessionInv
  <2> QED BY <1>7, <2>2, <2>3 DEF ServeAdminLogout
<1> QED BY <1>3, <1>4, <1>5, <1>6, <1>7

\* A request leaves with the cookie and the form of the browser.
LEMMA SendStep ==
  ASSUME SessionInv, NEW t \in Slots, NEW kind \in Kinds, Send(t, kind)
  PROVE  SessionInv'
<1> DEFINE new == [NoRequest EXCEPT !.pc = "sent", !.kind = kind,
                                    !.cookie = jar, !.form = forms[t]]
<1>0. /\ SessionCore /\ jar \in CookieType /\ Genuine(jar) /\ forms[t] \in FormType
      /\ issued \in [csrf : Nat, buyer : Nat] /\ now \in Nat \ {0}
  BY DEF SessionInv, SessionCore, SessionTypes
<1>1. UNCHANGED <<jar, forms, issued, now, logins, ran>>
  BY DEF Send
<1>2. new \in RequestType /\ new.cookie = jar /\ new.form = forms[t]
  BY <1>0, StartTypes DEF RequestType
<1>3. requests' = [requests EXCEPT ![t] = new]
  BY DEF Send
<1>4. Held(jar.csrf, jar.login) /\ Held(forms[t].csrf, forms[t].login)
  BY DEF Held
<1>5. Genuine(jar)' /\ issued'.csrf >= issued.csrf
  BY <1>0, <1>1 DEF Genuine
<1> HIDE DEF new
<1>6. PICK r \in RequestType : r = new
  BY <1>2
<1>7. /\ r.cookie = jar /\ r.form = forms[t] /\ requests' = [requests EXCEPT ![t] = r]
      /\ Genuine(r.cookie)'
  BY <1>1, <1>2, <1>3, <1>5, <1>6 DEF Genuine
<1>8. SessionCore'
  BY <1>0, <1>1, <1>4, <1>5, <1>7, RequestStep
<1> QED BY <1>1, <1>8 DEF SessionInv, AdminWithinLifetime, FormsDieWithTheirLogin

\* A response reaches the browser, or is lost.
LEMMA ReceiveStep ==
  ASSUME SessionInv, NEW t \in Slots, Receive(t) \/ Lose(t)
  PROVE  SessionInv'
<1> DEFINE r == requests[t]
           form == [csrf |-> r.cookie.csrf, login |-> r.cookie.login]
<1>0. /\ SessionTypes /\ r \in RequestType /\ r.cookie \in CookieType /\ Genuine(r.cookie)
      /\ Genuine(jar) /\ \A u \in Slots : Genuine(requests[u].cookie)
      /\ OneLogin /\ \A k, l \in Nat : Held(k, l) => k <= issued.csrf
  BY DEF SessionInv, SessionCore, SessionTypes, RequestType
<1>1. UNCHANGED <<issued, now, logins, ran>> /\ requests' = [requests EXCEPT ![t] = NoRequest]
  BY DEF Receive, Lose
<1>2. jar' \in {jar, r.cookie} /\ forms' \in {forms, [forms EXCEPT ![t] = form]}
  BY DEF Receive, Lose
<1>3. form \in FormType /\ form.csrf = r.cookie.csrf /\ form.login = r.cookie.login
  BY <1>0 DEF CookieType, FormType
<1> HIDE DEF form
<1>4. /\ requests'[t] = NoRequest /\ \A u \in Slots \ {t} : requests'[u] = requests[u]
      /\ forms'[t] \in {forms[t], form} /\ \A u \in Slots \ {t} : forms'[u] = forms[u]
  BY <1>0, <1>1, <1>2 DEF SessionTypes
<1>5. SessionTypes'
  BY <1>0, <1>1, <1>2, <1>3, StartTypes DEF SessionTypes
<1>6. Genuine(jar)' /\ \A u \in Slots : Genuine(requests[u].cookie)'
  <2>1. Genuine(jar)'
    BY <1>0, <1>1, <1>2 DEF Genuine
  <2>2. ASSUME NEW u \in Slots
        PROVE  Genuine(requests[u].cookie)'
    BY <1>0, <1>1, <1>4, StartTypes DEF Genuine
  <2> QED BY <2>1, <2>2
<1>7. ASSUME NEW k \in Nat, NEW l \in Nat, Held(k, l)'
      PROVE  Held(k, l) \/ k = Null
  <2>1. CASE jar'.csrf = k /\ jar'.login = l
    BY <1>2, <2>1 DEF Held
  <2>2. ASSUME NEW u \in Slots, forms'[u].csrf = k, forms'[u].login = l
        PROVE  Held(k, l)
    <3>1. forms'[u] = forms[u] \/ (u = t /\ forms'[u] = form)
      BY <1>4
    <3> QED BY <1>3, <2>2, <3>1 DEF Held
  <2>3. ASSUME NEW u \in Slots,
               \/ requests'[u].cookie.csrf = k /\ requests'[u].cookie.login = l
               \/ requests'[u].form.csrf = k /\ requests'[u].form.login = l
        PROVE  Held(k, l) \/ k = Null
    BY <1>4, <2>3, StartTypes DEF Held
  <2> QED BY <1>7, <2>1, <2>2, <2>3 DEF Held
<1>8. OneLogin' /\ \A k, l \in Nat : Held(k, l)' => k <= issued'.csrf
  <2>1. OneLogin'
    BY <1>0, <1>7 DEF OneLogin
  <2>2. issued.csrf \in Nat
    BY <1>0 DEF SessionTypes
  <2>3. ASSUME NEW k \in Nat, NEW l \in Nat, Held(k, l)'
        PROVE  k <= issued'.csrf
    BY <1>0, <1>1, <1>7, <2>2, <2>3 DEF Null
  <2> QED BY <2>1, <2>3
<1>9. AdminWithinLifetime' /\ FormsDieWithTheirLogin'
  BY <1>1 DEF SessionInv, AdminWithinLifetime, FormsDieWithTheirLogin
<1> QED BY <1>5, <1>6, <1>8, <1>9 DEF SessionInv, SessionCore

\* Nothing happens, or only time passes.
LEMMA IdleStep ==
  ASSUME SessionInv, UNCHANGED sessionVars \/ Tick
  PROVE  SessionInv'
<1>1. UNCHANGED <<jar, requests, forms, issued, logins, ran>> /\ now' \in Nat \ {0}
  BY DEF SessionInv, SessionCore, SessionTypes, sessionVars, Tick
<1>2. SessionTypes' /\ Genuine(jar)' /\ \A t \in Slots : Genuine(requests[t].cookie)'
  BY <1>1 DEF SessionInv, SessionCore, SessionTypes, Genuine
<1>3. OneLogin' /\ \A k, l \in Nat : Held(k, l)' => k <= issued'.csrf
  BY <1>1 DEF SessionInv, SessionCore, OneLogin, Held
<1> QED BY <1>1, <1>2, <1>3
        DEF SessionInv, SessionCore, AdminWithinLifetime, FormsDieWithTheirLogin

\* The invariant is preserved.
LEMMA SessionStepInv == SessionInv /\ [SessionNext]_sessionVars => SessionInv'
<1> SUFFICES ASSUME SessionInv, [SessionNext]_sessionVars PROVE SessionInv'
  OBVIOUS
<1>1. ASSUME NEW t \in Slots, Serve(t)
      PROVE  SessionInv'
  <2>1. CASE ServeCode(t) \/ ServeUnlock(t) \/ ServeLogout(t) \/ ServeLanguage(t)
    BY <2>1, BuyerStep DEF SessionInv, AdminWithinLifetime, FormsDieWithTheirLogin
  <2>2. CASE \/ ServeLoginPage(t) \/ ServeLogin(t) \/ ServeAdminPage(t)
             \/ ServeAdminPost(t) \/ ServeAdminLogout(t)
    BY <2>2, AdminStep
  <2> QED BY <1>1, <2>1, <2>2 DEF Serve
<1> QED BY <1>1, SendStep, ReceiveStep, IdleStep DEF SessionNext

----------------------------------------------------------------------------

\* The invariant holds for any number of tabs and requests.
THEOREM SessionInvariant == SessionSpec => []SessionInv
<1> QED BY SessionInitInv, SessionStepInv, PTL DEF SessionSpec

\* Administrators act only within ADMIN_SESSION_HOURS of a login, however the
\* responses of their tabs cross (_admin_logged_in).
THEOREM AdminAlwaysWithinLifetime == SessionSpec => []AdminWithinLifetime
<1>1. SessionInv => AdminWithinLifetime
  BY DEF SessionInv
<1> QED BY <1>1, SessionInvariant, PTL

\* A form acts only under the login it was written for (_check_csrf).
THEOREM FormsAlwaysDieWithTheirLogin == SessionSpec => []FormsDieWithTheirLogin
<1>1. SessionInv => FormsDieWithTheirLogin
  BY DEF SessionInv
<1> QED BY <1>1, SessionInvariant, PTL

----------------------------------------------------------------------------
(* Requests that run alone, and tabs of the administrator.                 *)

\* A request that runs alone holds what the browser holds, or its answer
\* replaces only what such a request may.
Fits(r) ==
  /\ r.pc = "sent" => r.cookie = jar
  /\ r.pc = "answered" =>
       /\ r.set \/ r.cookie = jar
       /\ r.kind = "language" => r.set
       /\ r.kind = "language" \/ r.cookie.language = jar.language
       /\ (r.kind = "unlock" /\ r.done) \/ r.cookie.buyer \in {jar.buyer, Null}
       /\ (r.kind = "login" /\ r.done) \/ r.cookie.since \in {jar.since, Null}
       /\ r.kind = "logout" => r.cookie.buyer = Null
       /\ r.kind = "admin_logout" /\ r.done => r.cookie.since = Null

AloneInv ==
  /\ SessionInv
  /\ Alone
  /\ LogoutHolds
  /\ LanguageStays
  /\ \A t \in Slots : Fits(requests[t])

\* A cookie that a handler may answer the kind of request with.
Answers(kind, done, c, d) ==
  /\ kind = "language" => d.permanent
  /\ kind = "language" \/ d.language = c.language
  /\ (kind = "unlock" /\ done) \/ d.buyer \in {c.buyer, Null}
  /\ (kind = "login" /\ done) \/ d.since \in {c.since, Null}
  /\ kind = "logout" => d.buyer = Null
  /\ kind = "admin_logout" /\ done => d.since = Null

\* What the handlers do with the cookie.
LEMMA ServeDoes ==
  ASSUME SessionTypes, NEW t \in Slots, Serve(t)
  PROVE  /\ requests[t].pc = "sent"
         /\ UNCHANGED <<jar, forms, choice, left>>
         /\ \E d \in CookieType, done \in BOOLEAN :
              Respond(t, d, done) /\ Answers(requests[t].kind, done, requests[t].cookie, d)
<1> DEFINE r == requests[t]
           c == r.cookie
           Goal == \E d \in CookieType, done \in BOOLEAN :
                     Respond(t, d, done) /\ Answers(r.kind, done, c, d)
<1>0. /\ c \in CookieType /\ issued \in [csrf : Nat, buyer : Nat]
      /\ now \in Nat /\ Len(logins) \in Nat
  BY DEF SessionTypes, RequestType
<1>1. r.pc = "sent" /\ UNCHANGED <<jar, forms, choice, left>>
  BY DEF Serve, Receives, ServeCode, ServeUnlock, ServeLogout, ServeLanguage,
         ServeLoginPage, ServeLogin, ServeAdminPage, ServeAdminPost, ServeAdminLogout
<1> SUFFICES Goal
  BY <1>1
<1>2. ASSUME NEW done \in BOOLEAN, Respond(t, c, done),
             r.kind \notin {"language", "logout"}, r.kind = "admin_logout" => ~done
      PROVE  Goal
  BY <1>0, <1>2 DEF Answers
<1>3. CASE ServeCode(t)
  <2>1. PICK done \in BOOLEAN :
          Respond(t, c, done) \/ Respond(t, [c EXCEPT !.buyer = Null], done)
    BY <1>3 DEF ServeCode
  <2>2. r.kind = "code"
    BY <1>3 DEF ServeCode, Receives
  <2> DEFINE d == [c EXCEPT !.buyer = Null]
  <2>3. d \in CookieType /\ Answers("code", done, c, d)
    BY <1>0 DEF CookieType, Null, Answers
  <2> HIDE DEF d
  <2>4. CASE Respond(t, d, done)
    BY <2>2, <2>3, <2>4
  <2>5. CASE Respond(t, c, done)
    BY <1>2, <2>2, <2>5
  <2> QED BY <2>1, <2>4, <2>5 DEF d
<1>4. CASE ServeUnlock(t)
  <2>1. r.kind = "unlock"
    BY <1>4 DEF ServeUnlock, Receives
  <2>2. CASE Respond(t, c, FALSE)
    BY <1>2, <2>1, <2>2
  <2>3. CASE /\ issued' = [issued EXCEPT !.buyer = @ + 1]
             /\ Respond(t, [c EXCEPT !.buyer = issued'.buyer, !.permanent = TRUE], TRUE)
    <3> DEFINE d == [c EXCEPT !.buyer = issued'.buyer, !.permanent = TRUE]
    <3>0. issued'.buyer \in Nat
      BY <1>0, <2>3
    <3>1. d \in CookieType /\ Answers("unlock", TRUE, c, d)
      <4>1. d \in CookieType /\ d.language = c.language /\ d.since = c.since
        BY <1>0, <3>0 DEF CookieType
      <4> HIDE DEF d
      <4> QED BY <4>1 DEF Answers
    <3>2. Respond(t, d, TRUE)
      BY <2>3
    <3> HIDE DEF d
    <3> QED BY <2>1, <3>1, <3>2
  <2> QED BY <1>4, <2>2, <2>3 DEF ServeUnlock
<1>5. CASE ServeLogout(t)
  <2> DEFINE d == WithoutBuyer(c)
  <2>1. d \in CookieType /\ Answers("logout", TRUE, c, d)
    BY <1>0 DEF CookieType, Null, Answers, WithoutBuyer
  <2>2. Respond(t, d, TRUE) /\ r.kind = "logout"
    BY <1>5 DEF ServeLogout, Receives
  <2> HIDE DEF d
  <2> QED BY <2>1, <2>2
<1>6. CASE ServeLanguage(t)
  <2>1. PICK l \in Languages : Respond(t, [c EXCEPT !.language = l, !.permanent = TRUE], TRUE)
    BY <1>6 DEF ServeLanguage
  <2> DEFINE d == [c EXCEPT !.language = l, !.permanent = TRUE]
  <2>2. d \in CookieType /\ Answers("language", TRUE, c, d)
    BY <1>0 DEF CookieType, Answers
  <2>3. Respond(t, d, TRUE) /\ r.kind = "language"
    BY <1>6, <2>1 DEF ServeLanguage, Receives
  <2> HIDE DEF d
  <2> QED BY <2>2, <2>3
<1>7. CASE ServeLoginPage(t)
  <2>1. r.kind = "login_page"
    BY <1>7 DEF ServeLoginPage, Receives
  <2>2. CASE c.csrf = Null
    <3>1. /\ issued' = [issued EXCEPT !.csrf = @ + 1]
          /\ Respond(t, [c EXCEPT !.csrf = issued'.csrf], TRUE)
      BY <1>7, <2>2 DEF ServeLoginPage
    <3>1a. PICK n \in Nat : n = issued'.csrf
      BY <1>0, <3>1
    <3> DEFINE d == [c EXCEPT !.csrf = n]
    <3>2. d \in CookieType /\ Answers("login_page", TRUE, c, d)
      BY <1>0 DEF CookieType, Answers
    <3>3. Respond(t, d, TRUE)
      BY <3>1, <3>1a
    <3> HIDE DEF d
    <3> QED BY <2>1, <3>2, <3>3
  <2>3. CASE c.csrf # Null
    <3>1. Respond(t, c, TRUE)
      BY <1>7, <2>3 DEF ServeLoginPage
    <3> QED BY <1>2, <2>1, <3>1
  <2> QED BY <2>2, <2>3
<1>8. CASE ServeLogin(t)
  <2>1. r.kind = "login"
    BY <1>8 DEF ServeLogin, Receives
  <2>2. CASE Respond(t, c, FALSE)
    BY <1>2, <2>1, <2>2
  <2>3. CASE Respond(t, LoggedInCookie(c), TRUE)
    <3> DEFINE d == LoggedInCookie(c)
    <3>1. d \in CookieType /\ Answers("login", TRUE, c, d)
      <4>1. Len(logins) + 1 \in Nat /\ issued.csrf + 1 \in Nat
        BY <1>0
      <4>2. d \in CookieType /\ d.language = c.language /\ d.buyer = c.buyer
        BY <1>0, <4>1 DEF CookieType, LoggedInCookie
      <4> HIDE DEF d
      <4> QED BY <4>2 DEF Answers
    <3> HIDE DEF d
    <3>2. Respond(t, d, TRUE)
      BY <2>3 DEF d
    <3> QED BY <2>1, <3>1, <3>2
  <2> QED BY <1>8, <2>2, <2>3 DEF ServeLogin
<1>9. CASE ServeAdminPage(t)
  <2>1. r.kind = "admin_page"
    BY <1>9 DEF ServeAdminPage, Receives
  <2>2. Respond(t, c, TRUE) \/ Respond(t, c, FALSE)
    BY <1>9 DEF ServeAdminPage, SeenAgain
  <2> QED BY <1>2, <2>1, <2>2
<1>10. CASE ServeAdminPost(t)
  <2> DEFINE runs == LoggedIn(c) /\ ValidForm(t)
  <2>1. r.kind = "admin_post"
    BY <1>10 DEF ServeAdminPost, Receives
  <2>2. Respond(t, c, runs) /\ runs \in BOOLEAN
    BY <1>10 DEF ServeAdminPost, LoggedIn, ValidForm
  <2> HIDE DEF runs
  <2> QED BY <1>2, <2>1, <2>2
<1>11. CASE ServeAdminLogout(t)
  <2>1. r.kind = "admin_logout"
    BY <1>11 DEF ServeAdminLogout, Receives
  <2> DEFINE d == WithoutAdmin(c)
  <2>2. d \in CookieType /\ Answers("admin_logout", TRUE, c, d)
    BY <1>0 DEF CookieType, Null, Answers, WithoutAdmin
  <2>3. Respond(t, d, TRUE) \/ Respond(t, c, FALSE)
    BY <1>11 DEF ServeAdminLogout
  <2> HIDE DEF d
  <2>4. CASE Respond(t, d, TRUE)
    BY <2>1, <2>2, <2>4
  <2>5. CASE Respond(t, c, FALSE)
    BY <1>2, <2>1, <2>5
  <2> QED BY <2>3, <2>4, <2>5
<1> HIDE DEF Goal
<1> QED BY <1>3, <1>4, <1>5, <1>6, <1>7, <1>8, <1>9, <1>10, <1>11 DEF Serve

\* What a response is, field by field.
LEMMA RespondDoes ==
  ASSUME SessionTypes, NEW t \in Slots, NEW d \in CookieType, NEW done \in BOOLEAN,
         Respond(t, d, done)
  PROVE  /\ requests'[t].pc = "answered" /\ requests'[t].kind = requests[t].kind
         /\ requests'[t].cookie = d /\ requests'[t].done = done
         /\ requests'[t].set = (d # requests[t].cookie \/ d.permanent \/ Flashes(t, done))
         /\ \A u \in Slots \ {t} : requests'[u] = requests[u]
<1> DEFINE changed == d # requests[t].cookie \/ d.permanent \/ Flashes(t, done)
           new == [requests[t] EXCEPT !.pc = "answered", !.set = changed,
                                      !.cookie = d, !.done = done]
<1>1. requests[t] \in RequestType /\ changed \in BOOLEAN
  BY DEF SessionTypes, CookieType, Flashes
<1>2. requests' = [requests EXCEPT ![t] = new]
  BY <1>1 DEF Respond, SessionTypes
<1>3. /\ new.pc = "answered" /\ new.kind = requests[t].kind
      /\ new.cookie = d /\ new.done = done /\ new.set = changed
  <2> HIDE DEF changed
  <2> QED BY <1>1 DEF RequestType
<1> HIDE DEF new
<1>4. requests'[t] = new /\ \A u \in Slots \ {t} : requests'[u] = requests[u]
  BY <1>2 DEF SessionTypes
<1> QED BY <1>3, <1>4

\* The initial states.
LEMMA AloneInitially == SessionInit => AloneInv
<1> SUFFICES ASSUME SessionInit PROVE AloneInv
  OBVIOUS
<1>1. \A t \in Slots : requests[t].pc = "idle"
  BY DEF SessionInit, NoRequest
<1>2. LogoutHolds /\ LanguageStays
  BY DEF SessionInit, LogoutHolds, LanguageStays, NewCookie
<1> QED BY <1>1, <1>2, SessionInitInv DEF AloneInv, Alone, Fits

\* A step of a request that runs alone, or of nobody.
LEMMA AloneStep ==
  ASSUME AloneInv, [SessionNext]_sessionVars, Alone'
  PROVE  AloneInv'
<1>0. /\ SessionInv' /\ SessionTypes /\ SessionTypes'
      /\ \A t \in Slots : Fits(requests[t])
  BY SessionStepInv DEF AloneInv, SessionInv, SessionCore
<1>1. ASSUME NEW t \in Slots, Serve(t)
      PROVE  AloneInv'
  <2>1. PICK d \in CookieType, done \in BOOLEAN :
          Respond(t, d, done) /\ Answers(requests[t].kind, done, requests[t].cookie, d)
    BY <1>0, <1>1, ServeDoes
  <2>2. requests[t].pc = "sent" /\ UNCHANGED <<jar, choice, left>>
    BY <1>0, <1>1, ServeDoes
  <2>3. /\ requests'[t].pc = "answered" /\ requests'[t].kind = requests[t].kind
        /\ requests'[t].cookie = d /\ requests'[t].done = done
        /\ requests'[t].set = (d # requests[t].cookie \/ d.permanent \/ Flashes(t, done))
        /\ \A u \in Slots \ {t} : requests'[u] = requests[u]
    BY <1>0, <2>1, RespondDoes
  <2>4. requests[t].cookie = jar
    BY <1>0, <2>2 DEF Fits
  <2>5. Fits(requests[t])'
    BY <2>1, <2>2, <2>3, <2>4 DEF Fits, Answers
  <2>6. \A u \in Slots \ {t} : Fits(requests[u])'
    BY <1>0, <2>2, <2>3 DEF Fits
  <2>7. LogoutHolds' /\ LanguageStays'
    BY <2>2 DEF AloneInv, LogoutHolds, LanguageStays
  <2> QED BY <1>0, <2>5, <2>6, <2>7 DEF AloneInv
<1>2. ASSUME NEW t \in Slots, NEW kind \in Kinds, Send(t, kind)
      PROVE  AloneInv'
  <2>1. /\ requests'[t].pc = "sent" /\ requests'[t].cookie = jar
        /\ \A u \in Slots \ {t} : requests'[u] = requests[u]
        /\ UNCHANGED <<jar, choice, left>>
    BY <1>0, <1>2 DEF SessionTypes, Send, NoRequest
  <2>2. \A u \in Slots : Fits(requests[u])'
    BY <1>0, <2>1 DEF Fits
  <2>3. LogoutHolds' /\ LanguageStays'
    BY <2>1 DEF AloneInv, LogoutHolds, LanguageStays
  <2> QED BY <1>0, <2>2, <2>3 DEF AloneInv
<1>3. ASSUME NEW t \in Slots, Lose(t)
      PROVE  AloneInv'
  <2>1. /\ requests'[t].pc = "idle"
        /\ \A u \in Slots \ {t} : requests'[u] = requests[u]
        /\ UNCHANGED <<jar, choice, left>>
    BY <1>0, <1>3 DEF SessionTypes, Lose, NoRequest
  <2>2. \A u \in Slots : Fits(requests[u])'
    BY <1>0, <2>1 DEF Fits
  <2>3. LogoutHolds' /\ LanguageStays'
    BY <2>1 DEF AloneInv, LogoutHolds, LanguageStays
  <2> QED BY <1>0, <2>2, <2>3 DEF AloneInv
<1>4. ASSUME NEW t \in Slots, Receive(t)
      PROVE  AloneInv'
  <2> DEFINE r == requests[t]
  <2>1. r.pc = "answered" /\ Fits(r) /\ r.set \in BOOLEAN /\ r.done \in BOOLEAN
    BY <1>0, <1>4 DEF Receive, SessionTypes, RequestType
  <2>2. /\ requests'[t].pc = "idle"
        /\ \A u \in Slots \ {t} : requests'[u] = requests[u]
    BY <1>0, <1>4 DEF SessionTypes, Receive, NoRequest
  <2>3. \A u \in Slots : requests'[u].pc = "idle"
    BY <2>1, <2>2 DEF AloneInv, Alone
  <2>4. \A u \in Slots : Fits(requests[u])'
    BY <2>3 DEF Fits
  <2>5. jar' = r.cookie
    BY <1>4, <2>1 DEF Receive, Fits
  <2>6. LanguageStays'
    <3>1. choice' = IF r.kind = "language" THEN r.cookie.language ELSE choice
      BY <1>4 DEF Receive
    <3> QED BY <2>1, <2>5, <3>1 DEF Fits, AloneInv, LanguageStays
  <2>7. ASSUME "buyer" \in left'
        PROVE  jar'.buyer = Null
    <3>1. r.kind = "logout" \/ ("buyer" \in left /\ ~(r.kind = "unlock" /\ r.done))
      BY <1>4, <2>7 DEF Receive
    <3> QED BY <2>1, <2>5, <3>1 DEF Fits, AloneInv, LogoutHolds
  <2>8. ASSUME "admin" \in left'
        PROVE  jar'.since = Null
    <3>1. \/ r.kind = "admin_logout" /\ r.done
          \/ "admin" \in left /\ ~(r.kind = "login" /\ r.done)
      BY <1>4, <2>8 DEF Receive
    <3> QED BY <2>1, <2>5, <3>1 DEF Fits, AloneInv, LogoutHolds
  <2>9. LogoutHolds'
    BY <2>7, <2>8 DEF LogoutHolds
  <2> QED BY <1>0, <2>4, <2>6, <2>9 DEF AloneInv
<1>5. CASE UNCHANGED sessionVars \/ Tick
  <2>1. UNCHANGED <<jar, requests, choice, left>>
    BY <1>5 DEF sessionVars, Tick
  <2>2. LogoutHolds' /\ LanguageStays'
    BY <2>1 DEF AloneInv, LogoutHolds, LanguageStays
  <2>3. \A u \in Slots : Fits(requests[u])'
    BY <1>0, <2>1 DEF Fits
  <2> QED BY <1>0, <2>2, <2>3 DEF AloneInv
<1> QED BY <1>1, <1>2, <1>3, <1>4, <1>5 DEF SessionNext

\* A browser that waits for each answer holds no session after it was told that
\* it has logged out, and keeps its language as long as it keeps the cookie.
THEOREM OneAtATime ==
  SessionInit /\ [][SessionNext /\ Alone']_sessionVars => [](LogoutHolds /\ LanguageStays)
<1>1. AloneInv /\ [SessionNext /\ Alone']_sessionVars => AloneInv'
  <2> SUFFICES ASSUME AloneInv, [SessionNext /\ Alone']_sessionVars PROVE AloneInv'
    OBVIOUS
  <2>1. [SessionNext]_sessionVars
    OBVIOUS
  <2>2. Alone'
    BY DEF AloneInv, Alone, sessionVars
  <2> QED BY <2>1, <2>2, AloneStep
<1>2. AloneInv => LogoutHolds /\ LanguageStays
  BY DEF AloneInv
<1> QED BY <1>1, <1>2, AloneInitially, PTL

\* Where requests run one at a time, they keep their invariant.
PartsInv == part = "alone" => AloneInv

LEMMA PartsInvariant == MCSpec => []PartsInv
<1>1. MCInit => PartsInv
  BY AloneInitially DEF MCInit, PartsInv
<1>2. PartsInv /\ [MCNext]_<<part, sessionVars, pageVars>> => PartsInv'
  <2> SUFFICES ASSUME PartsInv, [MCNext]_<<part, sessionVars, pageVars>>, part' = "alone"
               PROVE  AloneInv'
    BY DEF PartsInv
  <2>1. part = "alone" /\ AloneInv
    BY DEF MCNext, PartsInv
  <2>2. [SessionNext]_sessionVars /\ Alone'
    BY <2>1 DEF MCNext, AloneInv, Alone, sessionVars
  <2> QED BY <2>1, <2>2, AloneStep
<1> QED BY <1>1, <1>2, PTL DEF MCSpec

\* After the browser was told that it has logged out, it holds no session of
\* that sort until the next unlock or login, when its requests run alone
\* (logout of app.py and of admin.py).
THEOREM LogoutAlwaysHolds == MCSpec => []LogoutHoldsAlone
<1>1. PartsInv => LogoutHoldsAlone
  BY DEF PartsInv, AloneInv, LogoutHoldsAlone
<1> QED BY <1>1, PartsInvariant, PTL

----------------------------------------------------------------------------
(* The page with the code.                                                 *)

\* Arithmetic of periods.

\* Quotient and remainder.
LEMMA Division ==
  ASSUME NEW a \in Nat, NEW d \in Nat \ {0}
  PROVE  /\ a \div d \in Nat
         /\ a % d \in 0 .. d - 1
         /\ a = d * (a \div d) + (a % d)
  OBVIOUS

\* A product grows with its factor.
LEMMA Product ==
  ASSUME NEW d \in Nat, NEW a \in Nat, NEW b \in Nat, a <= b
  PROVE  d * a <= d * b /\ d * a \in Nat
  OBVIOUS

\* So does a quotient.
LEMMA Quotient ==
  ASSUME NEW a \in Nat, NEW b \in Nat, NEW d \in Nat \ {0}, a <= b
  PROVE  a \div d <= b \div d
<1>1. a \div d \in Nat /\ b \div d \in Nat
  BY Division
<1>2. SUFFICES ASSUME b \div d + 1 <= a \div d PROVE FALSE
  BY <1>1
<1>3. d * (b \div d + 1) <= d * (a \div d)
  BY <1>1, <1>2, Product
<1> QED BY <1>1, <1>3, Division

\* A quotient below q is the quotient of less than q times the divisor.
LEMMA QuotientBelow ==
  ASSUME NEW a \in Nat, NEW d \in Nat \ {0}, NEW q \in Nat, a \div d < q
  PROVE  a < q * d
<1>1. a \div d \in Nat /\ a \div d + 1 <= q
  BY Division
<1>2. d * (a \div d + 1) <= d * q
  BY <1>1, Product
<1> QED BY <1>1, <1>2, Division

\* The code of a later moment is no older (generate_totp).
LEMMA CodesGrow ==
  ASSUME NEW t \in Nat, NEW u \in Nat, t <= u
  PROVE  /\ CodeAt(t) \in Nat /\ CodeAt(u) \in Nat
         /\ CodeAt(t) <= CodeAt(u)
<1>1. Second \in Nat \ {0} /\ Period \in Nat \ {0}
  BY PageAssumption
<1>2. t \div Second \in Nat /\ u \div Second \in Nat /\ t \div Second <= u \div Second
  BY <1>1, Division, Quotient
<1> QED BY <1>1, <1>2, Division, Quotient DEF CodeAt

\* What is left of a period reaches to its end, but for what a second rounds off.
LEMMA RemainingReaches ==
  ASSUME NEW t \in Nat
  PROVE  /\ RemainingAt(t) \in 1 .. Period
         /\ t + RemainingAt(t) * Second <= EndOf(CodeAt(t)) + Second - 1
<1> DEFINE q == t \div Second
           c == q \div Period
           m == q % Period
<1>1. Second \in Nat \ {0} /\ Period \in Nat \ {0}
  BY PageAssumption
<1>2. q \in Nat /\ t <= q * Second + Second - 1
  <2>1. q \in Nat /\ t % Second \in 0 .. Second - 1 /\ t = Second * q + (t % Second)
    BY <1>1, Division
  <2>2. Second * q = q * Second /\ q * Second \in Nat
    BY <1>1, <2>1
  <2> HIDE DEF q
  <2> QED BY <1>1, <2>1, <2>2
<1>3. c \in Nat /\ m \in 0 .. Period - 1 /\ q = Period * c + m
  BY <1>1, <1>2, Division
<1>4. RemainingAt(t) = Period - m /\ CodeAt(t) = c
  BY DEF RemainingAt, CodeAt
<1>5. (c + 1) * Period = q + (Period - m)
  BY <1>1, <1>3
<1>6. EndOf(c) = (q + (Period - m)) * Second
  BY <1>5 DEF EndOf
<1> HIDE DEF q, c, m
<1>7. (q + (Period - m)) * Second = q * Second + (Period - m) * Second
  BY <1>1, <1>2, <1>3
<1>8. (Period - m) * Second \in Nat /\ q * Second \in Nat
  BY <1>1, <1>2, <1>3
<1> QED BY <1>1, <1>2, <1>3, <1>4, <1>6, <1>7, <1>8

----------------------------------------------------------------------------
(* The inductive invariant.                                                *)

Fetch == [stage : {"none", "asked", "answered", "refused"},
          asked : Nat, sent : Nat, code : Nat, remaining : Nat]

PageTypeOK ==
  /\ clock \in Nat /\ renderAt \in Nat /\ pollAt \in Nat
  /\ lastFetchAt \in Nat /\ currentRemaining \in Nat
  /\ sentAt \in Nat /\ blankSince \in Nat /\ failures \in Nat
  /\ ended \in Nat \cup {None}
  /\ currentCode \in Nat \cup {None}
  /\ newest \in Nat \cup {None}
  /\ page \in {"code", "left"}
  /\ fetchInFlight \in BOOLEAN
  /\ fetches \in [Fetches -> Fetch]

Under(f) == fetches[f].stage # "none"

\* One fetch is under way at most, and fetchInFlight says whether.
OneFetch ==
  /\ \A f, g \in Fetches : Under(f) /\ Under(g) => f = g
  /\ fetchInFlight <=> \E f \in Fetches : Under(f)

\* A fetch was asked for after the last answer, no longer ago than a trip takes,
\* and its answer is the code of a moment since.
FetchInv ==
  \A f \in Fetches :
    Under(f) =>
      /\ lastFetchAt <= fetches[f].asked
      /\ fetches[f].asked <= clock
      /\ clock <= fetches[f].asked + MaxTrip
      /\ fetches[f].stage = "answered" =>
           /\ fetches[f].asked <= fetches[f].sent
           /\ fetches[f].sent <= clock
           /\ ended # None => fetches[f].sent <= ended
           /\ fetches[f].code = CodeAt(fetches[f].sent)
           /\ fetches[f].remaining = RemainingAt(fetches[f].sent)

\* The timers are due now or later, by no more than their interval.
TimerInv ==
  /\ clock <= renderAt /\ renderAt <= clock + 1
  /\ clock <= pollAt /\ pollAt <= clock + Poll
  /\ ended # None => ended <= clock

\* The code on the screen is the last one that was received, and is taken off by
\* the render at the end of what was left of its period.
ScreenInv ==
  /\ newest # None => newest = CodeAt(sentAt)
  /\ sentAt <= lastFetchAt /\ lastFetchAt <= clock
  /\ currentCode # None =>
       /\ currentCode = newest
       /\ currentRemaining = RemainingAt(sentAt)
       /\ \/ clock < lastFetchAt + currentRemaining * Second
          \/ clock = lastFetchAt + currentRemaining * Second /\ renderAt = clock
  /\ page = "left" => currentCode = None

\* The next fetch of the page, under way or at the next poll, is asked for by t.
AskedBy(t) ==
  /\ \A f \in Fetches : Under(f) => fetches[f].asked <= t
  /\ ~fetchInFlight => pollAt <= t

Delay == failures * (Poll + MaxTrip)

BlankInv == page = "code" /\ currentCode = None => AskedBy(blankSince + Delay)

EndInv == page = "code" /\ ended # None => AskedBy(ended + MaxTrip + Poll + Delay)

PageInv ==
  /\ PageTypeOK /\ OneFetch /\ FetchInv /\ TimerInv /\ ScreenInv /\ BlankInv /\ EndInv

----------------------------------------------------------------------------

\* The delay that failures add, and what one more of them adds.
LEMMA Delays ==
  ASSUME PageTypeOK
  PROVE  /\ Delay \in Nat
         /\ failures' = failures + 1 => Delay' = Delay + (Poll + MaxTrip)
         /\ failures' = failures => Delay' = Delay
<1>1. Poll + MaxTrip \in Nat
  BY PageAssumption
<1>2. failures \in Nat
  BY DEF PageTypeOK
<1> QED BY <1>1, <1>2 DEF Delay

\* fetchCode asks for a code unless a fetch is under way already.
LEMMA FetchCodeDoes ==
  ASSUME PageTypeOK, OneFetch, FetchCode
  PROVE  /\ fetchInFlight' = TRUE
         /\ fetches' \in [Fetches -> Fetch]
         /\ \/ fetchInFlight /\ UNCHANGED fetches
            \/ /\ ~fetchInFlight
               /\ \E f \in Fetches :
                    /\ fetches'[f].stage = "asked" /\ fetches'[f].asked = clock
                    /\ \A g \in Fetches \ {f} : fetches'[g].stage = "none"
<1>1. CASE fetchInFlight
  BY <1>1 DEF FetchCode, PageTypeOK
<1>2. CASE ~fetchInFlight
  <2> DEFINE new == [NoFetch EXCEPT !.stage = "asked", !.asked = clock]
  <2>1. PICK f \in Fetches : fetches' = [fetches EXCEPT ![f] = new]
    BY <1>2 DEF FetchCode, Ask
  <2>2. new \in Fetch /\ new.stage = "asked" /\ new.asked = clock
    BY DEF NoFetch, Fetch, PageTypeOK
  <2>3. \A g \in Fetches : fetches[g].stage = "none"
    BY <1>2 DEF OneFetch, Under
  <2>4. fetchInFlight'
    BY <1>2 DEF FetchCode
  <2> HIDE DEF new
  <2>5. fetches'[f] = new /\ \A g \in Fetches \ {f} : fetches'[g] = fetches[g]
    BY <2>1 DEF PageTypeOK
  <2>6. fetches' \in [Fetches -> Fetch]
    BY <2>1, <2>2 DEF PageTypeOK
  <2>7. fetchInFlight' = TRUE
    BY <1>2 DEF FetchCode
  <2> QED BY <1>2, <2>2, <2>3, <2>5, <2>6, <2>7
<1> QED BY <1>1, <1>2 DEF PageTypeOK

\* It keeps one fetch under way, asked for no later than the next one was to be.
LEMMA FetchCodeKeeps ==
  ASSUME PageInv, FetchCode, clock' = clock, ended' = ended, lastFetchAt' = lastFetchAt
  PROVE  /\ OneFetch' /\ FetchInv'
         /\ \A t \in Nat :
              clock <= t \/ AskedBy(t) =>
                \A f \in Fetches : Under(f)' => fetches'[f].asked <= t
<1>0. /\ PageTypeOK /\ OneFetch /\ FetchInv /\ TimerInv
      /\ clock \in Nat /\ pollAt \in Nat /\ MaxTrip \in Nat
  BY PageAssumption DEF PageInv, PageTypeOK
<1>1. fetchInFlight' = TRUE
  BY <1>0, FetchCodeDoes
<1>2. CASE fetchInFlight /\ UNCHANGED fetches
  <2>1. OneFetch' /\ FetchInv'
    BY <1>0, <1>1, <1>2 DEF OneFetch, FetchInv, Under
  <2>2. \A f \in Fetches : fetches[f].asked \in Nat
    BY <1>0 DEF PageTypeOK, Fetch
  <2>3. \A f \in Fetches : Under(f) => fetches[f].asked <= clock
    BY <1>0 DEF FetchInv
  <2> QED BY <1>0, <1>2, <2>1, <2>2, <2>3 DEF AskedBy, Under
<1>3. CASE /\ ~fetchInFlight
           /\ \E f \in Fetches :
                /\ fetches'[f].stage = "asked" /\ fetches'[f].asked = clock
                /\ \A g \in Fetches \ {f} : fetches'[g].stage = "none"
  <2>1. PICK f \in Fetches :
          /\ fetches'[f].stage = "asked" /\ fetches'[f].asked = clock
          /\ \A g \in Fetches \ {f} : fetches'[g].stage = "none"
    BY <1>3
  <2>2. \A g \in Fetches : Under(g)' <=> g = f
    BY <2>1 DEF Under
  <2>3. OneFetch'
    BY <1>1, <2>2 DEF OneFetch
  <2>4. lastFetchAt <= clock
    BY <1>0 DEF PageInv, ScreenInv, TimerInv, PageTypeOK
  <2>5. FetchInv'
    BY <1>0, <2>1, <2>2, <2>4 DEF FetchInv
  <2>6. clock <= pollAt
    BY <1>0 DEF TimerInv
  <2> QED BY <1>0, <1>3, <2>1, <2>2, <2>3, <2>5, <2>6 DEF AskedBy
<1> QED BY <1>0, <1>2, <1>3, FetchCodeDoes

\* The end of a fetch leaves none under way.
LEMMA FetchEnds ==
  ASSUME PageTypeOK, OneFetch, NEW f \in Fetches, Under(f),
         fetches' = [fetches EXCEPT ![f] = NoFetch], fetchInFlight' = FALSE
  PROVE  /\ fetches' \in [Fetches -> Fetch]
         /\ \A g \in Fetches : ~Under(g)'
         /\ OneFetch' /\ FetchInv'
<1>1. NoFetch \in Fetch /\ NoFetch.stage = "none"
  BY DEF NoFetch, Fetch
<1>2. \A g \in Fetches : ~Under(g)'
  BY <1>1 DEF PageTypeOK, OneFetch, Under
<1> QED BY <1>1, <1>2 DEF PageTypeOK, OneFetch, FetchInv

----------------------------------------------------------------------------
(* The inductive invariant is kept, action by action.                      *)

\* The page starts with a fetch under way.
LEMMA PageInitially == PageInit => PageInv
<1> SUFFICES ASSUME PageInit PROVE PageInv
  OBVIOUS
<1> DEFINE first == CHOOSE g \in Fetches : TRUE
           asked == [NoFetch EXCEPT !.stage = "asked", !.asked = clock]
<1>1. first \in Fetches
  BY PageAssumption
<1>2. /\ Period \in Nat \ {0} /\ Second \in Nat \ {0} /\ Poll \in Nat /\ MaxTrip \in Nat
      /\ None \notin Nat
  BY PageAssumption
<1>3. clock \in Nat /\ 0 <= clock
  BY <1>2 DEF PageInit
<1>4. /\ asked \in Fetch /\ asked.stage = "asked" /\ asked.asked = clock
      /\ NoFetch \in Fetch /\ NoFetch.stage = "none"
  BY <1>3 DEF NoFetch, Fetch
<1>5. fetches = [f \in Fetches |-> IF f = first THEN asked ELSE NoFetch]
  BY DEF PageInit
<1> HIDE DEF first, asked
<1>6. \A f \in Fetches : Under(f) <=> f = first
  BY <1>4, <1>5 DEF Under
<1>7. PageTypeOK
  BY <1>2, <1>3, <1>4, <1>5 DEF PageInit, PageTypeOK
<1>8. OneFetch
  BY <1>1, <1>6 DEF PageInit, OneFetch
<1>9. fetches[first].asked = clock /\ fetches[first].stage = "asked"
  BY <1>1, <1>4, <1>5
<1>10. FetchInv
  BY <1>2, <1>3, <1>6, <1>9 DEF PageInit, FetchInv
<1>11. TimerInv /\ ScreenInv /\ EndInv
  BY <1>2, <1>3 DEF PageInit, TimerInv, ScreenInv, EndInv
<1>12. BlankInv
  <2>1. Delay \in Nat
    BY <1>7, Delays
  <2>2. blankSince = clock /\ fetchInFlight
    BY DEF PageInit
  <2> QED BY <1>3, <1>6, <1>9, <2>1, <2>2 DEF BlankInv, AskedBy
<1> QED BY <1>7, <1>8, <1>10, <1>11, <1>12 DEF PageInv

\* The countdown takes the code off the screen in time.
LEMMA RenderStep == PageInv /\ Render => PageInv'
<1> SUFFICES ASSUME PageInv, Render PROVE PageInv'
  OBVIOUS
<1>0. /\ PageTypeOK /\ OneFetch /\ FetchInv /\ TimerInv /\ ScreenInv /\ BlankInv /\ EndInv
      /\ Second \in Nat \ {0} /\ Poll \in Nat /\ MaxTrip \in Nat /\ Delay \in Nat
      /\ None \notin Nat /\ clock \in Nat
  BY PageAssumption, Delays DEF PageInv, PageTypeOK
<1>1. /\ page = "code" /\ clock = renderAt /\ renderAt' = clock + 1
      /\ clock' = clock /\ ended' = ended /\ page' = page
      /\ currentRemaining' = currentRemaining /\ lastFetchAt' = lastFetchAt
      /\ pollAt' = pollAt /\ sentAt' = sentAt /\ newest' = newest /\ failures' = failures
  BY DEF Render
<1>2. Delay' = Delay
  BY <1>0, <1>1, Delays
<1>3. \/ /\ currentCode # None /\ Countdown <= 0
         /\ currentCode' = None /\ blankSince' = clock /\ FetchCode
      \/ /\ currentCode # None /\ ~(Countdown <= 0)
         /\ currentCode' = currentCode /\ blankSince' = blankSince
      \/ /\ currentCode = None
         /\ currentCode' = currentCode /\ blankSince' = blankSince
         /\ UNCHANGED <<fetchInFlight, fetches>>
  <2>1. Countdown \in Int
    <3>1. clock - lastFetchAt \in Nat
      BY <1>0 DEF ScreenInv, PageTypeOK
    <3> QED BY <1>0, <3>1, Division DEF Countdown, PageTypeOK
  <2> QED BY <2>1 DEF Render
<1>4. FetchCode \/ UNCHANGED <<fetchInFlight, fetches>>
  BY DEF Render
<1>5. /\ fetches' \in [Fetches -> Fetch] /\ fetchInFlight' \in BOOLEAN
      /\ OneFetch' /\ FetchInv'
  <2>1. CASE FetchCode
    BY <1>0, <1>1, <2>1, FetchCodeDoes, FetchCodeKeeps
  <2>2. CASE UNCHANGED <<fetchInFlight, fetches>>
    BY <1>0, <1>1, <2>2 DEF PageTypeOK, OneFetch, FetchInv, Under
  <2> QED BY <1>4, <2>1, <2>2
<1>6. PageTypeOK'
  BY <1>0, <1>1, <1>3, <1>5 DEF PageTypeOK
<1>7. TimerInv'
  BY <1>0, <1>1 DEF TimerInv, PageTypeOK
<1>8. ScreenInv'
  <2>1. ASSUME currentCode # None, ~(Countdown <= 0)
        PROVE  clock < lastFetchAt + currentRemaining * Second
    <3> DEFINE passed == clock - lastFetchAt
    <3>1. passed \in Nat /\ currentRemaining \in Nat
      BY <1>0 DEF ScreenInv, PageTypeOK
    <3>2. passed \div Second \in Nat
      BY <1>0, <3>1, Division
    <3>3. passed \div Second < currentRemaining
      BY <2>1, <3>1, <3>2 DEF Countdown
    <3>4. passed < currentRemaining * Second
      BY <1>0, <3>1, <3>3, QuotientBelow
    <3>5. currentRemaining * Second \in Nat /\ lastFetchAt \in Nat
      BY <1>0, <3>1 DEF PageTypeOK
    <3> QED BY <1>0, <3>4, <3>5
  <2> QED BY <1>0, <1>1, <1>3, <2>1 DEF ScreenInv
<1>9. ASSUME NEW t \in Nat, AskedBy(t)
      PROVE  /\ \A f \in Fetches : Under(f)' => fetches'[f].asked <= t
             /\ ~fetchInFlight' => pollAt <= t
  <2>1. CASE FetchCode
    BY <1>0, <1>1, <1>9, <2>1, FetchCodeDoes, FetchCodeKeeps
  <2>2. CASE UNCHANGED <<fetchInFlight, fetches>>
    BY <1>9, <2>2 DEF AskedBy, Under
  <2> QED BY <1>4, <2>1, <2>2
<1>10. BlankInv'
  <2>1. CASE currentCode # None /\ currentCode' = None /\ blankSince' = clock /\ FetchCode
    <3>1. PICK t \in Nat : t = clock + Delay
      BY <1>0
    <3>2. clock <= t
      BY <1>0, <3>1
    <3>3. \A f \in Fetches : Under(f)' => fetches'[f].asked <= t
      BY <1>1, <2>1, <3>2, FetchCodeKeeps
    <3>4. fetchInFlight'
      BY <1>0, <2>1, FetchCodeDoes
    <3> QED BY <1>1, <1>2, <2>1, <3>1, <3>3, <3>4 DEF BlankInv, AskedBy
  <2>2. CASE currentCode' # None
    BY <2>2 DEF BlankInv
  <2>3. CASE currentCode = None /\ blankSince' = blankSince
    <3>1. PICK t \in Nat : t = blankSince + Delay
      BY <1>0 DEF PageTypeOK
    <3>2. AskedBy(t)
      BY <1>0, <1>1, <2>3, <3>1 DEF BlankInv
    <3> QED BY <1>1, <1>2, <1>9, <2>3, <3>1, <3>2 DEF BlankInv, AskedBy
  <2> QED BY <1>3, <2>1, <2>2, <2>3
<1>11. EndInv'
  <2> SUFFICES ASSUME ended # None PROVE EndInv'
    BY <1>1 DEF EndInv
  <2>1. PICK t \in Nat : t = ended + MaxTrip + Poll + Delay
    BY <1>0 DEF PageTypeOK
  <2>2. AskedBy(t)
    BY <1>0, <1>1, <2>1 DEF EndInv
  <2> QED BY <1>1, <1>2, <1>9, <2>1, <2>2 DEF EndInv, AskedBy
<1> QED BY <1>5, <1>6, <1>7, <1>8, <1>10, <1>11 DEF PageInv

\* A poll asks for a code, at the time it was due, unless one is on its way.
LEMMA PollStep == PageInv /\ PollCode => PageInv'
<1> SUFFICES ASSUME PageInv, PollCode PROVE PageInv'
  OBVIOUS
<1>0. /\ PageTypeOK /\ OneFetch /\ FetchInv /\ TimerInv /\ ScreenInv /\ BlankInv /\ EndInv
      /\ Second \in Nat \ {0} /\ Poll \in Nat /\ MaxTrip \in Nat /\ Delay \in Nat
      /\ None \notin Nat /\ clock \in Nat
  BY PageAssumption, Delays DEF PageInv, PageTypeOK
<1>1. /\ FetchCode /\ pollAt' = clock + Poll
      /\ clock' = clock /\ ended' = ended /\ page' = page /\ currentCode' = currentCode
      /\ currentRemaining' = currentRemaining /\ lastFetchAt' = lastFetchAt
      /\ renderAt' = renderAt /\ sentAt' = sentAt /\ newest' = newest
      /\ blankSince' = blankSince /\ failures' = failures
  BY DEF PollCode, screen, history
<1>2. Delay' = Delay
  BY <1>0, <1>1, Delays
<1>3. /\ OneFetch' /\ FetchInv' /\ fetchInFlight' = TRUE
      /\ fetches' \in [Fetches -> Fetch]
  BY <1>0, <1>1, FetchCodeDoes, FetchCodeKeeps
<1>4. PageTypeOK'
  BY <1>0, <1>1, <1>3 DEF PageTypeOK
<1>5. TimerInv' /\ ScreenInv'
  BY <1>0, <1>1 DEF TimerInv, ScreenInv
<1>6. ASSUME NEW t \in Nat, AskedBy(t)
      PROVE  \A f \in Fetches : Under(f)' => fetches'[f].asked <= t
  BY <1>1, <1>6, FetchCodeKeeps
<1>7. BlankInv'
  <2> SUFFICES ASSUME page = "code", currentCode = None PROVE BlankInv'
    BY <1>1 DEF BlankInv
  <2>1. PICK t \in Nat : t = blankSince + Delay
    BY <1>0 DEF PageTypeOK
  <2>2. AskedBy(t)
    BY <1>0, <2>1 DEF BlankInv
  <2> QED BY <1>1, <1>2, <1>3, <1>6, <2>1, <2>2 DEF BlankInv, AskedBy
<1>8. EndInv'
  <2> SUFFICES ASSUME page = "code", ended # None PROVE EndInv'
    BY <1>1 DEF EndInv
  <2>1. PICK t \in Nat : t = ended + MaxTrip + Poll + Delay
    BY <1>0 DEF PageTypeOK
  <2>2. AskedBy(t)
    BY <1>0, <2>1 DEF EndInv
  <2> QED BY <1>1, <1>2, <1>3, <1>6, <2>1, <2>2 DEF EndInv, AskedBy
<1> QED BY <1>3, <1>4, <1>5, <1>7, <1>8 DEF PageInv

\* An answer shows a code that is no older than the one before.
LEMMA ReceiveCodeStep ==
  ASSUME PageInv, NEW f \in Fetches, ReceiveCode(f)
  PROVE  PageInv'
<1>0. /\ PageTypeOK /\ OneFetch /\ FetchInv /\ TimerInv /\ ScreenInv /\ BlankInv /\ EndInv
      /\ Second \in Nat \ {0} /\ Poll \in Nat /\ MaxTrip \in Nat /\ Delay \in Nat
      /\ None \notin Nat /\ clock \in Nat
  BY PageAssumption, Delays DEF PageInv, PageTypeOK
<1>1. /\ page = "code" /\ fetches[f].stage = "answered"
      /\ currentCode' = fetches[f].code /\ currentRemaining' = fetches[f].remaining
      /\ lastFetchAt' = clock /\ fetchInFlight' = FALSE
      /\ fetches' = [fetches EXCEPT ![f] = NoFetch] /\ sentAt' = fetches[f].sent
      /\ newest' = IF newest = None \/ fetches[f].code > newest
                   THEN fetches[f].code ELSE newest
      /\ clock' = clock /\ ended' = ended /\ page' = page
      /\ renderAt' = renderAt /\ pollAt' = pollAt
      /\ blankSince' = blankSince /\ failures' = failures
  BY DEF ReceiveCode, timers
<1>2. Under(f) /\ fetches[f] \in Fetch
  BY <1>0, <1>1 DEF Under, PageTypeOK
<1>3. /\ lastFetchAt <= fetches[f].asked
      /\ clock <= fetches[f].asked + MaxTrip
      /\ fetches[f].asked <= fetches[f].sent /\ fetches[f].sent <= clock
      /\ ended # None => fetches[f].sent <= ended
      /\ fetches[f].code = CodeAt(fetches[f].sent)
      /\ fetches[f].remaining = RemainingAt(fetches[f].sent)
  BY <1>0, <1>1, <1>2 DEF FetchInv
<1>4. PICK a \in Nat, t \in Nat : a = fetches[f].asked /\ t = fetches[f].sent
  BY <1>2 DEF Fetch
<1>5. /\ fetches' \in [Fetches -> Fetch] /\ OneFetch' /\ FetchInv'
      /\ \A g \in Fetches : ~Under(g)'
  BY <1>0, <1>1, <1>2, FetchEnds
<1>6. /\ RemainingAt(t) \in Nat /\ 1 <= RemainingAt(t) /\ CodeAt(t) \in Nat
  <2>1. RemainingAt(t) \in 1 .. Period /\ Period \in Nat
    BY RemainingReaches, PageAssumption
  <2> QED BY <2>1, CodesGrow
<1>7. newest' = CodeAt(t)
  <2>1. CASE newest = None
    BY <1>1, <1>3, <1>4, <2>1
  <2>2. CASE newest # None
    <3>1. newest = CodeAt(sentAt) /\ sentAt \in Nat /\ sentAt <= t
      BY <1>0, <1>3, <1>4, <2>2 DEF ScreenInv, PageTypeOK
    <3>2. newest <= CodeAt(t) /\ newest \in Nat
      BY <3>1, CodesGrow
    <3> QED BY <1>1, <1>3, <1>4, <1>6, <3>2
  <2> QED BY <2>1, <2>2
<1>8. PageTypeOK'
  <2>1. newest' \in Nat /\ currentCode' \in Nat /\ currentRemaining' \in Nat /\ sentAt' \in Nat
    BY <1>1, <1>3, <1>4, <1>6, <1>7
  <2> QED BY <1>0, <1>1, <1>5, <2>1 DEF PageTypeOK
<1>9. TimerInv'
  BY <1>0, <1>1 DEF TimerInv
<1>10. ScreenInv'
  <2>1. clock < clock + RemainingAt(t) * Second
    BY <1>0, <1>6
  <2>2. currentRemaining' = RemainingAt(sentAt') /\ newest' = CodeAt(sentAt')
        /\ currentCode' = newest' /\ sentAt' <= clock
    BY <1>1, <1>3, <1>4, <1>7
  <2>3. currentRemaining' * Second = RemainingAt(t) * Second
    BY <1>1, <1>3, <1>4
  <2>4. lastFetchAt' = clock /\ clock' = clock /\ page' = "code"
    BY <1>1
  <2> QED BY <1>0, <2>1, <2>2, <2>3, <2>4 DEF ScreenInv
<1>11. BlankInv'
  <2>1. currentCode' # None
    BY <1>0, <1>1, <1>3, <1>4, <1>6
  <2> QED BY <2>1 DEF BlankInv
<1>12. EndInv'
  <2> SUFFICES ASSUME ended # None PROVE EndInv'
    BY <1>1 DEF EndInv
  <2>1. pollAt <= clock + Poll
    BY <1>0 DEF TimerInv
  <2>2. clock <= ended + MaxTrip
    BY <1>0, <1>3, <1>4 DEF PageTypeOK
  <2>3. pollAt <= ended + MaxTrip + Poll + Delay
    BY <1>0, <2>1, <2>2 DEF PageTypeOK
  <2>4. Delay' = Delay
    BY <1>0, <1>1, Delays
  <2> QED BY <1>1, <1>5, <2>3, <2>4 DEF EndInv, AskedBy
<1> QED BY <1>5, <1>8, <1>9, <1>10, <1>11, <1>12 DEF PageInv

\* A refusal ends the page.
LEMMA LeaveStep ==
  ASSUME PageInv, NEW f \in Fetches, LeavePage(f)
  PROVE  PageInv'
<1>0. /\ PageTypeOK /\ OneFetch /\ TimerInv /\ ScreenInv
      /\ None \notin Nat
  BY PageAssumption DEF PageInv
<1>1. /\ fetches[f].stage = "refused" /\ page' = "left" /\ currentCode' = None
      /\ fetchInFlight' = FALSE /\ fetches' = [fetches EXCEPT ![f] = NoFetch]
      /\ clock' = clock /\ ended' = ended /\ currentRemaining' = currentRemaining
      /\ lastFetchAt' = lastFetchAt /\ renderAt' = renderAt /\ pollAt' = pollAt
      /\ sentAt' = sentAt /\ newest' = newest /\ blankSince' = blankSince
      /\ failures' = failures
  BY DEF LeavePage, timers, history
<1>2. Under(f)
  BY <1>1 DEF Under
<1>3. fetches' \in [Fetches -> Fetch] /\ OneFetch' /\ FetchInv'
  BY <1>0, <1>1, <1>2, FetchEnds
<1>4. PageTypeOK'
  BY <1>0, <1>1, <1>3 DEF PageTypeOK
<1>5. TimerInv' /\ ScreenInv'
  BY <1>0, <1>1 DEF TimerInv, ScreenInv
<1>6. BlankInv' /\ EndInv'
  BY <1>1 DEF BlankInv, EndInv
<1> QED BY <1>3, <1>4, <1>5, <1>6 DEF PageInv

\* A failure delays the next code and the end of the page by a poll and a trip.
LEMMA FailStep ==
  ASSUME PageInv, NEW f \in Fetches, FetchFails(f)
  PROVE  PageInv'
<1>0. /\ PageTypeOK /\ OneFetch /\ FetchInv /\ TimerInv /\ ScreenInv /\ BlankInv /\ EndInv
      /\ Poll \in Nat /\ MaxTrip \in Nat /\ Delay \in Nat
      /\ None \notin Nat /\ clock \in Nat
  BY PageAssumption, Delays DEF PageInv, PageTypeOK
<1>1. /\ page = "code" /\ fetches[f].stage # "none" /\ failures' = failures + 1
      /\ fetchInFlight' = FALSE /\ fetches' = [fetches EXCEPT ![f] = NoFetch]
      /\ clock' = clock /\ ended' = ended /\ page' = page /\ currentCode' = currentCode
      /\ currentRemaining' = currentRemaining /\ lastFetchAt' = lastFetchAt
      /\ renderAt' = renderAt /\ pollAt' = pollAt
      /\ sentAt' = sentAt /\ newest' = newest /\ blankSince' = blankSince
  BY DEF FetchFails, screen, timers, history
<1>2. Under(f)
  BY <1>1 DEF Under
<1>3. /\ fetches' \in [Fetches -> Fetch] /\ OneFetch' /\ FetchInv'
      /\ \A g \in Fetches : ~Under(g)'
  BY <1>0, <1>1, <1>2, FetchEnds
<1>4. Delay' = Delay + (Poll + MaxTrip)
  BY <1>0, <1>1, Delays
<1>5. PageTypeOK'
  <2>1. failures' \in Nat
    BY <1>0, <1>1 DEF PageTypeOK
  <2> QED BY <1>0, <1>1, <1>3, <2>1 DEF PageTypeOK
<1>6. TimerInv' /\ ScreenInv'
  BY <1>0, <1>1 DEF TimerInv, ScreenInv
<1>7. ASSUME NEW t \in Nat, AskedBy(t)
      PROVE  pollAt <= t + (Poll + MaxTrip)
  <2>1. fetches[f].asked <= t /\ clock <= fetches[f].asked + MaxTrip
    BY <1>0, <1>2, <1>7 DEF AskedBy, FetchInv
  <2>2. fetches[f].asked \in Nat
    BY <1>0 DEF PageTypeOK, Fetch
  <2>3. pollAt <= clock + Poll /\ pollAt \in Nat
    BY <1>0 DEF TimerInv, PageTypeOK
  <2> QED BY <1>0, <2>1, <2>2, <2>3
<1>8. BlankInv'
  <2> SUFFICES ASSUME currentCode = None PROVE BlankInv'
    BY <1>1 DEF BlankInv
  <2>1. PICK t \in Nat : t = blankSince + Delay
    BY <1>0 DEF PageTypeOK
  <2>2. AskedBy(t)
    BY <1>0, <1>1, <2>1 DEF BlankInv
  <2>3. pollAt' <= blankSince' + Delay'
    BY <1>0, <1>1, <1>4, <1>7, <2>1, <2>2 DEF PageTypeOK
  <2> QED BY <1>3, <2>3 DEF BlankInv, AskedBy
<1>9. EndInv'
  <2> SUFFICES ASSUME ended # None PROVE EndInv'
    BY <1>1 DEF EndInv
  <2>1. PICK t \in Nat : t = ended + MaxTrip + Poll + Delay
    BY <1>0 DEF PageTypeOK
  <2>2. AskedBy(t)
    BY <1>0, <1>1, <2>1 DEF EndInv
  <2>3. pollAt' <= ended' + MaxTrip + Poll + Delay'
    <3>1. pollAt <= t + (Poll + MaxTrip)
      BY <1>7, <2>2
    <3>2. ended \in Nat /\ pollAt \in Nat
      BY <1>0 DEF PageTypeOK
    <3> QED BY <1>0, <1>1, <1>4, <2>1, <3>1, <3>2
  <2> QED BY <1>3, <2>3 DEF EndInv, AskedBy
<1> QED BY <1>3, <1>5, <1>6, <1>8, <1>9 DEF PageInv

\* The server answers a fetch with the code of this moment, or refuses it.
LEMMA CodeApiStep ==
  ASSUME PageInv, NEW f \in Fetches, CodeApi(f)
  PROVE  PageInv'
<1>0. /\ PageTypeOK /\ OneFetch /\ FetchInv /\ TimerInv /\ ScreenInv /\ BlankInv /\ EndInv
      /\ Delay \in Nat /\ None \notin Nat /\ clock \in Nat
  BY PageAssumption, Delays DEF PageInv, PageTypeOK
<1>1. /\ fetches[f].stage = "asked"
      /\ clock' = clock /\ ended' = ended /\ page' = page /\ currentCode' = currentCode
      /\ currentRemaining' = currentRemaining /\ lastFetchAt' = lastFetchAt
      /\ fetchInFlight' = fetchInFlight /\ renderAt' = renderAt /\ pollAt' = pollAt
      /\ sentAt' = sentAt /\ newest' = newest /\ blankSince' = blankSince
      /\ failures' = failures
  BY DEF CodeApi, screen, timers, history
<1>2. CodeAt(clock) \in Nat /\ RemainingAt(clock) \in Nat
  <2>1. CodeAt(clock) \in Nat
    <3>1. clock \in Nat /\ clock <= clock
      BY <1>0
    <3> QED BY <3>1, CodesGrow
  <2>2. RemainingAt(clock) \in 1 .. Period /\ Period \in Nat
    BY <1>0, RemainingReaches, PageAssumption
  <2> QED BY <2>1, <2>2
<1>3. fetches[f] \in Fetch
  BY <1>0 DEF PageTypeOK
<1>4. /\ fetches' = [fetches EXCEPT ![f] = fetches'[f]]
      /\ fetches'[f] \in Fetch /\ fetches'[f].asked = fetches[f].asked
      /\ fetches'[f].stage # "none"
      /\ fetches'[f].stage = "answered" =>
           /\ ended = None /\ fetches'[f].sent = clock
           /\ fetches'[f].code = CodeAt(clock) /\ fetches'[f].remaining = RemainingAt(clock)
  <2>1. CASE ended # None
    <3>1. fetches' = [fetches EXCEPT ![f] = [fetches[f] EXCEPT !.stage = "refused"]]
      BY <2>1 DEF CodeApi
    <3>2. fetches'[f] = [fetches[f] EXCEPT !.stage = "refused"]
      BY <1>0, <3>1 DEF PageTypeOK
    <3>3. fetches' = [fetches EXCEPT ![f] = fetches'[f]]
      BY <1>0, <3>1, <3>2
    <3> QED BY <1>3, <3>2, <3>3 DEF Fetch
  <2>2. CASE ended = None
    <3> DEFINE new == [fetches[f] EXCEPT !.stage = "answered", !.sent = clock,
                                         !.code = CodeAt(clock),
                                         !.remaining = RemainingAt(clock)]
    <3>1. fetches' = [fetches EXCEPT ![f] = new]
      BY <2>2 DEF CodeApi
    <3>2. /\ new \in Fetch /\ new.stage = "answered" /\ new.asked = fetches[f].asked
          /\ new.sent = clock /\ new.code = CodeAt(clock)
          /\ new.remaining = RemainingAt(clock)
      BY <1>0, <1>2, <1>3 DEF Fetch
    <3> HIDE DEF new
    <3>3. fetches'[f] = new
      BY <1>0, <3>1 DEF PageTypeOK
    <3> QED BY <2>2, <3>1, <3>2, <3>3
  <2> QED BY <2>1, <2>2
<1>5. /\ fetches' \in [Fetches -> Fetch]
      /\ \A g \in Fetches \ {f} : fetches'[g] = fetches[g]
  BY <1>0, <1>4 DEF PageTypeOK
<1>6. \A g \in Fetches : /\ Under(g)' <=> Under(g)
                         /\ fetches'[g].asked = fetches[g].asked
  BY <1>1, <1>4, <1>5 DEF Under
<1>7. OneFetch' /\ PageTypeOK' /\ TimerInv' /\ ScreenInv'
  BY <1>0, <1>1, <1>5, <1>6 DEF OneFetch, PageTypeOK, TimerInv, ScreenInv
<1>8. FetchInv'
  <2> SUFFICES ASSUME NEW g \in Fetches, Under(g)
               PROVE  /\ lastFetchAt <= fetches'[g].asked
                      /\ fetches'[g].asked <= clock
                      /\ clock <= fetches'[g].asked + MaxTrip
                      /\ fetches'[g].stage = "answered" =>
                           /\ fetches'[g].asked <= fetches'[g].sent
                           /\ fetches'[g].sent <= clock
                           /\ ended # None => fetches'[g].sent <= ended
                           /\ fetches'[g].code = CodeAt(fetches'[g].sent)
                           /\ fetches'[g].remaining = RemainingAt(fetches'[g].sent)
    BY <1>1, <1>6 DEF FetchInv, CodeAt, RemainingAt
  <2>1. CASE g = f
    BY <1>0, <1>4, <2>1 DEF FetchInv
  <2>2. CASE g # f
    BY <1>0, <1>5, <2>2 DEF FetchInv
  <2> QED BY <2>1, <2>2
<1>9. Delay' = Delay
  BY <1>0, <1>1, Delays
<1>10. BlankInv' /\ EndInv'
  BY <1>0, <1>1, <1>6, <1>9 DEF BlankInv, EndInv, AskedBy
<1> QED BY <1>5, <1>7, <1>8, <1>10 DEF PageInv

\* The order ends while a fetch is under way or before the next poll.
LEMMA EndsStep == PageInv /\ OrderEnds => PageInv'
<1> SUFFICES ASSUME PageInv, OrderEnds PROVE PageInv'
  OBVIOUS
<1>0. /\ PageTypeOK /\ OneFetch /\ FetchInv /\ TimerInv /\ ScreenInv /\ BlankInv /\ EndInv
      /\ Poll \in Nat /\ MaxTrip \in Nat /\ Delay \in Nat
      /\ None \notin Nat /\ clock \in Nat
  BY PageAssumption, Delays DEF PageInv, PageTypeOK
<1>1. /\ ended = None /\ ended' = clock
      /\ clock' = clock /\ page' = page /\ currentCode' = currentCode
      /\ currentRemaining' = currentRemaining /\ lastFetchAt' = lastFetchAt
      /\ fetchInFlight' = fetchInFlight /\ fetches' = fetches
      /\ renderAt' = renderAt /\ pollAt' = pollAt
      /\ sentAt' = sentAt /\ newest' = newest /\ blankSince' = blankSince
      /\ failures' = failures
  BY DEF OrderEnds, screen, timers, history
<1>2. Delay' = Delay
  BY <1>0, <1>1, Delays
<1>3. PageTypeOK' /\ OneFetch' /\ TimerInv' /\ ScreenInv' /\ FetchInv'
  BY <1>0, <1>1 DEF PageTypeOK, OneFetch, TimerInv, ScreenInv, FetchInv, Under
<1>4. BlankInv'
  BY <1>0, <1>1, <1>2 DEF BlankInv, AskedBy, Under
<1>5. EndInv'
  <2>1. pollAt <= clock + MaxTrip + Poll + Delay
    BY <1>0 DEF TimerInv, PageTypeOK
  <2>2. \A f \in Fetches : Under(f) => fetches[f].asked <= clock + MaxTrip + Poll + Delay
    <3>1. \A f \in Fetches : fetches[f].asked \in Nat
      BY <1>0 DEF PageTypeOK, Fetch
    <3> QED BY <1>0, <3>1 DEF FetchInv
  <2> QED BY <1>1, <1>2, <2>1, <2>2 DEF EndInv, AskedBy, Under
<1> QED BY <1>3, <1>4, <1>5 DEF PageInv

\* Time passes once the timers that were due have fired.
LEMMA TickStep == PageInv /\ PageTick => PageInv'
<1> SUFFICES ASSUME PageInv, PageTick PROVE PageInv'
  OBVIOUS
<1>0. /\ PageTypeOK /\ OneFetch /\ FetchInv /\ TimerInv /\ ScreenInv /\ BlankInv /\ EndInv
      /\ Second \in Nat \ {0} /\ Poll \in Nat /\ MaxTrip \in Nat /\ Delay \in Nat
      /\ None \notin Nat /\ clock \in Nat
  BY PageAssumption, Delays DEF PageInv, PageTypeOK
<1>1. /\ page = "code" /\ clock < renderAt /\ clock < pollAt /\ clock' = clock + 1
      /\ ended' = ended /\ page' = page /\ currentCode' = currentCode
      /\ currentRemaining' = currentRemaining /\ lastFetchAt' = lastFetchAt
      /\ fetchInFlight' = fetchInFlight /\ fetches' = fetches
      /\ renderAt' = renderAt /\ pollAt' = pollAt
      /\ sentAt' = sentAt /\ newest' = newest /\ blankSince' = blankSince
      /\ failures' = failures
      /\ \A f \in Fetches : Under(f) => clock < fetches[f].asked + MaxTrip
  BY DEF PageTick, screen, timers, history, Under
<1>2. Delay' = Delay
  BY <1>0, <1>1, Delays
<1>3. PageTypeOK' /\ OneFetch' /\ TimerInv'
  BY <1>0, <1>1 DEF PageTypeOK, OneFetch, TimerInv, Under
<1>4. FetchInv'
  <2>1. \A f \in Fetches : fetches[f] \in Fetch
    BY <1>0 DEF PageTypeOK
  <2> QED BY <1>0, <1>1, <2>1 DEF FetchInv, Under, Fetch, PageTypeOK
<1>5. ScreenInv'
  <2>1. renderAt = clock + 1
    BY <1>0, <1>1 DEF TimerInv, PageTypeOK
  <2>2. currentRemaining * Second \in Nat /\ lastFetchAt \in Nat /\ sentAt \in Nat
    BY <1>0 DEF PageTypeOK
  <2> QED BY <1>0, <1>1, <2>1, <2>2 DEF ScreenInv
<1>6. BlankInv' /\ EndInv'
  BY <1>0, <1>1, <1>2 DEF BlankInv, EndInv, AskedBy, Under
<1> QED BY <1>3, <1>4, <1>5, <1>6 DEF PageInv

\* The invariant is inductive.
LEMMA PageStep == PageInv /\ [PageNext]_pageVars => PageInv'
<1>1. CASE PageInv /\ PageNext
  BY <1>1, RenderStep, PollStep, ReceiveCodeStep, LeaveStep, FailStep, CodeApiStep, EndsStep,
     TickStep DEF PageNext
<1>2. CASE PageInv /\ UNCHANGED pageVars
  BY <1>2 DEF pageVars, screen, timers, history, PageInv, PageTypeOK, OneFetch, FetchInv,
     TimerInv, ScreenInv, BlankInv, EndInv, AskedBy, Delay, Under
<1> QED BY <1>1, <1>2

----------------------------------------------------------------------------
(* The theorems.                                                           *)

\* The inductive invariant of the page, for any period, poll and trip.
THEOREM PageInvariant == PageSpec => []PageInv
  BY PageInitially, PageStep, PTL DEF PageSpec

\* The screen never goes back to an older code (fetchInFlight).
THEOREM CodeNeverBackwards == PageSpec => []NeverBackwards
<1>1. PageInv => NeverBackwards
  BY DEF PageInv, ScreenInv, NeverBackwards
<1> QED BY <1>1, PageInvariant, PTL

\* A code is on the screen after its period for no longer than its answer took
\* and a second (renderCountdown, generate_totp).
THEOREM CodeNotStale == PageSpec => []StaleAtMost
<1>1. PageInv => StaleAtMost
  <2> SUFFICES ASSUME PageInv, currentCode # None
               PROVE  clock <= EndOf(currentCode) + (lastFetchAt - sentAt) + Second - 1
    BY DEF StaleAtMost
  <2>1. /\ clock \in Nat /\ lastFetchAt \in Nat /\ sentAt \in Nat /\ Second \in Nat \ {0}
        /\ Period \in Nat \ {0}
    BY PageAssumption DEF PageInv, PageTypeOK
  <2>2. PICK e \in Int : e = EndOf(CodeAt(sentAt))
    BY <2>1, CodesGrow DEF EndOf
  <2>3. PICK rest \in Nat : rest = RemainingAt(sentAt) * Second
    BY <2>1, RemainingReaches
  <2>4. sentAt + rest <= e + Second - 1
    BY <2>1, <2>2, <2>3, RemainingReaches
  <2>5. currentCode = CodeAt(sentAt) /\ clock <= lastFetchAt + rest
    BY <2>1, <2>3 DEF PageInv, ScreenInv
  <2>6. clock <= e + (lastFetchAt - sentAt) + Second - 1
    BY <2>1, <2>4, <2>5
  <2> QED BY <2>2, <2>5, <2>6
<1> QED BY <1>1, PageInvariant, PTL

\* The page leaves within a bounded time after its order has ended (code_api).
THEOREM PageAlwaysFollows == PageSpec => []PageFollowsOrder
<1>1. PageInv => PageFollowsOrder
  <2> SUFFICES ASSUME PageInv, page = "code", ended # None
               PROVE  clock <= ended + Poll + 2 * MaxTrip + Delay
    BY DEF PageFollowsOrder, Delay
  <2>1. /\ clock \in Nat /\ pollAt \in Nat /\ ended \in Nat
        /\ Poll \in Nat /\ MaxTrip \in Nat /\ Delay \in Nat
    BY PageAssumption, Delays DEF PageInv, PageTypeOK
  <2>2. AskedBy(ended + MaxTrip + Poll + Delay)
    BY DEF PageInv, EndInv
  <2>3. CASE fetchInFlight
    <3>1. PICK f \in Fetches : Under(f)
      BY <2>3 DEF PageInv, OneFetch
    <3>2. fetches[f].asked \in Nat /\ clock <= fetches[f].asked + MaxTrip
      BY <3>1 DEF PageInv, PageTypeOK, Fetch, FetchInv
    <3> QED BY <2>1, <2>2, <3>1, <3>2 DEF AskedBy
  <2>4. CASE ~fetchInFlight
    BY <2>1, <2>2, <2>4 DEF AskedBy, PageInv, TimerInv
  <2> QED BY <2>3, <2>4
<1> QED BY <1>1, PageInvariant, PTL

\* A blank screen gets its next code within a bounded time (renderCountdown).
THEOREM ScreenBlankBriefly == PageSpec => []BlankBriefly
<1>1. PageInv => BlankBriefly
  <2> SUFFICES ASSUME PageInv, page = "code", currentCode = None
               PROVE  clock <= blankSince + MaxTrip + Delay
    BY DEF BlankBriefly, Delay
  <2>1. /\ clock \in Nat /\ pollAt \in Nat /\ blankSince \in Nat
        /\ MaxTrip \in Nat /\ Delay \in Nat
    BY PageAssumption, Delays DEF PageInv, PageTypeOK
  <2>2. AskedBy(blankSince + Delay)
    BY DEF PageInv, BlankInv
  <2>3. CASE fetchInFlight
    <3>1. PICK f \in Fetches : Under(f)
      BY <2>3 DEF PageInv, OneFetch
    <3>2. fetches[f].asked \in Nat /\ clock <= fetches[f].asked + MaxTrip
      BY <3>1 DEF PageInv, PageTypeOK, Fetch, FetchInv
    <3> QED BY <2>1, <2>2, <3>1, <3>2 DEF AskedBy
  <2>4. CASE ~fetchInFlight
    BY <2>1, <2>2, <2>4 DEF AskedBy, PageInv, TimerInv
  <2> QED BY <2>3, <2>4
<1> QED BY <1>1, PageInvariant, PTL
=============================================================================
