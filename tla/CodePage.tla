------------------------------ MODULE CodePage ------------------------------
(***************************************************************************)
(* The buyer's page with the one-time code (static/app.js), GET /api/code  *)
(* (app.py) and the arithmetic of the code's period (totp.py).             *)
(*                                                                         *)
(* The page runs one thread of callbacks: a timer that renders the         *)
(* countdown, a timer that polls, and the answers to its fetches, which    *)
(* take any time up to MaxTrip and may fail.  A code is the number of its  *)
(* period.  The clock counts ticks of the countdown's timer; timers fire   *)
(* on time (the page is in the foreground), in any order within a tick.    *)
(***************************************************************************)
EXTENDS Integers

CONSTANTS
  Second,       \* ticks in a second
  Period,       \* seconds a code is valid
  Poll,         \* ticks between two polls
  Fetches,        \* bound: requests the browser can have under way
  MaxTrip,      \* bound: ticks a fetch takes
  MaxFailures,  \* bound: fetches that fail
  LastTick,      \* bound: the clock stops here
  None

ASSUME PageAssumption ==
  /\ {Second, Period, Poll, MaxTrip} \subseteq Nat \ {0}
  /\ {MaxFailures, LastTick} \subseteq Nat
  /\ Fetches # {}
  /\ None \notin Nat

VARIABLES
  clock,
  ended,             \* when the order ended, or None
  page,              \* "code" until the browser is sent to /
  currentCode,       \* the code on the screen; None: blank
  currentRemaining,
  lastFetchAt,
  fetchInFlight,
  fetches,           \* request -> where it is
  renderAt, pollAt,  \* when the timers fire next
  sentAt,            \* history: when the server computed the code on the screen
  newest,            \* history: the newest code that was on the screen
  blankSince,        \* history: when the screen became blank
  failures           \* number of fetches that failed

screen == <<currentCode, currentRemaining, lastFetchAt>>
timers == <<renderAt, pollAt>>
history == <<sentAt, newest, blankSince>>
pageVars == <<clock, ended, page, screen, fetchInFlight, fetches, timers, history, failures>>

NoFetch == [stage |-> "none", asked |-> 0, sent |-> 0, code |-> 0, remaining |-> 0]

\* generate_totp without the digest: the period of a time and what is left of it.
CodeAt(t) == (t \div Second) \div Period
RemainingAt(t) == Period - ((t \div Second) % Period)

\* The page is loaded at any time within a period and asks for a code at once.
PageInit ==
  /\ clock \in 0 .. Period * Second - 1
  /\ ended = None
  /\ page = "code"
  /\ currentCode = None
  /\ currentRemaining = 0
  /\ lastFetchAt = 0
  /\ fetchInFlight = TRUE
  /\ fetches = [f \in Fetches |-> IF f = CHOOSE g \in Fetches : TRUE
                                 THEN [NoFetch EXCEPT !.stage = "asked", !.asked = clock]
                                 ELSE NoFetch]
  /\ renderAt = clock + 1
  /\ pollAt = clock + Poll
  /\ sentAt = 0
  /\ newest = None
  /\ blankSince = clock
  /\ failures = 0

----------------------------------------------------------------------------
(* The page.                                                               *)

Ask == \E f \in Fetches :
         /\ fetches[f].stage = "none"
         /\ fetches' = [fetches EXCEPT ![f] = [NoFetch EXCEPT !.stage = "asked",
                                                              !.asked = clock]]

\* Faulty variant: a fetch starts while another one is under way.
FetchCode_Overlapping ==
  /\ fetchInFlight' = TRUE
  /\ \/ Ask
     \/ (\A f \in Fetches : fetches[f].stage # "none") /\ UNCHANGED fetches

FetchCode ==
  IF fetchInFlight THEN UNCHANGED <<fetchInFlight, fetches>>
  ELSE fetchInFlight' = TRUE /\ Ask

\* What the countdown shows.
Countdown == currentRemaining - (clock - lastFetchAt) \div Second

\* Faulty variant: the countdown stays at zero for a second.
Render_ZeroShown ==
  /\ page = "code"
  /\ clock = renderAt
  /\ renderAt' = clock + 1
  /\ IF currentCode # None /\ Countdown < 0
     THEN currentCode' = None /\ blankSince' = clock
     ELSE UNCHANGED <<currentCode, blankSince>>
  /\ IF currentCode # None /\ Countdown <= 1
     THEN FetchCode
     ELSE UNCHANGED <<fetchInFlight, fetches>>
  /\ UNCHANGED <<clock, ended, page, currentRemaining, lastFetchAt, pollAt,
                 sentAt, newest, failures>>

\* renderCountdown, on its timer.
Render ==
  /\ page = "code"
  /\ clock = renderAt
  /\ renderAt' = clock + 1
  /\ IF currentCode # None /\ Countdown <= 0
     THEN currentCode' = None /\ blankSince' = clock
     ELSE UNCHANGED <<currentCode, blankSince>>
  /\ IF currentCode # None /\ Countdown <= 1
     THEN FetchCode
     ELSE UNCHANGED <<fetchInFlight, fetches>>
  /\ UNCHANGED <<clock, ended, page, currentRemaining, lastFetchAt, pollAt,
                 sentAt, newest, failures>>

\* fetchCode, on its timer.
PollCode ==
  /\ page = "code"
  /\ clock = pollAt
  /\ pollAt' = clock + Poll
  /\ FetchCode
  /\ UNCHANGED <<clock, ended, page, screen, renderAt, history, failures>>

\* The answer arrives.  The page renders it at once; what is left of its
\* period is at least a second and a fetch is still in flight, so that changes
\* nothing more.
ReceiveCode(f) ==
  /\ page = "code"
  /\ fetches[f].stage = "answered"
  /\ currentCode' = fetches[f].code
  /\ currentRemaining' = fetches[f].remaining
  /\ lastFetchAt' = clock
  /\ fetchInFlight' = FALSE
  /\ fetches' = [fetches EXCEPT ![f] = NoFetch]
  /\ sentAt' = fetches[f].sent
  /\ newest' = IF newest = None \/ fetches[f].code > newest
               THEN fetches[f].code ELSE newest
  /\ UNCHANGED <<clock, ended, page, timers, blankSince, failures>>

\* Faulty variant: a refusal is shown as any other error.
LeavePage_ErrorShown(f) ==
  /\ page = "code"
  /\ fetches[f].stage = "refused"
  /\ fetchInFlight' = FALSE
  /\ fetches' = [fetches EXCEPT ![f] = NoFetch]
  /\ UNCHANGED <<clock, ended, page, screen, timers, history, failures>>

\* 401 or 403: the browser is sent to /, which shows no code.
LeavePage(f) ==
  /\ page = "code"
  /\ fetches[f].stage = "refused"
  /\ page' = "left"
  /\ currentCode' = None
  /\ fetchInFlight' = FALSE
  /\ fetches' = [fetches EXCEPT ![f] = NoFetch]
  /\ UNCHANGED <<clock, ended, currentRemaining, lastFetchAt, timers, history, failures>>

\* Faulty variant: an error leaves the mark of the fetch under way.
FetchFails_StillInFlight(f) ==
  /\ page = "code"
  /\ failures < MaxFailures
  /\ fetches[f].stage # "none"
  /\ failures' = failures + 1
  /\ fetches' = [fetches EXCEPT ![f] = NoFetch]
  /\ UNCHANGED <<clock, ended, page, screen, fetchInFlight, timers, history>>

\* The fetch fails, at the server or on the way; the screen is left alone.
FetchFails(f) ==
  /\ page = "code"
  /\ failures < MaxFailures
  /\ fetches[f].stage # "none"
  /\ failures' = failures + 1
  /\ fetchInFlight' = FALSE
  /\ fetches' = [fetches EXCEPT ![f] = NoFetch]
  /\ UNCHANGED <<clock, ended, page, screen, timers, history>>

----------------------------------------------------------------------------
(* The server.                                                             *)

\* code_api: refused without an active session, else the code of this moment.
CodeApi(f) ==
  /\ fetches[f].stage = "asked"
  /\ fetches' = [fetches EXCEPT
                   ![f] = IF ended # None
                          THEN [@ EXCEPT !.stage = "refused"]
                          ELSE [@ EXCEPT !.stage = "answered", !.sent = clock,
                                         !.code = CodeAt(clock),
                                         !.remaining = RemainingAt(clock)]]
  /\ UNCHANGED <<clock, ended, page, screen, fetchInFlight, timers, history, failures>>

\* The order lapses or is revoked.
OrderEnds ==
  /\ ended = None
  /\ ended' = clock
  /\ UNCHANGED <<clock, page, screen, fetchInFlight, fetches, timers, history, failures>>

\* Time passes when the timers that are due have fired; no fetch takes longer
\* than MaxTrip.
PageTick ==
  /\ clock < LastTick
  /\ page = "code"
  /\ clock < renderAt /\ clock < pollAt
  /\ \A f \in Fetches : fetches[f].stage # "none" => clock < fetches[f].asked + MaxTrip
  /\ clock' = clock + 1
  /\ UNCHANGED <<ended, page, screen, fetchInFlight, fetches, timers, history, failures>>

PageNext ==
  \/ Render
  \/ PollCode
  \/ \E f \in Fetches : ReceiveCode(f) \/ LeavePage(f) \/ FetchFails(f) \/ CodeApi(f)
  \/ OrderEnds
  \/ PageTick

PageSpec == PageInit /\ [][PageNext]_pageVars

----------------------------------------------------------------------------
(* Properties.                                                             *)

EndOf(code) == (code + 1) * Period * Second

\* A code stays on the screen after the end of its period by no more than its
\* answer was under way and the second that the server rounds off, although
\* the page knows neither the server's clock nor the time of the answer
\* (renderCountdown, lastFetchAt, generate_totp).
StaleAtMost ==
  currentCode # None =>
    clock <= EndOf(currentCode) + (lastFetchAt - sentAt) + Second - 1

\* The screen never goes back to an older code, whatever the countdown, the
\* poll and slow answers do (fetchInFlight).
NeverBackwards == currentCode \in {None, newest}

\* The page of an order that has ended is left within one poll and two trips,
\* and one poll and trip more for each fetch that failed; a fetch under way at
\* the end may still bring a code (fetchCode, code_api).
PageFollowsOrder ==
  page = "code" /\ ended # None =>
    clock <= ended + Poll + 2 * MaxTrip + failures * (Poll + MaxTrip)

\* A blank screen gets its next code within one trip, and one poll and trip
\* more for each fetch that failed (renderCountdown asks for the next code as
\* it blanks the screen; the poll repeats a fetch that failed).
BlankBriefly ==
  page = "code" /\ currentCode = None =>
    clock <= blankSince + MaxTrip + failures * (Poll + MaxTrip)
=============================================================================
