-------------------------- MODULE DashboardSession --------------------------
(***************************************************************************)
(* Signing in and out of the dashboard, in the tabs of one browser.        *)
(*                                                                         *)
(* A session has two halves.  The cookie lies in the browser's jar, which  *)
(* all tabs share and no script reads; the CSRF token lies in the storage  *)
(* of one tab.  A request carries the cookie of the moment it is sent, and *)
(* a mutating one the CSRF token of its tab.  Answers arrive in any order, *)
(* the Set-Cookie of one before the script that waits for it runs on.      *)
(*                                                                         *)
(* Data.  A session stands for its cookie and its CSRF token; an operator  *)
(* for the service token typed into the form.  Requests of a tab that do   *)
(* not differ are one.  The routes are two: the login page, and the pages  *)
(* behind requireAuth.                                                     *)
(***************************************************************************)
EXTENDS Integers, FiniteSets

CONSTANTS
  Tab,           (* Tabs of the browser.                                   *)
  Operator,      (* Holders of a service token.                            *)
  Nobody,        (* Not an operator.                                       *)
  MaxSessions,   (* Bound: sessions ever created.                          *)
  MaxCalls       (* Bound: requests under way at the same time.            *)

ASSUME SessionAssumption ==
  /\ Nobody \notin Operator
  /\ MaxSessions \in Nat
  /\ MaxCalls \in Nat

VARIABLES
  issued,        (* The sessions the server has issued, by id.             *)
  jar,           (* The comax_session cookie, NoCookie when there is none. *)
  tabs,          (* The tabs.                                              *)
  calls          (* The requests under way.                                *)

sessionVars == << issued, jar, tabs, calls >>

CookieId  == 1..MaxSessions
NoCookie  == 0
Cookie    == CookieId \cup {NoCookie}
Someone   == Operator \cup {Nobody}

(* goto is the route a navigation under way leads to.  History: who is the *)
(* operator signed in, until logout or a refusal; failed, that a logout    *)
(* failed since the page was entered.                                      *)
TabState == [csrf : Cookie, page : {"login", "app"},
             goto : {"none", "login", "app"}, failed : BOOLEAN, who : Someone]

(* who: the operator typed into the form, or signed in in the tab.  An     *)
(* answer that sets a cookie is "stored" once the browser has taken it.    *)
(* shown: the form or the button that waits for it is on the page.         *)
Call == [tab : Tab, kind : {"read", "write", "login", "logout"}, cookie : Cookie,
         csrf : Cookie, who : Someone, shown : BOOLEAN,
         answer : {"none", "ok", "stored", "401", "403"}]

SessionInit ==
  /\ issued = [s \in CookieId |-> [owner |-> Nobody, live |-> FALSE]]
  /\ jar = NoCookie
  /\ tabs = [t \in Tab |-> [csrf |-> NoCookie, page |-> "login", goto |-> "none",
                            failed |-> FALSE, who |-> Nobody]]
  /\ calls = {}

isAuthenticated(tab) == tab.csrf # NoCookie

(* Busy(t): pending, which disables the submit and the logout button.      *)
Busy(t) == \E c \in calls : c.tab = t /\ c.shown

-----------------------------------------------------------------------------
(* Faulty variants of the operations below.                                *)

MatchAny(c) == TRUE

ForgetOnly(tab) == [tab EXCEPT !.csrf = NoCookie, !.who = Nobody]

-----------------------------------------------------------------------------
(* Requests.                                                               *)

(* Fetch(t, kind, who): apiFetch.  A mutating request carries the CSRF     *)
(* token.  What the server does not read is left out.                      *)
Fetch(t, kind, who) ==
  /\ Cardinality(calls) < MaxCalls
  /\ calls' = calls \cup
       {[tab |-> t, kind |-> kind, who |-> who, answer |-> "none",
         cookie |-> IF kind = "login" THEN NoCookie ELSE jar,
         csrf |-> IF kind = "write" THEN tabs[t].csrf ELSE NoCookie,
         shown |-> kind \in {"login", "logout"}]}

(* Answered(c, a): what the server has read is forgotten, but for a write  *)
(* that was carried out.                                                   *)
Answered(c, a) ==
  IF c.kind = "write" /\ a = "ok" THEN [c EXCEPT !.answer = a]
  ELSE [tab |-> c.tab, kind |-> c.kind, who |-> Nobody, answer |-> a,
        cookie |-> NoCookie, csrf |-> NoCookie, shown |-> c.shown]

Answer(c, a) == calls' = (calls \ {c}) \cup {Answered(c, a)}

(* A page reads or changes something.                                      *)
PageFetches(t, kind) ==
  /\ tabs[t].page = "app"
  /\ Fetch(t, kind, IF kind = "read" THEN Nobody ELSE tabs[t].who)
  /\ UNCHANGED << issued, jar, tabs >>

(* LoginSubmit(t, who): the submit button is disabled while pending.       *)
LoginSubmit(t, who) ==
  /\ tabs[t].page = "login" /\ ~Busy(t)
  /\ Fetch(t, "login", who)
  /\ UNCHANGED << issued, jar, tabs >>

onLogout(t) ==
  /\ tabs[t].page = "app" /\ ~Busy(t)
  /\ Fetch(t, "logout", Nobody)
  /\ UNCHANGED << issued, jar, tabs >>

-----------------------------------------------------------------------------
(* The server.                                                             *)

SessionLives(s) == s # NoCookie /\ issued[s].live

(* VerifyCSRF: the token is the one of the cookie's session.               *)
CsrfMatches(c) == c.csrf = c.cookie

(* The cookie arm of the middleware, then the handler.                     *)
ServeRead(c) ==
  /\ Answer(c, IF SessionLives(c.cookie) THEN "ok" ELSE "401")
  /\ UNCHANGED issued

ServeWrite(c) ==
  \/ /\ ~SessionLives(c.cookie)
     /\ Answer(c, "401")
     /\ UNCHANGED issued
  \/ /\ SessionLives(c.cookie) /\ ~CsrfMatches(c)
     /\ Answer(c, "403")
     /\ UNCHANGED issued
  \/ /\ SessionLives(c.cookie) /\ CsrfMatches(c)
     /\ Answer(c, "ok")
     /\ UNCHANGED issued

(* A login is checked by its token alone: the path is public.  The cookie  *)
(* and the CSRF token of the answer are those of the new session.          *)
ServeLogin(c) ==
  \/ /\ Answer(c, "401")
     /\ UNCHANGED issued
  \/ \E s \in CookieId :
       /\ issued[s].owner = Nobody
       /\ \A r \in 1..(s - 1) : issued[r].owner # Nobody
       /\ issued' = [issued EXCEPT ![s] = [owner |-> c.who, live |-> TRUE]]
       /\ calls' = (calls \ {c}) \cup
            {[c EXCEPT !.answer = "ok", !.cookie = s, !.csrf = s]}

(* So is the path of the logout: it revokes the session of the cookie,     *)
(* whatever the CSRF token, and answers that the cookie is to be dropped.  *)
ServeLogout(c) ==
  /\ issued' = IF c.cookie = NoCookie THEN issued
                   ELSE [issued EXCEPT ![c.cookie].live = FALSE]
  /\ Answer(c, "ok")

ServeCall(c) ==
  /\ c.answer = "none"
  /\ \/ c.kind = "read" /\ ServeRead(c)
     \/ c.kind = "write" /\ ServeWrite(c)
     \/ c.kind = "login" /\ ServeLogin(c)
     \/ c.kind = "logout" /\ ServeLogout(c)
  /\ UNCHANGED << jar, tabs >>

(* A session expires, or is revoked elsewhere.                             *)
SessionEnds(s) ==
  /\ issued[s].live
  /\ issued' = [issued EXCEPT ![s].live = FALSE]
  /\ UNCHANGED << jar, tabs, calls >>

-----------------------------------------------------------------------------
(* Answers.                                                                *)

(* StoreCookie(c): the browser takes the Set-Cookie of the answer.         *)
StoreCookie(c) ==
  /\ c.answer = "ok" /\ c.kind \in {"login", "logout"}
  /\ jar' = IF c.kind = "login" THEN c.cookie ELSE NoCookie
  /\ calls' = (calls \ {c}) \cup {[c EXCEPT !.answer = "stored", !.cookie = NoCookie]}
  /\ UNCHANGED << issued, tabs >>

(* The unauthorized handler: forceLogout, and a navigation nobody awaits.  *)
TurnAway(tab) == [tab EXCEPT !.csrf = NoCookie, !.goto = "login", !.who = Nobody]

(* LoginLands(tab, c, ok): an error leaves the CSRF token alone.           *)
LoginLands(tab, c, ok) ==
  IF ok THEN [tab EXCEPT !.csrf = c.csrf, !.goto = "app", !.who = c.who] ELSE tab

(* LogoutLands(tab, ok): an error clears the CSRF token and stays on the   *)
(* page, which shows it unless it was mounted anew meanwhile.              *)
LogoutLands(tab, ok) ==
  IF ok THEN [tab EXCEPT !.csrf = NoCookie, !.who = Nobody, !.goto = "login"]
        ELSE [tab EXCEPT !.csrf = NoCookie, !.who = Nobody, !.failed = TRUE]

FetchLands(tab, c) == IF c.answer \in {"401", "403"} THEN TurnAway(tab) ELSE tab

(* Land(c): the script that awaits the answer runs on.                     *)
Land(c) ==
  /\ c.answer \in IF c.kind \in {"login", "logout"} THEN {"stored", "401"}
                                                  ELSE {"ok", "401", "403"}
  /\ calls' = calls \ {c}
  /\ tabs' = [tabs EXCEPT ![c.tab] =
       CASE c.kind = "login"  -> LoginLands(@, c, c.answer = "stored")
         [] c.kind = "logout" -> LogoutLands(@, TRUE)
         [] OTHER             -> FetchLands(@, c)]
  /\ UNCHANGED << issued, jar >>

(* NetworkBreaks(c): before or after the server has acted, with status 0.  *)
NetworkBreaks(c) ==
  /\ c.answer \in {"none", "ok"}
  /\ calls' = calls \ {c}
  /\ tabs' = [tabs EXCEPT ![c.tab] =
       CASE c.kind = "login"  -> LoginLands(@, c, FALSE)
         [] c.kind = "logout" -> LogoutLands(@, FALSE)
         [] OTHER             -> @]
  /\ UNCHANGED << issued, jar >>

-----------------------------------------------------------------------------
(* Routes.                                                                 *)

(* Enter(t, anew): beforeLoad of a route; each of the two kinds of page    *)
(* sends to the other whoever it is not for.  A page that is left, or      *)
(* mounted anew, loses its pending button.                                 *)
Enter(t, anew) ==
  LET page == IF isAuthenticated(tabs[t]) THEN "app" ELSE "login"
      left == anew \/ page # tabs[t].page
  IN  /\ tabs' = [tabs EXCEPT ![t].page = page, ![t].goto = "none",
                              ![t].failed = FALSE]
      /\ calls' = IF left
                    THEN {IF c.tab = t THEN [c EXCEPT !.shown = FALSE] ELSE c : c \in calls}
                    ELSE calls
      /\ UNCHANGED << issued, jar >>

(* A navigation begun by a script resolves.                                *)
Arrive(t) ==
  /\ tabs[t].goto # "none"
  /\ \E anew \in BOOLEAN : Enter(t, anew)

(* The operator follows a link of the shell, whose pages are mounted anew. *)
Visit(t) ==
  /\ tabs[t].page = "app"
  /\ Enter(t, TRUE)

(* A reload: the session storage survives; the scripts and the requests    *)
(* they wait for do not.                                                   *)
ReloadPage(t) ==
  /\ tabs' = [tabs EXCEPT ![t].page = IF isAuthenticated(tabs[t]) THEN "app" ELSE "login",
                          ![t].goto = "none", ![t].failed = FALSE]
  /\ calls' = {c \in calls : c.tab # t}
  /\ UNCHANGED << issued, jar >>

-----------------------------------------------------------------------------
TabActs(t) ==
  \/ \E kind \in {"read", "write"} : PageFetches(t, kind)
  \/ \E who \in Operator : LoginSubmit(t, who)
  \/ onLogout(t)
  \/ Visit(t)
  \/ Arrive(t)
  \/ ReloadPage(t)

CallProceeds(c) == ServeCall(c) \/ NetworkBreaks(c) \/ StoreCookie(c) \/ Land(c)

SessionNext ==
  \/ \E t \in Tab : TabActs(t)
  \/ \E c \in calls : CallProceeds(c)
  \/ \E s \in CookieId : SessionEnds(s)

SessionSpec == SessionInit /\ [][SessionNext]_sessionVars

-----------------------------------------------------------------------------
(* Properties.                                                             *)

SessionTypeOK ==
  /\ issued \in [CookieId -> [owner : Someone, live : BOOLEAN]]
  /\ jar \in Cookie
  /\ tabs \in [Tab -> TabState]
  /\ calls \subseteq Call

(* A change asked for in a tab runs as the operator signed in in that tab, *)
(* though another tab may have replaced the cookie (the cookie is matched  *)
(* with the CSRF token of the tab).                                        *)
WritesAreOwn ==
  [][\A c \in calls :
       c.kind = "write" /\ c.answer = "none" /\ [c EXCEPT !.answer = "ok"] \in calls'
         => issued[c.cookie].owner = c.who]_sessionVars

(* A page behind the login form is shown only in a tab that is signed in,  *)
(* is being turned away, or failed to log out; and a tab that is signed in *)
(* is at the login form only while it leaves it (the guards of router.tsx  *)
(* act on entry alone: main.tsx, 41-46, and auth.ts, 92-118).              *)
PageFitsSession ==
  \A t \in Tab :
    /\ tabs[t].page = "app" =>
         \/ isAuthenticated(tabs[t])
         \/ tabs[t].goto = "login" \/ tabs[t].failed
    /\ tabs[t].page = "login" /\ isAuthenticated(tabs[t]) => tabs[t].goto # "none"
=============================================================================
