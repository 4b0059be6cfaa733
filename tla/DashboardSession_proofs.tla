---------------------- MODULE DashboardSession_proofs -----------------------
(***************************************************************************)
(* Proofs about DashboardSession, for every number of tabs, operators,     *)
(* sessions and requests.  The inductive invariant ties each CSRF token,   *)
(* in a tab or on its way, to the operator who signed in with it.          *)
(***************************************************************************)
EXTENDS DashboardSession, TLAPS

SessionMap == [CookieId -> [owner : Someone, live : BOOLEAN]]

(* The token s is the one of a session of the operator who.                *)
IsTokenOf(s, who) ==
  s # NoCookie => who \in Operator /\ issued[s].owner = who

TabOK(tab) ==
  /\ tab \in TabState
  /\ IsTokenOf(tab.csrf, tab.who)
  /\ tab.page = "app" => \/ tab.csrf # NoCookie
                         \/ tab.goto = "login" \/ tab.failed
  /\ tab.page = "login" /\ tab.csrf # NoCookie => tab.goto # "none"

CallOK(c) ==
  /\ c \in Call
  /\ IsTokenOf(c.csrf, c.who)
  /\ c.kind = "login" /\ c.answer = "none" => c.who \in Operator
  /\ c.kind = "login" /\ c.answer \in {"ok", "stored"} => c.csrf # NoCookie
  /\ c.kind = "write" /\ c.answer = "ok" => c.cookie = c.csrf /\ c.csrf # NoCookie

Inv ==
  /\ issued \in SessionMap
  /\ jar \in Cookie
  /\ tabs \in [Tab -> TabState]
  /\ \A t \in Tab : TabOK(tabs[t])
  /\ \A c \in calls : CallOK(c)

(* Who has a session keeps it in name.                                     *)
OwnersKept ==
  \A s \in CookieId : issued[s].owner \in Operator =>
    issued'[s].owner = issued[s].owner

-----------------------------------------------------------------------------
(* The two kinds of steps.                                                 *)

LEMMA InvInit == SessionInit => Inv
<1> SUFFICES ASSUME SessionInit PROVE Inv
  OBVIOUS
<1>1. issued \in SessionMap /\ jar \in Cookie
  BY DEF SessionInit, SessionMap, Someone, Cookie
<1>2. ASSUME NEW t \in Tab PROVE tabs[t] \in TabState /\ TabOK(tabs[t])
  BY DEF SessionInit, TabOK, TabState, IsTokenOf, Someone, Cookie
<1>3. tabs \in [Tab -> TabState]
  BY <1>2 DEF SessionInit
<1>4. \A c \in calls : CallOK(c)
  BY DEF SessionInit
<1> QED BY <1>1, <1>2, <1>3, <1>4 DEF Inv

(* A step of one tab, which leaves the server alone.                       *)
LEMMA TabStep ==
  ASSUME Inv, UNCHANGED issued, jar' \in Cookie,
         NEW t \in Tab, NEW y, TabOK(y),
         tabs' = [tabs EXCEPT ![t] = y],
         \A c \in calls' : c \in calls \/ CallOK(c)
  PROVE  Inv'
<1>1. y \in TabState
  BY DEF TabOK
<1>2. tabs' \in [Tab -> TabState]
  BY <1>1 DEF Inv
<1>3. ASSUME NEW u \in Tab PROVE TabOK(tabs[u])'
  BY DEF Inv, TabOK, IsTokenOf
<1>4. ASSUME NEW c \in calls' PROVE CallOK(c)'
  BY DEF Inv, CallOK, IsTokenOf
<1> QED BY <1>2, <1>3, <1>4 DEF Inv

(* A step of the requests and the server.                                  *)
LEMMA CallStep ==
  ASSUME Inv, UNCHANGED tabs, issued' \in SessionMap, OwnersKept, jar' \in Cookie,
         \A c \in calls' : c \in calls \/ CallOK(c)'
  PROVE  Inv'
<1>1. ASSUME NEW s \in Cookie, NEW who, IsTokenOf(s, who) PROVE IsTokenOf(s, who)'
  BY <1>1 DEF IsTokenOf, OwnersKept, Cookie
<1>2. ASSUME NEW u \in Tab PROVE TabOK(tabs[u])'
  <2>1. TabOK(tabs[u]) /\ tabs[u].csrf \in Cookie
    BY DEF Inv, TabState
  <2> QED BY <1>1, <2>1 DEF TabOK
<1>3. ASSUME NEW c \in calls' PROVE CallOK(c)'
  <2>1. CASE c \in calls
    <3>1. CallOK(c) /\ c.csrf \in Cookie
      BY <2>1 DEF Inv, CallOK, Call
    <3> QED BY <1>1, <3>1 DEF CallOK
  <2> QED BY <1>3, <2>1
<1> QED BY <1>2, <1>3 DEF Inv

-----------------------------------------------------------------------------
(* The requests.                                                           *)

LEMMA FetchOK ==
  ASSUME Inv, NEW t \in Tab, NEW kind \in {"read", "write", "login", "logout"},
         NEW who \in Someone,
         kind = "write" => who = tabs[t].who, kind = "login" => who \in Operator,
         Fetch(t, kind, who), UNCHANGED << issued, jar, tabs >>
  PROVE  Inv'
<1>1. PICK c : c = [tab |-> t, kind |-> kind, who |-> who, answer |-> "none",
                    cookie |-> IF kind = "login" THEN NoCookie ELSE jar,
                    csrf |-> IF kind = "write" THEN tabs[t].csrf ELSE NoCookie,
                    shown |-> kind \in {"login", "logout"}]
  OBVIOUS
<1>2. TabOK(tabs[t]) /\ tabs[t].csrf \in Cookie
  BY DEF Inv, TabState
<1>3. c \in Call
  BY <1>1, <1>2 DEF Inv, Call, Cookie
<1>4. IsTokenOf(c.csrf, c.who)
  BY <1>1, <1>2 DEF TabOK, IsTokenOf
<1>5. CallOK(c)'
  BY <1>1, <1>3, <1>4 DEF CallOK, IsTokenOf
<1>6. calls' = calls \cup {c}
  BY <1>1 DEF Fetch
<1>7. issued' \in SessionMap /\ OwnersKept /\ jar' \in Cookie
  BY DEF Inv, OwnersKept
<1> QED BY <1>5, <1>6, <1>7, CallStep

LEMMA AnsweredOK ==
  ASSUME NEW c, CallOK(c), c.kind \in {"read", "write", "logout"},
         NEW a \in {"ok", "401", "403"},
         c.kind = "write" /\ a = "ok" => c.cookie = c.csrf /\ c.csrf # NoCookie
  PROVE  CallOK(Answered(c, a))
<1> USE DEF Answered
<1>1. CASE c.kind = "write" /\ a = "ok"
  BY <1>1 DEF CallOK, IsTokenOf, Call
<1>2. CASE ~(c.kind = "write" /\ a = "ok")
  <2> DEFINE d == [tab |-> c.tab, kind |-> c.kind, who |-> Nobody, answer |-> a,
                   cookie |-> NoCookie, csrf |-> NoCookie, shown |-> c.shown]
  <2>1. Answered(c, a) = d
    BY <1>2
  <2>2. d \in Call
    BY DEF CallOK, Call, Someone, Cookie
  <2>3. c.kind # "login" /\ d.kind = c.kind /\ d.answer = a /\ d.csrf = NoCookie
    OBVIOUS
  <2> QED BY <1>2, <2>1, <2>2, <2>3 DEF CallOK, IsTokenOf
<1> QED BY <1>1, <1>2

LEMMA ServeOK ==
  ASSUME Inv, NEW c \in calls, ServeCall(c) PROVE Inv'
<1>1. CallOK(c) /\ c \in Call /\ c.answer = "none"
  BY DEF Inv, CallOK, ServeCall
<1>2. jar' \in Cookie /\ UNCHANGED tabs
  BY DEF Inv, ServeCall
<1>3. ASSUME NEW a \in {"ok", "401", "403"}, Answer(c, a),
             c.kind \in {"read", "write", "logout"},
             c.kind = "write" /\ a = "ok" => c.cookie = c.csrf /\ c.csrf # NoCookie,
             issued' \in SessionMap, OwnersKept
      PROVE  Inv'
  <2>1. CallOK(Answered(c, a))
    BY <1>1, <1>3, AnsweredOK
  <2>2. PICK d : d = Answered(c, a)
    OBVIOUS
  <2>3. CallOK(d) /\ calls' = (calls \ {c}) \cup {d}
    BY <1>3, <2>1, <2>2 DEF Answer
  <2>4. CallOK(d)'
    BY <1>3, <2>3 DEF CallOK, IsTokenOf, OwnersKept, Call, Cookie
  <2> QED BY <1>2, <1>3, <2>3, <2>4, CallStep
<1>4. CASE c.kind = "read" /\ ServeRead(c)
  BY <1>3, <1>4 DEF ServeRead, Inv, OwnersKept
<1>5. CASE c.kind = "write" /\ ServeWrite(c)
  BY <1>3, <1>5 DEF ServeWrite, Inv, OwnersKept, CsrfMatches, SessionLives
<1>6. CASE c.kind = "logout" /\ ServeLogout(c)
  <2>1. c.cookie \in Cookie
    BY <1>1 DEF Call
  <2>2. issued' \in SessionMap /\ OwnersKept
    BY <1>6, <2>1 DEF Inv, ServeLogout, SessionMap, OwnersKept, Cookie
  <2> QED BY <1>3, <1>6, <2>2 DEF ServeLogout
<1>7. CASE c.kind = "login" /\ ServeLogin(c)
  <2>1. CASE Answer(c, "401") /\ UNCHANGED issued
    <3>1. PICK d : d = Answered(c, "401")
      OBVIOUS
    <3>2. d = [tab |-> c.tab, kind |-> "login", who |-> Nobody, answer |-> "401",
               cookie |-> NoCookie, csrf |-> NoCookie, shown |-> c.shown]
      BY <1>7, <3>1 DEF Answered
    <3>3. CallOK(d)'
      BY <1>1, <3>2 DEF CallOK, IsTokenOf, Call, Someone, Cookie
    <3>4. calls' = (calls \ {c}) \cup {d}
      BY <2>1, <3>1 DEF Answer
    <3>5. issued' \in SessionMap /\ OwnersKept
      BY <2>1 DEF Inv, OwnersKept
    <3> QED BY <1>2, <3>3, <3>4, <3>5, CallStep
  <2>2. ASSUME NEW s \in CookieId, issued[s].owner = Nobody,
               issued' = [issued EXCEPT ![s] = [owner |-> c.who, live |-> TRUE]],
               calls' = (calls \ {c}) \cup
                 {[c EXCEPT !.answer = "ok", !.cookie = s, !.csrf = s]}
        PROVE  Inv'
    <3> c.who \in Operator
      BY <1>1, <1>7 DEF CallOK
    <3>1. issued' \in SessionMap
      BY <2>2 DEF Inv, SessionMap, Someone
    <3>2. issued'[s].owner = c.who /\ OwnersKept
      BY <2>2, SessionAssumption DEF Inv, SessionMap, OwnersKept
    <3>3. PICK d : d = [c EXCEPT !.answer = "ok", !.cookie = s, !.csrf = s]
      OBVIOUS
    <3>4. /\ d \in Call /\ d.csrf = s /\ d.who = c.who
          /\ d.kind = "login" /\ d.answer = "ok"
      BY <1>1, <1>7, <3>3 DEF Call, Cookie
    <3>5. CallOK(d)'
      BY <2>2, <3>2, <3>4 DEF CallOK, IsTokenOf, CookieId, NoCookie
    <3>6. calls' = (calls \ {c}) \cup {d}
      BY <2>2, <3>3
    <3> QED BY <1>2, <3>1, <3>2, <3>5, <3>6, CallStep
  <2> QED BY <1>7, <2>1, <2>2 DEF ServeLogin
<1> QED BY <1>4, <1>5, <1>6, <1>7 DEF ServeCall

LEMMA SessionEndsOK ==
  ASSUME Inv, NEW s \in CookieId, SessionEnds(s) PROVE Inv'
<1>1. issued' \in SessionMap /\ OwnersKept
  BY DEF Inv, SessionEnds, SessionMap, OwnersKept
<1>2. UNCHANGED << jar, tabs, calls >>
  BY DEF SessionEnds
<1> QED BY <1>1, <1>2, CallStep DEF Inv

-----------------------------------------------------------------------------
(* The answers.                                                            *)

LEMMA StoreCookieOK ==
  ASSUME Inv, NEW c \in calls, StoreCookie(c) PROVE Inv'
<1>1. CallOK(c) /\ c \in Call
  BY DEF Inv, CallOK
<1>2. PICK d : d = [c EXCEPT !.answer = "stored", !.cookie = NoCookie]
  OBVIOUS
<1>3. CallOK(d)'
  BY <1>1, <1>2 DEF StoreCookie, CallOK, IsTokenOf, Call, Cookie
<1>4. jar' \in Cookie /\ UNCHANGED << issued, tabs >>
  BY <1>1 DEF StoreCookie, Call, Cookie
<1>5. calls' = (calls \ {c}) \cup {d}
  BY <1>2 DEF StoreCookie
<1> QED BY <1>3, <1>4, <1>5, CallStep DEF Inv, OwnersKept

(* What an answer does to a tab keeps the tab in order.                    *)
LEMMA LandedTab ==
  ASSUME Inv, NEW c \in calls, NEW tab, TabOK(tab)
  PROVE  /\ c.kind = "login" /\ c.answer = "stored" => TabOK(LoginLands(tab, c, TRUE))
         /\ TabOK(LoginLands(tab, c, FALSE))
         /\ TabOK(LogoutLands(tab, TRUE)) /\ TabOK(LogoutLands(tab, FALSE))
         /\ TabOK(FetchLands(tab, c))
<1>1. CallOK(c) /\ c \in Call /\ tab \in TabState
  BY DEF Inv, CallOK, TabOK
<1>2. ASSUME c.kind = "login", c.answer = "stored"
      PROVE  TabOK(LoginLands(tab, c, TRUE))
  <2>1. PICK y : y = [tab EXCEPT !.csrf = c.csrf, !.goto = "app", !.who = c.who]
    OBVIOUS
  <2>2. /\ y \in TabState /\ y.csrf = c.csrf /\ y.who = c.who /\ y.goto = "app"
        /\ c.csrf # NoCookie
    BY <1>1, <1>2, <2>1 DEF TabState, Call, CallOK
  <2>3. IsTokenOf(y.csrf, y.who)
    BY <1>1, <2>2 DEF CallOK
  <2>4. TabOK(y)
    BY <2>2, <2>3 DEF TabOK
  <2> QED BY <2>1, <2>4 DEF LoginLands
<1>3. ASSUME NEW y \in TabState, y.csrf = NoCookie, y.goto = "login" \/ y.failed
      PROVE  TabOK(y)
  BY <1>3 DEF TabOK, IsTokenOf
<1>4. TabOK(LogoutLands(tab, TRUE))
  <2>1. PICK y : y = [tab EXCEPT !.csrf = NoCookie, !.who = Nobody, !.goto = "login"]
    OBVIOUS
  <2>2. y \in TabState /\ y.csrf = NoCookie /\ y.goto = "login"
    BY <1>1, <2>1 DEF TabState, Cookie, Someone
  <2> QED BY <1>3, <2>1, <2>2 DEF LogoutLands
<1>5. TabOK(LogoutLands(tab, FALSE))
  <2>1. PICK y : y = [tab EXCEPT !.csrf = NoCookie, !.who = Nobody, !.failed = TRUE]
    OBVIOUS
  <2>2. y \in TabState /\ y.csrf = NoCookie /\ y.failed
    BY <1>1, <2>1 DEF TabState, Cookie, Someone
  <2> QED BY <1>3, <2>1, <2>2 DEF LogoutLands
<1>6. TabOK(FetchLands(tab, c))
  <2>1. PICK y : y = [tab EXCEPT !.csrf = NoCookie, !.goto = "login", !.who = Nobody]
    OBVIOUS
  <2>2. y \in TabState /\ y.csrf = NoCookie /\ y.goto = "login"
    BY <1>1, <2>1 DEF TabState, Cookie, Someone
  <2>3. TabOK(TurnAway(tab))
    BY <1>3, <2>1, <2>2 DEF TurnAway
  <2> QED BY <2>3 DEF FetchLands
<1> QED BY <1>2, <1>4, <1>5, <1>6 DEF LoginLands

LEMMA LandOK ==
  ASSUME Inv, NEW c \in calls, Land(c) PROVE Inv'
<1>1. c.tab \in Tab /\ c.kind \in {"read", "write", "login", "logout"}
  BY DEF Inv, CallOK, Call
<1>2. TabOK(tabs[c.tab])
  BY <1>1 DEF Inv
<1>3. PICK y : y = CASE c.kind = "login"  -> LoginLands(tabs[c.tab], c, c.answer = "stored")
                     [] c.kind = "logout" -> LogoutLands(tabs[c.tab], TRUE)
                     [] OTHER             -> FetchLands(tabs[c.tab], c)
  OBVIOUS
<1>4. tabs' = [tabs EXCEPT ![c.tab] = y]
  BY <1>3 DEF Land
<1>5. TabOK(y)
  <2>1. CASE c.kind = "login" /\ c.answer = "stored"
    BY <1>2, <1>3, <2>1, LandedTab
  <2>2. CASE c.kind = "login" /\ c.answer # "stored"
    BY <1>2, <1>3, <2>2, LandedTab
  <2>3. CASE c.kind = "logout"
    BY <1>2, <1>3, <2>3, LandedTab
  <2>4. CASE c.kind \in {"read", "write"}
    BY <1>2, <1>3, <2>4, LandedTab
  <2> QED BY <1>1, <2>1, <2>2, <2>3, <2>4
<1>6. UNCHANGED issued /\ jar' \in Cookie /\ calls' \subseteq calls
  BY DEF Land, Inv
<1> QED BY <1>1, <1>4, <1>5, <1>6, TabStep

LEMMA NetworkBreaksOK ==
  ASSUME Inv, NEW c \in calls, NetworkBreaks(c) PROVE Inv'
<1>1. c.tab \in Tab /\ c.kind \in {"read", "write", "login", "logout"}
  BY DEF Inv, CallOK, Call
<1>2. TabOK(tabs[c.tab])
  BY <1>1 DEF Inv
<1>3. PICK y : y = CASE c.kind = "login"  -> LoginLands(tabs[c.tab], c, FALSE)
                     [] c.kind = "logout" -> LogoutLands(tabs[c.tab], FALSE)
                     [] OTHER             -> tabs[c.tab]
  OBVIOUS
<1>4. tabs' = [tabs EXCEPT ![c.tab] = y]
  BY <1>3 DEF NetworkBreaks
<1>5. TabOK(y)
  <2>1. CASE c.kind = "login"
    BY <1>2, <1>3, <2>1, LandedTab
  <2>2. CASE c.kind = "logout"
    BY <1>2, <1>3, <2>2, LandedTab
  <2>3. CASE c.kind \in {"read", "write"}
    BY <1>2, <1>3, <2>3
  <2> QED BY <1>1, <2>1, <2>2, <2>3
<1>6. UNCHANGED issued /\ jar' \in Cookie /\ calls' \subseteq calls
  BY DEF NetworkBreaks, Inv
<1> QED BY <1>1, <1>4, <1>5, <1>6, TabStep

-----------------------------------------------------------------------------
(* The routes.                                                             *)

LEMMA EnteredTab ==
  ASSUME NEW tab, TabOK(tab), NEW page \in {"login", "app"},
         page = "app" <=> isAuthenticated(tab)
  PROVE  TabOK([tab EXCEPT !.page = page, !.goto = "none", !.failed = FALSE])
<1>1. PICK y : y = [tab EXCEPT !.page = page, !.goto = "none", !.failed = FALSE]
  OBVIOUS
<1>2. y \in TabState /\ y.csrf = tab.csrf /\ y.who = tab.who /\ y.page = page
  BY <1>1 DEF TabOK, TabState
<1>3. TabOK(y)
  BY <1>2 DEF TabOK, isAuthenticated
<1> QED BY <1>1, <1>3

LEMMA EnterOK ==
  ASSUME Inv, NEW t \in Tab, NEW anew \in BOOLEAN, Enter(t, anew) PROVE Inv'
<1>1. PICK page \in {"login", "app"} :
        page = IF isAuthenticated(tabs[t]) THEN "app" ELSE "login"
  OBVIOUS
<1>2. PICK y : y = [tabs[t] EXCEPT !.page = page, !.goto = "none", !.failed = FALSE]
  OBVIOUS
<1>3. TabOK(tabs[t])
  BY DEF Inv
<1>4. TabOK(y)
  BY <1>1, <1>2, <1>3, EnteredTab
<1>5. tabs' = [tabs EXCEPT ![t] = y]
  BY <1>1, <1>2 DEF Enter
<1>6. ASSUME NEW c \in calls, NEW d, d = [c EXCEPT !.shown = FALSE] PROVE CallOK(d)
  <2>1. CallOK(c) /\ c \in Call
    BY DEF Inv, CallOK
  <2>2. /\ d \in Call /\ d.csrf = c.csrf /\ d.who = c.who /\ d.kind = c.kind
        /\ d.answer = c.answer /\ d.cookie = c.cookie
    BY <1>6, <2>1 DEF Call
  <2> QED BY <2>1, <2>2 DEF CallOK
<1>7. \A d \in calls' : d \in calls \/ \E c \in calls : d = [c EXCEPT !.shown = FALSE]
  BY DEF Enter
<1>8. UNCHANGED issued /\ jar' \in Cookie
  BY DEF Enter, Inv
<1> QED BY <1>4, <1>5, <1>6, <1>7, <1>8, TabStep

LEMMA ReloadPageOK ==
  ASSUME Inv, NEW t \in Tab, ReloadPage(t) PROVE Inv'
<1>1. PICK page \in {"login", "app"} :
        page = IF isAuthenticated(tabs[t]) THEN "app" ELSE "login"
  OBVIOUS
<1>2. PICK y : y = [tabs[t] EXCEPT !.page = page, !.goto = "none", !.failed = FALSE]
  OBVIOUS
<1>3. TabOK(tabs[t])
  BY DEF Inv
<1>4. TabOK(y)
  BY <1>1, <1>2, <1>3, EnteredTab
<1>5. tabs' = [tabs EXCEPT ![t] = y]
  BY <1>1, <1>2 DEF ReloadPage
<1>6. UNCHANGED issued /\ jar' \in Cookie /\ calls' \subseteq calls
  BY DEF ReloadPage, Inv
<1> QED BY <1>4, <1>5, <1>6, TabStep

-----------------------------------------------------------------------------
(* The invariant.                                                          *)

LEMMA TabActsOK ==
  ASSUME Inv, NEW t \in Tab, TabActs(t) PROVE Inv'
<1>1. \/ \E kind \in {"read", "write"} : PageFetches(t, kind)
      \/ \E who \in Operator : LoginSubmit(t, who)
      \/ onLogout(t) \/ Visit(t) \/ Arrive(t) \/ ReloadPage(t)
  BY DEF TabActs
<1>2. tabs[t].who \in Someone
  BY DEF Inv, TabState
<1>3. ASSUME NEW kind \in {"read", "write"}, PageFetches(t, kind) PROVE Inv'
  <2>1. PICK who \in Someone : who = IF kind = "read" THEN Nobody ELSE tabs[t].who
    BY <1>2 DEF Someone
  <2>2. Fetch(t, kind, who) /\ UNCHANGED << issued, jar, tabs >>
    BY <1>3, <2>1 DEF PageFetches
  <2> QED BY <2>1, <2>2, FetchOK
<1>4. ASSUME NEW who \in Operator, LoginSubmit(t, who) PROVE Inv'
  BY <1>4, FetchOK DEF LoginSubmit, Someone
<1>5. CASE onLogout(t)
  BY <1>5, FetchOK DEF onLogout, Someone
<1>6. CASE Visit(t)
  BY <1>6, EnterOK DEF Visit
<1>7. CASE Arrive(t)
  BY <1>7, EnterOK DEF Arrive
<1>8. CASE ReloadPage(t)
  BY <1>8, ReloadPageOK
<1> QED BY <1>1, <1>3, <1>4, <1>5, <1>6, <1>7, <1>8

LEMMA InvNext == Inv /\ [SessionNext]_sessionVars => Inv'
<1> SUFFICES ASSUME Inv, [SessionNext]_sessionVars PROVE Inv'
  OBVIOUS
<1>1. ASSUME NEW t \in Tab, TabActs(t) PROVE Inv'
  BY <1>1, TabActsOK
<1>2. ASSUME NEW c \in calls, CallProceeds(c) PROVE Inv'
  BY <1>2, ServeOK, NetworkBreaksOK, StoreCookieOK, LandOK DEF CallProceeds
<1>3. ASSUME NEW s \in CookieId, SessionEnds(s) PROVE Inv'
  BY <1>3, SessionEndsOK
<1>4. CASE UNCHANGED sessionVars
  BY <1>4 DEF sessionVars, Inv, TabOK, CallOK, IsTokenOf
<1> QED BY <1>1, <1>2, <1>3, <1>4 DEF SessionNext

LEMMA SessionInvariance == SessionSpec => []Inv
<1> QED BY InvInit, InvNext, PTL DEF SessionSpec

-----------------------------------------------------------------------------
(* The properties.                                                         *)

(* The state is of its type.                                               *)
THEOREM SessionTypeCorrect == SessionSpec => []SessionTypeOK
<1>1. Inv => SessionTypeOK
  BY DEF Inv, SessionTypeOK, SessionMap, CallOK
<1> QED BY <1>1, SessionInvariance, PTL

(* A page behind the form is shown in a tab that is signed in, is being    *)
(* turned away, or failed to log out (router.tsx, 44-48 and 113-122).      *)
THEOREM PageFits == SessionSpec => []PageFitsSession
<1>1. Inv => PageFitsSession
  BY DEF Inv, PageFitsSession, TabOK, isAuthenticated
<1> QED BY <1>1, SessionInvariance, PTL

(* A change asked for in a tab runs as the operator signed in there, for   *)
(* the middleware matches the cookie with the CSRF token of the tab.       *)
THEOREM WritesOwn == SessionSpec => WritesAreOwn
<1>1. ASSUME Inv, Inv', NEW c \in calls, c.kind = "write", c.answer = "none",
             [c EXCEPT !.answer = "ok"] \in calls'
      PROVE  issued[c.cookie].owner = c.who
  <2>1. CallOK(c) /\ c \in Call
    BY <1>1 DEF Inv, CallOK
  <2>2. PICK d : d = [c EXCEPT !.answer = "ok"]
    OBVIOUS
  <2>3. d.kind = "write" /\ d.answer = "ok" /\ d.cookie = c.cookie /\ d.csrf = c.csrf
    BY <1>1, <2>1, <2>2 DEF Call
  <2>4. CallOK(d)'
    BY <1>1, <2>2 DEF Inv
  <2>5. c.cookie = c.csrf /\ c.csrf # NoCookie
    BY <2>3, <2>4 DEF CallOK
  <2> QED BY <2>1, <2>5 DEF CallOK, IsTokenOf
<1>2. Inv /\ Inv' => [\A c \in calls :
        c.kind = "write" /\ c.answer = "none" /\ [c EXCEPT !.answer = "ok"] \in calls'
          => issued[c.cookie].owner = c.who]_sessionVars
  BY <1>1
<1> QED BY <1>2, SessionInvariance, PTL DEF WritesAreOwn
=============================================================================
