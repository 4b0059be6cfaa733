----------------------- MODULE AccessControl_proofs ------------------------
(***************************************************************************)
(* Theorems about AccessControl, for every set of processes and requests   *)
(* and every bound: there is always exactly one admin, a revoked token     *)
(* lets nobody in, and the audit log tells every session's story although  *)
(* ids are reused.                                                         *)
(***************************************************************************)
EXTENDS AccessControl, FiniteSetTheorems, TLAPS

AdminExists == \E t \in TokenId : tokens[t].admin

(* There is no second admin, the admin is live, and only an admin can have *)
(* revoked a token.  Ids start at 1, so that is the backfill's MIN(id).    *)
TokenInv ==
  /\ \A t, u \in TokenId : tokens[t].admin /\ tokens[u].admin => t = u
  /\ \A t \in TokenId : tokens[t].admin => tokens[t].state = "live"
  /\ \A t \in TokenId : tokens[t].state = "revoked" => AdminExists
  /\ \A t \in TokenId : tokens[t].state # "absent" => tokens[1].state # "absent"

(* A process that has run Migrate finds an admin or an empty table, one    *)
(* that serves finds an admin, and so does a request let in as admin.      *)
AdminInv ==
  /\ \A p \in Process : /\ procs[p] \in {"count", "bootstrap"} => Issued = {} \/ AdminExists
                        /\ procs[p] = "up" => AdminExists
  /\ \A r \in Request : requests[r].admin => AdminExists

(* What was revoked when a request came still is.                          *)
BarredInv ==
  \A r \in Request : /\ requests[r].barred \subseteq Revoked
                     /\ requests[r].phase \in {"authed", "login"} =>
                          requests[r].token \notin requests[r].barred

AccessInv == TypeOK /\ TokenInv /\ AdminInv /\ BarredInv

----------------------------------------------------------------------------
LEMMA OneIsTokenId == 1 \in TokenId
BY AccessAssumption DEF TokenId

(* The guard of RevokeToken: the only admin is never revoked.              *)
LEMMA AdminNotRevoked ==
  ASSUME AccessInv, NEW r \in Request, NEW t \in TokenId, RevokeToken(r, t)
  PROVE  ~tokens[t].admin
<1> SUFFICES ASSUME tokens[t].admin PROVE FALSE
  OBVIOUS
<1>1. LiveAdmins = {t}
  BY DEF AccessInv, TokenInv, LiveAdmins
<1>2. Cardinality(LiveAdmins) = 1
  BY <1>1, FS_Singleton
<1>3. Cardinality(LiveAdmins) > 1
  BY DEF RevokeToken
<1> QED
  BY <1>2, <1>3

(* How a step changes the tokens: not at all; Migrate makes the first one  *)
(* admin when there is none; Bootstrap mints an admin in an empty table; a *)
(* new token that is not admin; or a token that is not admin is revoked.   *)
Promoted(t) ==
  /\ ~AdminExists /\ tokens[t].state # "absent"
  /\ tokens' = [tokens EXCEPT ![t] = [tokens[t] EXCEPT !.admin = TRUE]]
Minted ==
  /\ Issued = {}
  /\ tokens' = [tokens EXCEPT ![1] = [state |-> "live", admin |-> TRUE]]
Added(t) ==
  /\ AdminExists /\ tokens[t].state = "absent" /\ t # 1
  /\ tokens' = [tokens EXCEPT ![t] = [state |-> "live", admin |-> FALSE]]
Withdrawn(t) ==
  /\ AdminExists /\ ~tokens[t].admin /\ tokens[t].state = "live"
  /\ tokens' = [tokens EXCEPT ![t] = [tokens[t] EXCEPT !.state = "revoked"]]

TokenStep ==
  \/ tokens' = tokens
  \/ Minted
  \/ \E t \in TokenId : Added(t) \/ Withdrawn(t)
  \/ Promoted(1)

LEMMA MigrateTokens ==
  ASSUME AccessInv, NEW p \in Process, Migrate(p)
  PROVE  /\ tokens' = tokens \/ Promoted(1)
         /\ Issued = {} \/ AdminExists'
<1>1. CASE Issued = {}
  <2>1. tokens' = [t \in TokenId |-> tokens[t]]
    BY <1>1 DEF Migrate
  <2> QED
    BY <1>1, <2>1 DEF AccessInv, TypeOK
<1>2. CASE Issued # {}
  <2>1. 1 \in Issued /\ \A u \in Issued : 1 <= u
    BY <1>2, OneIsTokenId DEF AccessInv, TokenInv, Issued, TokenId
  <2>2. CASE \A u \in Issued : ~tokens[u].admin
    <3>1. ~AdminExists
      BY <2>2 DEF AccessInv, TokenInv, AdminExists, Issued
    <3>2. \A t \in Issued : (\A u \in Issued : t <= u) <=> t = 1
      BY <2>1 DEF Issued, TokenId
    <3>3. tokens' = [t \in TokenId |-> IF t = 1 THEN [tokens[t] EXCEPT !.admin = TRUE]
                                       ELSE tokens[t]]
      BY <2>1, <2>2, <3>2 DEF Migrate
    <3>4. tokens' = [tokens EXCEPT ![1] = [tokens[1] EXCEPT !.admin = TRUE]]
      BY <3>3 DEF AccessInv, TypeOK
    <3>5. tokens[1] \in Token /\ 1 \in TokenId
      BY OneIsTokenId DEF AccessInv, TypeOK
    <3>6. tokens'[1].admin
      BY <3>4, <3>5 DEF Token, AccessInv, TypeOK
    <3> QED
      BY <2>1, <3>1, <3>4, <3>5, <3>6 DEF Promoted, Issued, AdminExists
  <2>3. CASE \E u \in Issued : tokens[u].admin
    <3>1. tokens' = [t \in TokenId |-> tokens[t]]
      BY <2>3 DEF Migrate
    <3>2. tokens' = tokens
      BY <3>1 DEF AccessInv, TypeOK
    <3> QED
      BY <2>3, <3>2 DEF AdminExists, Issued
  <2> QED
    BY <2>2, <2>3
<1> QED
  BY <1>1, <1>2

LEMMA AnyTokenStep == ASSUME AccessInv, [Next]_vars PROVE TokenStep
<1> USE DEF AccessInv
<1>1. ASSUME NEW p \in Process, Migrate(p) PROVE TokenStep
  BY <1>1, MigrateTokens DEF TokenStep
<1>2. ASSUME NEW p \in Process, Bootstrap(p) PROVE TokenStep
  BY <1>2 DEF Bootstrap, TokenStep, Minted
<1>3. ASSUME NEW r \in Request, CreateToken(r) PROVE TokenStep
  <2>1. AdminExists
    BY <1>3 DEF CreateToken, AdminInv
  <2>2. PICK n \in 0..MaxTokens - 1 :
          /\ IsLastId(n, Issued)
          /\ tokens' = [tokens EXCEPT ![n + 1] = [state |-> "live", admin |-> FALSE]]
    BY <1>3 DEF CreateToken
  <2>3. n + 1 \in TokenId /\ n + 1 \notin Issued
    BY <2>2, AccessAssumption DEF IsLastId, TokenId, Issued
  <2>4. Issued # {}
    BY <2>1 DEF AdminExists, TokenInv, Issued
  <2>5. n # 0
    BY <2>2, <2>4, OneIsTokenId DEF TokenInv, IsLastId, Issued, TokenId
  <2>6. Added(n + 1)
    BY <2>1, <2>2, <2>3, <2>5 DEF Added, Issued
  <2> QED
    BY <2>3, <2>6 DEF TokenStep
<1>4. ASSUME NEW r \in Request, NEW t \in TokenId, RevokeToken(r, t) PROVE TokenStep
  <2>1. ~tokens[t].admin
    BY <1>4, AdminNotRevoked
  <2>2. AdminExists
    BY <1>4 DEF RevokeToken, AdminInv
  <2> QED
    BY <1>4, <2>1, <2>2 DEF RevokeToken, TokenStep, Withdrawn
<1>5. ASSUME tokens' = tokens PROVE TokenStep
  BY <1>5 DEF TokenStep
<1> QED
  BY <1>1, <1>2, <1>3, <1>4, <1>5
     DEF Next, Start, Boot, CountTokens, Crash, Prune, Authenticate, VerifyBearer, LookupSession,
         LoadSessionToken, Handle, CreateSession, RevokeSession, RevokeSessionByID, Finish, Tick, vars

(* No step loses the admin, empties the table or revives a token.          *)
LEMMA TokensKept ==
  ASSUME tokens \in [TokenId -> Token], TokenInv, TokenStep
  PROVE  /\ tokens' \in [TokenId -> Token]
         /\ TokenInv'
         /\ AdminExists => AdminExists'
         /\ Issued # {} => Issued' # {}
         /\ Issued = {} => Issued' = {} \/ AdminExists'
         /\ Revoked \subseteq Revoked'
<1> USE OneIsTokenId
<1>1. CASE tokens' = tokens
  BY <1>1 DEF TokenInv, Issued, AdminExists, Revoked
<1>2. ASSUME NEW t \in TokenId, NEW row \in Token, tokens' = [tokens EXCEPT ![t] = row]
      PROVE  /\ tokens' \in [TokenId -> Token]
             /\ tokens'[t] = row /\ \A u \in TokenId : u # t => tokens'[u] = tokens[u]
  BY <1>2
<1>3. CASE Minted
  <2>1. [state |-> "live", admin |-> TRUE] \in Token
    BY DEF Token
  <2>2. /\ tokens' \in [TokenId -> Token]
        /\ tokens'[1] = [state |-> "live", admin |-> TRUE]
        /\ \A u \in TokenId : u # 1 => tokens'[u] = tokens[u]
    BY <1>2, <1>3, <2>1 DEF Minted
  <2>3. tokens'[1].state = "live" /\ tokens'[1].admin
    BY <2>2
  <2>4. \A u \in TokenId : tokens[u].state = "absent" /\ ~tokens[u].admin
    BY <1>3 DEF Minted, Issued, TokenInv
  <2>5. AdminExists' /\ Issued' # {}
    BY <2>3 DEF AdminExists, Issued
  <2>6. Revoked = {}
    BY <2>4 DEF Revoked
  <2> QED
    BY <2>2, <2>3, <2>4, <2>5, <2>6 DEF TokenInv
<1>4. CASE \E t \in TokenId : Added(t)
  <2>1. PICK t \in TokenId : Added(t)
    BY <1>4
  <2>2. [state |-> "live", admin |-> FALSE] \in Token
    BY DEF Token
  <2>3. /\ tokens' \in [TokenId -> Token]
        /\ tokens'[t] = [state |-> "live", admin |-> FALSE]
        /\ \A u \in TokenId : u # t => tokens'[u] = tokens[u]
    BY <1>2, <2>1, <2>2 DEF Added
  <2>4. tokens'[t].state = "live" /\ ~tokens'[t].admin
    BY <2>3
  <2>5. AdminExists /\ tokens[t].state = "absent" /\ ~tokens[t].admin /\ t # 1
    BY <2>1 DEF Added, TokenInv
  <2> QED
    BY <2>3, <2>4, <2>5 DEF TokenInv, AdminExists, Issued, Revoked
<1>5. CASE \E t \in TokenId : Withdrawn(t)
  <2>1. PICK t \in TokenId : Withdrawn(t)
    BY <1>5
  <2>2. /\ [tokens[t] EXCEPT !.state = "revoked"] \in Token
        /\ [tokens[t] EXCEPT !.state = "revoked"].state = "revoked"
        /\ [tokens[t] EXCEPT !.state = "revoked"].admin = tokens[t].admin
    BY DEF Token
  <2>3. /\ tokens' \in [TokenId -> Token]
        /\ tokens'[t].state = "revoked" /\ tokens'[t].admin = tokens[t].admin
        /\ \A u \in TokenId : u # t => tokens'[u] = tokens[u]
    BY <1>2, <2>1, <2>2 DEF Withdrawn
  <2>4. AdminExists /\ ~tokens[t].admin /\ tokens[t].state = "live"
    BY <2>1 DEF Withdrawn
  <2> QED
    BY <2>3, <2>4 DEF TokenInv, AdminExists, Issued, Revoked
<1>6. CASE Promoted(1)
  <2>1. /\ [tokens[1] EXCEPT !.admin = TRUE] \in Token
        /\ [tokens[1] EXCEPT !.admin = TRUE].admin
        /\ [tokens[1] EXCEPT !.admin = TRUE].state = tokens[1].state
    <3>1. tokens[1] \in Token
      OBVIOUS
    <3> QED
      BY <3>1 DEF Token
  <2>2. /\ tokens' \in [TokenId -> Token]
        /\ tokens'[1].admin /\ tokens'[1].state = tokens[1].state
        /\ \A u \in TokenId : u # 1 => tokens'[u] = tokens[u]
    BY <1>2, <1>6, <2>1 DEF Promoted
  <2>3. ~AdminExists /\ tokens[1].state # "absent"
    BY <1>6 DEF Promoted
  <2>4. tokens[1].state = "live"
    BY <2>3 DEF TokenInv, Token
  <2> QED
    BY <2>2, <2>3, <2>4 DEF TokenInv, AdminExists, Issued, Revoked
<1> QED
  BY <1>1, <1>3, <1>4, <1>5, <1>6 DEF TokenStep

----------------------------------------------------------------------------
(* Types.  The tokens' are a part of TokensKept.                           *)
LEMMA RowType ==
  ASSUME NEW action \in {"session.create", "session.revoke", "session.revoke_by_id"},
         NEW t \in TokenId, NEW i \in SessionId, NEW n \in Serial
  PROVE  Row(action, t, i, n) \in Event
BY DEF Row, Event

(* An active or stored row is not NoSession.                               *)
LEMMA StoredType ==
  ASSUME TypeOK, NEW i \in SessionId, sessions[i].serial # 0
  PROVE  sessions[i] \in Session
BY DEF TypeOK, NoSession

LEMMA RequestType ==
  ASSUME TypeOK, NEW r \in Request, requests[r].phase # "idle"
  PROVE  requests[r] \in InFlight
BY DEF TypeOK, Idle

LEMMA IdleKept ==
  ASSUME TypeOK, NEW r \in Request, NEW q \in InFlight \cup {Idle}, Serve(r, q)
  PROVE  requests' \in [Request -> InFlight \cup {Idle}]
BY DEF TypeOK, Serve

LEMMA RevokedRowType ==
  ASSUME TypeOK, NEW i \in SessionId, sessions[i].serial # 0, NEW when \in RevokedAt,
         sessions' = [sessions EXCEPT ![i].revoked = when]
  PROVE  sessions' \in [SessionId -> Session \cup {NoSession}]
<1>1. [sessions[i] EXCEPT !.revoked = when] \in Session
  BY StoredType DEF Session, RevokedAt
<1>2. sessions' = [sessions EXCEPT ![i] = [sessions[i] EXCEPT !.revoked = when]]
  OBVIOUS
<1> QED
  BY <1>1, <1>2 DEF TypeOK

LEMMA TypeStep == ASSUME AccessInv, [Next]_vars PROVE TypeOK'
<1>0. TypeOK
  BY DEF AccessInv
<1>1. tokens' \in [TokenId -> Token]
  BY <1>0, AnyTokenStep, TokensKept DEF AccessInv, TypeOK
<1>2. ASSUME NEW p \in Process, Start(p) PROVE TypeOK'
  BY <1>0, <1>1, <1>2 DEF Start, Boot, Migrate, CountTokens, Bootstrap, TypeOK
<1>3. ASSUME NEW p \in Process, Crash(p) PROVE TypeOK'
  <2>1. requests' \in [Request -> InFlight \cup {Idle}]
    BY <1>0, <1>3 DEF Crash, TypeOK
  <2>2. faults' \in 0..MaxFaults
    BY <1>0, <1>3, AccessAssumption DEF Crash, TypeOK
  <2>3. procs' \in [Process -> {"down", "migrate", "count", "bootstrap", "up"}]
    BY <1>0, <1>3 DEF Crash, TypeOK
  <2> QED
    BY <1>0, <1>1, <1>3, <2>1, <2>2, <2>3 DEF Crash, TypeOK
<1>4. ASSUME NEW p \in Process, Prune(p) PROVE TypeOK'
  <2>1. sessions' \in [SessionId -> Session \cup {NoSession}]
    BY <1>0, <1>4 DEF Prune, TypeOK
  <2> QED
    BY <1>0, <1>1, <1>4, <2>1 DEF Prune, TypeOK
<1>5. ASSUME NEW r \in Request, NEW p \in Process, NEW t \in TokenId,
             NEW phase \in {"authed", "login"}, VerifyBearer(r, p, t, phase)
      PROVE  TypeOK'
  <2>1. [phase |-> phase, at |-> p, token |-> t, admin |-> tokens[t].admin, barred |-> Revoked]
          \in InFlight
    BY <1>0 DEF TypeOK, Token, InFlight, Revoked
  <2>2. requests' \in [Request -> InFlight \cup {Idle}]
    BY <1>0, <1>5, <2>1, IdleKept DEF VerifyBearer
  <2> QED
    BY <1>0, <1>1, <1>5, <2>2 DEF VerifyBearer, TypeOK
<1>6. ASSUME NEW r \in Request, NEW p \in Process, NEW n \in Serial, LookupSession(r, p, n)
      PROVE  TypeOK'
  <2>1. PICK i \in SessionId :
          /\ Active(sessions[i])
          /\ Serve(r, [phase |-> "session", at |-> p, token |-> sessions[i].token,
                        admin |-> FALSE, barred |-> Revoked])
    BY <1>6 DEF LookupSession
  <2>2. sessions[i].token \in TokenId
    BY <1>0, <2>1, StoredType DEF Active, Session
  <2>3. [phase |-> "session", at |-> p, token |-> sessions[i].token,
         admin |-> FALSE, barred |-> Revoked] \in InFlight
    BY <2>2 DEF InFlight, Revoked
  <2>4. requests' \in [Request -> InFlight \cup {Idle}]
    BY <1>0, <2>1, <2>3, IdleKept
  <2> QED
    BY <1>0, <1>1, <1>6, <2>4 DEF LookupSession, TypeOK
<1>7. ASSUME NEW r \in Request, LoadSessionToken(r) PROVE TypeOK'
  <2> DEFINE me == requests[r]
             q == IF tokens[me.token].state = "live"
                  THEN [me EXCEPT !.phase = "authed", !.admin = tokens[me.token].admin,
                                  !.barred = Revoked]
                  ELSE Idle
  <2>1. me \in InFlight
    BY <1>0, <1>7, RequestType DEF LoadSessionToken
  <2>2. me.token \in TokenId
    BY <2>1 DEF InFlight
  <2>3. tokens[me.token].admin \in BOOLEAN
    BY <1>0, <2>2 DEF TypeOK, Token
  <2>4. q \in InFlight \cup {Idle}
    BY <2>1, <2>3 DEF InFlight, Revoked
  <2>5. Serve(r, q)
    BY <1>7 DEF LoadSessionToken
  <2> HIDE DEF q
  <2>6. requests' \in [Request -> InFlight \cup {Idle}]
    BY <1>0, <2>4, <2>5, IdleKept
  <2> QED
    BY <1>0, <1>1, <1>7, <2>6 DEF LoadSessionToken, TypeOK
<1>8. ASSUME NEW r \in Request, Serve(r, Idle) PROVE requests' \in [Request -> InFlight \cup {Idle}]
  BY <1>0, <1>8, IdleKept
<1>9. ASSUME NEW r \in Request, CreateToken(r) PROVE TypeOK'
  BY <1>0, <1>1, <1>8, <1>9 DEF CreateToken, TypeOK
<1>10. ASSUME NEW r \in Request, NEW t \in TokenId, RevokeToken(r, t) PROVE TypeOK'
  BY <1>0, <1>1, <1>8, <1>10 DEF RevokeToken, TypeOK
<1>11. ASSUME NEW r \in Request, CreateSession(r) PROVE TypeOK'
  <2>1. requests[r].token \in TokenId
    BY <1>0, <1>11, RequestType DEF CreateSession, InFlight
  <2>2. logins' \in Serial /\ logins' \in 0..MaxLogins
    BY <1>0, <1>11, AccessAssumption DEF CreateSession, TypeOK, Serial
  <2>3. PICK n \in 0..MaxLogins - 1, left \in Lifetime :
          /\ sessions' = [sessions EXCEPT
                           ![n + 1] = [serial |-> logins', token |-> requests[r].token,
                                       left |-> left, revoked |-> "no"]]
          /\ audit' = audit \cup {Row("session.create", requests[r].token, n + 1, logins')}
    BY <1>11 DEF CreateSession
  <2>4. n + 1 \in SessionId
    BY AccessAssumption DEF SessionId
  <2>5. ASSUME NEW m \in Serial
        PROVE  [serial |-> m, token |-> requests[r].token, left |-> left, revoked |-> "no"] \in Session
    BY <2>1, AccessAssumption DEF Session, Lifetime
  <2>6. sessions' \in [SessionId -> Session \cup {NoSession}]
    BY <1>0, <2>2, <2>3, <2>4, <2>5 DEF TypeOK
  <2>7. audit' \in SUBSET Event
    BY <1>0, <2>1, <2>2, <2>3, <2>4, RowType DEF TypeOK
  <2> QED
    BY <1>0, <1>1, <1>8, <1>11, <2>2, <2>6, <2>7 DEF CreateSession, TypeOK
<1>12. ASSUME NEW p \in Process, NEW n \in Serial, RevokeSession(p, n) PROVE TypeOK'
  <2>1. PICK i \in SessionId, when \in RevokedAt :
          /\ Active(sessions[i])
          /\ sessions' = [sessions EXCEPT ![i].revoked = when]
          /\ audit' = audit \cup {Row("session.revoke", sessions[i].token, i, n)}
    BY <1>12 DEF RevokeSession
  <2>2. sessions[i].serial # 0
    BY <2>1 DEF Active
  <2>3. sessions[i].token \in TokenId
    BY <1>0, <2>2, StoredType DEF Session
  <2>4. audit' \in SUBSET Event
    BY <1>0, <2>1, <2>3, RowType DEF TypeOK
  <2>5. sessions' \in [SessionId -> Session \cup {NoSession}]
    BY <1>0, <2>1, <2>2, RevokedRowType
  <2> QED
    BY <1>0, <1>1, <1>12, <2>4, <2>5 DEF RevokeSession, TypeOK
<1>13. ASSUME NEW r \in Request, NEW i \in SessionId, RevokeSessionByID(r, i) PROVE TypeOK'
  <2>1. sessions[i].serial # 0
    BY <1>13 DEF RevokeSessionByID, Stored
  <2>2. sessions[i].token \in TokenId /\ sessions[i].serial \in Serial
    BY <1>0, <2>1, StoredType DEF Session
  <2>3. audit' \in SUBSET Event
    BY <1>0, <1>13, <2>2, RowType DEF RevokeSessionByID, TypeOK
  <2>4. PICK when \in RevokedAt : sessions' = [sessions EXCEPT ![i].revoked = when]
    BY <1>13 DEF RevokeSessionByID
  <2>5. sessions' \in [SessionId -> Session \cup {NoSession}]
    BY <1>0, <2>1, <2>4, RevokedRowType
  <2> QED
    BY <1>0, <1>1, <1>8, <1>13, <2>3, <2>5 DEF RevokeSessionByID, TypeOK
<1>14. ASSUME NEW r \in Request, Finish(r) PROVE TypeOK'
  BY <1>0, <1>1, <1>8, <1>14 DEF Finish, TypeOK
<1>15. ASSUME Tick PROVE TypeOK'
  <2>1. ASSUME NEW i \in SessionId PROVE sessions'[i] \in Session \cup {NoSession}
    <3> DEFINE left == IF sessions[i].left < 0 THEN sessions[i].left ELSE sessions[i].left - 1
               revoked == IF sessions[i].revoked = "no" THEN sessions[i].revoked ELSE "before"
    <3>1. CASE i \in Stored
      <4>1. sessions[i] \in Session
        BY <1>0, <3>1, StoredType DEF Stored
      <4>2. sessions'[i] = [sessions[i] EXCEPT !.left = left, !.revoked = revoked]
        BY <1>15, <3>1 DEF Tick
      <4>3. left \in -1..TTL /\ revoked \in {"no", "now", "before"}
        BY <4>1, AccessAssumption DEF Session
      <4> HIDE DEF left, revoked
      <4> QED
        BY <4>1, <4>2, <4>3 DEF Session
    <3>2. CASE i \notin Stored
      BY <1>15, <3>2 DEF Tick
    <3> QED
      BY <3>1, <3>2
  <2>2. sessions' \in [SessionId -> Session \cup {NoSession}]
    <3>1. sessions' = [i \in SessionId |-> sessions'[i]]
      BY <1>15 DEF Tick
    <3> QED
      BY <2>1, <3>1
  <2> QED
    BY <1>0, <1>1, <1>15, <2>2 DEF Tick, TypeOK
<1>16. CASE UNCHANGED vars
  BY <1>0, <1>16 DEF vars, TypeOK
<1> QED
  BY <1>2, <1>3, <1>4, <1>5, <1>6, <1>7, <1>9, <1>10, <1>11, <1>12, <1>13, <1>14, <1>15, <1>16
     DEF Next, Authenticate, Handle

----------------------------------------------------------------------------
(* An admin in the next state, for what a step changes.                    *)
LEMMA AdminStep == ASSUME AccessInv, [Next]_vars PROVE AdminInv'
<1>1. /\ AdminExists => AdminExists'
      /\ Issued = {} => Issued' = {} \/ AdminExists'
  BY AnyTokenStep, TokensKept DEF AccessInv, TypeOK
<1>2. ASSUME NEW p \in Process
      PROVE  /\ procs[p] \in {"count", "bootstrap"} => Issued' = {} \/ AdminExists'
             /\ procs[p] = "up" => AdminExists'
  BY <1>1 DEF AccessInv, AdminInv
<1>3. ASSUME NEW p \in Process
      PROVE  /\ procs'[p] \in {"count", "bootstrap"} => Issued' = {} \/ AdminExists'
             /\ procs'[p] = "up" => AdminExists'
  <2>1. CASE procs'[p] = procs[p]
    BY <1>2, <2>1
  <2>2. ASSUME NEW q \in Process, NEW phase, procs' = [procs EXCEPT ![q] = phase],
               /\ phase \in {"count", "bootstrap"} => Issued' = {} \/ AdminExists'
               /\ phase = "up" => AdminExists'
        PROVE  /\ procs'[p] \in {"count", "bootstrap"} => Issued' = {} \/ AdminExists'
               /\ procs'[p] = "up" => AdminExists'
    BY <1>2, <2>2 DEF AccessInv, TypeOK
  <2>3. ASSUME NEW q \in Process, Boot(q) \/ Crash(q)
        PROVE  \E phase \in {"migrate", "down"} : procs' = [procs EXCEPT ![q] = phase]
    BY <2>3 DEF Boot, Crash
  <2>4. ASSUME NEW q \in Process, Migrate(q)
        PROVE  procs' = [procs EXCEPT ![q] = "count"] /\ (Issued' = {} \/ AdminExists')
    BY <1>1, <2>4, MigrateTokens DEF Migrate
  <2>5. ASSUME NEW q \in Process, CountTokens(q)
        PROVE  \/ procs' = [procs EXCEPT ![q] = "bootstrap"] /\ (Issued' = {} \/ AdminExists')
               \/ procs' = [procs EXCEPT ![q] = "up"] /\ AdminExists'
    <3>1. Issued # {} => AdminExists
      BY <2>5 DEF CountTokens, AccessInv, AdminInv
    <3> QED
      BY <1>1, <2>5, <3>1 DEF CountTokens
  <2>6. ASSUME NEW q \in Process, Bootstrap(q)
        PROVE  procs' = [procs EXCEPT ![q] = "up"] /\ AdminExists'
    <3>1. CASE Issued = {}
      <4>1. tokens' = [tokens EXCEPT ![1] = [state |-> "live", admin |-> TRUE]]
        BY <2>6, <3>1 DEF Bootstrap
      <4>2. tokens'[1].admin
        BY <4>1, OneIsTokenId DEF AccessInv, TypeOK
      <4> QED
        BY <2>6, <4>2, OneIsTokenId DEF Bootstrap, AdminExists
    <3>2. CASE Issued # {}
      <4>1. AdminExists
        BY <2>6, <3>2 DEF Bootstrap, AccessInv, AdminInv
      <4> QED
        BY <1>1, <2>6, <4>1 DEF Bootstrap
    <3> QED
      BY <3>1, <3>2
  <2>7. \/ \E q \in Process : Boot(q) \/ Crash(q) \/ Migrate(q) \/ CountTokens(q) \/ Bootstrap(q)
        \/ procs' = procs
    BY DEF Next, Start, Prune, Authenticate, VerifyBearer, LookupSession, LoadSessionToken, Handle,
           CreateToken, RevokeToken, CreateSession, RevokeSession, RevokeSessionByID, Finish, Tick,
           vars
  <2>8. CASE \E q \in Process : Boot(q) \/ Crash(q)
    <3>1. PICK q \in Process, phase \in {"migrate", "down"} : procs' = [procs EXCEPT ![q] = phase]
      BY <2>3, <2>8
    <3> QED
      BY <2>2, <3>1
  <2>9. CASE \E q \in Process : Migrate(q)
    BY <2>2, <2>4, <2>9
  <2>10. CASE \E q \in Process : CountTokens(q)
    BY <2>2, <2>5, <2>10
  <2>11. CASE \E q \in Process : Bootstrap(q)
    BY <2>2, <2>6, <2>11
  <2> QED
    BY <2>1, <2>7, <2>8, <2>9, <2>10, <2>11
<1>4. ASSUME NEW r \in Request, requests'[r].admin PROVE AdminExists'
  <2>1. CASE requests[r].admin
    BY <1>1, <2>1 DEF AccessInv, AdminInv
  <2>2. CASE ~requests[r].admin
    <3>1. ASSUME NEW q \in Request, NEW x, Serve(q, x), x.admin => AdminExists
          PROVE  AdminExists
      BY <1>4, <2>2, <3>1 DEF Serve, AccessInv, TypeOK
    <3>2. ASSUME NEW q \in Request, Serve(q, Idle) PROVE AdminExists
      BY <3>1, <3>2 DEF Idle
    <3>3. ASSUME NEW q \in Request, Authenticate(q) PROVE AdminExists
      <4>1. ASSUME NEW p \in Process, NEW t \in TokenId, NEW phase \in {"authed", "login"},
                   VerifyBearer(q, p, t, phase)
            PROVE  AdminExists
        BY <3>1, <4>1 DEF VerifyBearer, AdminExists
      <4>2. ASSUME NEW p \in Process, NEW n \in Serial, LookupSession(q, p, n)
            PROVE  AdminExists
        BY <3>1, <4>2 DEF LookupSession
      <4>3. ASSUME LoadSessionToken(q) PROVE AdminExists
        <5>1. requests[q] \in InFlight
          BY <4>3, RequestType DEF LoadSessionToken, AccessInv
        <5>2. requests[q].token \in TokenId
          BY <5>1 DEF InFlight
        <5>3. [requests[q] EXCEPT !.phase = "authed",
                                  !.admin = tokens[requests[q].token].admin,
                                  !.barred = Revoked].admin
                = tokens[requests[q].token].admin
          BY <5>1 DEF InFlight
        <5> QED
          BY <3>1, <3>2, <4>3, <5>2, <5>3 DEF LoadSessionToken, AdminExists
      <4> QED
        BY <3>3, <4>1, <4>2, <4>3 DEF Authenticate
    <3>4. ASSUME NEW p \in Process, Crash(p) PROVE FALSE
      BY <1>4, <2>2, <3>4 DEF Crash, Idle, AccessInv, TypeOK
    <3>5. CASE requests' = requests
      BY <1>4, <2>2, <3>5
    <3>6. \/ \E q \in Request : Serve(q, Idle) \/ Authenticate(q)
          \/ \E p \in Process : Crash(p)
          \/ requests' = requests
      BY DEF Next, Start, Boot, Migrate, CountTokens, Bootstrap, Prune, Handle, CreateToken,
             RevokeToken, CreateSession, RevokeSession, RevokeSessionByID, Finish, Tick, vars
    <3> QED
      BY <1>1, <3>2, <3>3, <3>4, <3>5, <3>6
  <2> QED
    BY <2>1, <2>2
<1> QED
  BY <1>3, <1>4 DEF AdminInv

----------------------------------------------------------------------------
(* No revoked token is revived, so a request that was let in after a       *)
(* revocation holds another token for good.                                *)
LEMMA BarredStep == ASSUME AccessInv, [Next]_vars PROVE BarredInv'
<1> DEFINE Fine(q) == /\ q.barred \subseteq Revoked
                      /\ q.phase \in {"authed", "login"} => q.token \notin q.barred
<1>1. Revoked \subseteq Revoked'
  BY AnyTokenStep, TokensKept DEF AccessInv, TypeOK
<1>2. \A r \in Request : Fine(requests[r])
  BY DEF AccessInv, BarredInv
<1>3. SUFFICES ASSUME NEW r \in Request PROVE Fine(requests'[r])
  BY <1>1 DEF BarredInv
<1>4. ASSUME NEW q \in Request, NEW x, Serve(q, x), Fine(x) PROVE Fine(requests'[r])
  <2>1. requests'[r] = x \/ requests'[r] = requests[r]
    BY <1>4 DEF Serve, AccessInv, TypeOK
  <2> HIDE DEF Fine
  <2> QED
    BY <1>2, <1>4, <2>1
<1>5. Fine(Idle)
  BY DEF Idle
<1>6. ASSUME NEW q \in Request, NEW p \in Process, NEW t \in TokenId,
             NEW phase \in {"authed", "login"}, VerifyBearer(q, p, t, phase)
      PROVE  Fine(requests'[r])
  BY <1>4, <1>6 DEF VerifyBearer, Revoked
<1>7. ASSUME NEW q \in Request, NEW p \in Process, NEW n \in Serial, LookupSession(q, p, n)
      PROVE  Fine(requests'[r])
  BY <1>4, <1>7 DEF LookupSession
<1>8. ASSUME NEW q \in Request, LoadSessionToken(q) PROVE Fine(requests'[r])
  <2>1. requests[q] \in InFlight
    BY <1>8, RequestType DEF LoadSessionToken, AccessInv
  <2>2. requests[q].token \in TokenId
    BY <2>1 DEF InFlight
  <2>3. CASE tokens[requests[q].token].state = "live"
    <3> DEFINE x == [requests[q] EXCEPT !.phase = "authed",
                                        !.admin = tokens[requests[q].token].admin,
                                        !.barred = Revoked]
    <3>1. x.barred = Revoked /\ x.token = requests[q].token
      BY <2>1 DEF InFlight
    <3>2. requests[q].token \notin Revoked
      BY <2>3 DEF Revoked
    <3>3. Fine(x)
      BY <3>1, <3>2
    <3>4. Serve(q, x)
      BY <1>8, <2>3 DEF LoadSessionToken
    <3> HIDE DEF x, Fine
    <3> QED
      BY <1>4, <3>3, <3>4
  <2>4. CASE tokens[requests[q].token].state # "live"
    BY <1>4, <1>5, <1>8, <2>4 DEF LoadSessionToken
  <2> QED
    BY <2>3, <2>4
<1>9. ASSUME NEW p \in Process, Crash(p) PROVE Fine(requests'[r])
  <2>1. requests'[r] = Idle \/ requests'[r] = requests[r]
    BY <1>9 DEF Crash
  <2> HIDE DEF Fine
  <2> QED
    BY <1>2, <1>5, <2>1
<1>10. CASE requests' = requests
  BY <1>2, <1>10
<1>11. CASE \E q \in Request : Serve(q, Idle)
  BY <1>4, <1>5, <1>11
<1> HIDE DEF Fine
<1>12. CASE \E q \in Request : Authenticate(q)
  BY <1>6, <1>7, <1>8, <1>12 DEF Authenticate
<1>13. \/ \E q \in Request : Serve(q, Idle) \/ Authenticate(q)
       \/ \E p \in Process : Crash(p)
       \/ requests' = requests
  BY DEF Next, Start, Boot, Migrate, CountTokens, Bootstrap, Prune, Handle, CreateToken,
         RevokeToken, CreateSession, RevokeSession, RevokeSessionByID, Finish, Tick, vars
<1> QED
  BY <1>9, <1>10, <1>11, <1>12, <1>13

----------------------------------------------------------------------------
LEMMA InitInv == Init => AccessInv
<1> SUFFICES ASSUME Init PROVE AccessInv
  OBVIOUS
<1>1. PICK n \in 0..MaxTokens :
        tokens = [t \in TokenId |-> IF t <= n THEN [state |-> "live", admin |-> FALSE] ELSE NoToken]
  BY DEF Init
<1>2. \A t \in TokenId : /\ tokens[t] \in Token /\ ~tokens[t].admin
                         /\ tokens[t].state = IF t <= n THEN "live" ELSE "absent"
  BY <1>1 DEF Token, NoToken
<1>3. tokens \in [TokenId -> Token]
  BY <1>1, <1>2
<1>4. TokenInv
  BY <1>2, AccessAssumption DEF TokenInv, TokenId
<1>5. TypeOK
  BY <1>3, AccessAssumption DEF Init, TypeOK
<1>6. AdminInv /\ BarredInv
  BY DEF Init, AdminInv, BarredInv, Idle
<1> QED
  BY <1>4, <1>5, <1>6 DEF AccessInv

LEMMA Inductive == Spec => []AccessInv
<1>1. AccessInv /\ [Next]_vars => AccessInv'
  <2> SUFFICES ASSUME AccessInv, [Next]_vars PROVE AccessInv'
    OBVIOUS
  <2>1. TokenInv'
    BY AnyTokenStep, TokensKept DEF AccessInv, TypeOK
  <2> QED
    BY <2>1, TypeStep, AdminStep, BarredStep DEF AccessInv
<1> QED
  BY <1>1, InitInv, PTL DEF Spec

(* Every state of an execution has its type: no revocation by id invents a *)
(* session, no audit row names one that cannot exist.                      *)
THEOREM TypeCorrect == Spec => []TypeOK
<1>1. AccessInv => TypeOK
  BY DEF AccessInv
<1> QED
  BY <1>1, Inductive, PTL

(* Whenever a server answers there is exactly one admin token and it is    *)
(* live, for every number of processes starting, crashing and racing.      *)
THEOREM SoleAdminCorrect == Spec => []SoleAdmin
<1>1. AccessInv => SoleAdmin
  <2> SUFFICES ASSUME AccessInv, NEW p \in Process, procs[p] = "up"
               PROVE  \E t \in TokenId : /\ tokens[t] = [state |-> "live", admin |-> TRUE]
                                         /\ \A u \in TokenId : tokens[u].admin => u = t
    BY DEF SoleAdmin
  <2>1. PICK t \in TokenId : tokens[t].admin
    BY DEF AccessInv, AdminInv, AdminExists
  <2>2. tokens[t].state = "live" /\ \A u \in TokenId : tokens[u].admin => u = t
    BY <2>1 DEF AccessInv, TokenInv
  <2>3. tokens[t] \in Token /\ tokens[t].admin = TRUE
    BY <2>1 DEF AccessInv, TypeOK, Token
  <2>4. tokens[t] = [state |-> "live", admin |-> TRUE]
    BY <2>2, <2>3 DEF Token
  <2> QED
    BY <2>2, <2>4
<1> QED
  BY <1>1, Inductive, PTL

(* A request whose token is revoked before it is read never acts in its    *)
(* name, whatever races with its authentication.                           *)
THEOREM RefusedCorrect == Spec => []RevokedIsRefused
<1>1. AccessInv => RevokedIsRefused
  BY DEF AccessInv, BarredInv, RevokedIsRefused
<1> QED
  BY <1>1, Inductive, PTL

----------------------------------------------------------------------------
(* The trail of the sessions.  The properties speak of sets of rows; the   *)
(* invariant says the same row by row, and what keeps it: serials are      *)
(* fresh, and each is in the table once, although ids come again.          *)

IsRevocation(a) == a.action # "session.create"

Created(a, i, s) ==
  a.action = "session.create" /\ a.session = i /\ a.serial = s.serial /\ a.token = s.token

SerialsFresh ==
  /\ \A i \in SessionId : sessions[i].serial <= logins
  /\ \A a \in audit : a.serial <= logins
  /\ \A i, j \in Stored : sessions[i].serial = sessions[j].serial => i = j

SessionsLogged ==
  \A i \in Stored :
    /\ \E a \in audit : Created(a, i, sessions[i])
    /\ sessions[i].revoked # "no" =>
         \E a \in audit : a.serial = sessions[i].serial /\ IsRevocation(a)
    /\ \A a \in audit :
         a.serial = sessions[i].serial /\ IsRevocation(a) => sessions[i].revoked # "no"

RevocationsLogged ==
  /\ \A a, b \in audit : IsRevocation(a) /\ IsRevocation(b) /\ a.serial = b.serial => a = b
  /\ \A a \in audit : IsRevocation(a) => \E c \in audit : Created(c, a.session, a)

TrailInv == SerialsFresh /\ SessionsLogged /\ RevocationsLogged

(* How a step changes the sessions and their log.                          *)
SessionMade(i, t, left) ==
  /\ i \notin Stored
  /\ logins' = logins + 1
  /\ sessions' = [sessions EXCEPT ![i] = [serial |-> logins + 1, token |-> t,
                                          left |-> left, revoked |-> "no"]]
  /\ audit' = audit \cup {Row("session.create", t, i, logins + 1)}

SessionRevoked(i, action, when) ==
  /\ i \in Stored /\ sessions[i].revoked = "no"
  /\ logins' = logins
  /\ sessions' = [sessions EXCEPT ![i] = [sessions[i] EXCEPT !.revoked = when]]
  /\ audit' = audit \cup {Row(action, sessions[i].token, i, sessions[i].serial)}

SessionsPruned ==
  /\ sessions' = [i \in SessionId |-> IF Prunable(sessions[i]) THEN NoSession ELSE sessions[i]]
  /\ logins' = logins /\ audit' = audit

SessionStep ==
  \/ UNCHANGED << sessions, audit, logins >>
  \/ \E i \in SessionId, t \in TokenId, left \in Lifetime : SessionMade(i, t, left)
  \/ \E i \in SessionId, action \in {"session.revoke", "session.revoke_by_id"},
        when \in RevokedAt : SessionRevoked(i, action, when)
  \/ SessionsPruned
  \/ Tick

LEMMA AnySessionStep == ASSUME TypeOK, [Next]_vars PROVE SessionStep
<1>1. ASSUME NEW r \in Request, CreateSession(r) PROVE SessionStep
  <2>1. requests[r].token \in TokenId
    BY <1>1, RequestType DEF CreateSession, InFlight
  <2>2. PICK n \in 0..MaxLogins - 1, left \in Lifetime :
          /\ IsLastId(n, Stored)
          /\ sessions' = [sessions EXCEPT
                           ![n + 1] = [serial |-> logins', token |-> requests[r].token,
                                       left |-> left, revoked |-> "no"]]
          /\ audit' = audit \cup {Row("session.create", requests[r].token, n + 1, logins')}
    BY <1>1 DEF CreateSession
  <2>3. n + 1 \in SessionId /\ n + 1 \notin Stored
    BY <2>2, AccessAssumption DEF SessionId, IsLastId, Stored
  <2>4. SessionMade(n + 1, requests[r].token, left)
    BY <1>1, <2>2, <2>3 DEF CreateSession, SessionMade
  <2> QED
    BY <2>1, <2>3, <2>4 DEF SessionStep
<1>2. ASSUME NEW p \in Process, NEW n \in Serial, RevokeSession(p, n) PROVE SessionStep
  <2>1. PICK i \in SessionId, when \in RevokedAt :
          /\ Active(sessions[i]) /\ sessions[i].serial = n
          /\ sessions' = [sessions EXCEPT ![i].revoked = when]
          /\ audit' = audit \cup {Row("session.revoke", sessions[i].token, i, n)}
    BY <1>2 DEF RevokeSession
  <2>2. SessionRevoked(i, "session.revoke", when)
    BY <1>2, <2>1 DEF RevokeSession, SessionRevoked, Active, Stored
  <2> QED
    BY <2>2 DEF SessionStep
<1>3. ASSUME NEW r \in Request, NEW i \in SessionId, RevokeSessionByID(r, i) PROVE SessionStep
  <2>1. PICK when \in RevokedAt : sessions' = [sessions EXCEPT ![i].revoked = when]
    BY <1>3 DEF RevokeSessionByID
  <2>2. SessionRevoked(i, "session.revoke_by_id", when)
    BY <1>3, <2>1 DEF RevokeSessionByID, SessionRevoked
  <2> QED
    BY <2>2 DEF SessionStep
<1>4. ASSUME NEW p \in Process, Prune(p) PROVE SessionStep
  BY <1>4 DEF Prune, SessionsPruned, SessionStep
<1> QED
  BY <1>1, <1>2, <1>3, <1>4
     DEF Next, Start, Boot, Migrate, CountTokens, Bootstrap, Crash, Authenticate, VerifyBearer,
         LookupSession, LoadSessionToken, Handle, CreateToken, RevokeToken, Finish, vars, SessionStep

LEMMA EventFields ==
  ASSUME TypeOK, NEW a \in audit
  PROVE  /\ a \in Event /\ a.serial \in Serial /\ a.serial \in Nat /\ a.serial # 0
         /\ a.session \in SessionId
BY DEF TypeOK, Event, Serial

(* Serials of rows, of which 0 is none.                                    *)
LEMMA SerialFields ==
  ASSUME TypeOK, NEW i \in SessionId
  PROVE  /\ sessions[i].serial \in Nat
         /\ i \in Stored => sessions[i] \in Session
         /\ i \notin Stored => sessions[i].serial = 0
<1>1. i \in Stored => sessions[i] \in Session
  BY StoredType DEF Stored
<1> QED
  BY <1>1 DEF Session, Serial, Stored

LEMMA MadeTrail ==
  ASSUME TypeOK, TrailInv, NEW i \in SessionId, NEW t \in TokenId, NEW left \in Lifetime,
         SessionMade(i, t, left)
  PROVE  TrailInv'
<1> DEFINE s == [serial |-> logins + 1, token |-> t, left |-> left, revoked |-> "no"]
           row == Row("session.create", t, i, logins + 1)
<1>1. /\ logins \in Nat /\ logins' = logins + 1 /\ i \notin Stored
      /\ sessions' = [sessions EXCEPT ![i] = s] /\ audit' = audit \cup {row}
  BY DEF SessionMade, TypeOK
<1>2. s.serial = logins + 1 /\ s.token = t /\ s.revoked = "no"
  OBVIOUS
<1>3. /\ row.action = "session.create" /\ row.token = t /\ row.session = i
      /\ row.serial = logins + 1
  BY DEF Row
<1> HIDE DEF s, row
<1>4. /\ sessions'[i] = s /\ \A j \in SessionId : j # i => sessions'[j] = sessions[j]
      /\ Stored' = Stored \cup {i}
  <2>1. sessions'[i] = s /\ \A j \in SessionId : j # i => sessions'[j] = sessions[j]
    BY <1>1 DEF TypeOK
  <2> QED
    BY <1>1, <1>2, <2>1 DEF Stored
<1>5. /\ \A j \in SessionId : sessions[j].serial \in Nat /\ sessions[j].serial <= logins
      /\ \A a \in audit : a.serial \in Nat /\ a.serial <= logins /\ a.session \in SessionId
                          /\ a.serial # 0
  BY SerialFields, EventFields DEF TrailInv, SerialsFresh
<1>6. SerialsFresh'
  <2>1. \A j \in SessionId : sessions'[j].serial <= logins'
    BY <1>1, <1>2, <1>4, <1>5
  <2>2. \A a \in audit' : a.serial <= logins'
    BY <1>1, <1>3, <1>5
  <2>3. ASSUME NEW j \in Stored', NEW k \in Stored', sessions'[j].serial = sessions'[k].serial
        PROVE  j = k
    <3>1. j \in SessionId /\ k \in SessionId
      BY DEF Stored
    <3>2. j # i => j \in Stored /\ sessions'[j].serial < logins + 1
      BY <1>1, <1>4, <1>5, <3>1
    <3>3. k # i => k \in Stored /\ sessions'[k].serial < logins + 1
      BY <1>1, <1>4, <1>5, <3>1
    <3>4. j # i /\ k # i => j = k
      BY <1>4, <2>3, <3>1, <3>2, <3>3 DEF TrailInv, SerialsFresh
    <3> QED
      BY <1>1, <1>2, <1>4, <1>5, <2>3, <3>1, <3>2, <3>3, <3>4
  <2> QED
    BY <2>1, <2>2, <2>3 DEF SerialsFresh
<1>7. SessionsLogged'
  <2>1. ASSUME NEW j \in Stored, j # i
        PROVE  /\ \E a \in audit' : Created(a, j, sessions'[j])
               /\ sessions'[j].revoked # "no" =>
                    \E a \in audit' : a.serial = sessions'[j].serial /\ IsRevocation(a)
               /\ \A a \in audit' : a.serial = sessions'[j].serial /\ IsRevocation(a)
                                      => sessions'[j].revoked # "no"
    <3>1. j \in SessionId /\ sessions'[j] = sessions[j]
      BY <1>4, <2>1 DEF Stored
    <3> QED
      BY <1>1, <1>3, <3>1 DEF TrailInv, SessionsLogged, IsRevocation
  <2>2. Created(row, i, s) /\ row \in audit'
    BY <1>1, <1>2, <1>3 DEF Created
  <2>3. ASSUME NEW a \in audit', a.serial = s.serial, IsRevocation(a) PROVE FALSE
    BY <1>1, <1>2, <1>3, <1>5, <2>3 DEF IsRevocation
  <2> QED
    BY <1>2, <1>4, <2>1, <2>2, <2>3 DEF SessionsLogged
<1>8. RevocationsLogged'
  BY <1>1, <1>3 DEF TrailInv, RevocationsLogged, IsRevocation
<1> QED
  BY <1>6, <1>7, <1>8 DEF TrailInv

LEMMA RevokedTrail ==
  ASSUME TypeOK, TrailInv, NEW i \in SessionId, NEW when \in RevokedAt,
         NEW action \in {"session.revoke", "session.revoke_by_id"},
         SessionRevoked(i, action, when)
  PROVE  TrailInv'
<1> DEFINE s == [sessions[i] EXCEPT !.revoked = when]
           row == Row(action, sessions[i].token, i, sessions[i].serial)
<1>1. /\ logins' = logins /\ i \in Stored /\ sessions[i].revoked = "no"
      /\ sessions' = [sessions EXCEPT ![i] = s] /\ audit' = audit \cup {row}
  BY DEF SessionRevoked
<1>2. /\ s.serial = sessions[i].serial /\ s.token = sessions[i].token
      /\ s.revoked = when /\ when # "no"
  BY <1>1, SerialFields DEF Session, RevokedAt
<1>3. /\ row.action = action /\ row.token = sessions[i].token /\ row.session = i
      /\ row.serial = sessions[i].serial /\ IsRevocation(row)
  BY DEF Row, IsRevocation
<1> HIDE DEF s, row
<1>4. /\ sessions'[i] = s /\ \A j \in SessionId : j # i => sessions'[j] = sessions[j]
      /\ Stored' = Stored
  <2>1. sessions'[i] = s /\ \A j \in SessionId : j # i => sessions'[j] = sessions[j]
    BY <1>1 DEF TypeOK
  <2> QED
    BY <1>1, <1>2, <2>1 DEF Stored
<1>5. /\ \A j \in SessionId : /\ sessions'[j].serial = sessions[j].serial
                              /\ sessions'[j].token = sessions[j].token
      /\ \A a \in audit : a.session \in SessionId
  BY <1>2, <1>4, EventFields
<1>6. SerialsFresh'
  BY <1>1, <1>3, <1>4, <1>5 DEF TrailInv, SerialsFresh, Stored
<1>7. \A a \in audit : IsRevocation(a) => a.serial # sessions[i].serial
  BY <1>1 DEF TrailInv, SessionsLogged
<1>8. SessionsLogged'
  <2>1. ASSUME NEW j \in Stored
        PROVE  /\ \E a \in audit' : Created(a, j, sessions'[j])
               /\ sessions'[j].revoked # "no" =>
                    \E a \in audit' : a.serial = sessions'[j].serial /\ IsRevocation(a)
               /\ \A a \in audit' : a.serial = sessions'[j].serial /\ IsRevocation(a)
                                      => sessions'[j].revoked # "no"
    <3>1. j \in SessionId
      BY DEF Stored
    <3>2. \E a \in audit' : Created(a, j, sessions'[j])
      BY <1>1, <1>5, <3>1 DEF TrailInv, SessionsLogged, Created
    <3>3. CASE j = i
      BY <1>1, <1>2, <1>3, <1>4, <3>2, <3>3
    <3>4. CASE j # i
      <4>1. sessions'[j] = sessions[j] /\ sessions[j].serial # row.serial
        BY <1>1, <1>3, <1>4, <3>1, <3>4 DEF TrailInv, SerialsFresh
      <4> QED
        BY <1>1, <3>2, <4>1 DEF TrailInv, SessionsLogged
    <3> QED
      BY <3>3, <3>4
  <2> QED
    BY <1>4, <2>1 DEF SessionsLogged
<1>9. RevocationsLogged'
  <2>1. \E c \in audit : Created(c, row.session, row)
    BY <1>1, <1>3 DEF TrailInv, SessionsLogged, Created
  <2>2. \A a \in audit' : IsRevocation(a) => \E c \in audit' : Created(c, a.session, a)
    BY <1>1, <2>1 DEF TrailInv, RevocationsLogged
  <2>3. \A a, b \in audit' : IsRevocation(a) /\ IsRevocation(b) /\ a.serial = b.serial => a = b
    BY <1>1, <1>3, <1>7 DEF TrailInv, RevocationsLogged
  <2> QED
    BY <2>2, <2>3 DEF RevocationsLogged
<1> QED
  BY <1>6, <1>8, <1>9 DEF TrailInv

LEMMA PrunedTrail ==
  ASSUME TypeOK, TrailInv, SessionsPruned
  PROVE  TrailInv'
<1>1. /\ logins' = logins /\ audit' = audit /\ logins \in Nat
      /\ \A i \in SessionId : sessions'[i] = IF Prunable(sessions[i]) THEN NoSession ELSE sessions[i]
      /\ NoSession.serial = 0
  BY DEF SessionsPruned, TypeOK, NoSession
<1>2. \A i \in Stored' : i \in SessionId /\ i \in Stored /\ sessions'[i] = sessions[i]
  BY <1>1 DEF Stored
<1>3. SerialsFresh'
  <2>1. \A i \in SessionId : sessions'[i].serial <= logins
    BY <1>1 DEF TrailInv, SerialsFresh
  <2> QED
    BY <1>1, <1>2, <2>1 DEF TrailInv, SerialsFresh
<1>4. SessionsLogged'
  BY <1>1, <1>2 DEF TrailInv, SessionsLogged
<1>5. RevocationsLogged'
  BY <1>1 DEF TrailInv, RevocationsLogged
<1> QED
  BY <1>3, <1>4, <1>5 DEF TrailInv

LEMMA TickTrail ==
  ASSUME TypeOK, TrailInv, Tick
  PROVE  TrailInv'
<1>1. logins' = logins /\ audit' = audit
  BY DEF Tick
<1>2. ASSUME NEW i \in Stored
      PROVE  /\ sessions'[i].serial = sessions[i].serial /\ sessions'[i].token = sessions[i].token
             /\ sessions'[i].revoked # "no" <=> sessions[i].revoked # "no"
  <2>1. i \in SessionId /\ sessions[i] \in Session
    BY SerialFields DEF Stored
  <2>2. sessions'[i] = [sessions[i] EXCEPT
                          !.left = IF sessions[i].left < 0 THEN sessions[i].left
                                   ELSE sessions[i].left - 1,
                          !.revoked = IF sessions[i].revoked = "no" THEN sessions[i].revoked
                                      ELSE "before"]
    BY <2>1 DEF Tick
  <2>3. /\ sessions'[i].serial = sessions[i].serial /\ sessions'[i].token = sessions[i].token
        /\ sessions'[i].revoked = IF sessions[i].revoked = "no" THEN sessions[i].revoked
                                  ELSE "before"
    BY <2>1, <2>2 DEF Session
  <2> QED
    BY <2>3
<1>3. /\ \A i \in SessionId : i \notin Stored => sessions'[i] = NoSession
      /\ NoSession.serial = 0
  BY DEF Tick, NoSession
<1>4. Stored' = Stored
  BY <1>2, <1>3 DEF Stored
<1>5. \A i \in SessionId : sessions'[i].serial = sessions[i].serial
  BY <1>2, <1>3, SerialFields
<1>6. SerialsFresh'
  BY <1>1, <1>4, <1>5 DEF TrailInv, SerialsFresh, Stored
<1>7. SessionsLogged'
  BY <1>1, <1>2, <1>4 DEF TrailInv, SessionsLogged, Created
<1>8. RevocationsLogged'
  BY <1>1 DEF TrailInv, RevocationsLogged
<1> QED
  BY <1>6, <1>7, <1>8 DEF TrailInv

LEMMA TrailStep == ASSUME TypeOK, TrailInv, [Next]_vars PROVE TrailInv'
<1>1. CASE UNCHANGED << sessions, audit, logins >>
  BY <1>1 DEF TrailInv, SerialsFresh, SessionsLogged, RevocationsLogged, Stored
<1> QED
  BY <1>1, AnySessionStep, MadeTrail, RevokedTrail, PrunedTrail, TickTrail DEF SessionStep

LEMMA TrailInductive == Spec => [](AccessInv /\ TrailInv)
<1>1. Init => TrailInv
  <2> SUFFICES ASSUME Init PROVE TrailInv
    OBVIOUS
  <2>1. /\ audit = {} /\ logins = 0 /\ \A i \in SessionId : sessions[i].serial = 0
    BY DEF Init, NoSession
  <2>2. Stored = {}
    BY <2>1 DEF Stored
  <2> QED
    BY <2>1, <2>2 DEF TrailInv, SerialsFresh, SessionsLogged, RevocationsLogged
<1>2. AccessInv /\ TrailInv /\ [Next]_vars => TrailInv'
  BY TrailStep DEF AccessInv
<1> QED
  BY <1>1, <1>2, Inductive, PTL DEF Spec

(* Every session was logged when it was created, and is logged as revoked, *)
(* once and under its own token, exactly if it is, whatever ids it shares  *)
(* with others.                                                            *)
THEOREM TrailCorrect == Spec => []SessionTrail
<1>1. TypeOK /\ TrailInv => SessionTrail
  <2> SUFFICES ASSUME TypeOK, TrailInv PROVE SessionTrail
    OBVIOUS
  <2>1. ASSUME NEW i \in Stored
        PROVE  /\ \E a \in audit : /\ a.action = "session.create" /\ a.session = i
                                   /\ a.serial = sessions[i].serial
                                   /\ a.token = sessions[i].token
               /\ sessions[i].revoked # "no" <=> Revocations(sessions[i].serial) # {}
    BY DEF TrailInv, SessionsLogged, Created, IsRevocation, Revocations
  <2>2. ASSUME NEW n \in Serial, NEW a \in Revocations(n), NEW b \in Revocations(n)
        PROVE  /\ a = b
               /\ \E c \in audit : /\ c.action = "session.create" /\ c.serial = n
                                   /\ c.token = a.token /\ c.session = a.session
    BY DEF TrailInv, RevocationsLogged, Created, IsRevocation, Revocations
  <2> QED
    BY <2>1, <2>2 DEF SessionTrail
<1> QED
  BY <1>1, TrailInductive, PTL DEF AccessInv

(* No step prunes an active session, gives its id away or replaces it.     *)
THEOREM ActiveCorrect == Spec => ActiveKept
<1>1. ASSUME TypeOK, [Next]_vars, NEW i \in SessionId, Active(sessions[i])
      PROVE  sessions'[i].serial = sessions[i].serial
  <2>1. i \in Stored /\ sessions[i] \in Session
    BY <1>1, SerialFields DEF Active, Stored
  <2>2. ASSUME NEW j \in SessionId, NEW t \in TokenId, NEW left \in Lifetime,
               SessionMade(j, t, left)
        PROVE  sessions'[i].serial = sessions[i].serial
    BY <1>1, <2>1, <2>2 DEF SessionMade, TypeOK
  <2>3. ASSUME NEW j \in SessionId, NEW action, NEW when \in RevokedAt,
               SessionRevoked(j, action, when)
        PROVE  sessions'[i].serial = sessions[i].serial
    <3>1. [sessions[i] EXCEPT !.revoked = when].serial = sessions[i].serial
      BY <2>1 DEF Session
    <3> QED
      BY <1>1, <2>3, <3>1 DEF SessionRevoked, TypeOK
  <2>4. CASE SessionsPruned
    <3>1. ~Prunable(sessions[i])
      BY <1>1, <2>1 DEF Active, Prunable, Session
    <3> QED
      BY <2>4, <3>1 DEF SessionsPruned
  <2>5. CASE Tick
    <3>1. sessions'[i] = [sessions[i] EXCEPT
                            !.left = IF sessions[i].left < 0 THEN sessions[i].left
                                     ELSE sessions[i].left - 1,
                            !.revoked = IF sessions[i].revoked = "no" THEN sessions[i].revoked
                                        ELSE "before"]
      BY <2>1, <2>5 DEF Tick
    <3> QED
      BY <2>1, <3>1 DEF Session
  <2> QED
    BY <1>1, <2>2, <2>3, <2>4, <2>5, AnySessionStep DEF SessionStep
<1>2. TypeOK /\ [Next]_vars =>
        [\A i \in SessionId :
           Active(sessions[i]) => sessions'[i].serial = sessions[i].serial]_sessions
  BY <1>1
<1> QED
  BY <1>2, TypeCorrect, PTL DEF Spec, ActiveKept
============================================================================
