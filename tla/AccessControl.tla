--------------------------- MODULE AccessControl ---------------------------
(***************************************************************************)
(* Who may act on a Comax server: the tables service_tokens and            *)
(* dashboard_sessions, the middleware that authenticates a request by      *)
(* bearer or by session cookie, the handlers that issue and revoke         *)
(* credentials, the start of a server process, which mints the first       *)
(* token, and the hourly sweeper.                                          *)
(*                                                                         *)
(* Authentication and the handler's transaction are separate statements,   *)
(* and so are the two lookups of the session arm: other requests, and      *)
(* other processes on the same database, come in between.                  *)
(*                                                                         *)
(* Time.  The code compares expires_at and revoked_at with now; the model  *)
(* keeps the seconds a session has left, saturating below zero, and        *)
(* whether a revocation is of the current second.  The clock is read       *)
(* before the statement that stores it, and the second may turn between.   *)
(***************************************************************************)
EXTENDS Integers, FiniteSets

CONSTANTS
  Process,       (* Server processes sharing the database.                 *)
  Request,       (* Requests being served at the same time.                *)
  Nowhere,       (* Not a process.                                         *)
  TTL,           (* sessionTTL, in seconds of the model.                   *)
  MaxTokens,     (* Bound: tokens ever issued.                             *)
  MaxLogins,     (* Bound: sessions ever created.                          *)
  MaxFaults      (* Bound: crashes of a process.                           *)

ASSUME AccessAssumption ==
  /\ Nowhere \notin Process
  /\ TTL \in Nat \ {0}
  /\ MaxTokens \in Nat \ {0}
  /\ MaxLogins \in Nat
  /\ MaxFaults \in Nat

VARIABLES
  tokens,        (* Table service_tokens, by id.                           *)
  sessions,      (* Table dashboard_sessions, by id.                       *)
  procs,         (* How far each process is in starting up.                *)
  requests,      (* The requests in flight.                                *)
  audit,         (* The audit rows about sessions.                         *)
  (* History variables: no guard reads them, except for the bounds.        *)
  logins,        (* Sessions created so far: the serial of the last one.   *)
  faults

vars == << tokens, sessions, procs, requests, audit, logins, faults >>

TokenId   == 1..MaxTokens
SessionId == 1..MaxLogins
Serial    == 1..MaxLogins

Token   == [state : {"absent", "live", "revoked"}, admin : BOOLEAN]
NoToken == [state |-> "absent", admin |-> FALSE]

(* serial stands for the session's cookie.                                 *)
Session   == [serial : Serial, token : TokenId, left : -1..TTL,
              revoked : {"no", "now", "before"}]
NoSession == [serial |-> 0, token |-> 0, left |-> -1, revoked |-> "no"]

(* What a clock read just before a statement makes of a session: when it   *)
(* is stored, that second is the current one still, or is over.            *)
RevokedAt == {"now", "before"}
Lifetime  == {TTL - 1, TTL}

(* barred is history: the tokens that were revoked before the statement    *)
(* that read the request's token.                                          *)
InFlight == [phase : {"login", "session", "authed"}, at : Process,
             token : TokenId, admin : BOOLEAN, barred : SUBSET TokenId]
Idle     == [phase |-> "idle", at |-> Nowhere, token |-> 0, admin |-> FALSE, barred |-> {}]

Event == [action : {"session.create", "session.revoke", "session.revoke_by_id"},
          token : TokenId, session : SessionId, serial : Serial]

Issued     == {t \in TokenId : tokens[t].state # "absent"}
Revoked    == {t \in TokenId : tokens[t].state = "revoked"}
LiveAdmins == {t \in TokenId : tokens[t].state = "live" /\ tokens[t].admin}
Stored     == {i \in SessionId : sessions[i].serial # 0}
Active(s)  == s.serial # 0 /\ s.revoked = "no" /\ s.left > 0

(* The id SQLite hands out next is one more than the largest in use.       *)
IsLastId(n, S) == (n = 0 \/ n \in S) /\ \A i \in S : i <= n

TypeOK ==
  /\ tokens   \in [TokenId -> Token]
  /\ sessions \in [SessionId -> Session \cup {NoSession}]
  /\ procs    \in [Process -> {"down", "migrate", "count", "bootstrap", "up"}]
  /\ requests \in [Request -> InFlight \cup {Idle}]
  /\ audit    \in SUBSET Event
  /\ logins   \in 0..MaxLogins
  /\ faults   \in 0..MaxFaults

(* An empty database, or one from before tokens could be admin.            *)
Init ==
  /\ \E n \in 0..MaxTokens :
       tokens = [t \in TokenId |-> IF t <= n THEN [state |-> "live", admin |-> FALSE]
                                   ELSE NoToken]
  /\ sessions = [i \in SessionId |-> NoSession]
  /\ procs    = [p \in Process |-> "down"]
  /\ requests = [r \in Request |-> Idle]
  /\ audit    = {}
  /\ logins   = 0
  /\ faults   = 0

Serve(r, fields) == requests' = [requests EXCEPT ![r] = fields]
Row(action, t, i, n) ==
  [action |-> action, token |-> t, session |-> i, serial |-> n]

----------------------------------------------------------------------------
(* Faulty variants of the operations below, each with a plausible bug that *)
(* the properties must notice.  Nothing uses them.                         *)

(* The row that ByID returns is not asked whether it is revoked.           *)
LoadSessionTokenRevoked(r) ==
  LET me == requests[r] IN
  /\ me.phase = "session"
  /\ Serve(r, [me EXCEPT !.phase = "authed", !.admin = tokens[me.token].admin,
                         !.barred = Revoked])
  /\ UNCHANGED << tokens, sessions, procs, audit, logins, faults >>

(* The last admin may be revoked.                                          *)
RevokeTokenUnguarded(r, t) ==
  /\ requests[r].phase = "authed" /\ requests[r].admin
  /\ tokens[t].state = "live"
  /\ tokens' = [tokens EXCEPT ![t].state = "revoked"]
  /\ Serve(r, Idle)
  /\ UNCHANGED << sessions, procs, audit, logins, faults >>

(* token_id is not part of the WHERE clause.                               *)
RevokeSessionByIDForeign(r, i) ==
  /\ requests[r].phase = "authed"
  /\ i \in Stored /\ sessions[i].revoked = "no"
  /\ \E when \in RevokedAt : sessions' = [sessions EXCEPT ![i].revoked = when]
  /\ audit' = audit \cup
       {Row("session.revoke_by_id", requests[r].token, i, sessions[i].serial)}
  /\ Serve(r, Idle)
  /\ UNCHANGED << tokens, procs, logins, faults >>

(* The audit row is written even if the update affected no row.            *)
RevokeSessionByIDAnyway(r, i) ==
  /\ requests[r].phase = "authed"
  /\ sessions' = [sessions EXCEPT ![i].revoked = IF i \in Stored THEN "now" ELSE @]
  /\ audit' = audit \cup
       {Row("session.revoke_by_id", requests[r].token, i, sessions[i].serial)}
  /\ Serve(r, Idle)
  /\ UNCHANGED << tokens, procs, logins, faults >>

(* The cutoff lies after now.                                              *)
PrunableEarly(s) == s.revoked = "before" \/ s.left <= 1

(* Revoked and expired, instead of either.                                 *)
PrunableBoth(s) == s.revoked = "before" /\ s.left < 0

(* The rows Prune deletes: revoked_at or expires_at lies before now.       *)
Prunable(s) == s.revoked = "before" \/ s.left < 0

----------------------------------------------------------------------------
(* A process starts: open, Migrate, autoBootstrap, serve.                  *)

Boot(p) ==
  /\ procs[p] = "down"
  /\ procs' = [procs EXCEPT ![p] = "migrate"]
  /\ UNCHANGED << tokens, sessions, requests, audit, logins, faults >>

(* Migrate: the column is_admin exists from here on, and the oldest token  *)
(* becomes admin if none is.                                               *)
Migrate(p) ==
  /\ procs[p] = "migrate"
  /\ procs' = [procs EXCEPT ![p] = "count"]
  /\ tokens' = [t \in TokenId |->
                 IF /\ t \in Issued /\ \A u \in Issued : t <= u
                    /\ \A u \in Issued : ~tokens[u].admin
                 THEN [tokens[t] EXCEPT !.admin = TRUE]
                 ELSE tokens[t]]
  /\ UNCHANGED << sessions, requests, audit, logins, faults >>

(* autoBootstrap counts the tokens before it tries to mint one.            *)
CountTokens(p) ==
  /\ procs[p] = "count"
  /\ procs' = [procs EXCEPT ![p] = IF Issued = {} THEN "bootstrap" ELSE "up"]
  /\ UNCHANGED << tokens, sessions, requests, audit, logins, faults >>

(* BootstrapIfEmpty, at start-up or for POST /bootstrap: an admin token if *)
(* the table is still empty, in one statement.                             *)
Bootstrap(p) ==
  /\ procs[p] \in {"bootstrap", "up"}
  /\ procs' = [procs EXCEPT ![p] = "up"]
  /\ tokens' = IF Issued = {} THEN [tokens EXCEPT ![1] = [state |-> "live", admin |-> TRUE]]
               ELSE tokens
  /\ UNCHANGED << sessions, requests, audit, logins, faults >>

(* The process dies with the requests it serves, or fails to start.        *)
Crash(p) ==
  /\ procs[p] # "down"
  /\ faults < MaxFaults
  /\ faults' = faults + 1
  /\ procs' = [procs EXCEPT ![p] = "down"]
  /\ requests' = [r \in Request |-> IF requests[r].at = p THEN Idle ELSE requests[r]]
  /\ UNCHANGED << tokens, sessions, audit, logins >>

----------------------------------------------------------------------------
(* Authentication.                                                         *)

(* authBearer, and the same check of the token in the body of a login:     *)
(* ByHash finds live tokens only.                                          *)
VerifyBearer(r, p, t, phase) ==
  /\ procs[p] = "up"
  /\ requests[r] = Idle
  /\ tokens[t].state = "live"
  /\ Serve(r, [phase |-> phase, at |-> p, token |-> t, admin |-> tokens[t].admin,
               barred |-> Revoked])
  /\ UNCHANGED << tokens, sessions, procs, audit, logins, faults >>

(* authSession reads the active session of the cookie,                     *)
LookupSession(r, p, n) ==
  /\ procs[p] = "up"
  /\ requests[r] = Idle
  /\ \E i \in SessionId :
       /\ Active(sessions[i]) /\ sessions[i].serial = n
       /\ Serve(r, [phase |-> "session", at |-> p, token |-> sessions[i].token,
                    admin |-> FALSE, barred |-> Revoked])
  /\ UNCHANGED << tokens, sessions, procs, audit, logins, faults >>

(* and then its token, which ByID finds even when it is revoked.           *)
LoadSessionToken(r) ==
  LET me == requests[r] IN
  /\ me.phase = "session"
  /\ Serve(r, IF tokens[me.token].state = "live"
              THEN [me EXCEPT !.phase = "authed", !.admin = tokens[me.token].admin,
                              !.barred = Revoked]
              ELSE Idle)
  /\ UNCHANGED << tokens, sessions, procs, audit, logins, faults >>

----------------------------------------------------------------------------
(* Handlers.                                                               *)

(* handleCreateToken: an admin issues a token that is not admin.           *)
CreateToken(r) ==
  /\ requests[r].phase = "authed" /\ requests[r].admin
  /\ \E n \in 0..MaxTokens - 1 :
       /\ IsLastId(n, Issued)
       /\ tokens' = [tokens EXCEPT ![n + 1] = [state |-> "live", admin |-> FALSE]]
  /\ Serve(r, Idle)
  /\ UNCHANGED << sessions, procs, audit, logins, faults >>

(* handleRevokeToken: a soft revoke, never of the last live admin.         *)
RevokeToken(r, t) ==
  /\ requests[r].phase = "authed" /\ requests[r].admin
  /\ tokens[t].state = "live"
  /\ tokens[t].admin => Cardinality(LiveAdmins) > 1
  /\ tokens' = [tokens EXCEPT ![t].state = "revoked"]
  /\ Serve(r, Idle)
  /\ UNCHANGED << sessions, procs, audit, logins, faults >>

(* handleCreateDashboardSession, once the bearer is verified: the token is *)
(* not looked at again.                                                    *)
CreateSession(r) ==
  /\ requests[r].phase = "login"
  /\ logins < MaxLogins
  /\ logins' = logins + 1
  /\ \E n \in 0..MaxLogins - 1, left \in Lifetime :
       /\ IsLastId(n, Stored)
       /\ sessions' = [sessions EXCEPT
                        ![n + 1] = [serial |-> logins', token |-> requests[r].token,
                                    left |-> left, revoked |-> "no"]]
       /\ audit' = audit \cup {Row("session.create", requests[r].token, n + 1, logins')}
  /\ Serve(r, Idle)
  /\ UNCHANGED << tokens, procs, faults >>

(* handleRevokeDashboardSession: a logout needs the cookie, nothing else.  *)
RevokeSession(p, n) ==
  /\ procs[p] = "up"
  /\ \E i \in SessionId :
       /\ Active(sessions[i]) /\ sessions[i].serial = n
       /\ \E when \in RevokedAt : sessions' = [sessions EXCEPT ![i].revoked = when]
       /\ audit' = audit \cup {Row("session.revoke", sessions[i].token, i, n)}
  /\ UNCHANGED << tokens, procs, requests, logins, faults >>

(* handleRevokeDashboardSessionByID: only the actor's own sessions, and a  *)
(* session that has expired too.                                           *)
RevokeSessionByID(r, i) ==
  /\ requests[r].phase = "authed"
  /\ i \in Stored /\ sessions[i].token = requests[r].token /\ sessions[i].revoked = "no"
  /\ \E when \in RevokedAt : sessions' = [sessions EXCEPT ![i].revoked = when]
  /\ audit' = audit \cup
       {Row("session.revoke_by_id", requests[r].token, i, sessions[i].serial)}
  /\ Serve(r, Idle)
  /\ UNCHANGED << tokens, procs, logins, faults >>

(* Any other handler answers, or the request is refused or cancelled.      *)
Finish(r) ==
  /\ requests[r] # Idle
  /\ Serve(r, Idle)
  /\ UNCHANGED << tokens, sessions, procs, audit, logins, faults >>

----------------------------------------------------------------------------
(* The hourly sweeper.                                                     *)
Prune(p) ==
  /\ procs[p] = "up"
  /\ sessions' = [i \in SessionId |-> IF Prunable(sessions[i]) THEN NoSession ELSE sessions[i]]
  /\ UNCHANGED << tokens, procs, requests, audit, logins, faults >>

(* The next second.                                                        *)
Tick ==
  /\ sessions' = [i \in SessionId |->
       IF i \in Stored
       THEN [sessions[i] EXCEPT !.left = IF @ < 0 THEN @ ELSE @ - 1,
                                !.revoked = IF @ = "no" THEN @ ELSE "before"]
       ELSE NoSession]
  /\ UNCHANGED << tokens, procs, requests, audit, logins, faults >>

Start(p) == Boot(p) \/ Migrate(p) \/ CountTokens(p) \/ Bootstrap(p)

Authenticate(r) ==
  \/ \E p \in Process, t \in TokenId, phase \in {"authed", "login"} :
       VerifyBearer(r, p, t, phase)
  \/ \E p \in Process, n \in Serial : LookupSession(r, p, n)
  \/ LoadSessionToken(r)

Handle(r) ==
  \/ CreateToken(r)
  \/ \E t \in TokenId : RevokeToken(r, t)
  \/ CreateSession(r)
  \/ \E i \in SessionId : RevokeSessionByID(r, i)
  \/ Finish(r)

Next ==
  \/ \E p \in Process : Start(p) \/ Crash(p) \/ Prune(p)
  \/ \E r \in Request : Authenticate(r) \/ Handle(r)
  \/ \E p \in Process, n \in Serial : RevokeSession(p, n)
  \/ Tick

Spec == Init /\ [][Next]_vars

(* A process that is down is started again, its sweeper runs every hour,   *)
(* and the clock goes on.  Requests need never come.                       *)
Fairness == WF_vars(Tick) /\ \A p \in Process : WF_vars(Start(p)) /\ WF_vars(Prune(p))

FairSpec == Spec /\ Fairness

----------------------------------------------------------------------------
(* Properties.                                                             *)

(* handlers_tokens.go:177: once a server answers, exactly one token can    *)
(* issue and revoke others, and it is live.  No start-up race, upgrade,    *)
(* crash or revocation locks the operator out, or makes a second admin.    *)
SoleAdmin ==
  (\E p \in Process : procs[p] = "up") =>
    \E t \in TokenId :
      /\ tokens[t] = [state |-> "live", admin |-> TRUE]
      /\ \A u \in TokenId : tokens[u].admin => u = t

(* threat-model.md:140, soft revoke on both arms: a request whose token is *)
(* revoked before the statement that reads it is not let in, on its bearer *)
(* or on any of its sessions: not if a login raced the revocation, and not *)
(* if the revocation came between the session's lookup and the token's.    *)
RevokedIsRefused ==
  \A r \in Request :
    requests[r].phase \in {"authed", "login"} => requests[r].token \notin requests[r].barred

(* Every session in the table was logged when it was created, and logged   *)
(* as revoked exactly if it is; a revocation is logged once, with the      *)
(* token that owns the session.                                            *)
Revocations(n) == {a \in audit : a.serial = n /\ a.action # "session.create"}

SessionTrail ==
  /\ \A i \in Stored :
       /\ \E a \in audit : /\ a.action = "session.create" /\ a.session = i
                           /\ a.serial = sessions[i].serial /\ a.token = sessions[i].token
       /\ sessions[i].revoked # "no" <=> Revocations(sessions[i].serial) # {}
  /\ \A n \in Serial : \A a, b \in Revocations(n) :
       /\ a = b
       /\ \E c \in audit : /\ c.action = "session.create" /\ c.serial = n
                           /\ c.token = a.token /\ c.session = a.session

(* An active session is not pruned, and its id goes to no other session.   *)
ActiveKept ==
  [][\A i \in SessionId :
       Active(sessions[i]) => sessions'[i].serial = sessions[i].serial]_sessions

(* threat-model.md:96, expired and revoked rows are pruned hourly: every   *)
(* such row is deleted at some time, although processes crash.             *)
Ended(n) == \E i \in SessionId : sessions[i].serial = n /\ ~Active(sessions[i])
Absent(n) == \A i \in SessionId : sessions[i].serial # n

EndedArePruned == \A n \in Serial : Ended(n) ~> Absent(n)
============================================================================
