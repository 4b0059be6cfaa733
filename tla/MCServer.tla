------------------------------ MODULE MCServer ------------------------------
(***************************************************************************)
(* Two tables of one server, for TLC: the secrets, of SecretStore, and the *)
(* sessions, of AccessControl, which are pruned in the end.  A behaviour   *)
(* plays one of them while the other stands still in its initial state, so *)
(* that their states are added up and not multiplied.                      *)
(***************************************************************************)
EXTENDS MCSecrets

CONSTANTS Process, Request, Nowhere, TTL, MaxTokens, MaxLogins, MaxFaults

VARIABLES scene, tokens, sessions, procs, requests, trail, logins, faults

Access == INSTANCE AccessControl WITH audit <- trail

accessVars == << tokens, sessions, procs, requests, trail, logins, faults >>
serverVars == << scene, vars, accessVars >>

ServerInit ==
  /\ scene \in {"secrets", "sessions"}
  /\ Init
  /\ Access!Init /\ (scene = "secrets" => Access!Issued = {})

Secrets(A)  == scene = "secrets" /\ A /\ UNCHANGED << scene, accessVars >>
Sessions(A) == scene = "sessions" /\ A /\ UNCHANGED << scene, vars >>

(* The Fairness of AccessControl, while its scene is played.               *)
Fairness ==
  /\ WF_serverVars(Sessions(Access!Tick))
  /\ \A p \in Process : /\ WF_serverVars(Sessions(Access!Start(p)))
                        /\ WF_serverVars(Sessions(Access!Prune(p)))

FairServerSpec ==
  /\ ServerInit
  /\ [][Secrets(Next) \/ Sessions(Access!Next)]_serverVars
  /\ Fairness

(* Every session that has ended is pruned in the end, through crashes and  *)
(* restarts of the server (threat-model.md, 96; session_repo.go, Prune).   *)
EndedArePruned == Access!EndedArePruned
=============================================================================
