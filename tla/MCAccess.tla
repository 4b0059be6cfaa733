------------------------------ MODULE MCAccess ------------------------------
(***************************************************************************)
(* Who may act, for TLC: the server's half in AccessControl, and the       *)
(* browser's half in DashboardSession, one scene each.  A behaviour plays  *)
(* one of them while the other stands still in its initial state, so that  *)
(* their states are added up and not multiplied.                           *)
(***************************************************************************)
EXTENDS AccessControl, DashboardSession, TLC

VARIABLE scene

Symmetric == Permutations(Process) \cup Permutations(Request)
               \cup Permutations(Tab) \cup Permutations(Operator)

(* The server that stands still has an empty database.                     *)
ScenesInit ==
  /\ scene \in {"server", "browser"}
  /\ Init /\ (scene = "browser" => Issued = {})
  /\ SessionInit

ServerScene  == scene = "server" /\ Next /\ UNCHANGED sessionVars
BrowserScene == scene = "browser" /\ SessionNext /\ UNCHANGED vars

ScenesNext == (ServerScene \/ BrowserScene) /\ UNCHANGED scene

ScenesSpec == ScenesInit /\ [][ScenesNext]_<< scene, vars, sessionVars >>
============================================================================
