----------------------------- MODULE MCDashboard -----------------------------
(***************************************************************************)
(* The parts of the dashboard, one scene each.  A behaviour plays one      *)
(* scene: the part moves, the others stand still, so that the states of    *)
(* the parts are added up and not multiplied.                              *)
(*                                                                         *)
(* What one part may do to another is in the module of the other: the list *)
(* of projects, the environments of a project and the secrets of an        *)
(* environment are queries of the palette, too, and the module of the page *)
(* has the steps of its second observer and of the palette's prefetches.   *)
(***************************************************************************)
EXTENDS ListPages, SecretPages, AuditFeed, CommandPalette, LineDiff, TLC

VARIABLE scene

vars == << scene, listVars, secretVars, feedVars, paletteVars, diffVars >>

Rows2 == [k \in Kind |-> CASE k = "webhooks" -> 1 [] k = "sessions" -> 3 [] OTHER -> 2]
Revs2 == [k \in Kind |-> CASE k = "webhooks" -> 2 [] k = "sessions" -> 2 [] OTHER -> 1]
Versions2 == [inherited \in BOOLEAN |-> IF inherited THEN 1 ELSE 3]

(* The others are pinned to one of their initial states.                   *)
Init ==
  /\ scene \in {"lists", "secrets", "audit", "palette", "diff"}
  /\ kind \in Kind /\ (scene # "lists" => kind = "projects") /\ ListInit
  /\ SecretPageInit
  /\ scene # "secrets" => \A k \in Key : store[k].inherited
  /\ AuditFeedInit
  /\ scene # "audit" => filter = "every"
  /\ PaletteInit
  /\ scene # "palette" => projects = {}
  /\ IF scene = "diff" THEN DiffInit
     ELSE /\ leftLines = << >> /\ rightLines = << >> /\ ops = << >>
          /\ walk = StartAt(leftLines, rightLines)

ListsStand    == UNCHANGED listVars
SecretsStand  == UNCHANGED secretVars
FeedStands    == UNCHANGED feedVars
PaletteStands == UNCHANGED paletteVars
DiffStands    == UNCHANGED diffVars

ListScene    == /\ scene = "lists" /\ ListNext
                /\ SecretsStand /\ FeedStands /\ PaletteStands /\ DiffStands
SecretScene  == /\ scene = "secrets" /\ SecretPageNext
                /\ ListsStand /\ FeedStands /\ PaletteStands /\ DiffStands
AuditScene   == /\ scene = "audit" /\ AuditFeedNext
                /\ ListsStand /\ SecretsStand /\ PaletteStands /\ DiffStands
PaletteScene == /\ scene = "palette" /\ PaletteNext
                /\ ListsStand /\ SecretsStand /\ FeedStands /\ DiffStands
DiffScene    == /\ scene = "diff" /\ DiffNext
                /\ ListsStand /\ SecretsStand /\ FeedStands /\ PaletteStands

Next ==
  /\ ListScene \/ SecretScene \/ AuditScene \/ PaletteScene \/ DiffScene
  /\ UNCHANGED scene

Spec == Init /\ [][Next]_vars

(* Every part is well typed; those that stand still were so at the start.  *)
DashboardTypeOK ==
  /\ scene = "lists"   => ListTypeOK
  /\ scene = "secrets" => SecretPageTypeOK
  /\ scene = "audit"   => AuditFeedTypeOK
  /\ scene = "palette" => PaletteTypeOK
  /\ scene = "diff"    => LineDiffTypeOK
=============================================================================
