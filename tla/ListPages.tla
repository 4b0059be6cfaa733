----------------------------- MODULE ListPages ------------------------------
(***************************************************************************)
(* The pages of the dashboard that list something and change it: projects, *)
(* environments, service tokens, webhooks, sessions.  Each shows a cached  *)
(* list; each change is one request, after whose success the list is       *)
(* invalidated, and only then the operator is told.                        *)
(*                                                                         *)
(* The projects and the environments are also on the screen elsewhere, in  *)
(* the command palette and on the page that compares environments, and the *)
(* palette fetches the environments from any page, shown or not.           *)
(*                                                                         *)
(* Data.  A row stands for a project, environment, token, webhook or       *)
(* session; its contents are the number of changes made to it.  Others     *)
(* change the rows too.  Form fields, and the refusals that depend on      *)
(* them, are left out: the server may refuse any change.                   *)
(***************************************************************************)
EXTENDS Integers, QueryCache

CONSTANTS
  MaxRows,       (* Bound, by page: rows ever made.                        *)
  MaxRev,        (* Bound, by page: changes to a row.                      *)
  Request        (* Bound: names for the changes under way.                *)

Kind == {"projects", "envs", "tokens", "webhooks", "sessions"}

ASSUME ListAssumption == MaxRows \in [Kind -> Nat] /\ MaxRev \in [Kind -> Nat]

VARIABLES
  kind,          (* The page looked at.                                    *)
  rows,          (* The rows of the server.                                *)
  list,          (* The cached list, a query of QueryCache.                *)
  watched,       (* The list is on the screen elsewhere.                   *)
  page,          (* The page's own state.                                  *)
  changes,       (* The changes under way.                                 *)
  told           (* History: by row, the change the operator was told of.  *)

listVars == << kind, rows, list, watched, page, changes, told >>

Row   == UNION {1..MaxRows[k] : k \in Kind}
NoRow == 0
Rows  == [Row -> [rev : Nat, live : BOOLEAN]]

(* The session of the dashboard itself.                                    *)
CurrentSession == 1

(* form: the create dialog is open; plaintext: the row whose token or      *)
(* signing secret its second phase shows; confirm: the row of the          *)
(* confirmation dialog (pendingId); busy: of that dialog's instance.       *)
FreshPage == [mounted |-> TRUE, form |-> FALSE, plaintext |-> NoRow,
              confirm |-> NoRow, busy |-> FALSE]

(* here: the page that made the request is still mounted; pending: the     *)
(* button waits for it; awaits: the refetch it waits for is not replaced.  *)
(* rev: what the change made of the row.  missed: its invalidation was     *)
(* left to an older fetch.                                                 *)
NoChange == [op |-> "none", row |-> NoRow, rev |-> 0, step |-> "sent", missed |-> FALSE,
             here |-> FALSE, pending |-> FALSE, awaits |-> FALSE]

ListInit ==
  /\ kind \in Kind
  /\ rows = [r \in Row |-> LET open == kind = "sessions" /\ r <= MaxRows[kind]
                         IN  [rev |-> IF open THEN 1 ELSE 0, live |-> open]]
  /\ list = MountQuery(EmptyQuery, FALSE)
  /\ watched = FALSE
  /\ page = FreshPage
  /\ changes = [i \in Request |-> NoChange]
  /\ told = [r \in Row |-> 0]

Observed == page.mounted \/ watched

(* The rows with buttons on the screen: an error is shown in place of the  *)
(* table.                                                                  *)
Listed == IF list.data = NoData \/ list.error THEN {} ELSE {r \in Row : list.data[r].live}

(* Pending(op): isPending of the hook; PendingRow(r): a row's busy.        *)
Pending(op)   == \E i \in Request : changes[i].op = op /\ changes[i].pending
PendingRow(r) == \E i \in Request : changes[i].row = r /\ changes[i].pending
                                        /\ changes[i].op \in {"remove", "toggle"}

(* A dialog is modal.                                                      *)
DialogOpen == page.form \/ page.confirm # NoRow

(* Ask(op, r): mutate.  The hook follows the last request alone.           *)
Ask(op, r) ==
  \E i \in Request :
    /\ changes[i].op = "none"
    /\ changes' = [j \in Request |->
         IF j = i THEN [op |-> op, row |-> r, rev |-> 0, step |-> "sent",
                        missed |-> FALSE, here |-> TRUE, pending |-> TRUE, awaits |-> FALSE]
         ELSE IF changes[j].op = op THEN [changes[j] EXCEPT !.pending = FALSE]
         ELSE changes[j]]

-----------------------------------------------------------------------------
(* Faulty variants of the operations below.                                *)

InvalidateNothing(q) == q

AskAgain(r) ==
  /\ r # NoRow
  /\ Ask("remove", r)
  /\ page' = [page EXCEPT !.busy = TRUE]

-----------------------------------------------------------------------------
(* The create dialogs.                                                     *)

(* The button of each page; an environment is not added to a list that is  *)
(* still loading.  Sessions are not made here.                             *)
ProjectsPage == kind = "projects"
ProjectPage  == kind = "envs" /\ ~isLoading(list)
TokensPage   == kind = "tokens"
WebhooksPage == kind = "webhooks"

OpenForm ==
  /\ page.mounted /\ ~DialogOpen
  /\ ProjectsPage \/ ProjectPage \/ TokensPage \/ WebhooksPage
  /\ page' = [page EXCEPT !.form = TRUE]
  /\ UNCHANGED << kind, rows, list, watched, changes, told >>

(* The submit button is disabled while the mutation is pending.            *)
SubmitForm ==
  /\ page.mounted /\ page.form /\ ~Pending("create")
  /\ Ask("create", NoRow)

CreateProject == kind = "projects" /\ SubmitForm
CreateEnv     == kind = "envs" /\ SubmitForm
CreateToken   == kind = "tokens" /\ page.plaintext = NoRow /\ SubmitForm
CreateWebhook == kind = "webhooks" /\ page.plaintext = NoRow /\ SubmitForm

SubmitCreate ==
  /\ CreateProject \/ CreateEnv \/ CreateToken \/ CreateWebhook
  /\ UNCHANGED << kind, rows, list, watched, page, told >>

(* Reset: both phases are cleared, and the hook forgets its request, which *)
(* goes on.                                                                *)
CloseForm ==
  /\ page.mounted /\ page.form
  /\ page' = [page EXCEPT !.form = FALSE, !.plaintext = NoRow]
  /\ changes' = [i \in Request |->
       IF changes[i].op = "create" THEN [changes[i] EXCEPT !.pending = FALSE]
       ELSE changes[i]]
  /\ UNCHANGED << kind, rows, list, watched, told >>

(* The end of onSuccess: the dialog is closed, whichever instance of the   *)
(* form is open by then; or the plaintext is put in its place.             *)
ProjectCreated(c) == page' = IF c.here THEN [page EXCEPT !.form = FALSE] ELSE page
EnvCreated(c)     == page' = IF c.here THEN [page EXCEPT !.form = FALSE] ELSE page
TokenCreated(c)   == page' = IF c.here THEN [page EXCEPT !.plaintext = c.row] ELSE page
WebhookCreated(c) == page' = IF c.here THEN [page EXCEPT !.plaintext = c.row] ELSE page

-----------------------------------------------------------------------------
(* The rows, and the confirmation of a removal.                            *)

(* The buttons of a row: not of the current session, and not while a       *)
(* change of the row is pending.                                           *)
TokenRow   == kind = "tokens"
WebhookRow == kind = "webhooks"
SessionRow(r) == kind = "sessions" /\ r # CurrentSession

StartRemove(r) ==
  /\ page.mounted /\ ~DialogOpen
  /\ r \in Listed /\ ~PendingRow(r)
  /\ TokenRow \/ WebhookRow \/ SessionRow(r)
  /\ page' = [page EXCEPT !.confirm = r]
  /\ UNCHANGED << kind, rows, list, watched, changes, told >>

(* CancelRemove: the button is disabled while busy, the Escape key is not. *)
CancelRemove ==
  /\ page.confirm # NoRow
  /\ page' = [page EXCEPT !.confirm = NoRow]
  /\ UNCHANGED << kind, rows, list, watched, changes, told >>

(* handleConfirm of the dialog.                                            *)
ConfirmRemove(r) ==
  /\ r # NoRow /\ ~page.busy
  /\ Ask("remove", r)
  /\ page' = [page EXCEPT !.busy = TRUE]

handleConfirm == ConfirmRemove(page.confirm) /\ UNCHANGED << kind, rows, list, watched, told >>

(* Its end: whatever row the dialog is open for by then, it closes.        *)
RemoveDone(c, ok) ==
  page' = IF ~c.here THEN page
          ELSE [page EXCEPT !.busy = FALSE, !.confirm = IF ok THEN NoRow ELSE @]

(* ToggleWebhook(r): enable or disable.                                    *)
ToggleWebhook(r) ==
  /\ WebhookRow /\ page.mounted /\ ~DialogOpen
  /\ r \in Listed /\ ~PendingRow(r)
  /\ Ask("toggle", r)
  /\ UNCHANGED << kind, rows, list, watched, page, told >>

-----------------------------------------------------------------------------
(* The server.                                                             *)

Change(r) == rows' = [rows EXCEPT ![r] = [rev |-> @.rev + 1, live |-> TRUE]]
Delete(r) == rows' = [rows EXCEPT ![r] = [rev |-> @.rev + 1, live |-> FALSE]]

IsNewRow(r) ==
  r <= MaxRows[kind] /\ rows[r].rev = 0 /\ \A s \in 1..(r - 1) : rows[s].rev > 0

(* A row is made once, and changed while it lives.  A session that has     *)
(* ended is removed with success, and nothing changes.                     *)
ServerChange(op, r) ==
  \/ /\ rows[r].rev < MaxRev[kind]
     /\ \/ op = "create" /\ IsNewRow(r) /\ Change(r)
        \/ op = "toggle" /\ rows[r].live /\ Change(r)
        \/ op = "remove" /\ rows[r].live /\ Delete(r)
  \/ op = "remove" /\ kind = "sessions" /\ ~rows[r].live /\ UNCHANGED rows

ServeChange(i) ==
  /\ changes[i].op # "none" /\ changes[i].step = "sent"
  /\ \E r \in Row :
       /\ changes[i].op = "create" \/ r = changes[i].row
       /\ ServerChange(changes[i].op, r)
       /\ changes' = [changes EXCEPT ![i] =
            [@ EXCEPT !.step = "done", !.row = r, !.rev = rows'[r].rev]]
  /\ UNCHANGED << kind, list, watched, page, told >>

(* Another operator, or the command line.                                  *)
ChangeElsewhere ==
  /\ \/ kind # "sessions" /\ \E r \in Row : ServerChange("create", r)
     \/ \E r \in Row : r # CurrentSession /\ ServerChange("remove", r)
  /\ UNCHANGED << kind, list, watched, page, changes, told >>

-----------------------------------------------------------------------------
(* Answers.                                                                *)

InvalidateList(q) == Invalidate(q, Observed)

(* ChangeSucceeds(i): onSuccess runs up to the refetch it awaits, if there *)
(* is one.  The refetch that others await ends, unless it was only joined. *)
ChangeSucceeds(i) ==
  LET missed == Misses(list, Observed)
  IN  /\ changes[i].step = "done"
      /\ list' = InvalidateList(list)
      /\ changes' = [j \in Request |->
           IF j = i THEN [changes[i] EXCEPT !.step = "refreshing", !.missed = missed,
                                            !.awaits = Observed]
           ELSE [changes[j] EXCEPT !.awaits = missed /\ @]]
      /\ UNCHANGED << kind, rows, watched, page, told >>

(* ChangeIsTold(i): the refetch has ended, well or not, or was cancelled   *)
(* for another.                                                            *)
ChangeIsTold(i) ==
  LET c == changes[i]
  IN  /\ c.step = "refreshing"
      /\ ~isFetching(list) \/ ~c.awaits
      /\ \/ c.op = "create" /\ kind = "projects" /\ ProjectCreated(c)
         \/ c.op = "create" /\ kind = "envs" /\ EnvCreated(c)
         \/ c.op = "create" /\ kind = "tokens" /\ TokenCreated(c)
         \/ c.op = "create" /\ kind = "webhooks" /\ WebhookCreated(c)
         \/ c.op = "remove" /\ RemoveDone(c, TRUE)
         \/ c.op = "toggle" /\ UNCHANGED page
      /\ changes' = [changes EXCEPT ![i] = NoChange]
      /\ told' = IF c.missed THEN told
                  ELSE [told EXCEPT ![c.row] = IF c.rev > @ THEN c.rev ELSE @]
      /\ UNCHANGED << kind, rows, list, watched >>

(* ChangeFails(i): the server refuses, or the network breaks before or     *)
(* after it has acted.                                                     *)
ChangeFails(i) ==
  /\ changes[i].op # "none" /\ changes[i].step # "refreshing"
  /\ IF changes[i].op = "remove" THEN RemoveDone(changes[i], FALSE)
                                 ELSE UNCHANGED page
  /\ changes' = [changes EXCEPT ![i] = NoChange]
  /\ UNCHANGED << kind, rows, list, watched, told >>

ListFetched ==
  /\ QueryMoves(list, list', rows, Observed)
  /\ UNCHANGED << kind, rows, watched, page, changes, told >>

-----------------------------------------------------------------------------
(* Leaving the page and coming back, and the list elsewhere.               *)

(* What waits for the list waits no more: its request is aborted.          *)
Unwatched(c) == [c EXCEPT !.awaits = FALSE]

LeavePage ==
  /\ page.mounted
  /\ page' = [FreshPage EXCEPT !.mounted = FALSE]
  /\ watched' = FALSE
  /\ list' = UnmountQuery(list)
  /\ changes' = [i \in Request |->
       [Unwatched(changes[i]) EXCEPT !.here = FALSE, !.pending = FALSE]]
  /\ UNCHANGED << kind, rows, told >>

ReturnToPage ==
  /\ ~page.mounted /\ ~watched
  /\ page' = FreshPage
  /\ \E aged \in BOOLEAN : list' = MountQuery(list, aged)
  /\ UNCHANGED << kind, rows, watched, changes, told >>

(* WatchList: the palette opens, over this page or another, or the page    *)
(* that compares environments appears.                                     *)
WatchList ==
  /\ ~watched
  /\ kind = "projects" \/ (kind = "envs" /\ ~page.mounted)
  /\ watched' = TRUE
  /\ \E aged \in BOOLEAN : list' = MountQuery(list, aged)
  /\ UNCHANGED << kind, rows, page, changes, told >>

UnwatchList ==
  /\ watched
  /\ watched' = FALSE
  /\ list' = IF page.mounted THEN list ELSE UnmountQuery(list)
  /\ changes' = [i \in Request |->
       IF page.mounted THEN changes[i] ELSE Unwatched(changes[i])]
  /\ UNCHANGED << kind, rows, page, told >>

(* The palette of any page, once it knows the projects.                    *)
PrefetchEnvs ==
  /\ kind = "envs"
  /\ \E aged \in BOOLEAN : list' = FetchQuery(list, aged)
  /\ UNCHANGED << kind, rows, watched, page, changes, told >>

-----------------------------------------------------------------------------
ListNext ==
  \/ OpenForm \/ SubmitCreate \/ CloseForm
  \/ \E r \in Row : StartRemove(r) \/ ToggleWebhook(r)
  \/ CancelRemove \/ handleConfirm
  \/ \E i \in Request : \/ ServeChange(i) \/ ChangeSucceeds(i)
                            \/ ChangeIsTold(i) \/ ChangeFails(i)
  \/ ChangeElsewhere \/ ListFetched
  \/ LeavePage \/ ReturnToPage \/ WatchList \/ UnwatchList \/ PrefetchEnvs

ListSpec == ListInit /\ [][ListNext]_listVars

-----------------------------------------------------------------------------
(* Properties.                                                             *)

ListTypeOK ==
  /\ kind \in Kind
  /\ rows \in Rows
  /\ list \in QueryOf(Rows)
  /\ watched \in BOOLEAN
  /\ page \in [mounted : BOOLEAN, form : BOOLEAN, plaintext : Row \cup {NoRow},
               confirm : Row \cup {NoRow}, busy : BOOLEAN]
  /\ changes \in [Request ->
       [op : {"none", "create", "remove", "toggle"}, row : Row \cup {NoRow},
        rev : Nat, step : {"sent", "done", "refreshing"}, missed : BOOLEAN,
        here : BOOLEAN, pending : BOOLEAN, awaits : BOOLEAN]]
  /\ told \in [Row -> Nat]

(* What the operator was told is on the screen: a settled list shows every *)
(* change at least as new as the one announced, though it was fetched      *)
(* while other changes ran, though the page was left and entered again,    *)
(* and though the palette fetched it meanwhile; except for a change whose  *)
(* invalidation found a fetch under way that it did not replace, a first   *)
(* load or a fetch that nobody observed.                                   *)
ListShowsWhatWasTold ==
  page.mounted /\ Settled(list) =>
    \A r \in Row : list.data[r].rev >= told[r]

(* Tokens.tsx, 171, and Webhooks.tsx, 212: closing the dialog resets both  *)
(* phases.  So a dialog opens in its first phase, and what it shows in its *)
(* second is what it asked for itself.                                     *)
PlaintextOfItsOwnDialog ==
  [][/\ ~page.form /\ page'.form => page'.plaintext = NoRow
     /\ page.form /\ page'.plaintext \notin {page.plaintext, NoRow} =>
          \E i \in Request : /\ changes[i].op = "create" /\ changes[i].pending
                             /\ changes[i].row = page'.plaintext]_listVars

(* The page removes one row at a time, though the Escape key closes the    *)
(* dialog of a removal under way and another row's can be opened.          *)
OneRemovalAtATime ==
  \A i, j \in Request :
    /\ changes[i].op = "remove" /\ changes[i].here
    /\ changes[j].op = "remove" /\ changes[j].here
    => i = j
=============================================================================
