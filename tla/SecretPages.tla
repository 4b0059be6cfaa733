---------------------------- MODULE SecretPages -----------------------------
(***************************************************************************)
(* The page of an environment's secrets: the table with its row editors    *)
(* and delete dialogs, the dialog that adds a key, and the drawer with a   *)
(* key's versions, from which one rolls back.  Two queries are on it: the  *)
(* resolved secrets, and, while the drawer is open, the versions.  The     *)
(* command palette fetches the secrets too, also from the page that        *)
(* compares the environment with another, where nothing shows them.        *)
(*                                                                         *)
(* Data.  A value stands for the version that wrote it.  A key may be the  *)
(* environment's own, or inherited from its parent, which holds it at      *)
(* version 1 and does not change.  Others write the environment too.       *)
(***************************************************************************)
EXTENDS Integers, QueryCache

CONSTANTS
  Key,           (* Names of secrets.                                      *)
  NoKey,         (* Not a key.                                             *)
  MaxVersion,    (* Bound: versions of a key without, and of a key with a  *)
                 (* parent's.                                              *)
  Write          (* Bound: names for the writes under way.                 *)

ASSUME SecretPageAssumption ==
  NoKey \notin Key /\ MaxVersion \in [BOOLEAN -> Nat \ {0}]

VARIABLES
  onPage,        (* The page is up.                                        *)
  store,         (* The environment's own secrets, as in SecretStore.      *)
  secrets,       (* The query of the resolved secrets.                     *)
  versions,      (* The query of the versions.                             *)
  row,           (* What each row of the table has open.                   *)
  dialog,        (* The add dialog and the drawer.                         *)
  writes,        (* The writes under way.                                  *)
  said           (* History: by query and key, the age of the key that the *)
                 (* operator was told of.                                  *)

secretVars == << onPage, store, secrets, versions, row, dialog, writes, said >>

(* inherited: the parent has the key.                                      *)
Store == [Key -> [version : Nat, live : BOOLEAN, inherited : BOOLEAN]]

(* An entry of the table, as resolved: an own key hides an inherited one.  *)
NoEntry == [from |-> "none", version |-> 0]
Entry   == [from : {"none", "own", "parent"}, version : Nat]
Resolved(s) ==
  IF s.live THEN [from |-> "own", version |-> s.version]
  ELSE IF s.inherited THEN [from |-> "parent", version |-> 1]
  ELSE NoEntry

(* The entry the table shows for the key.                                  *)
Shown(q, k) == IF q.data = NoData THEN NoEntry ELSE Resolved(q.data[k])

(* draft: the entry the text in the editor was begun from; confirm: the    *)
(* entry shown when the delete dialog was opened; busy: of that dialog.    *)
FreshRow == [draft |-> NoEntry, confirm |-> NoEntry, busy |-> FALSE]

(* key is historyKey; the drawer is mounted while the table has that key.  *)
NoDrawer == [key |-> NoKey, selected |-> 0, confirm |-> FALSE, busy |-> FALSE]
NoDialog == [adding |-> FALSE, drawer |-> NoDrawer]

(* here: the row, dialog or drawer that asked is still mounted; page: the  *)
(* page is.  age: of the key, as the write left it.  missed: the queries   *)
(* whose invalidation was left to an older fetch.                          *)
NoWrite == [op |-> "none", key |-> NoKey, target |-> 0, age |-> 0, step |-> "sent",
            missed |-> {}, page |-> FALSE, here |-> FALSE, pending |-> FALSE,
            awaits |-> FALSE]

Queries == {"secrets", "versions"}

(* Age(s): grows with every write or deletion of a key.                    *)
Age(s) == 2 * s.version - IF s.live THEN 1 ELSE 0

(* A key is inherited alone, or the environment's own alone, and may be    *)
(* written once more.                                                      *)
SecretPageInit ==
  /\ onPage = TRUE
  /\ store \in [Key -> {[version |-> 0, live |-> FALSE, inherited |-> TRUE],
                        [version |-> MaxVersion[FALSE] - 1, live |-> MaxVersion[FALSE] > 1,
                         inherited |-> FALSE]}]
  /\ secrets = MountQuery(EmptyQuery, FALSE)
  /\ versions = EmptyQuery
  /\ row = [k \in Key |-> FreshRow]
  /\ dialog = NoDialog
  /\ writes = [w \in Write |-> NoWrite]
  /\ said = [q \in Queries |-> [k \in Key |-> 0]]

(* DrawerOpen(d, q): historySecret is found.                               *)
DrawerOpen(d, q) == d.key # NoKey /\ Shown(q, d.key) # NoEntry

(* The page's buttons are out of reach: it is not up, or under a dialog or *)
(* a drawer, which are modal.                                              *)
Covered ==
  \/ ~onPage
  \/ dialog.adding \/ DrawerOpen(dialog.drawer, secrets)
  \/ \E k \in Key : row[k].confirm # NoEntry

(* WritePending(op, k): isPending of the hook of that row or dialog.       *)
WritePending(op, k) ==
  \E w \in Write : writes[w].op = op /\ writes[w].key = k /\ writes[w].pending

Send(op, k, target) ==
  \E w \in Write :
    /\ writes[w].op = "none"
    /\ writes' = [writes EXCEPT ![w] =
         [op |-> op, key |-> k, target |-> target, age |-> 0, step |-> "sent",
          missed |-> {}, page |-> TRUE, here |-> TRUE, pending |-> TRUE, awaits |-> FALSE]]

(* Detached(S): the writes once what asked for those in S is gone.         *)
Detached(S) ==
  [w \in Write |-> IF w \in S THEN [writes[w] EXCEPT !.here = FALSE, !.pending = FALSE]
                              ELSE writes[w]]

-----------------------------------------------------------------------------
(* Faulty variants of the operations below.                                *)

KeepRow(k, q) == TRUE

InvalidateSecretsOnly(v) == v

-----------------------------------------------------------------------------
(* The rows.                                                               *)

StartEdit(k) ==
  /\ Shown(secrets, k) # NoEntry /\ ~Covered
  /\ row[k].draft = NoEntry
  /\ row' = [row EXCEPT ![k].draft = Shown(secrets, k)]
  /\ UNCHANGED << onPage, store, secrets, versions, dialog, writes, said >>

CancelEdit(k) ==
  /\ row[k].draft # NoEntry /\ ~Covered /\ ~WritePending("save", k)
  /\ row' = [row EXCEPT ![k].draft = NoEntry]
  /\ UNCHANGED << onPage, store, secrets, versions, dialog, writes, said >>

SaveEdit(k) ==
  /\ row[k].draft # NoEntry /\ ~Covered /\ ~WritePending("save", k)
  /\ Send("save", k, 0)
  /\ UNCHANGED << onPage, store, secrets, versions, row, dialog, said >>

(* The delete dialog.  It opens and closes as that of ListPages.           *)
StartDelete(k) ==
  /\ Shown(secrets, k) # NoEntry /\ ~Covered
  /\ row[k].draft = NoEntry /\ ~WritePending("delete", k)
  /\ row' = [row EXCEPT ![k].confirm = Shown(secrets, k)]
  /\ UNCHANGED << onPage, store, secrets, versions, dialog, writes, said >>

CancelDelete(k) ==
  /\ row[k].confirm # NoEntry
  /\ row' = [row EXCEPT ![k].confirm = NoEntry]
  /\ UNCHANGED << onPage, store, secrets, versions, dialog, writes, said >>

ConfirmDelete(k) ==
  /\ row[k].confirm # NoEntry /\ ~row[k].busy
  /\ row' = [row EXCEPT ![k].busy = TRUE]
  /\ Send("delete", k, 0)
  /\ UNCHANGED << onPage, store, secrets, versions, dialog, said >>

-----------------------------------------------------------------------------
(* The add dialog: a key the table shows is refused.                       *)

OpenAdd ==
  /\ ~Covered /\ ~isLoading(secrets)
  /\ dialog' = [dialog EXCEPT !.adding = TRUE]
  /\ UNCHANGED << onPage, store, secrets, versions, row, writes, said >>

AddSecret(k) ==
  /\ dialog.adding /\ Shown(secrets, k) = NoEntry
  /\ \A j \in Key : ~WritePending("add", j)
  /\ Send("add", k, 0)
  /\ UNCHANGED << onPage, store, secrets, versions, row, dialog, said >>

CloseAdd ==
  /\ dialog.adding
  /\ dialog' = [dialog EXCEPT !.adding = FALSE]
  /\ writes' = [w \in Write |-> IF writes[w].op = "add"
                                  THEN [writes[w] EXCEPT !.pending = FALSE] ELSE writes[w]]
  /\ UNCHANGED << onPage, store, secrets, versions, row, said >>

-----------------------------------------------------------------------------
(* The drawer.                                                             *)

OpenHistory(k) ==
  /\ Shown(secrets, k) # NoEntry /\ ~Covered /\ row[k].draft = NoEntry
  /\ dialog' = [dialog EXCEPT !.drawer = [NoDrawer EXCEPT !.key = k]]
  /\ \E aged \in BOOLEAN : versions' = MountQuery(versions, aged)
  /\ UNCHANGED << onPage, store, secrets, row, writes, said >>

(* The versions listed are those of the row's own secret.                  *)
SelectVersion(v) ==
  LET k == dialog.drawer.key
  IN  /\ DrawerOpen(dialog.drawer, secrets) /\ ~dialog.drawer.confirm
      /\ versions.data # NoData /\ Shown(secrets, k).from = "own"
      /\ v \in 1..versions.data[k].version
      /\ dialog' = [dialog EXCEPT !.drawer.selected = v]
      /\ UNCHANGED << onPage, store, secrets, versions, row, writes, said >>

(* canRollback: a version that is not the current one of the table.        *)
StartRollback ==
  LET d == dialog.drawer
  IN  /\ DrawerOpen(d, secrets) /\ ~d.confirm
      /\ d.selected # 0 /\ d.selected # Shown(secrets, d.key).version
      /\ ~WritePending("rollback", d.key)
      /\ dialog' = [dialog EXCEPT !.drawer.confirm = TRUE]
      /\ UNCHANGED << onPage, store, secrets, versions, row, writes, said >>

CancelRollback ==
  /\ DrawerOpen(dialog.drawer, secrets) /\ dialog.drawer.confirm
  /\ dialog' = [dialog EXCEPT !.drawer.confirm = FALSE]
  /\ UNCHANGED << onPage, store, secrets, versions, row, writes, said >>

ConfirmRollback ==
  LET d == dialog.drawer
  IN  /\ DrawerOpen(d, secrets) /\ d.confirm /\ ~d.busy
      /\ dialog' = [dialog EXCEPT !.drawer.busy = TRUE]
      /\ Send("rollback", d.key, d.selected)
      /\ UNCHANGED << onPage, store, secrets, versions, row, said >>

RollbacksHere == {w \in Write : writes[w].op = "rollback"}

CloseDrawer ==
  /\ DrawerOpen(dialog.drawer, secrets) /\ ~dialog.drawer.confirm
  /\ dialog' = [dialog EXCEPT !.drawer = NoDrawer]
  /\ versions' = UnmountQuery(versions)
  /\ writes' = Detached(RollbacksHere)
  /\ UNCHANGED << onPage, store, secrets, row, said >>

-----------------------------------------------------------------------------
(* The server.                                                             *)

Put(s)        == [s EXCEPT !.version = @ + 1, !.live = TRUE]
SoftDelete(s) == [s EXCEPT !.live = FALSE]

(* Bounds: MaxVersion, and an own key is not deleted at its last version.  *)
MayPut(s)    == s.version < MaxVersion[s.inherited]
MayDelete(s) == s.live /\ (s.inherited \/ MayPut(s))

ServeSecretWrite(w) ==
  LET s == store[writes[w].key]
  IN  /\ writes[w].op # "none" /\ writes[w].step = "sent"
      /\ \/ /\ writes[w].op \in {"save", "add"}
            /\ MayPut(s)
            /\ store' = [store EXCEPT ![writes[w].key] = Put(@)]
         \/ /\ writes[w].op = "rollback"
            /\ s.live /\ writes[w].target \in 1..(s.version - 1) /\ MayPut(s)
            /\ store' = [store EXCEPT ![writes[w].key] = Put(@)]
         \/ /\ writes[w].op = "delete" /\ MayDelete(s)
            /\ store' = [store EXCEPT ![writes[w].key] = SoftDelete(@)]
      /\ writes' = [writes EXCEPT ![w] =
           [@ EXCEPT !.step = "done", !.age = Age(store'[writes[w].key])]]
      /\ UNCHANGED << onPage, secrets, versions, row, dialog, said >>

WriteElsewhere(k) ==
  /\ \/ MayPut(store[k]) /\ store' = [store EXCEPT ![k] = Put(@)]
     \/ MayDelete(store[k]) /\ store' = [store EXCEPT ![k] = SoftDelete(@)]
  /\ UNCHANGED << onPage, secrets, versions, row, dialog, writes, said >>

-----------------------------------------------------------------------------
(* The table is drawn again.                                               *)

(* SameInstance(k, q): the row is the one before, by its React key.        *)
SameInstance(k, q) == Shown(q, k).version = Shown(secrets, k).version

(* An editor that survives is filled with the new value.                   *)
RefillDraft(r, entry) == IF r.draft = NoEntry THEN r ELSE [r EXCEPT !.draft = entry]

(* Redraw(q): a row whose version is new loses what it had open, and what  *)
(* it waits for; so does the drawer when its key is gone, though the page  *)
(* keeps historyKey.                                                       *)
Redraw(q) ==
  LET gone   == {k \in Key : ~SameInstance(k, q)}
      d      == dialog.drawer
      opened == DrawerOpen(d, q)
      was    == DrawerOpen(d, secrets)
  IN  /\ row' = [k \in Key |-> IF k \in gone THEN FreshRow
                                             ELSE RefillDraft(row[k], Shown(q, k))]
      /\ writes' = Detached({w \in Write :
           \/ writes[w].op \in {"save", "delete"} /\ writes[w].key \in gone
           \/ writes[w].op = "rollback" /\ was /\ ~opened})
      /\ dialog' = IF opened THEN dialog
                   ELSE [dialog EXCEPT !.drawer = [NoDrawer EXCEPT !.key = d.key]]
      /\ IF opened /\ ~was THEN \E aged \in BOOLEAN : versions' = MountQuery(versions, aged)
         ELSE versions' = IF was /\ ~opened THEN UnmountQuery(versions) ELSE versions

SecretsFetched ==
  /\ QueryMoves(secrets, secrets', store, onPage)
  /\ IF secrets'.data = secrets.data THEN UNCHANGED << row, writes, dialog, versions >>
                                     ELSE Redraw(secrets')
  /\ UNCHANGED << onPage, store, said >>

VersionsFetched ==
  /\ QueryMoves(versions, versions', store, DrawerOpen(dialog.drawer, secrets))
  /\ UNCHANGED << onPage, store, secrets, row, dialog, writes, said >>

-----------------------------------------------------------------------------
(* Answers of the writes.                                                  *)

InvalidateVersions(v) == Invalidate(v, DrawerOpen(dialog.drawer, secrets))

Missed ==
  {q \in Queries : \/ q = "secrets" /\ Misses(secrets, onPage)
                   \/ q = "versions" /\ Misses(versions, DrawerOpen(dialog.drawer, secrets))}

(* WriteSucceeds(w): both queries are invalidated, and what is refetched   *)
(* is awaited.  A refetch that others await ends, unless it is joined.     *)
WriteSucceeds(w) ==
  /\ writes[w].step = "done"
  /\ secrets' = Invalidate(secrets, onPage)
  /\ versions' = InvalidateVersions(versions)
  /\ writes' = [x \in Write |->
       IF x = w THEN [writes[w] EXCEPT !.step = "refreshing", !.missed = Missed,
                                       !.awaits = onPage]
       ELSE [writes[x] EXCEPT !.awaits = @ /\ Missed # {}]]
  /\ UNCHANGED << onPage, store, row, dialog, said >>

(* The end of each onSuccess.                                              *)
SaveDone(c)     == /\ row' = IF c.here THEN [row EXCEPT ![c.key].draft = NoEntry] ELSE row
                   /\ UNCHANGED << dialog, versions >>
DeleteDone(c)   == /\ row' = IF c.here THEN [row EXCEPT ![c.key].confirm = NoEntry,
                                                        ![c.key].busy = FALSE] ELSE row
                   /\ UNCHANGED << dialog, versions >>
AddDone(c)      == /\ dialog' = IF c.page THEN [dialog EXCEPT !.adding = FALSE] ELSE dialog
                   /\ UNCHANGED << row, versions >>
(* The page forgets historyKey, whichever drawer is open by then.          *)
RollbackDone(c) == /\ dialog' = IF c.page THEN [dialog EXCEPT !.drawer = NoDrawer] ELSE dialog
                   /\ versions' = IF c.page THEN UnmountQuery(versions) ELSE versions
                   /\ UNCHANGED row

(* What the operator knows of the keys once c is announced: of a query     *)
(* whose invalidation was left to an older fetch, nothing.                 *)
Announced(c) ==
  [q \in Queries |-> IF q \in c.missed THEN said[q]
                     ELSE [said[q] EXCEPT ![c.key] = IF c.age > @ THEN c.age ELSE @]]

WriteIsTold(w) ==
  LET c == writes[w]
  IN  /\ c.step = "refreshing"
      /\ ~c.awaits \/ ~(isFetching(secrets) \/ isFetching(versions))
      /\ \/ c.op = "save" /\ SaveDone(c)
         \/ c.op = "delete" /\ DeleteDone(c)
         \/ c.op = "add" /\ AddDone(c)
         \/ c.op = "rollback" /\ RollbackDone(c)
      /\ writes' = [(IF c.op = "rollback" /\ c.page THEN Detached(RollbacksHere) ELSE writes)
                      EXCEPT ![w] = NoWrite]
      /\ said' = Announced(c)
      /\ UNCHANGED << onPage, store, secrets >>

(* WriteFails(w): refused, or the network breaks before or after the       *)
(* server has acted; a dialog stays open.                                  *)
WriteFails(w) ==
  LET c == writes[w]
  IN  /\ c.op # "none" /\ c.step # "refreshing"
      /\ row' = IF c.op = "delete" /\ c.here THEN [row EXCEPT ![c.key].busy = FALSE] ELSE row
      /\ dialog' = IF c.op = "rollback" /\ c.here
                     THEN [dialog EXCEPT !.drawer.busy = FALSE] ELSE dialog
      /\ writes' = [writes EXCEPT ![w] = NoWrite]
      /\ UNCHANGED << onPage, store, secrets, versions, said >>

-----------------------------------------------------------------------------
(* Leaving the page and coming back.                                       *)

(* Whatever is open on the page goes with it, and so do its requests; the  *)
(* writes go on.                                                           *)
LeaveSecrets ==
  /\ onPage
  /\ onPage' = FALSE
  /\ secrets' = UnmountQuery(secrets)
  /\ versions' = UnmountQuery(versions)
  /\ row' = [k \in Key |-> FreshRow]
  /\ dialog' = NoDialog
  /\ writes' = [w \in Write |->
       [writes[w] EXCEPT !.page = FALSE, !.here = FALSE, !.pending = FALSE, !.awaits = FALSE]]
  /\ UNCHANGED << store, said >>

ReturnToSecrets ==
  /\ ~onPage
  /\ onPage' = TRUE
  /\ \E aged \in BOOLEAN : secrets' = MountQuery(secrets, aged)
  /\ UNCHANGED << store, versions, row, dialog, writes, said >>

(* The palette, on this page or on the one that compares.                  *)
PrefetchSecrets ==
  /\ \E aged \in BOOLEAN : secrets' = FetchQuery(secrets, aged)
  /\ UNCHANGED << onPage, store, versions, row, dialog, writes, said >>

-----------------------------------------------------------------------------
RowActs(k) ==
  \/ StartEdit(k) \/ CancelEdit(k) \/ SaveEdit(k)
  \/ StartDelete(k) \/ CancelDelete(k) \/ ConfirmDelete(k)
  \/ AddSecret(k) \/ OpenHistory(k) \/ WriteElsewhere(k)

SecretPageNext ==
  \/ \E k \in Key : RowActs(k)
  \/ OpenAdd \/ CloseAdd
  \/ \E v \in 1..MaxVersion[FALSE] : SelectVersion(v)
  \/ StartRollback \/ CancelRollback \/ ConfirmRollback \/ CloseDrawer
  \/ SecretsFetched \/ VersionsFetched
  \/ LeaveSecrets \/ ReturnToSecrets \/ PrefetchSecrets
  \/ \E w \in Write : ServeSecretWrite(w) \/ WriteSucceeds(w) \/ WriteIsTold(w) \/ WriteFails(w)

SecretPageSpec == SecretPageInit /\ [][SecretPageNext]_secretVars

-----------------------------------------------------------------------------
(* Properties.                                                             *)

SecretPageTypeOK ==
  /\ onPage \in BOOLEAN
  /\ store \in Store
  /\ secrets \in QueryOf(Store) /\ versions \in QueryOf(Store)
  /\ row \in [Key -> [draft : Entry, confirm : Entry, busy : BOOLEAN]]
  /\ dialog \in [adding : BOOLEAN,
                 drawer : [key : Key \cup {NoKey}, selected : Nat, confirm : BOOLEAN,
                           busy : BOOLEAN]]
  /\ writes \in [Write ->
       [op : {"none", "save", "add", "delete", "rollback"}, key : Key \cup {NoKey},
        target : Nat, age : Int, step : {"sent", "done", "refreshing"},
        missed : SUBSET Queries, page : BOOLEAN, here : BOOLEAN, pending : BOOLEAN, awaits : BOOLEAN]]
  /\ said \in [Queries -> [Key -> Int]]

(* Both lists show what the operator was told: once settled, the table and *)
(* the open drawer hold every key as new as the last write announced,      *)
(* though other writes ran, the page was left and entered again, and the   *)
(* palette fetched the secrets meanwhile; except for a write whose         *)
(* invalidation of that query found a fetch under way that it did not      *)
(* replace, a first load or a fetch that nobody observed.                  *)
PageShowsWhatWasSaid ==
  \A k \in Key :
    /\ onPage /\ Settled(secrets) => Age(secrets.data[k]) >= said["secrets"][k]
    /\ DrawerOpen(dialog.drawer, secrets) /\ Settled(versions)
         => Age(versions.data[k]) >= said["versions"][k]

(* What is typed over is what the table shows, whoever wrote it meanwhile, *)
(* also where an own key takes the place and the version of an inherited   *)
(* one; and the version of a row whose deletion is asked for has not       *)
(* changed since (EnvSecrets.tsx, 242-249; SecretRow.tsx, 48-54).          *)
RowsActOnWhatIsShown ==
  \A k \in Key :
    /\ row[k].draft # NoEntry => row[k].draft = Shown(secrets, k)
    /\ row[k].confirm # NoEntry => row[k].confirm.version = Shown(secrets, k).version
=============================================================================
