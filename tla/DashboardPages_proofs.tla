----------------------- MODULE DashboardPages_proofs ------------------------
(***************************************************************************)
(* Proofs about what holds queries of the library: ListPages, SecretPages  *)
(* and CommandPalette, for every number of rows, keys, projects and        *)
(* requests.                                                               *)
(***************************************************************************)
EXTENDS ListPages, SecretPages, CommandPalette, TLAPS

(***************************************************************************)
(* The queries.                                                            *)
(***************************************************************************)

(* The cached answer, and the one on its way, are good, unless the cached  *)
(* one was invalidated.  A query that is observed while stale is fetched,  *)
(* or has failed.                                                          *)
FreshQuery(q, observed, good) ==
  /\ q.data # NoData /\ ~q.stale => q.data \in good
  /\ q.fetch = "answered" => q.answer \in good
  /\ observed /\ q.stale /\ q.data # NoData => isFetching(q) \/ q.error

(* A query stays a query.                                                  *)

LEMMA QueryType ==
  ASSUME NEW S, NEW q \in QueryOf(S), NEW s \in S, NEW b \in BOOLEAN
  PROVE  /\ EmptyQuery \in QueryOf(S)
         /\ Refetch(q) \in QueryOf(S)
         /\ MountQuery(q, b) \in QueryOf(S)
         /\ FetchQuery(q, b) \in QueryOf(S)
         /\ UnmountQuery(q) \in QueryOf(S)
         /\ Invalidate(q, b) \in QueryOf(S)
         /\ AnswerQuery(q, s) \in QueryOf(S)
         /\ LandQuery(q) \in QueryOf(S)
         /\ FailQuery(q) \in QueryOf(S)
<1>1. EmptyQuery \in QueryOf(S)
  BY DEF EmptyQuery, QueryOf
<1>2. ASSUME NEW p \in QueryOf(S) PROVE Refetch(p) \in QueryOf(S)
  BY <1>2 DEF Refetch, QueryOf
<1>3. MountQuery(q, b) \in QueryOf(S)
  BY <1>2 DEF MountQuery
<1>9. FetchQuery(q, b) \in QueryOf(S)
  BY <1>3 DEF FetchQuery
<1>4. UnmountQuery(q) \in QueryOf(S)
  BY DEF UnmountQuery, QueryOf
<1>5. Invalidate(q, b) \in QueryOf(S)
  <2> DEFINE m == [q EXCEPT !.stale = TRUE]
  <2>1. m \in QueryOf(S)
    BY DEF QueryOf
  <2> QED
    BY <1>2, <2>1 DEF Invalidate
<1>6. AnswerQuery(q, s) \in QueryOf(S)
  BY DEF AnswerQuery, QueryOf
<1>7. LandQuery(q) \in QueryOf(S)
  BY DEF LandQuery, QueryOf
<1>8. FailQuery(q) \in QueryOf(S)
  BY DEF FailQuery, QueryOf
<1> QED
  BY <1>1, <1>2, <1>3, <1>4, <1>5, <1>6, <1>7, <1>8, <1>9

LEMMA QueryMovesType ==
  ASSUME NEW S, NEW q \in QueryOf(S), NEW s \in S, NEW q2, NEW b \in BOOLEAN,
         QueryMoves(q, q2, s, b)
  PROVE  q2 \in QueryOf(S)
BY QueryType DEF QueryMoves

(* What the operations of a query do to its freshness.                     *)

LEMMA FreshGrows ==
  ASSUME NEW q, NEW m, NEW good, NEW good2, good \subseteq good2, FreshQuery(q, m, good)
  PROVE  FreshQuery(q, m, good2)
BY DEF FreshQuery

LEMMA FreshMoves ==
  ASSUME NEW S, NEW q \in QueryOf(S), NEW q2, NEW good, NEW s \in good, NEW m \in BOOLEAN,
         FreshQuery(q, m, good), QueryMoves(q, q2, s, m)
  PROVE  FreshQuery(q2, m, good)
<1>1. CASE q.fetch = "asked" /\ q2 = AnswerQuery(q, s)
  BY <1>1 DEF FreshQuery, AnswerQuery, QueryOf, isFetching
<1>2. CASE q.fetch = "answered" /\ q2 = LandQuery(q)
  BY <1>2 DEF FreshQuery, LandQuery, QueryOf, isFetching
<1>3. CASE isFetching(q) /\ q2 = FailQuery(q)
  BY <1>3 DEF FreshQuery, FailQuery, QueryOf, isFetching
<1>4. CASE m /\ ~isFetching(q) /\ q2 = Refetch(q)
  BY <1>4 DEF FreshQuery, Refetch, QueryOf, isFetching
<1>5. CASE ~m /\ ~isFetching(q) /\ q.data # NoData /\ q2 = EmptyQuery
  BY <1>5 DEF FreshQuery, EmptyQuery, isFetching
<1> QED
  BY <1>1, <1>2, <1>3, <1>4, <1>5 DEF QueryMoves

(* An invalidation that misses nothing leaves nothing that passes for      *)
(* fresh, whatever fresh means from then on.                               *)
LEMMA FreshInvalidate ==
  ASSUME NEW S, NEW q \in QueryOf(S), NEW m \in BOOLEAN, NEW good, ~Misses(q, m)
  PROVE  FreshQuery(Invalidate(q, m), m, good)
<1> DEFINE marked == [q EXCEPT !.stale = TRUE]
<1>1. /\ marked \in QueryOf(S) /\ marked.stale
      /\ marked.data = q.data /\ marked.fetch = q.fetch
  BY DEF QueryOf
<1> HIDE DEF marked
<1>2. CASE ~m
  <2>1. Invalidate(q, m) = marked
    BY <1>2 DEF Invalidate, marked
  <2> QED
    BY <1>1, <1>2, <2>1 DEF FreshQuery, Misses, isFetching
<1>3. CASE m
  <2>1. ~isLoading(q)
    BY <1>3 DEF Misses, isLoading
  <2>2. Invalidate(q, m) = Refetch(marked)
    BY <1>3, <2>1 DEF Invalidate, marked
  <2>3. Refetch(marked).stale /\ Refetch(marked).fetch = "asked"
    BY <1>1 DEF Refetch, QueryOf
  <2> QED
    BY <2>2, <2>3 DEF FreshQuery, isFetching
<1> QED
  BY <1>2, <1>3

(* One that does leaves what was fresh so, and what is cached cached.      *)
LEMMA FreshMissed ==
  ASSUME NEW S, NEW q \in QueryOf(S), NEW m \in BOOLEAN, NEW good, FreshQuery(q, m, good)
  PROVE  FreshQuery(Invalidate(q, m), m, good)
<1> DEFINE marked == [q EXCEPT !.stale = TRUE]
<1>1. /\ marked \in QueryOf(S) /\ marked.stale
      /\ marked.data = q.data /\ marked.fetch = q.fetch /\ marked.answer = q.answer
  BY DEF QueryOf
<1> HIDE DEF marked
<1>2. CASE ~m \/ isLoading(q)
  <2>1. Invalidate(q, m) = marked
    BY <1>2 DEF Invalidate, marked
  <2> QED
    BY <1>1, <1>2, <2>1 DEF FreshQuery, isLoading
<1>3. CASE ~(~m \/ isLoading(q))
  <2>1. Invalidate(q, m) = Refetch(marked)
    BY <1>3 DEF Invalidate, marked
  <2>2. Refetch(marked).stale /\ Refetch(marked).fetch = "asked"
    BY <1>1 DEF Refetch, QueryOf
  <2> QED
    BY <2>1, <2>2 DEF FreshQuery, isFetching
<1> QED
  BY <1>2, <1>3

LEMMA InvalidateKeeps ==
  ASSUME NEW S, NEW q \in QueryOf(S), NEW m \in BOOLEAN
  PROVE  Invalidate(q, m).data = q.data
BY DEF Invalidate, Refetch, QueryOf

(* Observed or not, a query that is mounted or fetched is as fresh as an   *)
(* observed one.                                                           *)
LEMMA FreshMount ==
  ASSUME NEW S, NEW q \in QueryOf(S), NEW good, NEW b \in BOOLEAN, NEW m, NEW m2,
         FreshQuery(q, m, good)
  PROVE  FreshQuery(MountQuery(q, b), m2, good)
<1>1. CASE MountQuery(q, b) = Refetch(q)
  BY <1>1 DEF FreshQuery, Refetch, QueryOf, isFetching
<1>2. CASE MountQuery(q, b) = q /\ (isFetching(q) \/ ~q.stale)
  BY <1>2 DEF FreshQuery
<1> QED
  BY <1>1, <1>2 DEF MountQuery

LEMMA FreshUnmount ==
  ASSUME NEW S, NEW q \in QueryOf(S), NEW good, NEW m, FreshQuery(q, m, good)
  PROVE  FreshQuery(UnmountQuery(q), FALSE, good)
BY DEF FreshQuery, UnmountQuery, QueryOf

(***************************************************************************)
(* The pages that list something.                                          *)
(***************************************************************************)

(* What is known of the changes under way: one that was carried out has a  *)
(* row, which is at least as new as the change left it; so is the row of   *)
(* every change announced.                                                 *)
ChangesKnown ==
  /\ \A i \in Request : changes[i].step # "sent" =>
       /\ changes[i].row \in Row
       /\ rows[changes[i].row].rev >= changes[i].rev
  /\ \A r \in Row : rows[r].rev >= told[r]

(* A removal asked for by the page on the screen keeps its dialog busy,     *)
(* and there is one; away from the page, no change is its own.             *)
Removals ==
  /\ OneRemovalAtATime
  /\ \A i \in Request : changes[i].op = "remove" /\ changes[i].here => page.busy
  /\ ~page.mounted => /\ page.confirm = NoRow /\ ~page.form
                      /\ \A i \in Request : ~changes[i].here

(* A snapshot with everything announced, or about to be, but for what the  *)
(* comment of ListShowsWhatWasTold excepts.                                *)
Shows(s, announced, c) ==
  /\ \A r \in Row : s[r].rev >= announced[r]
  /\ \A i \in Request : c[i].step = "refreshing" /\ ~c[i].missed =>
                            s[c[i].row].rev >= c[i].rev

(* The cached list, and the one on its way, are such snapshots.            *)
ShowingRows(announced, c) == {s \in Rows : Shows(s, announced, c)}

Fresh == FreshQuery(list, Observed, ShowingRows(told, changes))

ListInv == ListTypeOK /\ ChangesKnown /\ Removals /\ Fresh

-----------------------------------------------------------------------------
(* The changes under way, and one that a step leaves as it was, but for    *)
(* what the page makes of it.                                              *)
Changes == [Request ->
  [op : {"none", "create", "remove", "toggle"}, row : Row \cup {NoRow},
   rev : Nat, step : {"sent", "done", "refreshing"}, missed : BOOLEAN,
   here : BOOLEAN, pending : BOOLEAN, awaits : BOOLEAN]]

SameChange(i) ==
  /\ changes'[i].op = changes[i].op /\ changes'[i].row = changes[i].row
  /\ changes'[i].rev = changes[i].rev /\ changes'[i].step = changes[i].step
  /\ changes'[i].missed = changes[i].missed /\ changes'[i].here = changes[i].here

-----------------------------------------------------------------------------
(* Type correctness.                                                       *)

LEMMA ListTypeInit == ListInit => ListTypeOK
<1> SUFFICES ASSUME ListInit PROVE ListTypeOK
  OBVIOUS
<1>1. kind \in Kind /\ rows \in Rows
  BY ListAssumption DEF ListInit, Rows
<1>2. list \in QueryOf(Rows)
  <2>1. EmptyQuery \in QueryOf(Rows)
    BY DEF EmptyQuery, QueryOf
  <2>2. MountQuery(EmptyQuery, FALSE) \in QueryOf(Rows)
    BY <1>1, <2>1, QueryType
  <2> QED
    BY <2>2 DEF ListInit
<1>3. /\ page \in [mounted : BOOLEAN, form : BOOLEAN, plaintext : Row \cup {NoRow},
                   confirm : Row \cup {NoRow}, busy : BOOLEAN]
      /\ watched \in BOOLEAN /\ told \in [Row -> Nat]
  BY DEF ListInit, FreshPage
<1>4. changes \in Changes
  BY DEF ListInit, NoChange, Changes
<1> QED
  BY <1>1, <1>2, <1>3, <1>4 DEF ListTypeOK, Changes

(* Asking takes a free name; the other changes keep all but the button.    *)
LEMMA AskType ==
  ASSUME ListTypeOK, NEW op \in {"create", "remove", "toggle"},
         NEW r \in Row \cup {NoRow}, Ask(op, r)
  PROVE  /\ changes' \in Changes
         /\ \A j \in Request :
              \/ SameChange(j)
              \/ /\ changes'[j].op = op /\ changes'[j].step = "sent"
                 /\ changes[j].op = "none"
                 /\ \A k \in Request \ {j} : SameChange(k)
<1>1. PICK i \in Request :
        /\ changes[i].op = "none"
        /\ changes' = [j \in Request |->
             IF j = i THEN [op |-> op, row |-> r, rev |-> 0, step |-> "sent",
                            missed |-> FALSE, here |-> TRUE, pending |-> TRUE, awaits |-> FALSE]
             ELSE IF changes[j].op = op THEN [changes[j] EXCEPT !.pending = FALSE]
             ELSE changes[j]]
  BY DEF Ask
<1>2. changes \in Changes
  BY DEF ListTypeOK, Changes
<1> DEFINE Fields == [op : {"none", "create", "remove", "toggle"}, row : Row \cup {NoRow},
                      rev : Nat, step : {"sent", "done", "refreshing"}, missed : BOOLEAN,
                      here : BOOLEAN, pending : BOOLEAN, awaits : BOOLEAN]
<1>3. changes' \in Changes
  <2>1. [op |-> op, row |-> r, rev |-> 0, step |-> "sent",
         missed |-> FALSE, here |-> TRUE, pending |-> TRUE, awaits |-> FALSE] \in Fields
    OBVIOUS
  <2>2. ASSUME NEW j \in Request
        PROVE  changes[j] \in Fields /\ [changes[j] EXCEPT !.pending = FALSE] \in Fields
    <3>1. changes[j] \in Fields
      BY <1>2 DEF Changes
    <3> QED
      BY <3>1
  <2> HIDE DEF Fields
  <2>3. \A j \in Request : changes'[j] \in Fields
    BY <1>1, <2>1, <2>2
  <2>4. changes' \in [Request -> Fields]
    BY <1>1, <2>3
  <2> QED
    BY <2>4 DEF Changes, Fields
<1>4. \A j \in Request \ {i} : SameChange(j)
  BY <1>1, <1>2 DEF Changes, SameChange
<1>5. changes'[i].op = op /\ changes'[i].step = "sent"
  BY <1>1
<1> QED
  BY <1>1, <1>3, <1>4, <1>5

(* The rows only grow newer.                                               *)
LEMMA RowsGrow ==
  ASSUME ListTypeOK, NEW op, NEW r \in Row, ServerChange(op, r)
  PROVE  /\ rows' \in Rows
         /\ \A s \in Row : rows'[s].rev >= rows[s].rev
<1>1. rows \in Rows /\ rows[r].rev \in Nat /\ \A s \in Row : rows[s].rev \in Nat
  BY DEF ListTypeOK, Rows
<1>2. CASE UNCHANGED rows
  BY <1>1, <1>2
<1>3. CASE Change(r) \/ Delete(r)
  <2>1. PICK b \in BOOLEAN : rows' = [rows EXCEPT ![r] = [rev |-> @.rev + 1, live |-> b]]
    BY <1>3 DEF Change, Delete
  <2>2. [rev |-> rows[r].rev + 1, live |-> b] \in [rev : Nat, live : BOOLEAN]
    BY <1>1
  <2>3. rows' = [rows EXCEPT ![r] = [rev |-> rows[r].rev + 1, live |-> b]]
    BY <2>1
  <2>4. rows' \in Rows
    BY <1>1, <2>2, <2>3 DEF Rows
  <2>5. rows'[r].rev = rows[r].rev + 1 /\ \A s \in Row \ {r} : rows'[s] = rows[s]
    BY <1>1, <2>3 DEF Rows
  <2> QED
    BY <1>1, <2>4, <2>5
<1> QED
  BY <1>2, <1>3 DEF ServerChange

(* The steps that ask for a change, and those that touch the page alone.   *)
Asking ==
  \/ SubmitCreate
  \/ handleConfirm
  \/ \E r \in Row : ToggleWebhook(r)
PageOnly ==
  \/ OpenForm
  \/ CancelRemove
  \/ \E r \in Row : StartRemove(r)

LEMMA ListSteps ==
  ListNext =>
    \/ Asking \/ PageOnly \/ CloseForm
    \/ \E i \in Request : ServeChange(i)
    \/ \E i \in Request : ChangeSucceeds(i)
    \/ \E i \in Request : ChangeIsTold(i)
    \/ \E i \in Request : ChangeFails(i)
    \/ ChangeElsewhere \/ ListFetched \/ LeavePage \/ ReturnToPage
    \/ WatchList \/ UnwatchList \/ PrefetchEnvs
BY DEF ListNext, Asking, PageOnly

(* What each kind of step does to the pieces of the state.                 *)
PageRec == [mounted : BOOLEAN, form : BOOLEAN, plaintext : Row \cup {NoRow},
         confirm : Row \cup {NoRow}, busy : BOOLEAN]

LEMMA TypeParts ==
  ListTypeOK <=> /\ kind \in Kind
                 /\ rows \in Rows
                 /\ list \in QueryOf(Rows)
                 /\ page \in PageRec
                 /\ changes \in Changes
                 /\ watched \in BOOLEAN
                 /\ told \in [Row -> Nat]
BY DEF ListTypeOK, PageRec, Changes

LEMMA NoRowIsNone == NoRow \notin Row
BY ListAssumption DEF NoRow, Row

(* Asking leaves all but the changes and the busy flag as it was; the page *)
(* is on the screen, and a removal is asked for when it was not busy.      *)
LEMMA AskingDoes ==
  ASSUME ListInv, Asking
  PROVE  /\ UNCHANGED << kind, rows, list, watched, told >>
         /\ page.mounted
         /\ page' \in PageRec
         /\ page' = [page EXCEPT !.busy = page'.busy]
         /\ page.busy => page'.busy
         /\ changes' \in Changes
         /\ \A j \in Request :
              \/ SameChange(j)
              \/ /\ changes'[j].step = "sent" /\ changes[j].op = "none"
                 /\ changes'[j].op = "remove" => ~page.busy /\ page'.busy
                 /\ \A k \in Request \ {j} : SameChange(k)
<1> USE TypeParts DEF ListInv
<1>1. CASE SubmitCreate
  <2>1. /\ Ask("create", NoRow) /\ page.mounted
        /\ UNCHANGED << kind, rows, list, watched, page, told >>
    BY <1>1 DEF SubmitCreate, CreateProject, CreateEnv, CreateToken, CreateWebhook, SubmitForm
  <2> QED
    BY <2>1, AskType DEF PageRec
<1>2. CASE handleConfirm
  <2>1. /\ page.confirm \in Row /\ ~page.busy /\ Ask("remove", page.confirm)
        /\ page' = [page EXCEPT !.busy = TRUE]
        /\ UNCHANGED << kind, rows, list, watched, told >>
    BY <1>2 DEF handleConfirm, ConfirmRemove, PageRec
  <2>2. page.mounted
    BY <2>1, NoRowIsNone DEF Removals, PageRec
  <2> QED
    BY <2>1, <2>2, AskType DEF PageRec
<1>3. CASE \E r \in Row : ToggleWebhook(r)
  <2>1. PICK r \in Row : Ask("toggle", r) /\ page.mounted
                         /\ UNCHANGED << kind, rows, list, watched, page, told >>
    BY <1>3 DEF ToggleWebhook
  <2> QED
    BY <2>1, AskType DEF PageRec
<1> QED
  BY <1>1, <1>2, <1>3 DEF Asking

LEMMA PageOnlyDoes ==
  ASSUME ListInv, PageOnly
  PROVE  /\ UNCHANGED << kind, rows, list, watched, changes, told >>
         /\ page' \in PageRec
         /\ page'.mounted = page.mounted /\ page'.busy = page.busy
         /\ ~page.mounted => page'.confirm = NoRow /\ ~page'.form
<1>1. page \in PageRec /\ (~page.mounted => page.confirm = NoRow /\ ~page.form)
  BY TypeParts DEF ListInv, Removals
<1>2. CASE OpenForm
  BY <1>1, <1>2 DEF OpenForm, PageRec
<1>3. CASE CancelRemove
  BY <1>1, <1>3 DEF CancelRemove, PageRec
<1>4. CASE \E r \in Row : StartRemove(r)
  BY <1>1, <1>4 DEF StartRemove, PageRec
<1> QED
  BY <1>2, <1>3, <1>4 DEF PageOnly

LEMMA CloseFormDoes ==
  ASSUME ListInv, CloseForm
  PROVE  /\ UNCHANGED << kind, rows, list, watched, told >>
         /\ page' \in PageRec /\ changes' \in Changes
         /\ page'.mounted /\ page.mounted
         /\ page'.busy = page.busy
         /\ \A i \in Request : SameChange(i)
<1>1. page \in PageRec /\ changes \in Changes
  BY TypeParts DEF ListInv
<1>2. page' \in PageRec /\ page'.mounted /\ page.mounted /\ page'.busy = page.busy
  BY <1>1 DEF CloseForm, PageRec
<1>3. changes' = [i \in Request |->
         IF changes[i].op = "create" THEN [changes[i] EXCEPT !.pending = FALSE]
         ELSE changes[i]]
  BY DEF CloseForm
<1>4. \A i \in Request : SameChange(i)
  BY <1>1, <1>3 DEF Changes, SameChange
<1>5. changes' \in Changes
  BY <1>1, <1>3 DEF Changes
<1> QED
  BY <1>2, <1>4, <1>5 DEF CloseForm

LEMMA ServeChangeDoes ==
  ASSUME ListInv, NEW i \in Request, ServeChange(i)
  PROVE  /\ UNCHANGED << kind, list, watched, page, told >>
         /\ rows' \in Rows /\ changes' \in Changes
         /\ \A s \in Row : rows'[s].rev >= rows[s].rev
         /\ \A j \in Request \ {i} : SameChange(j)
         /\ changes[i].step = "sent"
         /\ changes'[i].op = changes[i].op /\ changes'[i].here = changes[i].here
         /\ changes'[i].step = "done"
         /\ changes'[i].row \in Row
         /\ rows'[changes'[i].row].rev = changes'[i].rev
<1>1. changes \in Changes
  BY TypeParts DEF ListInv
<1>2. PICK r \in Row :
        /\ ServerChange(changes[i].op, r)
        /\ changes' = [changes EXCEPT ![i] =
             [@ EXCEPT !.step = "done", !.row = r, !.rev = rows'[r].rev]]
  BY DEF ServeChange
<1>3. rows' \in Rows /\ \A s \in Row : rows'[s].rev >= rows[s].rev
  BY <1>2, RowsGrow DEF ListInv
<1> DEFINE n == rows'[r].rev
           c == [changes[i] EXCEPT !.step = "done", !.row = r, !.rev = n]
<1>4. n \in Nat
  BY <1>3 DEF Rows
<1>5. changes' = [changes EXCEPT ![i] = c]
  BY <1>2
<1> HIDE DEF n
<1>6. /\ changes' \in Changes /\ \A j \in Request \ {i} : SameChange(j)
      /\ changes'[i].op = changes[i].op /\ changes'[i].here = changes[i].here
      /\ changes'[i].step = "done" /\ changes'[i].row = r /\ changes'[i].rev = n
  BY <1>1, <1>4, <1>5 DEF Changes, SameChange
<1>7. rows'[changes'[i].row].rev = changes'[i].rev
  BY <1>6 DEF n
<1> QED
  BY <1>3, <1>6, <1>7 DEF ServeChange

LEMMA ChangeElsewhereDoes ==
  ASSUME ListInv, ChangeElsewhere
  PROVE  /\ UNCHANGED << kind, list, watched, page, changes, told >>
         /\ rows' \in Rows
         /\ \A s \in Row : rows'[s].rev >= rows[s].rev
<1>1. \E r \in Row : ServerChange("create", r) \/ ServerChange("remove", r)
  BY DEF ChangeElsewhere
<1> QED
  BY <1>1, RowsGrow DEF ListInv, ChangeElsewhere

LEMMA ChangeSucceedsDoes ==
  ASSUME ListInv, NEW i \in Request, ChangeSucceeds(i)
  PROVE  /\ UNCHANGED << kind, rows, watched, page, told >>
         /\ list' = Invalidate(list, Observed)
         /\ list' \in QueryOf(Rows) /\ changes' \in Changes
         /\ \A j \in Request \ {i} : SameChange(j)
         /\ changes[i].step = "done" /\ changes'[i].step = "refreshing"
         /\ changes'[i].missed = Misses(list, Observed)
         /\ changes'[i].op = changes[i].op /\ changes'[i].row = changes[i].row
         /\ changes'[i].rev = changes[i].rev /\ changes'[i].here = changes[i].here
<1>1. changes \in Changes /\ list \in QueryOf(Rows) /\ rows \in Rows /\ Observed \in BOOLEAN
  BY TypeParts DEF ListInv, PageRec, Observed
<1>2. list' = Invalidate(list, Observed)
  BY DEF ChangeSucceeds, InvalidateList
<1>3. list' \in QueryOf(Rows)
  BY <1>1, <1>2, QueryType
<1>4. PICK missed \in BOOLEAN :
       /\ missed = Misses(list, Observed)
       /\ changes' = [j \in Request |->
            IF j = i THEN [changes[i] EXCEPT !.step = "refreshing", !.missed = missed,
                                             !.awaits = Observed]
            ELSE [changes[j] EXCEPT !.awaits = missed /\ @]]
  BY DEF ChangeSucceeds, Misses
<1>5. changes' \in Changes
  <2> DEFINE C == [op : {"none", "create", "remove", "toggle"}, row : Row \cup {NoRow},
                   rev : Nat, step : {"sent", "done", "refreshing"}, missed : BOOLEAN,
                   here : BOOLEAN, pending : BOOLEAN, awaits : BOOLEAN]
  <2>1. ASSUME NEW c \in C
        PROVE  /\ [c EXCEPT !.step = "refreshing", !.missed = missed,
                            !.awaits = Observed] \in C
               /\ [c EXCEPT !.awaits = missed /\ @] \in C
    BY <1>1
  <2>2. Changes = [Request -> C]
    BY DEF Changes
  <2> HIDE DEF C
  <2>3. \A j \in Request : changes'[j] \in C
    BY <1>1, <1>4, <2>1, <2>2
  <2> QED
    BY <1>4, <2>2, <2>3
<1>6. \A j \in Request \ {i} : SameChange(j)
  BY <1>1, <1>4 DEF Changes, SameChange
<1>7. /\ changes'[i].step = "refreshing" /\ changes'[i].missed = missed
      /\ changes'[i].op = changes[i].op /\ changes'[i].row = changes[i].row
      /\ changes'[i].rev = changes[i].rev /\ changes'[i].here = changes[i].here
  BY <1>1, <1>4 DEF Changes
<1> QED
  BY <1>2, <1>3, <1>4, <1>5, <1>6, <1>7 DEF ChangeSucceeds

(* The end of a change, as the page sees it.                               *)
ChangeEnds(i) ==
  /\ page' \in PageRec /\ page'.mounted = page.mounted
  /\ page'.busy = page.busy \/ (changes[i].op = "remove" /\ changes[i].here)
  /\ ~page.mounted => page' = page
  /\ changes' \in Changes /\ changes'[i] = NoChange
  /\ \A j \in Request \ {i} : SameChange(j)

LEMMA EndIsTyped ==
  ASSUME ListInv, NEW i \in Request, changes' = [changes EXCEPT ![i] = NoChange]
  PROVE  /\ changes' \in Changes /\ changes'[i] = NoChange
         /\ \A j \in Request \ {i} : SameChange(j)
<1>1. changes \in Changes
  BY TypeParts DEF ListInv
<1>2. NoChange \in [op : {"none", "create", "remove", "toggle"}, row : Row \cup {NoRow},
        rev : Nat, step : {"sent", "done", "refreshing"}, missed : BOOLEAN,
        here : BOOLEAN, pending : BOOLEAN, awaits : BOOLEAN]
  BY DEF NoChange
<1> QED
  BY <1>1, <1>2 DEF Changes, SameChange

LEMMA ChangeIsToldDoes ==
  ASSUME ListInv, NEW i \in Request, ChangeIsTold(i)
  PROVE  /\ UNCHANGED << kind, rows, list, watched >>
         /\ changes[i].step = "refreshing"
         /\ ChangeEnds(i)
         /\ told' \in [Row -> Nat]
         /\ \A r \in Row : \/ told'[r] = told[r]
                           \/ /\ r = changes[i].row /\ ~changes[i].missed
                              /\ told'[r] = changes[i].rev
<1> DEFINE c == changes[i]
<1>1. changes \in Changes /\ page \in PageRec /\ told \in [Row -> Nat]
  BY TypeParts DEF ListInv
<1>2. c.step = "refreshing" /\ changes' = [changes EXCEPT ![i] = NoChange]
      /\ UNCHANGED << kind, rows, list, watched >>
  BY DEF ChangeIsTold
<1>3. c.row \in Row /\ c.rev \in Nat
  BY <1>1, <1>2 DEF ListInv, ChangesKnown, Changes
<1>4. c.here => page.mounted
  BY DEF ListInv, Removals
<1>5. \/ c.op = "create" /\ page' = (IF c.here THEN [page EXCEPT !.form = FALSE] ELSE page)
      \/ c.op = "create" /\ page' = (IF c.here THEN [page EXCEPT !.plaintext = c.row] ELSE page)
      \/ /\ c.op = "remove"
         /\ page' = (IF ~c.here THEN page
                     ELSE [page EXCEPT !.busy = FALSE, !.confirm = NoRow])
      \/ c.op = "toggle" /\ page' = page
  BY DEF ChangeIsTold, ProjectCreated, EnvCreated, TokenCreated, WebhookCreated, RemoveDone
<1>6. ChangeEnds(i)
  <2>1. /\ page' \in PageRec /\ page'.mounted = page.mounted
        /\ page'.busy = page.busy \/ (c.op = "remove" /\ c.here)
        /\ ~page.mounted => page' = page
    BY <1>1, <1>3, <1>4, <1>5 DEF PageRec
  <2> QED
    BY <1>2, <2>1, EndIsTyped DEF ChangeEnds
<1>7. CASE c.missed
  <2>1. told' = told
    BY <1>7 DEF ChangeIsTold
  <2> QED
    BY <1>1, <1>2, <1>6, <2>1
<1>8. CASE ~c.missed
  <2>1. PICK n \in {told[c.row], c.rev} : told' = [told EXCEPT ![c.row] = n]
    BY <1>8 DEF ChangeIsTold
  <2>2. n \in Nat
    BY <1>1, <1>3, <2>1
  <2> HIDE DEF c
  <2>3. told' \in [Row -> Nat]
    BY <1>1, <2>1, <2>2
  <2>4. \A r \in Row : told'[r] = told[r] \/ (r = c.row /\ told'[r] = c.rev)
    BY <1>1, <1>3, <2>1
  <2> QED
    BY <1>2, <1>6, <1>8, <2>3, <2>4 DEF c
<1> QED
  BY <1>7, <1>8

LEMMA ChangeFailsDoes ==
  ASSUME ListInv, NEW i \in Request, ChangeFails(i)
  PROVE  /\ UNCHANGED << kind, rows, list, watched, told >>
         /\ ChangeEnds(i)
<1> DEFINE c == changes[i]
<1>1. changes \in Changes /\ page \in PageRec
  BY TypeParts DEF ListInv
<1>2. UNCHANGED << kind, rows, list, watched, told >> /\ changes' = [changes EXCEPT ![i] = NoChange]
  BY DEF ChangeFails
<1>3. c.here => page.mounted
  BY DEF ListInv, Removals
<1>4. \/ c.op = "remove" /\ page' = (IF ~c.here THEN page
                         ELSE [page EXCEPT !.busy = FALSE, !.confirm = page.confirm])
      \/ page' = page
  BY DEF ChangeFails, RemoveDone
<1>5. /\ page' \in PageRec /\ page'.mounted = page.mounted
      /\ page'.busy = page.busy \/ (c.op = "remove" /\ c.here)
      /\ ~page.mounted => page' = page
  BY <1>1, <1>3, <1>4 DEF PageRec
<1> QED
  BY <1>2, <1>5, EndIsTyped DEF ChangeEnds

(* A page that is left, or a list that is nowhere on the screen any more.  *)
LEMMA LeavePageDoes ==
  ASSUME ListInv, LeavePage
  PROVE  /\ UNCHANGED << kind, rows, told >>
         /\ list' = UnmountQuery(list) /\ list' \in QueryOf(Rows)
         /\ watched' = FALSE
         /\ page' \in PageRec /\ page' = [FreshPage EXCEPT !.mounted = FALSE]
         /\ changes' \in Changes
         /\ \A i \in Request : /\ changes'[i].op = changes[i].op
                               /\ changes'[i].row = changes[i].row
                               /\ changes'[i].rev = changes[i].rev
                               /\ changes'[i].step = changes[i].step
                               /\ changes'[i].missed = changes[i].missed
                               /\ ~changes'[i].here
<1>1. changes \in Changes /\ rows \in Rows /\ list \in QueryOf(Rows)
  BY TypeParts DEF ListInv
<1>2. list' = UnmountQuery(list) /\ list' \in QueryOf(Rows)
  BY <1>1, QueryType DEF LeavePage
<1>3. page' = [FreshPage EXCEPT !.mounted = FALSE] /\ page' \in PageRec
  BY DEF LeavePage, FreshPage, PageRec
<1>4. changes' = [i \in Request |->
       [[changes[i] EXCEPT !.awaits = FALSE] EXCEPT !.here = FALSE, !.pending = FALSE]]
  BY DEF LeavePage, Unwatched
<1>5. \A i \in Request : /\ changes'[i].op = changes[i].op
                         /\ changes'[i].row = changes[i].row
                         /\ changes'[i].rev = changes[i].rev
                         /\ changes'[i].step = changes[i].step
                         /\ changes'[i].missed = changes[i].missed
                         /\ ~changes'[i].here
  BY <1>1, <1>4 DEF Changes
<1>6. changes' \in Changes
  BY <1>1, <1>4 DEF Changes
<1> QED
  BY <1>2, <1>3, <1>5, <1>6 DEF LeavePage

LEMMA UnwatchListDoes ==
  ASSUME ListInv, UnwatchList
  PROVE  /\ UNCHANGED << kind, rows, page, told >>
         /\ watched' = FALSE
         /\ list' = (IF page.mounted THEN list ELSE UnmountQuery(list))
         /\ list' \in QueryOf(Rows)
         /\ changes' \in Changes
         /\ \A i \in Request : SameChange(i)
<1>1. changes \in Changes /\ rows \in Rows /\ list \in QueryOf(Rows)
  BY TypeParts DEF ListInv
<1>2. list' = (IF page.mounted THEN list ELSE UnmountQuery(list)) /\ list' \in QueryOf(Rows)
  BY <1>1, QueryType DEF UnwatchList
<1>3. changes' = [i \in Request |->
       IF page.mounted THEN changes[i] ELSE [changes[i] EXCEPT !.awaits = FALSE]]
  BY DEF UnwatchList, Unwatched
<1>4. changes' \in Changes /\ \A i \in Request : SameChange(i)
  BY <1>1, <1>3 DEF Changes, SameChange
<1> QED
  BY <1>2, <1>4 DEF UnwatchList

(* The list is mounted, here or elsewhere, or fetched.                     *)
Mounting == ReturnToPage \/ WatchList \/ PrefetchEnvs

LEMMA MountingDoes ==
  ASSUME ListInv, Mounting
  PROVE  /\ UNCHANGED << kind, rows, changes, told >>
         /\ watched' \in BOOLEAN
         /\ page' \in PageRec
         /\ page' = page \/ (~page.mounted /\ page' = FreshPage)
         /\ \E aged \in BOOLEAN : list' = MountQuery(list, aged)
         /\ list' \in QueryOf(Rows)
<1>1. rows \in Rows /\ list \in QueryOf(Rows) /\ watched \in BOOLEAN /\ page \in PageRec
  BY TypeParts DEF ListInv
<1>2. FreshPage \in PageRec
  BY DEF FreshPage, PageRec
<1>3. \E aged \in BOOLEAN : list' = MountQuery(list, aged)
  BY DEF Mounting, ReturnToPage, WatchList, PrefetchEnvs, FetchQuery
<1>4. list' \in QueryOf(Rows)
  BY <1>1, <1>3, QueryType
<1>5. /\ UNCHANGED << kind, rows, changes, told >>
      /\ watched' \in BOOLEAN
      /\ page' = page \/ (~page.mounted /\ page' = FreshPage)
  BY <1>1 DEF Mounting, ReturnToPage, WatchList, PrefetchEnvs
<1> QED
  BY <1>1, <1>2, <1>3, <1>4, <1>5

LEMMA ListFetchedDoes ==
  ASSUME ListInv, ListFetched
  PROVE  /\ UNCHANGED << kind, rows, watched, page, changes, told >>
         /\ QueryMoves(list, list', rows, Observed)
         /\ list' \in QueryOf(Rows)
<1>1. rows \in Rows /\ list \in QueryOf(Rows) /\ Observed \in BOOLEAN
  BY TypeParts DEF ListInv, PageRec, Observed
<1>2. /\ UNCHANGED << kind, rows, watched, page, changes, told >>
      /\ QueryMoves(list, list', rows, Observed)
  BY DEF ListFetched
<1> QED
  BY <1>1, <1>2, QueryMovesType

LEMMA ListTypeNext == ListInv /\ ListNext => ListTypeOK'
<1> SUFFICES ASSUME ListInv, ListNext PROVE ListTypeOK'
  OBVIOUS
<1>1. ListTypeOK' <=> /\ kind' \in Kind
                      /\ rows' \in Rows
                      /\ list' \in QueryOf(Rows)
                      /\ page' \in PageRec
                      /\ changes' \in Changes
                      /\ watched' \in BOOLEAN
                      /\ told' \in [Row -> Nat]
  BY DEF ListTypeOK, PageRec, Changes
<1> USE TypeParts DEF ListInv
<1>2. CASE Asking
  BY <1>1, <1>2, AskingDoes
<1>3. CASE PageOnly
  BY <1>1, <1>3, PageOnlyDoes
<1>4. CASE CloseForm
  BY <1>1, <1>4, CloseFormDoes
<1>5. CASE \E i \in Request : ServeChange(i)
  BY <1>1, <1>5, ServeChangeDoes
<1>6. CASE \E i \in Request : ChangeSucceeds(i)
  BY <1>1, <1>6, ChangeSucceedsDoes
<1>7. CASE \E i \in Request : ChangeIsTold(i)
  BY <1>1, <1>7, ChangeIsToldDoes DEF ChangeEnds
<1>8. CASE \E i \in Request : ChangeFails(i)
  BY <1>1, <1>8, ChangeFailsDoes DEF ChangeEnds
<1>9. CASE ChangeElsewhere
  BY <1>1, <1>9, ChangeElsewhereDoes
<1>10. CASE ListFetched
  BY <1>1, <1>10, ListFetchedDoes
<1>11. CASE LeavePage
  BY <1>1, <1>11, LeavePageDoes
<1>12. CASE Mounting
  BY <1>1, <1>12, MountingDoes
<1>13. CASE UnwatchList
  BY <1>1, <1>13, UnwatchListDoes
<1> QED
  BY <1>2, <1>3, <1>4, <1>5, <1>6, <1>7, <1>8, <1>9, <1>10, <1>11, <1>12, <1>13,
     ListSteps DEF Mounting

-----------------------------------------------------------------------------
(* What is known of the changes.                                           *)

(* The values compared are numbers.                                        *)
LEMMA Numbers ==
  ASSUME ListTypeOK
  PROVE  /\ \A r \in Row : rows[r].rev \in Nat /\ told[r] \in Nat
         /\ \A i \in Request : changes[i].rev \in Nat
         /\ \A i \in Request : changes[i].row \in Row \cup {NoRow}
<1>1. rows \in Rows /\ changes \in Changes /\ told \in [Row -> Nat]
  BY TypeParts
<1> QED
  BY <1>1 DEF Rows, Changes

(* It is kept by a step that announces nothing and carries nothing out.    *)
LEMMA KnownKept ==
  ASSUME ListInv, ListTypeOK',
         \A r \in Row : rows'[r].rev >= rows[r].rev,
         told' = told,
         \A i \in Request : \/ changes'[i].step = "sent"
                            \/ /\ changes[i].step # "sent"
                               /\ changes'[i].row = changes[i].row
                               /\ changes'[i].rev = changes[i].rev
  PROVE  ChangesKnown'
<1>1. /\ \A r \in Row : rows[r].rev \in Nat /\ told[r] \in Nat
      /\ \A i \in Request : changes[i].rev \in Nat
  BY Numbers DEF ListInv
<1>2. \A r \in Row : rows'[r].rev \in Nat
  <2>1. rows' \in Rows
    BY DEF ListTypeOK
  <2> QED
    BY <2>1 DEF Rows
<1>3. ChangesKnown
  BY DEF ListInv
<1> QED
  BY <1>1, <1>2, <1>3 DEF ChangesKnown

LEMMA KnownNext == ListInv /\ ListNext => ChangesKnown'
<1> SUFFICES ASSUME ListInv, ListNext PROVE ChangesKnown'
  OBVIOUS
<1>1. ListTypeOK'
  BY ListTypeNext
<1>2. /\ \A r \in Row : rows[r].rev \in Nat /\ told[r] \in Nat
      /\ \A i \in Request : changes[i].rev \in Nat
  BY Numbers DEF ListInv
<1>3. CASE Asking
  BY <1>1, <1>2, <1>3, AskingDoes, KnownKept DEF SameChange
<1>4. CASE PageOnly
  BY <1>1, <1>2, <1>4, PageOnlyDoes, KnownKept
<1>5. CASE CloseForm
  BY <1>1, <1>2, <1>5, CloseFormDoes, KnownKept DEF SameChange
<1>6. CASE \E i \in Request : ServeChange(i)
  <2>1. PICK i \in Request : ServeChange(i)
    BY <1>6
  <2>2. \A r \in Row : rows'[r].rev \in Nat
    <3>1. rows' \in Rows
      BY <1>1 DEF ListTypeOK
    <3> QED
      BY <3>1 DEF Rows
  <2>3. \A r \in Row : rows'[r].rev >= rows[r].rev /\ told'[r] = told[r]
    BY <2>1, ServeChangeDoes
  <2>4. \A j \in Request \ {i} : SameChange(j)
    BY <2>1, ServeChangeDoes
  <2>5. /\ changes'[i].row \in Row
        /\ rows'[changes'[i].row].rev >= changes'[i].rev
    BY <2>1, <2>2, ServeChangeDoes
  <2>6. ChangesKnown
    BY DEF ListInv
  <2> QED
    BY <1>2, <2>2, <2>3, <2>4, <2>5, <2>6 DEF ChangesKnown, SameChange
<1>7. CASE \E i \in Request : ChangeSucceeds(i)
  <2>1. PICK i \in Request : ChangeSucceeds(i)
    BY <1>7
  <2>2. \A j \in Request : changes'[j].row = changes[j].row /\ changes'[j].rev = changes[j].rev
                           /\ (changes'[j].step # "sent" => changes[j].step # "sent")
    BY <2>1, ChangeSucceedsDoes DEF SameChange
  <2> QED
    BY <1>1, <1>2, <2>1, <2>2, ChangeSucceedsDoes, KnownKept
<1>8. CASE \E i \in Request : ChangeIsTold(i)
  <2>1. PICK i \in Request : ChangeIsTold(i)
    BY <1>8
  <2>2. /\ changes[i].step = "refreshing" /\ rows' = rows /\ ChangeEnds(i)
        /\ \A r \in Row : \/ told'[r] = told[r]
                          \/ r = changes[i].row /\ told'[r] = changes[i].rev
    BY <2>1, ChangeIsToldDoes
  <2>3. ChangesKnown
    BY DEF ListInv
  <2>4. \A r \in Row : rows'[r].rev >= told'[r]
    BY <1>2, <2>2, <2>3 DEF ChangesKnown
  <2>5. \A j \in Request : changes'[j].step # "sent" =>
          changes[j].step # "sent" /\ changes'[j].row = changes[j].row
            /\ changes'[j].rev = changes[j].rev
    BY <2>2 DEF ChangeEnds, SameChange, NoChange
  <2> QED
    BY <1>2, <2>2, <2>3, <2>4, <2>5 DEF ChangesKnown
<1>9. CASE \E i \in Request : ChangeFails(i)
  <2>1. PICK i \in Request : ChangeFails(i)
    BY <1>9
  <2>2. \A j \in Request : changes'[j].step # "sent" =>
          changes[j].step # "sent" /\ changes'[j].row = changes[j].row
            /\ changes'[j].rev = changes[j].rev
    BY <2>1, ChangeFailsDoes DEF ChangeEnds, SameChange, NoChange
  <2> QED
    BY <1>1, <1>2, <2>1, <2>2, ChangeFailsDoes, KnownKept
<1>10. CASE ChangeElsewhere
  BY <1>1, <1>2, <1>10, ChangeElsewhereDoes, KnownKept
<1>11. CASE ListFetched
  BY <1>1, <1>2, <1>11, ListFetchedDoes, KnownKept
<1>12. CASE LeavePage
  BY <1>1, <1>2, <1>12, LeavePageDoes, KnownKept
<1>13. CASE Mounting
  BY <1>1, <1>2, <1>13, MountingDoes, KnownKept
<1>14. CASE UnwatchList
  BY <1>1, <1>2, <1>14, UnwatchListDoes, KnownKept DEF SameChange
<1> QED
  BY <1>3, <1>4, <1>5, <1>6, <1>7, <1>8, <1>9, <1>10, <1>11, <1>12, <1>13, <1>14,
     ListSteps DEF Mounting

-----------------------------------------------------------------------------
(* One removal at a time.                                                  *)

LEMMA RemovalsNext == ListInv /\ ListNext => Removals'
<1> SUFFICES ASSUME ListInv, ListNext PROVE Removals'
  OBVIOUS
<1>1. Removals
  BY DEF ListInv
<1> USE DEF Removals, OneRemovalAtATime, SameChange
<1>3. CASE Asking
  <2>1. page' = [page EXCEPT !.busy = page'.busy] /\ page \in PageRec /\ page' \in PageRec
    BY <1>3, AskingDoes, TypeParts DEF ListInv
  <2>2. page'.mounted = page.mounted
    BY <2>1 DEF PageRec
  <2> QED
    BY <1>1, <1>3, <2>2, AskingDoes
<1>4. CASE PageOnly
  BY <1>1, <1>4, PageOnlyDoes
<1>5. CASE CloseForm
  BY <1>1, <1>5, CloseFormDoes
<1>6. CASE \E i \in Request : ServeChange(i)
  <2>1. PICK i \in Request : ServeChange(i)
    BY <1>6
  <2>2. /\ page' = page
        /\ \A j \in Request : changes'[j].op = changes[j].op /\ changes'[j].here = changes[j].here
    BY <2>1, ServeChangeDoes
  <2> QED
    BY <1>1, <2>2
<1>7. CASE \E i \in Request : ChangeSucceeds(i)
  <2>1. PICK i \in Request : ChangeSucceeds(i)
    BY <1>7
  <2>2. /\ page' = page
        /\ \A j \in Request : changes'[j].op = changes[j].op /\ changes'[j].here = changes[j].here
    BY <2>1, ChangeSucceedsDoes
  <2> QED
    BY <1>1, <2>2
<1>8. CASE \E i \in Request : ChangeEnds(i)
  <2>1. PICK i \in Request : ChangeEnds(i)
    BY <1>8
  <2>2. changes'[i].op = "none" /\ ~changes'[i].here
    BY <2>1 DEF ChangeEnds, NoChange
  <2>3. \A j \in Request \ {i} :
          changes'[j].op = changes[j].op /\ changes'[j].here = changes[j].here
    BY <2>1 DEF ChangeEnds
  <2>4. /\ page'.mounted = page.mounted
        /\ page'.busy = page.busy \/ (changes[i].op = "remove" /\ changes[i].here)
        /\ ~page.mounted => page' = page
    BY <2>1 DEF ChangeEnds
  <2> QED
    BY <1>1, <2>2, <2>3, <2>4
<1>9. CASE ChangeElsewhere
  BY <1>1, <1>9, ChangeElsewhereDoes
<1>10. CASE ListFetched
  BY <1>1, <1>10, ListFetchedDoes
<1>11. CASE LeavePage
  <2>1. page' = [FreshPage EXCEPT !.mounted = FALSE]
    BY <1>11, LeavePageDoes
  <2>2. page'.confirm = NoRow /\ ~page'.form
    BY <2>1 DEF FreshPage
  <2> QED
    BY <2>2, <1>11, LeavePageDoes
<1>12. CASE Mounting
  <2>1. page' = page \/ (~page.mounted /\ page'.mounted)
    BY <1>12, MountingDoes DEF FreshPage
  <2> QED
    BY <1>1, <2>1, <1>12, MountingDoes
<1>13. CASE UnwatchList
  BY <1>1, <1>13, UnwatchListDoes
<1> QED
  BY <1>3, <1>4, <1>5, <1>6, <1>7, <1>8, <1>9, <1>10, <1>11, <1>12, <1>13,
     ListSteps, ChangeIsToldDoes, ChangeFailsDoes DEF Mounting

-----------------------------------------------------------------------------
(* A settled list shows what was told.                                     *)

(* What is on the server shows everything.                                 *)
LEMMA RowsAreShown == ListInv => rows \in ShowingRows(told, changes)
BY DEF ListInv, ListTypeOK, ChangesKnown, Shows, ShowingRows

(* A snapshot shows no less when no change gets as far as the refetch.     *)
LEMMA ShowsKept ==
  ASSUME NEW announced, NEW c, NEW d,
         \A i \in Request : d[i].step = "refreshing" /\ ~d[i].missed =>
           /\ c[i].step = "refreshing" /\ ~c[i].missed
           /\ d[i].row = c[i].row /\ d[i].rev = c[i].rev
  PROVE  ShowingRows(announced, c) \subseteq ShowingRows(announced, d)
BY DEF Shows, ShowingRows

(* A step that leaves the list and its observers alone.                    *)
LEMMA FreshKept ==
  ASSUME ListInv, list' = list, Observed' = Observed, told' = told,
         \A i \in Request : changes'[i].step = "refreshing" =>
           /\ changes[i].step = "refreshing" /\ changes'[i].missed = changes[i].missed
           /\ changes'[i].row = changes[i].row /\ changes'[i].rev = changes[i].rev
  PROVE  Fresh'
<1>1. ShowingRows(told, changes) \subseteq ShowingRows(told', changes')
  BY ShowsKept
<1> QED
  BY <1>1, FreshGrows DEF ListInv, Fresh

LEMMA FreshNext == ListInv /\ ListNext => Fresh'
<1> SUFFICES ASSUME ListInv, ListNext PROVE Fresh'
  OBVIOUS
<1>1. Fresh /\ list \in QueryOf(Rows) /\ Observed \in BOOLEAN
  BY TypeParts DEF ListInv, PageRec, Observed
<1>3. CASE Asking
  <2>1. page' = [page EXCEPT !.busy = page'.busy] /\ page \in PageRec
    BY <1>3, AskingDoes, TypeParts DEF ListInv
  <2>2. Observed' = Observed
    BY <1>3, <2>1, AskingDoes DEF PageRec, Observed
  <2>3. \A i \in Request : changes'[i].step = "refreshing" => SameChange(i)
    BY <1>3, AskingDoes
  <2> QED
    BY <1>3, <2>2, <2>3, AskingDoes, FreshKept DEF SameChange
<1>4. CASE PageOnly
  BY <1>4, PageOnlyDoes, FreshKept DEF Observed
<1>5. CASE CloseForm
  BY <1>5, CloseFormDoes, FreshKept DEF SameChange, Observed
<1>6. CASE \E i \in Request : ServeChange(i)
  <2>1. PICK i \in Request : ServeChange(i)
    BY <1>6
  <2>2. /\ list' = list /\ Observed' = Observed /\ told' = told
        /\ \A j \in Request : changes'[j].step = "refreshing" => SameChange(j)
    BY <2>1, ServeChangeDoes DEF Observed
  <2> QED
    BY <2>2, FreshKept DEF SameChange
<1>7. CASE \E i \in Request : ChangeSucceeds(i)
  <2>1. PICK i \in Request : ChangeSucceeds(i)
    BY <1>7
  <2>2. /\ Observed' = Observed /\ list' = Invalidate(list, Observed) /\ told' = told
        /\ changes'[i].missed = Misses(list, Observed)
        /\ \A j \in Request \ {i} : SameChange(j)
    BY <2>1, ChangeSucceedsDoes DEF Observed
  <2>3. CASE Misses(list, Observed)
    <3>1. ShowingRows(told, changes) \subseteq ShowingRows(told', changes')
      BY <2>2, <2>3, ShowsKept DEF SameChange
    <3>2. FreshQuery(list', Observed, ShowingRows(told, changes))
      BY <1>1, <2>2, FreshMissed DEF Fresh
    <3>3. FreshQuery(list', Observed, ShowingRows(told', changes'))
      BY <3>1, <3>2, FreshGrows
    <3> QED
      BY <2>2, <3>3 DEF Fresh
  <2>4. CASE ~Misses(list, Observed)
    <3>1. FreshQuery(list', Observed, ShowingRows(told', changes'))
      BY <1>1, <2>2, <2>4, FreshInvalidate
    <3> QED
      BY <2>2, <3>1 DEF Fresh
  <2> QED
    BY <2>3, <2>4
<1>8. CASE \E i \in Request : ChangeIsTold(i)
  <2>1. PICK i \in Request : ChangeIsTold(i)
    BY <1>8
  <2>2. /\ list' = list /\ watched' = watched
        /\ changes[i].step = "refreshing" /\ ChangeEnds(i)
        /\ \A r \in Row : \/ told'[r] = told[r]
                          \/ /\ r = changes[i].row /\ ~changes[i].missed
                             /\ told'[r] = changes[i].rev
    BY <2>1, ChangeIsToldDoes
  <2>3. \A j \in Request : changes'[j].step = "refreshing" => SameChange(j)
    BY <2>2 DEF ChangeEnds, NoChange
  <2>4. ShowingRows(told, changes) \subseteq ShowingRows(told', changes')
    <3> SUFFICES ASSUME NEW s \in Rows, Shows(s, told, changes)
                 PROVE  Shows(s, told', changes')
      BY DEF ShowingRows
    <3> QED
      BY <2>2, <2>3 DEF Shows, SameChange
  <2>5. Observed' = Observed
    BY <2>2 DEF ChangeEnds, Observed
  <2> QED
    BY <1>1, <2>2, <2>4, <2>5, FreshGrows DEF Fresh
<1>9. CASE \E i \in Request : ChangeFails(i)
  <2>1. PICK i \in Request : ChangeFails(i)
    BY <1>9
  <2>2. /\ list' = list /\ told' = told /\ ChangeEnds(i) /\ watched' = watched
    BY <2>1, ChangeFailsDoes
  <2>3. \A j \in Request : changes'[j].step = "refreshing" => SameChange(j)
    BY <2>2 DEF ChangeEnds, NoChange
  <2> QED
    BY <2>2, <2>3, FreshKept DEF ChangeEnds, SameChange, Observed
<1>10. CASE ChangeElsewhere
  BY <1>10, ChangeElsewhereDoes, FreshKept DEF Observed
<1>11. CASE ListFetched
  <2>1. /\ Observed' = Observed /\ changes' = changes /\ told' = told
        /\ QueryMoves(list, list', rows, Observed)
    BY <1>11, ListFetchedDoes DEF Observed
  <2>2. FreshQuery(list', Observed, ShowingRows(told, changes))
    BY <1>1, <2>1, RowsAreShown, FreshMoves DEF Fresh
  <2> QED
    BY <2>1, <2>2 DEF Fresh
<1>12. CASE LeavePage
  <2>1. /\ list' = UnmountQuery(list) /\ ~Observed' /\ told' = told
        /\ \A i \in Request : /\ changes'[i].row = changes[i].row
                              /\ changes'[i].rev = changes[i].rev
                              /\ changes'[i].missed = changes[i].missed
                              /\ changes'[i].step = changes[i].step
    BY <1>12, LeavePageDoes DEF FreshPage, Observed
  <2>2. ShowingRows(told, changes) \subseteq ShowingRows(told', changes')
    BY <2>1, ShowsKept
  <2>3. FreshQuery(list', FALSE, ShowingRows(told, changes))
    BY <1>1, <2>1, FreshUnmount DEF Fresh
  <2>4. FreshQuery(list', FALSE, ShowingRows(told', changes'))
    BY <2>2, <2>3, FreshGrows
  <2> QED
    BY <2>1, <2>4 DEF Fresh, FreshQuery
<1>13. CASE Mounting
  <2>1. PICK aged \in BOOLEAN : list' = MountQuery(list, aged)
    BY <1>13, MountingDoes
  <2>2. changes' = changes /\ told' = told
    BY <1>13, MountingDoes
  <2>3. FreshQuery(list', Observed', ShowingRows(told, changes))
    BY <1>1, <2>1, FreshMount DEF Fresh
  <2> QED
    BY <2>2, <2>3 DEF Fresh
<1>14. CASE UnwatchList
  <2>1. /\ list' = (IF page.mounted THEN list ELSE UnmountQuery(list)) /\ told' = told
        /\ page' = page /\ ~watched' /\ \A i \in Request : SameChange(i)
    BY <1>14, UnwatchListDoes
  <2>2. CASE page.mounted
    BY <2>1, <2>2, FreshKept DEF Observed, SameChange
  <2>3. CASE ~page.mounted
    <3>1. ShowingRows(told, changes) \subseteq ShowingRows(told', changes')
      BY <2>1, ShowsKept DEF SameChange
    <3>2. FreshQuery(list', FALSE, ShowingRows(told, changes))
      BY <1>1, <2>1, <2>3, FreshUnmount DEF Fresh
    <3>3. FreshQuery(list', FALSE, ShowingRows(told', changes'))
      BY <3>1, <3>2, FreshGrows
    <3>4. ~Observed'
      BY <2>1, <2>3 DEF Observed
    <3> QED
      BY <3>3, <3>4 DEF Fresh, FreshQuery
  <2> QED
    BY <2>2, <2>3
<1> QED
  BY <1>3, <1>4, <1>5, <1>6, <1>7, <1>8, <1>9, <1>10, <1>11, <1>12, <1>13, <1>14,
     ListSteps DEF Mounting

-----------------------------------------------------------------------------
(* The invariant holds, and with it the properties.                        *)

LEMMA ListInvInit == ListInit => ListInv
<1> SUFFICES ASSUME ListInit PROVE ListInv
  OBVIOUS
<1>1. ListTypeOK
  BY ListTypeInit
<1>2. \A i \in Request : changes[i] = NoChange
  BY DEF ListInit
<1>3. \A i \in Request : changes[i].step = "sent" /\ changes[i].op = "none" /\ ~changes[i].here
  BY <1>2 DEF NoChange
<1>4. page = FreshPage /\ page.mounted
  BY DEF ListInit, FreshPage
<1>5. \A r \in Row : told[r] = 0
  BY DEF ListInit
<1>6. ChangesKnown
  BY <1>1, <1>3, <1>5, Numbers DEF ChangesKnown
<1>7. Removals
  BY <1>3, <1>4 DEF Removals, OneRemovalAtATime
<1>9. list.data = NoData /\ list.fetch = "asked"
  BY DEF ListInit, MountQuery, EmptyQuery, Refetch, isFetching
<1>10. Fresh
  BY <1>9 DEF Fresh, FreshQuery
<1> QED
  BY <1>1, <1>6, <1>7, <1>10 DEF ListInv

LEMMA ListInvStutter == ListInv /\ UNCHANGED listVars => ListInv'
<1> SUFFICES ASSUME ListInv, UNCHANGED listVars PROVE ListInv'
  OBVIOUS
<1> USE DEF listVars
<1>1. ListTypeOK'
  BY DEF ListInv, ListTypeOK
<1>2. ChangesKnown'
  BY DEF ListInv, ChangesKnown
<1>3. Removals'
  BY DEF ListInv, Removals, OneRemovalAtATime
<1>4. Fresh'
  BY FreshKept DEF Observed
<1> QED
  BY <1>1, <1>2, <1>3, <1>4 DEF ListInv

LEMMA ListInvNext == ListInv /\ [ListNext]_listVars => ListInv'
BY ListInvStutter, ListTypeNext, KnownNext, RemovalsNext, FreshNext DEF ListInv

(* The inductive invariant of the pages that list something.               *)
THEOREM ListInvariant == ListSpec => []ListInv
<1>1. ListInit => ListInv
  BY ListInvInit
<1>2. ListInv /\ [ListNext]_listVars => ListInv'
  BY ListInvNext
<1> QED
  BY <1>1, <1>2, PTL DEF ListSpec

(* The pages, the rows, the query and the changes keep their types.        *)
THEOREM ListTypeCorrect == ListSpec => []ListTypeOK
<1>1. ListInv => ListTypeOK
  BY DEF ListInv
<1> QED
  BY <1>1, ListInvariant, PTL

(* A settled list shows every change at least as new as the one that was   *)
(* announced, however many changes, observers and prefetches overlap; but  *)
(* for the changes whose invalidation found a fetch it did not replace.    *)
THEOREM ToldIsShown == ListSpec => []ListShowsWhatWasTold
<1>1. ListInv => ListShowsWhatWasTold
  <2> SUFFICES ASSUME ListInv, page.mounted, Settled(list)
               PROVE  \A r \in Row : list.data[r].rev >= told[r]
    BY DEF ListShowsWhatWasTold
  <2>1. list \in QueryOf(Rows) /\ Fresh
    BY DEF ListInv, ListTypeOK
  <2>2. ~list.stale
    BY <2>1 DEF Fresh, FreshQuery, Settled, QueryOf, Observed
  <2> QED
    BY <2>1, <2>2 DEF Fresh, FreshQuery, Settled, Shows, ShowingRows
<1> QED
  BY <1>1, ListInvariant, PTL

(* A page removes one row at a time.                                       *)
THEOREM RemovalsAreSingle == ListSpec => []OneRemovalAtATime
<1>1. ListInv => OneRemovalAtATime
  BY DEF ListInv, Removals
<1> QED
  BY <1>1, ListInvariant, PTL

(***************************************************************************)
(* The page of an environment's secrets.                                   *)
(***************************************************************************)

(* A snapshot that, as query q shows it, is as new as what the operator    *)
(* was told, or is about to be.                                            *)
ShowsWrites(s, q, announced, asked) ==
  /\ \A k \in Key : Age(s[k]) >= announced[q][k]
  /\ \A w \in Write : asked[w].step = "refreshing" /\ q \notin asked[w].missed =>
                          Age(s[asked[w].key]) >= asked[w].age

Good(q, announced, asked) == {s \in Store : ShowsWrites(s, q, announced, asked)}

(* The server holds every write it carried out, and all that was told.     *)
WritesKnown ==
  /\ \A w \in Write :
       /\ writes[w].op # "none" => writes[w].key \in Key
       /\ writes[w].step # "sent" =>
            writes[w].op # "none" /\ Age(store[writes[w].key]) >= writes[w].age
  /\ \A q \in Queries : \A k \in Key : Age(store[k]) >= said[q][k]

SecretPageInv ==
  /\ SecretPageTypeOK /\ WritesKnown /\ RowsActOnWhatIsShown
  /\ FreshQuery(secrets, onPage, Good("secrets", said, writes))
  /\ FreshQuery(versions, DrawerOpen(dialog.drawer, secrets), Good("versions", said, writes))

LEMMA QueryNames == "secrets" \in Queries /\ "versions" \in Queries
BY DEF Queries

-----------------------------------------------------------------------------
(* The parts of the state.                                                 *)

RowRec   == [draft : Entry, confirm : Entry, busy : BOOLEAN]
Drawer   == [key : Key \cup {NoKey}, selected : Nat, confirm : BOOLEAN, busy : BOOLEAN]
Dialog   == [adding : BOOLEAN, drawer : Drawer]
WriteRec ==
  [op : {"none", "save", "add", "delete", "rollback"}, key : Key \cup {NoKey},
   target : Nat, age : Int, step : {"sent", "done", "refreshing"},
   missed : SUBSET Queries, page : BOOLEAN, here : BOOLEAN, pending : BOOLEAN, awaits : BOOLEAN]

LEMMA SecretParts ==
  SecretPageTypeOK <=>
    /\ onPage \in BOOLEAN
    /\ store \in Store /\ secrets \in QueryOf(Store) /\ versions \in QueryOf(Store)
    /\ row \in [Key -> RowRec] /\ dialog \in Dialog
    /\ onPage \in BOOLEAN
      /\ writes \in [Write -> WriteRec] /\ said \in [Queries -> [Key -> Int]]
BY DEF SecretPageTypeOK, RowRec, Drawer, Dialog, WriteRec

LEMMA ShownIsEntry ==
  ASSUME NEW q \in QueryOf(Store), NEW k \in Key
  PROVE  Shown(q, k) \in Entry /\ NoEntry \in Entry
<1>1. NoEntry \in Entry
  BY DEF NoEntry, Entry
<1>2. ASSUME NEW s \in [version : Nat, live : BOOLEAN, inherited : BOOLEAN]
      PROVE  Resolved(s) \in Entry
  BY <1>1, <1>2 DEF Resolved, Entry
<1>3. CASE q.data # NoData
  <2>1. q.data \in Store
    BY <1>3 DEF QueryOf
  <2>2. q.data[k] \in [version : Nat, live : BOOLEAN, inherited : BOOLEAN]
    BY <2>1 DEF Store
  <2> QED
    BY <1>1, <1>2, <1>3, <2>2 DEF Shown
<1> QED
  BY <1>1, <1>3 DEF Shown

(* What is shown depends on the cached answer alone.                       *)
LEMMA ShownByData ==
  ASSUME NEW q, NEW p, q.data = p.data, NEW d, NEW e, d.key = e.key
  PROVE  /\ \A k : Shown(q, k) = Shown(p, k)
         /\ DrawerOpen(d, q) <=> DrawerOpen(e, p)
         /\ DrawerOpen(d, q) \in BOOLEAN
<1>1. \A k : Shown(q, k) = Shown(p, k)
  BY DEF Shown
<1> QED
  BY <1>1 DEF DrawerOpen

(* A write ages its key.                                                   *)
LEMMA Ages ==
  ASSUME NEW s \in [version : Nat, live : BOOLEAN, inherited : BOOLEAN]
  PROVE  /\ Age(s) \in Int
         /\ Put(s) \in [version : Nat, live : BOOLEAN, inherited : BOOLEAN]
         /\ SoftDelete(s) \in [version : Nat, live : BOOLEAN, inherited : BOOLEAN]
         /\ Age(Put(s)) >= Age(s)
         /\ Age(SoftDelete(s)) >= Age(s)
<1>1. s.version \in Nat /\ s.live \in BOOLEAN /\ s.inherited \in BOOLEAN
  OBVIOUS
<1>2. /\ Put(s) \in [version : Nat, live : BOOLEAN, inherited : BOOLEAN]
      /\ Put(s).version = s.version + 1 /\ Put(s).live
  <2>1. PICK n \in Nat : n = s.version + 1
    BY <1>1
  <2>2. Put(s) = [s EXCEPT !.version = n, !.live = TRUE]
    BY <2>1 DEF Put
  <2> QED
    BY <1>1, <2>1, <2>2
<1>3. /\ SoftDelete(s) \in [version : Nat, live : BOOLEAN, inherited : BOOLEAN]
      /\ SoftDelete(s).version = s.version /\ ~SoftDelete(s).live
  BY <1>1 DEF SoftDelete
<1> QED
  BY <1>1, <1>2, <1>3 DEF Age

(* A write that goes no further than it was, is forgotten, or is sent.     *)
WriteMove(c, d) ==
  \/ d.op = c.op /\ d.key = c.key /\ d.age = c.age /\ d.step = c.step /\ d.missed = c.missed
  \/ d.step = "sent" /\ (d.op = "none" \/ d.key \in Key)

LEMMA GoodGrows ==
  ASSUME NEW t, NEW a, NEW b, \A w \in Write : WriteMove(a[w], b[w]), NEW q
  PROVE  Good(q, t, a) \subseteq Good(q, t, b)
BY DEF Good, ShowsWrites, WriteMove

LEMMA StoreIsGood ==
  ASSUME SecretPageInv, NEW q \in Queries
  PROVE  store \in Good(q, said, writes)
BY DEF SecretPageInv, SecretPageTypeOK, WritesKnown, Good, ShowsWrites

LEMMA WritesKept ==
  ASSUME WritesKnown, store' = store, said' = said,
         \A w \in Write : WriteMove(writes[w], writes'[w])
  PROVE  WritesKnown'
BY DEF WritesKnown, WriteMove

(* Send takes a free name.                                                 *)
LEMMA SendMoves ==
  ASSUME SecretPageTypeOK, NEW op \in {"save", "add", "delete", "rollback"}, NEW k \in Key,
         NEW target \in Nat, Send(op, k, target)
  PROVE  /\ writes' \in [Write -> WriteRec]
         /\ \A w \in Write : WriteMove(writes[w], writes'[w])
<1> DEFINE c == [op |-> op, key |-> k, target |-> target, age |-> 0, step |-> "sent",
                 missed |-> {}, page |-> TRUE, here |-> TRUE, pending |-> TRUE, awaits |-> FALSE]
<1>1. PICK w \in Write : writes' = [writes EXCEPT ![w] = c]
  BY DEF Send
<1>2. c \in WriteRec /\ c.step = "sent" /\ c.key \in Key
  BY DEF WriteRec
<1> HIDE DEF c
<1>3. writes \in [Write -> WriteRec]
  BY SecretParts
<1> QED
  BY <1>1, <1>2, <1>3 DEF WriteMove

LEMMA DetachedMoves ==
  ASSUME SecretPageTypeOK, NEW S
  PROVE  /\ Detached(S) \in [Write -> WriteRec]
         /\ \A w \in Write : /\ Detached(S)[w].op = writes[w].op
                             /\ Detached(S)[w].key = writes[w].key
                             /\ Detached(S)[w].age = writes[w].age
                             /\ Detached(S)[w].step = writes[w].step
                             /\ Detached(S)[w].missed = writes[w].missed
<1> SUFFICES ASSUME NEW w \in Write
             PROVE  /\ Detached(S)[w] \in WriteRec
                    /\ Detached(S)[w].op = writes[w].op
                    /\ Detached(S)[w].key = writes[w].key
                    /\ Detached(S)[w].age = writes[w].age
                    /\ Detached(S)[w].step = writes[w].step
                    /\ Detached(S)[w].missed = writes[w].missed
  BY DEF Detached
<1>1. writes[w] \in WriteRec
  BY SecretParts
<1>2. CASE w \in S
  <2>1. Detached(S)[w] = [writes[w] EXCEPT !.here = FALSE, !.pending = FALSE]
    BY <1>2 DEF Detached
  <2> QED
    BY <1>1, <2>1 DEF WriteRec
<1>3. CASE w \notin S
  BY <1>1, <1>3 DEF Detached
<1> QED
  BY <1>2, <1>3

-----------------------------------------------------------------------------
(* Steps that leave the server, the queries and what was told alone, and   *)
(* the key of the drawer; no write advances.                               *)

CalmStep ==
  /\ UNCHANGED << onPage, store, secrets, versions, said >>
  /\ row' \in [Key -> RowRec]
  /\ \A k \in Key :
       /\ row'[k].draft # NoEntry => row'[k].draft = Shown(secrets, k)
       /\ row'[k].confirm # NoEntry => row'[k].confirm.version = Shown(secrets, k).version
  /\ dialog' \in Dialog /\ dialog'.drawer.key = dialog.drawer.key
  /\ writes' \in [Write -> WriteRec]
  /\ \A w \in Write : WriteMove(writes[w], writes'[w])

LEMMA CalmKeeps ==
  ASSUME SecretPageInv, CalmStep
  PROVE  SecretPageInv'
<1>1. SecretPageTypeOK'
  <2>1. /\ store \in Store /\ secrets \in QueryOf(Store) /\ versions \in QueryOf(Store)
        /\ said \in [Queries -> [Key -> Int]] /\ onPage \in BOOLEAN
    BY SecretParts DEF SecretPageInv
  <2> QED
    BY <2>1 DEF CalmStep, SecretPageTypeOK, RowRec, Drawer, Dialog, WriteRec
<1>2. WritesKnown'
  BY WritesKept DEF SecretPageInv, CalmStep
<1>3. RowsActOnWhatIsShown'
  BY DEF CalmStep, RowsActOnWhatIsShown
<1>4. \A q \in Queries : Good(q, said, writes) \subseteq Good(q, said', writes')
  BY GoodGrows DEF CalmStep
<1>5. FreshQuery(secrets', onPage', Good("secrets", said', writes'))
  BY <1>4, FreshGrows, QueryNames DEF SecretPageInv, CalmStep
<1>6. DrawerOpen(dialog'.drawer, secrets') <=> DrawerOpen(dialog.drawer, secrets)
  BY ShownByData DEF CalmStep
<1>7. FreshQuery(versions', DrawerOpen(dialog.drawer, secrets), Good("versions", said', writes'))
  BY <1>4, FreshGrows, QueryNames DEF SecretPageInv, CalmStep
<1>8. FreshQuery(versions', DrawerOpen(dialog'.drawer, secrets'), Good("versions", said', writes'))
  BY <1>6, <1>7 DEF FreshQuery
<1> QED
  BY <1>1, <1>2, <1>3, <1>5, <1>8 DEF SecretPageInv

(* Of which only the rows move, only the writes, or only the dialogs.      *)
LEMMA CalmRow ==
  ASSUME SecretPageInv, NEW k \in Key, NEW r \in RowRec,
         UNCHANGED << onPage, store, secrets, versions, dialog, writes, said >>,
         row' = [row EXCEPT ![k] = r],
         r.draft # NoEntry => r.draft = Shown(secrets, k),
         r.confirm # NoEntry => r.confirm.version = Shown(secrets, k).version
  PROVE  CalmStep
<1>1. /\ row \in [Key -> RowRec] /\ dialog \in Dialog /\ writes \in [Write -> WriteRec]
      /\ RowsActOnWhatIsShown
  BY SecretParts DEF SecretPageInv
<1>2. /\ row' \in [Key -> RowRec]
      /\ \A j \in Key :
           /\ row'[j].draft # NoEntry => row'[j].draft = Shown(secrets, j)
           /\ row'[j].confirm # NoEntry => row'[j].confirm.version = Shown(secrets, j).version
  BY <1>1 DEF RowsActOnWhatIsShown
<1>3. \A w \in Write : WriteMove(writes[w], writes'[w])
  BY DEF WriteMove
<1> QED
  BY <1>1, <1>2, <1>3 DEF CalmStep

LEMMA CalmWrites ==
  ASSUME SecretPageInv, UNCHANGED << onPage, store, secrets, versions, row, said >>,
         dialog' \in Dialog, dialog'.drawer.key = dialog.drawer.key,
         writes' \in [Write -> WriteRec],
         \A w \in Write : WriteMove(writes[w], writes'[w])
  PROVE  CalmStep
<1>1. row \in [Key -> RowRec] /\ RowsActOnWhatIsShown
  BY SecretParts DEF SecretPageInv
<1> QED
  BY <1>1 DEF CalmStep, RowsActOnWhatIsShown

LEMMA CalmDialog ==
  ASSUME SecretPageInv, UNCHANGED << onPage, store, secrets, versions, row, writes, said >>,
         dialog' \in Dialog, dialog'.drawer.key = dialog.drawer.key
  PROVE  CalmStep
<1>1. writes \in [Write -> WriteRec]
  BY SecretParts DEF SecretPageInv
<1>2. \A w \in Write : WriteMove(writes[w], writes'[w])
  BY DEF WriteMove
<1> QED
  BY <1>1, <1>2, CalmWrites

(* What a row has open is of what it shows.                                *)
LEMMA RowShows ==
  ASSUME SecretPageInv, NEW k \in Key
  PROVE  /\ row[k] \in RowRec /\ row \in [Key -> RowRec]
         /\ row[k].draft # NoEntry => row[k].draft = Shown(secrets, k)
         /\ row[k].confirm # NoEntry => row[k].confirm.version = Shown(secrets, k).version
         /\ Shown(secrets, k) \in Entry /\ NoEntry \in Entry
<1>1. row \in [Key -> RowRec] /\ secrets \in QueryOf(Store)
  BY SecretParts DEF SecretPageInv
<1> QED
  BY <1>1, ShownIsEntry DEF SecretPageInv, RowsActOnWhatIsShown

LEMMA RowStep ==
  ASSUME SecretPageInv, NEW k \in Key,
         StartEdit(k) \/ CancelEdit(k) \/ StartDelete(k) \/ CancelDelete(k)
  PROVE  SecretPageInv'
<1>1. CASE StartEdit(k)
  <2> DEFINE r == [row[k] EXCEPT !.draft = Shown(secrets, k)]
  <2>1. row' = [row EXCEPT ![k] = r]
    BY <1>1 DEF StartEdit
  <2>2. r \in RowRec /\ r.draft = Shown(secrets, k) /\ r.confirm = row[k].confirm
    BY RowShows DEF RowRec
  <2>3. CalmStep
    BY <1>1, <2>1, <2>2, RowShows, CalmRow DEF StartEdit
  <2> QED
    BY <2>3, CalmKeeps
<1>2. CASE CancelEdit(k)
  <2> DEFINE r == [row[k] EXCEPT !.draft = NoEntry]
  <2>1. row' = [row EXCEPT ![k] = r]
    BY <1>2 DEF CancelEdit
  <2>2. r \in RowRec /\ r.draft = NoEntry /\ r.confirm = row[k].confirm
    BY RowShows DEF RowRec
  <2>3. CalmStep
    BY <1>2, <2>1, <2>2, RowShows, CalmRow DEF CancelEdit
  <2> QED
    BY <2>3, CalmKeeps
<1>3. CASE StartDelete(k)
  <2> DEFINE r == [row[k] EXCEPT !.confirm = Shown(secrets, k)]
  <2>1. row' = [row EXCEPT ![k] = r]
    BY <1>3 DEF StartDelete
  <2>2. r \in RowRec /\ r.confirm = Shown(secrets, k) /\ r.draft = row[k].draft
    BY RowShows DEF RowRec
  <2>3. CalmStep
    BY <1>3, <2>1, <2>2, RowShows, CalmRow DEF StartDelete
  <2> QED
    BY <2>3, CalmKeeps
<1>4. CASE CancelDelete(k)
  <2> DEFINE r == [row[k] EXCEPT !.confirm = NoEntry]
  <2>1. row' = [row EXCEPT ![k] = r]
    BY <1>4 DEF CancelDelete
  <2>2. r \in RowRec /\ r.confirm = NoEntry /\ r.draft = row[k].draft
    BY RowShows DEF RowRec
  <2>3. CalmStep
    BY <1>4, <2>1, <2>2, RowShows, CalmRow DEF CancelDelete
  <2> QED
    BY <2>3, CalmKeeps
<1> QED
  BY <1>1, <1>2, <1>3, <1>4

(* A request is sent.                                                      *)
LEMMA SendStep ==
  ASSUME SecretPageInv
  PROVE  /\ \A k \in Key : SaveEdit(k) \/ ConfirmDelete(k) \/ AddSecret(k) => SecretPageInv'
         /\ ConfirmRollback => SecretPageInv'
<1>1. SecretPageTypeOK /\ dialog \in Dialog /\ dialog.drawer \in Drawer
  BY SecretParts DEF SecretPageInv, Dialog
<1>2. ASSUME NEW k \in Key, SaveEdit(k) PROVE SecretPageInv'
  BY <1>1, <1>2, SendMoves, CalmWrites, CalmKeeps DEF SaveEdit
<1>3. ASSUME NEW k \in Key, AddSecret(k) PROVE SecretPageInv'
  BY <1>1, <1>3, SendMoves, CalmWrites, CalmKeeps DEF AddSecret
<1>4. ASSUME NEW k \in Key, ConfirmDelete(k) PROVE SecretPageInv'
  <2> DEFINE r == [row[k] EXCEPT !.busy = TRUE]
  <2>1. row' = [row EXCEPT ![k] = r]
    BY <1>4 DEF ConfirmDelete
  <2>2. r \in RowRec /\ r.confirm = row[k].confirm /\ r.draft = row[k].draft
    BY RowShows DEF RowRec
  <2> HIDE DEF r
  <2>3. row' \in [Key -> RowRec]
    BY <2>1, <2>2, RowShows
  <2>4. \A j \in Key :
          /\ row'[j].draft # NoEntry => row'[j].draft = Shown(secrets, j)
          /\ row'[j].confirm # NoEntry => row'[j].confirm.version = Shown(secrets, j).version
    BY <2>1, <2>2, RowShows
  <2>5. /\ writes' \in [Write -> WriteRec]
        /\ \A w \in Write : WriteMove(writes[w], writes'[w])
    BY <1>1, <1>4, SendMoves DEF ConfirmDelete
  <2>6. CalmStep
    BY <1>1, <1>4, <2>3, <2>4, <2>5 DEF CalmStep, ConfirmDelete
  <2> QED
    BY <2>6, CalmKeeps
<1>5. ASSUME ConfirmRollback PROVE SecretPageInv'
  <2>1. /\ dialog.drawer.key \in Key /\ dialog.drawer.selected \in Nat
        /\ dialog' = [dialog EXCEPT !.drawer = [dialog.drawer EXCEPT !.busy = TRUE]]
        /\ Send("rollback", dialog.drawer.key, dialog.drawer.selected)
        /\ UNCHANGED << onPage, store, secrets, versions, row, said >>
    BY <1>1, <1>5 DEF ConfirmRollback, DrawerOpen, Drawer
  <2>2. dialog' \in Dialog /\ dialog'.drawer.key = dialog.drawer.key
    BY <1>1, <2>1 DEF Dialog, Drawer
  <2>3. /\ writes' \in [Write -> WriteRec]
        /\ \A w \in Write : WriteMove(writes[w], writes'[w])
    BY <1>1, <2>1, SendMoves
  <2> QED
    BY <2>1, <2>2, <2>3, CalmWrites, CalmKeeps
<1> QED
  BY <1>2, <1>3, <1>4, <1>5

(* The dialogs.                                                            *)
LEMMA DialogStep ==
  ASSUME SecretPageInv,
         \/ OpenAdd \/ CloseAdd \/ StartRollback \/ CancelRollback
         \/ \E v \in 1..MaxVersion[FALSE] : SelectVersion(v)
  PROVE  SecretPageInv'
<1>1. /\ SecretPageTypeOK /\ dialog \in Dialog /\ dialog.drawer \in Drawer
      /\ writes \in [Write -> WriteRec]
  BY SecretParts DEF SecretPageInv, Dialog
<1>2. CASE OpenAdd
  <2>1. dialog' \in Dialog /\ dialog'.drawer.key = dialog.drawer.key
    BY <1>1, <1>2 DEF OpenAdd, Dialog
  <2> QED
    BY <1>2, <2>1, CalmDialog, CalmKeeps DEF OpenAdd
<1>3. CASE CloseAdd
  <2>1. dialog' \in Dialog /\ dialog'.drawer.key = dialog.drawer.key
    BY <1>1, <1>3 DEF CloseAdd, Dialog
  <2>2. ASSUME NEW w \in Write
        PROVE  writes'[w] \in WriteRec /\ WriteMove(writes[w], writes'[w])
    <3>1. writes'[w] = IF writes[w].op = "add" THEN [writes[w] EXCEPT !.pending = FALSE]
                                               ELSE writes[w]
      BY <1>3 DEF CloseAdd
    <3>2. writes[w] \in WriteRec
      BY <1>1
    <3> QED
      BY <3>1, <3>2 DEF WriteRec, WriteMove
  <2>3. writes' \in [Write -> WriteRec]
    BY <1>3, <2>2 DEF CloseAdd
  <2> QED
    BY <1>3, <2>1, <2>2, <2>3, CalmWrites, CalmKeeps DEF CloseAdd
<1>4. CASE StartRollback
  <2>1. dialog' = [dialog EXCEPT !.drawer = [dialog.drawer EXCEPT !.confirm = TRUE]]
    BY <1>4 DEF StartRollback
  <2>2. dialog' \in Dialog /\ dialog'.drawer.key = dialog.drawer.key
    BY <1>1, <2>1 DEF Dialog, Drawer
  <2> QED
    BY <1>4, <2>2, CalmDialog, CalmKeeps DEF StartRollback
<1>5. CASE CancelRollback
  <2>1. dialog' = [dialog EXCEPT !.drawer = [dialog.drawer EXCEPT !.confirm = FALSE]]
    BY <1>5 DEF CancelRollback
  <2>2. dialog' \in Dialog /\ dialog'.drawer.key = dialog.drawer.key
    BY <1>1, <2>1 DEF Dialog, Drawer
  <2> QED
    BY <1>5, <2>2, CalmDialog, CalmKeeps DEF CancelRollback
<1>6. ASSUME NEW v \in 1..MaxVersion[FALSE], SelectVersion(v) PROVE SecretPageInv'
  <2>1. dialog' = [dialog EXCEPT !.drawer = [dialog.drawer EXCEPT !.selected = v]]
    BY <1>6 DEF SelectVersion
  <2>2. v \in Nat
    BY SecretPageAssumption
  <2>3. dialog' \in Dialog /\ dialog'.drawer.key = dialog.drawer.key
    BY <1>1, <2>1, <2>2 DEF Dialog, Drawer
  <2> QED
    BY <1>6, <2>3, CalmDialog, CalmKeeps DEF SelectVersion
<1> QED
  BY <1>2, <1>3, <1>4, <1>5, <1>6

-----------------------------------------------------------------------------
(* The drawer opens and closes, and its query with it.                     *)

LEMMA OpenHistoryStep ==
  ASSUME SecretPageInv, NEW k \in Key, OpenHistory(k)
  PROVE  SecretPageInv'
<1>1. /\ SecretPageTypeOK /\ store \in Store /\ secrets \in QueryOf(Store)
      /\ versions \in QueryOf(Store) /\ row \in [Key -> RowRec] /\ dialog \in Dialog
      /\ onPage \in BOOLEAN
      /\ writes \in [Write -> WriteRec] /\ said \in [Queries -> [Key -> Int]]
  BY SecretParts DEF SecretPageInv
<1>2. UNCHANGED << onPage, store, secrets, row, writes, said >>
  BY DEF OpenHistory
<1>4. PICK aged \in BOOLEAN : versions' = MountQuery(versions, aged)
  BY DEF OpenHistory
<1> DEFINE d == [NoDrawer EXCEPT !.key = k]
<1>5. d \in Drawer /\ d.key = k
  BY DEF NoDrawer, Drawer
<1>6. dialog' = [dialog EXCEPT !.drawer = d]
  BY DEF OpenHistory
<1> HIDE DEF d
<1>7. dialog' \in Dialog /\ dialog'.drawer.key = k
  BY <1>1, <1>5, <1>6 DEF Dialog
<1>8. DrawerOpen(dialog'.drawer, secrets')
  BY <1>2, <1>7, SecretPageAssumption DEF OpenHistory, DrawerOpen
<1>9. versions' \in QueryOf(Store)
  BY <1>1, <1>4, QueryType
<1>10. SecretPageTypeOK'
  BY <1>1, <1>2, <1>7, <1>9 DEF SecretPageTypeOK, RowRec, Drawer, Dialog, WriteRec
<1>12. FreshQuery(versions', TRUE, Good("versions", said, writes))
  BY <1>1, <1>4, FreshMount DEF SecretPageInv
<1>13. FreshQuery(versions', DrawerOpen(dialog'.drawer, secrets'), Good("versions", said', writes'))
  BY <1>2, <1>8, <1>12 DEF FreshQuery
<1> QED
  BY <1>2, <1>10, <1>13 DEF SecretPageInv, WritesKnown, RowsActOnWhatIsShown

LEMMA CloseDrawerStep ==
  ASSUME SecretPageInv, CloseDrawer
  PROVE  SecretPageInv'
<1>1. /\ SecretPageTypeOK /\ store \in Store /\ secrets \in QueryOf(Store)
      /\ versions \in QueryOf(Store) /\ row \in [Key -> RowRec] /\ dialog \in Dialog
      /\ onPage \in BOOLEAN
      /\ writes \in [Write -> WriteRec] /\ said \in [Queries -> [Key -> Int]]
  BY SecretParts DEF SecretPageInv
<1>2. /\ UNCHANGED << onPage, store, secrets, row, said >> /\ versions' = UnmountQuery(versions)
      /\ writes' = Detached(RollbacksHere) /\ dialog' = [dialog EXCEPT !.drawer = NoDrawer]
  BY DEF CloseDrawer
<1>3. dialog' \in Dialog /\ dialog'.drawer.key = NoKey
  BY <1>1, <1>2 DEF Dialog, Drawer, NoDrawer
<1>4. ~DrawerOpen(dialog'.drawer, secrets')
  BY <1>3 DEF DrawerOpen
<1>5. /\ writes' \in [Write -> WriteRec]
      /\ \A w \in Write : WriteMove(writes[w], writes'[w])
  BY <1>1, <1>2, DetachedMoves DEF WriteMove
<1>6. versions' \in QueryOf(Store)
  BY <1>1, <1>2, QueryType
<1>7. SecretPageTypeOK'
  BY <1>1, <1>2, <1>3, <1>5, <1>6 DEF SecretPageTypeOK, RowRec, Drawer, Dialog, WriteRec
<1>8. \A q \in Queries : Good(q, said, writes) \subseteq Good(q, said', writes')
  BY <1>2, <1>5, GoodGrows
<1>9. FreshQuery(secrets', onPage', Good("secrets", said', writes'))
  BY <1>2, <1>8, FreshGrows, QueryNames DEF SecretPageInv
<1>10. FreshQuery(versions', FALSE, Good("versions", said, writes))
  BY <1>1, <1>2, FreshUnmount DEF SecretPageInv
<1>11. FreshQuery(versions', FALSE, Good("versions", said', writes'))
  BY <1>8, <1>10, FreshGrows, QueryNames
<1>12. FreshQuery(versions', DrawerOpen(dialog'.drawer, secrets'), Good("versions", said', writes'))
  BY <1>4, <1>11 DEF FreshQuery
<1>13. WritesKnown'
  BY <1>2, <1>5, WritesKept DEF SecretPageInv
<1> QED
  BY <1>2, <1>7, <1>9, <1>12, <1>13 DEF SecretPageInv, RowsActOnWhatIsShown

-----------------------------------------------------------------------------
(* The server: a key is written or deleted, by the page or by others.      *)

LEMMA StoreAges ==
  ASSUME store \in Store, NEW k \in Key,
         \/ store' = [store EXCEPT ![k] = Put(@)]
         \/ store' = [store EXCEPT ![k] = SoftDelete(@)]
  PROVE  /\ store' \in Store
         /\ \A j \in Key : /\ Age(store[j]) \in Int /\ Age(store'[j]) \in Int
                           /\ Age(store'[j]) >= Age(store[j])
<1> DEFINE R == [version : Nat, live : BOOLEAN, inherited : BOOLEAN]
<1>1. store \in [Key -> R]
  BY DEF Store
<1>2. PICK x \in R : store' = [store EXCEPT ![k] = x] /\ Age(x) >= Age(store[k])
  BY <1>1, Ages
<1>3. store' \in [Key -> R] /\ \A j \in Key : store'[j] \in R
  BY <1>1, <1>2
<1>4. \A j \in Key : Age(store[j]) \in Int /\ Age(store'[j]) \in Int
  BY <1>1, <1>3, Ages
<1>5. ASSUME NEW j \in Key PROVE Age(store'[j]) >= Age(store[j])
  <2>1. CASE j = k
    BY <1>1, <1>2, <2>1
  <2>2. CASE j # k
    <3>1. store'[j] = store[j]
      BY <1>1, <1>2, <2>2
    <3> QED
      BY <1>4, <3>1
  <2> QED
    BY <2>1, <2>2
<1> QED
  BY <1>3, <1>4, <1>5 DEF Store

LEMMA WriteElsewhereStep ==
  ASSUME SecretPageInv, NEW k \in Key, WriteElsewhere(k)
  PROVE  SecretPageInv'
<1>1. /\ store \in Store /\ secrets \in QueryOf(Store)
      /\ versions \in QueryOf(Store) /\ row \in [Key -> RowRec] /\ dialog \in Dialog
      /\ onPage \in BOOLEAN
      /\ writes \in [Write -> WriteRec] /\ said \in [Queries -> [Key -> Int]]
  BY SecretParts DEF SecretPageInv
<1>2. UNCHANGED << onPage, secrets, versions, row, dialog, writes, said >>
  BY DEF WriteElsewhere
<1>3. /\ store' \in Store
      /\ \A j \in Key : /\ Age(store[j]) \in Int /\ Age(store'[j]) \in Int
                        /\ Age(store'[j]) >= Age(store[j])
  BY <1>1, StoreAges DEF WriteElsewhere
<1>4. SecretPageTypeOK'
  BY <1>1, <1>2, <1>3 DEF SecretPageTypeOK, RowRec, Drawer, Dialog, WriteRec
<1>5. WritesKnown'
  <2>1. \A q \in Queries : \A j \in Key : said[q][j] \in Int
    BY <1>1
  <2>2. \A w \in Write : writes[w].age \in Int
    BY <1>1 DEF WriteRec
  <2> QED
    BY <1>2, <1>3, <2>1, <2>2 DEF SecretPageInv, WritesKnown
<1> QED
  BY <1>2, <1>4, <1>5 DEF SecretPageInv, RowsActOnWhatIsShown

LEMMA ServeChangeStep ==
  ASSUME SecretPageInv, NEW w \in Write, ServeSecretWrite(w)
  PROVE  SecretPageInv'
<1>1. /\ store \in Store /\ secrets \in QueryOf(Store)
      /\ versions \in QueryOf(Store) /\ row \in [Key -> RowRec] /\ dialog \in Dialog
      /\ onPage \in BOOLEAN
      /\ writes \in [Write -> WriteRec] /\ said \in [Queries -> [Key -> Int]]
  BY SecretParts DEF SecretPageInv
<1>2. /\ UNCHANGED << onPage, secrets, versions, row, dialog, said >>
      /\ writes[w].op # "none" /\ writes[w].step = "sent"
  BY DEF ServeSecretWrite
<1>3. PICK k \in Key : k = writes[w].key
  BY <1>2 DEF SecretPageInv, WritesKnown
<1>4. /\ store' \in Store
      /\ \A j \in Key : /\ Age(store[j]) \in Int /\ Age(store'[j]) \in Int
                        /\ Age(store'[j]) >= Age(store[j])
  BY <1>1, <1>3, StoreAges DEF ServeSecretWrite
<1>5. PICK a \in Int : a = Age(store'[k])
  BY <1>4
<1> DEFINE c == [writes[w] EXCEPT !.step = "done", !.age = a]
<1>6. writes' = [writes EXCEPT ![w] = c]
  BY <1>3, <1>5 DEF ServeSecretWrite
<1>7. /\ c \in WriteRec /\ c.step = "done" /\ c.age = a /\ c.key = k /\ c.op # "none"
  <2>1. writes[w] \in WriteRec
    BY <1>1
  <2> QED
    BY <1>2, <1>3, <2>1 DEF WriteRec
<1> HIDE DEF c
<1>8. /\ writes' \in [Write -> WriteRec] /\ writes'[w] = c
      /\ \A x \in Write : x # w => writes'[x] = writes[x]
  BY <1>1, <1>6, <1>7
<1>9. SecretPageTypeOK'
  BY <1>1, <1>2, <1>4, <1>8 DEF SecretPageTypeOK, RowRec, Drawer, Dialog, WriteRec
<1>10. WritesKnown'
  <2>1. ASSUME NEW q \in Queries, NEW j \in Key PROVE Age(store'[j]) >= said'[q][j]
    <3>1. said[q][j] \in Int /\ Age(store[j]) >= said[q][j]
      BY <1>1 DEF SecretPageInv, WritesKnown
    <3> QED
      BY <1>2, <1>4, <3>1
  <2>2. ASSUME NEW x \in Write
        PROVE  /\ writes'[x].op # "none" => writes'[x].key \in Key
               /\ writes'[x].step # "sent" =>
                    writes'[x].op # "none" /\ Age(store'[writes'[x].key]) >= writes'[x].age
    <3>1. CASE x = w
      BY <1>4, <1>5, <1>7, <1>8, <3>1
    <3>2. CASE x # w
      <4>1. writes'[x] = writes[x] /\ writes[x].age \in Int
        BY <1>1, <1>8, <3>2 DEF WriteRec
      <4>2. /\ writes[x].op # "none" => writes[x].key \in Key
            /\ writes[x].step # "sent" =>
                 writes[x].op # "none" /\ Age(store[writes[x].key]) >= writes[x].age
        BY DEF SecretPageInv, WritesKnown
      <4> QED
        BY <1>4, <4>1, <4>2
    <3> QED
      BY <3>1, <3>2
  <2> QED
    BY <2>1, <2>2 DEF WritesKnown
<1>11. \A q \in Queries : Good(q, said, writes) \subseteq Good(q, said', writes')
  BY <1>2, <1>7, <1>8 DEF Good, ShowsWrites
<1>12. /\ FreshQuery(secrets', onPage', Good("secrets", said', writes'))
       /\ FreshQuery(versions', DrawerOpen(dialog.drawer, secrets),
                     Good("versions", said', writes'))
  BY <1>2, <1>11, FreshGrows, QueryNames DEF SecretPageInv
<1> QED
  BY <1>2, <1>9, <1>10, <1>12 DEF SecretPageInv, RowsActOnWhatIsShown

-----------------------------------------------------------------------------
(* The network and the clock.                                              *)

LEMMA VersionsStep ==
  ASSUME SecretPageInv, VersionsFetched
  PROVE  SecretPageInv'
<1>1. /\ store \in Store /\ secrets \in QueryOf(Store)
      /\ versions \in QueryOf(Store) /\ row \in [Key -> RowRec] /\ dialog \in Dialog
      /\ onPage \in BOOLEAN
      /\ writes \in [Write -> WriteRec] /\ said \in [Queries -> [Key -> Int]]
  BY SecretParts DEF SecretPageInv
<1>2. /\ UNCHANGED << onPage, store, secrets, row, dialog, writes, said >>
      /\ QueryMoves(versions, versions', store, DrawerOpen(dialog.drawer, secrets))
  BY DEF VersionsFetched
<1>3. DrawerOpen(dialog.drawer, secrets) \in BOOLEAN
  BY DEF DrawerOpen
<1>4. versions' \in QueryOf(Store)
  BY <1>1, <1>2, <1>3, QueryMovesType
<1>5. FreshQuery(versions', DrawerOpen(dialog.drawer, secrets), Good("versions", said, writes))
  BY <1>1, <1>2, <1>3, StoreIsGood, QueryNames, FreshMoves DEF SecretPageInv
<1>6. SecretPageTypeOK'
  BY <1>1, <1>2, <1>4 DEF SecretPageTypeOK, RowRec, Drawer, Dialog, WriteRec
<1> QED
  BY <1>2, <1>5, <1>6 DEF SecretPageInv, WritesKnown, RowsActOnWhatIsShown

(* The table is drawn again: what a row keeps is of what it shows now.     *)
LEMMA RedrawRows ==
  ASSUME SecretPageInv, secrets' \in QueryOf(Store), Redraw(secrets')
  PROVE  row' \in [Key -> RowRec] /\ RowsActOnWhatIsShown'
<1> SUFFICES ASSUME NEW k \in Key
             PROVE  /\ row'[k] \in RowRec
                    /\ row'[k].draft # NoEntry => row'[k].draft = Shown(secrets', k)
                    /\ row'[k].confirm # NoEntry =>
                         row'[k].confirm.version = Shown(secrets', k).version
  BY DEF Redraw, RowsActOnWhatIsShown
<1>1. Shown(secrets', k) \in Entry /\ NoEntry \in Entry
  BY ShownIsEntry
<1>2. row'[k] = IF SameInstance(k, secrets') THEN RefillDraft(row[k], Shown(secrets', k))
                                             ELSE FreshRow
  BY DEF Redraw
<1>3. FreshRow \in RowRec /\ FreshRow.draft = NoEntry /\ FreshRow.confirm = NoEntry
  BY <1>1 DEF FreshRow, RowRec
<1>4. CASE ~SameInstance(k, secrets')
  BY <1>2, <1>3, <1>4
<1>5. CASE SameInstance(k, secrets')
  <2>1. /\ row[k] \in RowRec
        /\ row[k].confirm # NoEntry => row[k].confirm.version = Shown(secrets', k).version
    BY <1>5, RowShows DEF SameInstance
  <2>2. CASE row[k].draft = NoEntry
    BY <1>2, <1>5, <2>1, <2>2 DEF RefillDraft
  <2>3. CASE row[k].draft # NoEntry
    <3>1. row'[k] = [row[k] EXCEPT !.draft = Shown(secrets', k)]
      BY <1>2, <1>5, <2>3 DEF RefillDraft
    <3> QED
      BY <1>1, <2>1, <3>1 DEF RowRec
  <2> QED
    BY <2>2, <2>3
<1> QED
  BY <1>4, <1>5

(* The drawer keeps its key; its query is mounted when it opens.           *)
LEMMA RedrawDrawer ==
  ASSUME SecretPageInv, secrets' \in QueryOf(Store), Redraw(secrets')
  PROVE  /\ dialog' \in Dialog /\ versions' \in QueryOf(Store)
         /\ FreshQuery(versions', DrawerOpen(dialog'.drawer, secrets'),
                       Good("versions", said, writes))
<1>1. /\ store \in Store /\ versions \in QueryOf(Store)
      /\ dialog \in Dialog /\ dialog.drawer \in Drawer
  BY SecretParts DEF SecretPageInv, Dialog
<1>2. FreshQuery(versions, DrawerOpen(dialog.drawer, secrets), Good("versions", said, writes))
  BY DEF SecretPageInv
<1>3. dialog' \in Dialog /\ dialog'.drawer.key = dialog.drawer.key
  <2> DEFINE d == [NoDrawer EXCEPT !.key = dialog.drawer.key]
  <2>1. dialog' = dialog \/ dialog' = [dialog EXCEPT !.drawer = d]
    BY DEF Redraw
  <2>2. d \in Drawer /\ d.key = dialog.drawer.key
    BY <1>1 DEF NoDrawer, Drawer
  <2> HIDE DEF d
  <2> QED
    BY <1>1, <2>1, <2>2 DEF Dialog
<1>4. DrawerOpen(dialog'.drawer, secrets') <=> DrawerOpen(dialog.drawer, secrets')
  BY <1>3, ShownByData
<1>5. CASE DrawerOpen(dialog.drawer, secrets') /\ ~DrawerOpen(dialog.drawer, secrets)
  <2>1. PICK aged \in BOOLEAN : versions' = MountQuery(versions, aged)
    BY <1>5 DEF Redraw
  <2>3. FreshQuery(versions', TRUE, Good("versions", said, writes))
    BY <1>1, <1>2, <2>1, FreshMount
  <2>4. versions' \in QueryOf(Store)
    BY <1>1, <2>1, QueryType
  <2> QED
    BY <1>3, <1>4, <1>5, <2>3, <2>4 DEF FreshQuery
<1>6. CASE ~DrawerOpen(dialog.drawer, secrets') /\ DrawerOpen(dialog.drawer, secrets)
  <2>1. versions' = UnmountQuery(versions)
    BY <1>6 DEF Redraw
  <2>2. FreshQuery(versions', FALSE, Good("versions", said, writes))
    BY <1>1, <1>2, <2>1, FreshUnmount
  <2>3. versions' \in QueryOf(Store)
    BY <1>1, <2>1, QueryType
  <2> QED
    BY <1>3, <1>4, <1>6, <2>2, <2>3 DEF FreshQuery
<1>7. CASE DrawerOpen(dialog.drawer, secrets') <=> DrawerOpen(dialog.drawer, secrets)
  <2>1. versions' = versions
    BY <1>7 DEF Redraw
  <2> QED
    BY <1>1, <1>2, <1>3, <1>4, <1>7, <2>1 DEF FreshQuery
<1> QED
  BY <1>5, <1>6, <1>7

LEMMA SecretsStep ==
  ASSUME SecretPageInv, SecretsFetched
  PROVE  SecretPageInv'
<1>1. /\ SecretPageTypeOK /\ store \in Store /\ secrets \in QueryOf(Store)
      /\ versions \in QueryOf(Store) /\ row \in [Key -> RowRec] /\ dialog \in Dialog
      /\ onPage \in BOOLEAN
      /\ writes \in [Write -> WriteRec] /\ said \in [Queries -> [Key -> Int]]
  BY SecretParts DEF SecretPageInv
<1>2. UNCHANGED << onPage, store, said >> /\ QueryMoves(secrets, secrets', store, onPage)
  BY DEF SecretsFetched
<1>3. secrets' \in QueryOf(Store)
  BY <1>1, <1>2, QueryMovesType
<1>4. FreshQuery(secrets', onPage, Good("secrets", said, writes))
  BY <1>1, <1>2, StoreIsGood, QueryNames, FreshMoves DEF SecretPageInv
<1>5. CASE secrets'.data = secrets.data
  <2>1. UNCHANGED << row, writes, dialog, versions >>
    BY <1>5 DEF SecretsFetched
  <2>2. SecretPageTypeOK'
    BY <1>1, <1>2, <1>3, <2>1 DEF SecretPageTypeOK, RowRec, Drawer, Dialog, WriteRec
  <2>3. /\ \A k : Shown(secrets', k) = Shown(secrets, k)
        /\ DrawerOpen(dialog'.drawer, secrets') <=> DrawerOpen(dialog.drawer, secrets)
    BY <1>5, <2>1, ShownByData
  <2>4. RowsActOnWhatIsShown'
    BY <2>1, <2>3 DEF SecretPageInv, RowsActOnWhatIsShown
  <2>5. FreshQuery(versions', DrawerOpen(dialog'.drawer, secrets'),
                   Good("versions", said', writes'))
    BY <1>2, <2>1, <2>3 DEF SecretPageInv, FreshQuery
  <2> QED
    BY <1>2, <1>4, <2>1, <2>2, <2>4, <2>5 DEF SecretPageInv, WritesKnown
<1>6. CASE secrets'.data # secrets.data
  <2>1. Redraw(secrets')
    BY <1>6 DEF SecretsFetched
  <2>2. /\ writes' \in [Write -> WriteRec]
        /\ \A w \in Write : WriteMove(writes[w], writes'[w])
    <3>1. PICK S : writes' = Detached(S)
      BY <2>1 DEF Redraw
    <3> QED
      BY <1>1, <3>1, DetachedMoves DEF WriteMove
  <2>3. \A q \in Queries : Good(q, said, writes) \subseteq Good(q, said', writes')
    BY <1>2, <2>2, GoodGrows
  <2>4. /\ row' \in [Key -> RowRec] /\ RowsActOnWhatIsShown'
        /\ dialog' \in Dialog /\ versions' \in QueryOf(Store)
        /\ FreshQuery(versions', DrawerOpen(dialog'.drawer, secrets'),
                      Good("versions", said, writes))
    BY <1>3, <2>1, RedrawRows, RedrawDrawer
  <2>5. /\ FreshQuery(secrets', onPage', Good("secrets", said', writes'))
        /\ FreshQuery(versions', DrawerOpen(dialog'.drawer, secrets'),
                      Good("versions", said', writes'))
    <3>1. /\ Good("secrets", said, writes) \subseteq Good("secrets", said', writes')
          /\ Good("versions", said, writes) \subseteq Good("versions", said', writes')
      BY <2>3, QueryNames
    <3>2. FreshQuery(secrets', onPage, Good("secrets", said', writes'))
      BY <1>4, <3>1, FreshGrows
    <3>3. FreshQuery(versions', DrawerOpen(dialog'.drawer, secrets'),
                     Good("versions", said', writes'))
      BY <2>4, <3>1, FreshGrows
    <3> QED
      BY <1>2, <3>2, <3>3
  <2>6. SecretPageTypeOK'
    BY <1>1, <1>2, <1>3, <2>2, <2>4 DEF SecretPageTypeOK, RowRec, Drawer, Dialog, WriteRec
  <2>7. WritesKnown'
    BY <1>2, <2>2, WritesKept DEF SecretPageInv
  <2> QED
    BY <2>4, <2>5, <2>6, <2>7 DEF SecretPageInv
<1> QED
  BY <1>5, <1>6

-----------------------------------------------------------------------------
(* The answers of the writes.                                              *)

LEMMA SucceedsStep ==
  ASSUME SecretPageInv, NEW w \in Write, WriteSucceeds(w)
  PROVE  SecretPageInv'
<1>1. /\ store \in Store /\ secrets \in QueryOf(Store)
      /\ versions \in QueryOf(Store) /\ row \in [Key -> RowRec] /\ dialog \in Dialog
      /\ onPage \in BOOLEAN
      /\ writes \in [Write -> WriteRec] /\ said \in [Queries -> [Key -> Int]]
  BY SecretParts DEF SecretPageInv
<1>2. /\ UNCHANGED << onPage, store, row, dialog, said >>
      /\ secrets' = Invalidate(secrets, onPage)
      /\ versions' = Invalidate(versions, DrawerOpen(dialog.drawer, secrets))
      /\ writes[w].step = "done"
  BY DEF WriteSucceeds, InvalidateVersions
<1>3. DrawerOpen(dialog.drawer, secrets) \in BOOLEAN
  BY DEF DrawerOpen
<1>4. secrets' \in QueryOf(Store) /\ versions' \in QueryOf(Store)
  BY <1>1, <1>2, <1>3, QueryType
<1>5. secrets'.data = secrets.data
  BY <1>1, <1>2, InvalidateKeeps
<1>6. Missed \subseteq Queries
  BY DEF Missed
<1>7. /\ \A k : Shown(secrets', k) = Shown(secrets, k)
      /\ DrawerOpen(dialog'.drawer, secrets') <=> DrawerOpen(dialog.drawer, secrets)
  BY <1>2, <1>5, ShownByData
<1>9. RowsActOnWhatIsShown'
  BY <1>2, <1>7 DEF SecretPageInv, RowsActOnWhatIsShown
<1>10. ASSUME NEW x \in Write
       PROVE  /\ writes'[x] \in WriteRec
              /\ writes'[x].op = writes[x].op /\ writes'[x].key = writes[x].key
              /\ writes'[x].age = writes[x].age
              /\ writes'[x].step # "sent" => writes[x].step # "sent"
              /\ IF x = w THEN writes'[x].missed = Missed
                 ELSE writes'[x].step = writes[x].step /\ writes'[x].missed = writes[x].missed
  <2>1. writes[x] \in WriteRec
    BY <1>1
  <2>2. CASE x = w
    <3>1. writes'[x] = [writes[x] EXCEPT !.step = "refreshing", !.missed = Missed,
                                         !.awaits = onPage]
      BY <2>2 DEF WriteSucceeds
    <3> QED
      BY <1>1, <1>2, <1>6, <2>1, <2>2, <3>1 DEF WriteRec
  <2>3. CASE x # w
    <3>1. PICK b \in BOOLEAN : writes'[x] = [writes[x] EXCEPT !.awaits = b]
      <4> DEFINE b == writes[x].awaits /\ Missed # {}
      <4>1. writes'[x] = [writes[x] EXCEPT !.awaits = b]
        BY <2>3 DEF WriteSucceeds
      <4>2. b \in BOOLEAN
        OBVIOUS
      <4> QED
        BY <4>1, <4>2
    <3> QED
      BY <2>1, <2>3, <3>1 DEF WriteRec
  <2> QED
    BY <2>2, <2>3
<1>11. writes' \in [Write -> WriteRec]
  BY <1>10 DEF WriteSucceeds
<1>14. ASSUME NEW q \in Missed
       PROVE  Good(q, said, writes) \subseteq Good(q, said', writes')
  BY <1>2, <1>10 DEF Good, ShowsWrites
<1>15. FreshQuery(secrets', onPage', Good("secrets", said', writes'))
  <2>1. CASE Misses(secrets, onPage)
    <3>1. Good("secrets", said, writes) \subseteq Good("secrets", said', writes')
      BY <1>14, <2>1, QueryNames DEF Missed
    <3>2. FreshQuery(secrets', onPage, Good("secrets", said, writes))
      BY <1>1, <1>2, FreshMissed DEF SecretPageInv
    <3> QED
      BY <1>2, <3>1, <3>2, FreshGrows
  <2>2. CASE ~Misses(secrets, onPage)
    BY <1>1, <1>2, <2>2, FreshInvalidate
  <2> QED
    BY <2>1, <2>2
<1>16. FreshQuery(versions', DrawerOpen(dialog.drawer, secrets), Good("versions", said', writes'))
  <2>1. CASE Misses(versions, DrawerOpen(dialog.drawer, secrets))
    <3>1. Good("versions", said, writes) \subseteq Good("versions", said', writes')
      BY <1>14, <2>1, QueryNames DEF Missed
    <3>2. FreshQuery(versions', DrawerOpen(dialog.drawer, secrets), Good("versions", said, writes))
      BY <1>1, <1>2, <1>3, FreshMissed DEF SecretPageInv
    <3> QED
      BY <3>1, <3>2, FreshGrows
  <2>2. CASE ~Misses(versions, DrawerOpen(dialog.drawer, secrets))
    BY <1>1, <1>2, <1>3, <2>2, FreshInvalidate
  <2> QED
    BY <2>1, <2>2
<1>8. FreshQuery(versions', DrawerOpen(dialog'.drawer, secrets'), Good("versions", said', writes'))
  BY <1>7, <1>16 DEF FreshQuery
<1>12. SecretPageTypeOK'
  BY <1>1, <1>2, <1>4, <1>11 DEF SecretPageTypeOK, RowRec, Drawer, Dialog, WriteRec
<1>13. WritesKnown'
  BY <1>2, <1>10 DEF SecretPageInv, WritesKnown
<1> QED
  BY <1>8, <1>9, <1>12, <1>13, <1>15 DEF SecretPageInv

(* The operator is told: the row, the dialog or the drawer closes.         *)
LEMMA ToldDialogs ==
  ASSUME SecretPageInv, NEW w \in Write, WriteIsTold(w)
  PROVE  /\ row' \in [Key -> RowRec] /\ RowsActOnWhatIsShown'
         /\ dialog' \in Dialog /\ versions' \in QueryOf(Store)
         /\ FreshQuery(versions', DrawerOpen(dialog'.drawer, secrets'),
                       Good("versions", said, writes))
<1> DEFINE c == writes[w]
<1>1. /\ store \in Store /\ secrets \in QueryOf(Store)
      /\ versions \in QueryOf(Store) /\ row \in [Key -> RowRec] /\ dialog \in Dialog
      /\ dialog.drawer \in Drawer
  BY SecretParts DEF SecretPageInv, Dialog
<1>2. FreshQuery(versions, DrawerOpen(dialog.drawer, secrets), Good("versions", said, writes))
  BY DEF SecretPageInv
<1>3. secrets' = secrets /\ c.key \in Key
  BY DEF WriteIsTold, SecretPageInv, WritesKnown
<1>4. PICK k \in Key : k = c.key
  BY <1>3
<1>5. CASE /\ row' = row /\ versions' = versions
           /\ dialog'.drawer = dialog.drawer /\ dialog' \in Dialog
  BY <1>1, <1>2, <1>3, <1>5 DEF SecretPageInv, RowsActOnWhatIsShown
<1>6. ASSUME NEW r \in RowRec, row' = [row EXCEPT ![k] = r],
             r.draft # NoEntry => r.draft = Shown(secrets, k),
             r.confirm # NoEntry => r.confirm.version = Shown(secrets, k).version,
             UNCHANGED << dialog, versions >>
      PROVE  /\ row' \in [Key -> RowRec] /\ RowsActOnWhatIsShown'
             /\ dialog' \in Dialog /\ versions' \in QueryOf(Store)
             /\ FreshQuery(versions', DrawerOpen(dialog'.drawer, secrets'),
                           Good("versions", said, writes))
  <2>1. \A j \in Key : row'[j] = IF j = k THEN r ELSE row[j]
    BY <1>1, <1>6
  <2> QED
    BY <1>1, <1>2, <1>3, <1>6, <2>1 DEF SecretPageInv, RowsActOnWhatIsShown
<1>7. CASE c.op = "save" /\ SaveDone(c)
  <2>1. CASE c.here
    <3> DEFINE r == [row[k] EXCEPT !.draft = NoEntry]
    <3>1. row' = [row EXCEPT ![k] = r] /\ UNCHANGED << dialog, versions >>
      BY <1>4, <1>7, <2>1 DEF SaveDone
    <3>2. r \in RowRec /\ r.draft = NoEntry /\ r.confirm = row[k].confirm
      BY RowShows DEF RowRec
    <3> HIDE DEF r
    <3> QED
      BY <1>6, <3>1, <3>2, RowShows
  <2>2. CASE ~c.here
    <3>1. row' = row /\ dialog' = dialog /\ versions' = versions
      BY <1>7, <2>2 DEF SaveDone
    <3> QED
      BY <1>1, <1>5, <3>1
  <2> QED
    BY <2>1, <2>2
<1>8. CASE c.op = "delete" /\ DeleteDone(c)
  <2>1. CASE c.here
    <3> DEFINE r == [row[k] EXCEPT !.confirm = NoEntry, !.busy = FALSE]
    <3>1. row' = [row EXCEPT ![k] = r] /\ UNCHANGED << dialog, versions >>
      <4>1. row' = [row EXCEPT ![k].confirm = NoEntry, ![k].busy = FALSE]
              /\ UNCHANGED << dialog, versions >>
        BY <1>4, <1>8, <2>1 DEF DeleteDone
      <4>2. row[k] \in RowRec /\ row \in [Key -> RowRec]
        BY <1>1
      <4> QED
        BY <4>1, <4>2 DEF RowRec
    <3>2. r \in RowRec /\ r.confirm = NoEntry /\ r.draft = row[k].draft
      BY RowShows DEF RowRec
    <3> HIDE DEF r
    <3> QED
      BY <1>6, <3>1, <3>2, RowShows
  <2>2. CASE ~c.here
    <3>1. row' = row /\ dialog' = dialog /\ versions' = versions
      BY <1>8, <2>2 DEF DeleteDone
    <3> QED
      BY <1>1, <1>5, <3>1
  <2> QED
    BY <2>1, <2>2
<1>9. CASE c.op = "add" /\ AddDone(c)
  <2>1. /\ row' = row /\ versions' = versions
        /\ dialog' \in Dialog /\ dialog'.drawer = dialog.drawer
    BY <1>1, <1>9 DEF AddDone, Dialog
  <2> QED
    BY <1>5, <2>1
<1>10. CASE c.op = "rollback" /\ RollbackDone(c)
  <2>0. CASE ~c.page
    <3>1. row' = row /\ dialog' = dialog /\ versions' = versions
      BY <1>10, <2>0 DEF RollbackDone
    <3> QED
      BY <1>1, <1>5, <3>1
  <2>6. CASE c.page
    <3>1. /\ row' = row /\ versions' = UnmountQuery(versions)
          /\ dialog' = [dialog EXCEPT !.drawer = NoDrawer]
      BY <1>10, <2>6 DEF RollbackDone
    <3>2. dialog' \in Dialog /\ dialog'.drawer.key = NoKey
      BY <1>1, <3>1 DEF Dialog, Drawer, NoDrawer
    <3>3. ~DrawerOpen(dialog'.drawer, secrets')
      BY <3>2 DEF DrawerOpen
    <3>4. FreshQuery(versions', FALSE, Good("versions", said, writes))
            /\ versions' \in QueryOf(Store)
      BY <1>1, <1>2, <3>1, FreshUnmount, QueryType
    <3>5. FreshQuery(versions', DrawerOpen(dialog'.drawer, secrets'),
                     Good("versions", said, writes))
      BY <3>3, <3>4 DEF FreshQuery
    <3> QED
      BY <1>1, <1>3, <3>1, <3>2, <3>4, <3>5 DEF SecretPageInv, RowsActOnWhatIsShown
  <2> QED
    BY <2>0, <2>6
<1> QED
  BY <1>7, <1>8, <1>9, <1>10 DEF WriteIsTold

LEMMA ToldStep ==
  ASSUME SecretPageInv, NEW w \in Write, WriteIsTold(w)
  PROVE  SecretPageInv'
<1>1. /\ SecretPageTypeOK /\ store \in Store /\ secrets \in QueryOf(Store)
      /\ onPage \in BOOLEAN
      /\ writes \in [Write -> WriteRec] /\ said \in [Queries -> [Key -> Int]]
  BY SecretParts DEF SecretPageInv
<1>2. UNCHANGED << onPage, store, secrets >> /\ writes[w].step = "refreshing"
  BY DEF WriteIsTold
<1>3. PICK k \in Key : k = writes[w].key /\ Age(store[k]) >= writes[w].age
  BY <1>2 DEF SecretPageInv, WritesKnown
<1>4. writes[w].age \in Int
  BY <1>1 DEF WriteRec
<1>5. said' = [q \in Queries |->
         IF q \in writes[w].missed THEN said[q]
         ELSE [said[q] EXCEPT ![k] = IF writes[w].age > said[q][k] THEN writes[w].age
                                     ELSE said[q][k]]]
  BY <1>3 DEF WriteIsTold, Announced
<1>6. ASSUME NEW q \in Queries
      PROVE  /\ said'[q] \in [Key -> Int]
             /\ \A j \in Key : \/ said'[q][j] = said[q][j]
                               \/ /\ j = k /\ said'[q][j] = writes[w].age
                                  /\ q \notin writes[w].missed
  <2>1. said[q] \in [Key -> Int]
    BY <1>1
  <2>2. CASE q \in writes[w].missed
    <3>1. said'[q] = said[q]
      BY <1>5, <2>2
    <3> QED
      BY <2>1, <3>1
  <2>3. CASE q \notin writes[w].missed
    <3>1. PICK n \in {writes[w].age, said[q][k]} : said'[q] = [said[q] EXCEPT ![k] = n]
      BY <1>5, <2>3
    <3>2. n \in Int
      BY <1>4, <2>1, <3>1
    <3> QED
      BY <2>1, <2>3, <3>1, <3>2
  <2> QED
    BY <2>2, <2>3
<1>15. said' \in [Queries -> [Key -> Int]]
  BY <1>5, <1>6
<1>7. NoWrite \in WriteRec /\ NoWrite.step = "sent" /\ NoWrite.op = "none"
  BY DEF NoWrite, WriteRec
<1>8. PICK f \in [Write -> WriteRec] :
        /\ writes' = [f EXCEPT ![w] = NoWrite]
        /\ \A x \in Write : /\ f[x].op = writes[x].op /\ f[x].key = writes[x].key
                            /\ f[x].age = writes[x].age /\ f[x].step = writes[x].step
                            /\ f[x].missed = writes[x].missed
  <2>1. CASE writes[w].op = "rollback" /\ writes[w].page
    <3> DEFINE f == Detached(RollbacksHere)
    <3>1. writes' = [f EXCEPT ![w] = NoWrite]
      BY <2>1 DEF WriteIsTold
    <3>2. /\ f \in [Write -> WriteRec]
          /\ \A x \in Write : /\ f[x].op = writes[x].op /\ f[x].key = writes[x].key
                              /\ f[x].age = writes[x].age /\ f[x].step = writes[x].step
                              /\ f[x].missed = writes[x].missed
      BY <1>1, DetachedMoves
    <3> HIDE DEF f
    <3> QED
      BY <3>1, <3>2
  <2>2. CASE ~(writes[w].op = "rollback" /\ writes[w].page)
    <3>1. writes' = [writes EXCEPT ![w] = NoWrite]
      BY <2>2 DEF WriteIsTold
    <3> QED
      BY <1>1, <3>1
  <2> QED
    BY <2>1, <2>2
<1>9. /\ writes' \in [Write -> WriteRec] /\ writes'[w] = NoWrite
      /\ \A x \in Write : x # w =>
           /\ writes'[x].op = writes[x].op /\ writes'[x].key = writes[x].key
           /\ writes'[x].age = writes[x].age /\ writes'[x].step = writes[x].step
           /\ writes'[x].missed = writes[x].missed
  BY <1>7, <1>8
<1>10. \A q \in Queries : Good(q, said, writes) \subseteq Good(q, said', writes')
  <2> SUFFICES ASSUME NEW q \in Queries, NEW s \in Store, ShowsWrites(s, q, said, writes)
               PROVE  ShowsWrites(s, q, said', writes')
    BY DEF Good
  <2>1. \A j \in Key : Age(s[j]) >= said'[q][j]
    BY <1>2, <1>3, <1>6 DEF ShowsWrites
  <2>2. \A x \in Write : writes'[x].step = "refreshing" /\ q \notin writes'[x].missed =>
          Age(s[writes'[x].key]) >= writes'[x].age
    BY <1>7, <1>9 DEF ShowsWrites
  <2> QED
    BY <2>1, <2>2 DEF ShowsWrites
<1>11. WritesKnown'
  <2>1. \A q \in Queries : \A j \in Key : Age(store[j]) >= said'[q][j]
    BY <1>3, <1>6 DEF SecretPageInv, WritesKnown
  <2>2. ASSUME NEW x \in Write
        PROVE  /\ writes'[x].op # "none" => writes'[x].key \in Key
               /\ writes'[x].step # "sent" =>
                    writes'[x].op # "none" /\ Age(store[writes'[x].key]) >= writes'[x].age
    BY <1>7, <1>9 DEF SecretPageInv, WritesKnown
  <2> QED
    BY <1>2, <2>1, <2>2 DEF WritesKnown
<1>12. /\ row' \in [Key -> RowRec] /\ RowsActOnWhatIsShown'
       /\ dialog' \in Dialog /\ versions' \in QueryOf(Store)
       /\ FreshQuery(versions', DrawerOpen(dialog'.drawer, secrets'),
                     Good("versions", said, writes))
  BY ToldDialogs
<1>13. /\ FreshQuery(secrets', onPage', Good("secrets", said', writes'))
       /\ FreshQuery(versions', DrawerOpen(dialog'.drawer, secrets'),
                     Good("versions", said', writes'))
  BY <1>2, <1>10, <1>12, FreshGrows, QueryNames DEF SecretPageInv
<1>14. SecretPageTypeOK'
  BY <1>1, <1>2, <1>9, <1>12, <1>15 DEF SecretPageTypeOK, RowRec, Drawer, Dialog, WriteRec
<1> QED
  BY <1>11, <1>12, <1>13, <1>14 DEF SecretPageInv

LEMMA FailsStep ==
  ASSUME SecretPageInv, NEW w \in Write, WriteFails(w)
  PROVE  SecretPageInv'
<1> DEFINE c == writes[w]
<1>1. /\ SecretPageTypeOK /\ row \in [Key -> RowRec] /\ dialog \in Dialog
      /\ dialog.drawer \in Drawer /\ writes \in [Write -> WriteRec]
  BY SecretParts DEF SecretPageInv, Dialog
<1>2. PICK k \in Key : k = c.key
  BY DEF WriteFails, SecretPageInv, WritesKnown
<1>3. /\ UNCHANGED << onPage, store, secrets, versions, said >>
      /\ writes' = [writes EXCEPT ![w] = NoWrite]
  BY DEF WriteFails
<1>4. NoWrite \in WriteRec /\ NoWrite.step = "sent" /\ NoWrite.op = "none"
  BY DEF NoWrite, WriteRec
<1>5. /\ writes' \in [Write -> WriteRec]
      /\ \A x \in Write : WriteMove(writes[x], writes'[x])
  BY <1>1, <1>3, <1>4 DEF WriteMove
<1>6. dialog' \in Dialog /\ dialog'.drawer.key = dialog.drawer.key
  <2>1. \/ dialog' = dialog
        \/ dialog' = [dialog EXCEPT !.drawer = [dialog.drawer EXCEPT !.busy = FALSE]]
    BY DEF WriteFails
  <2> DEFINE d == [dialog.drawer EXCEPT !.busy = FALSE]
  <2>2. d \in Drawer /\ d.key = dialog.drawer.key
    BY <1>1 DEF Drawer
  <2> HIDE DEF d
  <2>3. CASE dialog' = [dialog EXCEPT !.drawer = d]
    BY <1>1, <2>2, <2>3 DEF Dialog
  <2> QED
    BY <1>1, <2>1, <2>3 DEF d
<1>7. /\ row' \in [Key -> RowRec]
      /\ \A j \in Key :
           /\ row'[j].draft # NoEntry => row'[j].draft = Shown(secrets, j)
           /\ row'[j].confirm # NoEntry => row'[j].confirm.version = Shown(secrets, j).version
  <2> DEFINE r == [row[k] EXCEPT !.busy = FALSE]
  <2>1. row' = row \/ row' = [row EXCEPT ![k] = r]
    BY <1>2 DEF WriteFails
  <2>2. r \in RowRec /\ r.draft = row[k].draft /\ r.confirm = row[k].confirm
    BY RowShows DEF RowRec
  <2> HIDE DEF r
  <2> QED
    BY <1>1, <2>1, <2>2, RowShows
<1>8. CalmStep
  BY <1>3, <1>5, <1>6, <1>7 DEF CalmStep
<1> QED
  BY <1>8, CalmKeeps

-----------------------------------------------------------------------------
(* The page is left, entered again, or prefetched.                         *)

LEMMA LeaveStep ==
  ASSUME SecretPageInv, LeaveSecrets
  PROVE  SecretPageInv'
<1>1. /\ store \in Store /\ secrets \in QueryOf(Store) /\ versions \in QueryOf(Store)
      /\ writes \in [Write -> WriteRec] /\ said \in [Queries -> [Key -> Int]]
  BY SecretParts DEF SecretPageInv
<1>2. /\ UNCHANGED << store, said >> /\ ~onPage' /\ onPage' \in BOOLEAN
      /\ secrets' = UnmountQuery(secrets) /\ versions' = UnmountQuery(versions)
      /\ row' = [k \in Key |-> FreshRow] /\ dialog' = NoDialog
  BY DEF LeaveSecrets
<1>3. secrets' \in QueryOf(Store) /\ versions' \in QueryOf(Store)
  BY <1>1, <1>2, QueryType
<1>4. /\ row' \in [Key -> RowRec]
      /\ \A k \in Key : row'[k].draft = NoEntry /\ row'[k].confirm = NoEntry
  BY <1>2 DEF FreshRow, RowRec, NoEntry, Entry
<1>5. dialog' \in Dialog /\ ~DrawerOpen(dialog'.drawer, secrets')
  BY <1>2 DEF NoDialog, NoDrawer, Dialog, Drawer, DrawerOpen
<1>6. ASSUME NEW x \in Write
      PROVE  writes'[x] \in WriteRec /\ WriteMove(writes[x], writes'[x])
  <2>1. writes'[x] = [writes[x] EXCEPT !.page = FALSE, !.here = FALSE, !.pending = FALSE,
                                       !.awaits = FALSE]
    BY DEF LeaveSecrets
  <2>2. writes[x] \in WriteRec
    BY <1>1
  <2> QED
    BY <2>1, <2>2 DEF WriteRec, WriteMove
<1>7. writes' \in [Write -> WriteRec]
  BY <1>6 DEF LeaveSecrets
<1>8. SecretPageTypeOK'
  BY <1>1, <1>2, <1>3, <1>4, <1>5, <1>7 DEF SecretPageTypeOK, RowRec, Drawer, Dialog, WriteRec
<1>9. WritesKnown'
  BY <1>2, <1>6, WritesKept DEF SecretPageInv
<1>10. RowsActOnWhatIsShown'
  BY <1>4 DEF RowsActOnWhatIsShown
<1>11. \A q \in Queries : Good(q, said, writes) \subseteq Good(q, said', writes')
  BY <1>2, <1>6, GoodGrows
<1>12. /\ FreshQuery(secrets', FALSE, Good("secrets", said, writes))
       /\ FreshQuery(versions', FALSE, Good("versions", said, writes))
  BY <1>1, <1>2, FreshUnmount DEF SecretPageInv
<1>13. /\ FreshQuery(secrets', FALSE, Good("secrets", said', writes'))
       /\ FreshQuery(versions', FALSE, Good("versions", said', writes'))
  BY <1>11, <1>12, FreshGrows, QueryNames
<1> QED
  BY <1>2, <1>5, <1>8, <1>9, <1>10, <1>13 DEF SecretPageInv, FreshQuery

LEMMA MountStep ==
  ASSUME SecretPageInv, ReturnToSecrets \/ PrefetchSecrets
  PROVE  SecretPageInv'
<1>1. /\ SecretPageTypeOK /\ store \in Store /\ secrets \in QueryOf(Store)
      /\ versions \in QueryOf(Store) /\ onPage \in BOOLEAN
  BY SecretParts DEF SecretPageInv
<1>2. /\ UNCHANGED << store, versions, row, dialog, writes, said >> /\ onPage' \in BOOLEAN
      /\ \E aged \in BOOLEAN : secrets' = MountQuery(secrets, aged)
  BY <1>1 DEF ReturnToSecrets, PrefetchSecrets, FetchQuery
<1>3. secrets' \in QueryOf(Store) /\ secrets'.data = secrets.data
  <2>1. secrets' \in QueryOf(Store)
    BY <1>1, <1>2, QueryType
  <2>2. secrets' = Refetch(secrets) \/ secrets' = secrets
    BY <1>2 DEF MountQuery
  <2>3. Refetch(secrets).data = secrets.data
    BY <1>1 DEF Refetch, QueryOf
  <2> QED
    BY <2>1, <2>2, <2>3
<1>4. /\ \A k : Shown(secrets', k) = Shown(secrets, k)
      /\ DrawerOpen(dialog'.drawer, secrets') <=> DrawerOpen(dialog.drawer, secrets)
  BY <1>2, <1>3, ShownByData
<1>5. SecretPageTypeOK'
  BY <1>1, <1>2, <1>3 DEF SecretPageTypeOK
<1>6. RowsActOnWhatIsShown'
  BY <1>2, <1>4 DEF SecretPageInv, RowsActOnWhatIsShown
<1>7. FreshQuery(secrets', onPage', Good("secrets", said', writes'))
  BY <1>1, <1>2, FreshMount DEF SecretPageInv
<1>8. FreshQuery(versions', DrawerOpen(dialog'.drawer, secrets'), Good("versions", said', writes'))
  BY <1>2, <1>4 DEF SecretPageInv, FreshQuery
<1> QED
  BY <1>2, <1>5, <1>6, <1>7, <1>8 DEF SecretPageInv, WritesKnown

-----------------------------------------------------------------------------
(* The invariant holds, and with it the properties.                        *)

LEMMA OwnVersions == MaxVersion[FALSE] \in Nat \ {0}
<1>1. \A b \in BOOLEAN : MaxVersion[b] \in Nat \ {0}
  BY SecretPageAssumption
<1>2. FALSE \in BOOLEAN
  OBVIOUS
<1> QED
  BY ONLY <1>1, <1>2, Zenon

LEMMA SecretInvInit == SecretPageInit => SecretPageInv
<1> SUFFICES ASSUME SecretPageInit PROVE SecretPageInv
  OBVIOUS
<1> DEFINE m == MaxVersion[FALSE]
<1> DEFINE Inherited == [version |-> 0, live |-> FALSE, inherited |-> TRUE]
<1> DEFINE Owned == [version |-> m - 1, live |-> m > 1, inherited |-> FALSE]
<1>0. m \in Nat \ {0} /\ store \in [Key -> {Inherited, Owned}]
  BY OwnVersions, Zenon DEF SecretPageInit
<1> HIDE DEF m
<1>1. store \in Store
  <2>1. m - 1 \in Nat /\ (m > 1) \in BOOLEAN
    BY <1>0
  <2>2. /\ Inherited \in [version : Nat, live : BOOLEAN, inherited : BOOLEAN]
        /\ Owned \in [version : Nat, live : BOOLEAN, inherited : BOOLEAN]
    BY <2>1
  <2> HIDE DEF Inherited, Owned
  <2> QED
    BY <1>0, <2>2 DEF Store
<1>2. /\ secrets \in QueryOf(Store) /\ versions \in QueryOf(Store)
      /\ secrets.data = NoData /\ secrets.fetch = "asked"
      /\ versions.data = NoData /\ versions.fetch = "idle"
  <2>1. EmptyQuery \in QueryOf(Store)
    BY DEF EmptyQuery, QueryOf
  <2>2. MountQuery(EmptyQuery, FALSE) \in QueryOf(Store)
    BY <1>1, <2>1, QueryType
  <2> QED
    BY <2>1, <2>2 DEF SecretPageInit, MountQuery, EmptyQuery, Refetch, isFetching
<1>3. /\ row = [k \in Key |-> FreshRow] /\ NoEntry \in Entry
      /\ FreshRow \in RowRec /\ FreshRow.draft = NoEntry /\ FreshRow.confirm = NoEntry
  BY DEF SecretPageInit, FreshRow, RowRec, NoEntry, Entry
<1>4. dialog \in Dialog /\ dialog.drawer.key = NoKey
  BY DEF SecretPageInit, Dialog, Drawer, NoDrawer, NoDialog
<1>5. /\ writes = [w \in Write |-> NoWrite]
      /\ said = [q \in Queries |-> [k \in Key |-> 0]] /\ onPage = TRUE
      /\ NoWrite \in WriteRec /\ NoWrite.step = "sent" /\ NoWrite.op = "none"
  BY DEF SecretPageInit, NoWrite, WriteRec
<1>6. SecretPageTypeOK
  BY <1>1, <1>2, <1>3, <1>4, <1>5, SecretParts
<1>7. \A k \in Key : Age(store[k]) >= 0
  <2> SUFFICES ASSUME NEW k \in Key PROVE Age(store[k]) >= 0
    OBVIOUS
  <2>1. Age(Inherited) >= 0
    BY DEF Age
  <2>2. Age(Owned) >= 0
    <3>1. Owned.version = m - 1 /\ (Owned.live <=> m > 1)
      OBVIOUS
    <3>2. CASE m > 1
      BY <1>0, <3>1, <3>2 DEF Age
    <3>3. CASE ~(m > 1)
      <4>1. ~Owned.live
        BY <3>1, <3>3
      <4> HIDE DEF Owned
      <4>2. Age(Owned) = 2 * Owned.version
        BY <1>0, <3>1, <4>1 DEF Age
      <4> QED
        BY <1>0, <3>1, <4>2
    <3> QED
      BY <3>2, <3>3
  <2>3. store[k] = Inherited \/ store[k] = Owned
    BY <1>0, Zenon
  <2> HIDE DEF Inherited, Owned
  <2> QED
    BY <2>1, <2>2, <2>3
<1>8. WritesKnown
  BY <1>5, <1>7 DEF WritesKnown
<1>9. RowsActOnWhatIsShown
  BY <1>3 DEF RowsActOnWhatIsShown
<1>10. FreshQuery(secrets, onPage, Good("secrets", said, writes))
  BY <1>2 DEF FreshQuery
<1>11. FreshQuery(versions, DrawerOpen(dialog.drawer, secrets), Good("versions", said, writes))
  BY <1>2, <1>4 DEF FreshQuery, DrawerOpen
<1> QED
  BY <1>6, <1>8, <1>9, <1>10, <1>11 DEF SecretPageInv

LEMMA SecretInvNext == SecretPageInv /\ [SecretPageNext]_secretVars => SecretPageInv'
<1> SUFFICES ASSUME SecretPageInv, [SecretPageNext]_secretVars PROVE SecretPageInv'
  OBVIOUS
<1>1. CASE UNCHANGED secretVars
  <2>1. SecretPageTypeOK'
    BY <1>1 DEF secretVars, SecretPageInv, SecretPageTypeOK
  <2> QED
    BY <1>1, <2>1 DEF secretVars, SecretPageInv, WritesKnown, RowsActOnWhatIsShown
<1>2. ASSUME NEW k \in Key, RowActs(k) PROVE SecretPageInv'
  BY <1>2, RowStep, SendStep, OpenHistoryStep, WriteElsewhereStep DEF RowActs
<1>3. CASE \/ OpenAdd \/ CloseAdd \/ StartRollback \/ CancelRollback
           \/ \E v \in 1..MaxVersion[FALSE] : SelectVersion(v)
  BY <1>3, DialogStep
<1>4. CASE ConfirmRollback \/ CloseDrawer
  BY <1>4, SendStep, CloseDrawerStep
<1>5. CASE SecretsFetched \/ VersionsFetched
  BY <1>5, SecretsStep, VersionsStep
<1>6. ASSUME NEW w \in Write,
             ServeSecretWrite(w) \/ WriteSucceeds(w) \/ WriteIsTold(w) \/ WriteFails(w)
      PROVE  SecretPageInv'
  BY <1>6, ServeChangeStep, SucceedsStep, ToldStep, FailsStep
<1>7. CASE LeaveSecrets \/ ReturnToSecrets \/ PrefetchSecrets
  BY <1>7, LeaveStep, MountStep
<1> QED
  BY <1>1, <1>2, <1>3, <1>4, <1>5, <1>6, <1>7 DEF SecretPageNext

(* The inductive invariant of the secrets page.                            *)
THEOREM SecretPageInvariant == SecretPageSpec => []SecretPageInv
<1>1. SecretPageInit => SecretPageInv
  BY SecretInvInit
<1>2. SecretPageInv /\ [SecretPageNext]_secretVars => SecretPageInv'
  BY SecretInvNext
<1> QED
  BY <1>1, <1>2, PTL DEF SecretPageSpec

(* The table, the drawer, the queries and the writes keep their types.     *)
THEOREM SecretPageTypeCorrect == SecretPageSpec => []SecretPageTypeOK
<1>1. SecretPageInv => SecretPageTypeOK
  BY DEF SecretPageInv
<1> QED
  BY <1>1, SecretPageInvariant, PTL

(* A settled table, and the versions of an open drawer, hold every key as  *)
(* new as the last write that was announced, however many writes of the    *)
(* page and of others, visits and prefetches overlap the fetches; but for  *)
(* the writes whose invalidation found a fetch it did not replace.         *)
THEOREM SaidIsShown == SecretPageSpec => []PageShowsWhatWasSaid
<1>1. SecretPageInv => PageShowsWhatWasSaid
  <2> SUFFICES ASSUME SecretPageInv, NEW k \in Key
               PROVE  /\ onPage /\ Settled(secrets) =>
                           Age(secrets.data[k]) >= said["secrets"][k]
                      /\ DrawerOpen(dialog.drawer, secrets) /\ Settled(versions)
                           => Age(versions.data[k]) >= said["versions"][k]
    BY DEF PageShowsWhatWasSaid
  <2>1. ASSUME NEW q \in QueryOf(Store), NEW n, FreshQuery(q, TRUE, Good(n, said, writes)),
               Settled(q)
        PROVE  Age(q.data[k]) >= said[n][k]
    BY <2>1 DEF FreshQuery, Settled, QueryOf, Good, ShowsWrites
  <2>2. /\ secrets \in QueryOf(Store) /\ versions \in QueryOf(Store)
        /\ FreshQuery(secrets, onPage, Good("secrets", said, writes))
        /\ FreshQuery(versions, DrawerOpen(dialog.drawer, secrets), Good("versions", said, writes))
    BY SecretParts DEF SecretPageInv
  <2>3. /\ onPage => FreshQuery(secrets, TRUE, Good("secrets", said, writes))
        /\ DrawerOpen(dialog.drawer, secrets) =>
             FreshQuery(versions, TRUE, Good("versions", said, writes))
    BY <2>2 DEF FreshQuery
  <2> QED
    BY <2>1, <2>2, <2>3
<1> QED
  BY <1>1, SecretPageInvariant, PTL

(* What is typed over is what the table shows, whoever wrote the key       *)
(* meanwhile, and the version number beside which a deletion is confirmed  *)
(* is the one shown.                                                       *)
THEOREM RowsAreRight == SecretPageSpec => []RowsActOnWhatIsShown
<1>1. SecretPageInv => RowsActOnWhatIsShown
  BY DEF SecretPageInv
<1> QED
  BY <1>1, SecretPageInvariant, PTL

(***************************************************************************)
(* The command palette.                                                    *)
(***************************************************************************)

(* A prefetch whose outcome counts.                                        *)
Live(g) == prefetches[g].state # "none" /\ ~prefetches[g].cancelled

(* Everything wanted is there, or in S.                                    *)
Covers(S) ==
  /\ projectsQuery.data # NoData
  /\ Wanted(projectsQuery.data, screen) \subseteq warm \cup S

(* One prefetch counts at a time, while the palette is open.  It waits for *)
(* all that is not cached; nothing is collected meanwhile.                 *)
OneCounts ==
  /\ \A g, h \in Prefetch : Live(g) /\ Live(h) => g = h
  /\ \A g \in Prefetch : Live(g) => palette.open
  /\ \A g \in Prefetch : Live(g) /\ prefetches[g].state = "loading" =>
       Covers(prefetches[g].todo)

(* What is ready is open, and has everything.                              *)
ReadyCovers ==
  palette.status = "ready" => palette.open /\ Covers({})

(* An answer on its way is one.                                            *)
AnswerIsOne == projectsQuery.fetch = "answered" => projectsQuery.answer # NoData

(* A name that is not in use waits for nothing.                            *)
IdleWaitsForNothing ==
  \A g \in Prefetch : prefetches[g].state = "none" => prefetches[g].todo = {}

PaletteInv == PaletteTypeOK /\ AnswerIsOne /\ OneCounts /\ ReadyCovers

-----------------------------------------------------------------------------
(* The query.                                                              *)

Lists == SUBSET Project

(* None of these touches the cached list, and each leaves a query.         *)
LEMMA QueryKeeps ==
  ASSUME NEW q \in QueryOf(Lists), NEW b \in BOOLEAN
  PROVE  /\ Refetch(q) \in QueryOf(Lists) /\ Refetch(q).data = q.data
         /\ Refetch(q).fetch = "asked"
         /\ MountQuery(q, b) \in QueryOf(Lists) /\ MountQuery(q, b).data = q.data
         /\ MountQuery(q, b) = q \/ MountQuery(q, b).fetch = "asked"
         /\ UnmountQuery(q) \in QueryOf(Lists) /\ UnmountQuery(q).data = q.data
         /\ UnmountQuery(q).fetch = "idle"
<1>1. Refetch(q) \in QueryOf(Lists) /\ Refetch(q).data = q.data /\ Refetch(q).fetch = "asked"
  BY DEF Refetch, QueryOf
<1>2. UnmountQuery(q) \in QueryOf(Lists) /\ UnmountQuery(q).data = q.data
      /\ UnmountQuery(q).fetch = "idle"
  BY DEF UnmountQuery, QueryOf
<1> QED
  BY <1>1, <1>2 DEF MountQuery

LEMMA QueryMovesOn ==
  ASSUME NEW q \in QueryOf(Lists), NEW q2, NEW s \in Lists, NEW b \in BOOLEAN,
         QueryMoves(q, q2, s, b),
         q.fetch = "answered" => q.answer # NoData
  PROVE  /\ q2 \in QueryOf(Lists)
         /\ q2.fetch = "answered" => q2.answer # NoData
         /\ b /\ q2.data # q.data => q2.data # NoData
<1>1. s # NoData
  BY PaletteAssumption DEF Lists
<1>2. CASE q.fetch = "asked" /\ q2 = AnswerQuery(q, s)
  BY <1>1, <1>2 DEF AnswerQuery, QueryOf
<1>3. CASE q.fetch = "answered" /\ q2 = LandQuery(q)
  BY <1>3 DEF LandQuery, QueryOf, isLoading, isFetching
<1>4. CASE isFetching(q) /\ q2 = FailQuery(q)
  BY <1>4 DEF FailQuery, QueryOf
<1>5. CASE b /\ ~isFetching(q) /\ q2 = Refetch(q)
  BY <1>5, QueryKeeps
<1>6. CASE ~b /\ q.data # NoData /\ q2 = EmptyQuery
  BY <1>6 DEF EmptyQuery, QueryOf
<1> QED
  BY <1>2, <1>3, <1>4, <1>5, <1>6 DEF QueryMoves

-----------------------------------------------------------------------------
(* The effects.                                                            *)

Palette == [open : BOOLEAN, status : {"pending", "ready", "error"},
            hadError : BOOLEAN, recovered : BOOLEAN, clears : BOOLEAN]
Prefetches == [Prefetch -> [state : {"none", "loading", "failed"},
                            todo : SUBSET Target, cancelled : BOOLEAN]]

LEMMA PaletteTypeParts ==
  PaletteTypeOK <=> /\ projects \in Lists
                    /\ projectsQuery \in QueryOf(Lists)
                    /\ screen \in Environment \cup {Elsewhere}
                    /\ palette \in Palette
                    /\ prefetches \in Prefetches
                    /\ warm \in SUBSET Target /\ loading \in SUBSET Target
BY DEF PaletteTypeOK, Palette, Prefetches, Lists

(* The effect on errors keeps what the palette is.                         *)
LEMMA WatchKeeps ==
  ASSUME NEW p, NEW q \in Palette, NEW before, NEW after
  PROVE  /\ Watch(p, q, before, after) \in Palette
         /\ Watch(p, q, before, after).open = q.open
         /\ Watch(p, q, before, after).status = q.status
BY DEF Watch, Palette

LEMMA SetStatusSets ==
  ASSUME NEW p \in Palette, NEW status \in {"pending", "ready", "error"}, NEW err
  PROVE  /\ SetStatus(p, status, err) \in Palette
         /\ SetStatus(p, status, err).open = p.open
         /\ SetStatus(p, status, err).status = status
<1> DEFINE q == [p EXCEPT !.status = status]
<1>1. q \in Palette /\ q.open = p.open /\ q.status = status
  BY DEF Palette
<1>2. SetStatus(p, status, err) = Watch(p, q, err, err)
  BY DEF SetStatus
<1> HIDE DEF q
<1> QED
  BY <1>1, <1>2, WatchKeeps

(* The cleanup: no prefetch counts.                                        *)
LEMMA CancelledCounts ==
  ASSUME prefetches \in Prefetches
  PROVE  /\ Cancelled(prefetches) \in Prefetches
         /\ \A g \in Prefetch : \/ Cancelled(prefetches)[g].state = "none"
                                \/ Cancelled(prefetches)[g].cancelled
BY DEF Cancelled, Prefetches, NoPrefetch

(* The prefetch effect: without a list nothing happens; with one, a new    *)
(* prefetch alone counts, and waits for what is wanted and not cached.     *)
LEMMA RestartDoes ==
  ASSUME PaletteTypeOK, NEW p \in Palette, NEW known \in {NoData} \cup Lists,
         NEW ctx \in Environment \cup {Elsewhere}, NEW err, Restart(p, known, ctx, err)
  PROVE  /\ palette' \in Palette /\ prefetches' \in Prefetches
         /\ loading' \in SUBSET Target
         /\ palette'.open = p.open
         /\ \/ known = NoData /\ palette' = p /\ prefetches' = prefetches
            \/ /\ known # NoData /\ palette'.status = "pending"
               /\ \E g \in Prefetch :
                    /\ Wanted(known, ctx) \subseteq warm \cup prefetches'[g].todo
                    /\ \A h \in Prefetch \ {g} : \/ prefetches'[h].state = "none"
                                                 \/ prefetches'[h].cancelled
<1>1. prefetches \in Prefetches /\ warm \subseteq Target /\ loading \subseteq Target
  BY PaletteTypeParts
<1>2. CASE known = NoData
  BY <1>1, <1>2 DEF Restart
<1>3. CASE known # NoData
  <2>1. PICK g \in Prefetch, aged \in SUBSET warm :
          /\ prefetches' = [Cancelled(prefetches) EXCEPT ![g] =
               [state |-> "loading", todo |-> ToLoad(known, ctx, aged), cancelled |-> FALSE]]
          /\ loading' = loading \cup ToLoad(known, ctx, aged)
          /\ palette' = SetStatus(p, "pending", err)
    BY <1>3 DEF Restart
  <2>2. Wanted(known, ctx) \subseteq Target
    BY <1>3 DEF Wanted, Lists, Target
  <2>3. ToLoad(known, ctx, aged) \subseteq Target
    BY <2>2 DEF ToLoad
  <2>4. Wanted(known, ctx) \subseteq warm \cup ToLoad(known, ctx, aged)
    BY DEF ToLoad
  <2> DEFINE todo == ToLoad(known, ctx, aged)
  <2> HIDE DEF todo
  <2>5. prefetches' = [Cancelled(prefetches) EXCEPT ![g] =
               [state |-> "loading", todo |-> todo, cancelled |-> FALSE]]
    BY <2>1 DEF todo
  <2>6. [state |-> "loading", todo |-> todo, cancelled |-> FALSE] \in
          [state : {"none", "loading", "failed"}, todo : SUBSET Target, cancelled : BOOLEAN]
    BY <2>3 DEF todo
  <2>7. Cancelled(prefetches) \in Prefetches
    BY <1>1, CancelledCounts
  <2>8. prefetches' \in Prefetches
    BY <2>5, <2>6, <2>7 DEF Prefetches
  <2>9. /\ prefetches'[g].todo = todo
        /\ \A h \in Prefetch \ {g} : prefetches'[h] = Cancelled(prefetches)[h]
    BY <2>5, <2>7 DEF Prefetches
  <2>10. palette' \in Palette /\ palette'.open = p.open /\ palette'.status = "pending"
    BY <2>1, SetStatusSets
  <2>11. loading' \subseteq Target
    BY <1>1, <2>1, <2>3
  <2>12. Wanted(known, ctx) \subseteq warm \cup prefetches'[g].todo
    BY <2>4, <2>9 DEF todo
  <2>13. \A h \in Prefetch \ {g} : \/ prefetches'[h].state = "none"
                                   \/ prefetches'[h].cancelled
    BY <1>1, <2>9, CancelledCounts
  <2> QED
    BY <1>3, <2>8, <2>10, <2>11, <2>12, <2>13
<1> QED
  BY <1>2, <1>3

-----------------------------------------------------------------------------
(* The steps keep the invariant.                                           *)

(* A step in which the prefetch effect runs again.                         *)
LEMMA RestartKeeps ==
  ASSUME PaletteInv, NEW p \in Palette, NEW known \in {NoData} \cup Lists,
         NEW ctx \in Environment \cup {Elsewhere}, NEW err, Restart(p, known, ctx, err),
         p.open, p.status = "ready" => palette.status = "ready",
         palette.open \/ p.status # "ready",
         screen' = ctx, projectsQuery'.data = known, warm' = warm,
         known = NoData => projectsQuery.data = NoData
  PROVE  OneCounts' /\ ReadyCovers'
<1>1. /\ palette'.open
      /\ \/ known = NoData /\ palette' = p /\ prefetches' = prefetches
         \/ /\ known # NoData /\ palette'.status = "pending"
            /\ \E g \in Prefetch :
                 /\ Wanted(known, ctx) \subseteq warm \cup prefetches'[g].todo
                 /\ \A h \in Prefetch \ {g} : \/ prefetches'[h].state = "none"
                                              \/ prefetches'[h].cancelled
  BY RestartDoes DEF PaletteInv
<1>2. OneCounts /\ ReadyCovers
  BY DEF PaletteInv
<1>3. CASE known = NoData /\ palette' = p /\ prefetches' = prefetches
  <2>1. p.status # "ready"
    BY <1>2, <1>3 DEF ReadyCovers, Covers
  <2>2. \A g \in Prefetch : Live(g) => prefetches[g].state # "loading"
    BY <1>2, <1>3 DEF OneCounts, Covers
  <2> QED
    BY <1>1, <1>2, <1>3, <2>1, <2>2 DEF OneCounts, ReadyCovers, Live
<1>4. CASE known # NoData /\ palette'.status = "pending"
  BY <1>1, <1>4 DEF OneCounts, ReadyCovers, Live, Covers
<1> QED
  BY <1>1, <1>3, <1>4

(* A step that changes neither the list nor the screen, and at most adds   *)
(* to the cache, ends prefetches or waits for less of them.                *)
LEMMA PaletteKept ==
  ASSUME PaletteInv,
         projectsQuery'.data = projectsQuery.data, screen' = screen,
         palette'.open = palette.open, palette'.status = palette.status,
         warm \subseteq warm',
         \A g \in Prefetch :
           /\ Live(g)' => Live(g)
           /\ Live(g)' /\ prefetches'[g].state = "loading" =>
                /\ prefetches[g].state = "loading"
                /\ prefetches[g].todo \subseteq warm' \cup prefetches'[g].todo
  PROVE  OneCounts' /\ ReadyCovers'
<1>1. OneCounts /\ ReadyCovers
  BY DEF PaletteInv
<1>2. OneCounts'
  <2>1. \A g, h \in Prefetch : Live(g)' /\ Live(h)' => g = h
    BY <1>1 DEF OneCounts
  <2>2. \A g \in Prefetch : Live(g)' => palette'.open
    BY <1>1 DEF OneCounts
  <2>3. ASSUME NEW g \in Prefetch, Live(g)', prefetches'[g].state = "loading"
        PROVE  /\ projectsQuery'.data # NoData
               /\ Wanted(projectsQuery'.data, screen') \subseteq warm' \cup prefetches'[g].todo
    <3>1. /\ Live(g) /\ prefetches[g].state = "loading"
          /\ prefetches[g].todo \subseteq warm' \cup prefetches'[g].todo
      BY <2>3
    <3>2. /\ projectsQuery.data # NoData
          /\ Wanted(projectsQuery.data, screen) \subseteq warm \cup prefetches[g].todo
      BY <1>1, <3>1 DEF OneCounts, Covers
    <3> QED
      BY <3>1, <3>2
  <2> QED
    BY <2>1, <2>2, <2>3 DEF OneCounts, Covers, Live
<1>3. ReadyCovers'
  BY <1>1 DEF ReadyCovers, Covers
<1> QED
  BY <1>2, <1>3

(* With the palette closed no prefetch counts and nothing is ready.        *)
LEMMA ClosedKept ==
  ASSUME PaletteInv, ~palette.open, palette' = palette,
         \A g \in Prefetch : Live(g)' => Live(g)
  PROVE  OneCounts' /\ ReadyCovers'
<1>1. /\ \A g \in Prefetch : ~Live(g)
      /\ palette.status # "ready"
  BY DEF PaletteInv, OneCounts, ReadyCovers
<1> QED
  BY <1>1 DEF OneCounts, ReadyCovers, Live

LEMMA OpenPaletteKeeps == PaletteInv /\ OpenPalette => PaletteInv'
<1> SUFFICES ASSUME PaletteInv, OpenPalette PROVE PaletteInv'
  OBVIOUS
<1> USE PaletteTypeParts
<1>1. PICK aged \in BOOLEAN : projectsQuery' = MountQuery(projectsQuery, aged)
  BY DEF OpenPalette
<1> DEFINE opened == [Closed EXCEPT !.open = TRUE, !.hadError = projectsQuery'.error]
<1>2. Restart(opened, projectsQuery.data, screen, projectsQuery'.error)
  BY DEF OpenPalette
<1>3. projectsQuery \in QueryOf(Lists) /\ projectsQuery.data \in {NoData} \cup Lists
  BY DEF PaletteInv, QueryOf
<1>4. /\ projectsQuery' \in QueryOf(Lists) /\ projectsQuery'.data = projectsQuery.data
      /\ projectsQuery' = projectsQuery \/ projectsQuery'.fetch = "asked"
  BY <1>1, <1>3, QueryKeeps
<1>5. projectsQuery'.error \in BOOLEAN
  BY <1>4 DEF QueryOf
<1>6. opened \in Palette /\ opened.open /\ opened.status = "pending"
  BY <1>5 DEF Closed, Palette
<1>7. UNCHANGED << projects, screen, warm >> /\ screen \in Environment \cup {Elsewhere}
  BY DEF OpenPalette, PaletteInv
<1> HIDE DEF opened
<1>8. OneCounts' /\ ReadyCovers'
  BY <1>2, <1>3, <1>4, <1>6, <1>7, RestartKeeps
<1>9. palette' \in Palette /\ prefetches' \in Prefetches /\ loading' \in SUBSET Target
  BY <1>2, <1>3, <1>6, <1>7, RestartDoes DEF PaletteInv
<1>10. PaletteTypeOK'
  BY <1>4, <1>7, <1>9 DEF PaletteInv, PaletteTypeOK, Lists, Palette, Prefetches
<1>11. AnswerIsOne'
  BY <1>4 DEF AnswerIsOne, PaletteInv
<1> QED
  BY <1>8, <1>10, <1>11 DEF PaletteInv

LEMMA ChangeContextKeeps == PaletteInv /\ ChangeContext => PaletteInv'
<1> SUFFICES ASSUME PaletteInv, ChangeContext PROVE PaletteInv'
  OBVIOUS
<1> USE PaletteTypeParts
<1>1. /\ palette.open /\ screen' \in Environment \cup {Elsewhere}
      /\ Restart(palette, projectsQuery.data, screen', projectsQuery.error)
      /\ UNCHANGED << projects, projectsQuery, warm >>
  BY DEF ChangeContext
<1>2. projectsQuery.data \in {NoData} \cup Lists /\ palette \in Palette
  BY DEF PaletteInv, QueryOf
<1>3. PICK ctx \in Environment \cup {Elsewhere} : ctx = screen'
  BY <1>1
<1>4. OneCounts' /\ ReadyCovers'
  BY <1>1, <1>2, <1>3, RestartKeeps
<1>5. palette' \in Palette /\ prefetches' \in Prefetches /\ loading' \in SUBSET Target
  BY <1>1, <1>2, <1>3, RestartDoes DEF PaletteInv
<1>6. PaletteTypeOK' /\ AnswerIsOne'
  BY <1>1, <1>5 DEF PaletteInv, PaletteTypeOK, Lists, Palette, Prefetches, AnswerIsOne
<1> QED
  BY <1>4, <1>6 DEF PaletteInv

LEMMA ProjectsMoveKeeps == PaletteInv /\ ProjectsMove => PaletteInv'
<1> SUFFICES ASSUME PaletteInv, ProjectsMove PROVE PaletteInv'
  OBVIOUS
<1> USE PaletteTypeParts
<1>1. /\ QueryMoves(projectsQuery, projectsQuery', projects, palette.open)
      /\ UNCHANGED << projects, screen, warm >>
  BY DEF ProjectsMove
<1>2. /\ projectsQuery \in QueryOf(Lists) /\ projects \in Lists /\ palette \in Palette
      /\ projectsQuery.fetch = "answered" => projectsQuery.answer # NoData
      /\ screen \in Environment \cup {Elsewhere}
  BY DEF PaletteInv, AnswerIsOne
<1>3. palette.open \in BOOLEAN
  BY <1>2 DEF Palette
<1>4. /\ projectsQuery' \in QueryOf(Lists)
      /\ projectsQuery'.fetch = "answered" => projectsQuery'.answer # NoData
      /\ palette.open /\ projectsQuery'.data # projectsQuery.data
           => projectsQuery'.data # NoData
  BY <1>1, <1>2, <1>3, QueryMovesOn
<1> DEFINE seen == Watch(palette, palette, projectsQuery.error, projectsQuery'.error)
<1>5. seen \in Palette /\ seen.open = palette.open /\ seen.status = palette.status
  BY <1>2, WatchKeeps
<1>6. CASE ~palette.open
  <2>1. UNCHANGED << palette, prefetches, loading >>
    BY <1>6 DEF ProjectsMove
  <2>2. OneCounts' /\ ReadyCovers'
    BY <1>6, <2>1, ClosedKept DEF Live
  <2>3. PaletteTypeOK' /\ AnswerIsOne'
    BY <1>1, <1>4, <2>1 DEF PaletteInv, PaletteTypeOK, Lists, AnswerIsOne
  <2> QED
    BY <2>2, <2>3 DEF PaletteInv
<1>7. CASE palette.open /\ projectsQuery'.data # projectsQuery.data
  <2>1. Restart(seen, projectsQuery'.data, screen, projectsQuery'.error)
    BY <1>7 DEF ProjectsMove
  <2>2. projectsQuery'.data \in {NoData} \cup Lists
    BY <1>4 DEF QueryOf
  <2> HIDE DEF seen
  <2>3. OneCounts' /\ ReadyCovers'
    BY <1>1, <1>2, <1>4, <1>5, <1>7, <2>1, <2>2, RestartKeeps
  <2>4. palette' \in Palette /\ prefetches' \in Prefetches /\ loading' \in SUBSET Target
    BY <1>2, <1>5, <2>1, <2>2, RestartDoes DEF PaletteInv
  <2>5. PaletteTypeOK' /\ AnswerIsOne'
    BY <1>1, <1>4, <2>4
    DEF PaletteInv, PaletteTypeOK, Lists, Palette, Prefetches, AnswerIsOne
  <2> QED
    BY <2>3, <2>5 DEF PaletteInv
<1>8. CASE palette.open /\ projectsQuery'.data = projectsQuery.data
  <2>1. palette' = seen /\ UNCHANGED << prefetches, loading >>
    BY <1>8 DEF ProjectsMove
  <2> HIDE DEF seen
  <2>2. OneCounts' /\ ReadyCovers'
    BY <1>1, <1>5, <1>8, <2>1, PaletteKept DEF Live
  <2>3. PaletteTypeOK' /\ AnswerIsOne'
    BY <1>1, <1>4, <1>5, <2>1 DEF PaletteInv, PaletteTypeOK, Lists, Palette, AnswerIsOne
  <2> QED
    BY <2>2, <2>3 DEF PaletteInv
<1> QED
  BY <1>6, <1>7, <1>8

LEMMA RetryKeeps == PaletteInv /\ Retry => PaletteInv'
<1> SUFFICES ASSUME PaletteInv, Retry PROVE PaletteInv'
  OBVIOUS
<1> USE PaletteTypeParts
<1>1. /\ palette.open /\ UNCHANGED << projects, screen, warm >>
      /\ \/ /\ projectsQuery' = Refetch(projectsQuery)
            /\ palette' = Watch(palette, palette, TRUE, projectsQuery'.error)
            /\ UNCHANGED << prefetches, loading >>
         \/ /\ Restart(palette, projectsQuery.data, screen, FALSE)
            /\ UNCHANGED projectsQuery
  BY DEF Retry
<1>2. /\ projectsQuery \in QueryOf(Lists) /\ palette \in Palette
      /\ projectsQuery.data \in {NoData} \cup Lists
      /\ screen \in Environment \cup {Elsewhere}
  BY DEF PaletteInv, QueryOf
<1>3. CASE /\ projectsQuery' = Refetch(projectsQuery)
           /\ palette' = Watch(palette, palette, TRUE, projectsQuery'.error)
           /\ UNCHANGED << prefetches, loading >>
  <2>1. /\ projectsQuery' \in QueryOf(Lists) /\ projectsQuery'.data = projectsQuery.data
        /\ projectsQuery'.fetch = "asked"
    BY <1>2, <1>3, QueryKeeps
  <2>2. palette' \in Palette /\ palette'.open = palette.open /\ palette'.status = palette.status
    BY <1>2, <1>3 DEF Watch, Palette
  <2>3. OneCounts' /\ ReadyCovers'
    BY <1>1, <1>3, <2>1, <2>2, PaletteKept DEF Live
  <2>4. PaletteTypeOK' /\ AnswerIsOne'
    BY <1>1, <1>3, <2>1, <2>2 DEF PaletteInv, PaletteTypeOK, Lists, Palette, AnswerIsOne
  <2> QED
    BY <2>3, <2>4 DEF PaletteInv
<1>4. CASE Restart(palette, projectsQuery.data, screen, FALSE) /\ UNCHANGED projectsQuery
  <2>1. OneCounts' /\ ReadyCovers'
    BY <1>1, <1>2, <1>4, RestartKeeps
  <2>2. palette' \in Palette /\ prefetches' \in Prefetches /\ loading' \in SUBSET Target
    BY <1>2, <1>4, RestartDoes DEF PaletteInv
  <2>3. PaletteTypeOK' /\ AnswerIsOne'
    BY <1>1, <1>4, <2>2
    DEF PaletteInv, PaletteTypeOK, Lists, Palette, Prefetches, AnswerIsOne
  <2> QED
    BY <2>1, <2>3 DEF PaletteInv
<1> QED
  BY <1>1, <1>3, <1>4

LEMMA ClosePaletteKeeps == PaletteInv /\ ClosePalette => PaletteInv'
<1> SUFFICES ASSUME PaletteInv, ClosePalette PROVE PaletteInv'
  OBVIOUS
<1> USE PaletteTypeParts
<1>1. /\ palette' = Closed /\ prefetches' = Cancelled(prefetches)
      /\ projectsQuery' = UnmountQuery(projectsQuery)
      /\ screen' \in Environment \cup {Elsewhere}
      /\ UNCHANGED << projects, warm, loading >>
  BY DEF ClosePalette
<1>2. projectsQuery \in QueryOf(Lists) /\ prefetches \in Prefetches
  BY DEF PaletteInv
<1>3. palette' \in Palette /\ palette'.status # "ready"
  BY <1>1 DEF Closed, Palette
<1>4. /\ prefetches' \in Prefetches
      /\ \A g \in Prefetch : prefetches'[g].state = "none" \/ prefetches'[g].cancelled
  BY <1>1, <1>2, CancelledCounts
<1>5. projectsQuery' \in QueryOf(Lists) /\ projectsQuery'.fetch = "idle"
  BY <1>1, <1>2, QueryKeeps
<1>6. OneCounts' /\ ReadyCovers'
  BY <1>3, <1>4 DEF OneCounts, ReadyCovers, Live
<1>7. PaletteTypeOK' /\ AnswerIsOne'
  BY <1>1, <1>3, <1>4, <1>5
  DEF PaletteInv, PaletteTypeOK, Lists, Palette, Prefetches, AnswerIsOne
<1> QED
  BY <1>6, <1>7 DEF PaletteInv

LEMMA TargetLoadsKeeps ==
  ASSUME PaletteInv, NEW t \in Target, TargetLoads(t)
  PROVE  PaletteInv'
<1> USE PaletteTypeParts
<1>1. /\ t \in loading /\ loading' = loading \ {t} /\ warm' = warm \cup {t}
      /\ prefetches' = [g \in Prefetch |-> [prefetches[g] EXCEPT !.todo = @ \ {t}]]
      /\ UNCHANGED << projects, projectsQuery, screen, palette >>
  BY DEF TargetLoads
<1>2. prefetches \in Prefetches /\ warm \subseteq Target /\ loading \subseteq Target
  BY DEF PaletteInv
<1>3. \A g \in Prefetch :
        /\ prefetches'[g].state = prefetches[g].state
        /\ prefetches'[g].cancelled = prefetches[g].cancelled
        /\ prefetches'[g].todo = prefetches[g].todo \ {t}
  BY <1>1, <1>2 DEF Prefetches
<1>4. prefetches' \in Prefetches
  BY <1>1, <1>2 DEF Prefetches
<1>5. OneCounts' /\ ReadyCovers'
  BY <1>1, <1>3, PaletteKept DEF Live
<1>6. PaletteTypeOK' /\ AnswerIsOne'
  BY <1>1, <1>2, <1>4 DEF PaletteInv, PaletteTypeOK, Prefetches, AnswerIsOne
<1> QED
  BY <1>5, <1>6 DEF PaletteInv

LEMMA TargetFailsKeeps ==
  ASSUME PaletteInv, IdleWaitsForNothing, NEW t \in Target, TargetFails(t)
  PROVE  PaletteInv'
<1> USE PaletteTypeParts
<1>1. /\ loading' = loading \ {t}
      /\ prefetches' = [g \in Prefetch |->
           IF t \in prefetches[g].todo
           THEN [prefetches[g] EXCEPT !.state = "failed", !.todo = {}]
           ELSE prefetches[g]]
      /\ UNCHANGED << projects, projectsQuery, screen, palette, warm >>
  BY DEF TargetFails
<1>2. prefetches \in Prefetches /\ loading \subseteq Target
  BY DEF PaletteInv
<1>3. \A g \in Prefetch :
        /\ prefetches'[g].cancelled = prefetches[g].cancelled
        /\ \/ prefetches'[g] = prefetches[g]
           \/ prefetches'[g].state = "failed" /\ t \in prefetches[g].todo
  BY <1>1, <1>2 DEF Prefetches
<1>4. prefetches' \in Prefetches
  BY <1>1, <1>2 DEF Prefetches
<1>5. \A g \in Prefetch : prefetches[g].state = "none" => prefetches[g].todo = {}
  BY DEF IdleWaitsForNothing
<1>6. OneCounts' /\ ReadyCovers'
  BY <1>1, <1>3, <1>5, PaletteKept DEF Live
<1>7. PaletteTypeOK' /\ AnswerIsOne'
  BY <1>1, <1>2, <1>4 DEF PaletteInv, PaletteTypeOK, Prefetches, AnswerIsOne
<1> QED
  BY <1>6, <1>7 DEF PaletteInv

LEMMA PrefetchEndsKeeps ==
  ASSUME PaletteInv, NEW g \in Prefetch, PrefetchEnds(g)
  PROVE  PaletteInv'
<1> USE PaletteTypeParts
<1> DEFINE how == IF prefetches[g].state = "failed" THEN "error" ELSE "ready"
<1>1. /\ prefetches[g].state # "none" /\ prefetches[g].todo = {}
      /\ palette' = IF prefetches[g].cancelled THEN palette
                    ELSE SetStatus(palette, how, projectsQuery.error)
      /\ prefetches' = [prefetches EXCEPT ![g] = NoPrefetch]
      /\ UNCHANGED << projects, projectsQuery, screen, warm, loading >>
  BY DEF PrefetchEnds
<1>2. /\ prefetches \in Prefetches /\ palette \in Palette
      /\ OneCounts /\ ReadyCovers
  BY DEF PaletteInv
<1>3. NoPrefetch \in [state : {"none", "loading", "failed"},
                      todo : SUBSET Target, cancelled : BOOLEAN]
  BY DEF NoPrefetch
<1>4. prefetches' \in Prefetches
  BY <1>1, <1>2, <1>3 DEF Prefetches
<1>5. /\ prefetches'[g].state = "none"
      /\ \A h \in Prefetch \ {g} : prefetches'[h] = prefetches[h]
  BY <1>1, <1>2 DEF Prefetches, NoPrefetch
<1>6. PaletteTypeOK' /\ AnswerIsOne'
  <2>1. how \in {"pending", "ready", "error"}
    OBVIOUS
  <2>2. palette' \in Palette
    BY <1>1, <1>2, <2>1, SetStatusSets
  <2> QED
    BY <1>1, <1>4, <2>2 DEF PaletteInv, PaletteTypeOK, Palette, Prefetches, AnswerIsOne
<1>7. CASE prefetches[g].cancelled
  <2>1. OneCounts' /\ ReadyCovers'
    BY <1>1, <1>5, <1>7, PaletteKept DEF Live
  <2> QED
    BY <1>6, <2>1 DEF PaletteInv
<1>8. CASE ~prefetches[g].cancelled
  <2>1. palette.open /\ \A h \in Prefetch \ {g} : ~Live(h)
    BY <1>1, <1>2, <1>8 DEF OneCounts, Live
  <2>2. \A h \in Prefetch : ~Live(h)'
    BY <1>5, <2>1 DEF Live
  <2>3. palette'.open = palette.open /\ palette'.status = how
    BY <1>1, <1>2, <1>8, SetStatusSets
  <2>4. prefetches[g].state # "failed" => Covers({})
    <3>1. prefetches[g].state \in {"none", "loading", "failed"}
      BY <1>2 DEF Prefetches
    <3>2. prefetches[g].state = "loading" => Covers(prefetches[g].todo)
      BY <1>2, <1>8 DEF OneCounts, Live
    <3> QED
      BY <1>1, <3>1, <3>2
  <2>5. OneCounts'
    BY <2>2 DEF OneCounts, Live
  <2>6. ReadyCovers'
    BY <1>1, <2>1, <2>3, <2>4 DEF ReadyCovers, Covers
  <2> QED
    BY <1>6, <2>5, <2>6 DEF PaletteInv
<1> QED
  BY <1>7, <1>8

(* The steps outside the palette, and the timer.                           *)
LEMMA RestKeeps ==
  ASSUME PaletteInv,
         \/ \E c \in Environment : ShowEnvironment(c)
         \/ ProjectsChange \/ RecoveredClears
         \/ \E t \in Target : CollectTarget(t)
  PROVE  PaletteInv' /\ prefetches' = prefetches
<1> USE PaletteTypeParts
<1>1. CASE \E c \in Environment : ShowEnvironment(c)
  <2>1. OneCounts' /\ ReadyCovers' /\ prefetches' = prefetches
    BY <1>1, ClosedKept DEF ShowEnvironment, Live
  <2>2. PaletteTypeOK' /\ AnswerIsOne'
    BY <1>1 DEF ShowEnvironment, PaletteInv, PaletteTypeOK, AnswerIsOne
  <2> QED
    BY <2>1, <2>2 DEF PaletteInv
<1>2. CASE ProjectsChange
  <2>1. OneCounts' /\ ReadyCovers' /\ prefetches' = prefetches
    BY <1>2, PaletteKept DEF ProjectsChange, Live
  <2>2. PaletteTypeOK' /\ AnswerIsOne'
    BY <1>2 DEF ProjectsChange, PaletteInv, PaletteTypeOK, AnswerIsOne
  <2> QED
    BY <2>1, <2>2 DEF PaletteInv
<1>3. CASE RecoveredClears
  <2>1. palette \in Palette
    BY DEF PaletteInv
  <2>2. palette' \in Palette /\ palette'.open = palette.open /\ palette'.status = palette.status
    BY <1>3, <2>1 DEF RecoveredClears, Palette
  <2>3. OneCounts' /\ ReadyCovers' /\ prefetches' = prefetches
    BY <1>3, <2>2, PaletteKept DEF RecoveredClears, Live
  <2>4. PaletteTypeOK' /\ AnswerIsOne'
    BY <1>3, <2>2 DEF RecoveredClears, PaletteInv, PaletteTypeOK, Palette, AnswerIsOne
  <2> QED
    BY <2>3, <2>4 DEF PaletteInv
<1>4. CASE \E t \in Target : CollectTarget(t)
  <2>1. OneCounts' /\ ReadyCovers' /\ prefetches' = prefetches
    BY <1>4, ClosedKept DEF CollectTarget, Live
  <2>2. PaletteTypeOK' /\ AnswerIsOne'
    BY <1>4 DEF CollectTarget, PaletteInv, PaletteTypeOK, AnswerIsOne
  <2> QED
    BY <2>1, <2>2 DEF PaletteInv
<1> QED
  BY <1>1, <1>2, <1>3, <1>4

(* Every step leaves unused names waiting for nothing.                     *)
LEMMA IdleKept ==
  ASSUME PaletteInv, IdleWaitsForNothing, PaletteNext
  PROVE  IdleWaitsForNothing'
<1>1. prefetches \in Prefetches
  BY PaletteTypeParts DEF PaletteInv
<1>2. \A g \in Prefetch : Cancelled(prefetches)[g].state = "none" =>
        Cancelled(prefetches)[g].todo = {}
  BY <1>1 DEF Cancelled, NoPrefetch, Prefetches
<1>3. ASSUME NEW p, NEW known, NEW ctx, NEW err, Restart(p, known, ctx, err)
      PROVE  IdleWaitsForNothing'
  <2>1. CASE prefetches' = prefetches
    BY <2>1 DEF IdleWaitsForNothing
  <2>2. CASE \E g \in Prefetch, todo \in {ToLoad(known, ctx, aged) : aged \in SUBSET warm} :
               prefetches' = [Cancelled(prefetches) EXCEPT ![g] =
                  [state |-> "loading", todo |-> todo, cancelled |-> FALSE]]
    <3>1. PICK g \in Prefetch, todo \in {ToLoad(known, ctx, aged) : aged \in SUBSET warm} :
            prefetches' = [Cancelled(prefetches) EXCEPT ![g] =
                  [state |-> "loading", todo |-> todo, cancelled |-> FALSE]]
      BY <2>2
    <3>2. Cancelled(prefetches) \in Prefetches
      BY <1>1, CancelledCounts
    <3>3. /\ prefetches'[g].state = "loading"
          /\ \A h \in Prefetch \ {g} : prefetches'[h] = Cancelled(prefetches)[h]
      BY <3>1, <3>2 DEF Prefetches
    <3> QED
      BY <1>2, <3>3 DEF IdleWaitsForNothing
  <2> QED
    BY <1>3, <2>1, <2>2 DEF Restart
<1>4. CASE OpenPalette \/ ChangeContext \/ ProjectsMove \/ Retry
  <2>1. CASE prefetches' = prefetches
    BY <2>1 DEF IdleWaitsForNothing
  <2>2. CASE \E p \in {palette, [Closed EXCEPT !.open = TRUE, !.hadError = projectsQuery'.error],
                       Watch(palette, palette, projectsQuery.error, projectsQuery'.error)},
               known \in {projectsQuery.data, projectsQuery'.data},
               ctx \in {screen, screen'},
               err \in {projectsQuery.error, projectsQuery'.error, FALSE} :
               Restart(p, known, ctx, err)
    BY <1>3, <2>2
  <2> QED
    BY <1>4, <2>1, <2>2 DEF OpenPalette, ChangeContext, ProjectsMove, Retry
<1>5. CASE ClosePalette
  BY <1>2, <1>5 DEF ClosePalette, IdleWaitsForNothing
<1>6. CASE \E t \in Target : TargetLoads(t)
  <2>1. PICK t \in Target :
          prefetches' = [g \in Prefetch |-> [prefetches[g] EXCEPT !.todo = @ \ {t}]]
    BY <1>6 DEF TargetLoads
  <2>2. \A g \in Prefetch : /\ prefetches'[g].state = prefetches[g].state
                            /\ prefetches'[g].todo = prefetches[g].todo \ {t}
    BY <1>1, <2>1 DEF Prefetches
  <2> QED
    BY <2>2 DEF IdleWaitsForNothing
<1>7. CASE \E t \in Target : TargetFails(t)
  <2>1. \A g \in Prefetch : \/ prefetches'[g] = prefetches[g]
                            \/ prefetches'[g].state = "failed"
    BY <1>1, <1>7 DEF TargetFails, Prefetches
  <2> QED
    BY <2>1 DEF IdleWaitsForNothing
<1>8. CASE \E g \in Prefetch : PrefetchEnds(g)
  <2>1. PICK g \in Prefetch : prefetches' = [prefetches EXCEPT ![g] = NoPrefetch]
    BY <1>8 DEF PrefetchEnds
  <2>2. /\ prefetches'[g].todo = {}
        /\ \A h \in Prefetch \ {g} : prefetches'[h] = prefetches[h]
    BY <1>1, <2>1 DEF Prefetches, NoPrefetch
  <2> QED
    BY <2>2 DEF IdleWaitsForNothing
<1>9. CASE \/ \E c \in Environment : ShowEnvironment(c)
           \/ ProjectsChange \/ RecoveredClears
           \/ \E t \in Target : CollectTarget(t)
  BY <1>9, RestKeeps DEF IdleWaitsForNothing
<1> QED
  BY <1>4, <1>5, <1>6, <1>7, <1>8, <1>9 DEF PaletteNext

-----------------------------------------------------------------------------
(* The invariant holds, and with it the property.                          *)

LEMMA PaletteInvInit == PaletteInit => PaletteInv /\ IdleWaitsForNothing
<1> SUFFICES ASSUME PaletteInit PROVE PaletteInv /\ IdleWaitsForNothing
  OBVIOUS
<1>1. projectsQuery \in QueryOf(Lists) /\ projectsQuery.fetch = "idle"
  BY DEF PaletteInit, EmptyQuery, QueryOf
<1>2. palette \in Palette /\ palette.status # "ready"
  BY DEF PaletteInit, Closed, Palette
<1>3. /\ prefetches \in Prefetches
      /\ \A g \in Prefetch : prefetches[g].state = "none" /\ prefetches[g].todo = {}
  BY DEF PaletteInit, Prefetches, NoPrefetch
<1>4. PaletteTypeOK
  BY <1>1, <1>2, <1>3, PaletteTypeParts DEF PaletteInit, Lists
<1> QED
  BY <1>1, <1>2, <1>3, <1>4
  DEF PaletteInv, AnswerIsOne, OneCounts, ReadyCovers, Live, IdleWaitsForNothing

LEMMA PaletteInvNext ==
  PaletteInv /\ IdleWaitsForNothing /\ [PaletteNext]_paletteVars
    => PaletteInv' /\ IdleWaitsForNothing'
<1> SUFFICES ASSUME PaletteInv, IdleWaitsForNothing, [PaletteNext]_paletteVars
             PROVE  PaletteInv' /\ IdleWaitsForNothing'
  OBVIOUS
<1>1. CASE PaletteNext
  <2>1. PaletteInv'
    BY <1>1, OpenPaletteKeeps, ClosePaletteKeeps, ChangeContextKeeps, ProjectsMoveKeeps,
       RetryKeeps, TargetLoadsKeeps, TargetFailsKeeps, PrefetchEndsKeeps, RestKeeps
    DEF PaletteNext
  <2> QED
    BY <1>1, <2>1, IdleKept
<1>2. CASE UNCHANGED paletteVars
  BY <1>2 DEF paletteVars, PaletteInv, PaletteTypeOK, AnswerIsOne, OneCounts, ReadyCovers,
              Live, Covers, IdleWaitsForNothing
<1> QED
  BY <1>1, <1>2

(* The inductive invariant of the palette.                                 *)
THEOREM PaletteInvariant == PaletteSpec => [](PaletteInv /\ IdleWaitsForNothing)
BY PaletteInvInit, PaletteInvNext, PTL DEF PaletteSpec

(* The palette, its query and its prefetches keep their types.             *)
THEOREM PaletteTypeCorrect == PaletteSpec => []PaletteTypeOK
<1>1. PaletteInv => PaletteTypeOK
  BY DEF PaletteInv
<1> QED
  BY <1>1, PaletteInvariant, PTL

(* A ready palette lists all it says it has loaded, however the prefetches *)
(* of a list, a screen and a retry overlap.                                *)
THEOREM ReadyIsLoaded == PaletteSpec => []ReadyMeansLoaded
<1>1. PaletteInv => ReadyMeansLoaded
  <2> SUFFICES ASSUME PaletteInv, palette.status = "ready"
               PROVE  /\ envItems = projectsQuery.data
                      /\ keyItems = {screen} \ {Elsewhere}
    BY DEF ReadyMeansLoaded
  <2>1. projectsQuery.data # NoData /\ Wanted(projectsQuery.data, screen) \subseteq warm
    BY DEF PaletteInv, ReadyCovers, Covers
  <2>2. projectsQuery.data \subseteq warm /\ {screen} \ {Elsewhere} \subseteq warm
    BY <2>1 DEF Wanted
  <2>3. Elsewhere \notin warm
    BY PaletteAssumption DEF PaletteInv, PaletteTypeOK, Target
  <2> QED
    BY <2>2, <2>3 DEF envItems, keyItems
<1> QED
  BY <1>1, PaletteInvariant, PTL
=============================================================================
