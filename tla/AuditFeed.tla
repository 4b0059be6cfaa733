----------------------------- MODULE AuditFeed ------------------------------
(***************************************************************************)
(* The audit page: an infinite query over the audit log, newest first, cut *)
(* into pages by the id of the last row, under a filter kept in the URL.   *)
(* The log grows while pages are fetched; a background refetch reads every *)
(* page again, one request after the other, and replaces them at the end.  *)
(*                                                                         *)
(* Data.  A row of the log is its time and whether the narrower of the two *)
(* filters lets it through.  The clock of the server does not go back.     *)
(***************************************************************************)
EXTENDS Integers, Sequences

CONSTANTS
  PAGE_LIMIT,    (* Rows of a page.                                        *)
  MaxLog,        (* Bound: rows of the log.                                *)
  MaxTime        (* Bound: the clock.                                      *)

ASSUME AuditFeedAssumption ==
  PAGE_LIMIT \in Nat \ {0} /\ MaxLog \in Nat /\ MaxTime \in Nat

VARIABLES
  auditLog,      (* The log: an id is an index.                            *)
  filter,        (* The filter of the URL.                                 *)
  feed,          (* By filter, the cached pages.                           *)
  reading        (* The fetch of the shown feed.                           *)

feedVars == << auditLog, filter, feed, reading >>

Filter == {"every", "narrow"}
NoCursor == 0
Page == [ids : Seq(1..MaxLog), next_before : 0..MaxLog]

(* wanted: pages a refetch reads; got: pages read so far; page: an answer  *)
(* on its way.                                                             *)
NotReading == [mode |-> "idle", wanted |-> 0, got |-> << >>, page |-> << >>]

Passes(f, id) == f = "every" \/ auditLog[id].narrow

(* Newer(i, j): ORDER BY created_at DESC, id DESC.                         *)
Newer(i, j) ==
  \/ auditLog[i].at > auditLog[j].at
  \/ auditLog[i].at = auditLog[j].at /\ i > j

-----------------------------------------------------------------------------
(* Faulty variants of the operations below.                                *)

BeforeInclusive(f, before) ==
  {id \in 1..Len(auditLog) : Passes(f, id) /\ (before = NoCursor \/ id <= before)}

-----------------------------------------------------------------------------
(* The server.                                                             *)

(* Selected(f, before): AuditRepo.List without its order and limit.        *)
Selected(f, before) ==
  {id \in 1..Len(auditLog) : Passes(f, id) /\ (before = NoCursor \/ id < before)}

(* ORDER BY and LIMIT: ids lists the newest of them, as many as fit.       *)
IsNewestOf(ids, rows) ==
  /\ \A i \in 1..Len(ids) : ids[i] \in rows
  /\ \A i, j \in 1..Len(ids) : i < j => Newer(ids[i], ids[j])
  /\ \A id \in rows : \/ \E i \in 1..Len(ids) : ids[i] = id
                      \/ Len(ids) = PAGE_LIMIT /\ Newer(ids[PAGE_LIMIT], id)

(* The answer, as the set that holds it.  A full page names a cursor, even *)
(* when nothing follows it.                                                *)
ListAudit(f, before) ==
  {[ids |-> rows, next_before |-> IF Len(rows) = PAGE_LIMIT THEN rows[PAGE_LIMIT] ELSE NoCursor] :
     rows \in {ids \in UNION {[1..n -> 1..Len(auditLog)] : n \in 0..PAGE_LIMIT} :
                 IsNewestOf(ids, Selected(f, before))}}

Record ==
  /\ Len(auditLog) < MaxLog
  /\ \E narrow \in BOOLEAN, at \in 0..MaxTime :
       /\ auditLog # << >> => at >= auditLog[Len(auditLog)].at
       /\ auditLog' = Append(auditLog, [at |-> at, narrow |-> narrow])
  /\ UNCHANGED << filter, feed, reading >>

-----------------------------------------------------------------------------
(* The page.                                                               *)

ReadPages(f) ==
  [mode |-> "pages", wanted |-> IF feed[f] = << >> THEN 1 ELSE Len(feed[f]),
   got |-> << >>, page |-> << >>]

AuditFeedInit ==
  /\ auditLog = << >>
  /\ filter \in Filter
  /\ feed = [f \in Filter |-> << >>]
  /\ reading = ReadPages(filter)

(* getNextPageParam *)
NextCursor(pages) == IF pages = << >> THEN NoCursor ELSE pages[Len(pages)].next_before
hasNextPage       == NextCursor(feed[filter]) # NoCursor

(* The pages the next one is appended to.                                  *)
PagesSoFar == IF reading.mode = "more" THEN feed[filter] ELSE reading.got

ServePage ==
  /\ reading.mode # "idle" /\ reading.page = << >>
  /\ \E page \in ListAudit(filter, NextCursor(PagesSoFar)) :
       reading' = [reading EXCEPT !.page = << page >>]
  /\ UNCHANGED << auditLog, filter, feed >>

(* PageLands: one page more, or the next of a refetch, whose pages replace *)
(* the old ones when as many are there, or no more follow.                 *)
PageLands ==
  LET pages == PagesSoFar \o reading.page
      done  == \/ reading.mode = "more" \/ Len(pages) = reading.wanted
               \/ NextCursor(pages) = NoCursor
  IN  /\ reading.page # << >>
      /\ IF done THEN feed' = [feed EXCEPT ![filter] = pages] /\ reading' = NotReading
                 ELSE /\ reading' = [reading EXCEPT !.got = pages, !.page = << >>]
                      /\ UNCHANGED feed
      /\ UNCHANGED << auditLog, filter >>

ReadFails ==
  /\ reading.mode # "idle"
  /\ reading' = NotReading
  /\ UNCHANGED << auditLog, filter, feed >>

(* fetchNextPage: the button is disabled while it fetches; a refetch under *)
(* way is cancelled.                                                       *)
FetchNextPage ==
  /\ hasNextPage /\ reading.mode # "more"
  /\ reading' = [NotReading EXCEPT !.mode = "more"]
  /\ UNCHANGED << auditLog, filter, feed >>

(* The connection comes back.                                              *)
RefetchFeed ==
  /\ reading.mode = "idle"
  /\ reading' = ReadPages(filter)
  /\ UNCHANGED << auditLog, filter, feed >>

(* The form, a link, or the history changes the filter, which is the key   *)
(* of the query: the fetch under way is aborted, and cached pages are      *)
(* shown at once, and read again when they have aged.                      *)
SetFilter(f) ==
  /\ f # filter
  /\ filter' = f
  /\ \E aged \in BOOLEAN :
       reading' = IF aged \/ feed[f] = << >> THEN ReadPages(f) ELSE NotReading
  /\ UNCHANGED << auditLog, feed >>

-----------------------------------------------------------------------------
AuditFeedNext ==
  \/ Record \/ ServePage \/ PageLands \/ ReadFails
  \/ FetchNextPage \/ RefetchFeed
  \/ \E f \in Filter : SetFilter(f)

AuditFeedSpec == AuditFeedInit /\ [][AuditFeedNext]_feedVars

-----------------------------------------------------------------------------
(* Properties.                                                             *)

AuditFeedTypeOK ==
  /\ Len(auditLog) <= MaxLog
  /\ \A id \in 1..Len(auditLog) :
       auditLog[id] \in [at : 0..MaxTime, narrow : BOOLEAN]
  /\ filter \in Filter
  /\ \A f \in Filter : feed[f] \in Seq(Page)
  /\ reading.mode \in {"idle", "pages", "more"} /\ reading.wanted \in 0..(MaxLog + 1)
  /\ reading.got \in Seq(Page) /\ reading.page \in Seq(Page)

(* The rows of a table: page after page, each as it was answered.          *)
NewestFirst(pages) ==
  \A p, q \in 1..Len(pages) :
    \A i \in 1..Len(pages[p].ids), j \in 1..Len(pages[q].ids) :
      p < q \/ (p = q /\ i < j) => pages[p].ids[i] > pages[q].ids[j]

IdsIn(pages) == UNION {{pages[p].ids[i] : i \in 1..Len(pages[p].ids)} : p \in 1..Len(pages)}

(* The table is a piece of the log: newest first, nothing twice, nothing   *)
(* left out between two rows, and, where no page follows, down to the      *)
(* first; while the log grew between the requests of the pages             *)
(* (audit_repo.go, 70-73; Audit.tsx, 22-27).                               *)
FeedIsTheLog ==
  \A f \in Filter :
    LET shown == IdsIn(feed[f]) IN
    /\ NewestFirst(feed[f])
    /\ \A id \in shown : id \in 1..Len(auditLog) /\ Passes(f, id)
    /\ \A id \in 1..Len(auditLog) :
         /\ Passes(f, id) /\ \E top \in shown : id <= top
         /\ NextCursor(feed[f]) = NoCursor \/ \E last \in shown : last <= id
         => id \in shown
=============================================================================
