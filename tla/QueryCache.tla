----------------------------- MODULE QueryCache -----------------------------
(***************************************************************************)
(* One query of the dashboard's query client, as its pages use it: a       *)
(* cached answer, and at most one fetch under way.  The library is not in  *)
(* the repository; what is modelled is what its pages rely on under the    *)
(* options of main.tsx.  A query is observed while a page, or the command  *)
(* palette, shows it; the palette also fetches queries nobody shows.       *)
(*                                                                         *)
(* Data.  What is fetched is a snapshot the user of this module chooses,   *)
(* taken when the server answers.  A fetch and its retries are one fetch.  *)
(***************************************************************************)

CONSTANT NoData        (* In place of a snapshot: nothing is cached.       *)

(* error: the last fetch failed.  stale: the cached answer was             *)
(* invalidated.  answer: the snapshot on its way.                          *)
EmptyQuery == [data |-> NoData, error |-> FALSE, stale |-> FALSE,
               fetch |-> "idle", answer |-> NoData]

QueryOf(Snapshot) ==
  [data : {NoData} \cup Snapshot, error : BOOLEAN, stale : BOOLEAN,
   fetch : {"idle", "asked", "answered"}, answer : {NoData} \cup Snapshot]

isFetching(q) == q.fetch # "idle"

(* isLoading: the first fetch is under way.                                *)
isLoading(q) == isFetching(q) /\ q.data = NoData

(* Refetch(q): a fetch begins, in place of one under way.  Without data it *)
(* is a first load, and an earlier failure is forgotten.                   *)
Refetch(q) ==
  [q EXCEPT !.fetch = "asked", !.answer = NoData, !.error = q.data # NoData /\ @]

(* MountQuery(q, aged): a first observer appears; aged: the stale time has *)
(* passed.  A fetch under way is joined.                                   *)
MountQuery(q, aged) ==
  IF ~isFetching(q) /\ (q.data = NoData \/ q.stale \/ aged) THEN Refetch(q) ELSE q

(* FetchQuery(q, aged): fetchQuery asks the same, and observes nothing.    *)
FetchQuery(q, aged) == MountQuery(q, aged)

(* UnmountQuery(q): the last observer goes.  The query function takes the  *)
(* signal, so the request is aborted, whoever began it.                    *)
UnmountQuery(q) == [q EXCEPT !.fetch = "idle", !.answer = NoData]

(* Misses(q, observed): an invalidation now is left to a fetch that began  *)
(* before it: a first load, or a fetch of what nobody observes.            *)
Misses(q, observed) == isFetching(q) /\ (~observed \/ isLoading(q))

(* Invalidate(q, observed): the answer is marked; an observed query is     *)
(* fetched again, and a refetch under way is cancelled for it.             *)
Invalidate(q, observed) ==
  LET marked == [q EXCEPT !.stale = TRUE]
  IN  IF ~observed \/ isLoading(q) THEN marked ELSE Refetch(marked)

AnswerQuery(q, snapshot) == [q EXCEPT !.fetch = "answered", !.answer = snapshot]

LandQuery(q) ==
  [q EXCEPT !.data = q.answer, !.error = FALSE, !.stale = FALSE,
            !.fetch = "idle", !.answer = NoData]

FailQuery(q) == [q EXCEPT !.error = TRUE, !.fetch = "idle", !.answer = NoData]

(* QueryMoves(q, q2, now, observed): the network and the clock: the server *)
(* answers, the answer lands, whatever was invalidated since, the fetch    *)
(* fails, the connection comes back or the operator retries, an unused     *)
(* answer is collected.                                                    *)
QueryMoves(q, q2, now, observed) ==
  \/ q.fetch = "asked" /\ q2 = AnswerQuery(q, now)
  \/ q.fetch = "answered" /\ q2 = LandQuery(q)
  \/ isFetching(q) /\ q2 = FailQuery(q)
  \/ observed /\ ~isFetching(q) /\ q2 = Refetch(q)
  \/ ~observed /\ ~isFetching(q) /\ q.data # NoData /\ q2 = EmptyQuery

(* Settled(q): nothing is under way, missing or failed.                    *)
Settled(q) == q.data # NoData /\ ~isFetching(q) /\ ~q.error
=============================================================================
