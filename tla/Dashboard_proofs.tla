-------------------------- MODULE Dashboard_proofs --------------------------
(***************************************************************************)
(* Proofs about AuditFeed, for every size of page and log; about LineDiff, *)
(* for values of every length; and about the dashboard as a whole.         *)
(***************************************************************************)
EXTENDS MCDashboard, DashboardPages_proofs, FiniteSetTheorems, SequenceTheorems,
        WellFoundedInduction

(***************************************************************************)
(* The audit page.                                                         *)
(***************************************************************************)

(* The state at more than one moment is spoken of below, so the log is an  *)
(* argument: Lets is Passes of a given log.                                *)
LogRow == [at : 0..MaxTime, narrow : BOOLEAN]
Lets(log, f, id) == f = "every" \/ log[id].narrow
InOrder(log) == \A i, j \in 1..Len(log) : i <= j => log[i].at <= log[j].at

(* Pages that may be shown: what FeedIsTheLog says, with the cursor as the *)
(* last row, which the next page continues from.                           *)
Piece(log, f, pages) ==
  /\ pages \in Seq(Page)
  /\ NewestFirst(pages)
  /\ \A id \in IdsIn(pages) : id \in 1..Len(log) /\ Lets(log, f, id)
  /\ \A id \in 1..Len(log) :
       Lets(log, f, id) /\ NextCursor(pages) <= id /\ (\E top \in IdsIn(pages) : id <= top)
         => id \in IdsIn(pages)
  /\ NextCursor(pages) # NoCursor =>
       /\ NextCursor(pages) \in IdsIn(pages)
       /\ \A id \in IdsIn(pages) : NextCursor(pages) <= id

(* No more pages than rows, and one: each but the last ends lower down.    *)
FewPages(pages) ==
  /\ Len(pages) <= MaxLog + 1
  /\ NextCursor(pages) # NoCursor => NextCursor(pages) + Len(pages) <= MaxLog + 1

Continues(pages) == pages # << >> => NextCursor(pages) # NoCursor

(* The page that was answered to a cursor, which later rows do not spoil:  *)
(* its ids, then down to its own cursor all there is below the given one.  *)
OnPage(answer, id) == \E i \in 1..Len(answer.ids) : answer.ids[i] = id

Answered(log, f, cursor, answer) ==
  /\ answer \in Page
  /\ cursor # NoCursor => cursor \in 1..Len(log)
  /\ \A i \in 1..Len(answer.ids) :
       /\ answer.ids[i] \in 1..Len(log) /\ Lets(log, f, answer.ids[i])
       /\ cursor # NoCursor => answer.ids[i] < cursor
  /\ \A i, j \in 1..Len(answer.ids) : i < j => answer.ids[i] > answer.ids[j]
  /\ \A id \in 1..Len(log) :
       /\ Lets(log, f, id) /\ answer.next_before <= id
       /\ IF cursor # NoCursor THEN id < cursor
                               ELSE \E i \in 1..Len(answer.ids) : id <= answer.ids[i]
       => OnPage(answer, id)
  /\ answer.next_before # NoCursor =>
       /\ OnPage(answer, answer.next_before)
       /\ \A i \in 1..Len(answer.ids) : answer.next_before <= answer.ids[i]

Reading == [mode : {"idle", "pages", "more"}, wanted : 0..(MaxLog + 1),
            got : Seq(Page), page : Seq(Page)]

FeedInv ==
  /\ auditLog \in Seq(LogRow) /\ Len(auditLog) <= MaxLog /\ InOrder(auditLog)
  /\ filter \in Filter
  /\ feed \in [Filter -> Seq(Page)]
  /\ reading \in Reading
  /\ \A f \in Filter : Piece(auditLog, f, feed[f]) /\ FewPages(feed[f])
  /\ reading.mode = "pages" =>
       /\ Piece(auditLog, filter, reading.got) /\ FewPages(reading.got)
       /\ Continues(reading.got)
  /\ reading.mode = "more" => NextCursor(feed[filter]) # NoCursor
  /\ reading.page # << >> =>
       /\ reading.mode # "idle"
       /\ Len(reading.page) = 1
       /\ Answered(auditLog, filter, NextCursor(PagesSoFar), reading.page[1])

-----------------------------------------------------------------------------
(* The server's answer.                                                    *)

(* By time and by id the log has the same order.                           *)
LEMMA NewerIsHigher ==
  ASSUME auditLog \in Seq(LogRow), InOrder(auditLog),
         NEW i \in 1..Len(auditLog), NEW j \in 1..Len(auditLog)
  PROVE  Newer(i, j) <=> i > j
<1>1. auditLog[i].at \in Int /\ auditLog[j].at \in Int
  <2>1. auditLog[i] \in LogRow /\ auditLog[j] \in LogRow
    OBVIOUS
  <2>2. 0..MaxTime \subseteq Int
    BY AuditFeedAssumption
  <2> QED
    BY <2>1, <2>2 DEF LogRow
<1>2. i <= j => auditLog[i].at <= auditLog[j].at
  BY DEF InOrder
<1>3. j <= i => auditLog[j].at <= auditLog[i].at
  BY DEF InOrder
<1> QED
  BY <1>1, <1>2, <1>3 DEF Newer

LEMMA AnswerIsRight ==
  ASSUME auditLog \in Seq(LogRow), Len(auditLog) <= MaxLog, InOrder(auditLog),
         NEW f \in Filter, NEW cursor \in Nat,
         cursor # NoCursor => cursor \in 1..Len(auditLog),
         NEW answer \in ListAudit(f, cursor)
  PROVE  Answered(auditLog, f, cursor, answer)
<1> DEFINE len == Len(auditLog)
<1>1. PICK n \in 0..PAGE_LIMIT : \E ids \in [1..n -> 1..len] :
        /\ IsNewestOf(ids, Selected(f, cursor))
        /\ answer = [ids |-> ids, next_before |-> IF Len(ids) = PAGE_LIMIT THEN ids[PAGE_LIMIT]
                                                                         ELSE NoCursor]
  BY DEF ListAudit
<1>2. PICK ids \in [1..n -> 1..len] :
        /\ IsNewestOf(ids, Selected(f, cursor))
        /\ answer = [ids |-> ids, next_before |-> IF Len(ids) = PAGE_LIMIT THEN ids[PAGE_LIMIT]
                                                                         ELSE NoCursor]
  BY <1>1
<1>3. /\ n \in Nat /\ len \in Nat /\ len <= MaxLog /\ PAGE_LIMIT \in Nat \ {0} /\ MaxLog \in Nat
      /\ n <= PAGE_LIMIT
  BY AuditFeedAssumption
<1>4. ids \in Seq(1..len) /\ Len(ids) = n
  BY <1>3
<1>5. /\ answer.ids = ids
      /\ answer.next_before = IF n = PAGE_LIMIT THEN ids[PAGE_LIMIT] ELSE NoCursor
  BY <1>2, <1>4
<1>6. ids \in Seq(1..MaxLog) /\ answer.next_before \in 0..MaxLog
  <2>1. \A i \in 1..n : ids[i] \in 1..MaxLog
    BY <1>3, <1>4
  <2>2. ids \in Seq(1..MaxLog)
    BY <1>3, <1>4, <2>1
  <2>3. n = PAGE_LIMIT => ids[PAGE_LIMIT] \in 1..MaxLog
    BY <1>3, <2>1
  <2> QED
    BY <1>3, <1>5, <2>2, <2>3 DEF NoCursor
<1>7. answer \in Page
  BY <1>2, <1>4, <1>5, <1>6 DEF Page
<1>8. \A i \in 1..n : ids[i] \in 1..len /\ ids[i] \in Selected(f, cursor)
  BY <1>2, <1>4 DEF IsNewestOf
<1>9. \A i, j \in 1..n : i < j => ids[i] > ids[j]
  BY <1>2, <1>4, <1>8, NewerIsHigher DEF IsNewestOf
<1>10. ASSUME NEW id \in Selected(f, cursor)
       PROVE  (\E i \in 1..n : ids[i] = id) \/ (n = PAGE_LIMIT /\ ids[PAGE_LIMIT] > id)
  <2>1. id \in 1..len
    BY DEF Selected
  <2>2. (\E i \in 1..n : ids[i] = id) \/ (n = PAGE_LIMIT /\ Newer(ids[PAGE_LIMIT], id))
    BY <1>2, <1>4 DEF IsNewestOf
  <2>3. n = PAGE_LIMIT => ids[PAGE_LIMIT] \in 1..len
    BY <1>3, <1>8
  <2> QED
    BY <2>1, <2>2, <2>3, NewerIsHigher
<1>11. ASSUME NEW i \in 1..n
       PROVE  /\ ids[i] \in 1..len /\ Lets(auditLog, f, ids[i])
              /\ cursor # NoCursor => ids[i] < cursor
  BY <1>8 DEF Selected, Passes, Lets
<1>12. ASSUME NEW id \in 1..len, Lets(auditLog, f, id), answer.next_before <= id,
              IF cursor # NoCursor THEN id < cursor ELSE \E i \in 1..n : id <= ids[i]
       PROVE  \E i \in 1..n : ids[i] = id
  <2>1. id \in Selected(f, cursor)
    BY <1>12 DEF Selected, Passes, Lets
  <2>2. n = PAGE_LIMIT => ids[PAGE_LIMIT] \in 1..len /\ answer.next_before = ids[PAGE_LIMIT]
    BY <1>3, <1>5, <1>8
  <2> QED
    BY <1>10, <1>12, <2>1, <2>2
<1>13. answer.next_before # NoCursor =>
         /\ \E i \in 1..n : ids[i] = answer.next_before
         /\ \A i \in 1..n : answer.next_before <= ids[i]
  <2> SUFFICES ASSUME n = PAGE_LIMIT
               PROVE  /\ \E i \in 1..n : ids[i] = ids[PAGE_LIMIT]
                      /\ \A i \in 1..n : ids[PAGE_LIMIT] <= ids[i]
    BY <1>5
  <2>1. PAGE_LIMIT \in 1..n
    BY <1>3
  <2>2. ASSUME NEW i \in 1..n PROVE ids[PAGE_LIMIT] <= ids[i]
    BY <1>8, <1>9, <2>1
  <2> QED
    BY <2>1, <2>2
<1> HIDE DEF len
<1>14. Len(answer.ids) = n /\ \A i \in 1..n : answer.ids[i] = ids[i]
  BY <1>4, <1>5
<1> QED
  BY <1>7, <1>9, <1>11, <1>12, <1>13, <1>14 DEF Answered, OnPage, len

-----------------------------------------------------------------------------
(* A row more in the log.                                                  *)
LEMMA RecordKeeps ==
  ASSUME NEW log \in Seq(LogRow), NEW entry \in LogRow, NEW f \in Filter
  PROVE  /\ \A pages : Piece(log, f, pages) => Piece(Append(log, entry), f, pages)
         /\ \A cursor, answer :
              Answered(log, f, cursor, answer) => Answered(Append(log, entry), f, cursor, answer)
<1> DEFINE more == Append(log, entry)
<1>1. /\ Len(log) \in Nat /\ Len(more) = Len(log) + 1
      /\ \A id \in 1..Len(log) : id \in 1..Len(more) /\ more[id] = log[id]
      /\ \A id \in 1..Len(more) : id \notin 1..Len(log) => id = Len(log) + 1
  OBVIOUS
<1> HIDE DEF more
<1>2. \A id \in 1..Len(log) : Lets(more, f, id) <=> Lets(log, f, id)
  BY <1>1 DEF Lets
<1>3. ASSUME NEW pages, Piece(log, f, pages) PROVE Piece(more, f, pages)
  <2>1. \A id \in IdsIn(pages) : id \in 1..Len(log)
    BY <1>3 DEF Piece
  <2>2. \A id \in IdsIn(pages) : id \in 1..Len(more) /\ Lets(more, f, id)
    BY <1>1, <1>2, <1>3 DEF Piece
  <2>3. ASSUME NEW id \in 1..Len(more), Lets(more, f, id), NextCursor(pages) <= id,
               NEW top \in IdsIn(pages), id <= top
        PROVE  id \in IdsIn(pages)
    <3>1. id \in 1..Len(log)
      BY <1>1, <2>1, <2>3
    <3> QED
      BY <1>2, <1>3, <2>3, <3>1 DEF Piece
  <2> QED
    BY <1>3, <2>2, <2>3 DEF Piece
<1>4. ASSUME NEW cursor, NEW answer, Answered(log, f, cursor, answer)
      PROVE  Answered(more, f, cursor, answer)
  <2>1. /\ cursor # NoCursor => cursor \in 1..Len(log) /\ cursor \in 1..Len(more)
        /\ \A i \in 1..Len(answer.ids) : answer.ids[i] \in 1..Len(log)
    BY <1>1, <1>4 DEF Answered
  <2>2. \A i \in 1..Len(answer.ids) : answer.ids[i] \in 1..Len(more) /\ Lets(more, f, answer.ids[i])
    BY <1>1, <1>2, <1>4 DEF Answered
  <2>3. ASSUME NEW id \in 1..Len(more), Lets(more, f, id), answer.next_before <= id,
               IF cursor # NoCursor THEN id < cursor
                                    ELSE \E i \in 1..Len(answer.ids) : id <= answer.ids[i]
        PROVE  OnPage(answer, id)
    <3>1. id \in 1..Len(log)
      BY <1>1, <2>1, <2>3
    <3> QED
      BY <1>2, <1>4, <2>3, <3>1 DEF Answered
  <2> QED
    BY <1>4, <2>1, <2>2, <2>3 DEF Answered
<1> QED
  BY <1>3, <1>4 DEF more

-----------------------------------------------------------------------------
(* A page more on the table.                                               *)
LEMMA PageAppended ==
  ASSUME NEW log \in Seq(LogRow), NEW f \in Filter, NEW pages, NEW answer,
         Len(log) <= MaxLog,
         Piece(log, f, pages), FewPages(pages), Continues(pages),
         Answered(log, f, NextCursor(pages), answer)
  PROVE  Piece(log, f, Append(pages, answer)) /\ FewPages(Append(pages, answer))
<1> DEFINE more == Append(pages, answer)
           n == Len(pages)
           cursor == NextCursor(pages)
<1>1. /\ pages \in Seq(Page) /\ answer \in Page
      /\ n \in Nat /\ Len(more) = n + 1 /\ more[n + 1] = answer
      /\ \A p \in 1..n : more[p] = pages[p]
      /\ more \in Seq(Page)
  BY DEF Piece, Answered
<1>2. NextCursor(more) = answer.next_before /\ answer.next_before \in Nat /\ more # << >>
  <2>1. more # << >>
    BY <1>1
  <2>2. answer.next_before \in Nat
    BY <1>1, AuditFeedAssumption DEF Page
  <2> HIDE DEF more
  <2>3. NextCursor(more) = more[Len(more)].next_before
    BY <2>1 DEF NextCursor
  <2> QED
    BY <1>1, <2>1, <2>2, <2>3
<1>3. cursor = NoCursor <=> pages = << >>
  <2>1. pages = << >> => cursor = NoCursor
    BY DEF NextCursor
  <2>2. pages # << >> => cursor # NoCursor
    BY DEF Continues
  <2> QED
    BY <2>1, <2>2
<1> HIDE DEF more, cursor
<1>4. \A ps, id : id \in IdsIn(ps) <=> \E p \in 1..Len(ps) : OnPage(ps[p], id)
  BY DEF IdsIn, OnPage
<1>5. \A id : id \in IdsIn(more) <=> id \in IdsIn(pages) \/ OnPage(answer, id)
  <2>1. \A p : p \in 1..n + 1 <=> p \in 1..n \/ p = n + 1
    BY <1>1
  <2>2. ASSUME NEW id
        PROVE  (\E p \in 1..n + 1 : OnPage(more[p], id))
               <=> (\E p \in 1..n : OnPage(pages[p], id)) \/ OnPage(answer, id)
    BY <1>1, <2>1
  <2> QED
    BY <1>1, <1>4, <2>2
<1>6. pages = << >> => n = 0 /\ IdsIn(pages) = {}
  BY DEF IdsIn
<1>7. ASSUME NEW id \in IdsIn(pages)
      PROVE  id \in 1..Len(log) /\ cursor \in 1..Len(log) /\ cursor <= id /\ cursor # NoCursor
  <2>1. cursor # NoCursor
    BY <1>3, <1>6
  <2> QED
    BY <2>1 DEF Piece, Answered, cursor
<1>8. ASSUME NEW id, OnPage(answer, id)
      PROVE  /\ id \in 1..Len(log) /\ Lets(log, f, id)
             /\ cursor # NoCursor => cursor \in 1..Len(log) /\ id < cursor
             /\ answer.next_before # NoCursor => answer.next_before <= id
  BY <1>8 DEF OnPage, Answered, cursor
<1>9. NewestFirst(more)
  <2>1. ASSUME NEW p \in 1..n + 1, NEW q \in 1..n + 1,
               NEW i \in 1..Len(more[p].ids), NEW j \in 1..Len(more[q].ids),
               p < q \/ (p = q /\ i < j)
        PROVE  more[p].ids[i] > more[q].ids[j]
    <3>1. CASE q \in 1..n
      <4>1. p \in 1..n /\ more[p] = pages[p] /\ more[q] = pages[q]
        BY <1>1, <2>1, <3>1
      <4> QED
        BY <2>1, <3>1, <4>1 DEF Piece, NewestFirst
    <3>2. CASE q = n + 1 /\ p \in 1..n
      <4>1. more[p] = pages[p] /\ more[q] = answer
        BY <1>1, <3>2
      <4>2. pages[p].ids[i] \in IdsIn(pages)
        BY <3>2, <4>1 DEF IdsIn
      <4>3. OnPage(answer, answer.ids[j])
        BY <4>1 DEF OnPage
      <4>4. cursor <= pages[p].ids[i] /\ answer.ids[j] < cursor
        BY <1>7, <1>8, <4>2, <4>3
      <4>5. pages[p].ids[i] \in Int /\ answer.ids[j] \in Int /\ cursor \in Int
        BY <1>7, <1>8, <4>2, <4>3
      <4> QED
        BY <4>1, <4>4, <4>5
    <3>3. CASE q = n + 1 /\ p = n + 1
      <4>1. more[p] = answer /\ more[q] = answer /\ i < j
        BY <1>1, <2>1, <3>3
      <4> QED
        BY <4>1 DEF Answered
    <3> QED
      BY <1>1, <3>1, <3>2, <3>3
  <2> QED
    BY <1>1, <2>1 DEF NewestFirst
<1>10. \A id \in IdsIn(more) : id \in 1..Len(log) /\ Lets(log, f, id)
  BY <1>5, <1>8 DEF Piece
<1>11. ASSUME NEW id \in 1..Len(log), Lets(log, f, id), answer.next_before <= id,
              NEW top \in IdsIn(more), id <= top
       PROVE  id \in IdsIn(more)
  <2>1. CASE cursor = NoCursor
    <3>1. OnPage(answer, top)
      BY <1>3, <1>5, <1>6, <2>1
    <3>2. \E i \in 1..Len(answer.ids) : id <= answer.ids[i]
      BY <1>11, <3>1 DEF OnPage
    <3>3. OnPage(answer, id)
      BY <1>11, <2>1, <3>2 DEF Answered, cursor
    <3> QED
      BY <1>5, <3>3
  <2>2. CASE cursor # NoCursor /\ id < cursor
    <3>1. OnPage(answer, id)
      BY <1>11, <2>2 DEF Answered, cursor
    <3> QED
      BY <1>5, <3>1
  <2>3. CASE cursor # NoCursor /\ ~(id < cursor)
    <3>1. cursor \in 1..Len(log)
      BY <2>3 DEF Answered, cursor
    <3>2. ~OnPage(answer, top)
      BY <1>8, <1>11, <2>3, <3>1
    <3>3. top \in IdsIn(pages) /\ cursor <= id
      BY <1>5, <2>3, <3>1, <3>2
    <3>4. id \in IdsIn(pages)
      BY <1>11, <3>3 DEF Piece, cursor
    <3> QED
      BY <1>5, <3>4
  <2> QED
    BY <2>1, <2>2, <2>3
<1>12. answer.next_before # NoCursor =>
         /\ answer.next_before \in IdsIn(more)
         /\ \A id \in IdsIn(more) : answer.next_before <= id
  <2> SUFFICES ASSUME answer.next_before # NoCursor
               PROVE  /\ answer.next_before \in IdsIn(more)
                      /\ \A id \in IdsIn(more) : answer.next_before <= id
    OBVIOUS
  <2>1. OnPage(answer, answer.next_before)
    BY DEF Answered
  <2>2. ASSUME NEW id \in IdsIn(pages) PROVE answer.next_before <= id
    BY <1>7, <1>8, <2>1
  <2> QED
    BY <1>5, <1>8, <2>1, <2>2
<1>13. FewPages(more)
  <2>0. MaxLog \in Nat /\ Len(log) \in Nat
    BY AuditFeedAssumption
  <2>1. CASE answer.next_before = NoCursor
    <3>1. n + 1 <= MaxLog + 1
      <4>1. CASE cursor = NoCursor
        BY <1>3, <1>6, <2>0, <4>1
      <4>2. CASE cursor # NoCursor
        <5>1. cursor \in 1..Len(log) /\ cursor + n <= MaxLog + 1
          BY <4>2 DEF Answered, FewPages, cursor
        <5> QED
          BY <1>1, <2>0, <5>1
      <4> QED
        BY <4>1, <4>2
    <3> QED
      BY <1>1, <1>2, <2>1, <3>1 DEF FewPages
  <2>2. CASE answer.next_before # NoCursor
    <3>1. OnPage(answer, answer.next_before)
      BY <2>2 DEF Answered
    <3>2. answer.next_before \in 1..Len(log)
      BY <1>8, <3>1
    <3>3. answer.next_before + (n + 1) <= MaxLog + 1
      <4>1. CASE cursor = NoCursor
        BY <1>3, <1>6, <2>0, <3>2, <4>1
      <4>2. CASE cursor # NoCursor
        <5>1. cursor \in 1..Len(log) /\ cursor + n <= MaxLog + 1
          BY <4>2 DEF Answered, FewPages, cursor
        <5>2. answer.next_before < cursor
          BY <1>8, <3>1, <4>2
        <5> QED
          BY <1>1, <2>0, <3>2, <5>1, <5>2
      <4> QED
        BY <4>1, <4>2
    <3> QED
      BY <1>1, <1>2, <2>0, <3>2, <3>3 DEF FewPages
  <2> QED
    BY <2>1, <2>2
<1>14. Piece(log, f, more)
  BY <1>1, <1>2, <1>9, <1>10, <1>11, <1>12 DEF Piece
<1> QED
  BY <1>13, <1>14 DEF more

-----------------------------------------------------------------------------
(* The invariant, step by step.                                            *)
LEMMA NotReadingType ==
  /\ NotReading \in Reading /\ NotReading.mode = "idle" /\ NotReading.page = << >>
  /\ [NotReading EXCEPT !.mode = "more"] \in Reading
  /\ [NotReading EXCEPT !.mode = "more"].mode = "more"
  /\ [NotReading EXCEPT !.mode = "more"].page = << >>
<1>1. 0 \in 0..(MaxLog + 1) /\ << >> \in Seq(Page)
  BY AuditFeedAssumption
<1> QED
  BY <1>1 DEF NotReading, Reading

LEMMA FeedInit == AuditFeedInit => FeedInv
<1> SUFFICES ASSUME AuditFeedInit PROVE FeedInv
  OBVIOUS
<1>1. /\ << >> \in Seq(Page) /\ << >> \in Seq(LogRow) /\ Len(<< >>) = 0 /\ 1..0 = {}
      /\ 1 \in 0..(MaxLog + 1) /\ MaxLog \in Nat
  BY AuditFeedAssumption
<1>2. NextCursor(<< >>) = NoCursor /\ IdsIn(<< >>) = {}
  BY <1>1 DEF NextCursor, IdsIn
<1>3. \A f : Piece(auditLog, f, << >>) /\ FewPages(<< >>) /\ Continues(<< >>)
  BY <1>1, <1>2 DEF AuditFeedInit, Piece, NewestFirst, FewPages, Continues
<1>4. feed \in [Filter -> Seq(Page)] /\ \A f \in Filter : feed[f] = << >>
  BY <1>1 DEF AuditFeedInit
<1>5. reading = [mode |-> "pages", wanted |-> 1, got |-> << >>, page |-> << >>]
  BY <1>4 DEF AuditFeedInit, ReadPages
<1>6. auditLog \in Seq(LogRow) /\ Len(auditLog) <= MaxLog /\ InOrder(auditLog)
  BY <1>1 DEF AuditFeedInit, InOrder
<1>7. filter \in Filter
  BY DEF AuditFeedInit
<1> QED
  BY <1>1, <1>3, <1>4, <1>5, <1>6, <1>7 DEF FeedInv, Reading

LEMMA RecordStep == ASSUME FeedInv, Record PROVE FeedInv'
<1> USE DEF FeedInv
<1>1. PICK narrow \in BOOLEAN, at \in 0..MaxTime :
        /\ auditLog # << >> => at >= auditLog[Len(auditLog)].at
        /\ auditLog' = Append(auditLog, [at |-> at, narrow |-> narrow])
  BY DEF Record
<1> DEFINE entry == [at |-> at, narrow |-> narrow]
<1>2. entry \in LogRow /\ entry.at = at
  BY DEF LogRow
<1> HIDE DEF entry
<1>3. auditLog' = Append(auditLog, entry) /\ Len(auditLog) < MaxLog
      /\ UNCHANGED << filter, feed, reading >>
  BY <1>1 DEF Record, entry
<1>4. /\ Len(auditLog) \in Nat /\ MaxLog \in Nat /\ auditLog' \in Seq(LogRow)
      /\ Len(auditLog') = Len(auditLog) + 1 /\ auditLog'[Len(auditLog) + 1] = entry
      /\ \A i \in 1..Len(auditLog) : auditLog'[i] = auditLog[i] /\ auditLog[i] \in LogRow
  BY <1>2, <1>3, AuditFeedAssumption
<1>5. InOrder(auditLog')
  <2>1. \A i \in 1..Len(auditLog) : auditLog[i].at \in Int
    <3>1. \A i \in 1..Len(auditLog) : auditLog[i].at \in 0..MaxTime
      BY <1>4 DEF LogRow
    <3>2. 0..MaxTime \subseteq Int
      BY AuditFeedAssumption
    <3> QED
      BY <3>1, <3>2
  <2>2. ASSUME NEW i \in 1..Len(auditLog) PROVE auditLog[i].at <= at
    <3>1. Len(auditLog) \in 1..Len(auditLog) /\ i <= Len(auditLog) /\ auditLog # << >>
      BY <1>4
    <3>2. auditLog[i].at <= auditLog[Len(auditLog)].at
      BY <3>1 DEF InOrder
    <3>3. auditLog[i].at \in Int /\ auditLog[Len(auditLog)].at \in Int /\ at \in Int
      BY <2>1, <3>1, AuditFeedAssumption
    <3> QED
      BY <1>1, <3>1, <3>2, <3>3
  <2>3. ASSUME NEW i \in 1..Len(auditLog) + 1, NEW j \in 1..Len(auditLog) + 1, i <= j
        PROVE  auditLog'[i].at <= auditLog'[j].at
    <3>1. CASE j \in 1..Len(auditLog)
      <4>1. i \in 1..Len(auditLog)
        BY <1>4, <2>3, <3>1
      <4>2. auditLog[i].at <= auditLog[j].at
        BY <2>3, <3>1, <4>1 DEF InOrder
      <4> QED
        BY <1>4, <3>1, <4>1, <4>2
    <3>2. CASE j = Len(auditLog) + 1 /\ i \in 1..Len(auditLog)
      BY <1>2, <1>4, <2>2, <3>2
    <3>3. CASE i = Len(auditLog) + 1 /\ j = Len(auditLog) + 1
      BY <1>2, <1>4, <3>3
    <3> QED
      BY <1>4, <2>3, <3>1, <3>2, <3>3
  <2> QED
    BY <1>4, <2>3 DEF InOrder
<1>6. ASSUME NEW f \in Filter
      PROVE  /\ \A pages : Piece(auditLog, f, pages) => Piece(auditLog', f, pages)
             /\ \A cursor, answer : Answered(auditLog, f, cursor, answer)
                                    => Answered(auditLog', f, cursor, answer)
  BY <1>2, <1>3, RecordKeeps
<1>7. Len(auditLog') <= MaxLog /\ PagesSoFar' = PagesSoFar
  BY <1>3, <1>4 DEF PagesSoFar
<1> QED
  BY <1>3, <1>4, <1>5, <1>6, <1>7

(* The pages a fetch builds on are fit to be continued.                    *)
LEMMA SoFarFits ==
  ASSUME FeedInv, reading.mode # "idle"
  PROVE  /\ Piece(auditLog, filter, PagesSoFar) /\ FewPages(PagesSoFar)
         /\ Continues(PagesSoFar) /\ PagesSoFar \in Seq(Page)
<1>1. CASE reading.mode = "more"
  BY <1>1 DEF FeedInv, PagesSoFar, Continues, Piece
<1>2. CASE reading.mode = "pages"
  BY <1>2 DEF FeedInv, PagesSoFar, Piece
<1> QED
  BY <1>1, <1>2 DEF FeedInv, Reading

LEMMA ServePageStep == ASSUME FeedInv, ServePage PROVE FeedInv'
<1> USE DEF FeedInv
<1>1. PICK answer \in ListAudit(filter, NextCursor(PagesSoFar)) :
        reading' = [reading EXCEPT !.page = << answer >>]
  BY DEF ServePage
<1>2. /\ Piece(auditLog, filter, PagesSoFar)
      /\ reading.mode # "idle" /\ UNCHANGED << auditLog, filter, feed >>
  BY SoFarFits DEF ServePage
<1>3. /\ NextCursor(PagesSoFar) \in Nat
      /\ NextCursor(PagesSoFar) # NoCursor => NextCursor(PagesSoFar) \in 1..Len(auditLog)
  BY <1>2 DEF Piece, NoCursor
<1>4. Answered(auditLog, filter, NextCursor(PagesSoFar), answer)
  BY <1>2, <1>3, AnswerIsRight
<1>5. answer \in Page
  BY <1>4 DEF Answered
<1>6. /\ reading'.mode = reading.mode /\ reading'.got = reading.got
      /\ reading'.page = << answer >> /\ Len(reading'.page) = 1 /\ reading'.page[1] = answer
      /\ reading' \in Reading
  <2>1. << answer >> \in Seq(Page)
    BY <1>5
  <2> QED
    BY <1>1, <2>1 DEF Reading
<1>7. PagesSoFar' = PagesSoFar
  BY <1>2, <1>6 DEF PagesSoFar
<1> QED
  BY <1>2, <1>4, <1>6, <1>7

(* Where a fetch stops: nothing is on its way any more.                    *)
LEMMA Stopped ==
  ASSUME FeedInv, auditLog' = auditLog, filter' \in Filter, feed' = feed, reading' = NotReading
  PROVE  FeedInv'
<1>1. /\ reading'.mode = "idle" /\ reading'.page = << >>
      /\ reading' \in Reading
  BY NotReadingType
<1> QED
  BY <1>1 DEF FeedInv

(* Where a refetch starts.                                                 *)
LEMMA Started ==
  ASSUME FeedInv, auditLog' = auditLog, filter' \in Filter, feed' = feed,
         reading' = ReadPages(filter')
  PROVE  FeedInv'
<1> USE DEF FeedInv
<1> DEFINE f == filter'
<1>1. Len(feed[f]) \in 0..(MaxLog + 1) /\ 1 \in 0..(MaxLog + 1)
  BY AuditFeedAssumption DEF FewPages
<1>2. /\ reading'.mode = "pages" /\ reading'.got = << >> /\ reading'.page = << >>
      /\ reading' \in Reading
  <2>1. reading' = [mode |-> "pages", wanted |-> IF feed[f] = << >> THEN 1 ELSE Len(feed[f]),
                    got |-> << >>, page |-> << >>]
    BY DEF ReadPages
  <2>2. << >> \in Seq(Page)
    OBVIOUS
  <2> QED
    BY <1>1, <2>1, <2>2 DEF Reading
<1>3. /\ Len(<< >>) = 0 /\ 1..0 = {} /\ << >> \in Seq(Page) /\ MaxLog \in Nat
      /\ NextCursor(<< >>) = NoCursor
  BY AuditFeedAssumption DEF NextCursor
<1>4. IdsIn(<< >>) = {}
  BY <1>3 DEF IdsIn
<1>5. Piece(auditLog, f, << >>) /\ FewPages(<< >>) /\ Continues(<< >>)
  BY <1>3, <1>4 DEF Piece, NewestFirst, FewPages, Continues
<1> QED
  BY <1>2, <1>5

LEMMA LandStep == ASSUME FeedInv, PageLands PROVE FeedInv'
<1> USE DEF FeedInv
<1> DEFINE answer == reading.page[1]
           pages == Append(PagesSoFar, answer)
<1>1. /\ reading.page # << >> /\ reading.mode # "idle" /\ Len(reading.page) = 1
      /\ Answered(auditLog, filter, NextCursor(PagesSoFar), answer)
      /\ Piece(auditLog, filter, PagesSoFar) /\ FewPages(PagesSoFar) /\ Continues(PagesSoFar)
      /\ PagesSoFar \in Seq(Page) /\ UNCHANGED << auditLog, filter >>
  BY SoFarFits DEF PageLands
<1>2. PagesSoFar \o reading.page = pages
  <2>1. reading.page \in Seq(Page) /\ answer \in Page /\ << answer >> \in Seq(Page)
    BY <1>1 DEF Reading
  <2>2. reading.page = << answer >>
    BY <1>1, <2>1, SeqEqual
  <2> HIDE DEF answer
  <2> QED
    BY <1>1, <2>1, <2>2
<1>3. Piece(auditLog, filter, pages) /\ FewPages(pages) /\ pages \in Seq(Page)
  <2>1. Piece(auditLog, filter, pages) /\ FewPages(pages)
    BY <1>1, PageAppended
  <2> QED
    BY <2>1 DEF Piece
<1> HIDE DEF pages, answer
<1>4. CASE feed' = [feed EXCEPT ![filter] = pages] /\ reading' = NotReading
  <2>1. /\ reading'.mode = "idle" /\ reading'.page = << >>
        /\ reading' \in Reading
    BY <1>4, NotReadingType
  <2>2. /\ feed' \in [Filter -> Seq(Page)]
        /\ \A f \in Filter : Piece(auditLog, f, feed'[f]) /\ FewPages(feed'[f])
    BY <1>3, <1>4
  <2> QED
    BY <1>1, <2>1, <2>2
<1>5. CASE /\ reading.mode # "more" /\ NextCursor(pages) # NoCursor
           /\ reading' = [reading EXCEPT !.got = pages, !.page = << >>]
           /\ feed' = feed
  <2>1. /\ reading'.mode = "pages" /\ reading'.got = pages /\ reading'.page = << >>
        /\ reading' \in Reading
    <3>1. << >> \in Seq(Page)
      OBVIOUS
    <3> QED
      BY <1>1, <1>3, <1>5, <3>1 DEF Reading
  <2>2. Continues(pages)
    BY <1>5 DEF Continues
  <2> QED
    BY <1>1, <1>3, <1>5, <2>1, <2>2
<1> QED
  BY <1>2, <1>4, <1>5 DEF PageLands

LEMMA MoreStep == ASSUME FeedInv, FetchNextPage PROVE FeedInv'
<1> USE DEF FeedInv
<1>1. /\ reading'.mode = "more" /\ reading'.page = << >>
      /\ reading' \in Reading
  BY NotReadingType DEF FetchNextPage
<1>2. NextCursor(feed[filter]) # NoCursor /\ UNCHANGED << auditLog, filter, feed >>
  BY DEF FetchNextPage, hasNextPage
<1> QED
  BY <1>1, <1>2

LEMMA FeedStep == FeedInv /\ [AuditFeedNext]_feedVars => FeedInv'
<1> SUFFICES ASSUME FeedInv, [AuditFeedNext]_feedVars PROVE FeedInv'
  OBVIOUS
<1>1. CASE ReadFails
  BY <1>1, Stopped DEF ReadFails, FeedInv
<1>2. CASE RefetchFeed
  BY <1>2, Started DEF RefetchFeed, FeedInv
<1>3. ASSUME NEW f \in Filter, SetFilter(f) PROVE FeedInv'
  <2>1. /\ auditLog' = auditLog /\ filter' = f /\ feed' = feed
        /\ reading' = ReadPages(f) \/ reading' = NotReading
    BY <1>3 DEF SetFilter
  <2>2. CASE reading' = ReadPages(f)
    BY <2>1, <2>2, Started
  <2>3. CASE reading' = NotReading
    BY <2>1, <2>3, Stopped
  <2> QED
    BY <2>1, <2>2, <2>3
<1>4. CASE UNCHANGED feedVars
  BY <1>4 DEF feedVars, FeedInv, PagesSoFar
<1> QED
  BY <1>1, <1>2, <1>3, <1>4, RecordStep, ServePageStep, LandStep, MoreStep DEF AuditFeedNext

LEMMA FeedInductive == AuditFeedSpec => []FeedInv
BY FeedInit, FeedStep, PTL DEF AuditFeedSpec

(* The pages, answers and the log keep their types, and a refetch asks for *)
(* no more pages than the log has rows, and one.                           *)
THEOREM AuditFeedTypeCorrect == AuditFeedSpec => []AuditFeedTypeOK
<1>1. FeedInv => AuditFeedTypeOK
  <2> SUFFICES ASSUME FeedInv PROVE AuditFeedTypeOK
    OBVIOUS
  <2>1. \A id \in 1..Len(auditLog) : auditLog[id] \in LogRow
    BY DEF FeedInv
  <2> QED
    BY <2>1 DEF FeedInv, AuditFeedTypeOK, LogRow, Reading
<1> QED
  BY <1>1, FeedInductive, PTL

(* However the log grows between the requests of the pages, under whatever *)
(* filter and with whatever fetch given up, the table is a piece of the    *)
(* log: in order, without a gap and, where no page follows, to its end.    *)
THEOREM FeedCorrect == AuditFeedSpec => []FeedIsTheLog
<1>1. FeedInv => FeedIsTheLog
  <2> SUFFICES ASSUME FeedInv, NEW f \in Filter
               PROVE  LET shown == IdsIn(feed[f]) IN
                      /\ NewestFirst(feed[f])
                      /\ \A id \in shown : id \in 1..Len(auditLog) /\ Passes(f, id)
                      /\ \A id \in 1..Len(auditLog) :
                           /\ Passes(f, id) /\ \E top \in shown : id <= top
                           /\ NextCursor(feed[f]) = NoCursor \/ \E last \in shown : last <= id
                           => id \in shown
    BY DEF FeedIsTheLog
  <2>1. Piece(auditLog, f, feed[f])
    BY DEF FeedInv
  <2>2. \A id : Passes(f, id) <=> Lets(auditLog, f, id)
    BY DEF Passes, Lets
  <2>3. ASSUME NEW id \in 1..Len(auditLog),
               NextCursor(feed[f]) = NoCursor \/ \E last \in IdsIn(feed[f]) : last <= id
        PROVE  NextCursor(feed[f]) <= id
    <3>1. CASE NextCursor(feed[f]) = NoCursor
      BY <3>1 DEF NoCursor
    <3>2. CASE NextCursor(feed[f]) # NoCursor
      <4>1. PICK last \in IdsIn(feed[f]) : last <= id
        BY <2>3, <3>2
      <4>2. /\ NextCursor(feed[f]) \in 1..Len(auditLog) /\ last \in 1..Len(auditLog)
            /\ NextCursor(feed[f]) <= last
        BY <2>1, <3>2 DEF Piece
      <4> QED
        BY <4>1, <4>2
    <3> QED
      BY <3>1, <3>2
  <2> QED
    BY <2>1, <2>2, <2>3 DEF Piece
<1> QED
  BY <1>1, FeedInductive, PTL

(***************************************************************************)
(* The diff.                                                               *)
(***************************************************************************)

(* Induction, over a set: the least element outside of it would have a     *)
(* predecessor inside.                                                     *)
LEMMA LeastElement ==
  ASSUME NEW T, T \subseteq Nat, T # {}
  PROVE  \E x \in T : \A y \in T : x <= y
<1>1. \E x \in T : \A y \in T : ~ (<< y, x >> \in OpToRel(<, Nat))
  BY NatLessThanWellFounded, WFMin, Zenon
<1>2. PICK x \in T : \A y \in T : ~ (<< y, x >> \in OpToRel(<, Nat))
  BY <1>1, Zenon
<1>3. \A y \in T : ~ (y < x)
  <2> SUFFICES ASSUME NEW y \in T, y < x PROVE FALSE
    OBVIOUS
  <2>1. << y, x >> \in Nat \X Nat /\ << y, x >>[1] = y /\ << y, x >>[2] = x
    OBVIOUS
  <2>2. << y, x >>[1] < << y, x >>[2]
    BY <2>1
  <2>3. << y, x >> \in OpToRel(<, Nat)
    BY <2>1, <2>2, Zenon DEF OpToRel
  <2> QED
    BY <1>2, <2>3, Zenon
<1> QED
  BY <1>3

LEMMA SetInduction ==
  ASSUME NEW T, 0 \in T, \A n \in Nat : n \in T => n + 1 \in T
  PROVE  \A n \in Nat : n \in T
<1> SUFFICES ASSUME Nat \ T # {} PROVE FALSE
  OBVIOUS
<1>1. PICK x \in Nat \ T : \A y \in Nat \ T : x <= y
  BY LeastElement
<1>2. x # 0 /\ x - 1 \in Nat
  BY <1>1
<1>3. x - 1 \in T
  BY <1>1, <1>2
<1> QED
  BY <1>1, <1>2, <1>3

-----------------------------------------------------------------------------
(* The table is what its recursion says.                                   *)

LEMMA CellParts ==
  ASSUME NEW l, NEW r, Len(l) \in Nat, Len(r) \in Nat
  PROVE  /\ \A c \in Cells(l, r) : /\ c[1] \in 0..Len(l) /\ c[2] \in 0..Len(r)
                                   /\ c = << c[1], c[2] >>
         /\ \A i \in 0..Len(l), j \in 0..Len(r) : << i, j >> \in Cells(l, r)
<1> DEFINE m == Len(l)
<1> DEFINE n == Len(r)
<1>1. m \in Nat /\ n \in Nat
  OBVIOUS
<1> HIDE DEF m, n
<1>2. /\ \A c \in (0..m) \X (0..n) : c[1] \in 0..m /\ c[2] \in 0..n /\ c = << c[1], c[2] >>
      /\ \A i \in 0..m, j \in 0..n : << i, j >> \in (0..m) \X (0..n)
  OBVIOUS
<1> QED
  BY <1>2 DEF Cells, m, n

LEMMA CellsBefore ==
  ASSUME NEW l, NEW r, Len(l) \in Nat, Len(r) \in Nat,
         NEW i \in 1..Len(l), NEW j \in 1..Len(r)
  PROVE  /\ << i - 1, j >> \in Cells(l, r) /\ << i, j - 1 >> \in Cells(l, r)
         /\ << i - 1, j - 1 >> \in Cells(l, r)
<1>1. i - 1 \in 0..Len(l) /\ j - 1 \in 0..Len(r) /\ i \in 0..Len(l) /\ j \in 0..Len(r)
  OBVIOUS
<1> QED
  BY <1>1, Zenon DEF Cells

(* An entry depends on the cells before it alone.                          *)
LEMMA EntryIsLocal ==
  ASSUME NEW l, NEW r, Len(l) \in Nat, Len(r) \in Nat, NEW t, NEW u, NEW c \in Cells(l, r),
         \A b \in Cells(l, r) : b[1] + b[2] < c[1] + c[2] => t[b] = u[b]
  PROVE  EntryOf(t, l, r, c) = EntryOf(u, l, r, c)
<1>1. CASE c[1] = 0 \/ c[2] = 0
  BY <1>1 DEF EntryOf
<1>2. CASE c[1] # 0 /\ c[2] # 0
  <2>1. c[1] \in 1..Len(l) /\ c[2] \in 1..Len(r)
    BY <1>2, CellParts
  <2>2. /\ << c[1] - 1, c[2] >> \in Cells(l, r) /\ << c[1], c[2] - 1 >> \in Cells(l, r)
        /\ << c[1] - 1, c[2] - 1 >> \in Cells(l, r)
    BY <2>1, CellsBefore
  <2>3. /\ t[<< c[1] - 1, c[2] >>] = u[<< c[1] - 1, c[2] >>]
        /\ t[<< c[1], c[2] - 1 >>] = u[<< c[1], c[2] - 1 >>]
        /\ t[<< c[1] - 1, c[2] - 1 >>] = u[<< c[1] - 1, c[2] - 1 >>]
    BY <2>1, <2>2
  <2> QED
    BY <1>2, <2>3 DEF EntryOf
<1> QED
  BY <1>1, <1>2

LEMMA EntryIsNat ==
  ASSUME NEW l, NEW r, Len(l) \in Nat, Len(r) \in Nat, NEW t, NEW c \in Cells(l, r),
         \A b \in Cells(l, r) : b[1] + b[2] < c[1] + c[2] => t[b] \in Nat
  PROVE  EntryOf(t, l, r, c) \in Nat
<1>1. CASE c[1] = 0 \/ c[2] = 0
  BY <1>1 DEF EntryOf
<1>2. CASE c[1] # 0 /\ c[2] # 0
  <2>1. c[1] \in 1..Len(l) /\ c[2] \in 1..Len(r)
    BY <1>2, CellParts
  <2>2. /\ << c[1] - 1, c[2] >> \in Cells(l, r) /\ << c[1], c[2] - 1 >> \in Cells(l, r)
        /\ << c[1] - 1, c[2] - 1 >> \in Cells(l, r)
    BY <2>1, CellsBefore
  <2>3. /\ t[<< c[1] - 1, c[2] >>] \in Nat
        /\ t[<< c[1], c[2] - 1 >>] \in Nat
        /\ t[<< c[1] - 1, c[2] - 1 >>] \in Nat
    BY <2>1, <2>2
  <2> QED
    BY <1>2, <2>3 DEF EntryOf
<1> QED
  BY <1>1, <1>2

(* A table can be filled, one diagonal after the other.                    *)
LEMMA TableExists ==
  ASSUME NEW l, NEW r, Len(l) \in Nat, Len(r) \in Nat
  PROVE  \E t : t = [c \in Cells(l, r) |-> EntryOf(t, l, r, c)]
<1> DEFINE S == Cells(l, r)
<1> DEFINE FilledTo(t, k) == \A c \in S : c[1] + c[2] < k => t[c] = EntryOf(t, l, r, c)
<1> DEFINE T == {k \in Nat : \E t \in [S -> Nat] : FilledTo(t, k)}
<1>1. 0 \in T
  <2>1. [c \in S |-> 0] \in [S -> Nat]
    OBVIOUS
  <2>2. \A c \in S : ~ (c[1] + c[2] < 0)
    BY CellParts
  <2> QED
    BY <2>1, <2>2
<1>2. ASSUME NEW k \in Nat, k \in T PROVE k + 1 \in T
  <2>1. PICK t \in [S -> Nat] : FilledTo(t, k)
    BY <1>2
  <2> DEFINE u == [c \in S |-> IF c[1] + c[2] = k THEN EntryOf(t, l, r, c) ELSE t[c]]
  <2>2. \A c \in S : EntryOf(t, l, r, c) \in Nat
    BY <2>1, EntryIsNat
  <2>3. u \in [S -> Nat]
    BY <2>1, <2>2
  <2>4. \A c \in S : c[1] + c[2] \in Nat
    BY CellParts
  <2>5. ASSUME NEW c \in S, c[1] + c[2] < k + 1 PROVE u[c] = EntryOf(u, l, r, c)
    <3>1. \A b \in S : b[1] + b[2] < c[1] + c[2] => t[b] = u[b]
      BY <2>4, <2>5
    <3> HIDE DEF u
    <3>2. EntryOf(t, l, r, c) = EntryOf(u, l, r, c)
      BY <3>1, EntryIsLocal
    <3>3. CASE c[1] + c[2] = k
      <4>1. u[c] = EntryOf(t, l, r, c)
        BY <3>3 DEF u
      <4> QED
        BY <3>2, <4>1
    <3>4. CASE c[1] + c[2] # k
      <4>1. u[c] = t[c]
        BY <3>4 DEF u
      <4>2. t[c] = EntryOf(t, l, r, c)
        BY <2>1, <2>4, <2>5, <3>4
      <4> QED
        BY <3>2, <4>1, <4>2
    <3> QED
      BY <3>3, <3>4
  <2> HIDE DEF u
  <2> QED
    BY <2>3, <2>5
<1> HIDE DEF T
<1>3. Len(l) + Len(r) + 1 \in T
  <2>1. \A k \in Nat : k \in T
    BY <1>1, <1>2, SetInduction
  <2> QED
    BY <2>1
<1>4. PICK t \in [S -> Nat] : FilledTo(t, Len(l) + Len(r) + 1)
  BY <1>3 DEF T
<1>5. \A c \in S : t[c] = EntryOf(t, l, r, c)
  <2>1. \A c \in S : c[1] + c[2] < Len(l) + Len(r) + 1
    BY CellParts
  <2> QED
    BY <1>4, <2>1
<1>6. t = [c \in S |-> EntryOf(t, l, r, c)]
  BY <1>5
<1> QED
  BY <1>6

LEMMA TableIsFilled ==
  ASSUME NEW l, NEW r, Len(l) \in Nat, Len(r) \in Nat
  PROVE  \A c \in Cells(l, r) : /\ Table(l, r)[c] = EntryOf(Table(l, r), l, r, c)
                                /\ Table(l, r)[c] \in Nat
<1> DEFINE t == Table(l, r)
<1>1. t = [c \in Cells(l, r) |-> EntryOf(t, l, r, c)]
  <2> DEFINE Filled(u) == u = [c \in Cells(l, r) |-> EntryOf(u, l, r, c)]
  <2>1. \E u : Filled(u)
    BY TableExists
  <2>2. t = CHOOSE u : Filled(u)
    BY DEF Table
  <2> HIDE DEF Filled
  <2>3. Filled(t)
    BY <2>1, <2>2
  <2> QED
    BY <2>3 DEF Filled
<1> HIDE DEF t
<1>2. \A c \in Cells(l, r) : t[c] = EntryOf(t, l, r, c)
  BY <1>1, Zenon
<1> DEFINE T == {k \in Nat : \A c \in Cells(l, r) : c[1] + c[2] < k => t[c] \in Nat}
<1>3. \A c \in Cells(l, r) : c[1] + c[2] \in Nat /\ c[1] + c[2] < Len(l) + Len(r) + 1
  BY CellParts
<1>4. 0 \in T
  BY <1>3
<1>5. ASSUME NEW k \in Nat, k \in T PROVE k + 1 \in T
  <2> SUFFICES ASSUME NEW c \in Cells(l, r), c[1] + c[2] < k + 1 PROVE t[c] \in Nat
    OBVIOUS
  <2>1. \A b \in Cells(l, r) : b[1] + b[2] < c[1] + c[2] => t[b] \in Nat
    BY <1>3, <1>5
  <2>2. EntryOf(t, l, r, c) \in Nat
    BY <2>1, EntryIsNat
  <2> QED
    BY <1>2, <2>2
<1> HIDE DEF T
<1>6. \A k \in Nat : k \in T
  BY <1>4, <1>5, SetInduction
<1>7. Len(l) + Len(r) + 1 \in T
  BY <1>6
<1>8. \A c \in Cells(l, r) : t[c] \in Nat
  BY <1>3, <1>7 DEF T
<1> QED
  BY <1>2, <1>8 DEF t

(* Its entries, case by case.                                              *)
EntryIs(t, l, r, i, j) ==
  /\ t[<< i, j >>] \in Nat
  /\ i = 0 \/ j = 0 => t[<< i, j >>] = 0
  /\ i # 0 /\ j # 0 =>
       /\ t[<< i - 1, j - 1 >>] \in Nat
       /\ t[<< i - 1, j >>] \in Nat /\ t[<< i, j - 1 >>] \in Nat
       /\ l[i] = r[j] => t[<< i, j >>] = t[<< i - 1, j - 1 >>] + 1
       /\ l[i] # r[j] =>
            t[<< i, j >>] = IF t[<< i - 1, j >>] >= t[<< i, j - 1 >>]
                              THEN t[<< i - 1, j >>] ELSE t[<< i, j - 1 >>]

LEMMA TableEntries ==
  ASSUME NEW l, NEW r, Len(l) \in Nat, Len(r) \in Nat,
         NEW i \in 0..Len(l), NEW j \in 0..Len(r)
  PROVE  EntryIs(Table(l, r), l, r, i, j)
<1> DEFINE t == Table(l, r)
<1>1. << i, j >> \in Cells(l, r) /\ << i, j >>[1] = i /\ << i, j >>[2] = j
  BY CellParts
<1>2. t[<< i, j >>] \in Nat /\ t[<< i, j >>] = EntryOf(t, l, r, << i, j >>)
  BY <1>1, TableIsFilled
<1>3. i # 0 /\ j # 0 => /\ t[<< i - 1, j - 1 >>] \in Nat
                        /\ t[<< i - 1, j >>] \in Nat /\ t[<< i, j - 1 >>] \in Nat
  <2> SUFFICES ASSUME i # 0, j # 0
               PROVE  /\ << i - 1, j - 1 >> \in Cells(l, r) /\ << i - 1, j >> \in Cells(l, r)
                      /\ << i, j - 1 >> \in Cells(l, r)
    BY TableIsFilled
  <2> QED
    BY CellsBefore
<1> HIDE DEF t
<1>4. EntryIs(t, l, r, i, j)
  BY <1>1, <1>2, <1>3 DEF EntryOf, EntryIs
<1> QED
  BY <1>4 DEF t

LEMMA TableBounds ==
  ASSUME NEW l, NEW r, Len(l) \in Nat, Len(r) \in Nat,
         NEW i \in 0..Len(l), NEW j \in 0..Len(r)
  PROVE  /\ Table(l, r)[<< i, j >>] \in Nat
         /\ i = 0 \/ j = 0 => Table(l, r)[<< i, j >>] = 0
<1>1. EntryIs(Table(l, r), l, r, i, j)
  BY TableEntries
<1> QED
  BY <1>1 DEF EntryIs

-----------------------------------------------------------------------------
(* No common subsequence is longer than the table says.                    *)

Within(c, i, j) == \A p \in c : p[1] <= i /\ p[2] <= j

LEMMA PairsOf ==
  ASSUME NEW l, NEW r, Len(l) \in Nat, Len(r) \in Nat, NEW c \in CommonSubsequences(l, r)
  PROVE  /\ \A p \in c : /\ p[1] \in 1..Len(l) /\ p[2] \in 1..Len(r)
                         /\ l[p[1]] = r[p[2]]
         /\ \A p, q \in c : p # q => \/ p[1] < q[1] /\ p[2] < q[2]
                                     \/ q[1] < p[1] /\ q[2] < p[2]
<1> DEFINE M == 1..Len(l)
<1> DEFINE N == 1..Len(r)
<1>1. c \in SUBSET {p \in M \X N : l[p[1]] = r[p[2]]}
  BY Zenon DEF CommonSubsequences, Matches
<1>2. \A p, q \in c : p # q => \/ p[1] < q[1] /\ p[2] < q[2]
                               \/ q[1] < p[1] /\ q[2] < p[2]
  BY Zenon DEF CommonSubsequences
<1> HIDE DEF M, N
<1>3. \A p \in c : p[1] \in M /\ p[2] \in N /\ l[p[1]] = r[p[2]]
  BY <1>1
<1> QED
  BY <1>2, <1>3 DEF M, N

LEMMA CommonIsFinite ==
  ASSUME NEW l, NEW r, Len(l) \in Nat, Len(r) \in Nat, NEW c \in CommonSubsequences(l, r)
  PROVE  IsFiniteSet(c) /\ Cardinality(c) \in Nat
<1>1. IsFiniteSet(1..Len(l)) /\ IsFiniteSet(1..Len(r))
  BY FS_Interval
<1>2. IsFiniteSet((1..Len(l)) \X (1..Len(r)))
  BY <1>1, FS_Product
<1>3. c \in SUBSET ((1..Len(l)) \X (1..Len(r)))
  BY Zenon DEF CommonSubsequences, Matches
<1>4. IsFiniteSet(c)
  BY <1>2, <1>3, FS_Subset
<1> QED
  BY <1>4, FS_CardinalityType

LEMMA PartIsCommon ==
  ASSUME NEW l, NEW r, NEW c \in CommonSubsequences(l, r), NEW d \in SUBSET c
  PROVE  d \in CommonSubsequences(l, r)
BY Zenon DEF CommonSubsequences

(* Without its last pair it lies before both lines of that pair.           *)
LEMMA LastPairOut ==
  ASSUME NEW l, NEW r, Len(l) \in Nat, Len(r) \in Nat, NEW c \in CommonSubsequences(l, r),
         NEW i \in 1..Len(l), NEW j \in 1..Len(r), Within(c, i, j),
         NEW p \in c, p[1] = i \/ p[2] = j
  PROVE  /\ c \ {p} \in CommonSubsequences(l, r)
         /\ Within(c \ {p}, p[1] - 1, p[2] - 1)
         /\ Within(c \ {p}, i - 1, j - 1)
         /\ Cardinality(c) = Cardinality(c \ {p}) + 1
<1>1. c \ {p} \in CommonSubsequences(l, r)
  BY PartIsCommon
<1>2. ASSUME NEW q \in c \ {p} PROVE q[1] <= p[1] - 1 /\ q[2] <= p[2] - 1
  <2>1. /\ q[1] \in 1..Len(l) /\ q[2] \in 1..Len(r) /\ p[1] \in 1..Len(l) /\ p[2] \in 1..Len(r)
        /\ \/ p[1] < q[1] /\ p[2] < q[2]
           \/ q[1] < p[1] /\ q[2] < p[2]
    BY PairsOf
  <2>2. q[1] <= i /\ q[2] <= j
    BY DEF Within
  <2> QED
    BY <2>1, <2>2
<1>3. p[1] \in 1..Len(l) /\ p[2] \in 1..Len(r) /\ p[1] <= i /\ p[2] <= j
  BY PairsOf DEF Within
<1>4. ASSUME NEW q \in c \ {p} PROVE q[1] <= i - 1 /\ q[2] <= j - 1
  <2>1. q[1] \in 1..Len(l) /\ q[2] \in 1..Len(r)
    BY PairsOf
  <2> QED
    BY <1>2, <1>3, <2>1
<1>5. Cardinality(c) = Cardinality(c \ {p}) + 1
  <2>1. IsFiniteSet(c) /\ Cardinality(c) \in Nat
    BY CommonIsFinite
  <2>2. Cardinality(c \ {p}) = Cardinality(c) - 1
    BY <2>1, FS_RemoveElement
  <2> QED
    BY <2>1, <2>2
<1> QED
  BY <1>1, <1>2, <1>4, <1>5 DEF Within

(* AtMostTable(l, r, i, j): the claim for the prefixes of i and j lines.   *)
AtMostTable(l, r, i, j) ==
  \A c \in CommonSubsequences(l, r) :
    Within(c, i, j) => Cardinality(c) <= Table(l, r)[<< i, j >>]

(* One more cell.                                                          *)
LEMMA OneMoreCell ==
  ASSUME NEW l, NEW r, Len(l) \in Nat, Len(r) \in Nat,
         NEW i \in 0..Len(l), NEW j \in 0..Len(r),
         i # 0 /\ j # 0 => /\ AtMostTable(l, r, i - 1, j - 1)
                           /\ AtMostTable(l, r, i - 1, j) /\ AtMostTable(l, r, i, j - 1)
  PROVE  AtMostTable(l, r, i, j)
<1> SUFFICES ASSUME NEW c \in CommonSubsequences(l, r), Within(c, i, j)
             PROVE  Cardinality(c) <= Table(l, r)[<< i, j >>]
  BY DEF AtMostTable
<1> DEFINE t == Table(l, r)
<1>5. EntryIs(t, l, r, i, j)
  BY TableEntries
<1> HIDE DEF t
<1>1. /\ t[<< i, j >>] \in Nat
      /\ i = 0 \/ j = 0 => t[<< i, j >>] = 0
      /\ i # 0 /\ j # 0 =>
           /\ t[<< i - 1, j - 1 >>] \in Nat
           /\ t[<< i - 1, j >>] \in Nat /\ t[<< i, j - 1 >>] \in Nat
           /\ l[i] = r[j] => t[<< i, j >>] = t[<< i - 1, j - 1 >>] + 1
           /\ l[i] # r[j] =>
                t[<< i, j >>] = IF t[<< i - 1, j >>] >= t[<< i, j - 1 >>]
                                  THEN t[<< i - 1, j >>] ELSE t[<< i, j - 1 >>]
  BY <1>5 DEF EntryIs
<1>2. IsFiniteSet(c) /\ Cardinality(c) \in Nat
  BY CommonIsFinite
<1>3. CASE i = 0 \/ j = 0
  <2>1. c = {}
    <3> SUFFICES ASSUME NEW p \in c PROVE FALSE
      OBVIOUS
    <3>1. p[1] \in 1..Len(l) /\ p[2] \in 1..Len(r) /\ p[1] <= i /\ p[2] <= j
      BY PairsOf DEF Within
    <3> QED
      BY <1>3, <3>1
  <2>2. Cardinality(c) = 0
    BY <2>1, FS_EmptySet
  <2> QED
    BY <1>1, <1>3, <2>2 DEF t
<1>4. CASE i # 0 /\ j # 0
  <2>1. i \in 1..Len(l) /\ j \in 1..Len(r)
    BY <1>4
  <2>2. CASE \E p \in c : p[1] = i \/ p[2] = j
    <3>1. PICK p \in c : p[1] = i \/ p[2] = j
      BY <2>2
    <3>2. /\ c \ {p} \in CommonSubsequences(l, r)
          /\ Within(c \ {p}, p[1] - 1, p[2] - 1)
          /\ Within(c \ {p}, i - 1, j - 1)
          /\ Cardinality(c) = Cardinality(c \ {p}) + 1
      BY <2>1, <3>1, LastPairOut
    <3>3. p[1] \in 1..Len(l) /\ p[2] \in 1..Len(r) /\ l[p[1]] = r[p[2]] /\ p[1] <= i /\ p[2] <= j
      BY PairsOf DEF Within
    <3>4. CASE l[i] = r[j]
      <4>1. Cardinality(c \ {p}) <= t[<< i - 1, j - 1 >>]
        BY <1>4, <3>2 DEF AtMostTable, t
      <4>2. Cardinality(c \ {p}) \in Nat
        BY <3>2, CommonIsFinite
      <4> QED
        BY <1>1, <1>4, <3>2, <3>4, <4>1, <4>2 DEF t
    <3>5. CASE l[i] # r[j]
      <4>1. \/ p[1] = i /\ p[2] <= j - 1
            \/ p[2] = j /\ p[1] <= i - 1
        <5>1. ~ (p[1] = i /\ p[2] = j)
          BY <3>3, <3>5
        <5> QED
          BY <3>1, <3>3, <5>1
      <4>2. ASSUME NEW q \in c PROVE q[1] <= p[1] /\ q[2] <= p[2]
        <5>1. CASE q = p
          BY <3>3, <5>1
        <5>2. CASE q # p
          <6>1. q \in c \ {p}
            BY <5>2
          <6>2. q[1] <= p[1] - 1 /\ q[2] <= p[2] - 1
            BY <3>2, <6>1 DEF Within
          <6>3. q[1] \in 1..Len(l) /\ q[2] \in 1..Len(r)
            BY PairsOf
          <6> QED
            BY <3>3, <6>2, <6>3
        <5> QED
          BY <5>1, <5>2
      <4>3. \A q \in c : q[1] \in Nat /\ q[2] \in Nat
        BY PairsOf
      <4>4. CASE p[1] = i /\ p[2] <= j - 1
        <5>1. Within(c, i, j - 1)
          BY <3>3, <4>2, <4>3, <4>4 DEF Within
        <5>2. Cardinality(c) <= t[<< i, j - 1 >>]
          BY <1>4, <5>1 DEF AtMostTable, t
        <5> QED
          BY <1>1, <1>2, <1>4, <3>5, <5>2 DEF t
      <4>5. CASE p[2] = j /\ p[1] <= i - 1
        <5>1. Within(c, i - 1, j)
          BY <3>3, <4>2, <4>3, <4>5 DEF Within
        <5>2. Cardinality(c) <= t[<< i - 1, j >>]
          BY <1>4, <5>1 DEF AtMostTable, t
        <5> QED
          BY <1>1, <1>2, <1>4, <3>5, <5>2 DEF t
      <4> QED
        BY <4>1, <4>4, <4>5
    <3> QED
      BY <3>4, <3>5
  <2>3. CASE \A p \in c : p[1] # i /\ p[2] # j
    <3>1. ASSUME NEW p \in c PROVE p[1] <= i - 1 /\ p[2] <= j - 1 /\ p[1] <= i /\ p[2] <= j
      <4>1. p[1] \in 1..Len(l) /\ p[2] \in 1..Len(r) /\ p[1] <= i /\ p[2] <= j
        BY PairsOf DEF Within
      <4> QED
        BY <2>3, <4>1
    <3>2. Within(c, i - 1, j - 1) /\ Within(c, i - 1, j)
      BY <3>1 DEF Within
    <3>3. Cardinality(c) <= t[<< i - 1, j - 1 >>] /\ Cardinality(c) <= t[<< i - 1, j >>]
      BY <1>4, <3>2 DEF AtMostTable, t
    <3> QED
      BY <1>1, <1>2, <1>4, <3>3 DEF t
  <2> QED
    BY <2>2, <2>3
<1> QED
  BY <1>3, <1>4

LEMMA NoneIsLonger ==
  ASSUME NEW l, NEW r, Len(l) \in Nat, Len(r) \in Nat, NEW c \in CommonSubsequences(l, r)
  PROVE  Cardinality(c) <= Table(l, r)[<< Len(l), Len(r) >>]
<1> DEFINE m == Len(l)
<1> DEFINE n == Len(r)
<1> DEFINE T == {k \in Nat : \A i \in 0..m, j \in 0..n : i + j < k => AtMostTable(l, r, i, j)}
<1>1. m \in Nat /\ n \in Nat
  OBVIOUS
<1>2. 0 \in T
  <2>1. \A i \in 0..m, j \in 0..n : ~ (i + j < 0)
    BY <1>1
  <2> QED
    BY <2>1
<1>3. ASSUME NEW k \in Nat, k \in T PROVE k + 1 \in T
  <2>1. ASSUME NEW i \in 0..m, NEW j \in 0..n, i + j < k + 1 PROVE AtMostTable(l, r, i, j)
    <3>1. ASSUME i # 0, j # 0
          PROVE  /\ AtMostTable(l, r, i - 1, j - 1)
                 /\ AtMostTable(l, r, i - 1, j) /\ AtMostTable(l, r, i, j - 1)
      <4>1. /\ i - 1 \in 0..m /\ j - 1 \in 0..n
            /\ (i - 1) + (j - 1) < k /\ (i - 1) + j < k /\ i + (j - 1) < k
        BY <1>1, <2>1, <3>1
      <4>2. \A a \in 0..m, b \in 0..n : a + b < k => AtMostTable(l, r, a, b)
        BY <1>3
      <4> HIDE DEF m, n, T
      <4> QED
        BY <4>1, <4>2
    <3> QED
      BY <3>1, OneMoreCell
  <2> QED
    BY <2>1
<1>4. \A k \in Nat : k \in T
  <2> HIDE DEF T
  <2> QED
    BY <1>2, <1>3, SetInduction
<1>5. m + n + 1 \in T
  BY <1>1, <1>4
<1>6. AtMostTable(l, r, m, n)
  BY <1>1, <1>5
<1>7. Within(c, m, n)
  <2>1. \A p \in c : p[1] \in 1..m /\ p[2] \in 1..n
    BY PairsOf
  <2> QED
    BY <2>1 DEF Within
<1> QED
  BY <1>6, <1>7 DEF AtMostTable

-----------------------------------------------------------------------------
(* The walk: behind it the lines of either side are told, the last first,  *)
(* and what it called equal with what the table holds before it is what    *)
(* the table holds for both values.                                        *)

Op == [kind : {"equal", "removed", "added"}, leftLine : Nat, rightLine : Nat]

(* SpelledBack(side, k, n): the lines k + 1 to n, each once, backwards.    *)
SpelledBack(side, k, n) ==
  /\ \A x \in DOMAIN side : side[x] = NoLine \/ side[x] \in (k + 1)..n
  /\ \A y \in (k + 1)..n : \E x \in DOMAIN side : side[x] = y
  /\ \A x, y \in DOMAIN side :
       x < y /\ side[x] # NoLine /\ side[y] # NoLine => side[y] < side[x]

OpsTrue ==
  \A x \in DOMAIN ops : ops[x].kind = "equal" =>
    leftLines[ops[x].leftLine] = rightLines[ops[x].rightLine]

Told(done, i, j) ==
  LET m == Len(leftLines)
      n == Len(rightLines)
  IN  IF done THEN Spells(LeftSide(ops), m) /\ Spells(RightSide(ops), n)
      ELSE SpelledBack(LeftSide(ops), i, m) /\ SpelledBack(RightSide(ops), j, n)

Counted(i, j) ==
  LET m == Len(leftLines)
      n == Len(rightLines)
  IN  /\ CountOf(ops, "removed") + CountOf(ops, "equal") = m - i
      /\ CountOf(ops, "added") + CountOf(ops, "equal") = n - j
      /\ CountOf(ops, "equal") + lcs[<< i, j >>] = lcs[<< m, n >>]

DiffTyped ==
  /\ leftLines \in Lines(MaxLines) /\ rightLines \in Lines(MaxLines)
  /\ walk \in [i : 0..Len(leftLines), j : 0..Len(rightLines), done : BOOLEAN]
  /\ walk.done => walk.i = 0 /\ walk.j = 0
  /\ ops \in Seq(Op)

DiffInv ==
  /\ DiffTyped /\ OpsTrue
  /\ Told(walk.done, walk.i, walk.j)
  /\ Counted(walk.i, walk.j)

LEMMA AppendParts ==
  ASSUME NEW o \in Seq(Op), NEW e \in Op
  PROVE  /\ Append(o, e) \in Seq(Op)
         /\ Len(o) \in Nat /\ DOMAIN o = 1..Len(o)
         /\ Len(Append(o, e)) = Len(o) + 1
         /\ DOMAIN Append(o, e) = 1..(Len(o) + 1)
         /\ \A x \in 1..Len(o) : Append(o, e)[x] = o[x]
         /\ Append(o, e)[Len(o) + 1] = e
OBVIOUS

(* A number appended to the right place, or none.                          *)
LEMMA SpelledOn ==
  ASSUME NEW N \in Nat, NEW s, DOMAIN s = 1..N,
         NEW u, DOMAIN u = 1..(N + 1), \A x \in 1..N : u[x] = s[x],
         NEW k \in Nat, NEW n \in Nat, k <= n, SpelledBack(s, k, n)
  PROVE  /\ u[N + 1] = NoLine => SpelledBack(u, k, n)
         /\ u[N + 1] = k /\ k # 0 => SpelledBack(u, k - 1, n)
<1>1. \A x \in 1..N : x \in 1..(N + 1) /\ x < N + 1
  OBVIOUS
<1>2. \A x \in 1..(N + 1) : x \in 1..N \/ x = N + 1
  OBVIOUS
<1>3. /\ \A x \in 1..N : s[x] = NoLine \/ s[x] \in (k + 1)..n
      /\ \A y \in (k + 1)..n : \E x \in 1..N : s[x] = y
      /\ \A x, y \in 1..N :
           x < y /\ s[x] # NoLine /\ s[y] # NoLine => s[y] < s[x]
  BY DEF SpelledBack
<1>4. ASSUME u[N + 1] = NoLine PROVE SpelledBack(u, k, n)
  <2>1. \A x \in 1..(N + 1) : u[x] = NoLine \/ u[x] \in (k + 1)..n
    BY <1>2, <1>3, <1>4
  <2>2. \A y \in (k + 1)..n : \E x \in 1..(N + 1) : u[x] = y
    BY <1>1, <1>3
  <2>3. ASSUME NEW x \in 1..(N + 1), NEW y \in 1..(N + 1), x < y, u[x] # NoLine, u[y] # NoLine
        PROVE  u[y] < u[x]
    <3>1. x \in 1..N /\ y \in 1..N
      BY <1>2, <1>4, <2>3
    <3> QED
      BY <1>3, <2>3, <3>1
  <2> QED
    BY <2>1, <2>2, <2>3 DEF SpelledBack
<1>5. ASSUME u[N + 1] = k, k # 0 PROVE SpelledBack(u, k - 1, n)
  <2>1. (k - 1) + 1 = k /\ k \in k..n /\ \A y \in (k + 1)..n : y \in k..n /\ k < y
    BY <1>5
  <2>2. \A x \in 1..(N + 1) : u[x] = NoLine \/ u[x] \in k..n
    BY <1>2, <1>3, <1>5, <2>1
  <2>3. \A y \in k..n : \E x \in 1..(N + 1) : u[x] = y
    <3> SUFFICES ASSUME NEW y \in k..n PROVE \E x \in 1..(N + 1) : u[x] = y
      OBVIOUS
    <3>1. CASE y = k
      BY <1>5, <3>1
    <3>2. CASE y # k
      <4>1. y \in (k + 1)..n
        BY <3>2
      <4>2. PICK x \in 1..N : s[x] = y
        BY <1>3, <4>1
      <4> QED
        BY <1>1, <4>2
    <3> QED
      BY <3>1, <3>2
  <2>4. ASSUME NEW x \in 1..(N + 1), NEW y \in 1..(N + 1), x < y, u[x] # NoLine, u[y] # NoLine
        PROVE  u[y] < u[x]
    <3>1. x \in 1..N
      BY <1>2, <2>4
    <3>2. CASE y \in 1..N
      BY <1>3, <2>4, <3>1, <3>2
    <3>3. CASE y = N + 1
      <4>1. u[x] \in (k + 1)..n
        BY <1>3, <2>4, <3>1
      <4> QED
        BY <1>5, <2>1, <3>3, <4>1
    <3> QED
      BY <1>2, <3>2, <3>3
  <2> QED
    BY <2>1, <2>2, <2>3, <2>4 DEF SpelledBack
<1> QED
  BY <1>4, <1>5

(* The sides of one operation more.                                        *)
LEMMA SidesOn ==
  ASSUME NEW o \in Seq(Op), NEW e \in Op,
         NEW i \in Nat, NEW m \in Nat, i <= m, SpelledBack(LeftSide(o), i, m),
         NEW j \in Nat, NEW n \in Nat, j <= n, SpelledBack(RightSide(o), j, n)
  PROVE  /\ e.kind = "added" => SpelledBack(LeftSide(Append(o, e)), i, m)
         /\ e.kind = "removed" => SpelledBack(RightSide(Append(o, e)), j, n)
         /\ e.kind # "added" /\ e.leftLine = i /\ i # 0 =>
              SpelledBack(LeftSide(Append(o, e)), i - 1, m)
         /\ e.kind # "removed" /\ e.rightLine = j /\ j # 0 =>
              SpelledBack(RightSide(Append(o, e)), j - 1, n)
<1> DEFINE N == Len(o)
<1>1. /\ N \in Nat /\ DOMAIN o = 1..N
      /\ DOMAIN Append(o, e) = 1..(N + 1)
      /\ \A x \in 1..N : Append(o, e)[x] = o[x]
      /\ Append(o, e)[N + 1] = e
      /\ N + 1 \in 1..(N + 1) /\ 1..N \subseteq 1..(N + 1)
  BY AppendParts
<1> HIDE DEF N
<1>2. /\ DOMAIN LeftSide(o) = 1..N /\ DOMAIN LeftSide(Append(o, e)) = 1..(N + 1)
      /\ \A x \in 1..N : LeftSide(Append(o, e))[x] = LeftSide(o)[x]
      /\ LeftSide(Append(o, e))[N + 1] = IF e.kind = "added" THEN NoLine ELSE e.leftLine
  BY <1>1 DEF LeftSide
<1>3. /\ DOMAIN RightSide(o) = 1..N /\ DOMAIN RightSide(Append(o, e)) = 1..(N + 1)
      /\ \A x \in 1..N : RightSide(Append(o, e))[x] = RightSide(o)[x]
      /\ RightSide(Append(o, e))[N + 1] = IF e.kind = "removed" THEN NoLine ELSE e.rightLine
  BY <1>1 DEF RightSide
<1> DEFINE a == LeftSide(o)
<1> DEFINE b == LeftSide(Append(o, e))
<1> DEFINE c == RightSide(o)
<1> DEFINE d == RightSide(Append(o, e))
<1> HIDE DEF a, b, c, d
<1>4. /\ b[N + 1] = NoLine => SpelledBack(b, i, m)
      /\ b[N + 1] = i /\ i # 0 => SpelledBack(b, i - 1, m)
  BY <1>1, <1>2, SpelledOn DEF a, b
<1>5. /\ d[N + 1] = NoLine => SpelledBack(d, j, n)
      /\ d[N + 1] = j /\ j # 0 => SpelledBack(d, j - 1, n)
  BY <1>1, <1>3, SpelledOn DEF c, d
<1> QED
  BY <1>2, <1>3, <1>4, <1>5 DEF b, d

(* Reversed, they are the lines forwards.                                  *)
LEMMA ReverseParts ==
  ASSUME NEW o \in Seq(Op)
  PROVE  /\ Ext!Reverse(o) \in Seq(Op)
         /\ DOMAIN Ext!Reverse(o) = 1..Len(o) /\ DOMAIN o = 1..Len(o) /\ Len(o) \in Nat
         /\ \A x \in 1..Len(o) : /\ Ext!Reverse(o)[x] = o[(Len(o) - x) + 1]
                                 /\ (Len(o) - x) + 1 \in 1..Len(o)
                                 /\ (Len(o) - ((Len(o) - x) + 1)) + 1 = x
<1>1. Len(o) \in Nat /\ \A x \in 1..Len(o) : /\ (Len(o) - x) + 1 \in 1..Len(o)
                                             /\ (Len(o) - ((Len(o) - x) + 1)) + 1 = x
  OBVIOUS
<1>2. \A x \in 1..Len(o) : o[x] \in Op
  OBVIOUS
<1>3. Ext!Reverse(o) = [x \in 1..Len(o) |-> o[(Len(o) - x) + 1]]
  BY DEF Ext!Reverse
<1>4. Ext!Reverse(o) \in [1..Len(o) -> Op]
  BY <1>1, <1>2, <1>3
<1>5. Ext!Reverse(o) \in Seq(Op)
  BY <1>1, <1>4, SeqDef
<1> QED
  BY <1>1, <1>3, <1>5

LEMMA SpelledForward ==
  ASSUME NEW N \in Nat, NEW s, DOMAIN s = 1..N, NEW u, DOMAIN u = 1..N,
         \A x \in 1..N : u[x] = s[(N - x) + 1],
         NEW n \in Nat, SpelledBack(s, 0, n)
  PROVE  Spells(u, n)
<1>1. \A x \in 1..N : (N - x) + 1 \in 1..N /\ (N - ((N - x) + 1)) + 1 = x
  OBVIOUS
<1>2. \A x, y \in 1..N : x < y => (N - y) + 1 < (N - x) + 1
  OBVIOUS
<1> DEFINE one == 0 + 1
<1>10. /\ \A x \in 1..N : s[x] = NoLine \/ s[x] \in one..n
       /\ \A y \in one..n : \E x \in 1..N : s[x] = y
       /\ \A x, y \in 1..N :
            x < y /\ s[x] # NoLine /\ s[y] # NoLine => s[y] < s[x]
  BY Zenon DEF SpelledBack
<1>11. one = 1
  OBVIOUS
<1> HIDE DEF one
<1>3. /\ \A x \in 1..N : s[x] = NoLine \/ s[x] \in 1..n
      /\ \A y \in 1..n : \E x \in 1..N : s[x] = y
      /\ \A x, y \in 1..N :
           x < y /\ s[x] # NoLine /\ s[y] # NoLine => s[y] < s[x]
  BY <1>10, <1>11
<1>4. \A x \in 1..N : u[x] \in 0..n
  BY <1>1, <1>3 DEF NoLine
<1>5. ASSUME NEW y \in 1..n PROVE \E x \in 1..N : u[x] = y
  <2>1. PICK x \in 1..N : s[x] = y
    BY <1>3
  <2>2. (N - x) + 1 \in 1..N /\ u[(N - x) + 1] = s[x]
    <3> DEFINE z == (N - x) + 1
    <3>1. z \in 1..N /\ (N - z) + 1 = x
      BY <1>1
    <3> HIDE DEF z
    <3>2. u[z] = s[(N - z) + 1]
      BY <3>1
    <3> QED
      BY <3>1, <3>2 DEF z
  <2> QED
    BY <2>1, <2>2
<1>6. ASSUME NEW x \in 1..N, NEW y \in 1..N, x < y, u[x] # NoLine, u[y] # NoLine
      PROVE  u[x] < u[y]
  BY <1>1, <1>2, <1>3, <1>6
<1> QED
  BY <1>4, <1>5, <1>6 DEF Spells

LEMMA SidesReversed ==
  ASSUME NEW o \in Seq(Op), NEW m \in Nat, NEW n \in Nat,
         SpelledBack(LeftSide(o), 0, m), SpelledBack(RightSide(o), 0, n)
  PROVE  Spells(LeftSide(Ext!Reverse(o)), m) /\ Spells(RightSide(Ext!Reverse(o)), n)
<1> DEFINE N == Len(o)
<1> DEFINE p == Ext!Reverse(o)
<1>1. /\ N \in Nat /\ DOMAIN o = 1..N /\ DOMAIN p = 1..N
      /\ \A x \in 1..N : p[x] = o[(N - x) + 1] /\ (N - x) + 1 \in 1..N
  BY ReverseParts
<1> HIDE DEF N, p
<1> DEFINE a == LeftSide(o)
<1> DEFINE b == LeftSide(p)
<1> DEFINE c == RightSide(o)
<1> DEFINE d == RightSide(p)
<1>2. /\ DOMAIN a = 1..N /\ DOMAIN b = 1..N
      /\ \A x \in 1..N : b[x] = a[(N - x) + 1]
  BY <1>1 DEF LeftSide
<1>3. /\ DOMAIN c = 1..N /\ DOMAIN d = 1..N
      /\ \A x \in 1..N : d[x] = c[(N - x) + 1]
  BY <1>1 DEF RightSide
<1> HIDE DEF a, b, c, d
<1>4. Spells(b, m)
  BY <1>1, <1>2, SpelledForward DEF a
<1>5. Spells(d, n)
  BY <1>1, <1>3, SpelledForward DEF c
<1> QED
  BY <1>4, <1>5 DEF b, d, p

(* How many operations of a kind there are.                                *)
LEMMA CountType ==
  ASSUME NEW o \in Seq(Op), NEW k
  PROVE  IsFiniteSet({x \in DOMAIN o : o[x].kind = k}) /\ CountOf(o, k) \in Nat
<1>1. DOMAIN o = 1..Len(o) /\ Len(o) \in Nat
  OBVIOUS
<1>2. IsFiniteSet(DOMAIN o)
  BY <1>1, FS_Interval
<1>3. {x \in DOMAIN o : o[x].kind = k} \in SUBSET DOMAIN o
  OBVIOUS
<1>4. IsFiniteSet({x \in DOMAIN o : o[x].kind = k})
  BY <1>2, <1>3, FS_Subset
<1> QED
  BY <1>4, FS_CardinalityType DEF CountOf

LEMMA CountOn ==
  ASSUME NEW o \in Seq(Op), NEW e \in Op, NEW k
  PROVE  CountOf(Append(o, e), k) = IF e.kind = k THEN CountOf(o, k) + 1 ELSE CountOf(o, k)
<1> DEFINE N == Len(o)
<1> DEFINE p == Append(o, e)
<1> DEFINE S == {x \in DOMAIN o : o[x].kind = k}
<1> DEFINE R == {x \in DOMAIN p : p[x].kind = k}
<1>1. /\ N \in Nat /\ DOMAIN o = 1..N /\ DOMAIN p = 1..(N + 1)
      /\ \A x \in 1..N : p[x] = o[x]
      /\ p[N + 1] = e
      /\ N + 1 \notin 1..N
      /\ \A x \in 1..(N + 1) : x \in 1..N \/ x = N + 1
      /\ \A x \in 1..N : x \in 1..(N + 1)
      /\ N + 1 \in 1..(N + 1)
  BY AppendParts
<1> HIDE DEF N, p
<1>2. IsFiniteSet(S) /\ N + 1 \notin S
  BY <1>1, CountType
<1>3. CASE e.kind = k
  <2>1. R = S \cup {N + 1}
    BY <1>1, <1>3
  <2> HIDE DEF S, R
  <2>2. Cardinality(R) = Cardinality(S) + 1
    BY <1>2, <2>1, FS_AddElement
  <2> QED
    BY <1>3, <2>2 DEF CountOf, S, R, p
<1>4. CASE e.kind # k
  <2>1. R = S
    BY <1>1, <1>4
  <2> QED
    BY <1>4, <2>1 DEF CountOf, p
<1> QED
  BY <1>3, <1>4

LEMMA CountReversed ==
  ASSUME NEW o \in Seq(Op), NEW k
  PROVE  CountOf(Ext!Reverse(o), k) = CountOf(o, k)
<1> DEFINE N == Len(o)
<1> DEFINE p == Ext!Reverse(o)
<1> DEFINE S == {x \in DOMAIN o : o[x].kind = k}
<1> DEFINE R == {x \in DOMAIN p : p[x].kind = k}
<1> DEFINE f == [x \in S |-> (N - x) + 1]
<1>1. /\ N \in Nat /\ DOMAIN o = 1..N /\ DOMAIN p = 1..N
      /\ \A x \in 1..N : /\ p[x] = o[(N - x) + 1] /\ (N - x) + 1 \in 1..N
                         /\ (N - ((N - x) + 1)) + 1 = x
  BY ReverseParts
<1> HIDE DEF N, p
<1>2. IsFiniteSet(S)
  BY CountType
<1>3. \A x \in S : x \in 1..N /\ o[x].kind = k
  BY <1>1
<1>4. ASSUME NEW x \in S PROVE (N - x) + 1 \in R
  <2> DEFINE z == (N - x) + 1
  <2>1. z \in 1..N /\ (N - z) + 1 = x
    BY <1>1, <1>3
  <2>2. p[z] = o[(N - z) + 1]
    BY <1>1, <2>1
  <2> HIDE DEF z
  <2>3. p[z] = o[x]
    BY <2>1, <2>2
  <2> QED
    BY <1>1, <1>3, <2>1, <2>3 DEF z
<1>5. ASSUME NEW y \in R PROVE \E x \in S : f[x] = y
  <2>1. y \in 1..N /\ p[y].kind = k
    BY <1>1
  <2>2. (N - y) + 1 \in S /\ (N - ((N - y) + 1)) + 1 = y
    BY <1>1, <2>1
  <2> QED
    BY <2>2
<1>6. \A x, y \in S : (N - x) + 1 = (N - y) + 1 => x = y
  BY <1>1, <1>3
<1>7. f \in [S -> R]
  BY <1>4
<1>8. \A x, y \in S : f[x] = f[y] => x = y
  <2>1. \A x \in S : f[x] = (N - x) + 1
    OBVIOUS
  <2> HIDE DEF f, S
  <2> QED
    BY <1>6, <2>1
<1> HIDE DEF f, S, R
<1>9. f \in Bijection(S, R)
  BY <1>5, <1>7, <1>8 DEF Bijection, Injection, Surjection, IsInjective
<1>10. Cardinality(R) = Cardinality(S)
  BY <1>2, <1>9, FS_Bijection DEF ExistsBijection
<1> QED
  BY <1>10 DEF CountOf, S, R, p

-----------------------------------------------------------------------------
(* The steps.                                                              *)

LEMMA LinesAreFunctions ==
  ASSUME NEW v \in Lines(MaxLines)
  PROVE  Len(v) \in Nat /\ Len(v) <= MaxLines /\ v \in [1..Len(v) -> Line]
<1>1. PICK k \in 0..MaxLines : v \in [1..k -> Line]
  BY DEF Lines
<1>2. v \in Seq(Line) /\ Len(v) = k
  BY <1>1, LineDiffAssumption, SeqDef
<1> QED
  BY <1>1, <1>2, LineDiffAssumption

LEMMA WalkParts ==
  ASSUME DiffTyped
  PROVE  /\ Len(leftLines) \in Nat /\ Len(rightLines) \in Nat
         /\ walk.i \in 0..Len(leftLines) /\ walk.j \in 0..Len(rightLines)
         /\ walk.done \in BOOLEAN
         /\ ops \in Seq(Op)
BY LinesAreFunctions DEF DiffTyped

(* What is pushed at a place of the walk that goes on to another.          *)
PushedAt(e, i, j, a, b) ==
  \/ /\ e.kind = "equal" /\ e.leftLine = i /\ e.rightLine = j
     /\ i # 0 /\ j # 0 /\ a = i - 1 /\ b = j - 1
     /\ leftLines[i] = rightLines[j]
     /\ lcs[<< i, j >>] = lcs[<< a, b >>] + 1
  \/ /\ e.kind = "added" /\ e.rightLine = j
     /\ j # 0 /\ a = i /\ b = j - 1
     /\ lcs[<< i, j >>] = lcs[<< a, b >>]
  \/ /\ e.kind = "removed" /\ e.leftLine = i
     /\ i # 0 /\ a = i - 1 /\ b = j
     /\ lcs[<< i, j >>] = lcs[<< a, b >>]

LEMMA Pushed ==
  ASSUME DiffInv, ~walk.done,
         NEW e \in Op, NEW a \in 0..Len(leftLines), NEW b \in 0..Len(rightLines),
         ops' = Append(ops, e), walk' = [i |-> a, j |-> b, done |-> FALSE],
         UNCHANGED << leftLines, rightLines >>,
         PushedAt(e, walk.i, walk.j, a, b)
  PROVE  DiffInv'
<1> DEFINE m == Len(leftLines)
<1> DEFINE n == Len(rightLines)
<1> DEFINE i == walk.i
<1> DEFINE j == walk.j
<1>1. /\ m \in Nat /\ n \in Nat /\ i \in 0..m /\ j \in 0..n /\ ops \in Seq(Op)
      /\ DiffTyped /\ OpsTrue
      /\ SpelledBack(LeftSide(ops), i, m) /\ SpelledBack(RightSide(ops), j, n)
  BY WalkParts DEF DiffInv, Told
<1>2. /\ CountOf(ops, "removed") + CountOf(ops, "equal") = m - i
      /\ CountOf(ops, "added") + CountOf(ops, "equal") = n - j
      /\ CountOf(ops, "equal") + lcs[<< i, j >>] = lcs[<< m, n >>]
  BY DEF DiffInv, Counted
<1>3. /\ leftLines' = leftLines /\ rightLines' = rightLines /\ lcs' = lcs
      /\ walk'.i = a /\ walk'.j = b /\ walk'.done = FALSE
  BY DEF lcs
<1>4. DiffTyped'
  <2>1. ops' \in Seq(Op)
    BY <1>1, AppendParts
  <2> QED
    BY <1>1, <1>3, <2>1 DEF DiffTyped
<1>5. OpsTrue'
  <2>1. /\ DOMAIN ops = 1..Len(ops) /\ Len(ops) \in Nat
        /\ DOMAIN ops' = 1..(Len(ops) + 1)
        /\ \A x \in 1..Len(ops) : ops'[x] = ops[x]
        /\ ops'[Len(ops) + 1] = e
    BY <1>1, AppendParts
  <2> SUFFICES ASSUME NEW x \in DOMAIN ops', ops'[x].kind = "equal"
               PROVE  leftLines[ops'[x].leftLine] = rightLines[ops'[x].rightLine]
    BY <1>3 DEF OpsTrue
  <2>2. CASE x \in 1..Len(ops)
    BY <1>1, <2>1, <2>2 DEF OpsTrue
  <2>3. CASE x = Len(ops) + 1
    BY <2>1, <2>3 DEF PushedAt
  <2> QED
    BY <2>1, <2>2, <2>3
<1>6. Told(walk.done, walk.i, walk.j)'
  <2>1. i \in Nat /\ i <= m /\ j \in Nat /\ j <= n
    BY <1>1
  <2> DEFINE o == ops
  <2>2. o \in Seq(Op) /\ SpelledBack(LeftSide(o), i, m) /\ SpelledBack(RightSide(o), j, n)
    BY <1>1
  <2> DEFINE p == Append(o, e)
  <2>3. /\ e.kind = "added" => SpelledBack(LeftSide(p), i, m)
        /\ e.kind = "removed" => SpelledBack(RightSide(p), j, n)
        /\ e.kind # "added" /\ e.leftLine = i /\ i # 0 => SpelledBack(LeftSide(p), i - 1, m)
        /\ e.kind # "removed" /\ e.rightLine = j /\ j # 0 => SpelledBack(RightSide(p), j - 1, n)
    <3> HIDE DEF o, m, n, i, j
    <3> QED
      BY <1>1, <2>1, <2>2, SidesOn
  <2>4. p = ops'
    OBVIOUS
  <2>5. SpelledBack(LeftSide(p), a, m) /\ SpelledBack(RightSide(p), b, n)
    <3> HIDE DEF o, p
    <3> QED
      BY <2>3 DEF PushedAt
  <2>6. SpelledBack(LeftSide(ops'), a, m) /\ SpelledBack(RightSide(ops'), b, n)
    BY <2>4, <2>5
  <2> QED
    BY <1>3, <2>6 DEF Told
<1>7. Counted(walk.i, walk.j)'
  <2>1. \A k : CountOf(ops', k) = IF e.kind = k THEN CountOf(ops, k) + 1 ELSE CountOf(ops, k)
    BY <1>1, CountOn
  <2>2. /\ CountOf(ops, "removed") \in Nat /\ CountOf(ops, "equal") \in Nat
        /\ CountOf(ops, "added") \in Nat
    BY <1>1, CountType
  <2>3. lcs[<< i, j >>] \in Nat /\ lcs[<< a, b >>] \in Nat /\ lcs[<< m, n >>] \in Nat
    <3>1. m \in 0..m /\ n \in 0..n
      BY <1>1
    <3> QED
      BY <1>1, <3>1, TableBounds DEF lcs
  <2> DEFINE x == lcs[<< i, j >>]
  <2> DEFINE y == lcs[<< a, b >>]
  <2> DEFINE z == lcs[<< m, n >>]
  <2> HIDE DEF x, y, z
  <2>4. \/ e.kind = "equal" /\ a = i - 1 /\ b = j - 1 /\ x = y + 1
        \/ e.kind = "added" /\ a = i /\ b = j - 1 /\ x = y
        \/ e.kind = "removed" /\ a = i - 1 /\ b = j /\ x = y
    BY DEF x, y, PushedAt
  <2>5. /\ CountOf(ops', "removed") + CountOf(ops', "equal") = m - a
        /\ CountOf(ops', "added") + CountOf(ops', "equal") = n - b
        /\ CountOf(ops', "equal") + y = z
    <3> DEFINE R == CountOf(ops, "removed")
    <3> DEFINE E == CountOf(ops, "equal")
    <3> DEFINE A == CountOf(ops, "added")
    <3>1. /\ x \in Nat /\ y \in Nat /\ z \in Nat /\ R \in Nat /\ E \in Nat /\ A \in Nat
          /\ R + E = m - i /\ A + E = n - j /\ E + x = z
      BY <1>2, <2>2, <2>3 DEF x, y, z
    <3>5. /\ CountOf(ops', "removed") = IF e.kind = "removed" THEN R + 1 ELSE R
          /\ CountOf(ops', "equal") = IF e.kind = "equal" THEN E + 1 ELSE E
          /\ CountOf(ops', "added") = IF e.kind = "added" THEN A + 1 ELSE A
      BY <2>1
    <3>6. m \in Int /\ n \in Int /\ i \in Int /\ j \in Int
      BY <1>1
    <3> HIDE DEF R, E, A, m, n, i, j
    <3>2. CASE e.kind = "equal"
      <4>1. a = i - 1 /\ b = j - 1 /\ x = y + 1
        BY <2>4, <3>2
      <4>2. /\ CountOf(ops', "removed") = R /\ CountOf(ops', "equal") = E + 1
            /\ CountOf(ops', "added") = A
        BY <3>5, <3>2
      <4>3. /\ (R) + (E + 1) = m - a /\ (A) + (E + 1) = n - b /\ (E + 1) + y = z
        BY <3>1, <3>6, <4>1
      <4> QED
        BY <4>2, <4>3, Zenon
    <3>3. CASE e.kind = "added"
      <4>1. a = i /\ b = j - 1 /\ x = y
        BY <2>4, <3>3
      <4>2. /\ CountOf(ops', "removed") = R /\ CountOf(ops', "equal") = E
            /\ CountOf(ops', "added") = A + 1
        BY <3>5, <3>3
      <4>3. /\ (R) + (E) = m - a /\ (A + 1) + (E) = n - b /\ (E) + y = z
        BY <3>1, <3>6, <4>1
      <4> QED
        BY <4>2, <4>3, Zenon
    <3>4. CASE e.kind = "removed"
      <4>1. a = i - 1 /\ b = j /\ x = y
        BY <2>4, <3>4
      <4>2. /\ CountOf(ops', "removed") = R + 1 /\ CountOf(ops', "equal") = E
            /\ CountOf(ops', "added") = A
        BY <3>5, <3>4
      <4>3. /\ (R + 1) + (E) = m - a /\ (A) + (E) = n - b /\ (E) + y = z
        BY <3>1, <3>6, <4>1
      <4> QED
        BY <4>2, <4>3, Zenon
    <3> QED
      BY <2>4, <3>2, <3>3, <3>4
  <2> QED
    BY <1>3, <2>5 DEF Counted, y, z
<1> QED
  BY <1>4, <1>5, <1>6, <1>7 DEF DiffInv

(* The table at the place of the walk.                                     *)
LEMMA TableHere ==
  ASSUME DiffTyped
  PROVE  /\ lcs[<< walk.i, walk.j >>] \in Nat
         /\ walk.i = 0 \/ walk.j = 0 => lcs[<< walk.i, walk.j >>] = 0
         /\ walk.i # 0 /\ walk.j # 0 =>
              /\ lcs[<< walk.i - 1, walk.j >>] \in Nat /\ lcs[<< walk.i, walk.j - 1 >>] \in Nat
              /\ SameLine => lcs[<< walk.i, walk.j >>] = lcs[<< walk.i - 1, walk.j - 1 >>] + 1
              /\ ~SameLine => lcs[<< walk.i, walk.j >>] =
                   IF lcs[<< walk.i - 1, walk.j >>] >= lcs[<< walk.i, walk.j - 1 >>]
                     THEN lcs[<< walk.i - 1, walk.j >>] ELSE lcs[<< walk.i, walk.j - 1 >>]
         /\ walk.i = 0 /\ walk.j # 0 => lcs[<< walk.i, walk.j - 1 >>] = 0
         /\ walk.j = 0 /\ walk.i # 0 => lcs[<< walk.i - 1, walk.j >>] = 0
<1> DEFINE i == walk.i
<1> DEFINE j == walk.j
<1> DEFINE l == leftLines
<1> DEFINE r == rightLines
<1> DEFINE t == lcs
<1>1. /\ Len(l) \in Nat /\ Len(r) \in Nat /\ i \in 0..Len(l) /\ j \in 0..Len(r)
  BY WalkParts
<1>2. t = Table(l, r)
  BY DEF lcs
<1>3. SameLine <=> i > 0 /\ j > 0 /\ l[i] = r[j]
  BY DEF SameLine
<1> HIDE DEF i, j, l, r, t
<1>4. /\ t[<< i, j >>] \in Nat
      /\ i = 0 \/ j = 0 => t[<< i, j >>] = 0
      /\ i # 0 /\ j # 0 =>
           /\ t[<< i - 1, j - 1 >>] \in Nat
           /\ t[<< i - 1, j >>] \in Nat /\ t[<< i, j - 1 >>] \in Nat
           /\ l[i] = r[j] => t[<< i, j >>] = t[<< i - 1, j - 1 >>] + 1
           /\ l[i] # r[j] =>
                t[<< i, j >>] = IF t[<< i - 1, j >>] >= t[<< i, j - 1 >>]
                                  THEN t[<< i - 1, j >>] ELSE t[<< i, j - 1 >>]
  <2>1. EntryIs(t, l, r, i, j)
    BY <1>1, <1>2, TableEntries
  <2> QED
    BY <2>1 DEF EntryIs
<1>5. i = 0 /\ j # 0 => t[<< i, j - 1 >>] = 0
  <2> SUFFICES ASSUME i = 0, j # 0 PROVE t[<< i, j - 1 >>] = 0
    OBVIOUS
  <2> DEFINE k == j - 1
  <2>1. k \in 0..Len(r)
    BY <1>1
  <2> HIDE DEF k
  <2>2. t[<< i, k >>] = 0
    BY <1>1, <1>2, <2>1, TableBounds
  <2> QED
    BY <2>2 DEF k
<1>6. j = 0 /\ i # 0 => t[<< i - 1, j >>] = 0
  <2> SUFFICES ASSUME j = 0, i # 0 PROVE t[<< i - 1, j >>] = 0
    OBVIOUS
  <2> DEFINE k == i - 1
  <2>1. k \in 0..Len(l)
    BY <1>1
  <2> HIDE DEF k
  <2>2. t[<< k, j >>] = 0
    BY <1>1, <1>2, <2>1, TableBounds
  <2> QED
    BY <2>2 DEF k
<1>7. i > 0 <=> i # 0
  BY <1>1
<1>8. j > 0 <=> j # 0
  BY <1>1
<1> QED
  BY <1>3, <1>4, <1>5, <1>6, <1>7, <1>8 DEF i, j, t

LEMMA PushEqualStep == ASSUME DiffInv, PushEqual PROVE DiffInv'
<1> DEFINE e == Equal(walk.i, walk.j)
<1> DEFINE a == walk.i - 1
<1> DEFINE b == walk.j - 1
<1>1. /\ DiffTyped /\ walk.i \in 0..Len(leftLines) /\ walk.j \in 0..Len(rightLines)
      /\ Len(leftLines) \in Nat /\ Len(rightLines) \in Nat
  BY WalkParts DEF DiffInv
<1>2. /\ ~walk.done /\ walk.i # 0 /\ walk.j # 0 /\ leftLines[walk.i] = rightLines[walk.j]
      /\ SameLine
  BY <1>1 DEF PushEqual, Walking, SameLine
<1>3. a \in 0..Len(leftLines) /\ b \in 0..Len(rightLines)
  BY <1>1, <1>2
<1>4. /\ e \in Op /\ e.kind = "equal" /\ e.leftLine = walk.i /\ e.rightLine = walk.j
  BY <1>1 DEF Equal, Op
<1>5. lcs[<< walk.i, walk.j >>] = lcs[<< a, b >>] + 1
  BY <1>1, <1>2, TableHere
<1>6. ops' = Append(ops, e) /\ walk' = [i |-> a, j |-> b, done |-> FALSE]
      /\ UNCHANGED << leftLines, rightLines >>
  BY DEF PushEqual
<1>7. a = walk.i - 1 /\ b = walk.j - 1
  OBVIOUS
<1> HIDE DEF e, a, b
<1> QED
  BY <1>2, <1>3, <1>4, <1>5, <1>6, <1>7, Pushed DEF PushedAt

LEMMA PushAddedStep == ASSUME DiffInv, PushAdded PROVE DiffInv'
<1> DEFINE e == Added(walk.j)
<1> DEFINE a == walk.i
<1> DEFINE b == walk.j - 1
<1>1. /\ DiffTyped /\ walk.i \in 0..Len(leftLines) /\ walk.j \in 0..Len(rightLines)
      /\ Len(leftLines) \in Nat /\ Len(rightLines) \in Nat
  BY WalkParts DEF DiffInv
<1>2. /\ ~walk.done /\ walk.j # 0 /\ ~SameLine
      /\ walk.i # 0 => lcs[<< walk.i, walk.j - 1 >>] >= lcs[<< walk.i - 1, walk.j >>]
  BY <1>1 DEF PushAdded, Walking, RightIsNext
<1>3. a \in 0..Len(leftLines) /\ b \in 0..Len(rightLines)
  BY <1>1, <1>2
<1>4. /\ e \in Op /\ e.kind = "added" /\ e.rightLine = walk.j
  BY <1>1 DEF Added, Op, NoLine
<1>5. lcs[<< walk.i, walk.j >>] = lcs[<< a, b >>]
  <2>1. CASE walk.i = 0
    BY <1>1, <1>2, <2>1, TableHere
  <2>2. CASE walk.i # 0
    <3> DEFINE x == lcs[<< walk.i - 1, walk.j >>]
    <3> DEFINE y == lcs[<< walk.i, walk.j - 1 >>]
    <3>1. /\ x \in Nat /\ y \in Nat /\ y >= x
          /\ lcs[<< walk.i, walk.j >>] = IF x >= y THEN x ELSE y
      BY <1>1, <1>2, <2>2, TableHere
    <3>2. y = lcs[<< a, b >>]
      OBVIOUS
    <3> HIDE DEF x, y, a, b
    <3> QED
      BY <3>1, <3>2
  <2> QED
    BY <2>1, <2>2
<1>6. ops' = Append(ops, e) /\ walk' = [i |-> a, j |-> b, done |-> FALSE]
      /\ UNCHANGED << leftLines, rightLines >>
  BY DEF PushAdded
<1>7. a = walk.i /\ b = walk.j - 1
  OBVIOUS
<1> HIDE DEF e, a, b
<1> QED
  BY <1>2, <1>3, <1>4, <1>5, <1>6, <1>7, Pushed DEF PushedAt

LEMMA PushRemovedStep == ASSUME DiffInv, PushRemoved PROVE DiffInv'
<1> DEFINE e == Removed(walk.i)
<1> DEFINE a == walk.i - 1
<1> DEFINE b == walk.j
<1>1. /\ DiffTyped /\ walk.i \in 0..Len(leftLines) /\ walk.j \in 0..Len(rightLines)
      /\ Len(leftLines) \in Nat /\ Len(rightLines) \in Nat
  BY WalkParts DEF DiffInv
<1>2. /\ ~walk.done /\ walk.i # 0 /\ ~SameLine
      /\ walk.j # 0 => ~ (lcs[<< walk.i, walk.j - 1 >>] >= lcs[<< walk.i - 1, walk.j >>])
  BY <1>1 DEF PushRemoved, Walking, RightIsNext
<1>3. a \in 0..Len(leftLines) /\ b \in 0..Len(rightLines)
  BY <1>1, <1>2
<1>4. /\ e \in Op /\ e.kind = "removed" /\ e.leftLine = walk.i
  BY <1>1 DEF Removed, Op, NoLine
<1>5. lcs[<< walk.i, walk.j >>] = lcs[<< a, b >>]
  <2>1. CASE walk.j = 0
    BY <1>1, <1>2, <2>1, TableHere
  <2>2. CASE walk.j # 0
    <3> DEFINE x == lcs[<< walk.i - 1, walk.j >>]
    <3> DEFINE y == lcs[<< walk.i, walk.j - 1 >>]
    <3>1. /\ x \in Nat /\ y \in Nat /\ ~ (y >= x)
          /\ lcs[<< walk.i, walk.j >>] = IF x >= y THEN x ELSE y
      BY <1>1, <1>2, <2>2, TableHere
    <3>2. x = lcs[<< a, b >>]
      OBVIOUS
    <3> HIDE DEF x, y, a, b
    <3> QED
      BY <3>1, <3>2
  <2> QED
    BY <2>1, <2>2
<1>6. ops' = Append(ops, e) /\ walk' = [i |-> a, j |-> b, done |-> FALSE]
      /\ UNCHANGED << leftLines, rightLines >>
  BY DEF PushRemoved
<1>7. a = walk.i - 1 /\ b = walk.j
  OBVIOUS
<1> HIDE DEF e, a, b
<1> QED
  BY <1>2, <1>3, <1>4, <1>5, <1>6, <1>7, Pushed DEF PushedAt

LEMMA ReturnStep == ASSUME DiffInv, ReturnOps PROVE DiffInv'
<1> DEFINE m == Len(leftLines)
<1> DEFINE n == Len(rightLines)
<1> DEFINE p == Ext!Reverse(ops)
<1>1. /\ DiffTyped /\ OpsTrue /\ ops \in Seq(Op) /\ m \in Nat /\ n \in Nat
      /\ walk.done = FALSE /\ walk.i = 0 /\ walk.j = 0
      /\ Told(FALSE, 0, 0) /\ Counted(0, 0)
  BY WalkParts DEF DiffInv, ReturnOps
<1>2. /\ leftLines' = leftLines /\ rightLines' = rightLines /\ lcs' = lcs
      /\ ops' = p /\ walk' = [i |-> 0, j |-> 0, done |-> TRUE]
  BY DEF ReturnOps, lcs
<1>3. DiffTyped'
  <2>1. p \in Seq(Op)
    BY <1>1, ReverseParts
  <2> HIDE DEF p
  <2> QED
    BY <1>1, <1>2, <2>1 DEF DiffTyped
<1>4. OpsTrue'
  <2>1. /\ DOMAIN p = 1..Len(ops) /\ DOMAIN ops = 1..Len(ops)
        /\ \A x \in 1..Len(ops) : p[x] = ops[(Len(ops) - x) + 1]
                                  /\ (Len(ops) - x) + 1 \in 1..Len(ops)
    BY <1>1, ReverseParts
  <2> HIDE DEF p
  <2>2. \A x \in DOMAIN p : p[x].kind = "equal" =>
          leftLines[p[x].leftLine] = rightLines[p[x].rightLine]
    BY <1>1, <2>1 DEF OpsTrue
  <2> QED
    BY <1>2, <2>2 DEF OpsTrue
<1>5. Told(walk.done, walk.i, walk.j)'
  <2>1. SpelledBack(LeftSide(ops), 0, m) /\ SpelledBack(RightSide(ops), 0, n)
    BY <1>1 DEF Told
  <2> HIDE DEF m, n
  <2>2. Spells(LeftSide(p), m) /\ Spells(RightSide(p), n)
    BY <1>1, <2>1, SidesReversed
  <2> HIDE DEF p
  <2>3. Spells(LeftSide(ops'), m) /\ Spells(RightSide(ops'), n)
    BY <1>2, <2>2
  <2>4. walk'.done
    BY <1>2
  <2> QED
    BY <1>2, <2>3, <2>4 DEF Told, m, n
<1>6. Counted(walk.i, walk.j)'
  <2>1. \A k : CountOf(p, k) = CountOf(ops, k)
    BY <1>1, CountReversed
  <2> HIDE DEF p
  <2>2. \A k : CountOf(ops', k) = CountOf(ops, k)
    BY <1>2, <2>1
  <2>3. walk'.i = 0 /\ walk'.j = 0
    BY <1>2
  <2> QED
    BY <1>1, <1>2, <2>2, <2>3 DEF Counted
<1> QED
  BY <1>3, <1>4, <1>5, <1>6 DEF DiffInv

LEMMA DiffStart == ASSUME DiffInit PROVE DiffInv
<1> DEFINE m == Len(leftLines)
<1> DEFINE n == Len(rightLines)
<1>1. m \in Nat /\ n \in Nat
  BY LinesAreFunctions DEF DiffInit
<1>2. /\ walk = [i |-> m, j |-> n, done |-> FALSE] /\ ops = << >>
      /\ leftLines \in Lines(MaxLines) /\ rightLines \in Lines(MaxLines)
  BY DEF DiffInit, StartAt
<1>3. ops \in Seq(Op) /\ DOMAIN ops = {}
  BY <1>2
<1>4. DiffTyped
  BY <1>1, <1>2, <1>3 DEF DiffTyped
<1>5. OpsTrue
  BY <1>3 DEF OpsTrue
<1>6. SpelledBack(LeftSide(ops), m, m) /\ SpelledBack(RightSide(ops), n, n)
  <2>1. DOMAIN LeftSide(ops) = {} /\ DOMAIN RightSide(ops) = {}
    BY <1>3 DEF LeftSide, RightSide
  <2>2. (m + 1)..m = {} /\ (n + 1)..n = {}
    BY <1>1
  <2> HIDE DEF m, n
  <2> QED
    BY <2>1, <2>2, Zenon DEF SpelledBack
<1>7. \A k : CountOf(ops, k) = 0
  <2>1. \A k : {x \in DOMAIN ops : ops[x].kind = k} = {}
    BY <1>3
  <2> QED
    BY <2>1, FS_EmptySet DEF CountOf
<1>8. Counted(m, n)
  <2>1. lcs[<< m, n >>] \in Nat
    BY <1>1, TableBounds DEF lcs
  <2> DEFINE z == lcs[<< m, n >>]
  <2> HIDE DEF z
  <2>2. 0 + z = z
    BY <2>1 DEF z
  <2>3. 0 + 0 = m - m /\ 0 + 0 = n - n
    BY <1>1
  <2> QED
    BY <1>7, <2>2, <2>3 DEF Counted, z
<1> QED
  BY <1>2, <1>4, <1>5, <1>6, <1>8 DEF DiffInv, Told

LEMMA DiffStep == DiffInv /\ [DiffNext]_diffVars => DiffInv'
<1>1. ASSUME DiffInv, UNCHANGED diffVars PROVE DiffInv'
  BY <1>1 DEF diffVars, DiffInv, DiffTyped, OpsTrue, Told, Counted, lcs
<1> QED
  BY <1>1, PushEqualStep, PushAddedStep, PushRemovedStep, ReturnStep DEF DiffNext

LEMMA DiffInductive == DiffSpec => []DiffInv
BY DiffStart, DiffStep, PTL DEF DiffSpec

(* The operations of a diff are well-formed while it is drawn up and after *)
(* (diff.ts, diffLines).                                                   *)
THEOREM DiffTypeCorrect == DiffSpec => []LineDiffTypeOK
<1>1. DiffInv => LineDiffTypeOK
  <2> SUFFICES ASSUME DiffInv PROVE LineDiffTypeOK
    OBVIOUS
  <2>1. \A x \in DOMAIN ops : ops[x] \in Op
    BY DEF DiffInv, DiffTyped
  <2> QED
    BY <2>1 DEF DiffInv, DiffTyped, LineDiffTypeOK, Op
<1> QED
  BY <1>1, DiffInductive, PTL

(* diffLines returns a true and a shortest diff for every pair of values   *)
(* of any length: the table bounds every common subsequence, and the walk  *)
(* loses none of the lines it promised.                                    *)
THEOREM DiffCorrect == DiffSpec => []ShortestDiff
<1>1. ASSUME DiffInv, walk.done PROVE ShortestDiff
  <2> DEFINE m == Len(leftLines)
  <2> DEFINE n == Len(rightLines)
  <2>1. /\ m \in Nat /\ n \in Nat /\ DiffTyped /\ walk.i = 0 /\ walk.j = 0 /\ ops \in Seq(Op)
    BY <1>1, WalkParts DEF DiffInv, DiffTyped
  <2>2. /\ Spells(LeftSide(ops), m) /\ Spells(RightSide(ops), n) /\ OpsTrue
    BY <1>1 DEF DiffInv, Told
  <2>3. /\ CountOf(ops, "removed") + CountOf(ops, "equal") = m - 0
        /\ CountOf(ops, "added") + CountOf(ops, "equal") = n - 0
        /\ CountOf(ops, "equal") + lcs[<< 0, 0 >>] = lcs[<< m, n >>]
    BY <1>1, <2>1 DEF DiffInv, Counted
  <2>4. lcs[<< 0, 0 >>] = 0
    BY <2>1, TableHere
  <2>5. /\ CountOf(ops, "removed") \in Nat /\ CountOf(ops, "equal") \in Nat
        /\ CountOf(ops, "added") \in Nat
    BY <2>1, CountType
  <2>6. ASSUME NEW c \in CommonSubsequences(leftLines, rightLines)
        PROVE  /\ diffSummary.removed <= m - Cardinality(c)
               /\ diffSummary.added <= n - Cardinality(c)
    <3>1. Cardinality(c) \in Nat /\ Cardinality(c) <= lcs[<< m, n >>]
      BY <2>1, CommonIsFinite, NoneIsLonger DEF lcs
    <3>2. diffSummary.removed = CountOf(ops, "removed") /\ diffSummary.added = CountOf(ops, "added")
      BY DEF diffSummary
    <3> DEFINE z == lcs[<< m, n >>]
    <3>3. z = CountOf(ops, "equal")
      BY <2>3, <2>4, <2>5
    <3> HIDE DEF z
    <3>4. Cardinality(c) <= CountOf(ops, "equal")
      BY <3>1, <3>3 DEF z
    <3> HIDE DEF m, n
    <3> QED
      BY <2>1, <2>3, <2>5, <3>1, <3>2, <3>4
  <2> QED
    BY <2>2, <2>6 DEF ShortestDiff, OpsTrue
<1>2. DiffInv => ShortestDiff
  BY <1>1 DEF ShortestDiff
<1> QED
  BY <1>2, DiffInductive, PTL

(***************************************************************************)
(* The dashboard as a whole.  A scene lets one part move, and the others   *)
(* stand: each part does what it does alone.                               *)
(***************************************************************************)

LEMMA PartsStart ==
  Init => ListInit /\ SecretPageInit /\ AuditFeedInit /\ PaletteInit /\ DiffInit
<1> SUFFICES ASSUME Init PROVE DiffInit
  BY Zenon DEF Init
<1>1. CASE scene = "diff"
  BY <1>1, Zenon DEF Init
<1>2. CASE scene # "diff"
  <2>1. /\ leftLines = << >> /\ rightLines = << >> /\ ops = << >>
        /\ walk = StartAt(leftLines, rightLines)
    BY <1>2, Zenon DEF Init
  <2>2. << >> \in Lines(MaxLines)
    <3>1. 0 \in 0..MaxLines
      BY LineDiffAssumption
    <3>2. << >> \in [1..0 -> Line]
      OBVIOUS
    <3>3. << >> # << Blank >>
      OBVIOUS
    <3>4. << >> \in UNION {[1..k -> Line] : k \in 0..MaxLines}
      BY <3>1, <3>2, Zenon
    <3> QED
      BY <3>3, <3>4, Zenon DEF Lines
  <2> QED
    BY <2>1, <2>2, Zenon DEF DiffInit
<1> QED
  BY <1>1, <1>2

LEMMA PartsStep ==
  ASSUME [Next]_vars
  PROVE  /\ [ListNext]_listVars /\ [SecretPageNext]_secretVars
         /\ [AuditFeedNext]_feedVars /\ [PaletteNext]_paletteVars /\ [DiffNext]_diffVars
<1>1. CASE Next
  BY <1>1, Zenon DEF Next, ListScene, SecretScene, AuditScene, PaletteScene, DiffScene,
     ListsStand, SecretsStand, FeedStands, PaletteStands, DiffStands
<1>2. CASE UNCHANGED vars
  BY <1>2 DEF vars
<1> QED
  BY <1>1, <1>2

(* What is proved of a part alone holds of it in this composition: the     *)
(* parts share no variable, and what one does to a query of another is a   *)
(* step of the other's module.                                             *)
THEOREM PartsAreThemselves ==
  Spec => ListSpec /\ SecretPageSpec /\ AuditFeedSpec /\ PaletteSpec /\ DiffSpec
BY PartsStart, PartsStep, PTL
   DEF Spec, ListSpec, SecretPageSpec, AuditFeedSpec, PaletteSpec, DiffSpec

(* Every part of the dashboard is well typed, in motion or standing.       *)
THEOREM DashboardTypeCorrect == Spec => []DashboardTypeOK
<1>1. /\ ListTypeOK /\ SecretPageTypeOK /\ AuditFeedTypeOK /\ PaletteTypeOK /\ LineDiffTypeOK
      => DashboardTypeOK
  BY Zenon DEF DashboardTypeOK
<1> QED
  BY <1>1, PartsAreThemselves, ListTypeCorrect, SecretPageTypeCorrect, AuditFeedTypeCorrect,
     PaletteTypeCorrect, DiffTypeCorrect, PTL

(* In the composition that the runs check, too: the pages show what they   *)
(* announced, but for the changes excepted by ListShowsWhatWasTold and     *)
(* PageShowsWhatWasSaid, and act on what is shown, the feed is a piece of  *)
(* the log, ready means loaded, and the diff is a shortest one.            *)
THEOREM DashboardCorrect ==
  Spec => /\ []ListShowsWhatWasTold /\ []OneRemovalAtATime
          /\ []PageShowsWhatWasSaid /\ []RowsActOnWhatIsShown
          /\ []FeedIsTheLog /\ []ReadyMeansLoaded /\ []ShortestDiff
BY PartsAreThemselves, ToldIsShown, RemovalsAreSingle, SaidIsShown,
   RowsAreRight, FeedCorrect, ReadyIsLoaded, DiffCorrect, PTL
=============================================================================
