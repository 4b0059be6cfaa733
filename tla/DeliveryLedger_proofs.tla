----------------------- MODULE DeliveryLedger_proofs ------------------------
(***************************************************************************)
(* Who is sent what: an event goes to the webhook it was owed to, or that  *)
(* webhook is deleted; a row reads delivered on an acknowledgement; and    *)
(* with one worker the outbox implements DeliveryLedger.                   *)
(***************************************************************************)
EXTENDS WebhookOutbox_proofs

(* Registration g is deleted, or was never made.                           *)
Dead(g) == \A h \in HookId : hooks[h].reg # g

(* ... in the next state.                                                  *)
DeadNext(g) == \A h \in HookId : hooks'[h].reg # g

HooksDistinct ==
  /\ \A h \in HookId : hooks[h].reg <= regs
  /\ \A g, h \in HookId : hooks[g].reg = hooks[h].reg => g = h \/ hooks[h].reg = 0

(* A row's event is owed to the registration that now has the row's        *)
(* webhook id, since the row would have gone with it.                      *)
RowsKnown ==
  \A d \in DeliveryId : rows[d] # NoRow =>
    /\ rows[d].serial <= inserted
    /\ born[rows[d].serial] = [id |-> d, reg |-> hooks[rows[d].hook].reg]

BornKnown == \A s \in Serial : s <= inserted => born[s].reg \in 1..regs

AckedKnown ==
  \A p \in acked : p[1] <= inserted /\ (Astray(p) => Dead(born[p[1]].reg))

(* What entry e of a batch names is an event owed to e.hook, as long as    *)
(* that one lives; g, the webhook cached for it, is that one, or it is     *)
(* dead.                                                                   *)
Known(e) ==
  /\ e.serial <= inserted
  /\ born[e.serial].id = e.id
  /\ \A h \in HookId : hooks[h].reg = born[e.serial].reg => h = e.hook

Fits(e, g) == g \in {0, born[e.serial].reg} \/ Dead(born[e.serial].reg)

(* ... in the next state.                                                  *)
FitsNext(e, g) == g \in {0, born'[e.serial].reg} \/ DeadNext(born'[e.serial].reg)

Sent(w) ==
  LET me == workers[w] IN
  /\ \A e \in me.cand \cup me.batch : Known(e) /\ Fits(e, me.seen[e.hook])
  /\ \A e, f \in me.cand \cup me.batch : e.id = f.id => e = f
  /\ me.phase = "select" => me.batch = {}
  /\ me.phase \in {"select", "cas"} => \A h \in HookId : me.seen[h] = 0
  /\ me.phase = "send" => \A e \in me.batch : IsFirst(e, me.batch) => me.seen[e.hook] # 0

TablesInv == HooksDistinct /\ RowsKnown /\ BornKnown

SentInv == TypeOK /\ TablesInv /\ AckedKnown /\ \A w \in Worker : Sent(w)

----------------------------------------------------------------------------
(* The tables.                                                             *)

(* Only requests touch webhooks and registrations, and only a commit adds  *)
(* rows.                                                                   *)
LEMMA QuietStep ==
  ASSUME [Next]_vars, ~Request
  PROVE  UNCHANGED << hooks, regs, inserted, born >>
BY DEF Next, vars, WorkerStep, WorkerFault, Reclaim, ReclaimFails, ClaimSelect, ClaimCas,
   ClaimFails, Resolve, ResolveFails, ResolveUnsealable, UrlBlocked, Post, Mark, MarkFails,
   Crash, Restart, Tick, storeVars, historyVars

(* What a commit inserts.                                                  *)
Inserted(d) ==
  /\ rows[d] = NoRow
  /\ rows'[d].status = "pending"
  /\ rows'[d].hook \in HookId
  /\ hooks[rows'[d].hook].reg # 0
  /\ rows'[d].serial \in inserted + 1 .. inserted'
  /\ born'[rows'[d].serial] = [id |-> d, reg |-> hooks[rows'[d].hook].reg]

LEMMA CommitEffects ==
  ASSUME TypeOK, NEW kind \in Kind, CommitChange(kind)
  PROVE  /\ inserted < inserted'
         /\ inserted' \in 0..MaxRows
         /\ \A d \in DeliveryId : rows'[d] = rows[d] \/ Inserted(d)
         /\ \A s \in Serial : s <= inserted => born'[s] = born[s]
         /\ \A s \in Serial : s > inserted /\ s <= inserted' =>
              \E d \in DeliveryId : Inserted(d) /\ rows'[d].serial = s
         /\ UNCHANGED << hooks, workers, regs, acked >>
<1>0. PICK k \in 1..MaxRegs, last \in 0..MaxRows :
        \E ms \in [1..k -> MatchForEvent(kind)] :
          /\ IsLastId(last, Live)
          /\ inserted + k <= MaxRows /\ last + k <= MaxRows
          /\ inserted' = inserted + k
          /\ rows' = [d \in DeliveryId |->
                       IF d \in last + 1 .. last + k
                       THEN [status |-> "pending", hook |-> ms[d - last],
                             serial |-> inserted + (d - last),
                             attempts |-> 0, wait |-> 0, lease |-> NoLease]
                       ELSE rows[d]]
          /\ born' = [s \in Serial |->
                       IF s \in inserted + 1 .. inserted + k
                       THEN [id |-> last + (s - inserted), reg |-> hooks[ms[s - inserted]].reg]
                       ELSE born[s]]
          /\ UNCHANGED << hooks, workers, regs, posts, acked, holder, faults >>
  BY SMTT(40) DEF CommitChange
<1>1. PICK ms \in [1..k -> MatchForEvent(kind)] :
        /\ IsLastId(last, Live)
        /\ inserted + k <= MaxRows /\ last + k <= MaxRows
        /\ inserted' = inserted + k
        /\ rows' = [d \in DeliveryId |->
                     IF d \in last + 1 .. last + k
                     THEN [status |-> "pending", hook |-> ms[d - last],
                           serial |-> inserted + (d - last),
                           attempts |-> 0, wait |-> 0, lease |-> NoLease]
                     ELSE rows[d]]
        /\ born' = [s \in Serial |->
                     IF s \in inserted + 1 .. inserted + k
                     THEN [id |-> last + (s - inserted), reg |-> hooks[ms[s - inserted]].reg]
                     ELSE born[s]]
        /\ UNCHANGED << hooks, workers, regs, posts, acked, holder, faults >>
  BY <1>0
<1>2. inserted \in Nat /\ inserted < inserted' /\ inserted' \in 0..MaxRows
  BY <1>1, OutboxAssumption DEF TypeOK
<1>3. ASSUME NEW d \in DeliveryId, d \in last + 1 .. last + k
      PROVE  Inserted(d) /\ rows'[d].serial = inserted + (d - last)
  <2>1. d - last \in 1..k /\ last \in Int /\ d \in Int
    BY <1>3
  <2>2. ms[d - last] \in HookId /\ hooks[ms[d - last]].reg # 0
    BY <2>1 DEF MatchForEvent, Registered
  <2>3. rows[d] = NoRow
    <3>1. d \notin Live
      BY <1>1, <1>3 DEF IsLastId, DeliveryId, Live
    <3>2. rows[d].status = "absent"
      BY <3>1 DEF Live
    <3> QED
      BY <3>2 DEF TypeOK, Row, LiveRow, Status
  <2>4. /\ rows'[d].status = "pending" /\ rows'[d].hook = ms[d - last]
        /\ rows'[d].serial = inserted + (d - last)
    BY <1>1, <1>3
  <2> DEFINE s == inserted + (d - last)
  <2>5. s \in inserted + 1 .. inserted + k /\ s - inserted = d - last /\ last + (s - inserted) = d
    BY <1>2, <2>1
  <2>6. s \in Serial
    BY <1>1, <1>2, <2>5, OutboxAssumption DEF Serial
  <2>7. born'[s] = [id |-> last + (s - inserted), reg |-> hooks[ms[s - inserted]].reg]
    BY <1>1, <2>5, <2>6
  <2> QED
    BY <1>1, <2>2, <2>3, <2>4, <2>5, <2>7 DEF Inserted
<1>4. ASSUME NEW d \in DeliveryId
      PROVE  rows'[d] = rows[d] \/ Inserted(d)
  BY <1>1, <1>3
<1>5. ASSUME NEW s \in Serial, s <= inserted
      PROVE  born'[s] = born[s]
  <2>1. s \notin inserted + 1 .. inserted + k
    BY <1>2, <1>5 DEF Serial
  <2> QED
    BY <1>1, <2>1
<1>6. ASSUME NEW s \in Serial, s > inserted, s <= inserted'
      PROVE  \E d \in DeliveryId : Inserted(d) /\ rows'[d].serial = s
  <2> DEFINE d == last + (s - inserted)
  <2>1. d \in last + 1 .. last + k /\ inserted + (d - last) = s
    BY <1>1, <1>2, <1>6 DEF Serial
  <2>2. d \in DeliveryId
    BY <1>1, <2>1, OutboxAssumption DEF DeliveryId
  <2> QED
    BY <1>3, <2>1, <2>2
<1> QED
  BY <1>1, <1>2, <1>4, <1>5, <1>6

(* What any step does to registrations and events: registrations go, or    *)
(* come under a new number; what is known of an event stays.               *)
LEMMA TablesStep ==
  ASSUME TypeOK, HooksDistinct, [Next]_vars
  PROVE  /\ regs \in Nat /\ inserted \in Nat /\ regs' \in Nat /\ inserted' \in Nat
         /\ regs <= regs' /\ inserted <= inserted'
         /\ \A s \in Serial : s <= inserted => born'[s] = born[s]
         /\ \A h \in HookId : \/ hooks'[h].reg = hooks[h].reg
                              \/ hooks'[h].reg = 0
                              \/ hooks[h].reg = 0 /\ hooks'[h].reg > regs
         /\ HooksDistinct'
         /\ \A s \in Serial : s > inserted /\ s <= inserted' =>
              \E d \in DeliveryId : Inserted(d) /\ rows'[d].serial = s
<1>1. regs \in Nat /\ inserted \in Nat /\ regs' \in Nat /\ inserted' \in Nat
  BY StepType DEF TypeOK
<1>2. \A s \in Serial : s \in Nat
  BY DEF Serial
<1>3. ASSUME NEW subs \in Subscription, CreateWebhook(subs)
      PROVE  /\ regs' = regs + 1 /\ inserted' = inserted /\ born' = born
             /\ \A h \in HookId : \/ hooks'[h].reg = hooks[h].reg
                                  \/ hooks[h].reg = 0 /\ hooks'[h].reg > regs
             /\ HooksDistinct'
  <2>1. PICK n \in 0..MaxRegs :
          /\ IsLastId(n, Registered)
          /\ hooks' = [hooks EXCEPT ![n + 1] = [reg |-> regs', enabled |-> TRUE, subs |-> subs]]
    BY <1>3 DEF CreateWebhook
  <2>2. regs' = regs + 1 /\ inserted' = inserted /\ born' = born
    BY <1>3 DEF CreateWebhook
  <2>3. \A h \in HookId : /\ hooks'[h].reg = IF h = n + 1 THEN regs + 1 ELSE hooks[h].reg
                          /\ hooks[h].reg \in Nat /\ hooks[h].reg <= regs
    BY <2>1, <2>2 DEF TypeOK, Hook, HooksDistinct
  <2>4. \A h \in HookId : h = n + 1 => hooks[h].reg = 0
    BY <2>1 DEF IsLastId, Registered
  <2> QED
    BY <1>1, <2>2, <2>3, <2>4 DEF HooksDistinct
<1>4. ASSUME NEW h \in HookId, DeleteWebhook(h)
      PROVE  /\ regs' = regs /\ inserted' = inserted /\ born' = born
             /\ \A g \in HookId : hooks'[g].reg = hooks[g].reg \/ hooks'[g].reg = 0
             /\ HooksDistinct'
  <2>1. /\ regs' = regs /\ inserted' = inserted /\ born' = born
        /\ \A g \in HookId : hooks'[g].reg = IF g = h THEN 0 ELSE hooks[g].reg
    BY <1>4 DEF DeleteWebhook, TypeOK, NoHook
  <2> QED
    BY <1>1, <2>1 DEF HooksDistinct
<1>5. ASSUME NEW h \in HookId, NEW on \in BOOLEAN, SetWebhookEnabled(h, on)
      PROVE  /\ regs' = regs /\ inserted' = inserted /\ born' = born
             /\ \A g \in HookId : hooks'[g].reg = hooks[g].reg
             /\ HooksDistinct'
  <2>1. hooks' = [hooks EXCEPT ![h] = [hooks[h] EXCEPT !.enabled = on]]
    BY <1>5 DEF SetWebhookEnabled
  <2>2. \A g \in HookId : hooks[g] \in Hook
    BY DEF TypeOK
  <2>3. [hooks[h] EXCEPT !.enabled = on].reg = hooks[h].reg
    BY <2>2 DEF Hook
  <2>4. \A g \in HookId : hooks'[g].reg = hooks[g].reg
    BY <2>1, <2>3 DEF TypeOK
  <2>5. regs' = regs /\ inserted' = inserted /\ born' = born
    BY <1>5 DEF SetWebhookEnabled, historyVars
  <2> QED
    BY <2>4, <2>5 DEF HooksDistinct
<1>6. ASSUME NEW kind \in Kind, CommitChange(kind)
      PROVE  /\ regs' = regs /\ inserted <= inserted' /\ hooks' = hooks
             /\ \A s \in Serial : s <= inserted => born'[s] = born[s]
             /\ \A s \in Serial : s > inserted /\ s <= inserted' =>
                  \E d \in DeliveryId : Inserted(d) /\ rows'[d].serial = s
             /\ HooksDistinct'
  <2>1. /\ inserted < inserted' /\ regs' = regs /\ hooks' = hooks
        /\ \A s \in Serial : s <= inserted => born'[s] = born[s]
        /\ \A s \in Serial : s > inserted /\ s <= inserted' =>
             \E d \in DeliveryId : Inserted(d) /\ rows'[d].serial = s
    BY <1>6, CommitEffects
  <2> QED
    BY <1>1, <2>1 DEF HooksDistinct
<1>7. CASE Request
  BY <1>1, <1>2, <1>3, <1>4, <1>5, <1>6, <1>7 DEF Request
<1>8. CASE UNCHANGED << hooks, regs, inserted, born >>
  BY <1>1, <1>2, <1>8 DEF HooksDistinct
<1> QED
  BY <1>7, <1>8, QuietStep

(* A registration that is dead stays so.                                   *)
LEMMA DeadStays ==
  ASSUME TypeOK, HooksDistinct, [Next]_vars, NEW g \in 1..regs, Dead(g)
  PROVE  DeadNext(g)
BY TablesStep DEF Dead, DeadNext

(* What a step does to one row: it inserts it, keeps what it is owed to,   *)
(* or removes it together with its webhook.                                *)
LEMMA RowChange ==
  ASSUME TypeOK, TablesInv, [Next]_vars, NEW d \in DeliveryId
  PROVE  \/ rows[d] = NoRow /\ rows'[d] = NoRow
         \/ Inserted(d) /\ UNCHANGED hooks
         \/ /\ rows[d] # NoRow /\ rows'[d] # NoRow
            /\ rows'[d].serial = rows[d].serial /\ rows'[d].hook = rows[d].hook
            /\ hooks'[rows[d].hook].reg = hooks[rows[d].hook].reg
         \/ rows'[d] = NoRow /\ DeadNext(born[rows[d].serial].reg)
<1>1. rows[d] \in Row /\ HooksDistinct /\ RowsKnown /\ BornKnown
  BY DEF TypeOK, TablesInv
<1>2. rows[d] # NoRow => /\ rows[d].hook \in HookId
                         /\ hooks[rows[d].hook].reg = born[rows[d].serial].reg
                         /\ hooks[rows[d].hook].reg \in 1..regs
  <2> SUFFICES ASSUME rows[d] # NoRow
               PROVE  /\ rows[d].hook \in HookId
                      /\ hooks[rows[d].hook].reg = born[rows[d].serial].reg
                      /\ hooks[rows[d].hook].reg \in 1..regs
    OBVIOUS
  <2>1. rows[d].hook \in HookId /\ rows[d].serial \in Serial
    BY <1>1 DEF Row, LiveRow
  <2>2. /\ rows[d].serial <= inserted
        /\ born[rows[d].serial] = [id |-> d, reg |-> hooks[rows[d].hook].reg]
    BY <1>1 DEF RowsKnown
  <2>3. born[rows[d].serial].reg \in 1..regs
    BY <1>1, <2>1, <2>2 DEF BornKnown
  <2> QED
    BY <2>1, <2>2, <2>3
<1>3. ASSUME NEW kind \in Kind, CommitChange(kind)
      PROVE  (rows'[d] = rows[d] \/ Inserted(d)) /\ UNCHANGED hooks
  BY <1>3, CommitEffects
<1>4. ASSUME NEW h \in HookId, DeleteWebhook(h)
      PROVE  \/ rows'[d] = rows[d] /\ (rows[d] # NoRow => hooks'[rows[d].hook].reg = hooks[rows[d].hook].reg)
             \/ rows'[d] = NoRow /\ DeadNext(born[rows[d].serial].reg)
  <2>1. /\ rows'[d] = IF rows[d].hook = h THEN NoRow ELSE rows[d]
        /\ \A g \in HookId : hooks'[g].reg = IF g = h THEN 0 ELSE hooks[g].reg
        /\ born' = born
    BY <1>4 DEF DeleteWebhook, TypeOK, NoHook
  <2>2. CASE rows[d] = NoRow
    BY <2>1, <2>2
  <2>3. CASE rows[d] # NoRow /\ rows[d].hook # h
    BY <1>2, <2>1, <2>3
  <2>4. CASE rows[d] # NoRow /\ rows[d].hook = h
    <3>1. \A g \in HookId : hooks'[g].reg # hooks[h].reg
      BY <1>1, <1>2, <2>1, <2>4 DEF HooksDistinct
    <3> QED
      BY <1>2, <2>1, <2>4, <3>1 DEF DeadNext
  <2> QED
    BY <2>2, <2>3, <2>4
<1>5. ASSUME \/ \E subs \in Subscription : CreateWebhook(subs)
             \/ \E h \in HookId, on \in BOOLEAN : SetWebhookEnabled(h, on)
      PROVE  rows' = rows /\ (rows[d] # NoRow => hooks'[rows[d].hook].reg = hooks[rows[d].hook].reg)
  <2>1. rows' = rows
    BY <1>5 DEF CreateWebhook, SetWebhookEnabled
  <2>2. ASSUME NEW subs \in Subscription, CreateWebhook(subs), rows[d] # NoRow
        PROVE  hooks'[rows[d].hook].reg = hooks[rows[d].hook].reg
    <3>1. PICK n \in 0..MaxRegs :
            /\ IsLastId(n, Registered)
            /\ hooks' = [hooks EXCEPT ![n + 1] = [reg |-> regs', enabled |-> TRUE, subs |-> subs]]
      BY <2>2 DEF CreateWebhook
    <3>2. rows[d].hook \in Registered
      BY <1>2, <2>2 DEF Registered
    <3>3. rows[d].hook # n + 1
      BY <3>1, <3>2 DEF IsLastId, Registered, HookId
    <3> QED
      BY <1>2, <2>2, <3>1, <3>3 DEF TypeOK
  <2>3. ASSUME NEW h \in HookId, NEW on \in BOOLEAN, SetWebhookEnabled(h, on), rows[d] # NoRow
        PROVE  hooks'[rows[d].hook].reg = hooks[rows[d].hook].reg
    <3>1. hooks' = [hooks EXCEPT ![h] = [hooks[h] EXCEPT !.enabled = on]]
      BY <2>3 DEF SetWebhookEnabled
    <3>2. [hooks[h] EXCEPT !.enabled = on].reg = hooks[h].reg
      BY DEF TypeOK, Hook
    <3> QED
      BY <1>2, <2>3, <3>1, <3>2 DEF TypeOK
  <2> QED
    BY <1>5, <2>1, <2>2, <2>3
<1>6. CASE ~Request
  <2>1. UNCHANGED << hooks, inserted >>
    BY <1>6, QuietStep
  <2>2. RowStep(rows[d], rows'[d])
    BY NextRows
  <2>3. ~Enqueued(rows[d], rows'[d])
    <3>1. rows'[d] \in Row /\ inserted \in Nat
      BY StepType DEF TypeOK
    <3>2. rows'[d].serial \in Int
      BY <3>1 DEF Row, LiveRow, NoRow, Serial
    <3> QED
      BY <2>1, <3>1, <3>2 DEF Enqueued
  <2>4. /\ rows'[d].serial = rows[d].serial /\ rows'[d].hook = rows[d].hook
        /\ rows'[d].status = "absent" <=> rows[d].status = "absent"
    BY <1>6, <2>2, <2>3 DEF RowStep, Kept, SameRow, Reclaimed, Claimed, Recorded
  <2>5. \A r \in Row : r = NoRow <=> r.status = "absent"
    BY DEF Row, LiveRow, NoRow, Status
  <2>6. rows'[d] \in Row
    BY StepType DEF TypeOK
  <2> QED
    BY <1>1, <2>1, <2>4, <2>5, <2>6
<1>7. CASE Request
  BY <1>3, <1>4, <1>5, <1>7 DEF Request
<1> QED
  BY <1>6, <1>7

LEMMA TablesInvStep ==
  ASSUME TypeOK, TablesInv, [Next]_vars
  PROVE  TablesInv'
<1>1. HooksDistinct /\ RowsKnown /\ BornKnown
  BY DEF TablesInv
<1>2. /\ regs \in Nat /\ inserted \in Nat /\ regs' \in Nat /\ inserted' \in Nat
      /\ regs <= regs' /\ inserted <= inserted'
      /\ \A s \in Serial : s <= inserted => born'[s] = born[s]
      /\ \A s \in Serial : s > inserted /\ s <= inserted' =>
           \E d \in DeliveryId : Inserted(d) /\ rows'[d].serial = s
      /\ HooksDistinct'
  BY <1>1, TablesStep
<1>3. ASSUME NEW d \in DeliveryId, rows'[d] # NoRow
      PROVE  /\ rows'[d].serial <= inserted'
             /\ born'[rows'[d].serial] = [id |-> d, reg |-> hooks'[rows'[d].hook].reg]
  <2>1. CASE Inserted(d) /\ UNCHANGED hooks
    BY <1>2, <2>1 DEF Inserted
  <2>2. CASE /\ rows[d] # NoRow
             /\ rows'[d].serial = rows[d].serial /\ rows'[d].hook = rows[d].hook
             /\ hooks'[rows[d].hook].reg = hooks[rows[d].hook].reg
    <3>1. rows[d].serial \in Serial
      BY <2>2 DEF TypeOK, Row, LiveRow
    <3>2. rows[d].serial <= inserted /\ rows[d].serial \in Nat
          /\ born[rows[d].serial] = [id |-> d, reg |-> hooks[rows[d].hook].reg]
      BY <1>1, <2>2, <3>1 DEF RowsKnown, Serial
    <3> QED
      BY <1>2, <2>2, <3>1, <3>2
  <2> QED
    BY <1>3, <2>1, <2>2, RowChange
<1>4. ASSUME NEW s \in Serial, s <= inserted'
      PROVE  born'[s].reg \in 1..regs'
  <2>1. CASE s <= inserted
    BY <1>1, <1>2, <2>1 DEF BornKnown
  <2>2. CASE s > inserted
    <3>1. PICK d \in DeliveryId : Inserted(d) /\ rows'[d].serial = s
      BY <1>2, <1>4, <2>2
    <3>2. born'[s].reg = hooks[rows'[d].hook].reg /\ rows'[d].hook \in HookId
          /\ hooks[rows'[d].hook].reg # 0
      BY <3>1 DEF Inserted
    <3>3. hooks[rows'[d].hook].reg \in Nat /\ hooks[rows'[d].hook].reg <= regs
      BY <1>1, <3>2 DEF HooksDistinct, TypeOK, Hook
    <3> QED
      BY <1>2, <3>2, <3>3
  <2> QED
    BY <1>2, <2>1, <2>2 DEF Serial
<1> QED
  BY <1>2, <1>3, <1>4 DEF TablesInv, RowsKnown, BornKnown

----------------------------------------------------------------------------
(* What a step does to one worker.                                         *)

SameBatch(v) ==
  LET me == workers[v]
      then == workers'[v]
  IN /\ then.cand = me.cand /\ then.batch = me.batch
     /\ then.seen = me.seen /\ then.phase = me.phase /\ then.verdict = me.verdict

Rested(v) ==
  LET then == workers'[v] IN
  /\ then.cand = {} /\ then.batch = {}
  /\ \A h \in HookId : then.seen[h] = 0
  /\ then.phase \notin {"send", "mark"}

Selected(v) ==
  LET me == workers[v]
      then == workers'[v]
  IN /\ me.phase = "select" /\ then.phase = "cas"
     /\ then.cand = Candidates /\ then.batch = me.batch /\ then.seen = me.seen
     /\ rows' = rows

(* The entry worker v is at was POSTed and acknowledged.                   *)
Posted(v) ==
  LET me == workers[v] IN
  /\ me.phase = "send"
  /\ workers'[v].batch = me.batch
  /\ \E e \in me.batch :
       /\ IsFirst(e, me.batch)
       /\ acked' = acked \cup {<< e.serial, me.seen[e.hook] >>}

Narrowed(v) ==
  LET me == workers[v]
      then == workers'[v]
  IN /\ then.cand \cup then.batch \subseteq me.cand \cup me.batch
     /\ then.seen = me.seen
     /\ then.phase \in {"cas", "deliver", "mark"}
     /\ then.phase = "cas" => me.phase = "cas"
     /\ me.phase # "cas" => then.batch \subseteq me.batch
     /\ then.phase = "mark" /\ then.verdict = "ok" => Posted(v)

Resolved(v) ==
  LET me == workers[v]
      then == workers'[v]
  IN /\ me.phase = "deliver" /\ then.phase = "send" /\ hooks' = hooks
     /\ then.cand = me.cand /\ then.batch = me.batch
     /\ \E e \in me.batch :
          /\ IsFirst(e, me.batch)
          /\ \/ me.seen[e.hook] # 0 /\ then.seen = me.seen
             \/ /\ e.hook \in Registered
                /\ then.seen = [me.seen EXCEPT ![e.hook] = hooks[e.hook].reg]

WorkerChange(v) == SameBatch(v) \/ Rested(v) \/ Selected(v) \/ Narrowed(v) \/ Resolved(v)

LEMMA RestChange ==
  ASSUME TypeOK, NEW v \in Worker,
         \/ Reclaim(v) \/ ReclaimFails(v) \/ ClaimFails(v) \/ Crash(v) \/ Restart(v)
  PROVE  Rested(v)
<1>1. PICK phase \in {"idle", "select", "down"} :
        workers' = [workers EXCEPT ![v] = [AtRest EXCEPT !.phase = phase]]
  BY DEF Reclaim, ReclaimFails, ClaimFails, Crash, Restart, Goto, Phase, AtRest
<1>2. workers'[v] = [AtRest EXCEPT !.phase = phase]
  BY <1>1 DEF TypeOK
<1> QED
  BY <1>2 DEF Rested, AtRest, Phase

LEMMA SelectChange ==
  ASSUME TypeOK, NEW v \in Worker, ClaimSelect(v)
  PROVE  Rested(v) \/ Selected(v)
<1>1. workers[v] \in Local
  BY DEF TypeOK
<1>2. CASE Candidates = {}
  <2>1. workers'[v] = AtRest
    BY <1>2 DEF ClaimSelect, Goto, TypeOK
  <2> QED
    BY <2>1 DEF Rested, AtRest
<1>3. CASE Candidates # {}
  <2>1. /\ workers'[v] = [workers[v] EXCEPT !.phase = "cas", !.cand = Candidates, !.clock = 0]
        /\ workers[v].phase = "select" /\ rows' = rows
    BY <1>3 DEF ClaimSelect, Goto, TypeOK, storeVars
  <2> QED
    BY <1>1, <2>1 DEF Selected, Local
<1> QED
  BY <1>2, <1>3

LEMMA CasChange ==
  ASSUME TypeOK, NEW v \in Worker, ClaimCas(v)
  PROVE  Rested(v) \/ Narrowed(v)
<1> DEFINE me == workers[v]
<1>1. me \in Local /\ me.phase = "cas"
  BY DEF TypeOK, ClaimCas
<1>2. PICK e \in me.cand :
        LET won  == rows[e.id].status = "pending"
            left == [me EXCEPT !.cand = @ \ {e},
                               !.batch = IF won THEN @ \cup {e} ELSE @]
        IN Goto(v, IF left.cand = {} THEN NextDelivery(left) ELSE left)
  BY DEF ClaimCas
<1> DEFINE won  == rows[e.id].status = "pending"
           left == [me EXCEPT !.cand = @ \ {e}, !.batch = IF won THEN @ \cup {e} ELSE @]
<1>3. /\ left \in Local
      /\ left.cand \cup left.batch \subseteq me.cand \cup me.batch
      /\ left.phase = "cas" /\ left.seen = me.seen
  BY <1>1 DEF Local
<1>4. workers'[v] = IF left.cand = {} THEN NextDelivery(left) ELSE left
  BY <1>2 DEF Goto, TypeOK
<1> HIDE DEF left
<1>5. CASE left.cand = {} /\ left.batch = {}
  BY <1>4, <1>5 DEF NextDelivery, Rested, AtRest
<1>6. CASE left.cand # {} \/ left.batch # {}
  <2>1. /\ workers'[v].cand = left.cand /\ workers'[v].batch = left.batch
        /\ workers'[v].seen = left.seen /\ workers'[v].phase \in {"cas", "deliver"}
    BY <1>3, <1>4, <1>6 DEF NextDelivery, Local
  <2> QED
    BY <1>1, <1>3, <2>1 DEF Narrowed
<1> QED
  BY <1>5, <1>6

LEMMA ResolveChange ==
  ASSUME TypeOK, NEW v \in Worker, Resolve(v)
  PROVE  Resolved(v)
<1> DEFINE me == workers[v]
<1>1. me \in Local /\ me.phase = "deliver" /\ hooks' = hooks
  BY DEF TypeOK, Resolve, storeVars
<1>2. PICK e \in me.batch :
        /\ IsFirst(e, me.batch)
        /\ \/ me.seen[e.hook] # 0 /\ Goto(v, [me EXCEPT !.phase = "send"])
           \/ /\ e.hook \in Registered
              /\ Goto(v, [me EXCEPT !.phase = "send", !.seen[e.hook] = hooks[e.hook].reg])
  BY DEF Resolve
<1> DEFINE marked == [me.seen EXCEPT ![e.hook] = hooks[e.hook].reg]
<1>3. \/ me.seen[e.hook] # 0 /\ workers'[v] = [me EXCEPT !.phase = "send"]
      \/ e.hook \in Registered /\ workers'[v] = [me EXCEPT !.phase = "send", !.seen = marked]
  BY <1>1, <1>2 DEF Goto, TypeOK
<1>4. /\ workers'[v].phase = "send"
      /\ workers'[v].cand = me.cand /\ workers'[v].batch = me.batch
      /\ \/ me.seen[e.hook] # 0 /\ workers'[v].seen = me.seen
         \/ e.hook \in Registered /\ workers'[v].seen = marked
  <2> HIDE DEF marked
  <2> QED
    BY <1>1, <1>3 DEF Local
<1> QED
  BY <1>1, <1>2, <1>4 DEF Resolved

LEMMA OutcomeChange ==
  ASSUME TypeOK, NEW v \in Worker,
         \/ ResolveFails(v) \/ ResolveUnsealable(v) \/ UrlBlocked(v)
         \/ (\E answer \in {"ok", "fail"} : Post(v, answer))
  PROVE  Narrowed(v)
<1> DEFINE me == workers[v]
<1>1. me \in Local
  BY DEF TypeOK
<1>2. PICK verdict \in {"ok", "fail", "unsealable"} :
        /\ workers' = [workers EXCEPT ![v] = [me EXCEPT !.phase = "mark", !.verdict = verdict]]
        /\ verdict = "ok" => Post(v, "ok")
  BY DEF ResolveFails, ResolveUnsealable, UrlBlocked, Post, Goto
<1>3. workers'[v] = [me EXCEPT !.phase = "mark", !.verdict = verdict]
  BY <1>2 DEF TypeOK
<1>4. /\ workers'[v].cand = me.cand /\ workers'[v].batch = me.batch
      /\ workers'[v].seen = me.seen /\ workers'[v].phase = "mark"
      /\ workers'[v].verdict = verdict
  BY <1>1, <1>3 DEF Local
<1>5. verdict = "ok" => Posted(v)
  BY <1>2, <1>4 DEF Post, Posted
<1> QED
  BY <1>4, <1>5 DEF Narrowed

LEMMA MarkChange ==
  ASSUME TypeOK, NEW v \in Worker, Mark(v) \/ MarkFails(v)
  PROVE  Rested(v) \/ Narrowed(v)
<1> DEFINE me == workers[v]
<1>1. me \in Local
  BY DEF TypeOK
<1>2. PICK e \in me.batch :
        Goto(v, NextDelivery([me EXCEPT !.batch = @ \ {e}, !.verdict = "none"]))
  BY DEF Mark, MarkFails
<1> DEFINE left == [me EXCEPT !.batch = @ \ {e}, !.verdict = "none"]
<1>3. /\ left \in Local
      /\ left.cand \cup left.batch \subseteq me.cand \cup me.batch
      /\ left.batch \subseteq me.batch /\ left.seen = me.seen
  BY <1>1 DEF Local
<1>4. workers'[v] = NextDelivery(left)
  BY <1>2 DEF Goto, TypeOK
<1> HIDE DEF left
<1>5. CASE left.batch = {}
  BY <1>4, <1>5 DEF NextDelivery, Rested, AtRest
<1>6. CASE left.batch # {}
  <2>1. /\ workers'[v].cand = left.cand /\ workers'[v].batch = left.batch
        /\ workers'[v].seen = left.seen /\ workers'[v].phase = "deliver"
    BY <1>3, <1>4, <1>6 DEF NextDelivery, Local
  <2> QED
    BY <1>3, <2>1 DEF Narrowed
<1> QED
  BY <1>5, <1>6

LEMMA NextWorker ==
  ASSUME TypeOK, [Next]_vars, NEW v \in Worker
  PROVE  WorkerChange(v)
<1>1. CASE workers'[v] = workers[v]
  BY <1>1 DEF WorkerChange, SameBatch
<1>2. CASE Tick
  BY <1>2 DEF Tick, TypeOK, Local, WorkerChange, SameBatch
<1>3. CASE WorkerStep(v) \/ WorkerFault(v)
  BY <1>3, RestChange, SelectChange, CasChange, ResolveChange, OutcomeChange, MarkChange
  DEF WorkerStep, WorkerFault, WorkerChange
<1>4. ASSUME NEW w \in Worker, w # v, WorkerStep(w) \/ WorkerFault(w)
      PROVE  workers'[v] = workers[v]
  <2>1. \E local : workers' = [workers EXCEPT ![w] = local]
    BY <1>4 DEF WorkerStep, WorkerFault, Reclaim, ReclaimFails, ClaimSelect, ClaimCas,
       ClaimFails, Resolve, ResolveFails, ResolveUnsealable, UrlBlocked, Post, Mark, MarkFails,
       Crash, Restart, Goto
  <2> QED
    BY <1>4, <2>1 DEF TypeOK
<1>5. CASE Request \/ UNCHANGED vars
  <2>1. ASSUME NEW kind \in Kind, CommitChange(kind) PROVE workers' = workers
    BY <2>1, CommitEffects
  <2> QED
    BY <1>1, <1>5, <2>1 DEF Request, CreateWebhook, SetWebhookEnabled, DeleteWebhook, vars
<1> QED
  BY <1>1, <1>2, <1>3, <1>4, <1>5 DEF Next

(* An acknowledgement comes from a POST, which touches no table.           *)
LEMMA AckedStep ==
  ASSUME TypeOK, [Next]_vars
  PROVE  \/ acked' = acked
         \/ /\ \E w \in Worker : Posted(w)
            /\ UNCHANGED << hooks, rows, regs, inserted, born >>
<1>1. ASSUME NEW w \in Worker, NEW answer \in {"ok", "fail"}, Post(w, answer), acked' # acked
      PROVE  Posted(w) /\ UNCHANGED << hooks, rows, regs, inserted, born >>
  <2>1. workers'[w].batch = workers[w].batch
    BY <1>1 DEF Post, Goto, TypeOK, Local
  <2> QED
    BY <1>1, <2>1 DEF Post, Posted, storeVars
<1>2. ASSUME NEW kind \in Kind, CommitChange(kind) PROVE acked' = acked
  BY <1>2, CommitEffects
<1> QED
  BY <1>1, <1>2 DEF Next, vars, Request, CreateWebhook, SetWebhookEnabled, DeleteWebhook,
     WorkerStep, WorkerFault, Reclaim, ReclaimFails, ClaimSelect, ClaimCas, ClaimFails,
     Resolve, ResolveFails, ResolveUnsealable, UrlBlocked, Mark, MarkFails,
     Crash, Restart, Tick, storeVars, historyVars

----------------------------------------------------------------------------
(* Whom an event is sent to, for any number of workers.                    *)

LEMMA KnownStays ==
  ASSUME TypeOK, TablesInv, [Next]_vars, NEW e \in Snapshot, Known(e)
  PROVE  /\ Known(e)' /\ born'[e.serial] = born[e.serial]
         /\ \A g : Fits(e, g) => FitsNext(e, g)
<1>1. HooksDistinct /\ BornKnown /\ e.serial \in Serial /\ e.serial \in Nat
  BY DEF TablesInv, Snapshot, Serial
<1>2. /\ regs \in Nat /\ inserted \in Nat /\ regs' \in Nat /\ inserted' \in Nat
      /\ regs <= regs' /\ inserted <= inserted'
      /\ \A s \in Serial : s <= inserted => born'[s] = born[s]
      /\ \A h \in HookId : \/ hooks'[h].reg = hooks[h].reg
                           \/ hooks'[h].reg = 0
                           \/ hooks[h].reg = 0 /\ hooks'[h].reg > regs
  BY <1>1, TablesStep
<1>3. born'[e.serial] = born[e.serial] /\ born[e.serial].reg \in 1..regs
  BY <1>1, <1>2 DEF Known, BornKnown
<1>4. \A h \in HookId : hooks'[h].reg = born[e.serial].reg => hooks[h].reg = born[e.serial].reg
  BY <1>2, <1>3
<1>5. Known(e)'
  BY <1>1, <1>2, <1>3, <1>4 DEF Known
<1>6. ASSUME NEW g, Fits(e, g) PROVE FitsNext(e, g)
  BY <1>3, <1>4, <1>6 DEF Fits, Dead, FitsNext, DeadNext
<1> QED
  BY <1>3, <1>5, <1>6

LEMMA CandidatesKnown ==
  ASSUME TypeOK, TablesInv
  PROVE  /\ \A e \in Candidates : /\ e \in Snapshot /\ Known(e)
                                  /\ rows[e.id].serial = e.serial
         /\ \A e, f \in Candidates : e.id = f.id => e = f
<1>1. ASSUME NEW e \in Candidates
      PROVE  /\ e.id \in DeliveryId /\ rows[e.id] # NoRow
             /\ e = [id |-> e.id, serial |-> rows[e.id].serial,
                     hook |-> rows[e.id].hook, attempts |-> rows[e.id].attempts]
  <2>1. PICK d \in DeliveryId :
          /\ e = [id |-> d, serial |-> rows[d].serial,
                  hook |-> rows[d].hook, attempts |-> rows[d].attempts]
          /\ rows[d].status = "pending"
    BY DEF Candidates, Due
  <2> QED
    BY <2>1 DEF NoRow
<1>2. ASSUME NEW e \in Candidates
      PROVE  e \in Snapshot /\ Known(e) /\ rows[e.id].serial = e.serial
  <2>1. e \in Snapshot /\ e.id \in DeliveryId /\ rows[e.id] # NoRow
        /\ e.serial = rows[e.id].serial /\ e.hook = rows[e.id].hook
    BY <1>1, CandidatesType
  <2>2. e.serial <= inserted /\ born[e.serial] = [id |-> e.id, reg |-> hooks[e.hook].reg]
    BY <2>1 DEF TablesInv, RowsKnown
  <2>3. born[e.serial].reg = hooks[e.hook].reg /\ born[e.serial].id = e.id
    BY <2>2
  <2>4. born[e.serial].reg \in 1..regs /\ e.serial \in Serial /\ e.hook \in HookId
    BY <2>1, <2>2 DEF TablesInv, BornKnown, Snapshot
  <2>5. \A h \in HookId : hooks[h].reg = born[e.serial].reg => h = e.hook
    BY <2>3, <2>4 DEF TablesInv, HooksDistinct
  <2> QED
    BY <2>1, <2>2, <2>3, <2>5 DEF Known
<1> QED
  BY <1>1, <1>2

LEMMA SentStep ==
  ASSUME SentInv, [Next]_vars, NEW v \in Worker
  PROVE  Sent(v)'
<1> DEFINE me == workers[v]
           then == workers'[v]
<1>1. TypeOK /\ TablesInv /\ Sent(v) /\ me \in Local /\ then \in Local
  BY StepType DEF SentInv, TypeOK
<1>2. ASSUME NEW e \in me.cand \cup me.batch
      PROVE  e \in Snapshot /\ Known(e)' /\ FitsNext(e, me.seen[e.hook])
  <2>1. e \in Snapshot /\ Known(e) /\ Fits(e, me.seen[e.hook])
    BY <1>1 DEF Sent, Local
  <2> QED
    BY <1>1, <2>1, KnownStays
<1>3. SUFFICES /\ \A e \in then.cand \cup then.batch : Known(e)' /\ FitsNext(e, then.seen[e.hook])
               /\ \A e, f \in then.cand \cup then.batch : e.id = f.id => e = f
               /\ then.phase = "select" => then.batch = {}
               /\ then.phase \in {"select", "cas"} => \A h \in HookId : then.seen[h] = 0
               /\ then.phase = "send" =>
                    \A e \in then.batch : IsFirst(e, then.batch) => then.seen[e.hook] # 0
  BY DEF Sent, Fits, FitsNext, Dead, DeadNext
<1>4. /\ \A e, f \in me.cand \cup me.batch : e.id = f.id => e = f
      /\ me.phase = "select" => me.batch = {}
      /\ me.phase \in {"select", "cas"} => \A h \in HookId : me.seen[h] = 0
      /\ me.phase = "send" => \A e \in me.batch : IsFirst(e, me.batch) => me.seen[e.hook] # 0
  BY <1>1 DEF Sent
<1>5. CASE SameBatch(v)
  BY <1>2, <1>4, <1>5 DEF SameBatch
<1>6. CASE Rested(v)
  BY <1>6 DEF Rested
<1>7. CASE Selected(v)
  <2>1. /\ then.cand = Candidates /\ then.batch = {} /\ then.seen = me.seen
        /\ then.phase = "cas" /\ \A h \in HookId : me.seen[h] = 0
    BY <1>4, <1>7 DEF Selected
  <2>2. ASSUME NEW e \in Candidates
        PROVE  Known(e)' /\ FitsNext(e, then.seen[e.hook])
    <3>1. e \in Snapshot /\ Known(e)
      BY <1>1, CandidatesKnown
    <3>2. Known(e)' /\ e.hook \in HookId
      BY <1>1, <3>1, KnownStays DEF Snapshot
    <3> QED
      BY <2>1, <3>2 DEF FitsNext
  <2>3. \A e, f \in Candidates : e.id = f.id => e = f
    BY <1>1, CandidatesKnown
  <2> QED
    BY <2>1, <2>2, <2>3
<1>8. CASE Narrowed(v)
  BY <1>2, <1>4, <1>8 DEF Narrowed
<1>9. CASE Resolved(v)
  <2>1. PICK e \in me.batch :
          /\ IsFirst(e, me.batch)
          /\ \/ me.seen[e.hook] # 0 /\ then.seen = me.seen
             \/ /\ e.hook \in Registered
                /\ then.seen = [me.seen EXCEPT ![e.hook] = hooks[e.hook].reg]
    BY <1>9 DEF Resolved
  <2>2. /\ then.cand = me.cand /\ then.batch = me.batch /\ then.phase = "send"
        /\ hooks' = hooks
    BY <1>9 DEF Resolved
  <2>3. \A f \in me.batch : IsFirst(f, me.batch) => f = e
    <3>1. \A f \in me.batch : f.id \in DeliveryId /\ f \in me.cand \cup me.batch
      BY <1>1 DEF Local, Snapshot
    <3>2. ASSUME NEW f \in me.batch, IsFirst(f, me.batch) PROVE f.id = e.id
      BY <2>1, <3>1, <3>2 DEF IsFirst, DeliveryId
    <3> QED
      BY <1>4, <3>1, <3>2
  <2>4. e.hook \in HookId /\ (e.hook \in Registered => hooks[e.hook].reg # 0)
    BY <1>1 DEF Local, Snapshot, Registered
  <2>5. then.seen[e.hook] # 0
    BY <1>1, <2>1, <2>4 DEF Local
  <2>6. ASSUME NEW f \in me.cand \cup me.batch
        PROVE  FitsNext(f, then.seen[f.hook])
    <3>1. f.hook \in HookId /\ Known(f)' /\ FitsNext(f, me.seen[f.hook])
      BY <1>2 DEF Snapshot
    <3>2. CASE then.seen[f.hook] = me.seen[f.hook]
      BY <3>1, <3>2
    <3>3. CASE then.seen[f.hook] # me.seen[f.hook]
      <4>1. f.hook = e.hook /\ then.seen[f.hook] = hooks[f.hook].reg
        BY <1>1, <2>1, <3>1, <3>3 DEF Local
      <4>2. \A h \in HookId : hooks'[h].reg = born'[f.serial].reg => h = f.hook
        BY <3>1 DEF Known
      <4> QED
        BY <2>2, <4>1, <4>2 DEF FitsNext, DeadNext
    <3> QED
      BY <3>2, <3>3
  <2> QED
    BY <1>2, <1>4, <2>2, <2>3, <2>5, <2>6
<1> QED
  BY <1>1, <1>5, <1>6, <1>7, <1>8, <1>9, NextWorker DEF WorkerChange

(* What is known of an acknowledgement stays, and a new one is of an entry *)
(* whose webhook was known.                                                *)
LEMMA AckedKnownStep ==
  ASSUME SentInv, [Next]_vars
  PROVE  /\ AckedKnown'
         /\ \A p \in acked : p \in acked' /\ born'[p[1]] = born[p[1]]
<1>1. /\ TypeOK /\ TablesInv /\ AckedKnown /\ HooksDistinct /\ BornKnown
      /\ \A w \in Worker : Sent(w)
  BY DEF SentInv, TablesInv
<1>2. /\ inserted <= inserted' /\ regs \in Nat
      /\ inserted \in Nat /\ inserted' \in Nat
      /\ \A s \in Serial : s <= inserted => born'[s] = born[s]
  BY <1>1, TablesStep
<1>3. \A p \in acked' : p[1] \in Serial
  BY StepType, <1>1 DEF TypeOK
<1>4. ASSUME NEW p \in acked
      PROVE  /\ p[1] <= inserted' /\ born'[p[1]] = born[p[1]]
             /\ born'[p[1]].reg # p[2] => DeadNext(born'[p[1]].reg)
  <2>1. p[1] \in Serial /\ p[1] \in Nat /\ p[1] <= inserted
    BY <1>1 DEF TypeOK, AckedKnown, Serial
  <2>2. born'[p[1]] = born[p[1]] /\ born[p[1]].reg \in 1..regs
    BY <1>1, <1>2, <2>1 DEF BornKnown
  <2>3. born[p[1]].reg # p[2] => Dead(born[p[1]].reg)
    BY <1>1 DEF AckedKnown, Astray
  <2>4. Dead(born[p[1]].reg) => DeadNext(born[p[1]].reg)
    BY <1>1, <2>2, DeadStays
  <2> QED
    BY <1>2, <2>1, <2>2, <2>3, <2>4
<1>5. CASE acked' = acked
  BY <1>4, <1>5 DEF AckedKnown, Astray, Dead, DeadNext
<1>6. CASE /\ \E w \in Worker : Posted(w)
           /\ UNCHANGED << hooks, rows, regs, inserted, born >>
  <2>0. PICK w \in Worker : Posted(w)
    BY <1>6
  <2>1. PICK e \in workers[w].batch :
          /\ workers[w].phase = "send" /\ IsFirst(e, workers[w].batch)
          /\ acked' = acked \cup {<< e.serial, workers[w].seen[e.hook] >>}
    BY <2>0 DEF Posted
  <2> DEFINE p == << e.serial, workers[w].seen[e.hook] >>
  <2>2. /\ Known(e) /\ Fits(e, workers[w].seen[e.hook])
        /\ workers[w].seen[e.hook] # 0
    BY <1>1, <2>1 DEF Sent
  <2>3. p[1] <= inserted /\ (born[p[1]].reg # p[2] => Dead(born[p[1]].reg))
    BY <2>2 DEF Known, Fits
  <2> HIDE DEF p
  <2>4. ASSUME NEW q \in acked'
        PROVE  q[1] <= inserted' /\ (born'[q[1]].reg # q[2] => DeadNext(born'[q[1]].reg))
    <3>1. CASE q \in acked
      BY <1>4, <3>1
    <3>2. CASE q = p
      BY <1>6, <2>3, <3>2 DEF Dead, DeadNext
    <3> QED
      BY <2>1, <3>1, <3>2 DEF p
  <2>5. AckedKnown'
    BY <2>4 DEF AckedKnown, Astray, Dead, DeadNext
  <2> QED
    BY <1>4, <2>1, <2>5
<1> QED
  BY <1>1, <1>5, <1>6, AckedStep

LEMMA SentInvStep == SentInv /\ [Next]_vars => SentInv'
<1> SUFFICES ASSUME SentInv, [Next]_vars PROVE SentInv'
  OBVIOUS
<1>1. TypeOK /\ TablesInv
  BY DEF SentInv
<1> QED
  BY <1>1, StepType, TablesInvStep, AckedKnownStep, SentStep DEF SentInv

LEMMA SentInvInit == Init => SentInv
<1> SUFFICES ASSUME Init PROVE SentInv
  OBVIOUS
<1>1. TypeOK
  BY InitType
<1>2. HooksDistinct
  <2>1. PICK subs \in [HookId -> Subscription] :
          hooks = [h \in HookId |-> IF h <= InitialRegs
                                    THEN [reg |-> h, enabled |-> TRUE, subs |-> subs[h]]
                                    ELSE NoHook]
    BY DEF Init
  <2>2. \A h \in HookId : hooks[h].reg = (IF h <= InitialRegs THEN h ELSE 0) /\ h \in Nat
    BY <2>1 DEF NoHook, HookId
  <2> QED
    BY <2>2, OutboxAssumption DEF Init, HooksDistinct
<1>3. RowsKnown /\ BornKnown /\ AckedKnown
  BY DEF Init, RowsKnown, BornKnown, AckedKnown, Serial
<1>4. \A w \in Worker : Sent(w)
  BY DEF Init, AtRest, Sent
<1> QED
  BY <1>1, <1>2, <1>3, <1>4 DEF SentInv, TablesInv

(* However long a worker keeps a batch and the webhooks it read for it,    *)
(* and whatever requests do meanwhile, with any number of workers: an      *)
(* event that went to another webhook than it was owed to was owed to one  *)
(* that is deleted.                                                        *)
THEOREM SentCorrect == Spec => []SentOnlyToSubscriber
<1>1. SentInv => SentOnlyToSubscriber
  BY DEF SentInv, AckedKnown, Dead, SentOnlyToSubscriber
<1> QED
  BY <1>1, SentInvInit, SentInvStep, PTL DEF Spec

----------------------------------------------------------------------------
(* One worker: a row reads delivered because its event was acknowledged.   *)

(* An entry whose row is gone was owed to a webhook that is deleted, and   *)
(* another row under its id is a younger one.                              *)
GoneKnown(w) ==
  \A e \in workers[w].cand \cup workers[w].batch :
    rows[e.id].serial # e.serial =>
      /\ Dead(born[e.serial].reg)
      /\ rows[e.id] = NoRow \/ rows[e.id].serial > e.serial

(* If that row was claimed in its place, the webhook resolved for it is    *)
(* not the one the entry was owed to.                                      *)
Strangers(w) ==
  \A e \in workers[w].batch :
    rows[e.id].status = "in_progress" /\ rows[e.id].serial # e.serial =>
      workers[w].seen[e.hook] # born[e.serial].reg

(* A success about to be recorded is one the receiver answered.            *)
Answered(w) ==
  LET me == workers[w] IN
  me.phase = "mark" /\ me.verdict = "ok" =>
    \A e \in me.batch : IsFirst(e, me.batch) =>
      me.seen[e.hook] # 0 /\ << e.serial, me.seen[e.hook] >> \in acked

DeliveredInv ==
  /\ SingleInv
  /\ SentInv
  /\ \A w \in Worker : GoneKnown(w) /\ Strangers(w) /\ Answered(w)
  /\ DeliveredMeansAcked

(* The entry a worker takes next is one.                                   *)
LEMMA FirstIsOne ==
  ASSUME TypeOK, NEW w \in Worker, Sent(w),
         NEW e \in workers[w].batch, NEW f \in workers[w].batch,
         IsFirst(e, workers[w].batch), IsFirst(f, workers[w].batch)
  PROVE  e = f
<1>1. e.id \in Int /\ f.id \in Int
  BY DEF TypeOK, Local, Snapshot, DeliveryId
<1>2. e.id = f.id
  BY <1>1 DEF IsFirst
<1> QED
  BY <1>2 DEF Sent

(* A row comes into progress by a claim only.                              *)
LEMMA ClaimedByCas ==
  ASSUME TypeOK, [Next]_vars, NEW d \in DeliveryId, rows'[d].status = "in_progress",
         \A v \in Worker : ~ClaimCas(v)
  PROVE  rows[d].status = "in_progress" /\ rows'[d].serial = rows[d].serial
<1>1. CASE Kept(rows[d], rows'[d])
  BY <1>1 DEF Kept, SameRow
<1>2. CASE ~Kept(rows[d], rows'[d])
  <2>1. ASSUME NEW v \in Worker, Reclaim(v) PROVE FALSE
    BY <1>2, <2>1, ReclaimRows DEF Reclaimed
  <2>2. ASSUME NEW v \in Worker, Mark(v) PROVE FALSE
    BY <1>2, <2>2, MarkRows DEF Recorded, Kept, SameRow
  <2>3. ~Tick
    BY <1>2, TickRows
  <2>4. ASSUME NEW kind \in Kind, CommitChange(kind) PROVE FALSE
    BY <1>2, <2>4, CommitChangeRows DEF Enqueued
  <2>5. ASSUME NEW h \in HookId, DeleteWebhook(h) PROVE FALSE
    BY <1>2, <2>5 DEF DeleteWebhook, Kept, SameRow, NoRow
  <2>6. rows' # rows
    BY <1>2 DEF Kept, SameRow
  <2> QED
    BY <2>1, <2>2, <2>3, <2>4, <2>5, <2>6
    DEF Next, vars, Request, CreateWebhook, SetWebhookEnabled,
        WorkerStep, WorkerFault, ReclaimFails, ClaimSelect, ClaimFails, Resolve,
        ResolveFails, ResolveUnsealable, UrlBlocked, Post, MarkFails, Crash, Restart, storeVars
<1> QED
  BY <1>1, <1>2

LEMMA GoneStep ==
  ASSUME SentInv, [Next]_vars, NEW v \in Worker, GoneKnown(v)
  PROVE  GoneKnown(v)'
<1> DEFINE me == workers[v]
           then == workers'[v]
<1>1. /\ TypeOK /\ TablesInv /\ HooksDistinct /\ BornKnown
      /\ Sent(v) /\ me \in Local /\ then \in Local
  BY StepType DEF SentInv, TypeOK, TablesInv
<1>2. \A e \in then.cand \cup then.batch :
        e \in me.cand \cup me.batch \/ (e \in Candidates /\ rows' = rows)
  BY NextWorker, <1>1 DEF WorkerChange, SameBatch, Rested, Selected, Narrowed, Resolved
<1>3. ASSUME NEW e \in then.cand \cup then.batch, rows'[e.id].serial # e.serial
      PROVE  /\ DeadNext(born'[e.serial].reg)
             /\ rows'[e.id] = NoRow \/ rows'[e.id].serial > e.serial
  <2>1. e \in me.cand \cup me.batch
    BY <1>1, <1>2, <1>3, CandidatesKnown
  <2>2. /\ e \in Snapshot /\ Known(e) /\ e.id \in DeliveryId
        /\ e.serial \in Serial /\ e.serial \in Nat /\ e.serial # 0
    BY <1>1, <2>1 DEF Sent, Local, Snapshot, Serial
  <2>3. /\ rows[e.id].serial # e.serial =>
             /\ Dead(born[e.serial].reg)
             /\ rows[e.id] = NoRow \/ rows[e.id].serial > e.serial
        /\ e.serial <= inserted
    BY <2>1, <2>2 DEF GoneKnown, Known
  <2>4. born'[e.serial] = born[e.serial] /\ born[e.serial].reg \in 1..regs
    BY <1>1, <2>2, <2>3, KnownStays DEF BornKnown
  <2>5. Dead(born[e.serial].reg) => DeadNext(born[e.serial].reg)
    BY <1>1, <2>4, DeadStays
  <2>6. rows[e.id] = NoRow => rows[e.id].serial # e.serial
    BY <2>2 DEF NoRow
  <2>7. CASE rows[e.id] = NoRow /\ rows'[e.id] = NoRow
    BY <2>3, <2>4, <2>5, <2>6, <2>7
  <2>8. CASE Inserted(e.id)
    <3>1. inserted \in Nat /\ inserted' \in Nat
      BY StepType, <1>1 DEF TypeOK
    <3> QED
      BY <2>2, <2>3, <2>4, <2>5, <2>6, <2>8, <3>1 DEF Inserted
  <2>9. CASE /\ rows[e.id] # NoRow /\ rows'[e.id] # NoRow
             /\ rows'[e.id].serial = rows[e.id].serial
    BY <1>3, <2>3, <2>4, <2>5, <2>9
  <2>10. CASE rows'[e.id] = NoRow /\ DeadNext(born[rows[e.id].serial].reg)
    BY <2>3, <2>4, <2>5, <2>10
  <2> QED
    BY <1>1, <2>2, <2>7, <2>8, <2>9, <2>10, RowChange
<1> QED
  BY <1>3 DEF GoneKnown, Dead, DeadNext

LEMMA StrangersStep ==
  ASSUME OneWorker, SentInv, [Next]_vars, NEW v \in Worker, GoneKnown(v), Strangers(v)
  PROVE  Strangers(v)'
<1> DEFINE me == workers[v]
           then == workers'[v]
<1>1. /\ TypeOK /\ TablesInv /\ BornKnown /\ Sent(v) /\ me \in Local /\ then \in Local
  BY StepType DEF SentInv, TypeOK, TablesInv
<1>2. ASSUME NEW e \in then.batch,
             rows'[e.id].status = "in_progress", rows'[e.id].serial # e.serial
      PROVE  then.seen[e.hook] # born'[e.serial].reg
  <2>1. e \in Snapshot /\ e.id \in DeliveryId /\ e.hook \in HookId /\ e.serial \in Serial
    BY <1>1 DEF Local, Snapshot
  <2>2. Known(e)
    BY <1>1, CandidatesKnown, NextWorker
    DEF WorkerChange, SameBatch, Rested, Selected, Narrowed, Resolved, Sent
  <2>3. born'[e.serial] = born[e.serial] /\ born[e.serial].reg \in 1..regs /\ regs \in Nat
    BY <1>1, <2>1, <2>2, KnownStays DEF BornKnown, Known, TypeOK
  <2>4. born'[e.serial].reg # 0
    BY <2>3
  <2>5. CASE me.phase \in {"select", "cas"}
    <3>1. \A h \in HookId : me.seen[h] = 0
      BY <1>1, <2>5 DEF Sent
    <3>2. then.seen = me.seen
      BY <1>2, <2>5, NextWorker, <1>1
      DEF WorkerChange, SameBatch, Rested, Selected, Narrowed, Resolved
    <3> QED
      BY <2>1, <2>4, <3>1, <3>2
  <2>6. CASE me.phase \notin {"select", "cas"}
    <3>1. \A w \in Worker : ~ClaimCas(w)
      BY <2>6 DEF OneWorker, ClaimCas
    <3>2. rows[e.id].status = "in_progress" /\ rows[e.id].serial # e.serial
      BY <1>1, <1>2, <2>1, <3>1, ClaimedByCas
    <3>3. e \in me.batch
      BY <1>1, <1>2, <2>6, NextWorker
      DEF WorkerChange, SameBatch, Rested, Selected, Narrowed, Resolved
    <3>4. me.seen[e.hook] # born[e.serial].reg /\ Dead(born[e.serial].reg)
      BY <3>2, <3>3 DEF Strangers, GoneKnown
    <3>5. \/ then.seen = me.seen
          \/ \E f \in me.batch : then.seen = [me.seen EXCEPT ![f.hook] = hooks[f.hook].reg]
      BY <1>1, <1>2, <2>6, NextWorker
      DEF WorkerChange, SameBatch, Rested, Selected, Narrowed, Resolved
    <3>6. \/ then.seen[e.hook] = me.seen[e.hook]
          \/ then.seen[e.hook] = hooks[e.hook].reg
      BY <1>1, <2>1, <3>5 DEF Local
    <3> QED
      BY <2>1, <2>3, <3>4, <3>6 DEF Dead
  <2> QED
    BY <2>5, <2>6
<1> QED
  BY <1>2 DEF Strangers

LEMMA AnsweredStep ==
  ASSUME SentInv, [Next]_vars, NEW v \in Worker, Answered(v)
  PROVE  Answered(v)'
<1> DEFINE me == workers[v]
           then == workers'[v]
<1>1. TypeOK /\ Sent(v) /\ \A p \in acked : p \in acked'
  BY AckedKnownStep DEF SentInv
<1>2. ASSUME then.phase = "mark", then.verdict = "ok",
             NEW e \in then.batch, IsFirst(e, then.batch)
      PROVE  then.seen[e.hook] # 0 /\ << e.serial, then.seen[e.hook] >> \in acked'
  <2>1. CASE SameBatch(v)
    BY <1>1, <1>2, <2>1 DEF SameBatch, Answered
  <2>2. CASE Narrowed(v)
    <3>1. /\ me.phase = "send" /\ then.batch = me.batch /\ then.seen = me.seen
          /\ \E f \in me.batch : /\ IsFirst(f, me.batch)
                                 /\ acked' = acked \cup {<< f.serial, me.seen[f.hook] >>}
      BY <1>2, <2>2 DEF Narrowed, Posted
    <3>2. acked' = acked \cup {<< e.serial, me.seen[e.hook] >>}
      BY <1>1, <1>2, <3>1, FirstIsOne
    <3> QED
      BY <1>1, <1>2, <3>1, <3>2 DEF Sent
  <2> QED
    BY <1>1, <1>2, <2>1, <2>2, NextWorker DEF WorkerChange, Rested, Selected, Resolved
<1> QED
  BY <1>2 DEF Answered

(* A row comes to read delivered by a success that was answered.           *)
LEMMA DeliveredByMark ==
  ASSUME TypeOK, [Next]_vars, NEW d \in DeliveryId,
         rows'[d].status = "delivered", rows[d].status # "delivered"
  PROVE  /\ \E v \in Worker : \E e \in workers[v].batch :
              /\ workers[v].phase = "mark" /\ workers[v].verdict = "ok"
              /\ IsFirst(e, workers[v].batch) /\ e.id = d
         /\ rows[d].status = "in_progress" /\ rows'[d].serial = rows[d].serial
<1>1. ASSUME NEW v \in Worker, Mark(v)
      PROVE  /\ \E e \in workers[v].batch :
                  /\ workers[v].phase = "mark" /\ workers[v].verdict = "ok"
                  /\ IsFirst(e, workers[v].batch) /\ e.id = d
             /\ rows[d].status = "in_progress" /\ rows'[d].serial = rows[d].serial
  <2>1. workers[v].phase = "mark"
    BY <1>1 DEF Mark
  <2> QED
    BY <1>1, <2>1, MarkRows DEF Recorded
<1>2. ASSUME \A v \in Worker : ~Mark(v) PROVE FALSE
  <2>0. ~Kept(rows[d], rows'[d])
    BY DEF Kept, SameRow
  <2>1. ASSUME NEW v \in Worker, Reclaim(v) PROVE FALSE
    BY <2>0, <2>1, ReclaimRows DEF Reclaimed
  <2>2. ASSUME NEW v \in Worker, ClaimCas(v) PROVE FALSE
    BY <2>0, <2>2, ClaimCasRows DEF Claimed, Kept, SameRow
  <2>3. ~Tick
    BY <2>0, TickRows
  <2>4. ASSUME NEW kind \in Kind, CommitChange(kind) PROVE FALSE
    BY <2>0, <2>4, CommitChangeRows DEF Enqueued
  <2>5. ASSUME NEW h \in HookId, DeleteWebhook(h) PROVE FALSE
    BY <2>0, <2>5 DEF DeleteWebhook, Kept, SameRow, NoRow
  <2>6. rows' # rows
    OBVIOUS
  <2> QED
    BY <1>2, <2>1, <2>2, <2>3, <2>4, <2>5, <2>6
    DEF Next, vars, Request, CreateWebhook, SetWebhookEnabled,
        WorkerStep, WorkerFault, ReclaimFails, ClaimSelect, ClaimFails, Resolve,
        ResolveFails, ResolveUnsealable, UrlBlocked, Post, MarkFails, Crash, Restart, storeVars
<1> QED
  BY <1>1, <1>2

LEMMA DeliveredStep ==
  ASSUME DeliveredInv, [Next]_vars
  PROVE  DeliveredMeansAcked'
<1>1. /\ TypeOK /\ TablesInv /\ RowsKnown /\ BornKnown /\ AckedKnown
      /\ \A p \in acked : p \in acked' /\ born'[p[1]] = born[p[1]]
      /\ inserted \in Nat
  BY AckedKnownStep DEF DeliveredInv, SentInv, TablesInv, TypeOK
<1>2. ASSUME NEW d \in DeliveryId, rows'[d].status = "delivered"
      PROVE  \/ << rows[d].serial, born[rows[d].serial].reg >> \in acked
             \/ \E p \in acked : /\ born[p[1]].id = d /\ p[1] < rows[d].serial
                                 /\ born[p[1]].reg # p[2]
  <2>1. CASE rows[d].status = "delivered"
    BY <2>1 DEF DeliveredInv, DeliveredMeansAcked, Astray
  <2>2. CASE rows[d].status # "delivered"
    <3>1. PICK v \in Worker :
            \E e \in workers[v].batch :
              /\ workers[v].phase = "mark" /\ workers[v].verdict = "ok"
              /\ IsFirst(e, workers[v].batch) /\ e.id = d
      BY <1>1, <1>2, <2>2, DeliveredByMark
    <3>2. PICK e \in workers[v].batch :
              /\ workers[v].phase = "mark" /\ workers[v].verdict = "ok"
              /\ IsFirst(e, workers[v].batch) /\ e.id = d
      BY <3>1
    <3>3. rows[d].status = "in_progress"
      BY <1>1, <1>2, <2>2, DeliveredByMark
    <3> DEFINE g == workers[v].seen[e.hook]
    <3>4. g # 0 /\ << e.serial, g >> \in acked
      BY <3>2 DEF DeliveredInv, Answered
    <3>5. e \in Snapshot /\ Known(e) /\ Fits(e, g)
      BY <1>1 DEF DeliveredInv, SentInv, Sent, TypeOK, Local
    <3>6. CASE rows[d].serial = e.serial
      <4>1. rows[d] # NoRow /\ rows[d].hook \in HookId
        BY <3>3, LiveRows, <1>1 DEF NoRow, TypeOK, LiveRow
      <4>2. born[e.serial] = [id |-> d, reg |-> hooks[rows[d].hook].reg]
        BY <1>1, <3>6, <4>1 DEF RowsKnown
      <4>3. ~Dead(born[e.serial].reg)
        BY <4>1, <4>2 DEF Dead
      <4> QED
        BY <3>4, <3>5, <3>6, <4>3 DEF Fits
    <3>7. CASE rows[d].serial # e.serial
      <4>1. g # born[e.serial].reg
        BY <3>2, <3>3, <3>7 DEF DeliveredInv, Strangers
      <4>2. rows[d].serial > e.serial /\ rows[d].serial \in Nat /\ e.serial \in Nat
        <5>1. rows[d] # NoRow
          BY <3>3 DEF NoRow
        <5>2. rows[d].serial \in Serial
          BY <3>3, LiveRows, <1>1 DEF TypeOK, LiveRow
        <5> QED
          BY <3>2, <3>5, <3>7, <5>1, <5>2 DEF DeliveredInv, GoneKnown, Snapshot, Serial
      <4>3. born[e.serial].id = d
        BY <3>2, <3>5 DEF Known
      <4> DEFINE p == << e.serial, g >>
      <4>4. p \in acked /\ p[1] = e.serial /\ p[2] = g
        BY <3>4
      <4> HIDE DEF p, g
      <4> QED
        BY <4>1, <4>2, <4>3, <4>4
    <3> QED
      BY <3>6, <3>7
  <2> QED
    BY <2>1, <2>2
<1>3. ASSUME NEW d \in DeliveryId, rows'[d].status = "delivered"
      PROVE  /\ rows'[d].serial = rows[d].serial
             /\ born'[rows[d].serial] = born[rows[d].serial]
  <2>1. rows'[d].serial = rows[d].serial /\ rows[d].status # "absent"
    <3>1. CASE rows[d].status = "delivered"
      <4>1. SameRow(rows[d], rows'[d]) \/ rows'[d] = NoRow
        BY <1>1, <3>1, SettledStep DEF Settled
      <4> QED
        BY <1>3, <3>1, <4>1 DEF SameRow, NoRow
    <3>2. CASE rows[d].status # "delivered"
      BY <1>1, <1>3, <3>2, DeliveredByMark
    <3> QED
      BY <3>1, <3>2
  <2>2. rows[d].serial \in Serial /\ rows[d].serial <= inserted
    <3>1. rows[d] # NoRow /\ rows[d] \in LiveRow
      BY <1>1, <2>1, LiveRows DEF TypeOK, NoRow
    <3> QED
      BY <1>1, <3>1 DEF LiveRow, RowsKnown
  <2> QED
    BY <1>1, <2>1, <2>2, TablesStep DEF TablesInv
<1> QED
  <2> SUFFICES ASSUME NEW d \in DeliveryId, rows'[d].status = "delivered"
               PROVE  \/ << rows'[d].serial, born'[rows'[d].serial].reg >> \in acked'
                      \/ \E p \in acked' : /\ born'[p[1]].id = d /\ p[1] < rows'[d].serial
                                           /\ born'[p[1]].reg # p[2]
    BY DEF DeliveredMeansAcked, Astray
  <2>1. CASE << rows[d].serial, born[rows[d].serial].reg >> \in acked
    BY <1>1, <1>3, <2>1
  <2>2. ASSUME NEW p \in acked, born[p[1]].id = d, p[1] < rows[d].serial, born[p[1]].reg # p[2]
        PROVE  /\ p \in acked' /\ born'[p[1]].id = d /\ p[1] < rows'[d].serial
               /\ born'[p[1]].reg # p[2]
    BY <1>1, <1>3, <2>2
  <2> QED
    BY <1>2, <2>1, <2>2

LEMMA DeliveredInvStep == OneWorker /\ DeliveredInv /\ [Next]_vars => DeliveredInv'
<1> SUFFICES ASSUME OneWorker, DeliveredInv, [Next]_vars PROVE DeliveredInv'
  OBVIOUS
<1>1. SingleInv' /\ SentInv'
  BY SingleStep, SentInvStep DEF DeliveredInv
<1>2. ASSUME NEW w \in Worker
      PROVE  GoneKnown(w)' /\ Strangers(w)' /\ Answered(w)'
  BY GoneStep, StrangersStep, AnsweredStep DEF DeliveredInv
<1>3. DeliveredMeansAcked'
  BY DeliveredStep
<1> QED
  BY <1>1, <1>2, <1>3 DEF DeliveredInv

LEMMA DeliveredInvInit == Init => DeliveredInv
<1> SUFFICES ASSUME Init PROVE DeliveredInv
  OBVIOUS
<1>1. SingleInv /\ SentInv
  BY SingleInit, SentInvInit
<1>2. \A w \in Worker : GoneKnown(w) /\ Strangers(w) /\ Answered(w)
  BY DEF Init, AtRest, GoneKnown, Strangers, Answered
<1>3. DeliveredMeansAcked
  BY DEF Init, DeliveredMeansAcked, NoRow
<1> QED
  BY <1>1, <1>2, <1>3 DEF DeliveredInv

(* One worker: whatever fails, a row only reads delivered because the      *)
(* webhook it was owed to acknowledged its event, unless it took the place *)
(* of one that went astray.                                                *)
THEOREM DeliveredCorrect ==
  ASSUME OneWorker
  PROVE  Spec => []DeliveredMeansAcked
<1>1. DeliveredInv /\ [Next]_vars => DeliveredInv'
  BY DeliveredInvStep
<1>2. DeliveredInv => DeliveredMeansAcked
  BY DEF DeliveredInv
<1> QED
  BY <1>1, <1>2, DeliveredInvInit, PTL DEF Spec

----------------------------------------------------------------------------
(* The refinement: what became of event s, from the rows R and the number  *)
(* n of events.                                                            *)

FateOf(R, n) ==
  [s \in Serial |->
    IF s > n THEN "none"
    ELSE IF \E d \in DeliveryId : R[d].serial = s /\ Settled(R[d])
    THEN R[CHOOSE d \in DeliveryId : R[d].serial = s].status
    ELSE IF \E d \in DeliveryId : R[d].serial = s THEN "owed" ELSE "gone"]

(* No two rows hold one event.                                             *)
Separate(R) ==
  \A c, d \in DeliveryId : R[c].serial = R[d].serial /\ R[d].serial \in Serial => c = d

Confirmed == {s \in Serial : << s, born[s].reg >> \in acked}
Voided    == \E p \in acked : Astray(p)

LEMMA FateOfEvent ==
  ASSUME NEW R, NEW n \in Nat, Separate(R), NEW s \in Serial
  PROVE  /\ s > n => FateOf(R, n)[s] = "none"
         /\ \A d \in DeliveryId : s <= n /\ R[d].serial = s =>
              FateOf(R, n)[s] = IF Settled(R[d]) THEN R[d].status ELSE "owed"
         /\ s <= n /\ (\A d \in DeliveryId : R[d].serial # s) => FateOf(R, n)[s] = "gone"
<1>1. s \in Nat
  BY DEF Serial
<1>2. FateOf(R, n)[s] =
        IF s > n THEN "none"
        ELSE IF \E d \in DeliveryId : R[d].serial = s /\ Settled(R[d])
        THEN R[CHOOSE d \in DeliveryId : R[d].serial = s].status
        ELSE IF \E d \in DeliveryId : R[d].serial = s THEN "owed" ELSE "gone"
  BY DEF FateOf
<1>3. ASSUME NEW d \in DeliveryId, s <= n, R[d].serial = s
      PROVE  FateOf(R, n)[s] = IF Settled(R[d]) THEN R[d].status ELSE "owed"
  <2>1. \A c \in DeliveryId : R[c].serial = s => c = d
    BY <1>3 DEF Separate
  <2>2. (CHOOSE c \in DeliveryId : R[c].serial = s) = d
    BY <1>3, <2>1
  <2>3. ~(s > n)
    BY <1>1, <1>3
  <2> QED
    BY <1>2, <1>3, <2>1, <2>2, <2>3
<1>4. s <= n => ~(s > n)
  BY <1>1
<1> QED
  BY <1>2, <1>3, <1>4

(* Rows that hold the same events, settled alike, make the same fates.     *)
LEMMA FateSame ==
  ASSUME NEW R, NEW Q, NEW n \in Nat, Separate(R), Separate(Q),
         \A d \in DeliveryId :
           /\ Q[d].serial = R[d].serial
           /\ Settled(Q[d]) <=> Settled(R[d])
           /\ Settled(R[d]) => Q[d].status = R[d].status
  PROVE  FateOf(Q, n) = FateOf(R, n)
<1>1. ASSUME NEW s \in Serial PROVE FateOf(Q, n)[s] = FateOf(R, n)[s]
  <2>1. CASE s > n
    BY <2>1, FateOfEvent
  <2>2. CASE ~(s > n)
    <3>1. s <= n
      BY <2>2 DEF Serial
    <3>2. CASE \E d \in DeliveryId : R[d].serial = s
      <4>1. PICK d \in DeliveryId : R[d].serial = s
        BY <3>2
      <4>2. /\ FateOf(R, n)[s] = IF Settled(R[d]) THEN R[d].status ELSE "owed"
            /\ FateOf(Q, n)[s] = IF Settled(Q[d]) THEN Q[d].status ELSE "owed"
        BY <3>1, <4>1, FateOfEvent
      <4> QED
        BY <4>2
    <3>3. CASE \A d \in DeliveryId : R[d].serial # s
      BY <3>1, <3>3, FateOfEvent
    <3> QED
      BY <3>2, <3>3
  <2> QED
    BY <2>1, <2>2
<1> QED
  BY <1>1 DEF FateOf

LEMMA RowsSeparate ==
  ASSUME NEW R \in [DeliveryId -> Row], NEW B,
         \A d \in DeliveryId : R[d] # NoRow => B[R[d].serial].id = d
  PROVE  Separate(R)
<1>1. \A d \in DeliveryId : R[d].serial \in Serial => R[d] # NoRow
  BY DEF NoRow, Serial
<1> QED
  BY <1>1 DEF Separate

(* A step that commits nothing, deletes nothing and records nothing takes  *)
(* rows into progress or back.                                             *)
LEMMA OtherRows ==
  ASSUME TypeOK, [Next]_vars, NEW d \in DeliveryId,
         \A kind \in Kind : ~CommitChange(kind),
         \A h \in HookId : ~DeleteWebhook(h),
         \A v \in Worker : ~Mark(v)
  PROVE  /\ Kept(rows[d], rows'[d]) \/ Reclaimed(rows[d], rows'[d]) \/ Claimed(rows[d], rows'[d])
         /\ inserted' = inserted
<1>1. \A r : Kept(r, r)
  BY DEF Kept, SameRow
<1>2. ASSUME NEW v \in Worker, Reclaim(v)
      PROVE  Kept(rows[d], rows'[d]) \/ Reclaimed(rows[d], rows'[d])
  BY <1>2, ReclaimRows
<1>3. ASSUME NEW v \in Worker, ClaimCas(v)
      PROVE  Kept(rows[d], rows'[d]) \/ Claimed(rows[d], rows'[d])
  BY <1>1, <1>3, ClaimCasRows
<1>4. Tick => Kept(rows[d], rows'[d])
  BY TickRows
<1>5. /\ rows' = rows \/ Tick \/ \E v \in Worker : Reclaim(v) \/ ClaimCas(v)
      /\ inserted' = inserted
  BY DEF Next, vars, Request, CreateWebhook, SetWebhookEnabled,
     WorkerStep, WorkerFault, Reclaim, ReclaimFails, ClaimSelect, ClaimCas, ClaimFails,
     Resolve, ResolveFails, ResolveUnsealable, UrlBlocked, Post, MarkFails, Crash, Restart,
     Tick, storeVars, historyVars
<1> QED
  BY <1>1, <1>2, <1>3, <1>4, <1>5

(* What the ledger's steps read in the state and the next one.             *)
LEMMA LedgerStates ==
  /\ LedgerFate = FateOf(rows, inserted)
  /\ LedgerFate' = FateOf(rows', inserted')
BY DEF LedgerFate, FateOf

LEMMA StateFacts ==
  ASSUME DeliveredInv, [Next]_vars
  PROVE  /\ TypeOK /\ TablesInv /\ RowsKnown /\ TypeOK' /\ RowsKnown'
         /\ Separate(rows) /\ Separate(rows')
         /\ inserted \in Nat /\ inserted' \in Nat /\ inserted <= inserted'
         /\ \A s \in Serial : s <= inserted => born'[s] = born[s]
         /\ \A p \in acked : p \in acked' /\ p[1] <= inserted /\ p[1] \in Serial
         /\ \A d \in DeliveryId : rows[d].serial \in Serial =>
              /\ rows[d] # NoRow /\ rows[d].serial <= inserted
              /\ born[rows[d].serial].id = d
<1>1. /\ TypeOK /\ TablesInv /\ RowsKnown /\ TypeOK' /\ TablesInv' /\ RowsKnown'
      /\ HooksDistinct /\ AckedKnown /\ \A p \in acked : p \in acked'
  <2>1. SentInv /\ SentInv'
    BY SentInvStep DEF DeliveredInv
  <2> QED
    BY <2>1, AckedKnownStep DEF SentInv, TablesInv
<1>2. Separate(rows)
  <2>1. ASSUME NEW d \in DeliveryId, rows[d] # NoRow PROVE born[rows[d].serial].id = d
    <3>1. born[rows[d].serial] = [id |-> d, reg |-> hooks[rows[d].hook].reg]
      BY <1>1, <2>1 DEF RowsKnown
    <3> QED
      BY <3>1
  <2> QED
    BY <1>1, <2>1, RowsSeparate DEF TypeOK
<1>3. Separate(rows')
  <2>1. ASSUME NEW d \in DeliveryId, rows'[d] # NoRow PROVE born'[rows'[d].serial].id = d
    <3>1. born'[rows'[d].serial] = [id |-> d, reg |-> hooks'[rows'[d].hook].reg]
      BY <1>1, <2>1 DEF RowsKnown
    <3> QED
      BY <3>1
  <2> QED
    BY <1>1, <2>1, RowsSeparate DEF TypeOK
<1>4. \A p \in acked : p[1] <= inserted /\ p[1] \in Serial
  BY <1>1 DEF AckedKnown, TypeOK
<1>5. ASSUME NEW d \in DeliveryId, rows[d].serial \in Serial
      PROVE  /\ rows[d] # NoRow /\ rows[d].serial <= inserted
             /\ born[rows[d].serial].id = d
  <2>1. rows[d] # NoRow
    BY <1>5 DEF NoRow, Serial
  <2>2. /\ rows[d].serial <= inserted
        /\ born[rows[d].serial] = [id |-> d, reg |-> hooks[rows[d].hook].reg]
    BY <1>1, <2>1 DEF RowsKnown
  <2> QED
    BY <2>1, <2>2
<1> QED
  BY <1>1, <1>2, <1>3, <1>4, <1>5, TablesStep

(* Without a POST, what was confirmed stays, and nothing goes astray.      *)
LEMMA ConfirmedSame ==
  ASSUME DeliveredInv, [Next]_vars, acked' = acked
  PROVE  Confirmed' = Confirmed /\ Voided' = Voided
<1>1. /\ \A s \in Serial : s <= inserted => born'[s] = born[s]
      /\ \A p \in acked : p[1] <= inserted /\ p[1] \in Serial
  BY StateFacts
<1>2. ASSUME NEW s \in Serial
      PROVE  << s, born'[s].reg >> \in acked <=> << s, born[s].reg >> \in acked
  <2>1. CASE s <= inserted
    BY <1>1, <2>1
  <2>2. CASE ~(s <= inserted)
    <3>1. \A g : << s, g >> \in acked => FALSE
      <4> SUFFICES ASSUME NEW g, << s, g >> \in acked PROVE FALSE
        OBVIOUS
      <4>1. << s, g >>[1] <= inserted
        BY <1>1
      <4> QED
        BY <2>2, <4>1
    <3> QED
      BY <3>1
  <2> QED
    BY <2>1, <2>2
<1>3. Confirmed' = Confirmed
  BY <1>2 DEF Confirmed
<1> QED
  BY <1>1, <1>3 DEF Voided, Astray

LEMMA CommitOwes ==
  ASSUME DeliveredInv, [Next]_vars, NEW kind \in Kind, CommitChange(kind)
  PROVE  \E S \in SUBSET Serial :
           /\ \A s \in S : FateOf(rows, inserted)[s] = "none"
           /\ FateOf(rows', inserted') =
                [s \in Serial |-> IF s \in S THEN "owed" ELSE FateOf(rows, inserted)[s]]
<1> DEFINE F == FateOf(rows, inserted)
           G == FateOf(rows', inserted')
           S == {s \in Serial : s > inserted /\ s <= inserted'}
<1>1. /\ TypeOK /\ RowsKnown /\ Separate(rows) /\ Separate(rows')
      /\ inserted \in Nat /\ inserted' \in Nat /\ inserted <= inserted'
  BY StateFacts
<1>2. /\ \A d \in DeliveryId : rows'[d] = rows[d] \/ Inserted(d)
      /\ \A s \in Serial : s > inserted /\ s <= inserted' =>
           \E d \in DeliveryId : Inserted(d) /\ rows'[d].serial = s
  BY <1>1, CommitEffects
<1>0. ASSUME NEW d \in DeliveryId
      PROVE  \/ rows'[d] = rows[d]
             \/ rows[d].serial = 0 /\ rows'[d].serial \in Nat /\ rows'[d].serial > inserted
  <2>1. CASE Inserted(d)
    <3>1. rows[d] = NoRow /\ rows'[d].serial \in inserted + 1 .. inserted'
      BY <2>1 DEF Inserted
    <3>2. rows[d].serial = 0
      BY <3>1 DEF NoRow
    <3>3. rows'[d].serial \in Nat /\ rows'[d].serial > inserted
      BY <1>1, <3>1
    <3> QED
      BY <3>2, <3>3
  <2> QED
    BY <1>2, <2>1
<1>3. \A s \in S : F[s] = "none"
  BY <1>1, FateOfEvent
<1>4. ASSUME NEW s \in Serial PROVE G[s] = IF s \in S THEN "owed" ELSE F[s]
  <2>1. s \in Nat /\ s # 0
    BY DEF Serial
  <2>2. CASE s \in S
    <3>1. PICK d \in DeliveryId : Inserted(d) /\ rows'[d].serial = s
      BY <1>2, <2>2
    <3>2. ~Settled(rows'[d])
      BY <3>1 DEF Inserted, Settled
    <3> QED
      BY <1>1, <2>2, <3>1, <3>2, FateOfEvent
  <2>3. CASE s > inserted'
    <3>1. s > inserted /\ s \notin S
      BY <1>1, <2>1, <2>3
    <3> QED
      BY <1>1, <2>3, <3>1, FateOfEvent
  <2>4. CASE s <= inserted
    <3>1. s \notin S /\ s <= inserted'
      BY <1>1, <2>1, <2>4
    <3>2. CASE \E d \in DeliveryId : rows[d].serial = s
      <4>1. PICK d \in DeliveryId : rows[d].serial = s
        BY <3>2
      <4>2. rows'[d] = rows[d]
        BY <1>0, <2>1, <4>1
      <4>3. /\ F[s] = IF Settled(rows[d]) THEN rows[d].status ELSE "owed"
            /\ G[s] = IF Settled(rows'[d]) THEN rows'[d].status ELSE "owed"
        BY <1>1, <2>4, <3>1, <4>1, <4>2, FateOfEvent
      <4> QED
        BY <3>1, <4>2, <4>3
    <3>3. CASE \A d \in DeliveryId : rows[d].serial # s
      <4>1. \A d \in DeliveryId : rows'[d].serial # s
        BY <1>0, <1>1, <2>1, <2>4, <3>3
      <4> QED
        BY <1>1, <2>4, <3>1, <3>3, <4>1, FateOfEvent
    <3> QED
      BY <3>2, <3>3
  <2> QED
    BY <1>1, <2>1, <2>2, <2>3, <2>4
<1>5. G = [s \in Serial |-> G[s]]
  BY DEF FateOf
<1>6. G = [s \in Serial |-> IF s \in S THEN "owed" ELSE F[s]]
  <2> HIDE DEF F, G, S
  <2> QED
    BY <1>4, <1>5
<1> HIDE DEF S
<1>7. S \in SUBSET Serial
  BY DEF S
<1> QED
  BY <1>3, <1>6, <1>7

LEMMA DeleteForgets ==
  ASSUME DeliveredInv, [Next]_vars, NEW h \in HookId, DeleteWebhook(h)
  PROVE  \E S \in SUBSET Serial :
           /\ \A s \in S : FateOf(rows, inserted)[s] # "none"
           /\ FateOf(rows', inserted') =
                [s \in Serial |-> IF s \in S THEN "gone" ELSE FateOf(rows, inserted)[s]]
<1> DEFINE F == FateOf(rows, inserted)
           G == FateOf(rows', inserted')
           S == {s \in Serial : \E d \in DeliveryId : rows[d].serial = s /\ rows[d].hook = h}
<1>1. /\ TypeOK /\ RowsKnown /\ Separate(rows) /\ Separate(rows')
      /\ inserted \in Nat /\ inserted' = inserted
  BY StateFacts DEF DeleteWebhook
<1>2. \A d \in DeliveryId : rows'[d] = IF rows[d].hook = h THEN NoRow ELSE rows[d]
  BY DEF DeleteWebhook
<1>3. \A s \in Serial : s # 0 /\ s \in Nat
  BY DEF Serial
<1>4. \A d \in DeliveryId : rows[d].serial \in Serial => rows[d].serial <= inserted
  BY StateFacts
<1>5. ASSUME NEW s \in S PROVE F[s] # "none"
  <2>1. PICK d \in DeliveryId : rows[d].serial = s
    OBVIOUS
  <2>2. F[s] = IF Settled(rows[d]) THEN rows[d].status ELSE "owed"
    BY <1>1, <1>4, <2>1, FateOfEvent
  <2> QED
    BY <2>2 DEF Settled
<1>6. ASSUME NEW s \in Serial PROVE G[s] = IF s \in S THEN "gone" ELSE F[s]
  <2>1. CASE s > inserted
    <3>1. s \notin S
      BY <1>1, <1>3, <1>4, <2>1
    <3> QED
      BY <1>1, <2>1, <3>1, FateOfEvent
  <2>2. CASE s <= inserted /\ s \in S
    <3>1. \A d \in DeliveryId : rows'[d].serial # s
      <4>1. PICK c \in DeliveryId : rows[c].serial = s /\ rows[c].hook = h
        BY <2>2
      <4>2. \A d \in DeliveryId : rows[d].serial = s => d = c
        BY <1>1, <4>1 DEF Separate
      <4> QED
        BY <1>2, <1>3, <4>1, <4>2 DEF NoRow
    <3> QED
      BY <1>1, <2>2, <3>1, FateOfEvent
  <2>3. CASE s <= inserted /\ s \notin S
    <3>1. CASE \E d \in DeliveryId : rows[d].serial = s
      <4>1. PICK d \in DeliveryId : rows[d].serial = s
        BY <3>1
      <4>2. rows'[d] = rows[d]
        BY <1>2, <2>3, <4>1
      <4>3. /\ F[s] = IF Settled(rows[d]) THEN rows[d].status ELSE "owed"
            /\ G[s] = IF Settled(rows'[d]) THEN rows'[d].status ELSE "owed"
        BY <1>1, <2>3, <4>1, <4>2, FateOfEvent
      <4> QED
        BY <2>3, <4>2, <4>3
    <3>2. CASE \A d \in DeliveryId : rows[d].serial # s
      <4>1. \A d \in DeliveryId : rows'[d].serial # s
        BY <1>2, <1>3, <3>2 DEF NoRow
      <4> QED
        BY <1>1, <2>3, <3>2, <4>1, FateOfEvent
    <3> QED
      BY <3>1, <3>2
  <2> QED
    BY <1>1, <1>3, <2>1, <2>2, <2>3
<1>7. G = [s \in Serial |-> G[s]]
  BY DEF FateOf
<1>8. G = [s \in Serial |-> IF s \in S THEN "gone" ELSE F[s]]
  <2> HIDE DEF F, G, S
  <2> QED
    BY <1>6, <1>7
<1> HIDE DEF S
<1>9. S \in SUBSET Serial
  BY DEF S
<1> QED
  BY <1>5, <1>8, <1>9

(* One row settles, and nothing else.                                      *)
LEMMA FateSettles ==
  ASSUME NEW R, NEW Q, NEW n \in Nat, Separate(R), Separate(Q),
         NEW d \in DeliveryId, R[d].serial \in Serial, R[d].serial <= n,
         ~Settled(R[d]), Settled(Q[d]), Q[d].serial = R[d].serial,
         \A c \in DeliveryId : c # d => Q[c] = R[c]
  PROVE  /\ FateOf(R, n)[R[d].serial] = "owed"
         /\ FateOf(Q, n) = [FateOf(R, n) EXCEPT ![R[d].serial] = Q[d].status]
<1> DEFINE F == FateOf(R, n)
           G == FateOf(Q, n)
           u == R[d].serial
<1>1. F[u] = "owed" /\ G[u] = Q[d].status
  BY FateOfEvent
<1>2. ASSUME NEW s \in Serial, s # u PROVE G[s] = F[s]
  <2>1. CASE s > n
    BY <2>1, FateOfEvent
  <2>2. CASE ~(s > n)
    <3>1. s <= n
      BY <2>2 DEF Serial
    <3>2. CASE \E c \in DeliveryId : R[c].serial = s
      <4>1. PICK c \in DeliveryId : R[c].serial = s
        BY <3>2
      <4>2. Q[c] = R[c]
        BY <1>2, <4>1
      <4>3. /\ F[s] = IF Settled(R[c]) THEN R[c].status ELSE "owed"
            /\ G[s] = IF Settled(Q[c]) THEN Q[c].status ELSE "owed"
        BY <3>1, <4>1, <4>2, FateOfEvent
      <4> QED
        BY <4>2, <4>3
    <3>3. CASE \A c \in DeliveryId : R[c].serial # s
      <4>1. \A c \in DeliveryId : Q[c].serial # s
        BY <1>2, <3>3
      <4> QED
        BY <3>1, <3>3, <4>1, FateOfEvent
    <3> QED
      BY <3>2, <3>3
  <2> QED
    BY <2>1, <2>2
<1>3. F = [s \in Serial |-> F[s]] /\ G = [s \in Serial |-> G[s]]
  BY DEF FateOf
<1>4. u \in Serial
  OBVIOUS
<1> HIDE DEF F, G, u
<1>5. G = [F EXCEPT ![u] = Q[d].status]
  BY <1>1, <1>2, <1>3, <1>4
<1> QED
  BY <1>1, <1>5 DEF F, G, u

(* Recording an outcome settles an owed event, or leaves it owed.          *)
LEMMA MarkSettles ==
  ASSUME DeliveredInv, [Next]_vars, NEW v \in Worker, Mark(v)
  PROVE  \/ FateOf(rows', inserted') = FateOf(rows, inserted)
         \/ \E s \in Serial :
              /\ FateOf(rows, inserted)[s] = "owed"
              /\ \/ FateOf(rows', inserted') = [FateOf(rows, inserted) EXCEPT ![s] = "dead"]
                 \/ /\ FateOf(rows', inserted') =
                         [FateOf(rows, inserted) EXCEPT ![s] = "delivered"]
                    /\ s \in Confirmed' \/ Voided'
<1>1. /\ TypeOK /\ Separate(rows) /\ Separate(rows')
      /\ inserted \in Nat /\ inserted' = inserted
      /\ \A d \in DeliveryId : rows[d].serial \in Serial => rows[d].serial <= inserted
  BY StateFacts DEF Mark
<1>2. PICK e \in workers[v].batch :
        \A d \in DeliveryId : \/ rows'[d] = rows[d]
                              \/ d = e.id /\ Recorded(rows[d], rows'[d])
  <2>1. PICK e \in workers[v].batch :
        \A d \in DeliveryId :
          \/ rows'[d] = rows[d]
          \/ /\ d = e.id /\ Recorded(rows[d], rows'[d])
             /\ rows'[d].status = "pending" => e.attempts + 1 < MaxAttempts
             /\ rows'[d].status = "delivered" => workers[v].verdict = "ok"
    BY <1>1, MarkRows
  <2> QED
    BY <2>1
<1>3. CASE \A d \in DeliveryId : Settled(rows'[d]) <=> Settled(rows[d])
  <2>1. ASSUME NEW d \in DeliveryId
        PROVE  /\ rows'[d].serial = rows[d].serial
               /\ Settled(rows'[d]) <=> Settled(rows[d])
               /\ Settled(rows[d]) => rows'[d].status = rows[d].status
    BY <1>2, <1>3 DEF Recorded, Settled
  <2> QED
    BY <1>1, <2>1, FateSame
<1>4. CASE ~\A d \in DeliveryId : Settled(rows'[d]) <=> Settled(rows[d])
  <2>1. PICK d \in DeliveryId : ~(Settled(rows'[d]) <=> Settled(rows[d]))
    BY <1>4
  <2>2. d = e.id /\ Recorded(rows[d], rows'[d])
    BY <1>2, <2>1
  <2>3. /\ rows[d].status = "in_progress" /\ ~Settled(rows[d]) /\ Settled(rows'[d])
        /\ rows'[d].status \in {"delivered", "dead"} /\ rows'[d].serial = rows[d].serial
    BY <2>1, <2>2 DEF Recorded, Settled
  <2>4. rows[d].serial \in Serial /\ rows[d].serial <= inserted
    <3>1. rows[d].serial \in Serial
      BY <1>1, <2>3, LiveRows DEF TypeOK, LiveRow
    <3> QED
      BY <1>1, <3>1
  <2>5. \A c \in DeliveryId : c # d => rows'[c] = rows[c]
    BY <1>2, <2>2
  <2>6. /\ FateOf(rows, inserted)[rows[d].serial] = "owed"
        /\ FateOf(rows', inserted) =
             [FateOf(rows, inserted) EXCEPT ![rows[d].serial] = rows'[d].status]
    <3> DEFINE Q == rows'
               n == inserted
    <3>1. /\ n \in Nat /\ Separate(rows) /\ Separate(Q) /\ d \in DeliveryId
          /\ rows[d].serial \in Serial /\ rows[d].serial <= n
          /\ ~Settled(rows[d]) /\ Settled(Q[d]) /\ Q[d].serial = rows[d].serial
      BY <1>1, <2>3, <2>4
    <3>2. \A c \in DeliveryId : c # d => Q[c] = rows[c]
      BY <2>5
    <3> HIDE DEF Q, n
    <3>3. /\ FateOf(rows, n)[rows[d].serial] = "owed"
          /\ FateOf(Q, n) = [FateOf(rows, n) EXCEPT ![rows[d].serial] = Q[d].status]
      BY <3>1, <3>2, FateSettles
    <3> QED
      BY <3>3 DEF Q, n
  <2>7. rows'[d].status = "delivered" => rows[d].serial \in Confirmed' \/ Voided'
    BY <2>3, <2>4, DeliveredStep DEF DeliveredMeansAcked, Confirmed, Voided
  <2> QED
    BY <1>1, <2>3, <2>4, <2>6, <2>7
<1> QED
  BY <1>3, <1>4

(* The other steps settle, commit and forget nothing.                      *)
LEMMA OthersKeepFate ==
  ASSUME DeliveredInv, [Next]_vars,
         \A kind \in Kind : ~CommitChange(kind),
         \A h \in HookId : ~DeleteWebhook(h),
         \A v \in Worker : ~Mark(v)
  PROVE  FateOf(rows', inserted') = FateOf(rows, inserted)
<1>1. TypeOK /\ Separate(rows) /\ Separate(rows') /\ inserted \in Nat
  BY StateFacts
<1>2. ASSUME NEW d \in DeliveryId
      PROVE  /\ Kept(rows[d], rows'[d]) \/ Reclaimed(rows[d], rows'[d])
                \/ Claimed(rows[d], rows'[d])
             /\ inserted' = inserted
  BY <1>1, OtherRows
<1>3. inserted' = inserted
  BY DEF Next, vars, Request, CreateWebhook, SetWebhookEnabled,
     WorkerStep, WorkerFault, Reclaim, ReclaimFails, ClaimSelect, ClaimCas, ClaimFails,
     Resolve, ResolveFails, ResolveUnsealable, UrlBlocked, Post, MarkFails, Crash, Restart,
     Tick, storeVars, historyVars
<1>4. ASSUME NEW d \in DeliveryId
      PROVE  /\ rows'[d].serial = rows[d].serial
             /\ Settled(rows'[d]) <=> Settled(rows[d])
             /\ Settled(rows[d]) => rows'[d].status = rows[d].status
  BY <1>2 DEF Kept, SameRow, Reclaimed, Claimed, Settled
<1>5. FateOf(rows', inserted) = FateOf(rows, inserted)
  BY <1>1, <1>4, FateSame
<1> QED
  BY <1>3, <1>5

(* A POST is for an event still owed, or gone with its webhook.            *)
LEMMA PostedIsOwed ==
  ASSUME DeliveredInv, NEW w \in Worker, NEW e \in workers[w].batch,
         Separate(rows)
  PROVE  FateOf(rows, inserted)[e.serial] \in {"owed", "gone"}
<1>1. /\ TypeOK /\ RowsKnown /\ WorksOnlyOnItsClaims /\ Known(e)
  BY DEF DeliveredInv, SingleInv, SentInv, TablesInv, Sent
<1>2. e \in Snapshot /\ e.id \in DeliveryId /\ e.serial \in Serial
      /\ inserted \in Nat /\ e.serial <= inserted /\ born[e.serial].id = e.id
  BY <1>1 DEF TypeOK, Local, Snapshot, Known
<1>3. CASE rows[e.id].serial = e.serial
  <2>1. rows[e.id].status = "in_progress"
    BY <1>1, <1>3 DEF WorksOnlyOnItsClaims
  <2>2. ~Settled(rows[e.id])
    BY <2>1 DEF Settled
  <2>3. FateOf(rows, inserted)[e.serial] =
          IF Settled(rows[e.id]) THEN rows[e.id].status ELSE "owed"
    BY <1>2, <1>3, FateOfEvent
  <2> QED
    BY <2>2, <2>3
<1>4. CASE rows[e.id].serial # e.serial
  <2>1. ASSUME NEW d \in DeliveryId, rows[d].serial = e.serial PROVE FALSE
    <3>1. rows[d] # NoRow
      BY <1>2, <2>1 DEF NoRow, Serial
    <3>2. born[rows[d].serial] = [id |-> d, reg |-> hooks[rows[d].hook].reg]
      BY <1>1, <3>1 DEF RowsKnown
    <3>3. born[e.serial].id = d
      BY <2>1, <3>2
    <3> QED
      BY <1>2, <1>4, <2>1, <3>3
  <2> QED
    BY <1>2, <2>1, FateOfEvent
<1> QED
  BY <1>3, <1>4

(* An acknowledgement confirms an event, or goes astray.                   *)
LEMMA AckConfirms ==
  ASSUME DeliveredInv, [Next]_vars, acked' # acked
  PROVE  /\ FateOf(rows', inserted') = FateOf(rows, inserted)
         /\ \E s \in Serial :
              /\ FateOf(rows, inserted)[s] \in {"owed", "gone"}
              /\ \/ Confirmed' = Confirmed \cup {s} /\ Voided' = Voided
                 \/ Confirmed' = Confirmed /\ Voided' = TRUE
<1>1. TypeOK /\ Separate(rows)
  BY StateFacts
<1>2. /\ \E w \in Worker : Posted(w)
      /\ UNCHANGED << hooks, rows, regs, inserted, born >>
  BY <1>1, AckedStep
<1>3. PICK w \in Worker : Posted(w)
  BY <1>2
<1>4. PICK e \in workers[w].batch :
        acked' = acked \cup {<< e.serial, workers[w].seen[e.hook] >>}
  BY <1>3 DEF Posted
<1>5. e.serial \in Serial
  BY <1>1 DEF TypeOK, Local, Snapshot
<1>6. FateOf(rows, inserted)[e.serial] \in {"owed", "gone"}
  BY <1>1, PostedIsOwed
<1> DEFINE s == e.serial
           g == workers[w].seen[e.hook]
           p == << s, g >>
<1>7. s \in Serial /\ acked' = acked \cup {p} /\ p[1] = s /\ p[2] = g
  BY <1>4, <1>5
<1> HIDE DEF s, g
<1>8. Confirmed' = {t \in Serial : << t, born[t].reg >> \in acked'}
  BY <1>2 DEF Confirmed
<1>9. Voided' = \E q \in acked' : born[q[1]].reg # q[2]
  BY <1>2 DEF Voided, Astray
<1>10. CASE g = born[s].reg
  <2>1. Confirmed' = Confirmed \cup {s}
    BY <1>7, <1>8, <1>10 DEF Confirmed
  <2>2. Voided' = Voided
    BY <1>7, <1>9, <1>10 DEF Voided, Astray
  <2> QED
    BY <1>2, <1>6, <1>7, <2>1, <2>2 DEF s
<1>11. CASE g # born[s].reg
  <2>1. Confirmed' = Confirmed
    BY <1>7, <1>8, <1>11 DEF Confirmed
  <2>2. Voided'
    BY <1>7, <1>9, <1>11
  <2>3. Voided' = TRUE
    BY <1>9, <2>2
  <2> QED
    BY <1>2, <1>6, <1>7, <2>1, <2>3 DEF s
<1> QED
  BY <1>10, <1>11

LEMMA LedgerStep ==
  ASSUME DeliveredInv, [Next]_vars
  PROVE  [Ledger!LedgerNext]_(Ledger!ledgerVars)
<1> DEFINE F == FateOf(rows, inserted)
           G == FateOf(rows', inserted')
<1>1. LedgerFate = F /\ LedgerFate' = G
  BY LedgerStates
<1> HIDE DEF F, G
<1>2. Voided \in BOOLEAN /\ Voided' \in BOOLEAN
  BY DEF Voided
<1>3. Voided => Voided'
  BY AckedKnownStep DEF DeliveredInv, Voided, Astray
<1>4. CASE Voided
  BY <1>3, <1>4 DEF Ledger!LedgerNext, Voided
<1>5. CASE ~Voided /\ acked' # acked
  <2>1. /\ G = F
        /\ \E s \in Serial :
             /\ F[s] \in {"owed", "gone"}
             /\ \/ Confirmed' = Confirmed \cup {s} /\ Voided' = Voided
                \/ Confirmed' = Confirmed /\ Voided' = TRUE
    BY <1>5, AckConfirms DEF F, G
  <2>2. PICK s \in Serial :
             /\ F[s] \in {"owed", "gone"}
             /\ \/ Confirmed' = Confirmed \cup {s} /\ Voided' = Voided
                \/ Confirmed' = Confirmed /\ Voided' = TRUE
    BY <2>1
  <2>3. CASE Confirmed' = Confirmed \cup {s} /\ Voided' = Voided
    <3>1. Ledger!Confirm(s)
      BY <1>1, <2>1, <2>2, <2>3 DEF Ledger!Confirm, Confirmed
    <3> QED
      BY <1>5, <2>3, <3>1 DEF Ledger!LedgerNext, Ledger!Kept, Voided
  <2>4. CASE Confirmed' = Confirmed /\ Voided' = TRUE
    <3>1. Ledger!Misdirect
      BY <1>1, <2>1, <2>2, <2>4 DEF Ledger!Misdirect, Confirmed, Voided
    <3> QED
      BY <3>1 DEF Ledger!LedgerNext
  <2> QED
    BY <2>2, <2>3, <2>4
<1>6. CASE ~Voided /\ acked' = acked
  <2>1. Confirmed' = Confirmed /\ Voided' = Voided
    BY <1>6, ConfirmedSame
  <2>2. Ledger!Kept => Ledger!LedgerNext
    BY <1>6, <2>1 DEF Ledger!LedgerNext, Voided
  <2>3. G = F => UNCHANGED Ledger!ledgerVars
    BY <1>1, <2>1 DEF Ledger!ledgerVars, Confirmed, Voided
  <2>4. ASSUME NEW kind \in Kind, CommitChange(kind) PROVE Ledger!LedgerNext
    <3>1. \E S \in SUBSET Serial :
            /\ \A s \in S : F[s] = "none"
            /\ G = [s \in Serial |-> IF s \in S THEN "owed" ELSE F[s]]
      BY <2>4, CommitOwes DEF F, G
    <3>2. Ledger!Owe
      BY <1>1, <2>1, <3>1 DEF Ledger!Owe, Confirmed
    <3> QED
      BY <2>2, <3>2 DEF Ledger!Kept
  <2>5. ASSUME NEW h \in HookId, DeleteWebhook(h) PROVE Ledger!LedgerNext
    <3>1. \E S \in SUBSET Serial :
            /\ \A s \in S : F[s] # "none"
            /\ G = [s \in Serial |-> IF s \in S THEN "gone" ELSE F[s]]
      BY <2>5, DeleteForgets DEF F, G
    <3>2. Ledger!Forget
      BY <1>1, <2>1, <3>1 DEF Ledger!Forget, Confirmed
    <3> QED
      BY <2>2, <3>2 DEF Ledger!Kept
  <2>6. ASSUME NEW v \in Worker, Mark(v), G # F PROVE Ledger!LedgerNext
    <3>1. PICK s \in Serial :
            /\ F[s] = "owed"
            /\ \/ G = [F EXCEPT ![s] = "dead"]
               \/ /\ G = [F EXCEPT ![s] = "delivered"]
                  /\ s \in Confirmed' \/ Voided'
      BY <2>6, MarkSettles DEF F, G
    <3>2. CASE G = [F EXCEPT ![s] = "dead"]
      <4>1. Ledger!GiveUp(s)
        BY <1>1, <2>1, <3>1, <3>2 DEF Ledger!GiveUp, Confirmed
      <4> QED
        BY <2>2, <4>1 DEF Ledger!Kept
    <3>3. CASE G = [F EXCEPT ![s] = "delivered"] /\ s \in Confirmed
      <4>1. Ledger!Deliver(s)
        BY <1>1, <2>1, <3>1, <3>3 DEF Ledger!Deliver, Confirmed
      <4> QED
        BY <2>2, <4>1 DEF Ledger!Kept
    <3> QED
      BY <1>6, <2>1, <3>1, <3>2, <3>3
  <2>7. ASSUME \A kind \in Kind : ~CommitChange(kind),
               \A h \in HookId : ~DeleteWebhook(h),
               \A v \in Worker : ~Mark(v)
        PROVE  G = F
    BY <2>7, OthersKeepFate DEF F, G
  <2> QED
    BY <2>3, <2>4, <2>5, <2>6, <2>7
<1> QED
  BY <1>4, <1>5, <1>6

LEMMA LedgerStart == Init => Ledger!LedgerInit
<1> SUFFICES ASSUME Init PROVE Ledger!LedgerInit
  OBVIOUS
<1>1. inserted = 0 /\ acked = {}
  BY DEF Init
<1>2. \A s \in Serial : s > inserted
  BY <1>1 DEF Serial
<1>3. LedgerFate = [s \in Serial |-> "none"]
  BY <1>2 DEF LedgerFate
<1> QED
  BY <1>1, <1>3 DEF Ledger!LedgerInit

(* One worker: rows, leases, retries, crashes and failed statements        *)
(* implement the ledger, until an event goes astray.                       *)
THEOREM LedgerImplemented ==
  ASSUME OneWorker
  PROVE  Spec => ImplementsLedger
<1>1. DeliveredInv /\ [Next]_vars => DeliveredInv'
  BY DeliveredInvStep
<1>2. DeliveredInv /\ [Next]_vars => [Ledger!LedgerNext]_(Ledger!ledgerVars)
  BY LedgerStep
<1> QED
  BY <1>1, <1>2, DeliveredInvInit, LedgerStart, PTL DEF Spec, ImplementsLedger, Ledger!LedgerSpec

============================================================================
