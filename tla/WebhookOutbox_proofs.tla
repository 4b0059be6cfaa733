----------------------- MODULE WebhookOutbox_proofs -----------------------
(***************************************************************************)
(* Theorems about WebhookOutbox, for every number of workers, webhooks,    *)
(* rows, attempts and faults.                                              *)
(***************************************************************************)
EXTENDS WebhookOutbox, TLAPS

LEMMA ConstantTypes ==
  /\ NoHook \in Hook
  /\ NoRow \in Row
  /\ AtRest \in Local
  /\ NoLease \in Int
BY OutboxAssumption
   DEF NoHook, Hook, NoRow, Row, NoLease, AtRest, Local, Phase, HookId

(* Only a row that is absent is NoRow.                                     *)
LEMMA LiveRows ==
  ASSUME NEW r \in Row, r.status # "absent"
  PROVE  r \in LiveRow
BY DEF Row, NoRow

LEMMA RowUpdate ==
  ASSUME NEW r \in LiveRow, NEW n \in Nat \cup {NoLease}, NEW m \in Nat
  PROVE  [r EXCEPT !.attempts = m, !.lease = n] \in LiveRow
BY DEF LiveRow

(* What a worker goes on with after a claim or a delivery.                 *)
LEMMA NextDeliveryType ==
  ASSUME NEW local \in Local
  PROVE  NextDelivery(local) \in Local
BY ConstantTypes DEF NextDelivery, Local, Phase

LEMMA GotoType ==
  ASSUME NEW w \in Worker, NEW local \in Local,
         workers \in [Worker -> Local], Goto(w, local)
  PROVE  workers' \in [Worker -> Local]
BY DEF Goto

(* A step of a worker that touches neither table nor history.              *)
LEMMA LocalStepType ==
  ASSUME TypeOK, workers' \in [Worker -> Local],
         UNCHANGED << storeVars, historyVars >>, Fault \/ UNCHANGED faults
  PROVE  TypeOK'
<1>1. faults' \in 0..MaxFaults
  BY OutboxAssumption DEF Fault, TypeOK
<1> QED
  BY <1>1 DEF TypeOK, storeVars, historyVars

LEMMA ClaimedType ==
  ASSUME NEW r \in LiveRow, NEW status \in Status, NEW n \in Nat \cup {NoLease}
  PROVE  [r EXCEPT !.status = status, !.lease = n] \in LiveRow
BY DEF LiveRow

(* Recording an outcome leaves a well-formed row.                          *)
LEMMA MarkedType ==
  ASSUME NEW r \in LiveRow, NEW e \in Snapshot,
         NEW verdict \in {"none", "ok", "fail", "unsealable"}
  PROVE  Marked(r, e, verdict) \in LiveRow
<1> DEFINE done == [r EXCEPT !.attempts = r.attempts + 1, !.lease = NoLease]
<1>1. done \in LiveRow
  <2>1. r.attempts + 1 \in Nat
    BY DEF LiveRow
  <2> QED
    BY <2>1, RowUpdate, ConstantTypes
<1>2. Marked(r, e, verdict) =
        CASE verdict = "ok" -> [done EXCEPT !.status = "delivered"]
          [] verdict = "unsealable" -> [done EXCEPT !.status = "dead"]
          [] e.attempts + 1 >= MaxAttempts -> [done EXCEPT !.status = "dead"]
          [] OTHER -> [done EXCEPT !.status = "pending", !.wait = Backoff[e.attempts + 1]]
  BY DEF Marked
<1> HIDE DEF done
<1>3. CASE verdict \notin {"ok", "unsealable"} /\ e.attempts + 1 < MaxAttempts
  <2>1. Backoff[e.attempts + 1] \in Nat
    BY <1>3, OutboxAssumption DEF Snapshot
  <2>2. Marked(r, e, verdict)
          = [done EXCEPT !.status = "pending", !.wait = Backoff[e.attempts + 1]]
    BY <1>2, <1>3, OutboxAssumption DEF Snapshot
  <2> QED
    BY <1>1, <2>1, <2>2 DEF LiveRow, Status
<1>4. CASE verdict \in {"ok", "unsealable"} \/ e.attempts + 1 >= MaxAttempts
  BY <1>1, <1>2, <1>4 DEF LiveRow, Status
<1> QED
  BY <1>3, <1>4, OutboxAssumption DEF Snapshot

(* What recording an outcome does to the attempts, whichever it is.        *)
LEMMA MarkedAttempts ==
  ASSUME NEW r \in LiveRow, NEW e \in Snapshot,
         NEW verdict \in {"none", "ok", "fail", "unsealable"}
  PROVE  LET q == Marked(r, e, verdict) IN
         /\ q.attempts = r.attempts + 1
         /\ q.lease = NoLease
         /\ q.status \in {"pending", "delivered", "dead"}
         /\ q.status = "pending" => e.attempts + 1 < MaxAttempts
         /\ q.serial = r.serial /\ q.hook = r.hook
         /\ q.status = "delivered" => verdict = "ok"
<1> DEFINE done == [r EXCEPT !.attempts = r.attempts + 1, !.lease = NoLease]
<1>1. /\ done.attempts = r.attempts + 1
      /\ done.lease = NoLease
      /\ done.serial = r.serial /\ done.hook = r.hook
  BY DEF LiveRow
<1>2. done \in LiveRow
  <2>1. r.attempts + 1 \in Nat
    BY DEF LiveRow
  <2> QED
    BY <2>1, RowUpdate, ConstantTypes
<1>3. Marked(r, e, verdict) =
        CASE verdict = "ok" -> [done EXCEPT !.status = "delivered"]
          [] verdict = "unsealable" -> [done EXCEPT !.status = "dead"]
          [] e.attempts + 1 >= MaxAttempts -> [done EXCEPT !.status = "dead"]
          [] OTHER -> [done EXCEPT !.status = "pending", !.wait = Backoff[e.attempts + 1]]
  BY DEF Marked
<1> HIDE DEF done
<1>4. CASE verdict \notin {"ok", "unsealable"} /\ e.attempts + 1 < MaxAttempts
  <2>1. Marked(r, e, verdict)
          = [done EXCEPT !.status = "pending", !.wait = Backoff[e.attempts + 1]]
    BY <1>3, <1>4, OutboxAssumption DEF Snapshot
  <2> QED
    BY <1>1, <1>2, <1>4, <2>1 DEF LiveRow
<1>5. CASE verdict \in {"ok", "unsealable"} \/ e.attempts + 1 >= MaxAttempts
  <2>1. \/ verdict = "ok" /\ Marked(r, e, verdict) = [done EXCEPT !.status = "delivered"]
        \/ Marked(r, e, verdict) = [done EXCEPT !.status = "dead"]
    BY <1>3, <1>5
  <2> QED
    BY <1>1, <1>2, <2>1 DEF LiveRow
<1> QED
  BY <1>4, <1>5, OutboxAssumption DEF Snapshot

----------------------------------------------------------------------------
(* Requests preserve the types.                                            *)

LEMMA CreateWebhookType ==
  ASSUME TypeOK, NEW subs \in Subscription, CreateWebhook(subs)
  PROVE  TypeOK'
<1>1. PICK n \in 0..MaxRegs :
        hooks' = [hooks EXCEPT ![n + 1] = [reg |-> regs', enabled |-> TRUE, subs |-> subs]]
  BY DEF CreateWebhook
<1>2. regs' \in 0..MaxRegs
  BY OutboxAssumption DEF CreateWebhook, TypeOK
<1>3. [reg |-> regs', enabled |-> TRUE, subs |-> subs] \in Hook
  BY <1>2 DEF Hook, Subscription
<1>4. hooks' \in [HookId -> Hook]
  BY <1>1, <1>3 DEF TypeOK
<1> QED
  BY <1>2, <1>4 DEF CreateWebhook, TypeOK

LEMMA SetWebhookEnabledType ==
  ASSUME TypeOK, NEW h \in HookId, NEW on \in BOOLEAN, SetWebhookEnabled(h, on)
  PROVE  TypeOK'
<1>1. [hooks[h] EXCEPT !.enabled = on] \in Hook
  BY DEF TypeOK, Hook
<1>2. hooks' = [hooks EXCEPT ![h] = [hooks[h] EXCEPT !.enabled = on]]
  BY DEF SetWebhookEnabled
<1>3. hooks' \in [HookId -> Hook]
  BY <1>1, <1>2 DEF TypeOK
<1> QED
  BY <1>3 DEF SetWebhookEnabled, TypeOK, historyVars

LEMMA DeleteWebhookType ==
  ASSUME TypeOK, NEW h \in HookId, DeleteWebhook(h)
  PROVE  TypeOK'
<1>1. hooks' \in [HookId -> Hook]
  BY ConstantTypes DEF DeleteWebhook, TypeOK
<1>2. rows' \in [DeliveryId -> Row]
  BY ConstantTypes DEF DeleteWebhook, TypeOK
<1>3. holder' \in [DeliveryId -> Worker \cup {Nobody}]
  BY DEF DeleteWebhook, TypeOK
<1> QED
  BY <1>1, <1>2, <1>3 DEF DeleteWebhook, TypeOK

LEMMA CommitChangeType ==
  ASSUME TypeOK, NEW kind \in Kind, CommitChange(kind)
  PROVE  TypeOK'
<1>1. PICK k \in 1..MaxRegs, last \in 0..MaxRows :
        \E ms \in [1..k -> MatchForEvent(kind)] :
          /\ inserted + k <= MaxRows
          /\ inserted' = inserted + k
          /\ rows' = [d \in DeliveryId |->
                       IF d \in last + 1 .. last + k
                       THEN [status |-> "pending", hook |-> ms[d - last],
                             serial |-> inserted + (d - last),
                             attempts |-> 0, wait |-> 0, lease |-> NoLease]
                       ELSE rows[d]]
          /\ born' = [s \in Serial |->
                       IF s \in inserted + 1 .. inserted + k
                       THEN [id |-> last + (s - inserted), reg |-> hooks[ms[s - inserted]].reg]
                       ELSE born[s]]
          /\ UNCHANGED << hooks, workers, regs, posts, acked, holder, faults >>
          /\ last + k <= MaxRows
  BY SMTT(40) DEF CommitChange
<1>2. PICK ms \in [1..k -> MatchForEvent(kind)] :
          /\ inserted + k <= MaxRows
          /\ inserted' = inserted + k
          /\ rows' = [d \in DeliveryId |->
                       IF d \in last + 1 .. last + k
                       THEN [status |-> "pending", hook |-> ms[d - last],
                             serial |-> inserted + (d - last),
                             attempts |-> 0, wait |-> 0, lease |-> NoLease]
                       ELSE rows[d]]
          /\ born' = [s \in Serial |->
                       IF s \in inserted + 1 .. inserted + k
                       THEN [id |-> last + (s - inserted), reg |-> hooks[ms[s - inserted]].reg]
                       ELSE born[s]]
          /\ UNCHANGED << hooks, workers, regs, posts, acked, holder, faults >>
          /\ last + k <= MaxRows
  BY <1>1
<1>3. \A i \in 1..k : ms[i] \in HookId
  BY DEF MatchForEvent, Registered
<1>4. inserted' \in 0..MaxRows
  BY <1>2, OutboxAssumption DEF TypeOK
<1>5. rows' \in [DeliveryId -> Row]
  <2>1. ASSUME NEW d \in DeliveryId, d \in last + 1 .. last + k
        PROVE  [status |-> "pending", hook |-> ms[d - last],
                serial |-> inserted + (d - last),
                attempts |-> 0, wait |-> 0, lease |-> NoLease] \in LiveRow
    <3>1. d - last \in 1..k
      BY <2>1
    <3>2. ms[d - last] \in HookId
      BY <3>1, <1>3
    <3>3. inserted + (d - last) \in Serial
      <4>1. inserted \in Nat
        BY OutboxAssumption DEF TypeOK
      <4> QED
        BY <3>1, <4>1, <1>2, OutboxAssumption DEF Serial
    <3> QED
      BY <3>2, <3>3, ConstantTypes DEF LiveRow, Status
  <2> QED
    BY <1>2, <2>1 DEF TypeOK, Row
<1>6. born' \in [Serial -> [id : 0..MaxRows, reg : 0..MaxRegs]]
  <2>1. ASSUME NEW s \in Serial, s \in inserted + 1 .. inserted + k
        PROVE  [id |-> last + (s - inserted), reg |-> hooks[ms[s - inserted]].reg]
                 \in [id : 0..MaxRows, reg : 0..MaxRegs]
    <3>1. s - inserted \in 1..k
      BY <2>1 DEF TypeOK
    <3>2. hooks[ms[s - inserted]].reg \in 0..MaxRegs
      BY <3>1, <1>3 DEF TypeOK, Hook
    <3>3. last + (s - inserted) \in 0..MaxRows
      BY <3>1, <1>2, OutboxAssumption
    <3> QED
      BY <3>2, <3>3
  <2> QED
    BY <1>2, <2>1 DEF TypeOK
<1> QED
  BY <1>2, <1>4, <1>5, <1>6 DEF TypeOK

----------------------------------------------------------------------------
(* Worker steps preserve the types.                                        *)

LEMMA ReclaimType ==
  ASSUME TypeOK, NEW w \in Worker, Reclaim(w) \/ ReclaimFails(w)
  PROVE  TypeOK'
<1>1. [AtRest EXCEPT !.phase = "select"] \in Local
  BY ConstantTypes DEF Local, Phase
<1>2. workers' \in [Worker -> Local]
  BY <1>1, GotoType DEF Reclaim, ReclaimFails, TypeOK
<1>3. CASE Reclaim(w)
  <2>1. ASSUME NEW d \in DeliveryId, IsStale(rows[d])
        PROVE  [rows[d] EXCEPT !.status = "pending", !.lease = NoLease] \in Row
    <3>1. rows[d] \in LiveRow
      BY <2>1, LiveRows DEF IsStale, TypeOK
    <3> QED
      BY <3>1, ConstantTypes, ClaimedType DEF Row, Status
  <2>2. rows' \in [DeliveryId -> Row]
    BY <1>3, <2>1 DEF Reclaim, TypeOK
  <2>3. holder' \in [DeliveryId -> Worker \cup {Nobody}]
    BY <1>3 DEF Reclaim, TypeOK
  <2> QED
    BY <1>2, <1>3, <2>2, <2>3 DEF Reclaim, TypeOK
<1>4. CASE ReclaimFails(w)
  BY <1>2, <1>4, LocalStepType DEF ReclaimFails
<1> QED
  BY <1>3, <1>4

LEMMA CandidatesType ==
  ASSUME TypeOK
  PROVE  Candidates \in SUBSET Snapshot
<1>1. ASSUME NEW d \in DeliveryId, rows[d].status = "pending"
      PROVE  [id |-> d, serial |-> rows[d].serial, hook |-> rows[d].hook,
              attempts |-> rows[d].attempts] \in Snapshot
  <2>1. rows[d] \in LiveRow
    BY <1>1, LiveRows DEF TypeOK
  <2> QED
    BY <2>1 DEF LiveRow, Snapshot
<1> QED
  BY <1>1 DEF Candidates, Due

LEMMA ClaimType ==
  ASSUME TypeOK, NEW w \in Worker, ClaimSelect(w) \/ ClaimFails(w)
  PROVE  TypeOK'
<1>1. workers[w] \in Local
  BY DEF TypeOK
<1>2. [workers[w] EXCEPT !.phase = "cas", !.cand = Candidates, !.clock = 0] \in Local
  BY <1>1, CandidatesType DEF Local, Phase
<1>3. workers' \in [Worker -> Local]
  BY <1>2, ConstantTypes, GotoType DEF ClaimSelect, ClaimFails, TypeOK
<1> QED
  BY <1>3, LocalStepType DEF ClaimSelect, ClaimFails

LEMMA ClaimCasType ==
  ASSUME TypeOK, NEW w \in Worker, ClaimCas(w)
  PROVE  TypeOK'
<1> DEFINE me == workers[w]
<1>1. me \in Local
  BY DEF TypeOK
<1>2. PICK e \in me.cand :
        LET won  == rows[e.id].status = "pending"
            left == [me EXCEPT !.cand = @ \ {e},
                               !.batch = IF won THEN @ \cup {e} ELSE @]
        IN /\ rows' = IF won
                      THEN [rows EXCEPT ![e.id] =
                             [@ EXCEPT !.status = "in_progress", !.lease = me.clock]]
                      ELSE rows
           /\ holder' = IF won THEN [holder EXCEPT ![e.id] = w] ELSE holder
           /\ Goto(w, IF left.cand = {} THEN NextDelivery(left) ELSE left)
  BY DEF ClaimCas
<1> DEFINE won  == rows[e.id].status = "pending"
           left == [me EXCEPT !.cand = @ \ {e}, !.batch = IF won THEN @ \cup {e} ELSE @]
<1>3. e \in Snapshot /\ e.id \in DeliveryId
  BY <1>1 DEF Local, Snapshot
<1>4. left \in Local
  BY <1>1, <1>3 DEF Local
<1>5. workers' \in [Worker -> Local]
  <2>1. (IF left.cand = {} THEN NextDelivery(left) ELSE left) \in Local
    BY <1>4, NextDeliveryType
  <2> QED
    BY <1>2, <2>1, GotoType DEF TypeOK
<1>6. rows' \in [DeliveryId -> Row]
  <2>1. CASE won
    <3>1. rows[e.id] \in LiveRow
      BY <1>3, <2>1, LiveRows DEF TypeOK
    <3>2. [rows[e.id] EXCEPT !.status = "in_progress", !.lease = me.clock] \in Row
      <4>1. me.clock \in Nat
        BY <1>1 DEF Local
      <4> QED
        BY <3>1, <4>1, ClaimedType DEF Row, Status
    <3> QED
      BY <1>2, <2>1, <3>2 DEF TypeOK
  <2>2. CASE ~won
    BY <1>2, <2>2 DEF TypeOK
  <2> QED
    BY <2>1, <2>2
<1>7. holder' \in [DeliveryId -> Worker \cup {Nobody}]
  BY <1>2, <1>3 DEF TypeOK
<1> QED
  BY <1>5, <1>6, <1>7 DEF ClaimCas, TypeOK

LEMMA ResolveType ==
  ASSUME TypeOK, NEW w \in Worker,
         Resolve(w) \/ ResolveFails(w) \/ ResolveUnsealable(w) \/ UrlBlocked(w)
  PROVE  TypeOK'
<1> DEFINE me == workers[w]
<1>1. me \in Local
  BY DEF TypeOK
<1>2. CASE Resolve(w)
  <2>1. PICK e \in me.batch :
          \/ Goto(w, [me EXCEPT !.phase = "send"])
          \/ /\ e.hook \in Registered
             /\ Goto(w, [me EXCEPT !.phase = "send", !.seen[e.hook] = hooks[e.hook].reg])
    BY <1>2 DEF Resolve
  <2>2. [me EXCEPT !.phase = "send"] \in Local
    BY <1>1 DEF Local, Phase
  <2>3. ASSUME e.hook \in Registered
        PROVE  [me EXCEPT !.phase = "send", !.seen[e.hook] = hooks[e.hook].reg] \in Local
    <3>1. hooks[e.hook].reg \in 0..MaxRegs
      BY <2>3 DEF Registered, TypeOK, Hook
    <3> QED
      BY <1>1, <3>1 DEF Local, Phase
  <2>4. workers' \in [Worker -> Local]
    BY <2>1, <2>2, <2>3, GotoType DEF TypeOK
  <2> QED
    BY <1>2, <2>4, LocalStepType DEF Resolve
<1>3. CASE ResolveFails(w) \/ ResolveUnsealable(w) \/ UrlBlocked(w)
  <2>1. /\ [me EXCEPT !.phase = "mark", !.verdict = "fail"] \in Local
        /\ [me EXCEPT !.phase = "mark", !.verdict = "unsealable"] \in Local
    BY <1>1 DEF Local, Phase
  <2>2. workers' \in [Worker -> Local]
    BY <1>3, <2>1, GotoType DEF ResolveFails, ResolveUnsealable, UrlBlocked, TypeOK
  <2> QED
    BY <1>3, <2>2, LocalStepType DEF ResolveFails, ResolveUnsealable, UrlBlocked
<1> QED
  BY <1>2, <1>3

LEMMA PostType ==
  ASSUME TypeOK, NEW w \in Worker, NEW answer \in {"ok", "fail"}, Post(w, answer)
  PROVE  TypeOK'
<1> DEFINE me == workers[w]
<1>1. me \in Local
  BY DEF TypeOK
<1>2. PICK e \in me.batch :
        /\ posts' = [posts EXCEPT ![e.serial] = IF @ < PostCap THEN @ + 1 ELSE @]
        /\ acked' = IF answer = "ok" THEN acked \cup {<< e.serial, me.seen[e.hook] >>} ELSE acked
  BY DEF Post
<1>3. posts' \in [Serial -> Nat]
  <2>1. e.serial \in Serial
    BY <1>1 DEF Local, Snapshot
  <2>2. posts[e.serial] \in Nat
    BY <2>1 DEF TypeOK
  <2> QED
    <3>1. posts \in [Serial -> Nat] /\ posts[e.serial] + 1 \in Nat
      BY <2>2 DEF TypeOK
    <3> QED
      BY <1>2, <2>2, <3>1
<1>4. acked' \in SUBSET (Serial \X (0..MaxRegs))
  <2>1. me.seen[e.hook] \in 0..MaxRegs
    BY <1>1 DEF Local, Snapshot
  <2> QED
    BY <1>1, <1>2, <2>1 DEF TypeOK, Local, Snapshot
<1>5. [me EXCEPT !.phase = "mark", !.verdict = answer] \in Local
  BY <1>1 DEF Local, Phase
<1>6. workers' \in [Worker -> Local]
  BY <1>5, GotoType DEF Post, TypeOK
<1> QED
  BY <1>3, <1>4, <1>6 DEF Post, TypeOK, storeVars

LEMMA MarkType ==
  ASSUME TypeOK, NEW w \in Worker, Mark(w) \/ MarkFails(w)
  PROVE  TypeOK'
<1> DEFINE me == workers[w]
<1>1. me \in Local
  BY DEF TypeOK
<1>2. PICK e \in me.batch :
        /\ Goto(w, NextDelivery([me EXCEPT !.batch = @ \ {e}, !.verdict = "none"]))
        /\ Mark(w) =>
             LET hit == rows[e.id].status = "in_progress" IN
             /\ rows' = IF hit THEN [rows EXCEPT ![e.id] = Marked(@, e, me.verdict)] ELSE rows
             /\ holder' = IF hit THEN [holder EXCEPT ![e.id] = Nobody] ELSE holder
  BY DEF Mark, MarkFails
<1>3. e \in Snapshot /\ e.id \in DeliveryId
  BY <1>1 DEF Local, Snapshot
<1>4. workers' \in [Worker -> Local]
  <2>1. [me EXCEPT !.batch = @ \ {e}, !.verdict = "none"] \in Local
    BY <1>1 DEF Local
  <2> QED
    BY <1>2, <2>1, NextDeliveryType, GotoType DEF TypeOK
<1>5. CASE Mark(w)
  <2>1. rows' \in [DeliveryId -> Row]
    <3>1. CASE rows[e.id].status = "in_progress"
      <4>1. rows[e.id] \in LiveRow
        BY <1>3, <3>1, LiveRows DEF TypeOK
      <4>2. me.verdict \in {"none", "ok", "fail", "unsealable"}
        BY <1>1 DEF Local
      <4>3. Marked(rows[e.id], e, me.verdict) \in Row
        BY <1>3, <4>1, <4>2, MarkedType DEF Row
      <4> QED
        BY <1>2, <1>5, <3>1, <4>3 DEF TypeOK
    <3>2. CASE rows[e.id].status # "in_progress"
      BY <1>2, <1>5, <3>2 DEF TypeOK
    <3> QED
      BY <3>1, <3>2
  <2>2. holder' \in [DeliveryId -> Worker \cup {Nobody}]
    BY <1>2, <1>3, <1>5 DEF TypeOK
  <2> QED
    BY <1>4, <1>5, <2>1, <2>2 DEF Mark, TypeOK
<1>6. CASE MarkFails(w)
  BY <1>4, <1>6, LocalStepType DEF MarkFails
<1> QED
  BY <1>5, <1>6

LEMMA CrashType ==
  ASSUME TypeOK, NEW w \in Worker, Crash(w) \/ Restart(w)
  PROVE  TypeOK'
<1>1. [AtRest EXCEPT !.phase = "down"] \in Local
  BY ConstantTypes DEF Local, Phase
<1>2. workers' \in [Worker -> Local]
  BY <1>1, ConstantTypes, GotoType DEF Crash, Restart, TypeOK
<1> QED
  BY <1>2, LocalStepType DEF Crash, Restart

LEMMA TickType ==
  ASSUME TypeOK, Tick
  PROVE  TypeOK'
<1>1. \A n \in Nat : Older(n) \in Nat /\ Sooner(n) \in Nat
  BY OutboxAssumption DEF Older, Sooner
<1>2. rows' \in [DeliveryId -> Row]
  <2>1. ASSUME NEW d \in DeliveryId
        PROVE  [rows[d] EXCEPT !.wait = Sooner(@),
                               !.lease = IF @ = NoLease THEN @ ELSE Older(@)] \in Row
    <3>1. CASE rows[d] = NoRow
      <4>1. [NoRow EXCEPT !.wait = Sooner(@),
                          !.lease = IF @ = NoLease THEN @ ELSE Older(@)] = NoRow
        BY DEF NoRow, Sooner
      <4> QED
        BY <3>1, <4>1 DEF Row
    <3>2. CASE rows[d] \in LiveRow
      <4>1. Sooner(rows[d].wait) \in Nat
        BY <1>1, <3>2 DEF LiveRow
      <4>2. (IF rows[d].lease = NoLease THEN rows[d].lease ELSE Older(rows[d].lease))
              \in Nat \cup {NoLease}
        BY <1>1, <3>2 DEF LiveRow
      <4>3. ASSUME NEW m \in Nat, NEW n \in Nat \cup {NoLease}
            PROVE  [rows[d] EXCEPT !.wait = m, !.lease = n] \in LiveRow
        BY <3>2 DEF LiveRow
      <4> QED
        BY <4>1, <4>2, <4>3 DEF Row
    <3> QED
      BY <3>1, <3>2 DEF TypeOK, Row
  <2> QED
    BY <2>1 DEF Tick
<1>3. workers' \in [Worker -> Local]
  <2>1. ASSUME NEW w \in Worker
        PROVE  [workers[w] EXCEPT !.clock = Older(@)] \in Local
    <3>1. workers[w] \in Local
      BY DEF TypeOK
    <3>2. Older(workers[w].clock) \in Nat
      BY <1>1, <3>1 DEF Local
    <3> QED
      BY <3>1, <3>2 DEF Local
  <2> QED
    BY <2>1 DEF Tick, TypeOK
<1> QED
  BY <1>2, <1>3 DEF Tick, TypeOK, historyVars

LEMMA InitType == Init => TypeOK
<1> SUFFICES ASSUME Init PROVE TypeOK
  OBVIOUS
<1>1. hooks \in [HookId -> Hook]
  <2>1. PICK subs \in [HookId -> Subscription] :
          hooks = [h \in HookId |-> IF h <= InitialRegs
                                    THEN [reg |-> h, enabled |-> TRUE, subs |-> subs[h]]
                                    ELSE NoHook]
    BY DEF Init
  <2>2. ASSUME NEW h \in HookId
        PROVE  [reg |-> h, enabled |-> TRUE, subs |-> subs[h]] \in Hook
    BY OutboxAssumption DEF Hook, HookId, Subscription
  <2> QED
    BY <2>1, <2>2, ConstantTypes
<1> QED
  BY <1>1, ConstantTypes, OutboxAssumption DEF Init, TypeOK, Row

LEMMA StepType == TypeOK /\ [Next]_vars => TypeOK'
<1> SUFFICES ASSUME TypeOK, [Next]_vars PROVE TypeOK'
  OBVIOUS
<1>1. CASE Request
  BY <1>1, CreateWebhookType, SetWebhookEnabledType, DeleteWebhookType, CommitChangeType
  DEF Request
<1>2. ASSUME NEW w \in Worker, WorkerStep(w) PROVE TypeOK'
  BY <1>2, ReclaimType, ClaimType, ClaimCasType, ResolveType, PostType, MarkType, CrashType
  DEF WorkerStep
<1>3. ASSUME NEW w \in Worker, WorkerFault(w) PROVE TypeOK'
  BY <1>3, ReclaimType, ClaimType, MarkType, CrashType DEF WorkerFault
<1>4. CASE Tick
  BY <1>4, TickType
<1>5. CASE UNCHANGED vars
  BY <1>5 DEF vars, TypeOK
<1> QED
  BY <1>1, <1>2, <1>3, <1>4, <1>5 DEF Next

(* Every table, batch and history variable stays well formed: claimed      *)
(* entries always name a row id and a webhook id the tables can hold.      *)
THEOREM TypeCorrect == Spec => []TypeOK
<1> QED
  BY InitType, StepType, PTL DEF Spec

----------------------------------------------------------------------------
(* Everything a step can do to one row, r becoming q.                      *)

Kept(r, q) ==
  SameRow(r, q) /\ q.hook = r.hook /\ (r.lease = NoLease <=> q.lease = NoLease)

Enqueued(r, q) ==
  /\ r.status = "absent" /\ q.status = "pending"
  /\ q.attempts = 0 /\ q.lease = NoLease
  /\ q.serial > inserted /\ q.serial <= inserted'

Reclaimed(r, q) ==
  /\ r.status = "in_progress" /\ q.status = "pending"
  /\ q.serial = r.serial /\ q.hook = r.hook
  /\ q.attempts = r.attempts /\ q.lease = NoLease

Claimed(r, q) ==
  /\ r.status = "pending" /\ q.status = "in_progress"
  /\ q.serial = r.serial /\ q.hook = r.hook
  /\ q.attempts = r.attempts /\ q.lease # NoLease

Recorded(r, q) ==
  /\ r.status = "in_progress" /\ q.status \in {"pending", "delivered", "dead"}
  /\ q.serial = r.serial /\ q.hook = r.hook
  /\ q.attempts = r.attempts + 1 /\ q.lease = NoLease

RowStep(r, q) ==
  \/ Kept(r, q) \/ Enqueued(r, q) \/ Reclaimed(r, q)
  \/ Claimed(r, q) \/ Recorded(r, q) \/ (q = NoRow /\ Request)

LEMMA CommitChangeRows ==
  ASSUME TypeOK, NEW kind \in Kind, CommitChange(kind), NEW d \in DeliveryId
  PROVE  Kept(rows[d], rows'[d]) \/ Enqueued(rows[d], rows'[d])
<1>0. PICK k \in 1..MaxRegs, last \in 0..MaxRows :
        \E ms \in [1..k -> MatchForEvent(kind)] :
          /\ IsLastId(last, Live)
          /\ inserted' = inserted + k
          /\ rows' = [c \in DeliveryId |->
                       IF c \in last + 1 .. last + k
                       THEN [status |-> "pending", hook |-> ms[c - last],
                             serial |-> inserted + (c - last),
                             attempts |-> 0, wait |-> 0, lease |-> NoLease]
                       ELSE rows[c]]
  BY DEF CommitChange
<1>1. PICK ms \in [1..k -> MatchForEvent(kind)] :
        /\ IsLastId(last, Live)
        /\ inserted' = inserted + k
        /\ rows' = [c \in DeliveryId |->
                     IF c \in last + 1 .. last + k
                     THEN [status |-> "pending", hook |-> ms[c - last],
                           serial |-> inserted + (c - last),
                           attempts |-> 0, wait |-> 0, lease |-> NoLease]
                     ELSE rows[c]]
  BY <1>0
<1>2. CASE d \in last + 1 .. last + k
  <2>1. d \notin Live
    BY <1>1, <1>2 DEF IsLastId, DeliveryId, Live
  <2> QED
    BY <1>1, <1>2, <2>1 DEF Enqueued, Live, TypeOK, DeliveryId
<1>3. CASE d \notin last + 1 .. last + k
  BY <1>1, <1>3 DEF Kept, SameRow
<1> QED
  BY <1>2, <1>3

LEMMA TickRows ==
  ASSUME TypeOK, Tick, NEW d \in DeliveryId
  PROVE  Kept(rows[d], rows'[d])
<1>1. rows'[d] = [rows[d] EXCEPT !.wait = Sooner(@),
                                 !.lease = IF @ = NoLease THEN @ ELSE Older(@)]
  BY DEF Tick
<1>2. CASE rows[d] = NoRow
  BY <1>1, <1>2 DEF NoRow, Kept, SameRow
<1>3. CASE rows[d] \in LiveRow
  <2>1. rows[d].lease \in Nat => Older(rows[d].lease) \in Nat
    BY OutboxAssumption DEF Older
  <2>2. rows[d].lease \in Nat \cup {NoLease}
    BY <1>3 DEF LiveRow
  <2>3. rows'[d].lease = NoLease <=> rows[d].lease = NoLease
    BY <1>1, <1>3, <2>1, <2>2 DEF LiveRow, NoLease
  <2>4. SameRow(rows[d], rows'[d]) /\ rows'[d].hook = rows[d].hook
    BY <1>1, <1>3 DEF LiveRow, SameRow
  <2> QED
    BY <2>3, <2>4 DEF Kept
<1> QED
  BY <1>2, <1>3 DEF TypeOK, Row

LEMMA ReclaimRows ==
  ASSUME TypeOK, NEW w \in Worker, Reclaim(w), NEW d \in DeliveryId
  PROVE  Kept(rows[d], rows'[d]) \/ Reclaimed(rows[d], rows'[d])
<1>1. CASE IsStale(rows[d])
  <2>1. rows[d] \in LiveRow
    BY <1>1, LiveRows DEF IsStale, TypeOK
  <2> QED
    BY <1>1, <2>1 DEF Reclaim, Reclaimed, IsStale, LiveRow
<1>2. CASE ~IsStale(rows[d])
  BY <1>2 DEF Reclaim, Kept, SameRow
<1> QED
  BY <1>1, <1>2

(* A claim: exactly the entry's row changes, if it is pending.             *)
LEMMA ClaimCasRows ==
  ASSUME TypeOK, NEW w \in Worker, ClaimCas(w)
  PROVE  \E e \in workers[w].cand :
           /\ workers'[w].cand \subseteq workers[w].cand
           /\ workers'[w].batch \subseteq workers[w].batch \cup {e}
           /\ e \in workers'[w].batch =>
                e \in workers[w].batch \/ rows'[e.id].status = "in_progress"
           /\ workers'[w].phase \in {"cas", "deliver", "idle"}
           /\ workers'[w].phase = "idle" => workers'[w].batch = {}
           /\ \A v \in Worker : v # w => workers'[v] = workers[v]
           /\ \A d \in DeliveryId :
                \/ rows'[d] = rows[d]
                \/ d = e.id /\ Claimed(rows[d], rows'[d])
<1> DEFINE me == workers[w]
<1>1. me \in Local
  BY DEF TypeOK
<1>2. PICK e \in me.cand :
        LET won  == rows[e.id].status = "pending"
            left == [me EXCEPT !.cand = @ \ {e},
                               !.batch = IF won THEN @ \cup {e} ELSE @]
        IN /\ rows' = IF won
                      THEN [rows EXCEPT ![e.id] =
                             [@ EXCEPT !.status = "in_progress", !.lease = me.clock]]
                      ELSE rows
           /\ Goto(w, IF left.cand = {} THEN NextDelivery(left) ELSE left)
  BY DEF ClaimCas
<1> DEFINE won  == rows[e.id].status = "pending"
           left == [me EXCEPT !.cand = @ \ {e}, !.batch = IF won THEN @ \cup {e} ELSE @]
           next == IF left.cand = {} THEN NextDelivery(left) ELSE left
<1>3. e \in Snapshot /\ e.id \in DeliveryId /\ me.clock \in Nat
  BY <1>1 DEF Local, Snapshot
<1>4. /\ left.cand \subseteq me.cand
      /\ left.batch \subseteq me.batch \cup {e}
      /\ e \in left.batch => e \in me.batch \/ won
      /\ left.phase = "cas"
      /\ left \in Local
  BY <1>1, <1>3 DEF Local, ClaimCas
<1>5. /\ next.cand \subseteq left.cand
      /\ next.batch \subseteq left.batch
      /\ next.phase \in {"cas", "deliver", "idle"}
      /\ next.phase = "idle" => next.batch = {}
  <2> HIDE DEF left
  <2> QED
    BY <1>4 DEF NextDelivery, AtRest, Local
<1>6. workers'[w] = next /\ \A v \in Worker : v # w => workers'[v] = workers[v]
  BY <1>2 DEF Goto, TypeOK
<1>7. ASSUME NEW d \in DeliveryId
      PROVE  rows'[d] = rows[d] \/ (d = e.id /\ Claimed(rows[d], rows'[d]))
  <2>1. CASE won /\ d = e.id
    <3>1. rows[d] \in LiveRow
      BY <2>1, LiveRows DEF TypeOK
    <3>2. rows'[d] = [rows[d] EXCEPT !.status = "in_progress", !.lease = me.clock]
      BY <1>2, <1>3, <2>1 DEF TypeOK
    <3> QED
      BY <1>3, <2>1, <3>1, <3>2 DEF Claimed, LiveRow, NoLease
  <2>2. CASE ~(won /\ d = e.id)
    BY <1>2, <1>3, <2>2 DEF TypeOK
  <2> QED
    BY <2>1, <2>2
<1>8. won => rows'[e.id].status = "in_progress"
  <2> SUFFICES ASSUME won PROVE rows'[e.id].status = "in_progress"
    OBVIOUS
  <2>1. rows[e.id] \in LiveRow
    BY LiveRows, <1>3 DEF TypeOK
  <2>2. rows'[e.id] = [rows[e.id] EXCEPT !.status = "in_progress", !.lease = me.clock]
    BY <1>2, <1>3 DEF TypeOK
  <2> QED
    BY <2>1, <2>2 DEF LiveRow
<1> HIDE DEF left, next, won
<1> QED
  BY <1>4, <1>5, <1>6, <1>7, <1>8

(* An outcome: exactly the entry's row changes, if it is in progress, and  *)
(* it is tried again only if the entry has an attempt left.                *)
LEMMA MarkRows ==
  ASSUME TypeOK, NEW w \in Worker, Mark(w)
  PROVE  \E e \in workers[w].batch :
           /\ IsFirst(e, workers[w].batch)
           /\ workers'[w].cand \subseteq workers[w].cand
           /\ workers'[w].batch \subseteq workers[w].batch \ {e}
           /\ workers'[w].phase \in {"deliver", "idle"}
           /\ workers'[w].phase = "idle" => workers'[w].batch = {}
           /\ \A v \in Worker : v # w => workers'[v] = workers[v]
           /\ \A d \in DeliveryId :
                \/ rows'[d] = rows[d]
                \/ /\ d = e.id /\ Recorded(rows[d], rows'[d])
                   /\ rows'[d].status = "pending" => e.attempts + 1 < MaxAttempts
                   /\ rows'[d].status = "delivered" => workers[w].verdict = "ok"
<1> DEFINE me == workers[w]
<1>1. me \in Local
  BY DEF TypeOK
<1>2. PICK e \in me.batch :
        LET hit == rows[e.id].status = "in_progress" IN
        /\ IsFirst(e, me.batch)
        /\ rows' = IF hit THEN [rows EXCEPT ![e.id] = Marked(@, e, me.verdict)] ELSE rows
        /\ Goto(w, NextDelivery([me EXCEPT !.batch = @ \ {e}, !.verdict = "none"]))
  BY DEF Mark
<1> DEFINE left == [me EXCEPT !.batch = @ \ {e}, !.verdict = "none"]
<1>3. e \in Snapshot /\ e.id \in DeliveryId
  BY <1>1 DEF Local, Snapshot
<1>4. left \in Local /\ left.batch \subseteq me.batch \ {e} /\ left.cand = me.cand
  BY <1>1 DEF Local
<1>5. /\ NextDelivery(left).batch \subseteq left.batch
      /\ NextDelivery(left).cand \subseteq left.cand
      /\ NextDelivery(left).phase \in {"deliver", "idle"}
      /\ NextDelivery(left).phase = "idle" => NextDelivery(left).batch = {}
  <2> HIDE DEF left
  <2> QED
    BY <1>4 DEF NextDelivery, AtRest, Local
<1>6. workers'[w] = NextDelivery(left) /\ \A v \in Worker : v # w => workers'[v] = workers[v]
  BY <1>2 DEF Goto, TypeOK
<1>7. ASSUME NEW d \in DeliveryId
      PROVE  \/ rows'[d] = rows[d]
             \/ /\ d = e.id /\ Recorded(rows[d], rows'[d])
                /\ rows'[d].status = "pending" => e.attempts + 1 < MaxAttempts
                /\ rows'[d].status = "delivered" => me.verdict = "ok"
  <2>1. CASE rows[e.id].status = "in_progress" /\ d = e.id
    <3>1. rows[d] \in LiveRow
      BY <2>1, LiveRows DEF TypeOK
    <3>2. rows'[d] = Marked(rows[d], e, me.verdict)
      BY <1>2, <1>3, <2>1 DEF TypeOK
    <3>3. me.verdict \in {"none", "ok", "fail", "unsealable"}
      BY <1>1 DEF Local
    <3> QED
      BY <1>3, <2>1, <3>1, <3>2, <3>3, MarkedAttempts DEF Recorded
  <2>2. CASE ~(rows[e.id].status = "in_progress" /\ d = e.id)
    BY <1>2, <1>3, <2>2 DEF TypeOK
  <2> QED
    BY <2>1, <2>2
<1> HIDE DEF left
<1> QED
  BY <1>2, <1>4, <1>5, <1>6, <1>7

LEMMA NextRows ==
  ASSUME TypeOK, [Next]_vars, NEW d \in DeliveryId
  PROVE  RowStep(rows[d], rows'[d])
<1>1. \A r : Kept(r, r)
  BY DEF Kept, SameRow
<1>2. CASE Request
  <2>1. ASSUME NEW h \in HookId, DeleteWebhook(h)
        PROVE  rows'[d] = rows[d] \/ rows'[d] = NoRow
    BY <2>1 DEF DeleteWebhook
  <2>2. ASSUME NEW h \in HookId, NEW on \in BOOLEAN, SetWebhookEnabled(h, on)
        PROVE  rows' = rows
    BY <2>2 DEF SetWebhookEnabled
  <2>3. ASSUME NEW subs \in Subscription, CreateWebhook(subs)
        PROVE  rows' = rows
    BY <2>3 DEF CreateWebhook
  <2> QED
    BY <1>1, <1>2, <2>1, <2>2, <2>3, CommitChangeRows DEF Request, RowStep
<1>3. ASSUME NEW w \in Worker, WorkerStep(w) \/ WorkerFault(w)
      PROVE  RowStep(rows[d], rows'[d])
  <2>1. CASE Reclaim(w)
    BY <2>1, ReclaimRows DEF RowStep
  <2>2. CASE ClaimCas(w)
    BY <1>1, <2>2, ClaimCasRows DEF RowStep
  <2>3. CASE Mark(w)
    BY <1>1, <2>3, MarkRows DEF RowStep
  <2>4. CASE \/ ClaimSelect(w) \/ Resolve(w) \/ ResolveFails(w) \/ ResolveUnsealable(w)
             \/ UrlBlocked(w) \/ (\E answer \in {"ok", "fail"} : Post(w, answer))
             \/ Restart(w) \/ WorkerFault(w)
    <3>1. rows' = rows
      BY <2>4 DEF ClaimSelect, Resolve, ResolveFails, ResolveUnsealable, UrlBlocked, Post,
                  Restart, WorkerFault, ReclaimFails, ClaimFails, MarkFails, Crash, storeVars
    <3> QED
      BY <1>1, <3>1 DEF RowStep
  <2> QED
    BY <1>3, <2>1, <2>2, <2>3, <2>4 DEF WorkerStep
<1>4. CASE Tick
  BY <1>4, TickRows DEF RowStep
<1>5. CASE UNCHANGED vars
  BY <1>1, <1>5 DEF vars, RowStep
<1> QED
  BY <1>2, <1>3, <1>4, <1>5 DEF Next

----------------------------------------------------------------------------
LEMMA LeaseStep ==
  TypeOK /\ LeaseIffInProgress /\ [Next]_vars => LeaseIffInProgress'
<1> SUFFICES ASSUME TypeOK, LeaseIffInProgress, [Next]_vars, NEW d \in DeliveryId
             PROVE  rows'[d].lease # NoLease <=> rows'[d].status = "in_progress"
  BY DEF LeaseIffInProgress
<1>1. RowStep(rows[d], rows'[d])
  BY NextRows
<1>2. rows[d].lease # NoLease <=> rows[d].status = "in_progress"
  BY DEF LeaseIffInProgress
<1>3. CASE rows'[d] = NoRow
  BY <1>3 DEF NoRow
<1>4. CASE rows'[d] # NoRow
  BY <1>1, <1>2, <1>4 DEF RowStep, Kept, SameRow, Enqueued, Reclaimed, Claimed, Recorded
<1> QED
  BY <1>3, <1>4

(* claimed_at is set exactly while a row is in progress, with any number   *)
(* of workers and whatever fails: ReclaimStale misses no row in progress   *)
(* and touches no other one.                                               *)
THEOREM LeaseCorrect == Spec => []LeaseIffInProgress
<1>1. Init => LeaseIffInProgress
  BY DEF Init, LeaseIffInProgress, NoRow
<1> QED
  BY <1>1, LeaseStep, TypeCorrect, PTL DEF Spec

LEMMA SettledStep ==
  ASSUME TypeOK, [Next]_vars
  PROVE  \A d \in DeliveryId :
           Settled(rows[d]) => SameRow(rows[d], rows'[d]) \/ rows'[d] = NoRow
<1> SUFFICES ASSUME NEW d \in DeliveryId, Settled(rows[d])
             PROVE  SameRow(rows[d], rows'[d]) \/ rows'[d] = NoRow
  OBVIOUS
<1>1. RowStep(rows[d], rows'[d])
  BY NextRows
<1> QED
  BY <1>1 DEF RowStep, Kept, Enqueued, Reclaimed, Claimed, Recorded, Settled

(* delivered and dead are final for any number of workers: an outcome      *)
(* recorded under a lost claim, a reclaim or a claim never revives a row.  *)
THEOREM SettledCorrect == Spec => SettledIsFinal
<1>1. TypeOK /\ [Next]_vars =>
        [\A d \in DeliveryId :
           Settled(rows[d]) => SameRow(rows[d], rows'[d]) \/ rows'[d] = NoRow]_rows
  BY SettledStep
<1> QED
  BY <1>1, TypeCorrect, PTL DEF Spec, SettledIsFinal

----------------------------------------------------------------------------
(* Claims, with any number of workers: holder and status agree, so the     *)
(* status the compare-and-swap asks for stands for the claim itself.       *)
HeldIffInProgress ==
  \A d \in DeliveryId : holder[d] # Nobody <=> rows[d].status = "in_progress"

(* What a step does to one claim, h becoming g, as the row goes r to q.    *)
ClaimStep(h, g, r, q) ==
  \/ g = h /\ (r.status = "in_progress" <=> q.status = "in_progress")
  \/ g = Nobody /\ q.status # "in_progress"
  \/ g \in Worker /\ r.status = "pending" /\ q.status = "in_progress"

LEMMA RequestClaims ==
  ASSUME TypeOK, Request, NEW d \in DeliveryId
  PROVE  ClaimStep(holder[d], holder'[d], rows[d], rows'[d])
<1>1. ASSUME NEW h \in HookId, DeleteWebhook(h)
      PROVE  ClaimStep(holder[d], holder'[d], rows[d], rows'[d])
  BY <1>1 DEF DeleteWebhook, ClaimStep, NoRow
<1>2. ASSUME NEW kind \in Kind, CommitChange(kind)
      PROVE  ClaimStep(holder[d], holder'[d], rows[d], rows'[d])
  <2>1. holder' = holder
    BY <1>2, Zenon DEF CommitChange
  <2>2. Kept(rows[d], rows'[d]) \/ Enqueued(rows[d], rows'[d])
    BY <1>2, CommitChangeRows
  <2> QED
    BY <2>1, <2>2 DEF Kept, SameRow, Enqueued, ClaimStep
<1>3. ASSUME NEW h \in HookId, NEW on \in BOOLEAN, SetWebhookEnabled(h, on)
      PROVE  rows' = rows /\ holder' = holder
  BY <1>3 DEF SetWebhookEnabled, historyVars
<1>4. ASSUME NEW subs \in Subscription, CreateWebhook(subs)
      PROVE  rows' = rows /\ holder' = holder
  BY <1>4 DEF CreateWebhook
<1> QED
  BY <1>1, <1>2, <1>3, <1>4 DEF Request, ClaimStep

LEMMA ReclaimClaims ==
  ASSUME TypeOK, NEW w \in Worker, Reclaim(w), NEW d \in DeliveryId
  PROVE  ClaimStep(holder[d], holder'[d], rows[d], rows'[d])
<1>1. /\ rows'[d] = IF IsStale(rows[d])
                    THEN [rows[d] EXCEPT !.status = "pending", !.lease = NoLease] ELSE rows[d]
      /\ holder'[d] = IF IsStale(rows[d]) THEN Nobody ELSE holder[d]
  BY DEF Reclaim
<1>2. CASE IsStale(rows[d])
  <2>1. rows[d] \in LiveRow
    BY <1>2, LiveRows DEF IsStale, TypeOK
  <2>2. rows'[d].status = "pending"
    BY <1>1, <1>2, <2>1 DEF LiveRow
  <2> QED
    BY <1>1, <1>2, <2>2 DEF ClaimStep
<1> QED
  BY <1>1, <1>2 DEF ClaimStep

LEMMA ClaimCasClaims ==
  ASSUME TypeOK, NEW w \in Worker, ClaimCas(w), NEW d \in DeliveryId
  PROVE  ClaimStep(holder[d], holder'[d], rows[d], rows'[d])
<1>1. PICK e \in workers[w].cand :
        LET won == rows[e.id].status = "pending" IN
        /\ rows' = IF won
                   THEN [rows EXCEPT ![e.id] =
                          [@ EXCEPT !.status = "in_progress", !.lease = workers[w].clock]]
                   ELSE rows
        /\ holder' = IF won THEN [holder EXCEPT ![e.id] = w] ELSE holder
  BY DEF ClaimCas
<1>2. e.id \in DeliveryId /\ rows[d] \in Row /\ holder \in [DeliveryId -> Worker \cup {Nobody}]
      /\ rows \in [DeliveryId -> Row]
  BY DEF TypeOK, Local, Snapshot
<1>3. CASE rows[e.id].status = "pending" /\ d = e.id
  <2>1. rows[d] \in LiveRow
    BY <1>2, <1>3, LiveRows
  <2>2. rows'[d] = [rows[d] EXCEPT !.status = "in_progress", !.lease = workers[w].clock]
        /\ holder'[d] = w
    BY <1>1, <1>2, <1>3
  <2> QED
    BY <1>3, <2>1, <2>2 DEF LiveRow, ClaimStep
<1>4. CASE ~(rows[e.id].status = "pending" /\ d = e.id)
  BY <1>1, <1>2, <1>4 DEF ClaimStep
<1> QED
  BY <1>3, <1>4

LEMMA MarkClaims ==
  ASSUME TypeOK, NEW w \in Worker, Mark(w), NEW d \in DeliveryId
  PROVE  ClaimStep(holder[d], holder'[d], rows[d], rows'[d])
<1>1. PICK e \in workers[w].batch :
        LET hit == rows[e.id].status = "in_progress" IN
        /\ rows' = IF hit THEN [rows EXCEPT ![e.id] = Marked(@, e, workers[w].verdict)] ELSE rows
        /\ holder' = IF hit THEN [holder EXCEPT ![e.id] = Nobody] ELSE holder
  BY DEF Mark
<1>2. e.id \in DeliveryId /\ e \in Snapshot /\ rows[d] \in Row
      /\ holder \in [DeliveryId -> Worker \cup {Nobody}] /\ rows \in [DeliveryId -> Row]
  BY DEF TypeOK, Local, Snapshot
<1>3. CASE rows[e.id].status = "in_progress" /\ d = e.id
  <2>1. rows[d] \in LiveRow /\ workers[w].verdict \in {"none", "ok", "fail", "unsealable"}
    BY <1>2, <1>3, LiveRows DEF TypeOK, Local
  <2>2. rows'[d] = Marked(rows[d], e, workers[w].verdict) /\ holder'[d] = Nobody
    BY <1>1, <1>2, <1>3
  <2>3. rows'[d].status \in {"pending", "delivered", "dead"}
    BY <1>2, <2>1, <2>2, MarkedAttempts
  <2> QED
    BY <2>2, <2>3 DEF ClaimStep
<1>4. CASE ~(rows[e.id].status = "in_progress" /\ d = e.id)
  BY <1>1, <1>2, <1>4 DEF ClaimStep
<1> QED
  BY <1>3, <1>4

LEMMA NextClaims ==
  ASSUME TypeOK, [Next]_vars, NEW d \in DeliveryId
  PROVE  ClaimStep(holder[d], holder'[d], rows[d], rows'[d])
<1>1. rows' = rows /\ holder' = holder => ClaimStep(holder[d], holder'[d], rows[d], rows'[d])
  BY DEF ClaimStep
<1>2. ASSUME NEW w \in Worker, WorkerStep(w) \/ WorkerFault(w)
      PROVE  ClaimStep(holder[d], holder'[d], rows[d], rows'[d])
  <2>1. CASE \/ ClaimSelect(w) \/ Resolve(w) \/ ResolveFails(w) \/ ResolveUnsealable(w)
             \/ UrlBlocked(w) \/ (\E answer \in {"ok", "fail"} : Post(w, answer))
             \/ Restart(w) \/ WorkerFault(w)
    BY <1>1, <2>1
    DEF ClaimSelect, Resolve, ResolveFails, ResolveUnsealable, UrlBlocked, Post, Restart,
        WorkerFault, ReclaimFails, ClaimFails, MarkFails, Crash, storeVars, historyVars
  <2> QED
    BY <1>2, <2>1, ReclaimClaims, ClaimCasClaims, MarkClaims DEF WorkerStep
<1>3. CASE Tick
  <2>1. Kept(rows[d], rows'[d]) /\ holder' = holder
    BY <1>3, TickRows DEF Tick, historyVars
  <2> QED
    BY <2>1 DEF Kept, SameRow, ClaimStep
<1>4. CASE UNCHANGED vars
  BY <1>1, <1>4 DEF vars
<1> QED
  BY <1>2, <1>3, <1>4, RequestClaims DEF Next

LEMMA HeldInductive == Spec => []HeldIffInProgress
<1>1. Init => HeldIffInProgress
  BY DEF Init, HeldIffInProgress, NoRow
<1>2. ASSUME TypeOK, HeldIffInProgress, [Next]_vars
      PROVE  HeldIffInProgress'
  BY <1>2, NextClaims, OutboxAssumption DEF HeldIffInProgress, ClaimStep
<1> QED
  BY <1>1, <1>2, TypeCorrect, PTL DEF Spec

(* However many workers race for a row, none is handed one that another    *)
(* holds: the compare-and-swap asks for pending, and a pending row has no  *)
(* holder, because whatever leaves in_progress gives the claim up.         *)
THEOREM StolenCorrect == Spec => NoClaimStolen
<1>1. ASSUME TypeOK, HeldIffInProgress, [Next]_vars
      PROVE  [\A d \in DeliveryId :
                holder[d] # Nobody /\ holder'[d] # Nobody => holder'[d] = holder[d]]_holder
  BY <1>1, NextClaims DEF HeldIffInProgress, ClaimStep
<1> QED
  BY <1>1, HeldInductive, TypeCorrect, PTL DEF Spec, NoClaimStolen

----------------------------------------------------------------------------
(* One worker.  Why its snapshots can be trusted: an entry it has claimed  *)
(* is the only one of its row, was read before or at the claim, and the    *)
(* row it names is in progress or no longer the row it was.                *)

OneWorker == \A v, w \in Worker : v = w

SnapshotsFresh(w) ==
  LET me == workers[w] IN
  /\ me.phase \in {"idle", "select", "down"} => me.batch = {}
  /\ me.phase = "cas" =>
       \A e \in me.cand \cup me.batch :
         rows[e.id].status \in {"pending", "in_progress"} => rows[e.id].attempts <= e.attempts
  /\ \A e \in me.batch :
       rows[e.id].status = "in_progress" => rows[e.id].attempts <= e.attempts

SnapshotsDistinct(w) ==
  LET all == workers[w].cand \cup workers[w].batch IN
  /\ \A e, f \in all : e.id = f.id => e = f
  /\ \A e \in all : e.serial <= inserted

SingleInv ==
  /\ TypeOK
  /\ AttemptsBounded
  /\ WorksOnlyOnItsClaims
  /\ \A d \in DeliveryId : rows[d].serial <= inserted
  /\ \A w \in Worker : SnapshotsFresh(w) /\ SnapshotsDistinct(w)

(* The parts of SingleInv about one worker.                                *)
WorkerInv(w) ==
  /\ SnapshotsFresh(w) /\ SnapshotsDistinct(w)
  /\ \A e \in workers[w].batch :
       rows[e.id].serial = e.serial => rows[e.id].status = "in_progress"

(* What a step leaves of a row that an entry e of worker w still names.    *)
LEMMA SerialsStep ==
  ASSUME TypeOK, [Next]_vars, \A d \in DeliveryId : rows[d].serial <= inserted
  PROVE  /\ inserted <= inserted'
         /\ \A d \in DeliveryId : rows'[d].serial <= inserted'
<1>1. inserted \in Nat /\ inserted' \in Nat
  BY StepType DEF TypeOK
<1>2. inserted <= inserted'
  <2>1. ASSUME NEW kind \in Kind, CommitChange(kind) PROVE inserted <= inserted'
    BY <1>1, <2>1 DEF CommitChange
  <2>2. CASE \A kind \in Kind : ~CommitChange(kind)
    <3>1. inserted' = inserted
      BY <2>2 DEF Next, vars, Request, CreateWebhook, SetWebhookEnabled, DeleteWebhook,
         WorkerStep, WorkerFault, Reclaim, ReclaimFails, ClaimSelect, ClaimCas, ClaimFails,
         Resolve, ResolveFails, ResolveUnsealable, UrlBlocked, Post, Mark, MarkFails,
         Crash, Restart, Tick, historyVars
    <3> QED
      BY <1>1, <3>1
  <2> QED
    BY <2>1, <2>2
<1>3. ASSUME NEW d \in DeliveryId PROVE rows'[d].serial <= inserted'
  <2>1. RowStep(rows[d], rows'[d])
    BY NextRows
  <2>2. rows[d].serial \in Nat
    BY OutboxAssumption DEF TypeOK, Row, LiveRow, NoRow, Serial
  <2>3. CASE rows'[d] = NoRow
    BY <1>1, <2>3 DEF NoRow
  <2>4. CASE rows'[d] # NoRow
    BY <1>1, <1>2, <2>1, <2>2, <2>4 DEF RowStep, Kept, SameRow, Enqueued, Reclaimed, Claimed, Recorded
  <2> QED
    BY <2>3, <2>4
<1> QED
  BY <1>2, <1>3

(* A step that takes nothing back and records nothing keeps every claimed  *)
(* entry's row as it is, replaces it by a younger one, or deletes it.      *)
LEMMA OthersStep ==
  ASSUME SingleInv, [Next]_vars, NEW w \in Worker,
         workers'[w].phase = workers[w].phase,
         workers'[w].cand = workers[w].cand,
         workers'[w].batch = workers[w].batch,
         \A d \in DeliveryId : \/ Kept(rows[d], rows'[d])
                               \/ Enqueued(rows[d], rows'[d])
                               \/ rows'[d] = NoRow
  PROVE  WorkerInv(w)'
<1> DEFINE all == workers[w].cand \cup workers[w].batch
<1>1. /\ TypeOK /\ SnapshotsFresh(w) /\ SnapshotsDistinct(w) /\ WorksOnlyOnItsClaims
      /\ inserted \in Nat /\ inserted' \in Nat /\ inserted <= inserted'
  BY StepType, SerialsStep DEF SingleInv, TypeOK
<1>2. ASSUME NEW e \in all
      PROVE  /\ e.id \in DeliveryId /\ e.serial \in Nat /\ e.attempts \in Nat
             /\ e.serial <= inserted
  <2>1. e \in Snapshot
    BY <1>1 DEF TypeOK, Local
  <2>2. e.id \in DeliveryId /\ e.serial \in Nat /\ e.attempts \in Nat
    BY <2>1 DEF Snapshot, Serial
  <2> QED
    BY <1>1, <2>2 DEF SnapshotsDistinct
<1>3. ASSUME NEW e \in all,
             rows[e.id].status \in {"pending", "in_progress"} => rows[e.id].attempts <= e.attempts
      PROVE  rows'[e.id].status \in {"pending", "in_progress"} => rows'[e.id].attempts <= e.attempts
  BY <1>2, <1>3 DEF Kept, SameRow, Enqueued, NoRow
<1>4. ASSUME NEW e \in all,
             rows[e.id].status = "in_progress" => rows[e.id].attempts <= e.attempts
      PROVE  rows'[e.id].status = "in_progress" => rows'[e.id].attempts <= e.attempts
  BY <1>2, <1>4 DEF Kept, SameRow, Enqueued, NoRow
<1>5. ASSUME NEW e \in workers[w].batch
      PROVE  rows'[e.id].serial = e.serial => rows'[e.id].status = "in_progress"
  <2>1. rows[e.id].serial = e.serial => rows[e.id].status = "in_progress"
    BY <1>1 DEF WorksOnlyOnItsClaims
  <2>2. e.id \in DeliveryId /\ e.serial \in Nat /\ e.serial <= inserted /\ e.serial # 0
    BY <1>1, <1>2 DEF TypeOK, Local, Snapshot, Serial
  <2>3. CASE Kept(rows[e.id], rows'[e.id])
    BY <2>1, <2>3 DEF Kept, SameRow
  <2>4. CASE Enqueued(rows[e.id], rows'[e.id])
    <3>1. rows'[e.id].serial > inserted
      BY <2>4 DEF Enqueued
    <3>2. rows'[e.id].serial # e.serial
      BY <1>1, <2>2, <3>1
    <3> QED
      BY <3>2
  <2>5. CASE rows'[e.id] = NoRow
    BY <2>2, <2>5 DEF NoRow
  <2> QED
    BY <2>2, <2>3, <2>4, <2>5
<1>6. SnapshotsFresh(w)'
  BY <1>1, <1>3, <1>4 DEF SnapshotsFresh
<1>7. SnapshotsDistinct(w)'
  <2>1. ASSUME NEW e \in all PROVE e.serial <= inserted'
    BY <1>1, <1>2
  <2> QED
    BY <1>1, <2>1 DEF SnapshotsDistinct
<1> QED
  BY <1>5, <1>6, <1>7 DEF WorkerInv

(* A step that leaves a worker without entries.                            *)
LEMMA EmptyHanded ==
  ASSUME NEW w \in Worker, workers'[w].cand = {}, workers'[w].batch = {}
  PROVE  WorkerInv(w)'
BY DEF WorkerInv, SnapshotsFresh, SnapshotsDistinct

LEMMA ClaimSelectInv ==
  ASSUME SingleInv, NEW w \in Worker, ClaimSelect(w)
  PROVE  WorkerInv(w)'
<1>1. CASE Candidates = {}
  <2>1. workers'[w] = AtRest
    BY <1>1 DEF ClaimSelect, Goto, SingleInv, TypeOK
  <2> QED
    BY <2>1, EmptyHanded DEF AtRest
<1>2. CASE Candidates # {}
  <2>1. workers'[w] = [workers[w] EXCEPT !.phase = "cas", !.cand = Candidates, !.clock = 0]
        /\ rows' = rows /\ inserted' = inserted
    BY <1>2 DEF ClaimSelect, Goto, SingleInv, TypeOK, storeVars, historyVars
  <2>2. workers[w] \in Local /\ workers[w].batch = {}
    BY DEF ClaimSelect, SingleInv, TypeOK, SnapshotsFresh
  <2>3. workers'[w].phase = "cas" /\ workers'[w].cand = Candidates /\ workers'[w].batch = {}
    BY <2>1, <2>2 DEF Local
  <2>4. ASSUME NEW e \in Candidates
        PROVE  /\ e.id \in DeliveryId /\ e.serial = rows[e.id].serial
               /\ e.attempts = rows[e.id].attempts
               /\ e = [id |-> e.id, serial |-> rows[e.id].serial,
                       hook |-> rows[e.id].hook, attempts |-> rows[e.id].attempts]
    <3>1. PICK d \in DeliveryId :
            e = [id |-> d, serial |-> rows[d].serial,
                 hook |-> rows[d].hook, attempts |-> rows[d].attempts]
      BY DEF Candidates, Due
    <3> QED
      BY <3>1
  <2>5. \A d \in DeliveryId : rows[d].attempts \in Nat
    BY DEF SingleInv, TypeOK, Row, LiveRow, NoRow
  <2>6. SnapshotsFresh(w)'
    BY <2>1, <2>3, <2>4, <2>5 DEF SnapshotsFresh
  <2>7. SnapshotsDistinct(w)'
    BY <2>1, <2>3, <2>4 DEF SnapshotsDistinct, SingleInv
  <2> QED
    BY <2>3, <2>6, <2>7 DEF WorkerInv
<1> QED
  BY <1>1, <1>2

LEMMA ClaimCasInv ==
  ASSUME SingleInv, NEW w \in Worker, ClaimCas(w)
  PROVE  WorkerInv(w)'
<1> DEFINE me == workers[w]
           all == me.cand \cup me.batch
<1>1. /\ TypeOK /\ SnapshotsFresh(w) /\ SnapshotsDistinct(w) /\ WorksOnlyOnItsClaims
      /\ me \in Local /\ me.phase = "cas" /\ inserted' = inserted
  BY DEF SingleInv, TypeOK, ClaimCas
<1>2. PICK e \in me.cand :
        /\ workers'[w].cand \subseteq me.cand
        /\ workers'[w].batch \subseteq me.batch \cup {e}
        /\ e \in workers'[w].batch => e \in me.batch \/ rows'[e.id].status = "in_progress"
        /\ workers'[w].phase \in {"cas", "deliver", "idle"}
        /\ workers'[w].phase = "idle" => workers'[w].batch = {}
        /\ \A d \in DeliveryId :
             rows'[d] = rows[d] \/ (d = e.id /\ Claimed(rows[d], rows'[d]))
  BY <1>1, ClaimCasRows
<1>3. workers'[w].cand \cup workers'[w].batch \subseteq all
  BY <1>2
<1>4. ASSUME NEW f \in all PROVE f.id \in DeliveryId
  BY <1>1 DEF Local, Snapshot
<1>5. ASSUME NEW f \in all
      PROVE  /\ rows'[f.id].status \in {"pending", "in_progress"} =>
                  rows'[f.id].attempts <= f.attempts
             /\ rows[f.id].status = "in_progress" => rows'[f.id].status = "in_progress"
             /\ rows'[f.id].serial = rows[f.id].serial
  BY <1>1, <1>2, <1>4 DEF SnapshotsFresh, Claimed
<1>6. SnapshotsFresh(w)'
  BY <1>2, <1>3, <1>5 DEF SnapshotsFresh
<1>7. SnapshotsDistinct(w)'
  BY <1>1, <1>3 DEF SnapshotsDistinct
<1>8. ASSUME NEW f \in workers'[w].batch, rows'[f.id].serial = f.serial
      PROVE  rows'[f.id].status = "in_progress"
  <2>1. CASE f \in me.batch
    BY <1>1, <1>5, <1>8, <2>1 DEF WorksOnlyOnItsClaims
  <2>2. CASE f \notin me.batch
    BY <1>2, <2>2
  <2> QED
    BY <2>1, <2>2
<1> QED
  BY <1>6, <1>7, <1>8 DEF WorkerInv

LEMMA MarkInv ==
  ASSUME SingleInv, NEW w \in Worker, Mark(w)
  PROVE  WorkerInv(w)'
<1> DEFINE me == workers[w]
<1>1. /\ TypeOK /\ SnapshotsFresh(w) /\ SnapshotsDistinct(w) /\ WorksOnlyOnItsClaims
      /\ me \in Local /\ inserted' = inserted
  BY DEF SingleInv, TypeOK, Mark
<1>2. PICK e \in me.batch :
        /\ workers'[w].cand \subseteq me.cand
        /\ workers'[w].batch \subseteq me.batch \ {e}
        /\ workers'[w].phase \in {"deliver", "idle"}
        /\ workers'[w].phase = "idle" => workers'[w].batch = {}
        /\ \A d \in DeliveryId : rows'[d] = rows[d] \/ d = e.id
  BY <1>1, MarkRows
<1>3. ASSUME NEW f \in workers'[w].batch
      PROVE  f \in me.batch /\ rows'[f.id] = rows[f.id]
  <2>1. f \in me.batch /\ f # e /\ f.id \in DeliveryId
    BY <1>1, <1>2 DEF Local, Snapshot
  <2>2. f.id # e.id
    BY <1>1, <2>1 DEF SnapshotsDistinct
  <2> QED
    BY <1>2, <2>1, <2>2
<1>4. SnapshotsFresh(w)'
  BY <1>1, <1>2, <1>3 DEF SnapshotsFresh
<1>5. SnapshotsDistinct(w)'
  BY <1>1, <1>2 DEF SnapshotsDistinct
<1> QED
  BY <1>1, <1>3, <1>4, <1>5 DEF WorkerInv, WorksOnlyOnItsClaims

(* The steps between a claim and its outcome, and an outcome that could    *)
(* not be recorded: rows are left alone and entries only go.               *)
LEMMA DeliverInv ==
  ASSUME SingleInv, NEW w \in Worker,
         \/ Resolve(w) \/ ResolveFails(w) \/ ResolveUnsealable(w) \/ UrlBlocked(w)
         \/ (\E answer \in {"ok", "fail"} : Post(w, answer)) \/ MarkFails(w)
  PROVE  WorkerInv(w)'
<1> DEFINE me == workers[w]
<1>1. /\ TypeOK /\ SnapshotsFresh(w) /\ SnapshotsDistinct(w) /\ WorksOnlyOnItsClaims
      /\ me \in Local
  BY DEF SingleInv, TypeOK
<1>2. rows' = rows /\ inserted' = inserted
  BY DEF Resolve, ResolveFails, ResolveUnsealable, UrlBlocked, Post, MarkFails,
         storeVars, historyVars
<1>3. /\ workers'[w].cand \subseteq me.cand
      /\ workers'[w].batch \subseteq me.batch
      /\ workers'[w].phase \in {"deliver", "send", "mark", "idle"}
      /\ workers'[w].phase = "idle" => workers'[w].batch = {}
  <2>1. CASE Resolve(w)
    <3>1. PICK e \in me.batch :
            \/ workers' = [workers EXCEPT ![w] = [me EXCEPT !.phase = "send"]]
            \/ workers' = [workers EXCEPT ![w] =
                             [me EXCEPT !.phase = "send", !.seen[e.hook] = hooks[e.hook].reg]]
      BY <2>1 DEF Resolve, Goto
    <3> DEFINE marked == [me.seen EXCEPT ![e.hook] = hooks[e.hook].reg]
    <3>2. workers'[w] = [me EXCEPT !.phase = "send"]
          \/ workers'[w] = [me EXCEPT !.phase = "send", !.seen = marked]
      BY <1>1, <3>1 DEF TypeOK
    <3> HIDE DEF marked
    <3> QED
      BY <1>1, <3>2 DEF Local
  <2>2. CASE ResolveFails(w) \/ ResolveUnsealable(w) \/ UrlBlocked(w)
    <3>1. PICK verdict \in {"fail", "unsealable"} :
            workers' = [workers EXCEPT ![w] = [me EXCEPT !.phase = "mark", !.verdict = verdict]]
      BY <2>2 DEF ResolveFails, ResolveUnsealable, UrlBlocked, Goto
    <3>2. workers'[w] = [me EXCEPT !.phase = "mark", !.verdict = verdict]
      BY <1>1, <3>1 DEF TypeOK
    <3> QED
      BY <1>1, <3>2 DEF Local
  <2>3. ASSUME NEW answer \in {"ok", "fail"}, Post(w, answer)
        PROVE  /\ workers'[w].cand = me.cand /\ workers'[w].batch = me.batch
               /\ workers'[w].phase = "mark"
    BY <1>1, <2>3 DEF Post, Goto, TypeOK, Local
  <2>4. CASE MarkFails(w)
    <3>1. PICK e \in me.batch :
            workers' = [workers EXCEPT ![w] =
                         NextDelivery([me EXCEPT !.batch = @ \ {e}, !.verdict = "none"])]
      BY <2>4 DEF MarkFails, Goto
    <3> DEFINE left == [me EXCEPT !.batch = @ \ {e}, !.verdict = "none"]
    <3>2. left \in Local /\ left.batch \subseteq me.batch /\ left.cand = me.cand
      BY <1>1 DEF Local
    <3>3. workers'[w] = NextDelivery(left)
      BY <1>1, <3>1 DEF TypeOK
    <3> HIDE DEF left
    <3> QED
      BY <3>2, <3>3 DEF NextDelivery, AtRest, Local
  <2> QED
    BY <2>1, <2>2, <2>3, <2>4
<1>4. SnapshotsFresh(w)'
  BY <1>1, <1>2, <1>3 DEF SnapshotsFresh
<1>5. SnapshotsDistinct(w)'
  BY <1>1, <1>2, <1>3 DEF SnapshotsDistinct
<1> QED
  BY <1>1, <1>2, <1>3, <1>4, <1>5 DEF WorkerInv, WorksOnlyOnItsClaims

LEMMA AttemptsStep ==
  ASSUME SingleInv, [Next]_vars, OneWorker
  PROVE  AttemptsBounded'
<1> SUFFICES ASSUME NEW d \in DeliveryId
             PROVE  /\ rows'[d].attempts <= MaxAttempts
                    /\ rows'[d].status \in {"pending", "in_progress"} =>
                         rows'[d].attempts < MaxAttempts
  BY DEF AttemptsBounded
<1>1. /\ TypeOK
      /\ rows[d].attempts \in Nat /\ MaxAttempts \in Nat \ {0}
      /\ rows[d].attempts <= MaxAttempts
      /\ rows[d].status \in {"pending", "in_progress"} => rows[d].attempts < MaxAttempts
  <2>1. TypeOK /\ AttemptsBounded
    BY DEF SingleInv
  <2>2. rows[d].attempts \in Nat
    BY <2>1 DEF TypeOK, Row, LiveRow, NoRow
  <2> QED
    BY <2>1, <2>2, OutboxAssumption DEF AttemptsBounded
<1>2. CASE Kept(rows[d], rows'[d])
  BY <1>1, <1>2 DEF Kept, SameRow
<1>3. CASE Enqueued(rows[d], rows'[d]) \/ rows'[d] = NoRow
  BY <1>1, <1>3 DEF Enqueued, NoRow
<1>4. CASE Reclaimed(rows[d], rows'[d]) \/ Claimed(rows[d], rows'[d])
  BY <1>1, <1>4 DEF Reclaimed, Claimed
<1>5. CASE /\ Recorded(rows[d], rows'[d])
           /\ ~Kept(rows[d], rows'[d])
  <2>1. rows'[d].attempts = rows[d].attempts + 1 /\ rows[d].status = "in_progress"
        /\ rows'[d].status \in {"pending", "delivered", "dead"}
    BY <1>5 DEF Recorded
  <2>2. PICK w \in Worker : Mark(w)
    <3>1. rows' # rows
      BY <1>1, <2>1
    <3>2. ~Enqueued(rows[d], rows'[d]) /\ ~Reclaimed(rows[d], rows'[d])
          /\ rows'[d] # NoRow /\ ~Claimed(rows[d], rows'[d])
      BY <1>1, <2>1 DEF Enqueued, Reclaimed, Claimed, NoRow
    <3>3. ASSUME NEW w \in Worker, ClaimCas(w) PROVE FALSE
      BY <1>1, <3>2, <3>3, <2>1, ClaimCasRows
    <3>4. ASSUME NEW w \in Worker, Reclaim(w) PROVE FALSE
      BY <1>1, <1>5, <3>2, <3>4, ReclaimRows
    <3>5. ~Tick
      BY <1>1, <1>5, TickRows
    <3>6. ~Request
      BY <1>1, <1>5, <3>1, <3>2, <2>1, CommitChangeRows
      DEF Request, CreateWebhook, SetWebhookEnabled, DeleteWebhook
    <3> QED
      BY <3>1, <3>3, <3>4, <3>5, <3>6
      DEF Next, vars, WorkerStep, WorkerFault, ReclaimFails, ClaimSelect, ClaimFails, Resolve,
          ResolveFails, ResolveUnsealable, UrlBlocked, Post, MarkFails, Crash, Restart, storeVars
  <2>3. PICK e \in workers[w].batch :
          rows'[d] = rows[d] \/ (d = e.id /\ (rows'[d].status = "pending" => e.attempts + 1 < MaxAttempts))
    BY <1>1, <2>2, MarkRows
  <2>4. d = e.id /\ (rows'[d].status = "pending" => e.attempts + 1 < MaxAttempts)
    BY <1>1, <2>1, <2>3
  <2>5. rows[d].attempts <= e.attempts /\ e.attempts \in Nat
    BY <1>1, <2>1, <2>4 DEF SingleInv, SnapshotsFresh, TypeOK, Local, Snapshot
  <2> QED
    BY <1>1, <2>1, <2>4, <2>5
<1> QED
  BY <1>1, <1>2, <1>3, <1>4, <1>5, NextRows DEF RowStep

LEMMA WorkerInvStep ==
  ASSUME SingleInv, [Next]_vars, OneWorker, NEW w \in Worker
  PROVE  WorkerInv(w)'
<1>1. TypeOK /\ workers \in [Worker -> Local]
  BY DEF SingleInv, TypeOK
<1>2. CASE UNCHANGED vars
  BY <1>2, OthersStep DEF vars, Kept, SameRow
<1>3. CASE Request
  <2>1. workers' = workers
    <3>1. ASSUME NEW subs \in Subscription, CreateWebhook(subs) PROVE workers' = workers
      BY <3>1 DEF CreateWebhook
    <3>2. ASSUME NEW h \in HookId, NEW on \in BOOLEAN, SetWebhookEnabled(h, on)
          PROVE  workers' = workers
      BY <3>2 DEF SetWebhookEnabled
    <3>3. ASSUME NEW h \in HookId, DeleteWebhook(h) PROVE workers' = workers
      BY <3>3 DEF DeleteWebhook
    <3>4. ASSUME NEW kind \in Kind, CommitChange(kind) PROVE workers' = workers
      BY <3>4, Zenon DEF CommitChange
    <3> QED
      BY <1>3, <3>1, <3>2, <3>3, <3>4 DEF Request
  <2>2. ASSUME NEW d \in DeliveryId
        PROVE  \/ Kept(rows[d], rows'[d])
               \/ Enqueued(rows[d], rows'[d])
               \/ rows'[d] = NoRow
    <3>1. CASE rows' = rows
      BY <3>1 DEF Kept, SameRow
    <3>2. ASSUME NEW kind \in Kind, CommitChange(kind)
          PROVE  Kept(rows[d], rows'[d]) \/ Enqueued(rows[d], rows'[d])
      BY <1>1, <3>2, CommitChangeRows
    <3>3. ASSUME NEW h \in HookId, DeleteWebhook(h)
          PROVE  Kept(rows[d], rows'[d]) \/ rows'[d] = NoRow
      BY <3>3 DEF DeleteWebhook, Kept, SameRow
    <3> QED
      BY <1>3, <3>1, <3>2, <3>3 DEF Request, CreateWebhook, SetWebhookEnabled
  <2> QED
    BY <2>1, <2>2, OthersStep
<1>4. CASE Tick
  <2>1. workers'[w].phase = workers[w].phase /\ workers'[w].cand = workers[w].cand
        /\ workers'[w].batch = workers[w].batch
    BY <1>1, <1>4 DEF Tick, Local
  <2>2. \A d \in DeliveryId : Kept(rows[d], rows'[d])
    BY <1>1, <1>4, TickRows
  <2> QED
    BY <2>1, <2>2, OthersStep
<1>5. ASSUME NEW v \in Worker, WorkerStep(v) \/ WorkerFault(v)
      PROVE  WorkerInv(w)'
  <2>1. v = w
    BY DEF OneWorker
  <2>2. CASE Reclaim(w) \/ ReclaimFails(w) \/ ClaimFails(w) \/ Crash(w) \/ Restart(w)
    <3>1. workers'[w].cand = {} /\ workers'[w].batch = {}
      <4>1. PICK phase \in Phase : workers' = [workers EXCEPT ![w] = [AtRest EXCEPT !.phase = phase]]
        BY <2>2 DEF Reclaim, ReclaimFails, ClaimFails, Crash, Restart, Goto, Phase, AtRest
      <4>2. workers'[w] = [AtRest EXCEPT !.phase = phase]
        BY <1>1, <4>1
      <4> QED
        BY <4>2 DEF AtRest
    <3> QED
      BY <3>1, EmptyHanded
  <2>3. CASE ClaimSelect(w)
    BY <2>3, ClaimSelectInv
  <2>4. CASE ClaimCas(w)
    BY <2>4, ClaimCasInv
  <2>5. CASE Mark(w)
    BY <2>5, MarkInv
  <2>6. CASE \/ Resolve(w) \/ ResolveFails(w) \/ ResolveUnsealable(w) \/ UrlBlocked(w)
             \/ (\E answer \in {"ok", "fail"} : Post(w, answer)) \/ MarkFails(w)
    BY <2>6, DeliverInv
  <2> QED
    BY <1>5, <2>1, <2>2, <2>3, <2>4, <2>5, <2>6 DEF WorkerStep, WorkerFault
<1> QED
  BY <1>2, <1>3, <1>4, <1>5 DEF Next

LEMMA SingleStep == OneWorker /\ SingleInv /\ [Next]_vars => SingleInv'
<1> SUFFICES ASSUME OneWorker, SingleInv, [Next]_vars PROVE SingleInv'
  OBVIOUS
<1>1. TypeOK'
  BY StepType DEF SingleInv
<1>2. AttemptsBounded'
  BY AttemptsStep
<1>3. \A d \in DeliveryId : rows'[d].serial <= inserted'
  BY SerialsStep DEF SingleInv
<1>4. \A w \in Worker : WorkerInv(w)'
  BY WorkerInvStep
<1> QED
  BY <1>1, <1>2, <1>3, <1>4 DEF SingleInv, WorkerInv, WorksOnlyOnItsClaims

LEMMA SingleInit == Init => SingleInv
<1> SUFFICES ASSUME Init PROVE SingleInv
  OBVIOUS
<1>1. AttemptsBounded /\ \A d \in DeliveryId : rows[d].serial <= inserted
  BY OutboxAssumption DEF Init, AttemptsBounded, NoRow
<1>2. \A w \in Worker : workers[w].cand = {} /\ workers[w].batch = {}
  BY DEF Init, AtRest
<1> QED
  BY <1>1, <1>2, InitType
  DEF SingleInv, WorksOnlyOnItsClaims, SnapshotsFresh, SnapshotsDistinct

(* One worker: no row is charged with more than MaxAttempts attempts, and  *)
(* a row still to be delivered has one left, although fail() counts from   *)
(* the snapshot of the claim and crashes, reclaims, deletions and reused   *)
(* row ids come in between.                                                *)
THEOREM AttemptsCorrect ==
  ASSUME OneWorker
  PROVE  Spec => []AttemptsBounded
<1>1. SingleInv /\ [Next]_vars => SingleInv'
  BY SingleStep
<1>2. SingleInv => AttemptsBounded
  BY DEF SingleInv
<1> QED
  BY <1>1, <1>2, SingleInit, PTL DEF Spec

(* One worker never works on a row it no longer holds: the row of every    *)
(* entry of its batch is in progress, or is not the row it claimed.        *)
THEOREM ClaimsCorrect ==
  ASSUME OneWorker
  PROVE  Spec => []WorksOnlyOnItsClaims
<1>1. SingleInv /\ [Next]_vars => SingleInv'
  BY SingleStep
<1>2. SingleInv => WorksOnlyOnItsClaims
  BY DEF SingleInv
<1> QED
  BY <1>1, <1>2, SingleInit, PTL DEF Spec
============================================================================
