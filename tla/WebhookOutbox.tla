--------------------------- MODULE WebhookOutbox ---------------------------
(***************************************************************************)
(* The webhook outbox of the Comax server: the tables webhooks and         *)
(* webhook_deliveries, the request handlers that write them, and the       *)
(* delivery workers that drain them (one goroutine per server process;     *)
(* Worker is a set because two processes may share a database during a     *)
(* rolling restart).                                                       *)
(*                                                                         *)
(* A handler is one transaction, hence one action: SQLite serialises       *)
(* writers.  The worker runs many separate statements, so each of them is  *)
(* an action of its own, and so is each POST.                              *)
(*                                                                         *)
(* Time.  The code only ever compares next_attempt_at with now and         *)
(* claimed_at with now - staleAfter.  The model keeps the two differences: *)
(* wait counts down to the moment a row is due and lease counts up from    *)
(* the claim, both saturating where no comparison can tell values apart,   *)
(* so that time itself needs no bound.                                     *)
(***************************************************************************)
EXTENDS Integers, FiniteSets

CONSTANTS
  Worker,        (* Delivery workers sharing the database.                 *)
  Nobody,        (* Not a worker.                                          *)
  Kind,          (* What a subscription tells apart: project, environment  *)
                 (* and event of a secret change.                          *)
  MaxAttempts,   (* Options.MaxAttempts                                    *)
  BatchSize,     (* Options.BatchSize                                      *)
  StaleAfter,    (* Options.StaleAfter, in clock ticks                     *)
  Backoff,       (* Options.Backoff, in clock ticks                        *)
  InitialRegs,   (* Webhooks registered before the behaviour starts.       *)
  MaxRegs,       (* Bound: registrations, the initial ones included.       *)
  MaxRows,       (* Bound: delivery rows ever inserted.                    *)
  MaxFaults      (* Bound: crashes and failed statements.                  *)

ASSUME OutboxAssumption ==
  /\ Nobody \notin Worker
  /\ MaxAttempts \in Nat \ {0}
  /\ BatchSize \in Nat \ {0}
  /\ StaleAfter \in Nat \ {0}
  /\ Backoff \in [1..MaxAttempts -> Nat]
  /\ InitialRegs \in Nat
  /\ MaxRegs \in Nat
  /\ InitialRegs <= MaxRegs
  /\ MaxRows \in Nat
  /\ MaxFaults \in Nat

VARIABLES
  hooks,         (* Table webhooks, by id.                                 *)
  rows,          (* Table webhook_deliveries, by id.                       *)
  workers,       (* Each worker's local state.                             *)
  (* History variables: no guard reads them, except for the bounds.        *)
  regs,          (* Registrations so far.                                  *)
  inserted,      (* Delivery rows inserted so far.                         *)
  born,          (* The row id and registration of the n-th row inserted.  *)
  posts,         (* POSTs made for the n-th row inserted, saturating.      *)
  acked,         (* <<n, g>>: registration g answered the n-th row's POST  *)
                 (* with a 2xx.                                            *)
  holder,        (* The worker whose claim a row in progress carries.      *)
  faults

storeVars   == << hooks, rows >>
historyVars == << regs, inserted, born, posts, acked, holder >>
vars == << hooks, rows, workers, regs, inserted, born, posts, acked, holder, faults >>

----------------------------------------------------------------------------
(* Ids are SQLite rowids: small, and handed out again once free.           *)
HookId     == 1..MaxRegs
DeliveryId == 1..MaxRows
Serial     == 1..MaxRows
PostCap    == MaxAttempts + 1
NoLease    == -1

Status == {"pending", "in_progress", "delivered", "dead"}
Phase  == {"idle", "select", "cas", "deliver", "send", "mark", "down"}

(* An empty event list subscribes to every event, so none is empty.        *)
Subscription == (SUBSET Kind) \ {{}}

Hook     == [reg : 0..MaxRegs, enabled : BOOLEAN, subs : SUBSET Kind]
LiveRow  == [status : Status, hook : HookId, serial : Serial,
             attempts : Nat, wait : Nat, lease : Nat \cup {NoLease}]
Snapshot == [id : DeliveryId, serial : Serial, hook : HookId, attempts : Nat]
Local    == [phase : Phase, clock : Nat, cand : SUBSET Snapshot, batch : SUBSET Snapshot,
             seen : [HookId -> 0..MaxRegs], verdict : {"none", "ok", "fail", "unsealable"}]

NoHook  == [reg |-> 0, enabled |-> FALSE, subs |-> {}]
NoRow   == [status |-> "absent", hook |-> 0, serial |-> 0,
            attempts |-> 0, wait |-> 0, lease |-> NoLease]
Row     == LiveRow \cup {NoRow}
AtRest  == [phase |-> "idle", clock |-> 0, cand |-> {}, batch |-> {},
            seen |-> [h \in HookId |-> 0], verdict |-> "none"]

Registered == {h \in HookId : hooks[h].reg # 0}
Live       == {d \in DeliveryId : rows[d].status # "absent"}
Due        == {d \in DeliveryId : rows[d].status = "pending" /\ rows[d].wait = 0}

(* The entry of a batch a worker takes next: rows are read ORDER BY id.    *)
IsFirst(e, S) == e \in S /\ \A f \in S : e.id <= f.id

(* The id SQLite hands out next is one more than the largest in use.       *)
IsLastId(n, S) == (n = 0 \/ n \in S) /\ \A i \in S : i <= n

Older(n) == IF n > StaleAfter THEN n ELSE n + 1
Sooner(n) == IF n = 0 THEN 0 ELSE n - 1

TypeOK ==
  /\ hooks    \in [HookId -> Hook]
  /\ rows     \in [DeliveryId -> Row]
  /\ workers  \in [Worker -> Local]
  /\ regs     \in 0..MaxRegs
  /\ inserted \in 0..MaxRows
  /\ born     \in [Serial -> [id : 0..MaxRows, reg : 0..MaxRegs]]
  /\ posts    \in [Serial -> Nat]
  /\ acked    \in SUBSET (Serial \X (0..MaxRegs))
  /\ holder   \in [DeliveryId -> Worker \cup {Nobody}]
  /\ faults   \in 0..MaxFaults

Init ==
  /\ \E subs \in [HookId -> Subscription] :
       hooks = [h \in HookId |-> IF h <= InitialRegs
                                 THEN [reg |-> h, enabled |-> TRUE, subs |-> subs[h]]
                                 ELSE NoHook]
  /\ rows     = [d \in DeliveryId |-> NoRow]
  /\ workers  = [w \in Worker |-> AtRest]
  /\ regs     = InitialRegs
  /\ inserted = 0
  /\ born     = [s \in Serial |-> [id |-> 0, reg |-> 0]]
  /\ posts    = [s \in Serial |-> 0]
  /\ acked    = {}
  /\ holder   = [d \in DeliveryId |-> Nobody]
  /\ faults   = 0

(* Moves worker w to the given local state.                                *)
Goto(w, fields) == workers' = [workers EXCEPT ![w] = fields]

Fault == faults < MaxFaults /\ faults' = faults + 1

(* The state of a worker whose claims are all made, or all delivered.      *)
NextDelivery(local) ==
  IF local.batch = {} THEN AtRest ELSE [local EXCEPT !.phase = "deliver"]

(* A lease ReclaimStale takes back.                                        *)
IsStale(r) == r.status = "in_progress" /\ r.lease # NoLease /\ r.lease > StaleAfter

----------------------------------------------------------------------------
(* Faulty variants of the operations below, each with a plausible bug that *)
(* the properties must notice.  Nothing uses them.                         *)

(* The foreign key sets NULL instead of cascading.                         *)
DeleteWebhookOrphans(h) ==
  /\ h \in Registered
  /\ hooks' = [hooks EXCEPT ![h] = NoHook]
  /\ rows' = [d \in DeliveryId |->
               IF rows[d].hook = h THEN [rows[d] EXCEPT !.hook = 0] ELSE rows[d]]
  /\ UNCHANGED << workers, regs, inserted, born, posts, acked, holder, faults >>

(* A reclaim loop of its own, running while a batch is being delivered.    *)
ReclaimAnyTime(w) ==
  /\ rows' = [d \in DeliveryId |->
               IF IsStale(rows[d])
               THEN [rows[d] EXCEPT !.status = "pending", !.lease = NoLease]
               ELSE rows[d]]
  /\ Goto(w, IF workers[w].phase = "idle" THEN [AtRest EXCEPT !.phase = "select"] ELSE workers[w])
  /\ UNCHANGED << hooks, regs, inserted, born, posts, acked, holder, faults >>

(* A worker that never takes stale leases back.                            *)
ReclaimNothing(w) ==
  /\ workers[w].phase = "idle"
  /\ Goto(w, [AtRest EXCEPT !.phase = "select"])
  /\ UNCHANGED << storeVars, historyVars, faults >>

(* The claim's UPDATE does not ask for status = 'pending'.                 *)
ClaimCasBlind(w) ==
  LET me == workers[w] IN
  /\ me.phase = "cas"
  /\ \E e \in me.cand :
       LET left == [me EXCEPT !.cand = @ \ {e}, !.batch = @ \cup {e}]
       IN /\ IsFirst(e, me.cand)
          /\ rows' = [rows EXCEPT ![e.id].status = "in_progress", ![e.id].lease = me.clock]
          /\ holder' = [holder EXCEPT ![e.id] = w]
          /\ Goto(w, IF left.cand = {} THEN NextDelivery(left) ELSE left)
  /\ UNCHANGED << hooks, regs, inserted, born, posts, acked, faults >>

(* One cached webhook serves the whole batch, whichever row it is for.     *)
ResolveOnce(w) ==
  LET me == workers[w] IN
  /\ me.phase = "deliver"
  /\ \E e \in me.batch :
       /\ IsFirst(e, me.batch)
       /\ \/ /\ me.seen[e.hook] # 0
             /\ Goto(w, [me EXCEPT !.phase = "send"])
          \/ /\ me.seen[e.hook] = 0
             /\ e.hook \in Registered
             /\ Goto(w, [me EXCEPT !.phase = "send",
                                   !.seen = [h \in HookId |-> hooks[e.hook].reg]])
  /\ UNCHANGED << storeVars, historyVars, faults >>

(* Any answer counts as a success.                                         *)
PostIgnoresStatus(w, answer) ==
  LET me == workers[w] IN
  /\ me.phase = "send"
  /\ \E e \in me.batch :
       /\ IsFirst(e, me.batch)
       /\ posts' = [posts EXCEPT ![e.serial] = IF @ < PostCap THEN @ + 1 ELSE @]
       /\ acked' = IF answer = "ok" THEN acked \cup {<< e.serial, me.seen[e.hook] >>} ELSE acked
  /\ Goto(w, [me EXCEPT !.phase = "mark", !.verdict = "ok"])
  /\ UNCHANGED << storeVars, regs, inserted, born, holder, faults >>

(* claimed_at is not cleared when an outcome is recorded.                  *)
MarkedKeepsLease(r, e, verdict) ==
  LET done == [r EXCEPT !.attempts = @ + 1]
  IN CASE verdict = "ok" -> [done EXCEPT !.status = "delivered"]
       [] verdict = "unsealable" -> [done EXCEPT !.status = "dead"]
       [] e.attempts + 1 >= MaxAttempts -> [done EXCEPT !.status = "dead"]
       [] OTHER -> [done EXCEPT !.status = "pending", !.wait = Backoff[e.attempts + 1]]

(* The attempt that just failed is not counted against MaxAttempts.        *)
MarkedOneTooMany(r, e, verdict) ==
  LET done == [r EXCEPT !.attempts = @ + 1, !.lease = NoLease]
  IN CASE verdict = "ok" -> [done EXCEPT !.status = "delivered"]
       [] verdict = "unsealable" -> [done EXCEPT !.status = "dead"]
       [] e.attempts >= MaxAttempts -> [done EXCEPT !.status = "dead"]
       [] OTHER -> [done EXCEPT !.status = "pending", !.wait = 0]

(* The outcome's UPDATE does not ask for status = 'in_progress'.           *)
MarkAnyStatus(w) ==
  LET me == workers[w]
      recorded(r, e) ==
        [r EXCEPT !.attempts = @ + 1, !.lease = NoLease, !.wait = 0,
                  !.status = IF me.verdict = "ok" THEN "delivered"
                             ELSE IF e.attempts + 1 >= MaxAttempts THEN "dead" ELSE "pending"]
  IN
  /\ me.phase = "mark"
  /\ \E e \in me.batch :
       /\ IsFirst(e, me.batch)
       /\ rows' = [rows EXCEPT ![e.id] = IF @.status = "absent" THEN @ ELSE recorded(@, e)]
       /\ holder' = [holder EXCEPT ![e.id] = Nobody]
       /\ Goto(w, NextDelivery([me EXCEPT !.batch = @ \ {e}, !.verdict = "none"]))
  /\ UNCHANGED << hooks, regs, inserted, born, posts, acked, faults >>

----------------------------------------------------------------------------
(* Request handlers.                                                       *)

(* handleCreateWebhook: the new row's id is the rowid SQLite chooses.      *)
CreateWebhook(subs) ==
  /\ regs < MaxRegs
  /\ regs' = regs + 1
  /\ \E n \in 0..MaxRegs :
       /\ IsLastId(n, Registered)
       /\ hooks' = [hooks EXCEPT ![n + 1] = [reg |-> regs', enabled |-> TRUE, subs |-> subs]]
  /\ UNCHANGED << rows, workers, inserted, born, posts, acked, holder, faults >>

(* handleSetWebhookEnabled: rows already queued are left alone.            *)
SetWebhookEnabled(h, on) ==
  /\ h \in Registered
  /\ hooks' = [hooks EXCEPT ![h].enabled = on]
  /\ UNCHANGED << rows, workers, historyVars, faults >>

(* handleDeleteWebhook: ON DELETE CASCADE removes the webhook's rows.      *)
DeleteWebhook(h) ==
  /\ h \in Registered
  /\ hooks' = [hooks EXCEPT ![h] = NoHook]
  /\ rows' = [d \in DeliveryId |-> IF rows[d].hook = h THEN NoRow ELSE rows[d]]
  /\ holder' = [d \in DeliveryId |-> IF rows[d].hook = h THEN Nobody ELSE holder[d]]
  /\ UNCHANGED << workers, regs, inserted, born, posts, acked, faults >>

(* MatchForEvent: the enabled webhooks subscribed to the change.           *)
MatchForEvent(kind) ==
  {h \in Registered : hooks[h].enabled /\ kind \in hooks[h].subs}

(* A secret change commits, and enqueueWebhooks inserts in the same        *)
(* transaction one pending row, due at once, for every match: ms lists the *)
(* matches in id order, and rowids go up from the largest in use.          *)
CommitChange(kind) ==
  \E k \in 1..MaxRegs, last \in 0..MaxRows :
    \E ms \in [1..k -> MatchForEvent(kind)] :
      /\ \A i, j \in 1..k : i < j => ms[i] < ms[j]
      /\ \A h \in MatchForEvent(kind) : \E i \in 1..k : ms[i] = h
      /\ IsLastId(last, Live)
      /\ inserted + k <= MaxRows /\ last + k <= MaxRows
      /\ inserted' = inserted + k
      /\ rows' = [d \in DeliveryId |->
                   IF d \in last + 1 .. last + k
                   THEN [status |-> "pending", hook |-> ms[d - last],
                         serial |-> inserted + (d - last),
                         attempts |-> 0, wait |-> 0, lease |-> NoLease]
                   ELSE rows[d]]
      /\ born' = [s \in Serial |->
                   IF s \in inserted + 1 .. inserted + k
                   THEN [id |-> last + (s - inserted), reg |-> hooks[ms[s - inserted]].reg]
                   ELSE born[s]]
      /\ UNCHANGED << hooks, workers, regs, posts, acked, holder, faults >>

----------------------------------------------------------------------------
(* The delivery worker.  Each tick of its loop runs Reclaim, ClaimSelect,  *)
(* ClaimCas for every candidate, then deliverOne (Resolve, Post, Mark) for *)
(* every row it claimed.                                                   *)

(* ReclaimStale: every lease older than staleAfter is taken back; attempts *)
(* and next_attempt_at stay as they are.                                   *)
Reclaim(w) ==
  /\ workers[w].phase = "idle"
  /\ Goto(w, [AtRest EXCEPT !.phase = "select"])
  /\ rows' = [d \in DeliveryId |->
               IF IsStale(rows[d])
               THEN [rows[d] EXCEPT !.status = "pending", !.lease = NoLease]
               ELSE rows[d]]
  /\ holder' = [d \in DeliveryId |-> IF IsStale(rows[d]) THEN Nobody ELSE holder[d]]
  /\ UNCHANGED << hooks, regs, inserted, born, posts, acked, faults >>

(* A failed ReclaimStale is logged, and the tick goes on.                  *)
ReclaimFails(w) ==
  /\ workers[w].phase = "idle"
  /\ Fault
  /\ Goto(w, [AtRest EXCEPT !.phase = "select"])
  /\ UNCHANGED << storeVars, historyVars >>

(* ClaimDue reads the first BatchSize due rows and closes the cursor.      *)
Candidates ==
  {[id |-> d, serial |-> rows[d].serial, hook |-> rows[d].hook, attempts |-> rows[d].attempts] :
     d \in {c \in Due : Cardinality({b \in Due : b < c}) < BatchSize}}

ClaimSelect(w) ==
  /\ workers[w].phase = "select"
  /\ Goto(w, IF Candidates = {} THEN AtRest
             ELSE [workers[w] EXCEPT !.phase = "cas", !.cand = Candidates, !.clock = 0])
  /\ UNCHANGED << storeVars, historyVars, faults >>

(* ClaimDue's compare-and-swap of one candidate.  claimed_at is the time   *)
(* read before the SELECT, so the lease is already as old as that.         *)
ClaimCas(w) ==
  LET me == workers[w] IN
  /\ me.phase = "cas"
  /\ \E e \in me.cand :
       LET won  == rows[e.id].status = "pending"
           left == [me EXCEPT !.cand = @ \ {e},
                              !.batch = IF won THEN @ \cup {e} ELSE @]
       IN /\ IsFirst(e, me.cand)
          /\ rows' = IF won
                     THEN [rows EXCEPT ![e.id] =
                            [@ EXCEPT !.status = "in_progress", !.lease = me.clock]]
                     ELSE rows
          /\ holder' = IF won THEN [holder EXCEPT ![e.id] = w] ELSE holder
          /\ Goto(w, IF left.cand = {} THEN NextDelivery(left) ELSE left)
  /\ UNCHANGED << hooks, regs, inserted, born, posts, acked, faults >>

(* The SELECT or a compare-and-swap fails: ClaimDue returns no row at all, *)
(* those it already claimed included, and the tick ends.                   *)
ClaimFails(w) ==
  /\ workers[w].phase \in {"select", "cas"}
  /\ Fault
  /\ Goto(w, AtRest)
  /\ UNCHANGED << storeVars, historyVars >>

(* deliverOne's resolve: the webhook is read once per tick, and its row    *)
(* and signing key are then kept for the rest of the batch.                *)
Resolve(w) ==
  LET me == workers[w] IN
  /\ me.phase = "deliver"
  /\ \E e \in me.batch :
       /\ IsFirst(e, me.batch)
       /\ \/ /\ me.seen[e.hook] # 0
             /\ Goto(w, [me EXCEPT !.phase = "send"])
          \/ /\ me.seen[e.hook] = 0
             /\ e.hook \in Registered
             /\ Goto(w, [me EXCEPT !.phase = "send", !.seen[e.hook] = hooks[e.hook].reg])
  /\ UNCHANGED << storeVars, historyVars, faults >>

(* The webhook is gone, its lookup fails, or the master key cannot be      *)
(* read: the attempt failed without a POST.                                *)
ResolveFails(w) ==
  LET me == workers[w] IN
  /\ me.phase = "deliver"
  /\ \E e \in me.batch : IsFirst(e, me.batch) /\ me.seen[e.hook] = 0
  /\ Goto(w, [me EXCEPT !.phase = "mark", !.verdict = "fail"])
  /\ UNCHANGED << storeVars, historyVars, faults >>

(* The sealed signing key does not open.                                   *)
ResolveUnsealable(w) ==
  LET me == workers[w] IN
  /\ me.phase = "deliver"
  /\ \E e \in me.batch : IsFirst(e, me.batch) /\ me.seen[e.hook] = 0 /\ e.hook \in Registered
  /\ Goto(w, [me EXCEPT !.phase = "mark", !.verdict = "unsealable"])
  /\ UNCHANGED << storeVars, historyVars, faults >>

(* The URL policy refuses the target at delivery time: no POST.            *)
UrlBlocked(w) ==
  /\ workers[w].phase = "send"
  /\ Goto(w, [workers[w] EXCEPT !.phase = "mark", !.verdict = "fail"])
  /\ UNCHANGED << storeVars, historyVars, faults >>

(* The POST, signed with the row's id as X-Comax-Delivery, and its answer: *)
(* a 2xx, or anything else, a transport error and a timeout included.      *)
Post(w, answer) ==
  LET me == workers[w] IN
  /\ me.phase = "send"
  /\ \E e \in me.batch :
       /\ IsFirst(e, me.batch)
       /\ posts' = [posts EXCEPT ![e.serial] = IF @ < PostCap THEN @ + 1 ELSE @]
       /\ acked' = IF answer = "ok" THEN acked \cup {<< e.serial, me.seen[e.hook] >>} ELSE acked
  /\ Goto(w, [me EXCEPT !.phase = "mark", !.verdict = answer])
  /\ UNCHANGED << storeVars, regs, inserted, born, holder, faults >>

(* What MarkDelivered, MarkDead and MarkRetry write for entry e: fail()    *)
(* counts the attempt from the row as it was when it was claimed.          *)
Marked(r, e, verdict) ==
  LET done == [r EXCEPT !.attempts = @ + 1, !.lease = NoLease]
  IN CASE verdict = "ok" -> [done EXCEPT !.status = "delivered"]
       [] verdict = "unsealable" -> [done EXCEPT !.status = "dead"]
       [] e.attempts + 1 >= MaxAttempts -> [done EXCEPT !.status = "dead"]
       [] OTHER -> [done EXCEPT !.status = "pending", !.wait = Backoff[e.attempts + 1]]

(* The outcome is recorded if the row still is in_progress, whoever        *)
(* claimed it; otherwise the update affects no row.  Then the next entry.  *)
Mark(w) ==
  LET me == workers[w] IN
  /\ me.phase = "mark"
  /\ \E e \in me.batch :
       LET hit == rows[e.id].status = "in_progress" IN
       /\ IsFirst(e, me.batch)
       /\ rows' = IF hit THEN [rows EXCEPT ![e.id] = Marked(@, e, me.verdict)] ELSE rows
       /\ holder' = IF hit THEN [holder EXCEPT ![e.id] = Nobody] ELSE holder
       /\ Goto(w, NextDelivery([me EXCEPT !.batch = @ \ {e}, !.verdict = "none"]))
  /\ UNCHANGED << hooks, regs, inserted, born, posts, acked, faults >>

(* The update fails: only logged, the row keeps its lease.                 *)
MarkFails(w) ==
  LET me == workers[w] IN
  /\ me.phase = "mark"
  /\ Fault
  /\ \E e \in me.batch :
       /\ IsFirst(e, me.batch)
       /\ Goto(w, NextDelivery([me EXCEPT !.batch = @ \ {e}, !.verdict = "none"]))
  /\ UNCHANGED << storeVars, historyVars >>

(* The process dies, or its context is cancelled by a shutdown: every      *)
(* later statement of the tick fails, and nothing but the table survives.  *)
Crash(w) ==
  /\ workers[w].phase # "down"
  /\ Fault
  /\ Goto(w, [AtRest EXCEPT !.phase = "down"])
  /\ UNCHANGED << storeVars, historyVars >>

Restart(w) ==
  /\ workers[w].phase = "down"
  /\ Goto(w, AtRest)
  /\ UNCHANGED << storeVars, historyVars, faults >>

----------------------------------------------------------------------------
(* The wall clock advances.                                                *)
Tick ==
  /\ rows' = [d \in DeliveryId |->
               [rows[d] EXCEPT !.wait = Sooner(@),
                               !.lease = IF @ = NoLease THEN @ ELSE Older(@)]]
  /\ workers' = [w \in Worker |->
                  IF workers[w].phase = "cas"
                  THEN [workers[w] EXCEPT !.clock = Older(@)] ELSE workers[w]]
  /\ UNCHANGED << hooks, historyVars, faults >>

(* One step of a worker's loop that needs no fault.                        *)
WorkerStep(w) ==
  \/ Reclaim(w)
  \/ ClaimSelect(w)
  \/ ClaimCas(w)
  \/ Resolve(w)
  \/ ResolveFails(w)
  \/ ResolveUnsealable(w)
  \/ UrlBlocked(w)
  \/ \E answer \in {"ok", "fail"} : Post(w, answer)
  \/ Mark(w)
  \/ Restart(w)

WorkerFault(w) ==
  \/ ReclaimFails(w)
  \/ ClaimFails(w)
  \/ MarkFails(w)
  \/ Crash(w)

Request ==
  \/ \E subs \in Subscription : CreateWebhook(subs)
  \/ \E h \in HookId, on \in BOOLEAN : SetWebhookEnabled(h, on)
  \/ \E h \in HookId : DeleteWebhook(h)
  \/ \E kind \in Kind : CommitChange(kind)

Next ==
  \/ Request
  \/ \E w \in Worker : WorkerStep(w) \/ WorkerFault(w)
  \/ Tick

Spec == Init /\ [][Next]_vars

(* The worker's goroutine keeps running, a dead server is restarted, and   *)
(* the clock goes on.  Requests and faults need never happen.              *)
Fairness == WF_vars(Tick) /\ \A w \in Worker : WF_vars(WorkerStep(w))

FairSpec == Spec /\ Fairness
----------------------------------------------------------------------------
(* Properties.                                                             *)

(* A row carries a claimed_at exactly while it is in progress.  Otherwise  *)
(* ReclaimStale, which skips rows without one, could strand a row in       *)
(* progress for ever, or take a settled row back.                          *)
LeaseIffInProgress ==
  \A d \in DeliveryId : rows[d].lease # NoLease <=> rows[d].status = "in_progress"

(* One worker: a row is never charged with more than MaxAttempts attempts, *)
(* and one that is still to be delivered has an attempt left, although     *)
(* fail() counts from a snapshot taken when the row was claimed.           *)
AttemptsBounded ==
  \A d \in DeliveryId :
    /\ rows[d].attempts <= MaxAttempts
    /\ rows[d].status \in {"pending", "in_progress"} => rows[d].attempts < MaxAttempts

(* One worker: it never POSTs or records an outcome for a row somebody has *)
(* taken back.  The row it works on is in progress, settled by no one, or  *)
(* was deleted with its webhook.                                           *)
WorksOnlyOnItsClaims ==
  \A w \in Worker : \A e \in workers[w].batch :
    rows[e.id].serial = e.serial => rows[e.id].status = "in_progress"

(* A POST went astray: a webhook acknowledged an event that was owed to a  *)
(* deleted one, whose id it had been given within a tick.                  *)
Astray(p) == born[p[1]].reg # p[2]

(* One worker: a row reads delivered only if the webhook it was enqueued   *)
(* for answered a POST of that very event with a 2xx; or else an earlier   *)
(* event under its id went astray, and the row was claimed in its place    *)
(* between ClaimDue's SELECT and UPDATE.                                   *)
DeliveredMeansAcked ==
  \A d \in DeliveryId : rows[d].status = "delivered" =>
    \/ << rows[d].serial, born[rows[d].serial].reg >> \in acked
    \/ \E p \in acked : born[p[1]].id = d /\ p[1] < rows[d].serial /\ Astray(p)

(* An event is sent to the registration whose subscription it matched when *)
(* it was committed, and to another only when that one is deleted.         *)
SentOnlyToSubscriber ==
  \A p \in acked : Astray(p) => \A h \in HookId : hooks[h].reg # born[p[1]].reg

(* delivered and dead are final: such a row changes in no step but its     *)
(* webhook's deletion, whatever workers do with old claims of it.          *)
Settled(r) == r.status \in {"delivered", "dead"}
SameRow(r, q) == r.serial = q.serial /\ r.status = q.status /\ r.attempts = q.attempts

SettledIsFinal ==
  [][\A d \in DeliveryId :
       Settled(rows[d]) => SameRow(rows[d], rows'[d]) \/ rows'[d] = NoRow]_rows

(* Every row is eventually delivered, dead or deleted: no crash, failed    *)
(* statement or missing webhook leaves one in progress or pending for      *)
(* ever.                                                                   *)
EveryRowSettles ==
  \A d \in DeliveryId : []<>(rows[d].status \notin {"pending", "in_progress"})

(* The compare-and-swap hands a claim to one worker: no worker's claim     *)
(* passes to another one directly, it is given up or taken back first.     *)
NoClaimStolen ==
  [][\A d \in DeliveryId :
       holder[d] # Nobody /\ holder'[d] # Nobody => holder'[d] = holder[d]]_holder

(* The outbox implements the ledger: the n-th row inserted is event n.     *)
LedgerFate ==
  [s \in Serial |->
    IF s > inserted THEN "none"
    ELSE IF \E d \in DeliveryId : rows[d].serial = s /\ Settled(rows[d])
    THEN rows[CHOOSE d \in DeliveryId : rows[d].serial = s].status
    ELSE IF \E d \in DeliveryId : rows[d].serial = s THEN "owed" ELSE "gone"]

Ledger == INSTANCE DeliveryLedger WITH
            Event <- Serial, fate <- LedgerFate,
            confirmed <- {s \in Serial : << s, born[s].reg >> \in acked},
            void <- \E p \in acked : Astray(p)

(* Delivered at least once, given up or deleted, and never called          *)
(* delivered without an acknowledgement: the code's rows, leases, retries  *)
(* and crashes implement DeliveryLedger, until an event goes astray.       *)
ImplementsLedger == Ledger!LedgerSpec

(* delivery_repo.go:120, "only the worker holding the claim can finalise   *)
(* it": a worker that records an outcome for a row holds its claim.        *)
FinalisedByHolder ==
  [][\A w \in Worker, d \in DeliveryId :
       workers[w].phase = "mark" /\ workers'[w].phase # "mark"
         /\ rows[d].status = "in_progress" /\ rows'[d].attempts = rows[d].attempts + 1
       => holder[d] = w]_vars

(* worker.go:20, "maxAttempts counts total POST attempts before a delivery *)
(* is declared dead": no event is POSTed more often than that.             *)
PostsWithinMaxAttempts == \A s \in Serial : posts[s] <= MaxAttempts

(* payload.go:21, "the header is the receiver's idempotency key": two      *)
(* events never reach receivers under one X-Comax-Delivery value.          *)
DeliveryHeaderUnique ==
  \A s, t \in Serial :
    posts[s] > 0 /\ posts[t] > 0 /\ born[s].id = born[t].id => s = t
============================================================================
