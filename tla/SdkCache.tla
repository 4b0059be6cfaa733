------------------------------ MODULE SdkCache ------------------------------
(***************************************************************************)
(* The TypeScript SDK in a long-running process: the per-key cache of      *)
(* SecretsClient, the requests it shares between readers, reload(), the    *)
(* background refresh, and the webhook route of the SDK's README, which    *)
(* verifies a delivery and reloads.                                        *)
(*                                                                         *)
(* JavaScript runs one callback at a time: every action is one stretch of  *)
(* code between two awaits.  What happens between an answer being read on  *)
(* the server and its arrival is the interesting part.                     *)
(*                                                                         *)
(* Data.  A secret is the revision of its row, which counts upserts,       *)
(* rollbacks and deletes; the value and the version go with it.  Time: an  *)
(* entry is fresh or past its TTL, and may pass it at any moment; a        *)
(* delivery is within the tolerance of its timestamp or late.              *)
(***************************************************************************)
EXTENDS Integers, FiniteSets

CONSTANTS
  Key,           (* Keys of the environment.                               *)
  All,           (* The target of a whole-environment fetch, not a key.    *)
  Caller,        (* Reads under way at the same time.                      *)
  MaxFlights,    (* Bound: requests under way at the same time.            *)
  MaxRev,        (* Bound: revisions of a key.                             *)
  MaxReloads     (* Bound: calls of reload().                              *)

ASSUME SdkAssumption ==
  /\ All \notin Key
  /\ IsFiniteSet(Key)
  /\ MaxFlights \in Nat \ {0}
  /\ MaxRev \in Nat \ {0}
  /\ MaxReloads \in Nat

VARIABLES
  server,        (* The rows of the environment, by key.                   *)
  unacked,       (* Committed changes whose webhook is not acknowledged.   *)
  cache,         (* SecretsClient.cache.                                   *)
  inflight,      (* SecretsClient.inflight; at All, allInflight.           *)
  epoch,         (* SecretsClient.epoch.                                   *)
  refreshing,    (* Whether refreshTimer is set.                           *)
  flights,       (* The HTTP requests under way.                           *)
  callers,       (* The pending reads.                                     *)
  floor          (* History: each key's revision at its last reload.       *)

vars == << server, unacked, cache, inflight, epoch, refreshing,
           flights, callers, floor >>

Target   == Key \cup {All}
Rev      == 0..MaxRev
Epoch    == 0..MaxReloads
FlightId == 1..MaxFlights
NoFlight == 0

Row     == [rev : Rev, live : BOOLEAN]
Entry   == [rev : 1..MaxRev, fresh : BOOLEAN]
NoEntry == [rev |-> 0, fresh |-> FALSE]
Change  == [key : Key, rev : 1..MaxRev]

Unknown == [k \in Key |-> 0]

(* got holds the revisions in the answer once the server has read them, 0  *)
(* for a key that is not in it.                                            *)
Request == [phase : {"sent", "read", "body"}, target : Target, epoch : Epoch,
            got : [Key -> Rev]]
Idle    == [phase |-> "idle", target |-> All, epoch |-> 0, got |-> Unknown]

(* floor is history: the revision at the last reload before the read.      *)
Pending == [on : FlightId, target : Target, floor : [Key -> Rev]]
AtRest  == [on |-> NoFlight, target |-> All, floor |-> Unknown]

Init ==
  /\ server = [k \in Key |-> [rev |-> 1, live |-> TRUE]]
  /\ unacked = {}
  /\ cache = [k \in Key |-> NoEntry]
  /\ inflight = [t \in Target |-> NoFlight]
  /\ epoch = 0
  /\ refreshing = FALSE
  /\ flights = [f \in FlightId |-> Idle]
  /\ callers = [c \in Caller |-> AtRest]
  /\ floor = Unknown

Live(f)    == flights[f].phase # "idle"
Waiting(c) == callers[c].on # NoFlight

(* Fresh(k): has(), what a read consults before it fetches.                *)
Fresh(k) == cache[k].rev > 0 /\ cache[k].fresh

(* IsNextSlot(f): names the requests in a fixed order.                     *)
IsNextSlot(f) == ~Live(f) /\ \A g \in 1..(f - 1) : Live(g)

-----------------------------------------------------------------------------
(* Faulty variants of the operations below.                                *)

CleanupByName(f) ==
  [inflight EXCEPT ![flights[f].target] = NoFlight]

StoreAlways(f) ==
  [k \in Key |-> IF flights[f].got[k] > 0
                   THEN [rev |-> flights[f].got[k], fresh |-> TRUE] ELSE cache[k]]

DropEntryOnly(t) ==
  /\ cache' = [k \in Key |-> IF t \in {k, All} THEN NoEntry ELSE cache[k]]
  /\ floor' = [k \in Key |-> IF t \in {k, All} THEN server[k].rev ELSE floor[k]]
  /\ epoch' = epoch + 1
  /\ UNCHANGED inflight

DropWithoutEpoch(t) ==
  /\ cache' = [k \in Key |-> IF t \in {k, All} THEN NoEntry ELSE cache[k]]
  /\ inflight' = [u \in Target |-> IF t \in {u, All} THEN NoFlight ELSE inflight[u]]
  /\ floor' = [k \in Key |-> IF t \in {k, All} THEN server[k].rev ELSE floor[k]]
  /\ UNCHANGED epoch

StoreAbsent(f) ==
  IF flights[f].epoch = epoch
    THEN [k \in Key |-> IF flights[f].target \in {k, All}
                          THEN [rev |-> flights[f].got[k], fresh |-> TRUE]
                          ELSE cache[k]]
    ELSE cache

NeverTimesOut(f) == FALSE

-----------------------------------------------------------------------------
(* The server, as far as the SDK sees it.                                  *)

(* Commit(k, live): a committed upsert or delete, which queues a webhook   *)
(* in the same transaction.                                                *)
Commit(k, live) ==
  /\ server[k].rev < MaxRev
  /\ live \/ server[k].live
  /\ server' = [server EXCEPT ![k] = [rev |-> @.rev + 1, live |-> live]]
  /\ unacked' = unacked \cup {[key |-> k, rev |-> server[k].rev + 1]}
  /\ UNCHANGED << cache, inflight, epoch, refreshing, flights, callers,
                  floor >>

(* ServerReads(f): the handler reads the rows it answers with.             *)
ServerReads(f) ==
  /\ flights[f].phase = "sent"
  /\ flights' = [flights EXCEPT
       ![f].phase = "read",
       ![f].got = [k \in Key |->
                     IF flights[f].target \in {k, All} /\ server[k].live
                       THEN server[k].rev ELSE 0]]
  /\ UNCHANGED << server, unacked, cache, inflight, epoch, refreshing,
                  callers, floor >>

-----------------------------------------------------------------------------
(* Reading.                                                                *)

(* Take off: fetchOne or fetchAll is called under the current epoch and    *)
(* registered for others to join.                                          *)
TakeOff(f, t) ==
  /\ IsNextSlot(f)
  /\ flights' = [flights EXCEPT ![f] =
       [phase |-> "sent", target |-> t, epoch |-> epoch, got |-> Unknown]]
  /\ inflight' = [inflight EXCEPT ![t] = f]

Await(c, f, t) ==
  callers' = [callers EXCEPT ![c] = [on |-> f, target |-> t, floor |-> floor]]

(* GetSecret(c, k): a fresh entry answers at once and changes nothing;     *)
(* otherwise the read joins the key's flight or starts one.                *)
GetSecret(c, k) ==
  /\ ~Waiting(c)
  /\ ~Fresh(k)
  /\ \/ /\ inflight[k] # NoFlight
        /\ Await(c, inflight[k], k)
        /\ UNCHANGED << flights, inflight >>
     \/ /\ inflight[k] = NoFlight
        /\ \E f \in FlightId : TakeOff(f, k) /\ Await(c, f, k)
  /\ UNCHANGED << server, unacked, cache, epoch, refreshing, floor >>

(* Preload(c): getAll() and preload(), which never consult the cache.      *)
Preload(c) ==
  /\ ~Waiting(c)
  /\ \/ /\ inflight[All] # NoFlight
        /\ Await(c, inflight[All], All)
        /\ UNCHANGED << flights, inflight >>
     \/ /\ inflight[All] = NoFlight
        /\ \E f \in FlightId : TakeOff(f, All) /\ Await(c, f, All)
  /\ UNCHANGED << server, unacked, cache, epoch, refreshing, floor >>

(* AbortRead(c): the caller's signal fires; the flight goes on.            *)
AbortRead(c) ==
  /\ Waiting(c)
  /\ callers' = [callers EXCEPT ![c] = AtRest]
  /\ UNCHANGED << server, unacked, cache, inflight, epoch, refreshing,
                  flights, floor >>

-----------------------------------------------------------------------------
(* The end of a request.                                                   *)

(* The slot is released only if it is still the flight's own.              *)
Cleanup(f) ==
  [t \in Target |-> IF inflight[t] = f /\ flights[f].target = t
                      THEN NoFlight ELSE inflight[t]]

(* Store(f): the cache after f's answer, unless a reload came since.       *)
Store(f) ==
  IF flights[f].epoch = epoch
    THEN [k \in Key |-> IF flights[f].got[k] > 0
                          THEN [rev |-> flights[f].got[k], fresh |-> TRUE]
                          ELSE cache[k]]
    ELSE cache

(* Land(f): the promise settles, and with it every read that joined.       *)
Land(f) ==
  /\ flights' = [flights EXCEPT ![f] = Idle]
  /\ inflight' = Cleanup(f)
  /\ callers' = [c \in Caller |-> IF callers[c].on = f THEN AtRest ELSE callers[c]]

(* The headers are in: the request timer is cleared, the body is not read. *)
HeadersArrive(f) ==
  /\ flights[f].phase = "read"
  /\ flights' = [flights EXCEPT ![f].phase = "body"]
  /\ UNCHANGED << server, unacked, cache, inflight, epoch, refreshing,
                  callers, floor >>

(* The timer runs until the headers are in.                                *)
TimerRuns(f) == flights[f].phase \in {"sent", "read"}

(* RequestTimesOut(f): the timer aborts the fetch.                         *)
RequestTimesOut(f) ==
  /\ TimerRuns(f)
  /\ Land(f)
  /\ UNCHANGED << server, unacked, cache, epoch, refreshing, floor >>

(* NetworkFails(f): the connection breaks, also in the middle of the body. *)
NetworkFails(f) ==
  /\ Live(f)
  /\ Land(f)
  /\ UNCHANGED << server, unacked, cache, epoch, refreshing, floor >>

(* AnswerIsError(f): the body is no envelope, or the status an error.      *)
AnswerIsError(f) ==
  /\ flights[f].phase = "body"
  /\ Land(f)
  /\ UNCHANGED << server, unacked, cache, epoch, refreshing, floor >>

(* AnswerIsData(f): a single key that does not exist is a 404, not data.   *)
AnswerIsData(f) ==
  /\ flights[f].phase = "body"
  /\ flights[f].target \in Key => flights[f].got[flights[f].target] > 0
  /\ cache' = Store(f)
  /\ Land(f)
  /\ UNCHANGED << server, unacked, epoch, refreshing, floor >>

-----------------------------------------------------------------------------
(* Invalidation and refresh.                                               *)

(* Drop(t): reload(key), or reload() at All, which also forgets the        *)
(* whole-environment flight.                                               *)
Drop(t) ==
  /\ cache' = [k \in Key |-> IF t \in {k, All} THEN NoEntry ELSE cache[k]]
  /\ inflight' = [u \in Target |-> IF t \in {u, All} THEN NoFlight ELSE inflight[u]]
  /\ floor' = [k \in Key |-> IF t \in {k, All} THEN server[k].rev ELSE floor[k]]
  /\ epoch' = epoch + 1

Reload(t) ==
  /\ epoch < MaxReloads
  /\ Drop(t)
  /\ UNCHANGED << server, unacked, refreshing, flights, callers >>

(* The entry passes its TTL.                                               *)
Expire(k) ==
  /\ Fresh(k)
  /\ cache' = [cache EXCEPT ![k].fresh = FALSE]
  /\ UNCHANGED << server, unacked, inflight, epoch, refreshing, flights,
                  callers, floor >>

StartAutoRefresh ==
  /\ ~refreshing
  /\ refreshing' = TRUE
  /\ UNCHANGED << server, unacked, cache, inflight, epoch, flights,
                  callers, floor >>

StopAutoRefresh ==
  /\ refreshing
  /\ refreshing' = FALSE
  /\ UNCHANGED << server, unacked, cache, inflight, epoch, flights,
                  callers, floor >>

(* A tick of the interval preloads; one that finds a preload under way     *)
(* joins it, which changes nothing.                                        *)
RefreshTick ==
  /\ refreshing
  /\ inflight[All] = NoFlight
  /\ \E f \in FlightId : TakeOff(f, All)
  /\ UNCHANGED << server, unacked, cache, epoch, refreshing, callers,
                  floor >>

(* Verified(d): verifyWebhookSignature returns valid.                      *)
Verified(d) == ~d.late /\ ~d.altered

(* Route(d): a delivery that verifies is followed by a reload and answered *)
(* 200, an answer that may be lost on its way; any other is answered 401   *)
(* and changes nothing.  Deliveries never sent, or lost, are steps not     *)
(* taken; one sent again after its acknowledgement is one reload more.     *)
Route(d) ==
  \/ /\ Verified(d)
     /\ epoch < MaxReloads
     /\ Drop(All)
     /\ unacked' \in {unacked, unacked \ {d.change}}
     /\ UNCHANGED << server, refreshing, flights, callers >>
  \/ /\ ~Verified(d)
     /\ UNCHANGED vars

-----------------------------------------------------------------------------
Read(c) == AbortRead(c) \/ Preload(c) \/ \E k \in Key : GetSecret(c, k)

Settle(f) == RequestTimesOut(f) \/ AnswerIsError(f) \/ AnswerIsData(f)

Fly(f) == ServerReads(f) \/ HeadersArrive(f) \/ NetworkFails(f) \/ Settle(f)

Refresh == StartAutoRefresh \/ StopAutoRefresh \/ RefreshTick

Webhook ==
  \E e \in unacked, late, altered \in BOOLEAN :
    Route([change |-> e, late |-> late, altered |-> altered])

Next ==
  \/ \E k \in Key, live \in BOOLEAN : Commit(k, live)
  \/ \E c \in Caller : Read(c)
  \/ \E f \in FlightId : Fly(f)
  \/ \E t \in Target : Reload(t)
  \/ \E k \in Key : Expire(k)
  \/ Refresh
  \/ Webhook

(* A running timer fires.  Nothing else is the SDK's own: a server may     *)
(* never answer, and a body that has begun may never end, for the timer is *)
(* cleared before it is read.                                              *)
Fairness == \A f \in FlightId : WF_vars(RequestTimesOut(f))

Spec == Init /\ [][Next]_vars /\ Fairness

-----------------------------------------------------------------------------
(* Properties.                                                             *)

TypeOK ==
  /\ server \in [Key -> Row]
  /\ unacked \subseteq Change
  /\ cache \in [Key -> Entry \cup {NoEntry}]
  /\ inflight \in [Target -> FlightId \cup {NoFlight}]
  /\ epoch \in Epoch
  /\ refreshing \in BOOLEAN
  /\ flights \in [FlightId -> Request \cup {Idle}]
  /\ callers \in [Caller -> Pending \cup {AtRest}]
  /\ floor \in [Key -> Rev]

(* What was read before a reload is not in the cache after it, whatever    *)
(* was in flight when reload() ran (secrets.ts, 62-67).                    *)
NothingFromBeforeReload ==
  \A k \in Key : cache[k].rev > 0 => cache[k].rev >= floor[k]

(* A read of a key that begins after a reload of that key is not answered  *)
(* by a request that read the row before it (getSecret joins a flight).    *)
ReadsSeeReloads ==
  \A c \in Caller : Waiting(c) =>
    LET k == callers[c].target
        r == flights[callers[c].on].got[k]
    IN  k \in Key /\ r > 0 => r >= callers[c].floor[k]

(* Concurrent reads share one request: two requests for the same target    *)
(* are of different generations (secrets.ts, 10-14; the cleanup guarded by *)
(* identity).                                                              *)
SingleFlight ==
  \A f, g \in FlightId :
    f # g /\ Live(f) /\ Live(g) /\ flights[f].target = flights[g].target
      => flights[f].epoch # flights[g].epoch

(* Once the webhook of every change has been acknowledged, no cached value *)
(* is out of date, although answers arrive in any order and the TTL has    *)
(* not run out (the README's route, verification and reload together).     *)
AcknowledgedMeansCurrent ==
  unacked = {} =>
    \A k \in Key : cache[k].rev > 0 => cache[k].rev = server[k].rev

InBody(c) == Waiting(c) /\ flights[callers[c].on].phase = "body"

(* What the request timer does bound: a read ends, or the body of the      *)
(* answer it waits for has begun, whether it asked itself or joined, and   *)
(* whatever is reloaded meanwhile.                                         *)
HeadersAreBounded ==
  \A c \in Caller : Waiting(c) ~> ~Waiting(c) \/ InBody(c)

(* What http.ts, 32-34, and secrets.ts, 10, promise of it: a hung          *)
(* connection never blocks a shared load, so that every read ends.         *)
EveryReadSettles ==
  \A c \in Caller : Waiting(c) ~> ~Waiting(c)
=============================================================================
