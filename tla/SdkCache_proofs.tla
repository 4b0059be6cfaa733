--------------------------- MODULE SdkCache_proofs ---------------------------
(***************************************************************************)
(* Proofs about SdkCache, for every set of keys and readers and every      *)
(* bound.  The inductive invariant Inv relates a request under way to the  *)
(* slot it is registered in, to the reload before it and to the rows of    *)
(* the server.                                                             *)
(***************************************************************************)
EXTENDS SdkCache, TLAPS

(* A revision a key is known by is the server's, unless a webhook is due.  *)
Current(k, r) ==
  r > 0 => r = server[k].rev \/ [key |-> k, rev |-> server[k].rev] \in unacked

(* Every registered request is under way, for the slot's target.           *)
SlotsLive ==
  \A t \in Target : inflight[t] # NoFlight =>
    Live(inflight[t]) /\ flights[inflight[t]].target = t

(* Every request of this generation is registered.                         *)
CurrentRegistered ==
  \A f \in FlightId : Live(f) /\ flights[f].epoch = epoch =>
    inflight[flights[f].target] = f

(* No request is of a generation to come.                                  *)
EpochsPast == \A f \in FlightId : Live(f) => flights[f].epoch <= epoch

(* An answer of this generation is not from before the last reload, and    *)
(* is current or has a webhook due.                                        *)
AnswersCurrent ==
  \A f \in FlightId, k \in Key : flights[f].epoch = epoch =>
    /\ flights[f].got[k] > 0 => flights[f].got[k] >= floor[k]
    /\ Current(k, flights[f].got[k])

CacheCurrent == \A k \in Key : Current(k, cache[k].rev)

(* What joins the request of a key is not answered from before a reload.   *)
JoinedSeeReload ==
  \A k \in Key : inflight[k] # NoFlight /\ flights[inflight[k]].got[k] > 0
    => flights[inflight[k]].got[k] >= floor[k]

(* The revisions at a reload are not ahead of the server.                  *)
FloorsPast ==
  /\ \A k \in Key : floor[k] <= server[k].rev
  /\ \A c \in Caller, k \in Key :
       Waiting(c) => callers[c].floor[k] <= server[k].rev

(* A pending read waits for a request under way, for its own target.       *)
ReadersFly ==
  \A c \in Caller : Waiting(c) =>
    Live(callers[c].on) /\ flights[callers[c].on].target = callers[c].target

Inv ==
  /\ TypeOK
  /\ SlotsLive
  /\ CurrentRegistered
  /\ EpochsPast
  /\ AnswersCurrent
  /\ CacheCurrent
  /\ JoinedSeeReload
  /\ FloorsPast
  /\ ReadersFly
  /\ NothingFromBeforeReload
  /\ ReadsSeeReloads
  /\ SingleFlight

-----------------------------------------------------------------------------
(* Type correctness.                                                       *)

LEMMA TypeInit == Init => TypeOK
<1> USE SdkAssumption
<1>1. /\ Unknown \in [Key -> Rev]
      /\ [rev |-> 1, live |-> TRUE] \in Row
  BY DEF Unknown, Rev, Row
<1>2. 0 \in Epoch
  BY DEF Epoch
<1> SUFFICES ASSUME Init PROVE TypeOK
  OBVIOUS
<1>3. server \in [Key -> Row]
  BY <1>1 DEF Init
<1>4. /\ cache \in [Key -> Entry \cup {NoEntry}]
      /\ inflight \in [Target -> FlightId \cup {NoFlight}]
  BY DEF Init
<1>5. /\ flights \in [FlightId -> Request \cup {Idle}]
      /\ callers \in [Caller -> Pending \cup {AtRest}]
  BY DEF Init
<1> QED BY <1>1, <1>2, <1>3, <1>4, <1>5 DEF Init, TypeOK

LEMMA IdleRequest == ASSUME TypeOK, NEW f \in FlightId
  PROVE /\ flights[f].epoch \in Epoch
        /\ flights[f].got \in [Key -> Rev]
        /\ flights[f].target \in Target
        /\ Live(f) => flights[f] \in Request
        /\ ~Live(f) => flights[f] = Idle
  BY SdkAssumption DEF TypeOK, Request, Idle, Unknown, Epoch, Rev, Target, Live

LEMMA TypeNext == TypeOK /\ [Next]_vars => TypeOK'
<1> SUFFICES ASSUME TypeOK, [Next]_vars PROVE TypeOK'
  OBVIOUS
<1> USE SdkAssumption
<1>1. CASE \E k \in Key, live \in BOOLEAN : Commit(k, live)
  BY <1>1 DEF TypeOK, Commit, Row, Rev, Change
<1>2. ASSUME NEW f \in FlightId, NEW t \in Target, TakeOff(f, t)
      PROVE  /\ flights' \in [FlightId -> Request \cup {Idle}]
             /\ inflight' \in [Target -> FlightId \cup {NoFlight}]
  <2>1. [phase |-> "sent", target |-> t, epoch |-> epoch, got |-> Unknown] \in Request
    BY DEF TypeOK, Request, Unknown, Rev, Epoch
  <2> QED BY <1>2, <2>1 DEF TypeOK, TakeOff
<1>3. ASSUME NEW c \in Caller, NEW f \in FlightId, NEW t \in Target, Await(c, f, t)
      PROVE  callers' \in [Caller -> Pending \cup {AtRest}]
  BY <1>3 DEF TypeOK, Await, Pending
<1>4. ASSUME NEW c \in Caller, Read(c) PROVE TypeOK'
  <2>1. CASE AbortRead(c)
    BY <2>1 DEF TypeOK, AbortRead
  <2>2. CASE Preload(c)
    <3>1. All \in Target
      BY DEF Target
    <3>2. CASE /\ inflight[All] # NoFlight
               /\ Await(c, inflight[All], All)
               /\ UNCHANGED << flights, inflight >>
      <4>1. inflight[All] \in FlightId
        BY <3>1, <3>2 DEF TypeOK
      <4> QED BY <2>2, <3>1, <3>2, <4>1, <1>3 DEF TypeOK, Preload
    <3>3. CASE \E f \in FlightId : TakeOff(f, All) /\ Await(c, f, All)
      BY <2>2, <3>1, <3>3, <1>2, <1>3 DEF TypeOK, Preload
    <3> QED BY <2>2, <3>2, <3>3 DEF Preload
  <2>3. ASSUME NEW k \in Key, GetSecret(c, k) PROVE TypeOK'
    <3>1. k \in Target
      BY DEF Target
    <3>2. CASE /\ inflight[k] # NoFlight
               /\ Await(c, inflight[k], k)
               /\ UNCHANGED << flights, inflight >>
      <4>1. inflight[k] \in FlightId
        BY <3>1, <3>2 DEF TypeOK
      <4> QED BY <2>3, <3>1, <3>2, <4>1, <1>3 DEF TypeOK, GetSecret
    <3>3. CASE \E f \in FlightId : TakeOff(f, k) /\ Await(c, f, k)
      BY <2>3, <3>1, <3>3, <1>2, <1>3 DEF TypeOK, GetSecret
    <3> QED BY <2>3, <3>2, <3>3 DEF GetSecret
  <2> QED BY <1>4, <2>1, <2>2, <2>3 DEF Read
<1>5. ASSUME NEW f \in FlightId, Fly(f) PROVE TypeOK'
  <2>1. ASSUME Land(f)
        PROVE  /\ flights' \in [FlightId -> Request \cup {Idle}]
               /\ inflight' \in [Target -> FlightId \cup {NoFlight}]
               /\ callers' \in [Caller -> Pending \cup {AtRest}]
    BY <2>1 DEF TypeOK, Land, Cleanup
  <2>2. CASE ServerReads(f)
    <3> DEFINE g == [k \in Key |-> IF flights[f].target \in {k, All} /\ server[k].live
                                     THEN server[k].rev ELSE 0]
    <3>1. g \in [Key -> Rev]
      BY DEF TypeOK, Row, Rev
    <3>2. flights[f] \in Request
      BY <2>2, IdleRequest DEF ServerReads, Live
    <3>3. flights' = [flights EXCEPT ![f] = [@ EXCEPT !.phase = "read", !.got = g]]
      BY <2>2 DEF ServerReads
    <3> HIDE DEF g
    <3>4. [flights[f] EXCEPT !.phase = "read", !.got = g] \in Request
      BY <3>1, <3>2 DEF Request
    <3>5. flights' \in [FlightId -> Request \cup {Idle}]
      BY <3>3, <3>4 DEF TypeOK
    <3> QED BY <2>2, <3>5 DEF TypeOK, ServerReads
  <2>3. CASE HeadersArrive(f)
    <3>1. flights[f] \in Request
      BY <2>3, IdleRequest DEF HeadersArrive, Live
    <3> QED BY <2>3, <3>1 DEF TypeOK, HeadersArrive, Request
  <2>4. CASE NetworkFails(f) \/ RequestTimesOut(f) \/ AnswerIsError(f)
    BY <2>1, <2>4 DEF TypeOK, NetworkFails, RequestTimesOut, AnswerIsError
  <2>5. CASE AnswerIsData(f)
    <3>1. flights[f].got \in [Key -> Rev]
      BY IdleRequest
    <3>2. Store(f) \in [Key -> Entry \cup {NoEntry}]
      BY <3>1 DEF TypeOK, Store, Entry, Rev
    <3> QED BY <2>1, <2>5, <3>2 DEF TypeOK, AnswerIsData
  <2> QED BY <1>5, <2>2, <2>3, <2>4, <2>5 DEF Fly, Settle
<1>6. ASSUME NEW t \in Target, Drop(t), epoch < MaxReloads
      PROVE  /\ cache' \in [Key -> Entry \cup {NoEntry}]
             /\ inflight' \in [Target -> FlightId \cup {NoFlight}]
             /\ floor' \in [Key -> Rev]
             /\ epoch' \in Epoch
  BY <1>6 DEF TypeOK, Drop, Row, Epoch
<1>7. CASE \E t \in Target : Reload(t)
  BY <1>6, <1>7 DEF TypeOK, Reload
<1>8. CASE \E k \in Key : Expire(k)
  <2>1. PICK k \in Key : Expire(k)
    BY <1>8
  <2>2. cache[k] \in Entry
    BY <2>1 DEF TypeOK, Expire, Fresh, NoEntry
  <2> QED BY <2>1, <2>2 DEF TypeOK, Expire, Entry
<1>9. CASE Refresh
  <2>1. CASE RefreshTick
    <3>1. All \in Target
      BY DEF Target
    <3> QED BY <1>2, <2>1, <3>1 DEF TypeOK, RefreshTick
  <2> QED BY <1>9, <2>1 DEF TypeOK, Refresh, StartAutoRefresh, StopAutoRefresh
<1>10. CASE Webhook
  <2>1. All \in Target
    BY DEF Target
  <2>2. PICK d : Route(d)
    BY <1>10 DEF Webhook
  <2>3. CASE UNCHANGED vars
    BY <2>3 DEF TypeOK, vars
  <2>4. CASE /\ epoch < MaxReloads
             /\ Drop(All)
             /\ unacked' \in {unacked, unacked \ {d.change}}
             /\ UNCHANGED << server, refreshing, flights, callers >>
    <3>1. unacked' \subseteq Change
      BY <2>4 DEF TypeOK
    <3> QED BY <1>6, <2>1, <2>4, <3>1 DEF TypeOK
  <2> QED BY <2>2, <2>3, <2>4 DEF Route
<1>11. CASE UNCHANGED vars
  BY <1>11 DEF TypeOK, vars
<1> QED BY <1>1, <1>4, <1>5, <1>7, <1>8, <1>9, <1>10, <1>11 DEF Next

(* Every variable keeps its shape: the rows, the slots, the requests and   *)
(* the cache of SecretsClient.                                             *)
THEOREM TypeCorrect == Spec => []TypeOK
  BY TypeInit, TypeNext, PTL DEF Spec

-----------------------------------------------------------------------------
(* The inductive invariant.                                                *)

LEMMA InvInit == Init => Inv
<1> SUFFICES ASSUME Init PROVE Inv
  OBVIOUS
<1>1. TypeOK
  BY TypeInit
<1>2. \A f \in FlightId : ~Live(f) /\ flights[f].got = Unknown
  BY DEF Init, Live, Idle
<1>3. \A c \in Caller : ~Waiting(c)
  BY DEF Init, Waiting, AtRest
<1>4. \A k \in Key : cache[k].rev = 0 /\ floor[k] = 0 /\ server[k].rev = 1
  BY DEF Init, NoEntry, Unknown
<1>5. \A t \in Target : inflight[t] = NoFlight
  BY DEF Init
<1>6. Key \subseteq Target
  BY DEF Target
<1> QED
  BY <1>1, <1>2, <1>3, <1>4, <1>5, <1>6 DEF Inv, SlotsLive, CurrentRegistered,
     EpochsPast, AnswersCurrent, CacheCurrent, Current, JoinedSeeReload, FloorsPast,
     ReadersFly, NothingFromBeforeReload, ReadsSeeReloads, SingleFlight, Unknown

(* Numbers behind the types.                                               *)
LEMMA Numbers == ASSUME TypeOK PROVE
  /\ epoch \in Nat
  /\ \A k \in Key : server[k].rev \in Nat /\ cache[k].rev \in Nat /\ floor[k] \in Nat
  /\ \A f \in FlightId : flights[f].epoch \in Nat
  /\ \A f \in FlightId, k \in Key : flights[f].got[k] \in Nat
<1>1. \A f \in FlightId : flights[f].epoch \in Epoch /\ flights[f].got \in [Key -> Rev]
  BY IdleRequest
<1> QED BY <1>1 DEF TypeOK, Row, Rev, Epoch, Entry, NoEntry

(* A commit: what was current has a webhook due.                           *)
LEMMA CommitStep ==
  ASSUME Inv, NEW k \in Key, NEW live \in BOOLEAN, Commit(k, live)
  PROVE  Inv'
<1>0. TypeOK /\ TypeOK'
  BY TypeNext DEF Inv, Next
<1>1. /\ server' = [server EXCEPT ![k] = [rev |-> server[k].rev + 1, live |-> live]]
      /\ unacked' = unacked \cup {[key |-> k, rev |-> server[k].rev + 1]}
      /\ UNCHANGED << cache, inflight, epoch, refreshing, flights, callers, floor >>
  BY DEF Commit
<1>2. server'[k].rev = server[k].rev + 1 /\ \A j \in Key \ {k} : server'[j] = server[j]
  BY <1>0, <1>1 DEF TypeOK
<1>3. /\ \A f : Live(f)' = Live(f)
      /\ \A c : Waiting(c)' = Waiting(c)
  BY <1>1 DEF Live, Waiting
<1>4. \A j \in Key : server[j].rev <= server'[j].rev
  BY <1>0, <1>2, Numbers
<1>5. /\ FloorsPast'
  BY <1>0, <1>1, <1>3, <1>4, Numbers DEF Inv, FloorsPast, TypeOK, Pending, AtRest, Waiting, Rev
<1>6. ASSUME NEW j \in Key, NEW r, Current(j, r) PROVE Current(j, r)'
  BY <1>0, <1>1, <1>2, <1>6 DEF Current
<1>7. AnswersCurrent' /\ CacheCurrent'
  BY <1>1, <1>6 DEF Inv, AnswersCurrent, CacheCurrent
<1> QED
  BY <1>0, <1>1, <1>3, <1>5, <1>7 DEF Inv, SlotsLive, CurrentRegistered,
     EpochsPast, JoinedSeeReload, ReadersFly, NothingFromBeforeReload,
     ReadsSeeReloads, SingleFlight

(* The server reads: the answer is no older than any reload so far.        *)
LEMMA ServerReadsStep ==
  ASSUME Inv, NEW f \in FlightId, ServerReads(f)
  PROVE  Inv'
<1>0. TypeOK /\ TypeOK'
  BY TypeNext DEF Inv, Next, Fly
<1>1. UNCHANGED << server, unacked, cache, inflight, epoch, refreshing, callers, floor >>
  BY DEF ServerReads
<1>2. /\ \A g \in FlightId : Live(g)' = Live(g)
      /\ \A c : Waiting(c)' = Waiting(c)
      /\ \A g \in FlightId : /\ flights'[g].target = flights[g].target
                             /\ flights'[g].epoch = flights[g].epoch
                             /\ g # f => flights'[g] = flights[g]
  <2>1. flights[f] \in Request
    BY <1>0, IdleRequest DEF ServerReads, Live
  <2>2. /\ flights'[f].phase = "read"
        /\ flights'[f].target = flights[f].target
        /\ flights'[f].epoch = flights[f].epoch
        /\ \A g \in FlightId \ {f} : flights'[g] = flights[g]
    BY <1>0, <2>1 DEF TypeOK, ServerReads, Request
  <2>3. Live(f)' = Live(f)
    BY <2>2 DEF ServerReads, Live
  <2>4. \A g \in FlightId \ {f} : Live(g)' = Live(g)
    BY <2>2 DEF Live
  <2> QED BY <1>1, <2>2, <2>3, <2>4 DEF Waiting
<1>3. \A k \in Key : flights'[f].got[k] > 0 => flights'[f].got[k] = server[k].rev
  BY <1>0 DEF TypeOK, ServerReads
<1>a. /\ \A k \in Key : server[k].rev \in Nat /\ floor[k] \in Nat /\ floor[k] <= server[k].rev
      /\ \A c \in Caller, k \in Key : Waiting(c) => callers[c].floor[k] <= server[k].rev
  BY <1>0, Numbers DEF Inv, FloorsPast
<1>4. AnswersCurrent'
  <2> SUFFICES ASSUME NEW g \in FlightId, NEW k \in Key, flights'[g].epoch = epoch'
               PROVE  /\ flights'[g].got[k] > 0 => flights'[g].got[k] >= floor'[k]
                      /\ Current(k, flights[g].got[k])'
    BY DEF AnswersCurrent
  <2>1. CASE g = f
    BY <1>1, <1>3, <1>a, <2>1 DEF Current
  <2>2. CASE g # f
    BY <1>1, <1>2, <2>2 DEF Inv, AnswersCurrent, Current
  <2> QED BY <2>1, <2>2
<1>5. SlotsLive' /\ CurrentRegistered' /\ EpochsPast' /\ SingleFlight'
  BY <1>0, <1>1, <1>2 DEF Inv, SlotsLive, CurrentRegistered, EpochsPast, SingleFlight,
     TypeOK, Request, Idle, Target
<1>6. JoinedSeeReload'
  BY <1>0, <1>1, <1>2, <1>3, Numbers DEF Inv, JoinedSeeReload, FloorsPast, TypeOK, Target
<1>7. ReadersFly'
  BY <1>0, <1>1, <1>2 DEF Inv, ReadersFly, TypeOK, Pending, AtRest, Waiting
<1>8. ReadsSeeReloads'
  <2> SUFFICES ASSUME NEW c \in Caller, Waiting(c), callers[c].target \in Key,
                      flights'[callers[c].on].got[callers[c].target] > 0
               PROVE  flights'[callers[c].on].got[callers[c].target]
                        >= callers[c].floor[callers[c].target]
    BY <1>1, <1>2 DEF ReadsSeeReloads
  <2>1. callers[c].on \in FlightId /\ callers[c].floor \in [Key -> Rev]
    BY <1>0 DEF TypeOK, Pending, AtRest, Waiting
  <2>2. CASE callers[c].on = f
    BY <1>3, <1>a, <2>1, <2>2 DEF Rev
  <2>3. CASE callers[c].on # f
    BY <1>2, <2>1, <2>3 DEF Inv, ReadsSeeReloads
  <2> QED BY <2>2, <2>3
<1> QED
  BY <1>0, <1>1, <1>2, <1>4, <1>5, <1>6, <1>7, <1>8
     DEF Inv, CacheCurrent, Current, FloorsPast, NothingFromBeforeReload, Waiting

(* A request takes off from an empty slot, and a read may wait for it.     *)
LEMMA TakeOffStep ==
  ASSUME Inv, TypeOK', NEW f \in FlightId, NEW t \in Target, TakeOff(f, t),
         inflight[t] = NoFlight,
         callers' = callers \/ \E c \in Caller : ~Waiting(c) /\ Await(c, f, t),
         UNCHANGED << server, unacked, cache, epoch, refreshing, floor >>
  PROVE  Inv'
<1>0. TypeOK
  BY DEF Inv
<1>1. ~Live(f)
  BY DEF TakeOff, IsNextSlot
<1>2. /\ flights'[f] = [phase |-> "sent", target |-> t, epoch |-> epoch, got |-> Unknown]
      /\ \A g \in FlightId \ {f} : flights'[g] = flights[g]
      /\ inflight'[t] = f
      /\ \A u \in Target \ {t} : inflight'[u] = inflight[u]
  BY <1>0 DEF TypeOK, TakeOff
<1>3. /\ Live(f)'
      /\ \A g \in FlightId \ {f} : Live(g)' = Live(g)
  BY <1>2 DEF Live
<1>4. \A k \in Key : flights'[f].got[k] = 0
  BY <1>2 DEF Unknown
<1>5. \A c \in Caller :
        \/ callers'[c] = callers[c] /\ Waiting(c)' = Waiting(c)
        \/ callers'[c] = [on |-> f, target |-> t, floor |-> floor]
  BY <1>0 DEF TypeOK, Await, Waiting
<1>6. SlotsLive'
  BY <1>0, <1>1, <1>2, <1>3 DEF Inv, SlotsLive, TypeOK
<1>7. \A g \in FlightId \ {f} : Live(g) /\ flights[g].epoch = epoch => flights[g].target # t
  BY DEF Inv, CurrentRegistered, NoFlight, FlightId
<1>8. CurrentRegistered'
  BY <1>2, <1>3, <1>7, IdleRequest DEF Inv, CurrentRegistered
<1>9. EpochsPast'
  BY <1>0, <1>2, <1>3, Numbers DEF Inv, EpochsPast
<1>10. AnswersCurrent'
  BY <1>2, <1>4 DEF Inv, AnswersCurrent, Current
<1>11. JoinedSeeReload'
  BY <1>0, <1>2, <1>4 DEF Inv, JoinedSeeReload, TypeOK, Target
<1>12. FloorsPast'
  BY <1>0, <1>5 DEF Inv, FloorsPast
<1>13. \A c \in Caller : Waiting(c) => callers[c].on \in FlightId \ {f}
  BY <1>0, <1>1 DEF Inv, ReadersFly, TypeOK, Pending, AtRest, Waiting
<1>14. ReadersFly'
  BY <1>2, <1>3, <1>5, <1>13 DEF Inv, ReadersFly
<1>15. ReadsSeeReloads'
  BY <1>2, <1>4, <1>5, <1>13 DEF Inv, ReadsSeeReloads
<1>16. SingleFlight'
  BY <1>2, <1>3, <1>7 DEF Inv, SingleFlight
<1> QED
  BY <1>6, <1>8, <1>9, <1>10, <1>11, <1>12, <1>14, <1>15, <1>16
     DEF Inv, CacheCurrent, Current, NothingFromBeforeReload

(* A read joins the request in its slot.                                   *)
LEMMA JoinStep ==
  ASSUME Inv, TypeOK', NEW c \in Caller, NEW t \in Target, inflight[t] # NoFlight,
         Await(c, inflight[t], t),
         UNCHANGED << server, unacked, cache, inflight, epoch, refreshing, flights, floor >>
  PROVE  Inv'
<1>0. TypeOK
  BY DEF Inv
<1>1. \A g : Live(g)' = Live(g)
  BY DEF Live
<1>2. \A d \in Caller :
        \/ callers'[d] = callers[d] /\ Waiting(d)' = Waiting(d)
        \/ callers'[d] = [on |-> inflight[t], target |-> t, floor |-> floor]
  BY <1>0 DEF TypeOK, Await, Waiting
<1>3. FloorsPast'
  BY <1>0, <1>2 DEF Inv, FloorsPast
<1>4. ReadersFly'
  BY <1>1, <1>2 DEF Inv, ReadersFly, SlotsLive
<1>5. ReadsSeeReloads'
  BY <1>2 DEF Inv, ReadsSeeReloads, JoinedSeeReload
<1> QED
  BY <1>1, <1>3, <1>4, <1>5 DEF Inv, SlotsLive, CurrentRegistered, EpochsPast,
     AnswersCurrent, CacheCurrent, Current, JoinedSeeReload, NothingFromBeforeReload,
     SingleFlight

(* Nothing that the relations speak of changes, but a read may give up, a  *)
(* request reach its body, or an entry pass its TTL.                       *)
LEMMA CalmStep ==
  ASSUME Inv, TypeOK',
         UNCHANGED << server, unacked, inflight, epoch, floor >>,
         \A k \in Key : cache'[k].rev = cache[k].rev,
         \A g \in FlightId : /\ Live(g)' = Live(g)
                             /\ flights'[g].target = flights[g].target
                             /\ flights'[g].epoch = flights[g].epoch
                             /\ flights'[g].got = flights[g].got,
         \A c \in Caller : callers'[c] = callers[c] \/ callers'[c] = AtRest
  PROVE  Inv'
<1>0. TypeOK
  BY DEF Inv
<1>1. \A c \in Caller : Waiting(c)' => callers'[c] = callers[c] /\ Waiting(c)
  BY DEF Waiting, AtRest
<1>2. \A c \in Caller : Waiting(c) => callers[c].on \in FlightId
  BY <1>0 DEF TypeOK, Pending, AtRest, Waiting
<1>3. \A t \in Target : inflight[t] # NoFlight => inflight[t] \in FlightId
  BY <1>0 DEF TypeOK
<1>4. SlotsLive' /\ JoinedSeeReload'
  BY <1>3 DEF Inv, SlotsLive, JoinedSeeReload, Target
<1>5. CurrentRegistered' /\ EpochsPast' /\ AnswersCurrent' /\ SingleFlight'
  BY DEF Inv, CurrentRegistered, EpochsPast, AnswersCurrent, SingleFlight, Current
<1>6. ReadersFly' /\ ReadsSeeReloads' /\ FloorsPast'
  BY <1>1, <1>2 DEF Inv, ReadersFly, ReadsSeeReloads, FloorsPast
<1>7. CacheCurrent' /\ NothingFromBeforeReload'
  BY DEF Inv, CacheCurrent, Current, NothingFromBeforeReload
<1> QED BY <1>4, <1>5, <1>6, <1>7 DEF Inv

(* A request ends; what it stores is of this generation.                   *)
LEMMA LandStep ==
  ASSUME Inv, TypeOK', NEW f \in FlightId, Live(f), Land(f), cache' \in {cache, Store(f)},
         UNCHANGED << server, unacked, epoch, refreshing, floor >>
  PROVE  Inv'
<1>0. TypeOK
  BY DEF Inv
<1>1. /\ flights'[f] = Idle
      /\ \A g \in FlightId \ {f} : flights'[g] = flights[g]
      /\ \A t \in Target : \/ inflight'[t] = inflight[t] /\ inflight[t] # f
                           \/ inflight'[t] = NoFlight /\ inflight[t] = f
                           \/ inflight'[t] = inflight[t] /\ flights[f].target # t
      /\ \A c \in Caller : \/ callers'[c] = callers[c] /\ callers[c].on # f
                           \/ callers'[c] = AtRest
  BY <1>0 DEF TypeOK, Land, Cleanup
<1>2. /\ ~Live(f)'
      /\ \A g \in FlightId \ {f} : Live(g)' = Live(g)
  BY <1>1 DEF Live, Idle
<1>3. \A k \in Key : flights'[f].got[k] = 0
  BY <1>1 DEF Idle, Unknown
<1>4. \A c \in Caller : Waiting(c)' =>
        Waiting(c) /\ callers'[c] = callers[c] /\ callers[c].on \in FlightId \ {f}
  BY <1>0, <1>1 DEF TypeOK, Pending, AtRest, Waiting
<1>5. \A t \in Target : inflight'[t] # NoFlight =>
        inflight'[t] = inflight[t] /\ inflight[t] \in FlightId \ {f}
  BY <1>0, <1>1 DEF Inv, SlotsLive, TypeOK
<1>6. SlotsLive' /\ JoinedSeeReload'
  BY <1>1, <1>2, <1>5 DEF Inv, SlotsLive, JoinedSeeReload, Target
<1>7. CurrentRegistered'
  <2> SUFFICES ASSUME NEW g \in FlightId, Live(g)', flights'[g].epoch = epoch'
               PROVE  inflight'[flights'[g].target] = g
    BY DEF CurrentRegistered
  <2>1. g # f /\ Live(g) /\ flights'[g] = flights[g] /\ flights[g].target \in Target
    BY <1>0, <1>1, <1>2, IdleRequest
  <2>2. inflight[flights[g].target] = g
    BY <2>1 DEF Inv, CurrentRegistered
  <2> QED BY <1>1, <2>1, <2>2
<1>8. EpochsPast' /\ SingleFlight'
  BY <1>1, <1>2 DEF Inv, EpochsPast, SingleFlight
<1>9. AnswersCurrent'
  BY <1>1, <1>3 DEF Inv, AnswersCurrent, Current
<1>10. ReadersFly' /\ ReadsSeeReloads' /\ FloorsPast'
  BY <1>1, <1>2, <1>4 DEF Inv, ReadersFly, ReadsSeeReloads, FloorsPast
<1>11. CacheCurrent' /\ NothingFromBeforeReload'
  <2>1. CASE cache' = cache
    BY <2>1 DEF Inv, CacheCurrent, Current, NothingFromBeforeReload
  <2>2. CASE cache' = Store(f) /\ cache' # cache
    <3>1. /\ flights[f].epoch = epoch
          /\ \A k \in Key : \/ cache'[k] = cache[k]
                            \/ cache'[k].rev = flights[f].got[k] /\ cache'[k].rev > 0
      BY <2>2 DEF Store
    <3>2. \A k \in Key : /\ flights[f].got[k] > 0 => flights[f].got[k] >= floor[k]
                         /\ Current(k, flights[f].got[k])
      BY <3>1 DEF Inv, AnswersCurrent
    <3> QED BY <3>1, <3>2 DEF Inv, CacheCurrent, Current, NothingFromBeforeReload
  <2> QED BY <2>1, <2>2
<1> QED
  BY <1>6, <1>7, <1>8, <1>9, <1>10, <1>11 DEF Inv

(* A reload: no request under way is of the new generation.                *)
LEMMA DropStep ==
  ASSUME Inv, TypeOK', NEW t \in Target, Drop(t),
         unacked' = unacked \/ t = All,
         UNCHANGED << server, refreshing, flights, callers >>
  PROVE  Inv'
<1>0. TypeOK
  BY DEF Inv
<1>1. /\ epoch' = epoch + 1
      /\ \A u \in Target : inflight'[u] = NoFlight \/ (inflight'[u] = inflight[u] /\ t # u /\ t # All)
      /\ \A k \in Key : \/ /\ t \notin {k, All}
                           /\ cache'[k] = cache[k]
                           /\ floor'[k] = floor[k]
                        \/ /\ t \in {k, All}
                           /\ cache'[k] = NoEntry
                           /\ floor'[k] = server[k].rev
  BY DEF Drop
<1>2. /\ \A f : Live(f)' = Live(f)
      /\ \A c : Waiting(c)' = Waiting(c)
  BY DEF Live, Waiting
<1>3. \A f \in FlightId : Live(f) => flights[f].epoch # epoch' /\ flights[f].epoch <= epoch'
  BY <1>0, <1>1, Numbers DEF Inv, EpochsPast
<1>4. \A f \in FlightId, k \in Key : flights[f].epoch = epoch' => flights[f].got[k] = 0
  BY <1>0, <1>3, IdleRequest DEF Idle, Unknown
<1>5. SlotsLive' /\ CurrentRegistered' /\ EpochsPast' /\ SingleFlight'
  BY <1>1, <1>2, <1>3 DEF Inv, SlotsLive, CurrentRegistered, EpochsPast, SingleFlight
<1>6. AnswersCurrent'
  BY <1>4 DEF AnswersCurrent, Current
<1>7. CacheCurrent' /\ NothingFromBeforeReload'
  BY <1>1 DEF Inv, CacheCurrent, Current, NothingFromBeforeReload, NoEntry
<1>8. JoinedSeeReload'
  BY <1>1 DEF Inv, JoinedSeeReload, Target
<1>9. FloorsPast'
  BY <1>0, <1>1, <1>2, Numbers DEF Inv, FloorsPast
<1>10. ReadersFly' /\ ReadsSeeReloads'
  BY <1>2 DEF Inv, ReadersFly, ReadsSeeReloads
<1> QED BY <1>5, <1>6, <1>7, <1>8, <1>9, <1>10 DEF Inv

LEMMA InvNext == Inv /\ [Next]_vars => Inv'
<1> SUFFICES ASSUME Inv, [Next]_vars PROVE Inv'
  OBVIOUS
<1>0. TypeOK /\ TypeOK'
  BY TypeNext DEF Inv
<1>t. Key \subseteq Target /\ All \in Target
  BY DEF Target
<1>1. CASE \E k \in Key, live \in BOOLEAN : Commit(k, live)
  BY <1>1, CommitStep
<1>2. ASSUME NEW c \in Caller, Read(c) PROVE Inv'
  <2>1. CASE AbortRead(c)
    <3>1. \A d \in Caller : callers'[d] = callers[d] \/ callers'[d] = AtRest
      BY <1>0, <2>1 DEF TypeOK, AbortRead
    <3> QED BY <1>0, <2>1, <3>1, CalmStep DEF AbortRead, Live
  <2>2. ASSUME NEW t \in Target, ~Waiting(c),
               \/ /\ inflight[t] # NoFlight
                  /\ Await(c, inflight[t], t)
                  /\ UNCHANGED << flights, inflight >>
               \/ /\ inflight[t] = NoFlight
                  /\ \E f \in FlightId : TakeOff(f, t) /\ Await(c, f, t),
               UNCHANGED << server, unacked, cache, epoch, refreshing, floor >>
        PROVE  Inv'
    BY <1>0, <2>2, JoinStep, TakeOffStep
  <2>3. CASE Preload(c)
    BY <1>t, <2>2, <2>3 DEF Preload
  <2>4. ASSUME NEW k \in Key, GetSecret(c, k) PROVE Inv'
    BY <1>t, <2>2, <2>4 DEF GetSecret
  <2> QED BY <1>2, <2>1, <2>3, <2>4 DEF Read
<1>3. ASSUME NEW f \in FlightId, Fly(f) PROVE Inv'
  <2>1. CASE ServerReads(f)
    BY <2>1, ServerReadsStep
  <2>2. CASE HeadersArrive(f)
    <3>1. flights[f] \in Request /\ flights[f].phase = "read"
      BY <1>0, <2>2, IdleRequest DEF HeadersArrive, Live
    <3>2. /\ flights'[f].phase = "body"
          /\ flights'[f].target = flights[f].target
          /\ flights'[f].epoch = flights[f].epoch
          /\ flights'[f].got = flights[f].got
          /\ \A g \in FlightId \ {f} : flights'[g] = flights[g]
      BY <1>0, <2>2, <3>1 DEF TypeOK, HeadersArrive, Request
    <3>3. \A g \in FlightId : Live(g)' = Live(g)
      BY <3>1, <3>2 DEF Live
    <3>4. UNCHANGED << server, unacked, inflight, epoch, floor, cache, callers >>
      BY <2>2 DEF HeadersArrive
    <3> QED BY <1>0, <3>2, <3>3, <3>4, CalmStep
  <2>3. CASE NetworkFails(f) \/ RequestTimesOut(f) \/ AnswerIsError(f)
    BY <1>0, <2>3, LandStep DEF NetworkFails, RequestTimesOut, AnswerIsError, TimerRuns, Live
  <2>4. CASE AnswerIsData(f)
    BY <1>0, <2>4, LandStep DEF AnswerIsData, Live
  <2> QED BY <1>3, <2>1, <2>2, <2>3, <2>4 DEF Fly, Settle
<1>4. CASE \E t \in Target : Reload(t)
  BY <1>0, <1>4, DropStep DEF Reload
<1>5. CASE \E k \in Key : Expire(k)
  <2>1. PICK k \in Key : Expire(k)
    BY <1>5
  <2>2. \A j \in Key : cache'[j].rev = cache[j].rev
    <3>1. cache[k] \in Entry
      BY <1>0, <2>1 DEF TypeOK, Expire, Fresh, NoEntry
    <3> QED BY <1>0, <2>1, <3>1 DEF TypeOK, Expire, Entry
  <2> QED BY <1>0, <2>1, <2>2, CalmStep DEF Expire, Live
<1>6. CASE Refresh
  <2>1. CASE RefreshTick
    BY <1>0, <1>t, <2>1, TakeOffStep DEF RefreshTick
  <2>2. CASE StartAutoRefresh \/ StopAutoRefresh
    BY <1>0, <2>2, CalmStep DEF StartAutoRefresh, StopAutoRefresh, Live
  <2> QED BY <1>6, <2>1, <2>2 DEF Refresh
<1>7. CASE UNCHANGED vars
  BY <1>0, <1>7, CalmStep DEF vars, Live
<1>8. CASE Webhook
  <2>1. PICK d : Route(d)
    BY <1>8 DEF Webhook
  <2> QED BY <1>0, <1>t, <1>7, <2>1, DropStep DEF Route
<1> QED BY <1>1, <1>2, <1>3, <1>4, <1>5, <1>6, <1>7, <1>8 DEF Next

THEOREM Invariance == Spec => []Inv
  BY InvInit, InvNext, PTL DEF Spec

(* reload() empties the cache for good: nothing that was read on the       *)
(* server before it is put back by a request it found under way.           *)
THEOREM ReloadForgets == Spec => []NothingFromBeforeReload
<1>1. Inv => NothingFromBeforeReload
  BY DEF Inv
<1> QED BY <1>1, Invariance, PTL

(* A read of a key after reload() of it joins no request from before it.   *)
THEOREM ReadsAreSinceReload == Spec => []ReadsSeeReloads
<1>1. Inv => ReadsSeeReloads
  BY DEF Inv
<1> QED BY <1>1, Invariance, PTL

(* One request per target and generation, whichever ends first.            *)
THEOREM OneRequest == Spec => []SingleFlight
<1>1. Inv => SingleFlight
  BY DEF Inv
<1> QED BY <1>1, Invariance, PTL

(* With every webhook acknowledged, every cached value is the server's.    *)
THEOREM AcknowledgedIsCurrent == Spec => []AcknowledgedMeansCurrent
<1>1. Inv => AcknowledgedMeansCurrent
  BY DEF Inv, AcknowledgedMeansCurrent, CacheCurrent, Current
<1> QED BY <1>1, Invariance, PTL
=============================================================================
