------------------------ MODULE SecretStore_proofs -------------------------
(***************************************************************************)
(* Theorems about SecretStore, for every set of environments, keys, values *)
(* and concurrent requests, and every bound on the commits.                *)
(***************************************************************************)
EXTENDS SecretStore, FiniteSetTheorems, TLAPS

AnyCall == IdleCall \cup LookedUpCall \cup WriteCall \cup ListCall

(* What the steps of a request in flight rely on.  A rollback's versions   *)
(* are older than the row's next one, and its value is the target's.       *)
CallInv(c) ==
  /\ calls[c].op \in {"lookedup", "write"} =>
       /\ calls[c].from <= secrets[calls[c].slot].version
       /\ calls[c].from # calls[c].to
  /\ calls[c].op = "write" => history[calls[c].slot][calls[c].to] = calls[c].val

LiveHasVersion == \A s \in Slot : secrets[s].live => secrets[s].version > 0

LEMMA VersionPositive == ASSUME NEW n \in Version PROVE n > 0 /\ n <= n
BY SecretAssumption DEF Version

(* Each property follows from what the others say of the same rows, so     *)
(* they are shown together.                                                *)
StoreInv ==
  /\ TypeOK
  /\ LiveHasVersion
  /\ HistoryComplete
  /\ RollbackHonest
  /\ ListedIsStored
  /\ \A c \in Call : CallInv(c)

----------------------------------------------------------------------------
(* The tables keep their types.                                            *)
LEMMA WriteVersionType ==
  ASSUME TypeOK, NEW s \in Slot, NEW v \in Value,
         NEW entry \in Entry, WriteVersion(s, v, entry)
  PROVE  /\ secrets' \in [Slot -> Secret]
         /\ history' \in [Slot -> [Version -> Maybe]]
         /\ audit' \in Seq(Entry)
<1> DEFINE n == secrets[s].version + 1
<1>1. n \in Version /\ n \in 0..MaxCommits
  BY SecretAssumption DEF WriteVersion, Version
<1>2. secrets' \in [Slot -> Secret]
  <2>1. [version |-> n, val |-> v, live |-> TRUE] \in Secret
    BY <1>1 DEF Secret, Maybe
  <2> QED
    BY <2>1 DEF WriteVersion, TypeOK
<1>3. history' \in [Slot -> [Version -> Maybe]]
  <2>1. [history[s] EXCEPT ![n] = v] \in [Version -> Maybe]
    BY <1>1 DEF TypeOK, Maybe
  <2>2. history' = [history EXCEPT ![s] = [history[s] EXCEPT ![n] = v]]
    BY DEF WriteVersion
  <2> HIDE DEF n
  <2> QED
    BY <2>1, <2>2 DEF TypeOK
<1>4. audit' \in Seq(Entry)
  <2>1. [entry EXCEPT !.version = n] \in Entry
    BY <1>1 DEF Entry
  <2> HIDE DEF n
  <2>2. audit' = Append(audit, [entry EXCEPT !.version = secrets[s].version + 1])
    BY DEF WriteVersion
  <2> QED
    BY <2>1, <2>2 DEF TypeOK, n
<1> QED
  BY <1>2, <1>3, <1>4

LEMMA EntryTypes ==
  ASSUME NEW s \in Slot
  PROVE  /\ \A a \in {"upsert", "delete"} :
              [action |-> a, slot |-> s, version |-> 0, from |-> 0, to |-> 0] \in Entry
         /\ \A f, t \in Version :
              [action |-> "rollback", slot |-> s, version |-> 0, from |-> f, to |-> t] \in Entry
BY SecretAssumption DEF Entry, Version

LEMMA EntryVersion ==
  ASSUME NEW e \in Entry, NEW m \in Version PROVE [e EXCEPT !.version = m] \in Entry
<1>1. m \in 0..MaxCommits
  BY SecretAssumption DEF Version
<1> QED
  BY <1>1 DEF Entry

LEMMA InitType == Init => TypeOK
BY SecretAssumption DEF Init, TypeOK, Secret, Absent, Maybe, IdleCall, Idle

LEMMA StepType == StoreInv /\ [Next]_vars => TypeOK'
<1> SUFFICES ASSUME StoreInv, [Next]_vars PROVE TypeOK'
  OBVIOUS
<1> USE DEF StoreInv
<1>1. ASSUME NEW s \in Slot, NEW v \in Value, Put(s, v) PROVE TypeOK'
  BY <1>1, WriteVersionType, EntryTypes DEF Put, TypeOK
<1>2. ASSUME NEW s \in Slot, Delete(s) PROVE TypeOK'
  <2>1. [secrets[s] EXCEPT !.live = FALSE] \in Secret
    BY DEF TypeOK, Secret
  <2>2. secrets' = [secrets EXCEPT ![s] = [secrets[s] EXCEPT !.live = FALSE]]
    BY <1>2 DEF Delete
  <2>3. secrets' \in [Slot -> Secret]
    BY <2>1, <2>2 DEF TypeOK
  <2>4. audit' \in Seq(Entry)
    <3>1. [action |-> "delete", slot |-> s, version |-> 0, from |-> 0, to |-> 0] \in Entry
      BY EntryTypes
    <3>2. audit' = Append(audit, [action |-> "delete", slot |-> s, version |-> 0,
                                  from |-> 0, to |-> 0])
      BY <1>2 DEF Delete
    <3> QED
      BY <3>1, <3>2 DEF TypeOK
  <2> QED
    BY <1>2, <2>3, <2>4 DEF Delete, TypeOK
<1>3. ASSUME NEW c \in Call, NEW s \in Slot, NEW target \in Version, RollbackLookup(c, s, target)
      PROVE  TypeOK'
  <2>1. secrets[s].version \in Version
    BY <1>3, SecretAssumption DEF RollbackLookup, TypeOK, Secret, Version, LiveHasVersion
  <2>2. [op |-> "lookedup", slot |-> s, from |-> secrets[s].version, to |-> target, val |-> Nothing]
          \in LookedUpCall
    BY <2>1 DEF LookedUpCall
  <2> QED
    BY <1>3, <2>2 DEF RollbackLookup, TypeOK
<1>4. ASSUME NEW c \in Call, RollbackTarget(c) PROVE TypeOK'
  <2> DEFINE found == history[calls[c].slot][calls[c].to]
  <2>1. calls[c] \in LookedUpCall
    BY <1>4 DEF RollbackTarget, TypeOK, IdleCall, WriteCall, ListCall
  <2>2. found \in Maybe
    BY <2>1 DEF LookedUpCall, TypeOK
  <2>3. (IF found = Nothing THEN Idle ELSE [calls[c] EXCEPT !.op = "write", !.val = found])
          \in AnyCall
    <3> HIDE DEF found
    <3> QED
      BY <2>1, <2>2 DEF LookedUpCall, WriteCall, Idle, IdleCall, AnyCall, Maybe
  <2> QED
    BY <1>4, <2>3 DEF RollbackTarget, TypeOK, AnyCall
<1>5. ASSUME NEW c \in Call, RollbackCommit(c) PROVE TypeOK'
  <2>1. calls[c] \in WriteCall
    BY <1>5 DEF RollbackCommit, TypeOK, IdleCall, LookedUpCall, ListCall
  <2>2. /\ secrets' \in [Slot -> Secret]
        /\ history' \in [Slot -> [Version -> Maybe]]
        /\ audit' \in Seq(Entry)
    BY <1>5, <2>1, WriteVersionType, EntryTypes DEF RollbackCommit, WriteCall
  <2>3. calls' \in [Call -> AnyCall]
    BY <1>5 DEF RollbackCommit, TypeOK, AnyCall, Idle, IdleCall
  <2> QED
    BY <2>2, <2>3 DEF TypeOK, AnyCall
<1>6. ASSUME NEW c \in Call, NEW e \in Env, ListBegin(c, e) PROVE TypeOK'
  <2>1. [op |-> "list", env |-> e, read |-> 0, snap |-> [k \in Key |-> Unlisted]] \in ListCall
    BY DEF ListCall
  <2> QED
    BY <1>6, <2>1 DEF ListBegin, TypeOK
<1>7. ASSUME NEW c \in Call, ListRead(c) PROVE TypeOK'
  <2> DEFINE at == Lineage[calls[c].env][calls[c].read + 1]
             snap == [k \in Key |->
                       IF secrets[<< at, k >>].live
                       THEN [env |-> at, version |-> secrets[<< at, k >>].version,
                             val |-> secrets[<< at, k >>].val]
                       ELSE calls[c].snap[k]]
  <2>1. calls[c] \in ListCall /\ calls[c].read < Len(Lineage[calls[c].env])
    BY <1>7 DEF ListRead, TypeOK, IdleCall, LookedUpCall, WriteCall
  <2>2. at \in Env
    <3>1. Lineage[calls[c].env] \in Seq(Env) /\ calls[c].read \in Nat
      BY <2>1, SecretAssumption DEF ListCall
    <3>2. calls[c].read + 1 \in 1..Len(Lineage[calls[c].env])
      BY <2>1, <3>1
    <3> QED
      BY <3>1, <3>2
  <2>3. ASSUME NEW k \in Key, secrets[<< at, k >>].live
        PROVE  [env |-> at, version |-> secrets[<< at, k >>].version,
                val |-> secrets[<< at, k >>].val] \in Listed
    <3>1. << at, k >> \in Slot
      BY <2>2 DEF Slot
    <3>2. secrets[<< at, k >>].version \in Version
      BY <2>3, <3>1, SecretAssumption DEF TypeOK, Secret, Version, LiveHasVersion
    <3>3. secrets[<< at, k >>].val \in Value
      <4>1. secrets[<< at, k >>].version > 0
            /\ secrets[<< at, k >>].version <= secrets[<< at, k >>].version
        BY <3>2, VersionPositive
      <4>2. history[<< at, k >>][secrets[<< at, k >>].version] = secrets[<< at, k >>].val
            /\ history[<< at, k >>][secrets[<< at, k >>].version] # Nothing
        BY <3>1, <3>2, <4>1 DEF HistoryComplete
      <4>3. secrets[<< at, k >>].val \in Maybe
        BY <3>1 DEF TypeOK, Secret
      <4> QED
        BY <4>2, <4>3 DEF Maybe
    <3> QED
      BY <2>2, <3>2, <3>3 DEF Listed
  <2>4. snap \in [Key -> Listed \cup {Unlisted}]
    <3>1. calls[c].snap \in [Key -> Listed \cup {Unlisted}]
      BY <2>1 DEF ListCall
    <3> HIDE DEF at
    <3> QED
      BY <2>3, <3>1
  <2>5. calls' = [calls EXCEPT ![c] = [calls[c] EXCEPT !.read = calls[c].read + 1, !.snap = snap]]
    BY <1>7 DEF ListRead
  <2>6. [calls[c] EXCEPT !.read = calls[c].read + 1, !.snap = snap] \in ListCall
    <3>1. calls[c].read + 1 \in Nat
      BY <2>1 DEF ListCall
    <3>2. ASSUME NEW r \in Nat, NEW m \in [Key -> Listed \cup {Unlisted}]
          PROVE  [calls[c] EXCEPT !.read = r, !.snap = m] \in ListCall
      BY <2>1 DEF ListCall
    <3> HIDE DEF snap
    <3> QED
      BY <2>4, <3>1, <3>2
  <2> HIDE DEF snap
  <2> QED
    BY <1>7, <2>5, <2>6 DEF ListRead, TypeOK
<1>8. ASSUME NEW c \in Call, Finish(c) PROVE TypeOK'
  BY <1>8 DEF Finish, TypeOK, Idle, IdleCall
<1>9. CASE UNCHANGED vars
  BY <1>9 DEF vars, TypeOK
<1> QED
  BY <1>1, <1>2, <1>3, <1>4, <1>5, <1>6, <1>7, <1>8, <1>9 DEF Next

----------------------------------------------------------------------------
(* What WriteVersion does to the rows.                                     *)
LEMMA WriteVersionRows ==
  ASSUME StoreInv, NEW s \in Slot, NEW v \in Value, NEW entry \in Entry,
         WriteVersion(s, v, entry)
  PROVE  /\ secrets[s].version + 1 \in Version
         /\ secrets'[s].version = secrets[s].version + 1
         /\ secrets'[s].val = v /\ secrets'[s].live
         /\ history'[s][secrets[s].version + 1] = v
         /\ history[s][secrets[s].version + 1] = Nothing
         /\ \A m \in Version : m # secrets[s].version + 1 => history'[s][m] = history[s][m]
         /\ \A r \in Slot : r # s => secrets'[r] = secrets[r] /\ history'[r] = history[r]
         /\ audit' = Append(audit, [entry EXCEPT !.version = secrets[s].version + 1])
<1>1. TypeOK
  BY DEF StoreInv
<1>2. history[s] \in [Version -> Maybe]
  BY <1>1 DEF TypeOK
<1>3. secrets'[s] = [version |-> secrets[s].version + 1, val |-> v, live |-> TRUE]
  BY <1>1 DEF TypeOK, WriteVersion
<1>4. /\ secrets[s].version + 1 \in Version
      /\ history[s][secrets[s].version + 1] = Nothing
      /\ audit' = Append(audit, [entry EXCEPT !.version = secrets[s].version + 1])
  BY DEF WriteVersion
<1>5. \A r \in Slot : r # s => secrets'[r] = secrets[r] /\ history'[r] = history[r]
  BY <1>1 DEF TypeOK, WriteVersion
<1>6. history'[s] = [history[s] EXCEPT ![secrets[s].version + 1] = v]
  BY <1>1 DEF TypeOK, WriteVersion
<1>7. /\ history'[s][secrets[s].version + 1] = v
      /\ \A m \in Version : m # secrets[s].version + 1 => history'[s][m] = history[s][m]
  BY <1>2, <1>4, <1>6
<1> QED
  BY <1>3, <1>4, <1>5, <1>7

AppendOnly ==
  \A s \in Slot :
    /\ secrets'[s].version >= secrets[s].version
    /\ \A n \in Version : history[s][n] # Nothing => history'[s][n] = history[s][n]

(* Every step either writes one version, or leaves versions, values and    *)
(* history as they are.                                                    *)
Quiet ==
  /\ history' = history
  /\ \A s \in Slot : /\ secrets'[s].version = secrets[s].version
                     /\ secrets'[s].val = secrets[s].val
                     /\ secrets'[s].live => secrets[s].live

LEMMA QuietAppendOnly == ASSUME TypeOK, Quiet PROVE AppendOnly
<1>1. \A s \in Slot : secrets[s].version \in Nat
  BY SecretAssumption DEF TypeOK, Secret
<1> QED
  BY <1>1 DEF Quiet, AppendOnly

LEMMA WriteAppendOnly ==
  ASSUME StoreInv, NEW s \in Slot, NEW v \in Value, NEW entry \in Entry,
         WriteVersion(s, v, entry)
  PROVE  AppendOnly
<1>1. \A r \in Slot : secrets[r].version \in Nat
  BY SecretAssumption DEF StoreInv, TypeOK, Secret
<1>2. secrets'[s].version = secrets[s].version + 1
  BY WriteVersionRows
<1>3. ASSUME NEW r \in Slot PROVE secrets'[r].version >= secrets[r].version
  <2>1. CASE r = s
    BY <1>1, <1>2, <2>1
  <2>2. CASE r # s
    <3>1. secrets'[r] = secrets[r]
      BY <2>2, WriteVersionRows
    <3> QED
      BY <1>1, <3>1
  <2> QED
    BY <2>1, <2>2
<1>4. ASSUME NEW r \in Slot, NEW m \in Version, history[r][m] # Nothing
      PROVE  history'[r][m] = history[r][m]
  <2>1. CASE r = s
    <3>1. /\ history[s][secrets[s].version + 1] = Nothing
          /\ \A i \in Version : i # secrets[s].version + 1 => history'[s][i] = history[s][i]
      BY WriteVersionRows
    <3>2. history[s][m] # Nothing
      BY <1>4, <2>1
    <3>3. history'[s][m] = history[s][m]
      BY <3>1, <3>2
    <3> QED
      BY <2>1, <3>3
  <2>2. CASE r # s
    BY <2>2, WriteVersionRows
  <2> QED
    BY <2>1, <2>2
<1> QED
  BY <1>3, <1>4 DEF AppendOnly

(* The steps that write no version.                                        *)
LEMMA OtherStepsQuiet ==
  ASSUME TypeOK,
         \/ \E s \in Slot : Delete(s)
         \/ \E c \in Call : RollbackTarget(c) \/ ListRead(c) \/ Finish(c)
         \/ \E c \in Call, s \in Slot, target \in Version : RollbackLookup(c, s, target)
         \/ \E c \in Call, e \in Env : ListBegin(c, e)
         \/ UNCHANGED vars
  PROVE  Quiet
<1>1. ASSUME NEW s \in Slot, Delete(s) PROVE Quiet
  <2>1. secrets[s] \in Secret
    BY DEF TypeOK
  <2>2. /\ [secrets[s] EXCEPT !.live = FALSE].version = secrets[s].version
        /\ [secrets[s] EXCEPT !.live = FALSE].val = secrets[s].val
        /\ [secrets[s] EXCEPT !.live = FALSE].live = FALSE
    BY <2>1 DEF Secret
  <2>3. secrets' = [secrets EXCEPT ![s] = [secrets[s] EXCEPT !.live = FALSE]] /\ history' = history
    BY <1>1 DEF Delete
  <2>4. ASSUME NEW r \in Slot
        PROVE  secrets'[r] = IF r = s THEN [secrets[s] EXCEPT !.live = FALSE] ELSE secrets[r]
    BY <2>3 DEF TypeOK
  <2> QED
    BY <2>2, <2>3, <2>4 DEF Quiet
<1>2. ASSUME secrets' = secrets, history' = history PROVE Quiet
  BY <1>2 DEF Quiet
<1> QED
  BY <1>1, <1>2 DEF RollbackTarget, ListRead, Finish, RollbackLookup, ListBegin, vars

LEMMA HistoryStep ==
  ASSUME StoreInv, [Next]_vars
  PROVE  AppendOnly /\ LiveHasVersion' /\ HistoryComplete'
<1>1. TypeOK /\ LiveHasVersion /\ HistoryComplete
  BY DEF StoreInv
<1>2. \A s \in Slot : secrets[s].version \in Nat
  BY <1>1, SecretAssumption DEF TypeOK, Secret
<1>3. ASSUME NEW s \in Slot, NEW v \in Value, NEW entry \in Entry, WriteVersion(s, v, entry)
      PROVE  AppendOnly /\ LiveHasVersion' /\ HistoryComplete'
  <2> DEFINE n == secrets[s].version + 1
  <2>1. /\ n \in Version
        /\ secrets'[s].version = n /\ secrets'[s].val = v
        /\ history'[s][n] = v
        /\ \A m \in Version : m # n => history'[s][m] = history[s][m]
        /\ \A r \in Slot : r # s => secrets'[r] = secrets[r] /\ history'[r] = history[r]
    BY <1>3, WriteVersionRows
  <2>2. v # Nothing
    BY SecretAssumption
  <2>3. LiveHasVersion'
    BY <1>1, <1>2, <2>1 DEF LiveHasVersion
  <2>4. ASSUME NEW m \in Version
        PROVE  history'[s][m] # Nothing <=> m <= secrets'[s].version
    <3>1. m \in Nat /\ (history[s][m] # Nothing <=> m <= secrets[s].version)
      BY <1>1 DEF HistoryComplete, Version
    <3> QED
      BY <1>2, <2>1, <2>2, <3>1
  <2>5. HistoryComplete'
    BY <1>1, <2>1, <2>4 DEF HistoryComplete
  <2> QED
    BY <1>3, <2>3, <2>5, WriteAppendOnly
<1>4. ASSUME NEW s \in Slot, NEW v \in Value, Put(s, v)
      PROVE  AppendOnly /\ LiveHasVersion' /\ HistoryComplete'
  BY <1>3, <1>4, EntryTypes DEF Put
<1>5. ASSUME NEW c \in Call, RollbackCommit(c)
      PROVE  AppendOnly /\ LiveHasVersion' /\ HistoryComplete'
  <2>1. calls[c] \in WriteCall
    BY <1>1, <1>5 DEF RollbackCommit, TypeOK, IdleCall, LookedUpCall, ListCall
  <2> QED
    BY <1>3, <1>5, <2>1, EntryTypes DEF RollbackCommit, WriteCall
<1>6. ASSUME Quiet PROVE AppendOnly /\ LiveHasVersion' /\ HistoryComplete'
  BY <1>1, <1>6, QuietAppendOnly DEF Quiet, LiveHasVersion, HistoryComplete
<1> QED
  BY <1>1, <1>4, <1>5, <1>6, OtherStepsQuiet DEF Next

----------------------------------------------------------------------------
(* A request that a step leaves alone keeps what it relies on: rows of     *)
(* history are never changed, and versions only grow.                      *)
LEMMA CallInvKept ==
  ASSUME TypeOK, TypeOK', AppendOnly, NEW c \in Call, calls'[c] = calls[c], CallInv(c)
  PROVE  CallInv(c)'
<1>1. ASSUME calls[c].op \in {"lookedup", "write"}
      PROVE  calls[c].slot \in Slot /\ calls[c].from \in Nat /\ calls[c].to \in Version
  BY <1>1 DEF TypeOK, IdleCall, LookedUpCall, WriteCall, ListCall, Version
<1>2. ASSUME calls[c].op \in {"lookedup", "write"}
      PROVE  calls[c].from <= secrets'[calls[c].slot].version
  <2>1. secrets[calls[c].slot].version \in Nat
    BY <1>1, <1>2, SecretAssumption DEF TypeOK, Secret
  <2>2. calls[c].from <= secrets[calls[c].slot].version
    BY <1>2 DEF CallInv
  <2>3. secrets'[calls[c].slot].version >= secrets[calls[c].slot].version
    BY <1>1, <1>2 DEF AppendOnly
  <2>4. secrets'[calls[c].slot].version \in Nat
    BY <1>1, <1>2, SecretAssumption DEF TypeOK, Secret
  <2> QED
    BY <1>1, <1>2, <2>1, <2>2, <2>3, <2>4
<1>3. ASSUME calls[c].op = "write"
      PROVE  history'[calls[c].slot][calls[c].to] = calls[c].val
  <2>1. calls[c].val \in Value
    BY <1>3 DEF TypeOK, IdleCall, LookedUpCall, WriteCall, ListCall
  <2>2. history[calls[c].slot][calls[c].to] # Nothing
    BY <1>3, <2>1, SecretAssumption DEF CallInv
  <2> QED
    BY <1>1, <1>3, <2>2 DEF AppendOnly, CallInv
<1> QED
  BY <1>2, <1>3 DEF CallInv

LEMMA CallStep ==
  ASSUME StoreInv, [Next]_vars, TypeOK', AppendOnly
  PROVE  \A d \in Call : CallInv(d)'
<1> USE DEF StoreInv
<1> SUFFICES ASSUME NEW d \in Call PROVE CallInv(d)'
  OBVIOUS
<1>1. ASSUME NEW s \in Slot, NEW v \in Value, Put(s, v) PROVE CallInv(d)'
  BY <1>1, CallInvKept DEF Put
<1>2. ASSUME NEW s \in Slot, Delete(s) PROVE CallInv(d)'
  BY <1>2, CallInvKept DEF Delete
<1>3. ASSUME NEW c \in Call, NEW s \in Slot, NEW target \in Version, RollbackLookup(c, s, target)
      PROVE  CallInv(d)'
  <2>1. CASE d = c
    <3>1. calls'[c] = [op |-> "lookedup", slot |-> s, from |-> secrets[s].version,
                       to |-> target, val |-> Nothing]
      BY <1>3 DEF RollbackLookup, TypeOK
    <3>2. secrets' = secrets /\ target # secrets[s].version
      BY <1>3 DEF RollbackLookup
    <3>3. secrets[s].version \in Nat
      BY SecretAssumption DEF TypeOK, Secret
    <3> QED
      BY <2>1, <3>1, <3>2, <3>3 DEF CallInv
  <2>2. CASE d # c
    BY <1>3, <2>2, CallInvKept DEF RollbackLookup, TypeOK
  <2> QED
    BY <2>1, <2>2
<1>4. ASSUME NEW c \in Call, RollbackTarget(c) PROVE CallInv(d)'
  <2> DEFINE found == history[calls[c].slot][calls[c].to]
  <2>1. CASE d = c
    <3>1. calls[c] \in LookedUpCall
      BY <1>4 DEF RollbackTarget, TypeOK, IdleCall, WriteCall, ListCall
    <3>2. calls'[c] = IF found = Nothing THEN Idle
                      ELSE [calls[c] EXCEPT !.op = "write", !.val = found]
      BY <1>4 DEF RollbackTarget, TypeOK
    <3>3. secrets' = secrets /\ history' = history
      BY <1>4 DEF RollbackTarget
    <3>4. calls[c].from <= secrets[calls[c].slot].version /\ calls[c].from # calls[c].to
      BY <3>1 DEF CallInv, LookedUpCall
    <3>5. CASE found = Nothing
      BY <2>1, <3>2, <3>5 DEF CallInv, Idle
    <3>6. CASE found # Nothing
      <4>1. /\ calls'[c].op = "write" /\ calls'[c].val = found
            /\ calls'[c].slot = calls[c].slot
            /\ calls'[c].from = calls[c].from /\ calls'[c].to = calls[c].to
        BY <3>1, <3>2, <3>6 DEF LookedUpCall
      <4> QED
        BY <2>1, <3>3, <3>4, <4>1 DEF CallInv
    <3> QED
      BY <3>5, <3>6
  <2>2. CASE d # c
    BY <1>4, <2>2, CallInvKept DEF RollbackTarget, TypeOK
  <2> QED
    BY <2>1, <2>2
<1>5. ASSUME NEW c \in Call, calls' = [calls EXCEPT ![c] = Idle] PROVE CallInv(d)'
  <2>1. CASE d = c
    BY <1>5, <2>1 DEF CallInv, TypeOK, Idle
  <2>2. CASE d # c
    BY <1>5, <2>2, CallInvKept DEF TypeOK
  <2> QED
    BY <2>1, <2>2
<1>6. ASSUME NEW c \in Call, NEW e \in Env, ListBegin(c, e) PROVE CallInv(d)'
  <2>1. CASE d = c
    <3>1. calls'[c].op = "list"
      BY <1>6 DEF ListBegin, TypeOK
    <3> QED
      BY <2>1, <3>1 DEF CallInv
  <2>2. CASE d # c
    BY <1>6, <2>2, CallInvKept DEF ListBegin, TypeOK
  <2> QED
    BY <2>1, <2>2
<1>7. ASSUME NEW c \in Call, ListRead(c) PROVE CallInv(d)'
  <2>1. CASE d = c
    <3>1. calls[c] \in ListCall
      BY <1>7 DEF ListRead, TypeOK, IdleCall, LookedUpCall, WriteCall
    <3>2. calls'[c].op = "list"
      BY <1>7, <3>1 DEF ListRead, TypeOK, ListCall
    <3> QED
      BY <2>1, <3>2 DEF CallInv
  <2>2. CASE d # c
    BY <1>7, <2>2, CallInvKept DEF ListRead, TypeOK
  <2> QED
    BY <2>1, <2>2
<1>8. CASE UNCHANGED vars
  BY <1>8, CallInvKept DEF vars
<1> QED
  BY <1>1, <1>2, <1>3, <1>4, <1>5, <1>6, <1>7, <1>8 DEF Next, RollbackCommit, Finish

----------------------------------------------------------------------------
(* An audit row is not a rollback's, or names honestly the rows of h.      *)
Honest(h, a) ==
  a.action = "rollback" =>
    /\ a.from \in 1..a.version - 1 /\ a.to \in 1..a.version - 1 /\ a.from # a.to
    /\ h[a.slot][a.version] = h[a.slot][a.to]
    /\ h[a.slot][a.to] # Nothing

LEMMA HonestKept ==
  ASSUME AppendOnly, NEW a \in Entry, Honest(history, a)
  PROVE  Honest(history', a)
<1>1. a.slot \in Slot /\ a.version \in 0..MaxCommits
  BY DEF Entry
<1>2. ASSUME a.action = "rollback" PROVE a.version \in Version /\ a.to \in Version
  BY <1>1, <1>2, SecretAssumption DEF Honest, Version
<1>3. ASSUME a.action = "rollback"
      PROVE  /\ history'[a.slot][a.version] = history[a.slot][a.version]
             /\ history'[a.slot][a.to] = history[a.slot][a.to]
  BY <1>1, <1>2, <1>3 DEF Honest, AppendOnly
<1> QED
  BY <1>3 DEF Honest

(* A step whose new audit row is honest keeps the whole log honest.        *)
LEMMA RollbackKept ==
  ASSUME StoreInv, AppendOnly, NEW e \in Entry, audit' = Append(audit, e), Honest(history', e)
  PROVE  RollbackHonest'
<1>1. audit \in Seq(Entry)
  BY DEF StoreInv, TypeOK
<1>2. ASSUME NEW i \in 1..Len(audit') PROVE Honest(history', audit'[i])
  <2>1. CASE i = Len(audit) + 1
    <3>1. audit'[i] = e
      BY <1>1, <2>1
    <3> QED
      BY <3>1
  <2>2. CASE i # Len(audit) + 1
    <3>1. i \in 1..Len(audit) /\ audit'[i] = audit[i] /\ audit[i] \in Entry
      BY <1>1, <1>2, <2>2
    <3>2. Honest(history, audit[i])
      BY <3>1 DEF StoreInv, RollbackHonest, Honest
    <3> QED
      BY <3>1, <3>2, HonestKept
  <2> QED
    BY <2>1, <2>2
<1> QED
  BY <1>2 DEF RollbackHonest, Honest

LEMMA RollbackStep ==
  ASSUME StoreInv, [Next]_vars, AppendOnly
  PROVE  RollbackHonest'
<1> USE DEF StoreInv
<1>1. ASSUME NEW s \in Slot, NEW v \in Value, Put(s, v) PROVE RollbackHonest'
  <2> DEFINE n == secrets[s].version + 1
             entry == [action |-> "upsert", slot |-> s, version |-> 0, from |-> 0, to |-> 0]
  <2>1. entry \in Entry /\ WriteVersion(s, v, entry)
    BY <1>1, EntryTypes DEF Put
  <2>2. n \in Version /\ audit' = Append(audit, [entry EXCEPT !.version = n])
    BY <2>1, WriteVersionRows
  <2>3. [entry EXCEPT !.version = n] \in Entry
    <3> HIDE DEF entry, n
    <3> QED
      BY <2>1, <2>2, EntryVersion
  <2>4. [entry EXCEPT !.version = n].action = "upsert"
    OBVIOUS
  <2> HIDE DEF entry, n
  <2>5. Honest(history', [entry EXCEPT !.version = n])
    BY <2>4 DEF Honest
  <2> QED
    BY <2>2, <2>3, <2>5, RollbackKept
<1>2. ASSUME NEW s \in Slot, Delete(s) PROVE RollbackHonest'
  <2> DEFINE entry == [action |-> "delete", slot |-> s, version |-> 0, from |-> 0, to |-> 0]
  <2>1. entry \in Entry /\ audit' = Append(audit, entry)
    BY <1>2, EntryTypes DEF Delete
  <2>2. Honest(history', entry)
    BY DEF Honest
  <2> HIDE DEF entry
  <2> QED
    BY <2>1, <2>2, RollbackKept
<1>3. ASSUME NEW c \in Call, RollbackCommit(c) PROVE RollbackHonest'
  <2> DEFINE s == calls[c].slot
             n == secrets[s].version + 1
             entry == [action |-> "rollback", slot |-> s, version |-> 0,
                       from |-> calls[c].from, to |-> calls[c].to]
             row == [entry EXCEPT !.version = n]
  <2>1. calls[c] \in WriteCall /\ calls[c].op = "write"
    BY <1>3 DEF RollbackCommit, TypeOK, IdleCall, LookedUpCall, ListCall
  <2>2. s \in Slot /\ calls[c].from \in Version /\ calls[c].to \in Version /\ calls[c].val \in Value
    BY <2>1 DEF WriteCall
  <2>3. entry \in Entry /\ WriteVersion(s, calls[c].val, entry)
    BY <1>3, <2>2, EntryTypes DEF RollbackCommit
  <2>4. /\ n \in Version /\ audit' = Append(audit, row)
        /\ history'[s][n] = calls[c].val
        /\ \A m \in Version : m # n => history'[s][m] = history[s][m]
    BY <2>2, <2>3, WriteVersionRows
  <2>5. row \in Entry
    <3> HIDE DEF entry, n
    <3> QED
      BY <2>3, <2>4, EntryVersion
  <2>6. /\ calls[c].from <= secrets[s].version /\ calls[c].from # calls[c].to
        /\ history[s][calls[c].to] = calls[c].val
    BY <2>1 DEF CallInv
  <2>7. calls[c].val # Nothing /\ secrets[s].version \in Nat
    BY <2>2, SecretAssumption DEF TypeOK, Secret
  <2>8. calls[c].to <= secrets[s].version
    BY <2>2, <2>6, <2>7 DEF HistoryComplete
  <2>9. calls[c].from \in 1..n - 1 /\ calls[c].to \in 1..n - 1
    BY <2>2, <2>6, <2>7, <2>8, SecretAssumption DEF Version
  <2>10. history'[s][calls[c].to] = calls[c].val
    BY <2>2, <2>4, <2>6, <2>9
  <2>11. /\ row.from = calls[c].from /\ row.to = calls[c].to
         /\ row.slot = s /\ row.version = n
    OBVIOUS
  <2> HIDE DEF row, n, s
  <2>12. Honest(history', row)
    BY <2>4, <2>6, <2>7, <2>9, <2>10, <2>11 DEF Honest
  <2> QED
    BY <2>4, <2>5, <2>12, RollbackKept
<1>4. ASSUME UNCHANGED << history, audit >> PROVE RollbackHonest'
  BY <1>4 DEF RollbackHonest
<1> QED
  BY <1>1, <1>2, <1>3, <1>4
     DEF Next, RollbackLookup, RollbackTarget, ListBegin, ListRead, Finish, vars

----------------------------------------------------------------------------
(* A version that a listing has read stays stored.                         *)
Stored(k, x) ==
  /\ history[<< x.env, k >>][x.version] = x.val
  /\ x.version <= secrets[<< x.env, k >>].version

LEMMA StoredKept ==
  ASSUME TypeOK, TypeOK', AppendOnly, NEW k \in Key, NEW x \in Listed, Stored(k, x)
  PROVE  Stored(k, x)'
<1>1. << x.env, k >> \in Slot /\ x.version \in Version /\ x.val \in Value
  BY DEF Listed, Slot
<1>2. history[<< x.env, k >>][x.version] # Nothing
  BY <1>1, SecretAssumption DEF Stored
<1>3. history'[<< x.env, k >>][x.version] = x.val
  BY <1>1, <1>2 DEF AppendOnly, Stored
<1>4. /\ secrets[<< x.env, k >>].version \in Nat
      /\ secrets'[<< x.env, k >>].version \in Nat
  BY <1>1, SecretAssumption DEF TypeOK, Secret
<1>5. secrets'[<< x.env, k >>].version >= secrets[<< x.env, k >>].version
  BY <1>1 DEF AppendOnly
<1>6. x.version \in Nat
  BY <1>1 DEF Version
<1> QED
  BY <1>3, <1>4, <1>5, <1>6 DEF Stored

(* ListedIsStored of one request.                                          *)
ListInv(c) ==
  calls[c].op = "list" =>
    \A k \in Key :
      calls[c].snap[k] # Unlisted =>
        /\ \E i \in 1..calls[c].read : Lineage[calls[c].env][i] = calls[c].snap[k].env
        /\ Stored(k, calls[c].snap[k])

LEMMA ListedByCall == ListedIsStored <=> \A c \in Call : ListInv(c)
BY DEF ListedIsStored, ListInv, Stored

LEMMA ListedStep ==
  ASSUME StoreInv, [Next]_vars, TypeOK', AppendOnly
  PROVE  ListedIsStored'
<1> USE DEF StoreInv
<1> SUFFICES ASSUME NEW d \in Call PROVE ListInv(d)'
  BY ListedByCall DEF ListedIsStored, ListInv, Stored
<1>1. ListInv(d)
  BY ListedByCall
<1>2. ASSUME calls'[d] = calls[d] PROVE ListInv(d)'
  <2> SUFFICES ASSUME calls[d].op = "list", NEW k \in Key, calls[d].snap[k] # Unlisted
               PROVE  Stored(k, calls[d].snap[k])'
    BY <1>1, <1>2 DEF ListInv
  <2>1. calls[d].snap[k] \in Listed
    BY DEF TypeOK, IdleCall, LookedUpCall, WriteCall, ListCall
  <2> QED
    BY <1>1, <1>2, <2>1, StoredKept DEF ListInv, Stored
<1>3. ASSUME NEW c \in Call, ListRead(c) PROVE ListInv(d)'
  <2>1. CASE d # c
    BY <1>2, <1>3, <2>1 DEF ListRead, TypeOK
  <2>2. CASE d = c
    <3> DEFINE at == Lineage[calls[c].env][calls[c].read + 1]
               snap == [k \in Key |->
                         IF secrets[<< at, k >>].live
                         THEN [env |-> at, version |-> secrets[<< at, k >>].version,
                               val |-> secrets[<< at, k >>].val]
                         ELSE calls[c].snap[k]]
    <3>1. calls[c] \in ListCall /\ calls[c].read < Len(Lineage[calls[c].env])
      BY <1>3 DEF ListRead, TypeOK, IdleCall, LookedUpCall, WriteCall
    <3>2. calls'[c] = [calls[c] EXCEPT !.read = calls[c].read + 1, !.snap = snap]
      BY <1>3 DEF ListRead, TypeOK
    <3>3. calls[c].read \in Nat /\ calls[c].env \in Env /\ calls[c].snap \in [Key -> Listed \cup {Unlisted}]
      BY <3>1 DEF ListCall
    <3>4. at \in Env
      <4>1. Lineage[calls[c].env] \in Seq(Env)
        BY <3>3, SecretAssumption
      <4>2. calls[c].read + 1 \in 1..Len(Lineage[calls[c].env])
        BY <3>1, <3>3, <4>1
      <4> QED
        BY <4>1, <4>2
    <3>5. secrets' = secrets /\ history' = history
      BY <1>3 DEF ListRead
    <3> HIDE DEF snap
    <3>6. /\ calls'[c].op = "list" /\ calls'[c].env = calls[c].env
          /\ calls'[c].read = calls[c].read + 1 /\ calls'[c].snap = snap
      BY <3>1, <3>2 DEF ListCall
    <3>7. ASSUME NEW k \in Key, snap[k] # Unlisted
          PROVE  /\ \E i \in 1..calls[c].read + 1 : Lineage[calls[c].env][i] = snap[k].env
                 /\ Stored(k, snap[k])
      <4>1. CASE secrets[<< at, k >>].live
        <5> DEFINE row == secrets[<< at, k >>]
        <5>1. snap[k] = [env |-> at, version |-> row.version, val |-> row.val]
          BY <4>1 DEF snap
        <5>2. snap[k].env = at /\ snap[k].version = row.version /\ snap[k].val = row.val
          BY <5>1
        <5>3. << at, k >> \in Slot
          BY <3>4 DEF Slot
        <5>4. row.version > 0 /\ row.version \in Nat
          BY <4>1, <5>3, SecretAssumption DEF LiveHasVersion, TypeOK, Secret
        <5>5. history[<< at, k >>][row.version] = row.val
          BY <5>3, <5>4 DEF HistoryComplete
        <5>6. calls[c].read + 1 \in 1..calls[c].read + 1
          BY <3>3
        <5>7. row.version <= row.version
          BY <5>4
        <5>8. Stored(k, snap[k])
          <6> HIDE DEF at
          <6> QED
            BY <5>2, <5>5, <5>7 DEF Stored
        <5> QED
          BY <5>2, <5>6, <5>8
      <4>2. CASE ~secrets[<< at, k >>].live
        <5>1. snap[k] = calls[c].snap[k]
          BY <4>2 DEF snap
        <5>2. /\ \E i \in 1..calls[c].read : Lineage[calls[c].env][i] = snap[k].env
              /\ Stored(k, snap[k])
          BY <1>1, <1>3, <2>2, <3>7, <5>1 DEF ListInv, ListRead
        <5>3. \A i \in 1..calls[c].read : i \in 1..calls[c].read + 1
          BY <3>3
        <5> QED
          BY <5>2, <5>3
      <4> QED
        BY <4>1, <4>2
    <3> QED
      BY <2>2, <3>5, <3>6, <3>7 DEF ListInv, Stored
  <2> QED
    BY <2>1, <2>2
<1>4. ASSUME NEW c \in Call, NEW e \in Env, ListBegin(c, e) PROVE ListInv(d)'
  <2>1. CASE d # c
    BY <1>2, <1>4, <2>1 DEF ListBegin, TypeOK
  <2>2. CASE d = c
    <3>1. calls'[c] = [op |-> "list", env |-> e, read |-> 0, snap |-> [k \in Key |-> Unlisted]]
      BY <1>4 DEF ListBegin, TypeOK
    <3> QED
      BY <2>2, <3>1 DEF ListInv
  <2> QED
    BY <2>1, <2>2
<1>5. ASSUME NEW c \in Call, NEW s \in Slot, NEW target \in Version, RollbackLookup(c, s, target)
      PROVE  ListInv(d)'
  <2>1. CASE d # c
    BY <1>2, <1>5, <2>1 DEF RollbackLookup, TypeOK
  <2>2. CASE d = c
    <3>1. calls'[c].op = "lookedup"
      BY <1>5 DEF RollbackLookup, TypeOK
    <3> QED
      BY <2>2, <3>1 DEF ListInv
  <2> QED
    BY <2>1, <2>2
<1>6. ASSUME NEW c \in Call, RollbackTarget(c) PROVE ListInv(d)'
  <2>1. CASE d # c
    BY <1>2, <1>6, <2>1 DEF RollbackTarget, TypeOK
  <2>2. CASE d = c
    <3>1. calls[c] \in LookedUpCall
      BY <1>6 DEF RollbackTarget, TypeOK, IdleCall, WriteCall, ListCall
    <3>2. calls'[c].op \in {"idle", "write"}
      BY <1>6, <3>1 DEF RollbackTarget, TypeOK, LookedUpCall, Idle
    <3> QED
      BY <2>2, <3>2 DEF ListInv
  <2> QED
    BY <2>1, <2>2
<1>7. ASSUME NEW c \in Call, calls' = [calls EXCEPT ![c] = Idle] PROVE ListInv(d)'
  <2>1. CASE d # c
    BY <1>2, <1>7, <2>1 DEF TypeOK
  <2>2. CASE d = c
    BY <1>7, <2>2 DEF ListInv, TypeOK, Idle
  <2> QED
    BY <2>1, <2>2
<1>8. ASSUME calls' = calls PROVE ListInv(d)'
  BY <1>2, <1>8
<1> QED
  BY <1>3, <1>4, <1>5, <1>6, <1>7, <1>8
     DEF Next, Put, Delete, RollbackCommit, Finish, vars

----------------------------------------------------------------------------
(* The audit log replayed: what it says of one secret, at version n and    *)
(* live or not, and what one more row changes in that.                     *)
WritesIn(log, s, i) == {j \in 1..i : log[j].slot = s /\ log[j].action # "delete"}

LastWrite(log, s, i) ==
  /\ i \in 1..Len(log) /\ log[i].slot = s /\ log[i].action # "delete"
  /\ \A j \in 1..Len(log) : log[j].slot = s => j <= i

Replays(log, s, n, live) ==
  /\ n = Cardinality(WritesIn(log, s, Len(log)))
  /\ \A i \in WritesIn(log, s, Len(log)) : log[i].version = Cardinality(WritesIn(log, s, i))
  /\ live <=> \E i \in 1..Len(log) : LastWrite(log, s, i)

LEMMA WritesFinite ==
  ASSUME NEW log, NEW s, NEW i \in Nat
  PROVE  /\ IsFiniteSet(WritesIn(log, s, i)) /\ Cardinality(WritesIn(log, s, i)) \in Nat
         /\ WritesIn(log, s, i) \subseteq 1..i
<1>1. IsFiniteSet(1..i)
  BY FS_Interval
<1>2. WritesIn(log, s, i) \in SUBSET (1..i)
  BY DEF WritesIn
<1> QED
  BY <1>1, <1>2, FS_Subset, FS_CardinalityType

LEMMA AppendReplays ==
  ASSUME NEW log \in Seq(Entry), NEW e \in Entry, NEW s \in Slot, NEW n, NEW live,
         Replays(log, s, n, live)
  PROVE  /\ e.slot # s => Replays(Append(log, e), s, n, live)
         /\ e.slot = s /\ e.action = "delete" => Replays(Append(log, e), s, n, FALSE)
         /\ e.slot = s /\ e.action # "delete" /\ e.version = n + 1
              => Replays(Append(log, e), s, n + 1, TRUE)
<1> DEFINE len  == Len(log)
           more == Append(log, e)
           old  == WritesIn(log, s, len)
           new  == WritesIn(more, s, len + 1)
<1>1. /\ len \in Nat /\ Len(more) = len + 1 /\ more[len + 1] = e
      /\ \A i \in 1..len : more[i] = log[i]
  OBVIOUS
<1> HIDE DEF more, len
<1>2. ASSUME NEW i \in 0..len PROVE WritesIn(more, s, i) = WritesIn(log, s, i)
  <2>1. \A j \in 1..i : more[j] = log[j]
    BY <1>1
  <2> QED
    BY <2>1 DEF WritesIn
<1>3. new = IF e.slot = s /\ e.action # "delete" THEN old \cup {len + 1} ELSE old
  <2>1. 1..len + 1 = (1..len) \cup {len + 1}
    BY <1>1
  <2> QED
    BY <1>1, <2>1 DEF WritesIn
<1>4. /\ IsFiniteSet(old) /\ Cardinality(old) = n /\ n \in Nat /\ len + 1 \notin old
      /\ old \subseteq 1..len
  BY <1>1, WritesFinite DEF Replays, len
<1>5. ASSUME NEW i \in old PROVE more[i].version = Cardinality(WritesIn(more, s, i))
  <2>1. i \in 1..len /\ i \in 0..len
    BY <1>1, <1>4
  <2>2. log[i].version = Cardinality(WritesIn(log, s, i))
    BY DEF Replays, len
  <2> QED
    BY <1>1, <1>2, <2>1, <2>2
<1>6. CASE e.slot # s
  <2>1. new = old
    BY <1>3, <1>6
  <2>2. ASSUME NEW i \in 1..len PROVE LastWrite(more, s, i) <=> LastWrite(log, s, i)
    BY <1>1, <1>6 DEF LastWrite, len
  <2>3. ~LastWrite(more, s, len + 1)
    BY <1>1, <1>6 DEF LastWrite
  <2>4. live <=> \E i \in 1..len + 1 : LastWrite(more, s, i)
    BY <1>1, <2>2, <2>3 DEF Replays, len
  <2>5. Replays(more, s, n, live)
    BY <1>1, <1>4, <1>5, <2>1, <2>4 DEF Replays
  <2> QED
    BY <1>6, <2>5 DEF more
<1>7. CASE e.slot = s /\ e.action = "delete"
  <2>1. new = old
    BY <1>3, <1>7
  <2>2. \A i \in 1..len + 1 : ~LastWrite(more, s, i)
    BY <1>1, <1>7 DEF LastWrite
  <2>3. Replays(more, s, n, FALSE)
    BY <1>1, <1>4, <1>5, <2>1, <2>2 DEF Replays
  <2> QED
    BY <1>7, <2>3 DEF more
<1>8. CASE e.slot = s /\ e.action # "delete" /\ e.version = n + 1
  <2>1. new = old \cup {len + 1}
    BY <1>3, <1>8
  <2>2. Cardinality(new) = n + 1
    BY <1>4, <2>1, FS_AddElement
  <2>3. ASSUME NEW i \in new PROVE more[i].version = Cardinality(WritesIn(more, s, i))
    <3>1. CASE i = len + 1
      BY <1>1, <1>8, <2>2, <3>1
    <3> QED
      BY <1>5, <2>1, <3>1
  <2>4. LastWrite(more, s, len + 1)
    BY <1>1, <1>8 DEF LastWrite
  <2>5. Replays(more, s, n + 1, TRUE)
    BY <1>1, <2>2, <2>3, <2>4 DEF Replays
  <2> QED
    BY <1>8, <2>5 DEF more
<1> QED
  BY <1>6, <1>7, <1>8

(* AuditReplays of a given log and table.                                  *)
LogReplays(log, rows) ==
  \A s \in Slot :
    LET entries == {i \in 1..Len(log) : log[i].slot = s} IN
    /\ rows[s].version = Cardinality(WritesIn(log, s, Len(log)))
    /\ \A i \in WritesIn(log, s, Len(log)) : log[i].version = Cardinality(WritesIn(log, s, i))
    /\ rows[s].live <=> \E i \in entries : log[i].action # "delete" /\ \A j \in entries : j <= i

LEMMA ReplaysByLog ==
  ASSUME NEW log, NEW rows
  PROVE  LogReplays(log, rows)
           <=> \A s \in Slot : Replays(log, s, rows[s].version, rows[s].live)
<1>1. ASSUME NEW s \in Slot
      PROVE  (\E i \in {h \in 1..Len(log) : log[h].slot = s} :
                /\ log[i].action # "delete"
                /\ \A j \in {h \in 1..Len(log) : log[h].slot = s} : j <= i)
             <=> \E i \in 1..Len(log) : LastWrite(log, s, i)
  BY DEF LastWrite
<1> QED
  BY <1>1 DEF LogReplays, Replays

LEMMA ReplayStep ==
  ASSUME StoreInv, AuditReplays, [Next]_vars
  PROVE  AuditReplays'
<1>1. TypeOK /\ audit \in Seq(Entry)
  BY DEF StoreInv, TypeOK
<1>2. ASSUME NEW s \in Slot PROVE Replays(audit, s, secrets[s].version, secrets[s].live)
  <2>1. LogReplays(audit, secrets)
    BY DEF LogReplays, AuditReplays, Writes, WritesIn
  <2> QED
    BY <2>1, ReplaysByLog
<1>3. SUFFICES ASSUME NEW r \in Slot
               PROVE  Replays(audit', r, secrets'[r].version, secrets'[r].live)
  <2>1. LogReplays(audit', secrets') => AuditReplays'
    BY DEF LogReplays, AuditReplays, Writes, WritesIn
  <2> QED
    BY <2>1, ReplaysByLog
<1>4. ASSUME NEW s \in Slot, NEW v \in Value, NEW entry \in Entry, WriteVersion(s, v, entry),
             entry.slot = s, entry.action # "delete"
      PROVE  Replays(audit', r, secrets'[r].version, secrets'[r].live)
  <2> DEFINE n == secrets[s].version + 1
             row == [entry EXCEPT !.version = n]
  <2>1. /\ n \in Version /\ audit' = Append(audit, row)
        /\ secrets'[s].version = n /\ secrets'[s].live = TRUE
        /\ \A q \in Slot : q # s => secrets'[q] = secrets[q]
    <3>1. secrets'[s] = [version |-> n, val |-> v, live |-> TRUE]
      BY <1>1, <1>4 DEF TypeOK, WriteVersion
    <3> QED
      BY <1>4, <3>1, WriteVersionRows
  <2>2. row \in Entry
    <3> HIDE DEF n
    <3> QED
      BY <2>1, EntryVersion
  <2>3. row.slot = s /\ row.action # "delete" /\ row.version = n
    BY <1>4 DEF Entry
  <2> HIDE DEF row
  <2>4. Replays(audit, r, secrets[r].version, secrets[r].live)
    BY <1>2
  <2>5. CASE r = s
    BY <1>1, <2>1, <2>2, <2>3, <2>4, <2>5, AppendReplays
  <2>6. CASE r # s
    <3>1. row.slot # r /\ secrets'[r] = secrets[r]
      BY <2>1, <2>3, <2>6
    <3> QED
      BY <1>1, <2>1, <2>2, <2>4, <3>1, AppendReplays
  <2> QED
    BY <2>5, <2>6
<1>5. ASSUME NEW s \in Slot, NEW v \in Value, Put(s, v)
      PROVE  Replays(audit', r, secrets'[r].version, secrets'[r].live)
  <2> DEFINE entry == [action |-> "upsert", slot |-> s, version |-> 0, from |-> 0, to |-> 0]
  <2>1. entry \in Entry /\ WriteVersion(s, v, entry)
    BY <1>5, EntryTypes DEF Put
  <2>2. entry.slot = s /\ entry.action # "delete"
    OBVIOUS
  <2> HIDE DEF entry
  <2> QED
    BY <1>4, <2>1, <2>2
<1>6. ASSUME NEW c \in Call, RollbackCommit(c)
      PROVE  Replays(audit', r, secrets'[r].version, secrets'[r].live)
  <2> DEFINE s == calls[c].slot
             entry == [action |-> "rollback", slot |-> s, version |-> 0,
                       from |-> calls[c].from, to |-> calls[c].to]
  <2>1. calls[c] \in WriteCall
    BY <1>1, <1>6 DEF RollbackCommit, TypeOK, IdleCall, LookedUpCall, ListCall
  <2>2. /\ s \in Slot /\ calls[c].val \in Value
        /\ entry \in Entry /\ WriteVersion(s, calls[c].val, entry)
    BY <1>6, <2>1, EntryTypes DEF RollbackCommit, WriteCall
  <2>3. entry.slot = s /\ entry.action # "delete"
    OBVIOUS
  <2> HIDE DEF entry, s
  <2> QED
    BY <1>4, <2>2, <2>3
<1>7. ASSUME NEW s \in Slot, Delete(s)
      PROVE  Replays(audit', r, secrets'[r].version, secrets'[r].live)
  <2> DEFINE entry == [action |-> "delete", slot |-> s, version |-> 0, from |-> 0, to |-> 0]
  <2>1. entry \in Entry /\ audit' = Append(audit, entry)
    BY <1>7, EntryTypes DEF Delete
  <2>2. entry.slot = s /\ entry.action = "delete"
    OBVIOUS
  <2>3. secrets' = [secrets EXCEPT ![s] = [secrets[s] EXCEPT !.live = FALSE]]
    BY <1>7 DEF Delete
  <2>4. secrets'[s] = [secrets[s] EXCEPT !.live = FALSE] /\ secrets[s] \in Secret
    BY <1>1, <2>3 DEF TypeOK
  <2>5. secrets'[s].version = secrets[s].version /\ secrets'[s].live = FALSE
    BY <2>4 DEF Secret
  <2>6. r # s => secrets'[r] = secrets[r]
    BY <1>1, <2>3 DEF TypeOK
  <2> HIDE DEF entry
  <2> QED
    BY <1>1, <1>2, <2>1, <2>2, <2>5, <2>6, AppendReplays
<1>8. ASSUME UNCHANGED << secrets, audit >>
      PROVE  Replays(audit', r, secrets'[r].version, secrets'[r].live)
  BY <1>2, <1>8
<1> QED
  BY <1>5, <1>6, <1>7, <1>8
     DEF Next, RollbackLookup, RollbackTarget, ListBegin, ListRead, Finish, vars

LEMMA ReplayInit == Init => AuditReplays
<1> SUFFICES ASSUME Init, NEW s \in Slot
             PROVE  Replays(audit, s, secrets[s].version, secrets[s].live)
  <2>1. LogReplays(audit, secrets) => AuditReplays
    BY DEF LogReplays, AuditReplays, Writes, WritesIn
  <2> QED
    BY <2>1, ReplaysByLog
<1>0. secrets[s].version = 0 /\ secrets[s].live = FALSE
  BY DEF Init, Absent
<1>1. audit = << >> /\ Len(audit) = 0 /\ 1..Len(audit) = {}
  BY DEF Init
<1>2. WritesIn(audit, s, Len(audit)) = {}
  BY <1>1 DEF WritesIn
<1> QED
  BY <1>0, <1>1, <1>2, FS_EmptySet DEF Replays

----------------------------------------------------------------------------
LEMMA InitInv == Init => StoreInv
<1> SUFFICES ASSUME Init PROVE StoreInv
  OBVIOUS
<1>1. LiveHasVersion
  BY DEF Init, LiveHasVersion, Absent
<1>2. HistoryComplete
  BY DEF Init, HistoryComplete, Absent, Version
<1>3. RollbackHonest
  BY DEF Init, RollbackHonest
<1>4. ListedIsStored
  BY DEF Init, ListedIsStored, Idle
<1>5. \A c \in Call : CallInv(c)
  BY DEF Init, CallInv, Idle
<1> QED
  BY <1>1, <1>2, <1>3, <1>4, <1>5, InitType DEF StoreInv

LEMMA StepInv == StoreInv /\ [Next]_vars => StoreInv' /\ AppendOnly
<1> SUFFICES ASSUME StoreInv, [Next]_vars PROVE StoreInv' /\ AppendOnly
  OBVIOUS
<1>1. TypeOK'
  BY StepType
<1>2. AppendOnly /\ LiveHasVersion' /\ HistoryComplete'
  BY HistoryStep
<1>3. RollbackHonest' /\ ListedIsStored' /\ (\A c \in Call : CallInv(c)')
  BY <1>1, <1>2, RollbackStep, ListedStep, CallStep
<1> QED
  BY <1>1, <1>2, <1>3 DEF StoreInv

LEMMA Inductive == Spec => []StoreInv
<1>1. StoreInv /\ [Next]_vars => StoreInv'
  BY StepInv
<1> QED
  BY <1>1, InitInv, PTL DEF Spec

(* The tables and the requests in flight keep their types.                 *)
THEOREM TypeCorrect == Spec => []TypeOK
<1>1. StoreInv => TypeOK
  BY DEF StoreInv
<1> QED
  BY <1>1, Inductive, PTL

(* Upsert and Create in one transaction: the history of every key is       *)
(* complete up to its current version and ends in its current value.       *)
THEOREM HistoryCorrect == Spec => []HistoryComplete
<1>1. StoreInv => HistoryComplete
  BY DEF StoreInv
<1> QED
  BY <1>1, Inductive, PTL

(* handleRollbackSecret reads before its transaction, and still writes the *)
(* value of the version it names.                                          *)
THEOREM RollbackCorrect == Spec => []RollbackHonest
<1>1. StoreInv => RollbackHonest
  BY DEF StoreInv
<1> QED
  BY <1>1, Inductive, PTL

(* Resolve reads its chain in several statements, and answers only         *)
(* versions that are stored.                                               *)
THEOREM ListedCorrect == Spec => []ListedIsStored
<1>1. StoreInv => ListedIsStored
  BY DEF StoreInv
<1> QED
  BY <1>1, Inductive, PTL

(* The audit log, one row a transaction, tells every secret's state: how   *)
(* many versions it has, which row wrote which of them, and whether it is  *)
(* live, whatever the order of puts, deletes and late rollbacks.           *)
THEOREM ReplayCorrect == Spec => []AuditReplays
<1>1. StoreInv /\ AuditReplays /\ [Next]_vars => AuditReplays'
  BY ReplayStep
<1> QED
  BY <1>1, ReplayInit, Inductive, PTL DEF Spec

(* No step of any handler lowers a version or rewrites history.            *)
THEOREM AppendOnlyCorrect == Spec => HistoryAppendOnly
<1>1. StoreInv /\ [Next]_vars =>
        [\A s \in Slot :
          /\ secrets'[s].version >= secrets[s].version
          /\ \A n \in Version : history[s][n] # Nothing => history'[s][n] = history[s][n]]_vars
  BY StepInv DEF AppendOnly
<1> QED
  BY <1>1, Inductive, PTL DEF Spec, HistoryAppendOnly
============================================================================
