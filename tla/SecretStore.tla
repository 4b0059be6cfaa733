---------------------------- MODULE SecretStore ----------------------------
(***************************************************************************)
(* Secrets and their history: the tables secrets, secret_versions and      *)
(* audit_log, and the handlers that put, delete, roll back and list.       *)
(*                                                                         *)
(* Put and delete are one transaction each, hence one action.  A rollback  *)
(* reads the current row and the target version before its transaction     *)
(* begins, and a listing reads one environment of the inheritance chain    *)
(* after another, so other requests come in between their steps.           *)
(***************************************************************************)
EXTENDS Integers, Sequences, FiniteSets

CONSTANTS
  Env,           (* Environments of one project.                           *)
  Key,           (* Secret names.                                          *)
  Value,         (* What a ciphertext stands for.                          *)
  Nothing,       (* No value.                                              *)
  Call,          (* Requests that run in several steps.                    *)
  Lineage,       (* Per environment, its inherits_from chain, root first.  *)
  MaxCommits     (* Bound: transactions that change a secret.              *)

ASSUME SecretAssumption ==
  /\ Nothing \notin Value
  /\ MaxCommits \in Nat
  /\ Lineage \in [Env -> Seq(Env)]
  /\ \A e \in Env : Lineage[e] # << >> /\ Lineage[e][Len(Lineage[e])] = e

VARIABLES
  secrets,       (* Table secrets, by environment and key.                 *)
  history,       (* Table secret_versions: the value of each version.      *)
  audit,         (* Table audit_log, secret changes only, oldest first.    *)
  calls          (* The requests in flight.                                *)

vars == << secrets, history, audit, calls >>

Slot    == Env \X Key
Version == 1..MaxCommits
Maybe   == Value \cup {Nothing}

Secret  == [version : 0..MaxCommits, val : Maybe, live : BOOLEAN]
Absent  == [version |-> 0, val |-> Nothing, live |-> FALSE]

(* An audit row, with the version the webhook payload of the same          *)
(* transaction carries (0 for a delete).  from and to: rollbacks only.     *)
Entry == [action : {"upsert", "rollback", "delete"}, slot : Slot,
          version : 0..MaxCommits, from : 0..MaxCommits, to : 0..MaxCommits]

(* One resolved key of a listing: the row that contributed it.             *)
Listed   == [env : Env, version : Version, val : Value]
Unlisted == [env |-> Nothing, version |-> 0, val |-> Nothing]

IdleCall     == [op : {"idle"}]
LookedUpCall == [op : {"lookedup"}, slot : Slot, from : Version, to : Version, val : {Nothing}]
WriteCall    == [op : {"write"}, slot : Slot, from : Version, to : Version, val : Value]
ListCall     == [op : {"list"}, env : Env, read : Nat, snap : [Key -> Listed \cup {Unlisted}]]
Idle         == [op |-> "idle"]

TypeOK ==
  /\ secrets \in [Slot -> Secret]
  /\ history \in [Slot -> [Version -> Maybe]]
  /\ audit \in Seq(Entry)
  /\ calls \in [Call -> IdleCall \cup LookedUpCall \cup WriteCall \cup ListCall]

Init ==
  /\ secrets = [s \in Slot |-> Absent]
  /\ history = [s \in Slot |-> [n \in Version |-> Nothing]]
  /\ audit = << >>
  /\ calls = [c \in Call |-> Idle]

----------------------------------------------------------------------------
(* Faulty variants of the operations below, each with a plausible bug that *)
(* the properties must notice.  Nothing uses them.                         *)

(* The upsert does not clear deleted_at.                                   *)
WriteVersionKeepsDeleted(s, v, entry) ==
  LET n == secrets[s].version + 1 IN
  /\ Len(audit) < MaxCommits
  /\ n \in Version /\ history[s][n] = Nothing
  /\ secrets' = [secrets EXCEPT ![s] = [version |-> n, val |-> v, live |-> @.live \/ n = 1]]
  /\ history' = [history EXCEPT ![s][n] = v]
  /\ audit' = Append(audit, [entry EXCEPT !.version = n])

(* Reviving a deleted key appends no row to secret_versions.               *)
WriteVersionSkipsHistory(s, v, entry) ==
  LET n == secrets[s].version + 1 IN
  /\ Len(audit) < MaxCommits
  /\ n \in Version /\ history[s][n] = Nothing
  /\ secrets' = [secrets EXCEPT ![s] = [version |-> n, val |-> v, live |-> TRUE]]
  /\ history' = IF secrets[s].live \/ n = 1 THEN [history EXCEPT ![s][n] = v] ELSE history
  /\ audit' = Append(audit, [entry EXCEPT !.version = n])

(* A write of an existing key keeps its version and replaces the row.      *)
WriteVersionInPlace(s, v, entry) ==
  LET n == IF secrets[s].version = 0 THEN 1 ELSE secrets[s].version IN
  /\ Len(audit) < MaxCommits
  /\ n \in Version
  /\ secrets' = [secrets EXCEPT ![s] = [version |-> n, val |-> v, live |-> TRUE]]
  /\ history' = [history EXCEPT ![s][n] = v]
  /\ audit' = Append(audit, [entry EXCEPT !.version = n])

(* The target version is not required to exist.                            *)
RollbackTargetUnchecked(c) ==
  /\ calls[c].op = "lookedup"
  /\ calls' = [calls EXCEPT ![c] =
                [@ EXCEPT !.op = "write", !.val = history[calls[c].slot][calls[c].to]]]
  /\ UNCHANGED << secrets, history, audit >>

(* The current ciphertext is written instead of the target's.              *)
RollbackTargetCurrent(c) ==
  /\ calls[c].op = "lookedup"
  /\ calls' = [calls EXCEPT ![c] =
                IF history[calls[c].slot][calls[c].to] = Nothing THEN Idle
                ELSE [@ EXCEPT !.op = "write", !.val = history[calls[c].slot][calls[c].from]]]
  /\ UNCHANGED << secrets, history, audit >>

(* An inherited key is reported as a row of the listed environment.        *)
ListReadOwnRow(c) ==
  /\ calls[c].op = "list"
  /\ calls[c].read < Len(Lineage[calls[c].env])
  /\ LET at == Lineage[calls[c].env][calls[c].read + 1] IN
     calls' = [calls EXCEPT
                ![c].read = @ + 1,
                ![c].snap = [k \in Key |->
                  IF secrets[<< at, k >>].live
                  THEN [env |-> calls[c].env, version |-> secrets[<< at, k >>].version,
                        val |-> secrets[<< at, k >>].val]
                  ELSE @[k]]]
  /\ UNCHANGED << secrets, history, audit >>

----------------------------------------------------------------------------
(* SecretRepo.Upsert and VersionRepo.Create in one transaction: the next   *)
(* version, live again if the key was soft-deleted.  secret_versions has   *)
(* UNIQUE (secret_id, version), and a conflict rolls everything back.      *)
WriteVersion(s, v, entry) ==
  LET n == secrets[s].version + 1 IN
  /\ Len(audit) < MaxCommits
  /\ n \in Version /\ history[s][n] = Nothing
  /\ secrets' = [secrets EXCEPT ![s] = [version |-> n, val |-> v, live |-> TRUE]]
  /\ history' = [history EXCEPT ![s][n] = v]
  /\ audit' = Append(audit, [entry EXCEPT !.version = n])

(* handlePutSecret *)
Put(s, v) ==
  /\ WriteVersion(s, v, [action |-> "upsert", slot |-> s, version |-> 0, from |-> 0, to |-> 0])
  /\ UNCHANGED calls

(* handleDeleteSecret: a soft delete; the version and history stay.        *)
Delete(s) ==
  /\ Len(audit) < MaxCommits
  /\ secrets[s].live
  /\ secrets' = [secrets EXCEPT ![s].live = FALSE]
  /\ audit' = Append(audit, [action |-> "delete", slot |-> s, version |-> 0, from |-> 0, to |-> 0])
  /\ UNCHANGED << history, calls >>

(* handleRollbackSecret, before its transaction: the current live row, and *)
(* then the target version.  A refusal ends the request.                   *)
RollbackLookup(c, s, target) ==
  /\ calls[c] = Idle
  /\ secrets[s].live
  /\ target # secrets[s].version
  /\ calls' = [calls EXCEPT ![c] = [op |-> "lookedup", slot |-> s, from |-> secrets[s].version,
                                    to |-> target, val |-> Nothing]]
  /\ UNCHANGED << secrets, history, audit >>

RollbackTarget(c) ==
  /\ calls[c].op = "lookedup"
  /\ LET found == history[calls[c].slot][calls[c].to] IN
     calls' = [calls EXCEPT ![c] =
                IF found = Nothing THEN Idle
                ELSE [calls[c] EXCEPT !.op = "write", !.val = found]]
  /\ UNCHANGED << secrets, history, audit >>

(* Its transaction writes the target's ciphertext as a new version without *)
(* looking at the row again.                                               *)
RollbackCommit(c) ==
  /\ calls[c].op = "write"
  /\ WriteVersion(calls[c].slot, calls[c].val,
                  [action |-> "rollback", slot |-> calls[c].slot, version |-> 0,
                   from |-> calls[c].from, to |-> calls[c].to])
  /\ calls' = [calls EXCEPT ![c] = Idle]

(* handleListSecrets: Resolve reads the live rows of each environment of   *)
(* the chain, root first, and a nearer one overrides.                      *)
ListBegin(c, e) ==
  /\ calls[c] = Idle
  /\ calls' = [calls EXCEPT ![c] = [op |-> "list", env |-> e, read |-> 0,
                                    snap |-> [k \in Key |-> Unlisted]]]
  /\ UNCHANGED << secrets, history, audit >>

ListRead(c) ==
  /\ calls[c].op = "list"
  /\ calls[c].read < Len(Lineage[calls[c].env])
  /\ LET at == Lineage[calls[c].env][calls[c].read + 1] IN
     calls' = [calls EXCEPT
                ![c].read = @ + 1,
                ![c].snap = [k \in Key |->
                  IF secrets[<< at, k >>].live
                  THEN [env |-> at, version |-> secrets[<< at, k >>].version,
                        val |-> secrets[<< at, k >>].val]
                  ELSE @[k]]]
  /\ UNCHANGED << secrets, history, audit >>

(* A listing is answered, or any request is cancelled, fails or dies with  *)
(* the server before its transaction: nothing of it is kept.               *)
Finish(c) ==
  /\ calls[c] # Idle
  /\ calls' = [calls EXCEPT ![c] = Idle]
  /\ UNCHANGED << secrets, history, audit >>

Next ==
  \/ \E s \in Slot, v \in Value : Put(s, v)
  \/ \E s \in Slot : Delete(s)
  \/ \E c \in Call, s \in Slot, target \in Version : RollbackLookup(c, s, target)
  \/ \E c \in Call : RollbackTarget(c) \/ RollbackCommit(c)
  \/ \E c \in Call, e \in Env : ListBegin(c, e)
  \/ \E c \in Call : ListRead(c) \/ Finish(c)

Spec == Init /\ [][Next]_vars

----------------------------------------------------------------------------
(* Properties.                                                             *)

Writes(s, i) == {j \in 1..i : audit[j].slot = s /\ audit[j].action # "delete"}

(* secret_versions holds exactly the versions up to the current one, and   *)
(* the current value is the last of them, deleted or not: a half-applied   *)
(* write never appears in history.                                         *)
HistoryComplete ==
  \A s \in Slot :
    /\ \A n \in Version : history[s][n] # Nothing <=> n <= secrets[s].version
    /\ secrets[s].version > 0 => history[s][secrets[s].version] = secrets[s].val

(* A rollback's new version holds what its target version holds, and both  *)
(* versions its audit row names are older versions of the same secret,     *)
(* although they were read before its transaction.                         *)
RollbackHonest ==
  \A i \in 1..Len(audit) :
    LET a == audit[i] IN
    a.action = "rollback" =>
      /\ a.from \in 1..a.version - 1 /\ a.to \in 1..a.version - 1 /\ a.from # a.to
      /\ history[a.slot][a.version] = history[a.slot][a.to]
      /\ history[a.slot][a.to] # Nothing

(* The audit log tells the state of every secret: its version is the       *)
(* number of writes, each row is numbered by its place among them, and a   *)
(* key is live unless it was deleted last.                                 *)
AuditReplays ==
  \A s \in Slot :
    LET entries == {i \in 1..Len(audit) : audit[i].slot = s} IN
    /\ secrets[s].version = Cardinality(Writes(s, Len(audit)))
    /\ \A i \in Writes(s, Len(audit)) : audit[i].version = Cardinality(Writes(s, i))
    /\ secrets[s].live <=>
         \E i \in entries : audit[i].action # "delete" /\ \A j \in entries : j <= i

(* Versions never go down and no row of secret_versions ever changes.      *)
HistoryAppendOnly ==
  [][\A s \in Slot :
       /\ secrets'[s].version >= secrets[s].version
       /\ \A n \in Version : history[s][n] # Nothing => history'[s][n] = history[s][n]]_vars

(* Whatever is written while a listing reads its chain, each key it        *)
(* answers is a stored version of that key in an environment of the chain. *)
ListedIsStored ==
  \A c \in Call : calls[c].op = "list" =>
    \A k \in Key :
      LET x == calls[c].snap[k] IN
      x # Unlisted =>
        /\ \E i \in 1..calls[c].read : Lineage[calls[c].env][i] = x.env
        /\ history[<< x.env, k >>][x.version] = x.val
        /\ x.version <= secrets[<< x.env, k >>].version

(* handlers_secrets.go:248, "Refuses with 404 when the current secrets row *)
(* is soft-deleted; the operator should re-PUT to restore the key first":  *)
(* no rollback is the first change of a key after its deletion.            *)
RollbackRefusesDeleted ==
  \A j \in 1..Len(audit) :
    audit[j].action = "rollback" =>
      \A i \in 1..j - 1 :
        audit[i].slot = audit[j].slot /\ audit[i].action = "delete" =>
          \E m \in i + 1..j - 1 : audit[m].slot = audit[j].slot /\ audit[m].action = "upsert"
============================================================================
