--------------------------- MODULE DeliveryLedger ---------------------------
(***************************************************************************)
(* What the outbox promises, with no row, lease or worker in sight: every  *)
(* event owed to a webhook is delivered at least once, given up, or        *)
(* forgotten with its webhook, and is only called delivered once the       *)
(* webhook it was owed to has acknowledged it.  The promise ends with the  *)
(* first event that is acknowledged by a webhook it was not owed to.       *)
(***************************************************************************)
EXTENDS Integers

CONSTANT Event

VARIABLES
  fate,          (* What became of each event.                             *)
  confirmed,     (* The events their webhook acknowledged.                 *)
  void           (* Another webhook acknowledged an event.                 *)

ledgerVars == << fate, confirmed, void >>

Fate == {"none", "owed", "delivered", "dead", "gone"}

LedgerInit ==
  /\ fate = [e \in Event |-> "none"]
  /\ confirmed = {}
  /\ void = FALSE

(* A committed change owes new events.                                     *)
Owe ==
  /\ \E S \in SUBSET Event :
       /\ \A e \in S : fate[e] = "none"
       /\ fate' = [e \in Event |-> IF e \in S THEN "owed" ELSE fate[e]]
  /\ UNCHANGED confirmed

(* An event may be acknowledged several times, and even after it is gone.  *)
Confirm(e) ==
  /\ fate[e] \in {"owed", "gone"}
  /\ confirmed' = confirmed \cup {e}
  /\ UNCHANGED fate

Deliver(e) ==
  /\ fate[e] = "owed"
  /\ e \in confirmed
  /\ fate' = [fate EXCEPT ![e] = "delivered"]
  /\ UNCHANGED confirmed

GiveUp(e) ==
  /\ fate[e] = "owed"
  /\ fate' = [fate EXCEPT ![e] = "dead"]
  /\ UNCHANGED confirmed

(* Deleting a webhook forgets its events, settled or not.                  *)
Forget ==
  /\ \E S \in SUBSET Event :
       /\ \A e \in S : fate[e] # "none"
       /\ fate' = [e \in Event |-> IF e \in S THEN "gone" ELSE fate[e]]
  /\ UNCHANGED confirmed

(* The webhook that owes it is gone, and its id is another's.              *)
Misdirect ==
  /\ \E e \in Event : fate[e] \in {"owed", "gone"}
  /\ void' = TRUE
  /\ UNCHANGED << fate, confirmed >>

Kept ==
  \/ Owe
  \/ Forget
  \/ \E e \in Event : Confirm(e) \/ Deliver(e) \/ GiveUp(e)

LedgerNext ==
  \/ Kept /\ ~void /\ UNCHANGED void
  \/ Misdirect
  \/ void /\ void'

LedgerSpec == LedgerInit /\ [][LedgerNext]_ledgerVars
============================================================================
