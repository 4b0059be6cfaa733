------------------------------ MODULE MCOutbox ------------------------------
(***************************************************************************)
(* Instances of WebhookOutbox for TLC.  A clock tick stands for the        *)
(* shortest back-off, 10s.                                                 *)
(***************************************************************************)
EXTENDS WebhookOutbox, TLC

BackoffBase == 1
BackoffCap  == 3

(* DefaultBackoff: doubles from the base, and stays at the cap once there. *)
DefaultBackoff[attempt \in 1..MaxAttempts] ==
  IF attempt = 1 THEN BackoffBase
  ELSE IF 2 * DefaultBackoff[attempt - 1] >= BackoffCap THEN BackoffCap
  ELSE 2 * DefaultBackoff[attempt - 1]
============================================================================
