----------------------------- MODULE MCSecrets -----------------------------
(***************************************************************************)
(* Instances of SecretStore for TLC: an environment and the one it         *)
(* inherits from.                                                          *)
(***************************************************************************)
EXTENDS SecretStore, TLC

CONSTANTS shared, dev

ChildOfShared == [e \in Env |-> IF e = dev THEN << shared, dev >> ELSE << e >>]

Symmetric == Permutations(Value) \cup Permutations(Call)
============================================================================
