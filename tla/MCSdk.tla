-------------------------------- MODULE MCSdk --------------------------------
(***************************************************************************)
(* Instances of SdkCache for TLC.                                          *)
(***************************************************************************)
EXTENDS SdkCache
=============================================================================
