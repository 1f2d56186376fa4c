---------------------------- MODULE MCSdkClient ----------------------------
(***************************************************************************)
(* Two people at one application: a timeout of one tick, decisions cached  *)
(* for two, one retry, and two calls besides the one of the provider.      *)
(***************************************************************************)
EXTENDS SdkClient
=============================================================================
