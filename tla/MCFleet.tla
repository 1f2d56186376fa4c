------------------------------- MODULE MCFleet -------------------------------
(* Fleet with one instance, a heartbeat in progress and two evaluators:   *)
(* instances only meet in the list a sweep works through.                    *)
EXTENDS Fleet
=============================================================================
