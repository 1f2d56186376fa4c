----------------------------- MODULE MCEnrolment ------------------------------
(* Enrolment with two engines that share a token of two uses; an engine in    *)
(* scope and one outside it, two calls, so an engine that stopped waiting or    *)
(* restarted meets its own earlier call.                                        *)
EXTENDS Enrolment, FiniteSets

\* Secrets are drawn in a fixed order.
FirstNew(S) == {s \in Secrets \ S : \A t \in Secrets \ S : s <= t}
=============================================================================
