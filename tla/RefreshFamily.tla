---------------------------- MODULE RefreshFamily ----------------------------
(***************************************************************************)
(* What janus promises about the refresh tokens descended from one        *)
(* authorization: a family has at most one usable token, a rotation hands  *)
(* the family over from its usable token to a token never seen before, and *)
(* a family that has lost its usable token never gets one again.           *)
(*                                                                         *)
(* A family is named by its first token (the code names it by a fresh UUID *)
(* generated beside that token).                                           *)
(***************************************************************************)

CONSTANTS Tokens, NoToken

VARIABLES
    current,   \* current[f]: the usable token of family f, or NoToken
    spent      \* tokens that have been exchanged or revoked

famVars == <<current, spent>>

Unused == {t \in Tokens \ spent : \A f \in Tokens : current[f] # t}

Init ==
    /\ current = [f \in Tokens |-> NoToken]
    /\ spent = {}

\* A code is exchanged and a new family begins with token t.
Begin(t) ==
    /\ t \in Unused
    /\ current[t] = NoToken
    /\ current' = [current EXCEPT ![t] = t]
    /\ UNCHANGED spent

\* The usable token of f is exchanged for the unused token t.
HandOver(f, t) ==
    /\ current[f] # NoToken
    /\ t \in Unused
    /\ current' = [current EXCEPT ![f] = t]
    /\ spent' = spent \union {current[f]}

\* Family f is shut down, by a revocation or by a detected reuse.
ShutDown(f) ==
    /\ current[f] # NoToken
    /\ current' = [current EXCEPT ![f] = NoToken]
    /\ spent' = spent \union {current[f]}

Next ==
    \/ \E t \in Tokens : Begin(t)
    \/ \E f, t \in Tokens : HandOver(f, t)
    \/ \E f \in Tokens : ShutDown(f)

Spec == Init /\ [][Next]_famVars
=============================================================================
