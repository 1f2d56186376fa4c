---------------------------- MODULE MCSigningKeys ----------------------------
(* Kids are numbers in the order they are created; a uuid is never reused.  *)
EXTENDS SigningKeys

LeastKid(taken) ==
    {k \in Kids \ taken : \A j \in Kids \ taken : k <= j}
=============================================================================
