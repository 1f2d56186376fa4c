--------------------------- MODULE MCRefreshTokens ---------------------------
(* RefreshTokens on a small instance: two concurrent requests, and enough    *)
(* token hashes for a family to be rotated twice while a reuse is detected.  *)
EXTENDS RefreshTokens

\* Hashes are only compared for equality: drawing the least unused one shows
\* every behaviour up to a renaming.
LeastHash(S) == {t \in Tokens \ S : \A u \in Tokens \ S : t <= u}
=============================================================================
