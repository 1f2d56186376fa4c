------------------------ MODULE RefreshTokens_proofs ------------------------
(***************************************************************************)
(* Safety of janus's refresh tokens for any number of tokens, codes and    *)
(* concurrent requests.  The argument is the one the row locks make: a     *)
(* rotation between its UPDATE and its commit holds the lock of an         *)
(* unrevoked row, and nobody revokes a row without holding its lock.       *)
(***************************************************************************)
EXTENDS RefreshTokens, TLAPS

PresentsToken == {"consume", "insert", "lookup", "reuse", "revokeFamily", "revoke"}

\* What a running request carries is what the tables had when it got it.
RequestInv ==
    /\ \A p \in Requests : pc[p] \in PresentsToken => token[p] \in issued
    /\ \A p \in Requests : pc[p] \in {"consumeGrant", "granted"} => code[p] \in Codes
    /\ \A t \in issued : family[t] \in issued

\* What the row locks protect.
LockInv ==
    /\ \A p \in Requests : pc[p] = "insert" =>
        token[p] \notin revoked /\ lock[token[p]] = p
    /\ \A p \in Requests : (pc[p] = "revokeFamily" /\ want[p] = NoToken) =>
        \A t \in scan[p] : lock[t] = p
    /\ \A p \in Requests : scan[p] \subseteq issued
    /\ \A p \in Requests : pc[p] = "revokeFamily" =>
        scan[p] \subseteq FamilyOf(family[token[p]])

\* A consumed code belongs to the one request that consumed it, until a family
\* has come of it.
GrantInv ==
    /\ \A c \in Codes : grants[c] # "consumed" => roots[c] = {}
    /\ \A p \in Requests : pc[p] = "granted" =>
        grants[code[p]] = "consumed" /\ roots[code[p]] = {}
    /\ \A p, q \in Requests :
        (pc[p] = "granted" /\ pc[q] = "granted" /\ code[p] = code[q]) => p = q

Inv == TypeOK /\ RequestInv /\ LockInv /\ OneUsableToken /\ GrantInv /\ OneFamilyPerCode

-----------------------------------------------------------------------------
(* One lemma per conjunct: its own step for each action that could disturb  *)
(* it, and one for the actions that cannot.                                 *)

LEMMA TypeStep ==
    ASSUME Inv, [Next]_vars
    PROVE  TypeOK'
<1> USE SentinelAssumption, HashAssumption
        DEF Inv, TypeOK, RequestInv, LockInv, PresentsToken, Statements
<1>1. ASSUME NEW p \in Requests, NEW c \in Codes, PresentCode(p, c) PROVE TypeOK'
  BY <1>1 DEF PresentCode, Answer, Goto, tables, request, Live, Redeemable, FamilyOf
<1>2. ASSUME NEW p \in Requests, ConsumeGrant(p) PROVE TypeOK'
  BY <1>2 DEF ConsumeGrant, Answer, Goto, tables, request, Live, Redeemable, FamilyOf
<1>3. ASSUME NEW p \in Requests, CreateRefreshToken(p) PROVE TypeOK'
  BY <1>3 DEF CreateRefreshToken, Answer, Goto, tables, request, Live, Redeemable, FamilyOf
<1>4. ASSUME NEW p \in Requests, NEW t \in Tokens, PresentToken(p, t) PROVE TypeOK'
  BY <1>4 DEF PresentToken, Answer, Goto, tables, request, Live, Redeemable, FamilyOf
<1>5. ASSUME NEW p \in Requests, ConsumeToken(p) PROVE TypeOK'
  BY <1>5 DEF ConsumeToken, Answer, Goto, tables, request, Live, Redeemable, FamilyOf
<1>6. ASSUME NEW p \in Requests, CommitRotation(p) PROVE TypeOK'
  BY <1>6 DEF CommitRotation, Answer, Goto, tables, request, Live, Redeemable, FamilyOf
<1>7. ASSUME NEW p \in Requests, ScanFamily(p) PROVE TypeOK'
  BY <1>7 DEF ScanFamily, Answer, Goto, tables, request, Live, Redeemable, FamilyOf
<1>8. ASSUME NEW p \in Requests, LockFamilyRow(p) PROVE TypeOK'
  BY <1>8 DEF LockFamilyRow, Answer, Goto, tables, request, Live, Redeemable, FamilyOf
<1>9. ASSUME NEW p \in Requests, CommitReuse(p) PROVE TypeOK'
  BY <1>9 DEF CommitReuse, Answer, Goto, tables, request, Live, Redeemable, FamilyOf
<1>10. ASSUME NEW p \in Requests, NEW t \in Tokens, PresentForRevocation(p, t) PROVE TypeOK'
  BY <1>10 DEF PresentForRevocation, Answer, Goto, tables, request, Live, Redeemable, FamilyOf
<1>11. ASSUME NEW p \in Requests, RevokeToken(p) PROVE TypeOK'
  BY <1>11 DEF RevokeToken, Answer, Goto, tables, request, Live, Redeemable, FamilyOf
<1>12. ASSUME NEW p \in Requests, RejectCode(p) PROVE TypeOK'
  BY <1>12 DEF RejectCode, Answer, Goto, tables, request, Live, Redeemable, FamilyOf
<1>13. ASSUME NEW p \in Requests, FinishWithoutRefresh(p) PROVE TypeOK'
  BY <1>13 DEF FinishWithoutRefresh, Answer, Goto, tables, request, Live, Redeemable, FamilyOf
<1>14. ASSUME NEW p \in Requests, LookupNothing(p) PROVE TypeOK'
  BY <1>14 DEF LookupNothing, Answer, Goto, tables, request, Live, Redeemable, FamilyOf
<1>15. ASSUME NEW p \in Requests, RevokeForeign(p) PROVE TypeOK'
  BY <1>15 DEF RevokeForeign, Answer, Goto, tables, request, Live, Redeemable, FamilyOf
<1>16. ASSUME NEW p \in Requests, Fail(p) PROVE TypeOK'
  BY <1>16 DEF Fail, Answer, Goto, tables, request, Live, Redeemable, FamilyOf
<1>17. ASSUME NEW p \in Requests, DeadlockVictim(p) PROVE TypeOK'
  BY <1>17 DEF DeadlockVictim, Answer, Goto, tables, request, Live, Redeemable, FamilyOf
<1>18. ASSUME NEW p \in Requests,
              \/ ConsumeNothing(p)
              \/ LookupRotated(p)
       PROVE TypeOK'
  BY <1>18
     DEF ConsumeNothing, LookupRotated, Answer, Goto, tables, request,
         Live, Redeemable, FamilyOf
<1>19. ASSUME NEW c \in Codes, ExpireGrant(c) PROVE TypeOK'
  BY <1>19 DEF ExpireGrant, Answer, Goto, tables, request, Live, Redeemable, FamilyOf
<1>20. ASSUME NEW t \in Tokens, ExpireToken(t) PROVE TypeOK'
  BY <1>20 DEF ExpireToken, Answer, Goto, tables, request, Live, Redeemable, FamilyOf
<1>21. CASE UNCHANGED vars
  BY <1>21 DEF vars
<1> HIDE DEF Inv, TypeOK, RequestInv, LockInv, PresentsToken, Statements
<1>22. ASSUME NEW p \in Requests, Arrive(p) PROVE TypeOK'
  BY <1>22, <1>1, <1>4, <1>10 DEF Arrive
<1>23. ASSUME NEW p \in Requests, Proceed(p) PROVE TypeOK'
  BY <1>23, <1>2, <1>3, <1>5, <1>6, <1>7, <1>8, <1>9, <1>11, <1>12, <1>13, <1>14, <1>15, <1>17, <1>18 DEF Proceed
<1> QED
  BY <1>16, <1>19, <1>20, <1>21, <1>22, <1>23 DEF Next

\* Rows are never deleted, so what a request presented keeps its row.
LEMMA RequestStep ==
    ASSUME Inv, [Next]_vars
    PROVE  RequestInv'
<1> USE SentinelAssumption, HashAssumption
        DEF Inv, TypeOK, RequestInv, PresentsToken
<1>1. ASSUME NEW p \in Requests, NEW c \in Codes, PresentCode(p, c) PROVE RequestInv'
  BY <1>1 DEF PresentCode, Answer, Goto, tables, request, Live, Redeemable, FamilyOf
<1>2. ASSUME NEW p \in Requests, NEW t \in Tokens, PresentToken(p, t) PROVE RequestInv'
  BY <1>2 DEF PresentToken, Answer, Goto, tables, request, Live, Redeemable, FamilyOf
<1>3. ASSUME NEW p \in Requests, NEW t \in Tokens, PresentForRevocation(p, t) PROVE RequestInv'
  BY <1>3 DEF PresentForRevocation, Answer, Goto, tables, request, Live, Redeemable, FamilyOf
<1>4. ASSUME NEW p \in Requests, CreateRefreshToken(p) PROVE RequestInv'
  BY <1>4 DEF CreateRefreshToken, Answer, Goto, tables, request, Live, Redeemable, FamilyOf
<1>5. ASSUME NEW p \in Requests, CommitRotation(p) PROVE RequestInv'
  BY <1>5 DEF CommitRotation, Answer, Goto, tables, request, Live, Redeemable, FamilyOf
<1>6. ASSUME NEW p \in Requests,
              \/ ConsumeGrant(p)
              \/ RejectCode(p)
              \/ FinishWithoutRefresh(p)
              \/ ConsumeToken(p)
              \/ ConsumeNothing(p)
              \/ LookupRotated(p)
              \/ LookupNothing(p)
              \/ ScanFamily(p)
              \/ LockFamilyRow(p)
              \/ CommitReuse(p)
              \/ RevokeToken(p)
              \/ RevokeForeign(p)
              \/ Fail(p)
              \/ DeadlockVictim(p)
       PROVE RequestInv'
  BY <1>6
     DEF ConsumeGrant, RejectCode, FinishWithoutRefresh, ConsumeToken,
         ConsumeNothing, LookupRotated, LookupNothing, ScanFamily,
         LockFamilyRow, CommitReuse, RevokeToken, RevokeForeign, Fail,
         DeadlockVictim, Answer, Goto, tables, request, Live,
         Redeemable, FamilyOf
<1>7. ASSUME NEW c \in Codes, ExpireGrant(c) PROVE RequestInv'
  BY <1>7 DEF ExpireGrant, Answer, Goto, tables, request, Live, Redeemable, FamilyOf
<1>8. ASSUME NEW t \in Tokens, ExpireToken(t) PROVE RequestInv'
  BY <1>8 DEF ExpireToken, Answer, Goto, tables, request, Live, Redeemable, FamilyOf
<1>9. CASE UNCHANGED vars
  BY <1>9 DEF vars
<1> HIDE DEF Inv, TypeOK, RequestInv, PresentsToken
<1>10. ASSUME NEW p \in Requests, Arrive(p) PROVE RequestInv'
  BY <1>10, <1>1, <1>2, <1>3 DEF Arrive
<1>11. ASSUME NEW p \in Requests, Proceed(p) PROVE RequestInv'
  BY <1>11, <1>4, <1>5, <1>6 DEF Proceed
<1> QED
  BY <1>6, <1>7, <1>8, <1>9, <1>10, <1>11 DEF Next

\* Only a request that holds, or can take, the lock of a row revokes it.
LEMMA LockStep ==
    ASSUME Inv, [Next]_vars
    PROVE  LockInv'
<1> USE SentinelAssumption, HashAssumption
        DEF Inv, TypeOK, RequestInv, LockInv, PresentsToken
<1>1. ASSUME NEW p \in Requests, CreateRefreshToken(p) PROVE LockInv'
  BY <1>1 DEF CreateRefreshToken, Answer, Goto, tables, request, Live, Redeemable, FamilyOf
<1>2. ASSUME NEW p \in Requests, ConsumeToken(p) PROVE LockInv'
  BY <1>2 DEF ConsumeToken, Answer, Goto, tables, request, Live, Redeemable, FamilyOf
<1>3. ASSUME NEW p \in Requests, CommitRotation(p) PROVE LockInv'
  BY <1>3 DEF CommitRotation, Answer, Goto, tables, request, Live, Redeemable, FamilyOf
<1>4. ASSUME NEW p \in Requests, ScanFamily(p) PROVE LockInv'
  BY <1>4 DEF ScanFamily, Answer, Goto, tables, request, Live, Redeemable, FamilyOf
<1>5. ASSUME NEW p \in Requests, LockFamilyRow(p) PROVE LockInv'
  BY <1>5 DEF LockFamilyRow, Answer, Goto, tables, request, Live, Redeemable, FamilyOf
<1>6. ASSUME NEW p \in Requests, CommitReuse(p) PROVE LockInv'
  BY <1>6 DEF CommitReuse, Answer, Goto, tables, request, Live, Redeemable, FamilyOf
<1>7. ASSUME NEW p \in Requests, RevokeToken(p) PROVE LockInv'
  BY <1>7 DEF RevokeToken, Answer, Goto, tables, request, Live, Redeemable, FamilyOf
<1>8. ASSUME NEW p \in Requests,
              \/ \E c \in Codes : PresentCode(p, c)
              \/ ConsumeGrant(p)
              \/ RejectCode(p)
              \/ FinishWithoutRefresh(p)
              \/ \E t \in Tokens : PresentToken(p, t)
              \/ ConsumeNothing(p)
              \/ LookupRotated(p)
              \/ LookupNothing(p)
              \/ \E t \in Tokens : PresentForRevocation(p, t)
              \/ RevokeForeign(p)
              \/ Fail(p)
              \/ DeadlockVictim(p)
       PROVE LockInv'
  BY <1>8
     DEF PresentCode, ConsumeGrant, RejectCode, FinishWithoutRefresh,
         PresentToken, ConsumeNothing, LookupRotated, LookupNothing,
         PresentForRevocation, RevokeForeign, Fail, DeadlockVictim,
         Answer, Goto, tables, request, Live, Redeemable, FamilyOf
<1>9. ASSUME NEW c \in Codes, ExpireGrant(c) PROVE LockInv'
  BY <1>9 DEF ExpireGrant, Answer, Goto, tables, request, Live, Redeemable, FamilyOf
<1>10. ASSUME NEW t \in Tokens, ExpireToken(t) PROVE LockInv'
  BY <1>10 DEF ExpireToken, Answer, Goto, tables, request, Live, Redeemable, FamilyOf
<1>11. CASE UNCHANGED vars
  BY <1>11 DEF vars, FamilyOf
<1> HIDE DEF Inv, TypeOK, RequestInv, LockInv, PresentsToken
<1>12. ASSUME NEW p \in Requests, Arrive(p) PROVE LockInv'
  BY <1>12, <1>8 DEF Arrive
<1>13. ASSUME NEW p \in Requests, Proceed(p) PROVE LockInv'
  BY <1>13, <1>1, <1>2, <1>3, <1>4, <1>5, <1>6, <1>7, <1>8 DEF Proceed
<1> QED
  BY <1>8, <1>9, <1>10, <1>11, <1>12, <1>13 DEF Next

\* A rotation adds a token to its family and in the same commit revokes the
\* one its lock kept unrevoked; a family that begins has no other row.
LEMMA UsableStep ==
    ASSUME Inv, [Next]_vars
    PROVE  OneUsableToken'
<1> USE SentinelAssumption, HashAssumption
        DEF Inv, TypeOK, RequestInv, LockInv, OneUsableToken, PresentsToken
<1>1. ASSUME NEW p \in Requests, CreateRefreshToken(p) PROVE OneUsableToken'
  BY <1>1 DEF CreateRefreshToken, Answer, Goto, tables, request, Live, Redeemable, FamilyOf
<1>2. ASSUME NEW p \in Requests, CommitRotation(p) PROVE OneUsableToken'
  BY <1>2 DEF CommitRotation, Answer, Goto, tables, request, Live, Redeemable, FamilyOf
<1>3. ASSUME NEW p \in Requests, CommitReuse(p) PROVE OneUsableToken'
  BY <1>3 DEF CommitReuse, Answer, Goto, tables, request, Live, Redeemable, FamilyOf
<1>4. ASSUME NEW p \in Requests, RevokeToken(p) PROVE OneUsableToken'
  BY <1>4 DEF RevokeToken, Answer, Goto, tables, request, Live, Redeemable, FamilyOf
<1>5. ASSUME NEW p \in Requests,
              \/ \E c \in Codes : PresentCode(p, c)
              \/ ConsumeGrant(p)
              \/ RejectCode(p)
              \/ FinishWithoutRefresh(p)
              \/ \E t \in Tokens : PresentToken(p, t)
              \/ ConsumeToken(p)
              \/ ConsumeNothing(p)
              \/ LookupRotated(p)
              \/ LookupNothing(p)
              \/ ScanFamily(p)
              \/ LockFamilyRow(p)
              \/ \E t \in Tokens : PresentForRevocation(p, t)
              \/ RevokeForeign(p)
              \/ Fail(p)
              \/ DeadlockVictim(p)
       PROVE OneUsableToken'
  BY <1>5
     DEF PresentCode, ConsumeGrant, RejectCode, FinishWithoutRefresh,
         PresentToken, ConsumeToken, ConsumeNothing, LookupRotated,
         LookupNothing, ScanFamily, LockFamilyRow, PresentForRevocation,
         RevokeForeign, Fail, DeadlockVictim, Answer, Goto, tables,
         request, Live, Redeemable, FamilyOf
<1>6. ASSUME NEW c \in Codes, ExpireGrant(c) PROVE OneUsableToken'
  BY <1>6 DEF ExpireGrant, Answer, Goto, tables, request, Live, Redeemable, FamilyOf
<1>7. ASSUME NEW t \in Tokens, ExpireToken(t) PROVE OneUsableToken'
  BY <1>7 DEF ExpireToken, Answer, Goto, tables, request, Live, Redeemable, FamilyOf
<1>8. CASE UNCHANGED vars
  BY <1>8 DEF vars
<1> HIDE DEF Inv, TypeOK, RequestInv, LockInv, OneUsableToken, PresentsToken
<1>9. ASSUME NEW p \in Requests, Arrive(p) PROVE OneUsableToken'
  BY <1>9, <1>5 DEF Arrive
<1>10. ASSUME NEW p \in Requests, Proceed(p) PROVE OneUsableToken'
  BY <1>10, <1>1, <1>2, <1>3, <1>4, <1>5 DEF Proceed
<1> QED
  BY <1>5, <1>6, <1>7, <1>8, <1>9, <1>10 DEF Next

\* The UPDATE that consumes a code lets one request through.
LEMMA GrantStep ==
    ASSUME Inv, [Next]_vars
    PROVE  GrantInv'
<1> USE SentinelAssumption, HashAssumption
        DEF Inv, TypeOK, RequestInv, GrantInv, PresentsToken
<1>1. ASSUME NEW p \in Requests, NEW c \in Codes, PresentCode(p, c) PROVE GrantInv'
  BY <1>1 DEF PresentCode, Answer, Goto, tables, request, Live, Redeemable, FamilyOf
<1>2. ASSUME NEW p \in Requests, ConsumeGrant(p) PROVE GrantInv'
  BY <1>2 DEF ConsumeGrant, Answer, Goto, tables, request, Live, Redeemable, FamilyOf
<1>3. ASSUME NEW p \in Requests, CreateRefreshToken(p) PROVE GrantInv'
  BY <1>3 DEF CreateRefreshToken, Answer, Goto, tables, request, Live, Redeemable, FamilyOf
<1>4. ASSUME NEW c \in Codes, ExpireGrant(c) PROVE GrantInv'
  BY <1>4 DEF ExpireGrant, Answer, Goto, tables, request, Live, Redeemable, FamilyOf
<1>5. ASSUME NEW p \in Requests,
              \/ RejectCode(p)
              \/ FinishWithoutRefresh(p)
              \/ \E t \in Tokens : PresentToken(p, t)
              \/ ConsumeToken(p)
              \/ CommitRotation(p)
              \/ ConsumeNothing(p)
              \/ LookupRotated(p)
              \/ LookupNothing(p)
              \/ ScanFamily(p)
              \/ LockFamilyRow(p)
              \/ CommitReuse(p)
              \/ \E t \in Tokens : PresentForRevocation(p, t)
              \/ RevokeToken(p)
              \/ RevokeForeign(p)
              \/ Fail(p)
              \/ DeadlockVictim(p)
       PROVE GrantInv'
  BY <1>5
     DEF RejectCode, FinishWithoutRefresh, PresentToken, ConsumeToken,
         CommitRotation, ConsumeNothing, LookupRotated, LookupNothing,
         ScanFamily, LockFamilyRow, CommitReuse, PresentForRevocation,
         RevokeToken, RevokeForeign, Fail, DeadlockVictim, Answer, Goto,
         tables, request, Live, Redeemable, FamilyOf
<1>6. ASSUME NEW t \in Tokens, ExpireToken(t) PROVE GrantInv'
  BY <1>6 DEF ExpireToken, Answer, Goto, tables, request, Live, Redeemable, FamilyOf
<1>7. CASE UNCHANGED vars
  BY <1>7 DEF vars
<1> HIDE DEF Inv, TypeOK, RequestInv, GrantInv, PresentsToken
<1>8. ASSUME NEW p \in Requests, Arrive(p) PROVE GrantInv'
  BY <1>8, <1>1, <1>5 DEF Arrive
<1>9. ASSUME NEW p \in Requests, Proceed(p) PROVE GrantInv'
  BY <1>9, <1>2, <1>3, <1>5 DEF Proceed
<1> QED
  BY <1>4, <1>5, <1>6, <1>7, <1>8, <1>9 DEF Next

\* Every step keeps one family for each authorization code: a code is redeemed
\* once (redeemAuthorizationCode).
LEMMA CodeStep ==
    ASSUME Inv, [Next]_vars
    PROVE  OneFamilyPerCode'
<1> USE SentinelAssumption, HashAssumption
        DEF Inv, TypeOK, RequestInv, GrantInv, OneFamilyPerCode
<1>1. ASSUME NEW p \in Requests, CreateRefreshToken(p) PROVE OneFamilyPerCode'
  BY <1>1 DEF CreateRefreshToken, Answer, Goto, tables, request, Live, Redeemable, FamilyOf
<1>2. ASSUME NEW p \in Requests,
              \/ \E c \in Codes : PresentCode(p, c)
              \/ ConsumeGrant(p)
              \/ RejectCode(p)
              \/ FinishWithoutRefresh(p)
              \/ \E t \in Tokens : PresentToken(p, t)
              \/ ConsumeToken(p)
              \/ CommitRotation(p)
              \/ ConsumeNothing(p)
              \/ LookupRotated(p)
              \/ LookupNothing(p)
              \/ ScanFamily(p)
              \/ LockFamilyRow(p)
              \/ CommitReuse(p)
              \/ \E t \in Tokens : PresentForRevocation(p, t)
              \/ RevokeToken(p)
              \/ RevokeForeign(p)
              \/ Fail(p)
              \/ DeadlockVictim(p)
       PROVE OneFamilyPerCode'
  BY <1>2
     DEF PresentCode, ConsumeGrant, RejectCode, FinishWithoutRefresh,
         PresentToken, ConsumeToken, CommitRotation, ConsumeNothing,
         LookupRotated, LookupNothing, ScanFamily, LockFamilyRow,
         CommitReuse, PresentForRevocation, RevokeToken, RevokeForeign,
         Fail, DeadlockVictim, Answer, Goto, tables, request, Live,
         Redeemable, FamilyOf
<1>3. ASSUME NEW c \in Codes, ExpireGrant(c) PROVE OneFamilyPerCode'
  BY <1>3 DEF ExpireGrant, Answer, Goto, tables, request, Live, Redeemable, FamilyOf
<1>4. ASSUME NEW t \in Tokens, ExpireToken(t) PROVE OneFamilyPerCode'
  BY <1>4 DEF ExpireToken, Answer, Goto, tables, request, Live, Redeemable, FamilyOf
<1>5. CASE UNCHANGED vars
  BY <1>5 DEF vars
<1> HIDE DEF Inv, TypeOK, RequestInv, GrantInv, OneFamilyPerCode
<1>6. ASSUME NEW p \in Requests, Arrive(p) PROVE OneFamilyPerCode'
  BY <1>6, <1>2 DEF Arrive
<1>7. ASSUME NEW p \in Requests, Proceed(p) PROVE OneFamilyPerCode'
  BY <1>7, <1>1, <1>2 DEF Proceed
<1> QED
  BY <1>2, <1>3, <1>4, <1>5, <1>6, <1>7 DEF Next

\* The invariant of the token endpoint holds in every state, whatever requests
\* meet (Next).
THEOREM Invariance == Spec => []Inv
<1>1. Init => Inv
  BY SentinelAssumption DEF Init, Inv, TypeOK, RequestInv, LockInv, OneUsableToken,
     GrantInv, OneFamilyPerCode, PresentsToken, Statements
<1>2. Inv /\ [Next]_vars => Inv'
  BY TypeStep, RequestStep, LockStep, UsableStep, GrantStep, CodeStep DEF Inv
<1> QED
  BY <1>1, <1>2, PTL DEF Spec

\* The sets and functions of the tables keep their types (every statement of
\* repository.go on oauth2_tokens and oauth2_grants).
THEOREM TypeCorrect == Spec => []TypeOK
  BY Invariance, PTL DEF Inv

\* A family never has two usable tokens, however many requests rotate, revoke
\* and detect reuse at once (RotateRefreshToken).
THEOREM AtMostOneUsableToken == Spec => []OneUsableToken
  BY Invariance, PTL DEF Inv

\* An authorization code never begins two families (ConsumeGrant).
THEOREM CodeSingleUse == Spec => []OneFamilyPerCode
  BY Invariance, PTL DEF Inv

\* A revoked token is never exchanged (the WHERE clause of the consuming UPDATE
\* together with the row lock it takes).
THEOREM RevocationFinal == Spec => NoExchangeAfterRevocation
<1>1. Inv /\ [Next]_vars => [(rotated' \ rotated) \intersect revoked = {}]_vars
  <2> SUFFICES ASSUME Inv, Next PROVE (rotated' \ rotated) \intersect revoked = {}
    OBVIOUS
  <2>1. ASSUME NEW p \in Requests, CommitRotation(p)
        PROVE  (rotated' \ rotated) \intersect revoked = {}
    BY <2>1 DEF CommitRotation, Inv, LockInv
  <2>2. CASE UNCHANGED rotated
    BY <2>2
  <2> QED
    BY <2>1, <2>2 DEF Next, Arrive, Proceed, PresentCode, ConsumeGrant, RejectCode,
       FinishWithoutRefresh, CreateRefreshToken, PresentToken, ConsumeToken,
       ConsumeNothing, LookupRotated, LookupNothing, ScanFamily, LockFamilyRow,
       CommitReuse, PresentForRevocation, RevokeToken, RevokeForeign, Fail,
       DeadlockVictim, ExpireGrant, ExpireToken, tables, request
<1> QED
  BY <1>1, Invariance, PTL DEF NoExchangeAfterRevocation, Spec

-----------------------------------------------------------------------------
(* The tables implement RefreshFamily.                                      *)

\* Where OneUsableToken holds, the refinement mapping names the usable token.
UsableFacts ==
    /\ usable \in [Tokens -> Tokens \union {NoToken}]
    /\ \A t \in issued \ revoked : usable[family[t]] = t
    /\ \A f \in Tokens : usable[f] # NoToken =>
         usable[f] \in issued \ revoked /\ family[usable[f]] = f

\* The usable token of a family is one that was issued for it and is not
\* revoked.
LEMMA UsableIs == Inv => UsableFacts
  BY SentinelAssumption
     DEF UsableFacts, usable, Inv, TypeOK, RequestInv, OneUsableToken

\* A step that only revokes rows of one family shuts the family down or leaves
\* its usable token alone.
LEMMA RevokingStep ==
    ASSUME Inv, UsableFacts, UsableFacts', NEW f \in Tokens,
           NEW S \in SUBSET FamilyOf(f),
           issued' = issued, family' = family, revoked' = revoked \union S
    PROVE  Family!ShutDown(f) \/ UNCHANGED <<usable, revoked>>
<1> USE SentinelAssumption DEF UsableFacts
<1>1. CASE usable[f] = NoToken \/ usable[f] \notin S
  <2>1. revoked' = revoked
    BY <1>1 DEF FamilyOf, Inv, TypeOK
  <2>2. \A g \in Tokens : usable'[g] = usable[g]
    BY <2>1
  <2> QED
    BY <2>1, <2>2
<1>2. CASE usable[f] # NoToken /\ usable[f] \in S
  <2>1. revoked' = revoked \union {usable[f]}
    BY <1>2 DEF FamilyOf, Inv, TypeOK
  <2>2. usable' = [usable EXCEPT ![f] = NoToken]
    <3>1. ASSUME NEW g \in Tokens
          PROVE  usable'[g] = IF g = f THEN NoToken ELSE usable[g]
      BY <2>1, <1>2 DEF Inv, TypeOK
    <3> QED
      BY <3>1
  <2> QED
    BY <1>2, <2>1, <2>2 DEF Family!ShutDown
<1> QED
  BY <1>1, <1>2

\* The endpoint implements the abstract family of refresh tokens: every step of
\* a request is a step of RefreshFamily or changes nothing of it.
THEOREM Implementation == Spec => ImplementsFamily
<1>1. Init => Family!Init
  BY DEF Init, Family!Init, usable
<1>2. Inv /\ Inv' /\ [Next]_vars => [Family!Next]_<<usable, revoked>>
  <2> SUFFICES ASSUME Inv, Inv', [Next]_vars
               PROVE  Family!Next \/ UNCHANGED <<usable, revoked>>
    OBVIOUS
  <2>1. UsableFacts /\ UsableFacts'
    BY UsableIs, SentinelAssumption
       DEF UsableFacts, usable, Inv, TypeOK, RequestInv, OneUsableToken
  <2>2. ASSUME NEW p \in Requests, CreateRefreshToken(p) PROVE Family!Next
    <3>1. PICK t \in NewHashes(issued) :
            issued' = issued \union {t} /\ family' = [family EXCEPT ![t] = t]
      BY <2>2 DEF CreateRefreshToken
    <3>2. t \in Tokens /\ t \notin issued /\ revoked' = revoked
      BY <2>2, HashAssumption DEF CreateRefreshToken, Inv, TypeOK
    <3>3. \A s \in issued : family[s] # t
      BY <3>2 DEF Inv, RequestInv
    <3>4. usable[t] = NoToken /\ t \in Family!Unused
      BY <2>1, <3>2, <3>3, SentinelAssumption
         DEF UsableFacts, Family!Unused, Inv, TypeOK
    <3>5. usable' = [usable EXCEPT ![t] = t]
      <4>1. ASSUME NEW g \in Tokens
            PROVE  usable'[g] = IF g = t THEN t ELSE usable[g]
        <5>1. family'[t] = t /\ \A s \in issued : family'[s] = family[s]
          BY <3>1, <3>2 DEF Inv, TypeOK
        <5>2. CASE g = t
          BY <5>1, <5>2, <2>1, <3>1, <3>2 DEF UsableFacts, Inv, TypeOK
        <5>3. CASE g # t /\ usable[g] # NoToken
          BY <5>1, <5>3, <2>1, <3>1, <3>2 DEF UsableFacts, Inv, TypeOK
        <5>4. CASE g # t /\ usable[g] = NoToken
          BY <5>1, <5>4, <2>1, <3>1, <3>2 DEF UsableFacts, Inv, TypeOK
        <5> QED
          BY <5>2, <5>3, <5>4
      <4> QED
        BY <4>1, <2>1 DEF UsableFacts
    <3> QED
      BY <3>2, <3>4, <3>5 DEF Family!Next, Family!Begin
  <2>3. ASSUME NEW p \in Requests, CommitRotation(p) PROVE Family!Next
    <3> DEFINE f == family[token[p]]
    <3>1. PICK t \in NewHashes(issued) :
            issued' = issued \union {t} /\ family' = [family EXCEPT ![t] = f]
      BY <2>3 DEF CommitRotation
    <3>2. t \in Tokens /\ t \notin issued /\ revoked' = revoked \union {token[p]}
      BY <2>3, HashAssumption DEF CommitRotation, Inv, TypeOK
    <3>3. token[p] \in issued \ revoked /\ f \in Tokens /\ usable[f] = token[p]
      BY <2>1, <2>3 DEF CommitRotation, UsableFacts, Inv, TypeOK, RequestInv, LockInv,
                        PresentsToken
    <3>4. usable[f] # NoToken /\ t \in Family!Unused
      BY <2>1, <3>2, <3>3, SentinelAssumption
         DEF UsableFacts, Family!Unused, Inv, TypeOK
    <3>5. usable' = [usable EXCEPT ![f] = t]
      <4>1. ASSUME NEW g \in Tokens
            PROVE  usable'[g] = IF g = f THEN t ELSE usable[g]
        BY <2>1, <3>1, <3>2, <3>3 DEF UsableFacts, Inv, TypeOK
      <4> QED
        BY <4>1, <2>1 DEF UsableFacts
    <3> QED
      BY <3>2, <3>3, <3>4, <3>5 DEF Family!Next, Family!HandOver
  <2>4. ASSUME NEW p \in Requests, CommitReuse(p)
        PROVE  Family!Next \/ UNCHANGED <<usable, revoked>>
    <3>1. family[token[p]] \in Tokens
      BY <2>4 DEF CommitReuse, Inv, TypeOK, RequestInv, PresentsToken
    <3>2. scan[p] \in SUBSET FamilyOf(family[token[p]])
      BY <2>4 DEF CommitReuse, Inv, LockInv
    <3> QED
      BY <2>1, <2>4, <3>1, <3>2, RevokingStep DEF CommitReuse, Family!Next
  <2>5. ASSUME NEW p \in Requests, RevokeToken(p)
        PROVE  Family!Next \/ UNCHANGED <<usable, revoked>>
    <3>1. /\ family[token[p]] \in Tokens
          /\ {token[p]} \in SUBSET FamilyOf(family[token[p]])
      BY <2>5 DEF RevokeToken, Inv, TypeOK, RequestInv, PresentsToken, FamilyOf
    <3> QED
      BY <2>1, <2>5, <3>1, RevokingStep DEF RevokeToken, Family!Next
  <2>6. CASE UNCHANGED <<issued, revoked, family>>
    BY <2>6 DEF usable
  <2> QED
    BY <2>2, <2>3, <2>4, <2>5, <2>6
       DEF Next, Arrive, Proceed, PresentCode, ConsumeGrant, RejectCode,
           FinishWithoutRefresh, PresentToken, ConsumeToken, ConsumeNothing,
           LookupRotated, LookupNothing, ScanFamily, LockFamilyRow,
           PresentForRevocation, RevokeForeign, Fail, DeadlockVictim,
           ExpireGrant, ExpireToken, tables, request, vars
<1> QED
  BY <1>1, <1>2, Invariance, PTL DEF ImplementsFamily, Family!Spec, Family!famVars, Spec
=============================================================================
