--------------------------- MODULE SigningKeys_proofs ---------------------------
(***************************************************************************)
(* Proofs about the signing keys for any number of replicas, rotations and *)
(* keys.  OneHistory is not inductive: it needs that a transaction which   *)
(* is about to commit has listed the table it will leave behind, which     *)
(* holds because the advisory lock keeps every other commit out.           *)
(***************************************************************************)
EXTENDS SigningKeys, TLAPS

\* What p's transaction has listed is the table as its commit makes it, and a
\* job has a key to insert only in its transaction.
ListedTable ==
    \A p \in Jobs :
        /\ pc[p] = "commit" =>
               listed[p] = IF inserted[p] = NoKid THEN jwks ELSE <<inserted[p]>> \o jwks
        /\ pc[p] # "commit" => inserted[p] = NoKid

IInv == TypeOK /\ ListedTable /\ OneHistory /\ SignedKeysAreStored

-----------------------------------------------------------------------------
(* Suffixes                                                                *)

\* A suffix of t is its last elements, in their order.
LEMMA SuffixElements ==
    ASSUME NEW S, NEW s \in Seq(S), NEW t \in Seq(S)
    PROVE  IsSuffix(s, t) <=>
               /\ Len(s) <= Len(t)
               /\ \A i \in 1..Len(s) : s[i] = t[Len(t) - Len(s) + i]
<1>1. /\ Reverse(s) \in [1..Len(s) -> S] /\ Len(Reverse(s)) = Len(s)
      /\ Reverse(t) \in [1..Len(t) -> S] /\ Len(Reverse(t)) = Len(t)
      /\ \A i \in 1..Len(s) : Reverse(s)[i] = s[Len(s) - i + 1]
      /\ \A i \in 1..Len(t) : Reverse(t)[i] = t[Len(t) - i + 1]
  BY DEF Reverse
<1>2. Reverse(s) \in Seq(S) /\ Reverse(t) \in Seq(S)
  BY DEF Reverse
<1>3. IsSuffix(s, t) <=>
          /\ Len(s) <= Len(t)
          /\ SubSeq(Reverse(s), 1, Len(s)) = SubSeq(Reverse(t), 1, Len(s))
  BY <1>1 DEF IsSuffix, IsPrefix
<1>4. Len(s) <= Len(t) =>
          (SubSeq(Reverse(s), 1, Len(s)) = SubSeq(Reverse(t), 1, Len(s))
           <=> \A i \in 1..Len(s) : Reverse(s)[i] = Reverse(t)[i])
  BY <1>1, <1>2
<1>5. Len(s) <= Len(t) =>
          ((\A i \in 1..Len(s) : Reverse(s)[i] = Reverse(t)[i])
           <=> \A i \in 1..Len(s) : s[i] = t[Len(t) - Len(s) + i])
  <2> SUFFICES ASSUME Len(s) <= Len(t)
               PROVE  (\A i \in 1..Len(s) : Reverse(s)[i] = Reverse(t)[i])
                      <=> \A i \in 1..Len(s) : s[i] = t[Len(t) - Len(s) + i]
    OBVIOUS
  <2> DEFINE mirror(i) == Len(s) - i + 1
  <2>1. \A i \in 1..Len(s) : mirror(i) \in 1..Len(s) /\ mirror(mirror(i)) = i
    OBVIOUS
  <2>2. \A i \in 1..Len(s) : Len(t) - i + 1 = Len(t) - Len(s) + mirror(i)
    OBVIOUS
  <2>3. \A i \in 1..Len(s) :
            Reverse(s)[i] = s[mirror(i)] /\ Reverse(t)[i] = t[Len(t) - Len(s) + mirror(i)]
    BY <1>1, <2>2
  <2> HIDE DEF mirror
  <2>4. ASSUME \A i \in 1..Len(s) : Reverse(s)[i] = Reverse(t)[i], NEW i \in 1..Len(s)
        PROVE  s[i] = t[Len(t) - Len(s) + i]
    <3>1. mirror(i) \in 1..Len(s) /\ mirror(mirror(i)) = i
      BY <2>1
    <3>2. Reverse(s)[mirror(i)] = Reverse(t)[mirror(i)]
      BY <2>4, <3>1
    <3> QED
      BY <2>3, <3>1, <3>2
  <2>5. ASSUME \A i \in 1..Len(s) : s[i] = t[Len(t) - Len(s) + i], NEW i \in 1..Len(s)
        PROVE  Reverse(s)[i] = Reverse(t)[i]
    <3>1. mirror(i) \in 1..Len(s)
      BY <2>1
    <3>2. s[mirror(i)] = t[Len(t) - Len(s) + mirror(i)]
      BY <2>5, <3>1
    <3> QED
      BY <2>3, <3>2
  <2> QED
    BY <2>4, <2>5
<1> QED
  BY <1>3, <1>4, <1>5

\* A table is its own suffix.
LEMMA SuffixReflexive == ASSUME NEW S, NEW t \in Seq(S) PROVE IsSuffix(t, t)
<1>1. Len(t) \in Nat /\ \A i \in 1..Len(t) : t[i] = t[Len(t) - Len(t) + i]
  OBVIOUS
<1> QED
  BY <1>1, SuffixElements

\* What a manager that is down holds is a suffix of every table.
LEMMA EmptySuffix == ASSUME NEW S, NEW e \in Seq(S), e = <<>>, NEW t \in Seq(S) PROVE IsSuffix(e, t)
<1>1. Len(e) <= Len(t) /\ \A i \in 1..Len(e) : e[i] = t[Len(t) - Len(e) + i]
  OBVIOUS
<1> QED
  BY <1>1, SuffixElements

\* A suffix stays one when a key is put before the table.
LEMMA SuffixOfLonger ==
    ASSUME NEW S, NEW s \in Seq(S), NEW t \in Seq(S), NEW k \in S, IsSuffix(s, t)
    PROVE  IsSuffix(s, <<k>> \o t)
<1> DEFINE u == <<k>> \o t
<1>1. u \in Seq(S) /\ Len(u) = Len(t) + 1 /\ \A i \in 1..Len(t) : u[i + 1] = t[i]
  OBVIOUS
<1> HIDE DEF u
<1>2. Len(s) <= Len(t) /\ \A i \in 1..Len(s) : s[i] = t[Len(t) - Len(s) + i]
  BY SuffixElements
<1>3. ASSUME NEW i \in 1..Len(s) PROVE s[i] = u[Len(u) - Len(s) + i]
  <2>1. /\ Len(t) - Len(s) + i \in 1..Len(t)
        /\ Len(u) - Len(s) + i = (Len(t) - Len(s) + i) + 1
    BY <1>1, <1>2
  <2> QED
    BY <1>1, <1>2, <2>1
<1>4. Len(s) <= Len(u)
  BY <1>1, <1>2
<1>5. IsSuffix(s, u)
  BY <1>1, <1>3, <1>4, SuffixElements
<1> QED
  BY <1>5 DEF u

\* The first key of a suffix is in the table.
LEMMA HeadOfSuffix ==
    ASSUME NEW S, NEW s \in Seq(S), NEW t \in Seq(S), IsSuffix(s, t), s # <<>>
    PROVE  Head(s) \in Range(t)
<1>1. Len(s) \in 1..Len(t) /\ s[1] = t[Len(t) - Len(s) + 1]
  BY SuffixElements
<1>2. Len(t) - Len(s) + 1 \in DOMAIN t /\ Head(s) = s[1]
  BY <1>1
<1> QED
  BY <1>1, <1>2 DEF Range

\* A key put before the table takes none from it.
LEMMA RangeGrows ==
    ASSUME NEW S, NEW t \in Seq(S), NEW k \in S
    PROVE  Range(t) \subseteq Range(<<k>> \o t)
<1>1. \A i \in DOMAIN t : i + 1 \in DOMAIN (<<k>> \o t) /\ (<<k>> \o t)[i + 1] = t[i]
  OBVIOUS
<1> QED
  BY <1>1 DEF Range

-----------------------------------------------------------------------------
\* Every action keeps the invariant.
LEMMA Step == IInv /\ [Next]_vars => IInv'
<1> USE KidAssumption, JobAssumption
<1> SUFFICES ASSUME IInv, [Next]_vars PROVE IInv'
  OBVIOUS
<1>1. ASSUME NEW p \in Jobs, NEW r \in Replicas, Begin(p, r) PROVE IInv'
  <2>1. TypeOK'
    BY <1>1 DEF IInv, TypeOK, Jobs, Begin
  <2>2. ListedTable'
    BY <1>1 DEF IInv, TypeOK, Jobs, ListedTable, Begin
  <2>3. OneHistory'
    BY <1>1 DEF IInv, TypeOK, Jobs, ListedTable, OneHistory, Begin
  <2>4. SignedKeysAreStored'
    BY <1>1 DEF IInv, TypeOK, Jobs, OneHistory, SignedKeysAreStored, Begin
  <2> QED
    BY <2>1, <2>2, <2>3, <2>4 DEF IInv
<1>2. ASSUME NEW p \in Jobs, Insert(p) PROVE IInv'
  <2>0. Taken \ {NoKid} \in SUBSET Kids
    BY DEF IInv, TypeOK, Taken, Range
  <2>1. TypeOK'
    <3>0. NewKids(Taken \ {NoKid}) \subseteq Kids \ (Taken \ {NoKid})
      BY <2>0
    <3>1. ASSUME NEW k \in NewKids(Taken \ {NoKid})
          PROVE  k \in Kids /\ <<k>> \o jwks \in Seq(Kids)
      <4>1. k \in Kids
        BY <3>0
      <4>2. <<k>> \in Seq(Kids) /\ jwks \in Seq(Kids)
        BY <4>1 DEF IInv, TypeOK
      <4> QED
        BY <4>1, <4>2
    <3>2. \E k \in Kids \union {NoKid}, l \in Seq(Kids) :
              inserted' = [inserted EXCEPT ![p] = k] /\ listed' = [listed EXCEPT ![p] = l]
      <4>1. CASE \E k \in NewKids(Taken \ {NoKid}) :
                    /\ inserted' = [inserted EXCEPT ![p] = k]
                    /\ listed' = [listed EXCEPT ![p] = <<k>> \o jwks]
        BY <3>1, <4>1
      <4>2. CASE listed' = [listed EXCEPT ![p] = jwks] /\ UNCHANGED inserted
        <5>1. inserted' = [inserted EXCEPT ![p] = inserted[p]]
          BY <4>2 DEF IInv, TypeOK
        <5>2. inserted[p] \in Kids \union {NoKid} /\ jwks \in Seq(Kids)
          BY DEF IInv, TypeOK
        <5> QED
          BY <4>2, <5>1, <5>2
      <4> QED
        BY <1>2, <4>1, <4>2 DEF Insert
    <3>3. /\ pc[p] = "insert" /\ pc' = [pc EXCEPT ![p] = "commit"]
          /\ UNCHANGED <<jwks, lock, keyOrder, home, signed>>
      BY <1>2 DEF Insert
    <3> QED
      BY <3>2, <3>3 DEF IInv, TypeOK
  <2>2. ListedTable'
    <3>1. NewKids(Taken \ {NoKid}) \subseteq Kids
      BY <2>0
    <3>2. \A q \in Jobs : q # p => pc[q] # "commit"
      BY <1>2 DEF IInv, TypeOK, Insert
    <3>3. /\ pc[p] = "insert" /\ pc' = [pc EXCEPT ![p] = "commit"]
          /\ UNCHANGED jwks
      BY <1>2 DEF Insert
    <3>4. CASE \E k \in NewKids(Taken \ {NoKid}) :
                  /\ inserted' = [inserted EXCEPT ![p] = k]
                  /\ listed' = [listed EXCEPT ![p] = <<k>> \o jwks]
      <4>1. PICK k \in NewKids(Taken \ {NoKid}) :
                    /\ inserted' = [inserted EXCEPT ![p] = k]
                    /\ listed' = [listed EXCEPT ![p] = <<k>> \o jwks]
        BY <3>4
      <4>2. k # NoKid
        BY <3>1
      <4>3. /\ pc'[p] = "commit" /\ inserted'[p] = k /\ listed'[p] = <<k>> \o jwks
            /\ \A q \in Jobs \ {p} : pc'[q] = pc[q] /\ inserted'[q] = inserted[q]
        BY <3>3, <4>1 DEF IInv, TypeOK
      <4> QED
        BY <3>2, <3>3, <4>2, <4>3 DEF IInv, ListedTable
    <3>5. CASE listed' = [listed EXCEPT ![p] = jwks] /\ UNCHANGED inserted
      <4>1. inserted[p] = NoKid /\ inserted' = inserted /\ jwks' = jwks
        BY <3>3, <3>5 DEF IInv, ListedTable
      <4>2. pc \in [Jobs -> {"idle", "insert", "commit", "swap"}] /\ DOMAIN listed = Jobs
        BY DEF IInv, TypeOK
      <4>3. /\ pc'[p] = "commit" /\ listed'[p] = jwks
            /\ \A q \in Jobs \ {p} : pc'[q] = pc[q]
        BY <3>3, <3>5, <4>2
      <4>4. \A q \in Jobs \ {p} : pc'[q] # "commit" /\ inserted'[q] = NoKid
        BY <3>2, <4>1, <4>3 DEF IInv, ListedTable
      <4>5. inserted'[p] = NoKid /\ listed'[p] = jwks'
        BY <4>1, <4>3
      <4>6. ASSUME NEW q \in Jobs
            PROVE  /\ pc'[q] = "commit" =>
                        listed'[q] = IF inserted'[q] = NoKid THEN jwks' ELSE <<inserted'[q]>> \o jwks'
                   /\ pc'[q] # "commit" => inserted'[q] = NoKid
        BY <4>3, <4>4, <4>5, Zenon
      <4> QED
        BY <4>6 DEF ListedTable
    <3> QED
      BY <1>2, <3>4, <3>5 DEF Insert
  <2>3. OneHistory'
    <3>1. /\ pc' = [pc EXCEPT ![p] = "commit"] /\ UNCHANGED <<jwks, keyOrder>>
          /\ \E l : listed' = [listed EXCEPT ![p] = l]
      BY <1>2 DEF Insert
    <3>2. DOMAIN pc = Jobs /\ DOMAIN listed = Jobs
      BY DEF IInv, TypeOK
    <3>3. \A q \in Jobs : pc'[q] = "swap" => pc[q] = "swap" /\ listed'[q] = listed[q]
      BY <3>1, <3>2
    <3> QED
      BY <3>1, <3>3 DEF IInv, OneHistory
  <2>4. SignedKeysAreStored'
    BY <1>2 DEF IInv, SignedKeysAreStored, Insert
  <2> QED
    BY <2>1, <2>2, <2>3, <2>4 DEF IInv
<1>3. ASSUME NEW p \in Jobs, Commit(p) PROVE IInv'
  <2>1. TypeOK'
    BY <1>3 DEF IInv, TypeOK, Jobs, Commit
  <2>2. ListedTable'
    BY <1>3 DEF IInv, TypeOK, Jobs, ListedTable, Commit
  <2>3. OneHistory'
    <3>1. jwks' = jwks \/ \E k \in Kids : jwks' = <<k>> \o jwks
      BY <1>3 DEF IInv, TypeOK, Commit
    <3>2. ASSUME NEW s \in Seq(Kids), IsSuffix(s, jwks) PROVE IsSuffix(s, jwks')
      <4>1. jwks \in Seq(Kids)
        BY DEF IInv, TypeOK
      <4>2. CASE jwks' = jwks
        BY <3>2, <4>2
      <4>3. CASE \E k \in Kids : jwks' = <<k>> \o jwks
        <5>1. \A k \in Kids : IsSuffix(s, <<k>> \o jwks)
          BY <3>2, <4>1, SuffixOfLonger
        <5> QED
          BY <4>3, <5>1
      <4> QED
        BY <3>1, <4>2, <4>3
    <3>3. listed[p] = jwks'
      BY <1>3 DEF IInv, TypeOK, ListedTable, Commit
    <3>4. IsSuffix(listed[p], jwks')
      BY <3>3, <2>1, SuffixReflexive DEF TypeOK
    <3> QED
      BY <1>3, <3>2, <3>4 DEF IInv, TypeOK, OneHistory, Commit
  <2>4. SignedKeysAreStored'
    <3>1. jwks' = jwks \/ \E k \in Kids : jwks' = <<k>> \o jwks
      BY <1>3 DEF IInv, TypeOK, Commit
    <3>2. Range(jwks) \subseteq Range(jwks')
      BY <3>1, RangeGrows DEF IInv, TypeOK
    <3> QED
      BY <1>3, <3>2 DEF IInv, SignedKeysAreStored, Commit
  <2> QED
    BY <2>1, <2>2, <2>3, <2>4 DEF IInv
<1>4. ASSUME NEW p \in Jobs, Swap(p) PROVE IInv'
  <2>1. TypeOK'
    <3>1. keyOrder' \in [Replicas -> Seq(Kids)] /\ UNCHANGED <<jwks, signed>>
      BY <1>4 DEF IInv, TypeOK, Swap
    <3>2. pc[p] = "swap" /\ lock # p
      BY <1>4 DEF IInv, TypeOK, Swap
    <3> QED
      BY <1>4, <3>1, <3>2 DEF IInv, TypeOK, Jobs, Swap, End
  <2>2. ListedTable'
    BY <1>4 DEF IInv, TypeOK, Jobs, ListedTable, Swap, End
  <2>3. OneHistory'
    BY <1>4 DEF IInv, TypeOK, Jobs, ListedTable, OneHistory, Swap, End
  <2>4. SignedKeysAreStored'
    BY <1>4 DEF IInv, TypeOK, Jobs, OneHistory, SignedKeysAreStored, Swap, End
  <2> QED
    BY <2>1, <2>2, <2>3, <2>4 DEF IInv
<1>5. ASSUME NEW p \in Jobs, Fail(p) PROVE IInv'
  <2>1. TypeOK'
    BY <1>5 DEF IInv, TypeOK, Jobs, Fail, End
  <2>2. ListedTable'
    BY <1>5 DEF IInv, TypeOK, Jobs, ListedTable, Fail, End
  <2>3. OneHistory'
    BY <1>5 DEF IInv, TypeOK, Jobs, ListedTable, OneHistory, Fail, End
  <2>4. SignedKeysAreStored'
    BY <1>5 DEF IInv, TypeOK, Jobs, OneHistory, SignedKeysAreStored, Fail, End
  <2> QED
    BY <2>1, <2>2, <2>3, <2>4 DEF IInv
<1>6. ASSUME NEW r \in Replicas, Reload(r) PROVE IInv'
  <2>1. TypeOK'
    BY <1>6 DEF IInv, TypeOK, Jobs, Reload, Up
  <2>2. ListedTable'
    BY <1>6 DEF IInv, TypeOK, Jobs, ListedTable, Reload, Up
  <2>3. OneHistory'
    <3>1. IsSuffix(jwks, jwks)
      BY SuffixReflexive DEF IInv, TypeOK
    <3> QED
      BY <1>6, <3>1 DEF IInv, TypeOK, Jobs, OneHistory, Reload
  <2>4. SignedKeysAreStored'
    BY <1>6 DEF IInv, TypeOK, Jobs, OneHistory, SignedKeysAreStored, Reload, Up
  <2> QED
    BY <2>1, <2>2, <2>3, <2>4 DEF IInv
<1>7. ASSUME NEW r \in Replicas, Crash(r) PROVE IInv'
  <2>1. TypeOK'
    BY <1>7 DEF IInv, TypeOK, Jobs, Crash, Up, End
  <2>2. ListedTable'
    BY <1>7 DEF IInv, TypeOK, Jobs, ListedTable, Crash, Up, End
  <2>3. OneHistory'
    <3>1. \A e \in Seq(Kids) : e = <<>> => IsSuffix(e, jwks)
      BY EmptySuffix DEF IInv, TypeOK
    <3>2. <<>> \in Seq(Kids)
      OBVIOUS
    <3> QED
      BY <1>7, <3>1, <3>2 DEF IInv, TypeOK, Jobs, OneHistory, Crash, End
  <2>4. SignedKeysAreStored'
    BY <1>7 DEF IInv, TypeOK, Jobs, OneHistory, SignedKeysAreStored, Crash, Up, End
  <2> QED
    BY <2>1, <2>2, <2>3, <2>4 DEF IInv
<1>8. ASSUME NEW r \in Replicas, SignJWT(r) PROVE IInv'
  <2>1. TypeOK'
    BY <1>8 DEF IInv, TypeOK, Jobs, SignJWT, Up, jobs
  <2>2. ListedTable'
    BY <1>8 DEF IInv, TypeOK, Jobs, ListedTable, SignJWT, Up, jobs
  <2>3. OneHistory'
    BY <1>8 DEF IInv, TypeOK, Jobs, ListedTable, OneHistory, SignJWT, Up, jobs
  <2>4. SignedKeysAreStored'
    <3>1. Head(keyOrder[r]) \in Range(jwks)
      BY <1>8, HeadOfSuffix DEF IInv, TypeOK, OneHistory, SignJWT, Up
    <3> QED
      BY <1>8, <3>1 DEF IInv, SignedKeysAreStored, SignJWT
  <2> QED
    BY <2>1, <2>2, <2>3, <2>4 DEF IInv
<1>9. CASE UNCHANGED vars
  BY <1>9 DEF IInv, TypeOK, ListedTable, OneHistory, SignedKeysAreStored, vars
<1> QED
  BY <1>1, <1>2, <1>3, <1>4, <1>5, <1>6, <1>7, <1>8, <1>9 DEF Next

\* The inductive invariant holds in every reachable state.
THEOREM Invariance == Spec => []IInv
<1>1. Init => IInv
  <2> SUFFICES ASSUME Init PROVE IInv
    OBVIOUS
  <2>1. TypeOK
    BY JobAssumption DEF Init, TypeOK, Jobs
  <2>2. OneHistory
    <3>1. <<>> \in Seq(Kids)
      OBVIOUS
    <3>2. \A e \in Seq(Kids) : e = <<>> => IsSuffix(e, <<>>)
      BY <3>1, EmptySuffix
    <3> QED
      BY <3>1, <3>2 DEF Init, OneHistory
  <2> QED
    BY <2>1, <2>2 DEF IInv, Init, ListedTable, SignedKeysAreStored
<1> QED
  BY <1>1, Step, PTL DEF Spec

\* The type invariant: the lock is held by the transaction under way, and by
\* no two of them.
THEOREM TypeCorrect == Spec => []TypeOK
<1>1. IInv => TypeOK
  BY DEF IInv
<1> QED
  BY <1>1, Invariance, PTL

\* However many replicas start and rotate at once, the table has one history
\* and every replica holds, or is about to hold, a point of it.
THEOREM SingleHistory == Spec => []OneHistory
<1>1. IInv => OneHistory
  BY DEF IInv
<1> QED
  BY <1>1, Invariance, PTL

\* No token is signed with a key that a crash could lose.
THEOREM StoredBeforeUse == Spec => []SignedKeysAreStored
<1>1. IInv => SignedKeysAreStored
  BY DEF IInv
<1> QED
  BY <1>1, Invariance, PTL
=============================================================================
