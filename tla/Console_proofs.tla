--------------------------- MODULE Console_proofs ---------------------------
(***************************************************************************)
(* Proofs about the rule store of Aegis and about the console, which edits *)
(* what that and the other engines hold.                                   *)
(*                                                                         *)
(* The rule store: for any number of replicas, rules, changes and faults.  *)
(* The lemmas about the table of rules and the lists that are made of it   *)
(* come first: ORDER BY is a strict total order, so that a rule's position *)
(* is the number of the rules before it.  The history of the versions      *)
(* needs none of that, the types and the moves of a rule do.               *)
(*                                                                         *)
(* The console: for any number of requests, of changes by others and of    *)
(* failures, and any set of policies, identities, clients and so on.  What *)
(* the pages share comes first: the queue of requests in flight, the cache *)
(* and the way from page to page of a list.  Then each page, except the    *)
(* audit's, has an invariant that its Init implies (...Start) and its Next *)
(* keeps (...Step), and the theorems at the end put them together.  A      *)
(* page's instance of an operator of ConsolePage is turned into Common's,  *)
(* of which the lemmas speak.                                              *)
(***************************************************************************)
EXTENDS RuleStore, Console, SequenceTheorems, FiniteSetTheorems, TLAPS
-----------------------------------------------------------------------------
(* The rows of the rule store and the lists that are made of them. *)

\* A table of rules, with ids of I, creation times of T and contents of B.
Table(rs, I, T, B) ==
  /\ IsFiniteSet(DOMAIN rs) /\ DOMAIN rs \subseteq I
  /\ \A i \in DOMAIN rs : rs[i] \in [order : Int, born : T, body : B]

\* Lists of such rules.
Lists(I, B) == Seq([id : I, order : Int, body : B])

Before(rs, i) == {j \in DOMAIN rs : Precedes(rs, j, i)}
Rank(rs, i) == Cardinality(Before(rs, i))

\* ORDER BY puts the rules into a strict total order.
LEMMA TotalOrder ==
  ASSUME NEW I \in SUBSET Nat, NEW T \in SUBSET Int, NEW B, NEW rs, Table(rs, I, T, B)
  PROVE  /\ \A i \in DOMAIN rs : ~Precedes(rs, i, i)
         /\ \A i, j \in DOMAIN rs : i # j => Precedes(rs, i, j) \/ Precedes(rs, j, i)
         /\ \A i, j, k \in DOMAIN rs :
              Precedes(rs, i, j) /\ Precedes(rs, j, k) => Precedes(rs, i, k)
<1>1. ASSUME NEW i \in DOMAIN rs PROVE i \in Int /\ rs[i].order \in Int /\ rs[i].born \in Int
  <2>1. i \in I /\ rs[i] \in [order : Int, born : T, body : B]
    BY DEF Table
  <2>2. rs[i].order \in Int /\ rs[i].born \in T
    BY <2>1
  <2>3. i \in Nat
    BY <2>1, Zenon
  <2>4. rs[i].born \in Int
    BY <2>2
  <2> QED
    BY <2>2, <2>3, <2>4
<1> QED
  BY <1>1 DEF Precedes

\* A rule as a list has it.
Columns(rs, i) == [id |-> i, order |-> rs[i].order, body |-> rs[i].body]

\* Every position of the list is the rank of one rule.
LEMMA Ranks ==
  ASSUME NEW I \in SUBSET Nat, NEW T \in SUBSET Int, NEW B, NEW rs, Table(rs, I, T, B)
  PROVE  /\ Cardinality(DOMAIN rs) \in Nat
         /\ \A i, j \in DOMAIN rs : Precedes(rs, i, j) => Rank(rs, i) < Rank(rs, j)
         /\ \A i, j \in DOMAIN rs : Rank(rs, i) = Rank(rs, j) => i = j
         /\ \A i \in DOMAIN rs : Rank(rs, i) \in 0..Cardinality(DOMAIN rs) - 1
         /\ \A k \in 0..Cardinality(DOMAIN rs) - 1 : \E i \in DOMAIN rs : Rank(rs, i) = k
<1> DEFINE D == DOMAIN rs
           n == Cardinality(D)
<1>1. IsFiniteSet(D) /\ n \in Nat
  BY FS_CardinalityType DEF Table
<1>2. \A i \in D : IsFiniteSet(Before(rs, i)) /\ Rank(rs, i) \in Nat
  <2> SUFFICES ASSUME NEW i \in D PROVE IsFiniteSet(Before(rs, i)) /\ Rank(rs, i) \in Nat
    OBVIOUS
  <2>1. Before(rs, i) \in SUBSET D
    BY DEF Before
  <2>2. IsFiniteSet(Before(rs, i))
    BY <1>1, <2>1, FS_Subset
  <2> QED
    BY <2>2, FS_CardinalityType DEF Rank
<1>3. ASSUME NEW i \in D, NEW j \in D, Precedes(rs, i, j)
      PROVE  Rank(rs, i) < Rank(rs, j)
  <2>1. Before(rs, i) \in SUBSET Before(rs, j)
    BY <1>3, TotalOrder DEF Before
  <2>2. i \in Before(rs, j) \ Before(rs, i)
    BY <1>3, TotalOrder DEF Before
  <2>3. /\ Cardinality(Before(rs, i)) <= Cardinality(Before(rs, j))
        /\ Cardinality(Before(rs, j)) = Cardinality(Before(rs, i)) => Before(rs, j) = Before(rs, i)
    BY <1>2, <2>1, FS_Subset
  <2>4. Rank(rs, i) <= Rank(rs, j) /\ Rank(rs, i) # Rank(rs, j)
    BY <2>2, <2>3 DEF Rank
  <2> QED
    BY <1>2, <2>4
<1>4. ASSUME NEW i \in D, NEW j \in D, Rank(rs, i) = Rank(rs, j) PROVE i = j
  <2>1. ~Precedes(rs, i, j) /\ ~Precedes(rs, j, i)
    BY <1>2, <1>3, <1>4
  <2> QED
    BY <2>1, TotalOrder
<1>5. ASSUME NEW i \in D PROVE Rank(rs, i) \in 0..n - 1
  <2>1. i \notin Before(rs, i) /\ Before(rs, i) \in SUBSET (D \ {i})
    BY TotalOrder DEF Before
  <2>2. IsFiniteSet(D \ {i}) /\ Cardinality(D \ {i}) = n - 1
    BY <1>1, FS_RemoveElement
  <2>3. Rank(rs, i) <= n - 1
    BY <2>1, <2>2, FS_Subset DEF Rank
  <2> QED
    BY <1>1, <1>2, <2>3
<1>6. ASSUME NEW k \in 0..n - 1 PROVE \E i \in D : Rank(rs, i) = k
  <2> DEFINE f == [i \in D |-> Rank(rs, i)]
  <2>1. f \in [D -> 0..n - 1] /\ \A i, j \in D : f[i] = f[j] => i = j
    BY <1>4, <1>5
  <2> HIDE DEF f
  <2>2. f \in Injection(D, 0..n - 1)
    BY <2>1 DEF Injection, IsInjective
  <2>3. IsFiniteSet(0..n - 1) /\ Cardinality(0..n - 1) = n
    <3>1. 0 \in Int /\ n - 1 \in Int
      BY <1>1
    <3>2. IsFiniteSet(0..n - 1) /\ Cardinality(0..n - 1) = IF 0 > n - 1 THEN 0 ELSE n - 1 - 0 + 1
      BY <3>1, FS_Interval
    <3> QED
      BY <1>1, <3>2
  <2>4. f \in Surjection(D, 0..n - 1)
    BY <2>2, <2>3, FS_Injection
  <2>5. PICK i \in D : f[i] = k
    BY <2>4 DEF Surjection
  <2> QED
    BY <2>5 DEF f
<1> QED
  BY <1>1, <1>3, <1>4, <1>5, <1>6

\* The list has every rule of the table once, with its columns, in the order of
\* the ranks.
LEMMA ListedRank ==
  ASSUME NEW I \in SUBSET Nat, NEW T \in SUBSET Int, NEW B, NEW rs, Table(rs, I, T, B)
  PROVE  /\ DOMAIN Listed(rs) = 1..Cardinality(DOMAIN rs)
         /\ \A k \in 1..Cardinality(DOMAIN rs) :
              \E i \in DOMAIN rs : Rank(rs, i) = k - 1 /\ Listed(rs)[k] = Columns(rs, i)
<1> DEFINE n == Cardinality(DOMAIN rs)
           At(k) == CHOOSE i \in DOMAIN rs : Rank(rs, i) = k - 1
<1>1. n \in Nat
  BY Ranks
<1>2. Listed(rs) = [k \in 1..n |-> Columns(rs, At(k))]
  BY DEF Listed, Rank, Before, Columns
<1>3. ASSUME NEW k \in 1..n PROVE At(k) \in DOMAIN rs /\ Rank(rs, At(k)) = k - 1
  <2>1. k - 1 \in 0..n - 1
    BY <1>1
  <2>2. \E i \in DOMAIN rs : Rank(rs, i) = k - 1
    BY <2>1, Ranks
  <2> QED
    BY <2>2
<1> HIDE DEF At
<1> QED
  BY <1>2, <1>3

\* The list of a table has rules of its types, each of them once.
LEMMA ListedTable ==
  ASSUME NEW I \in SUBSET Nat, NEW T \in SUBSET Int, NEW B, NEW rs, Table(rs, I, T, B)
  PROVE  /\ Listed(rs) \in Lists(I, B)
         /\ \A j, k \in DOMAIN Listed(rs) : Listed(rs)[j].id = Listed(rs)[k].id => j = k
         /\ Ids(Listed(rs)) \subseteq DOMAIN rs
<1> DEFINE n == Cardinality(DOMAIN rs)
           l == Listed(rs)
<1>1. n \in Nat
  BY Ranks
<1>2. DOMAIN l = 1..n
  BY ListedRank
<1>3. \A k \in 1..n : \E i \in DOMAIN rs : Rank(rs, i) = k - 1 /\ l[k] = Columns(rs, i)
  BY ListedRank
<1>4. l = [k \in 1..n |-> l[k]]
  BY DEF Listed
<1> HIDE DEF l, n
<1>5. ASSUME NEW k \in 1..n PROVE l[k] \in [id : I, order : Int, body : B]
  <2>1. PICK i \in DOMAIN rs : l[k] = Columns(rs, i)
    BY <1>3
  <2>2. i \in I /\ rs[i] \in [order : Int, born : T, body : B]
    BY DEF Table
  <2> QED
    BY <2>1, <2>2 DEF Columns
<1>6. l \in Lists(I, B)
  <2>1. l \in [1..n -> [id : I, order : Int, body : B]]
    BY <1>4, <1>5
  <2> DEFINE S == [id : I, order : Int, body : B]
  <2> HIDE DEF S
  <2>2. l \in [1..n -> S] /\ n \in Nat
    BY <1>1, <2>1 DEF S
  <2>3. l \in Seq(S)
    BY <2>2, SeqDef
  <2> QED
    BY <2>3 DEF S, Lists
<1>7. ASSUME NEW j \in 1..n, NEW k \in 1..n, l[j].id = l[k].id PROVE j = k
  <2>1. ASSUME NEW m \in 1..n PROVE Rank(rs, l[m].id) = m - 1
    <3>1. PICK i \in DOMAIN rs : Rank(rs, i) = m - 1 /\ l[m] = Columns(rs, i)
      BY <1>3
    <3> QED
      BY <3>1 DEF Columns
  <2> QED
    BY <1>1, <1>7, <2>1
<1>8. Ids(l) \subseteq DOMAIN rs
  BY <1>2, <1>3 DEF Ids, Columns
<1> QED
  BY <1>2, <1>6, <1>7, <1>8 DEF l

\* The largest of a set that has one.
LEMMA LargestIs ==
  ASSUME NEW S \in SUBSET Int, NEW n \in S, \A m \in S : m <= n
  PROVE  Largest(S) = n
<1>1. Largest(S) \in S /\ \A m \in S : m <= Largest(S)
  BY DEF Largest
<1>2. Largest(S) \in Int /\ n \in Int
  BY <1>1
<1>3. Largest(S) <= n /\ n <= Largest(S)
  BY <1>1
<1> QED
  BY <1>2, <1>3

\* COALESCE(MAX(order_idx), -1) + 1 is a number.
LEMMA NextOrderType ==
  ASSUME NEW I \in SUBSET Nat, NEW T \in SUBSET Int, NEW B, NEW rs, Table(rs, I, T, B)
  PROVE  NextOrder(rs) \in Int
<1> DEFINE S == {-1} \cup {rs[i].order : i \in DOMAIN rs}
<1>1. \A i \in DOMAIN rs : rs[i].order \in Int
  BY DEF Table
<1>2. S \in SUBSET Int
  BY <1>1
<1>3. \E n \in S : \A m \in S : m <= n
  <2>1. CASE DOMAIN rs = {}
    BY <2>1
  <2>2. CASE DOMAIN rs # {}
    <3> DEFINE c == Cardinality(DOMAIN rs)
    <3>1. c \in Nat /\ \A i \in DOMAIN rs : Rank(rs, i) \in 0..c - 1
      BY Ranks
    <3>2. c - 1 \in 0..c - 1
      BY <2>2, <3>1
    <3>3. PICK last \in DOMAIN rs : Rank(rs, last) = c - 1
      BY <3>2, Ranks
    <3>4. ASSUME NEW i \in DOMAIN rs PROVE rs[i].order <= rs[last].order
      <4>1. ~Precedes(rs, last, i)
        BY <3>1, <3>3, Ranks
      <4> QED
        BY <1>1, <4>1 DEF Precedes
    <3>5. CASE rs[last].order <= -1
      <4>1. \A m \in S : m <= -1
        BY <1>1, <3>4, <3>5
      <4> QED
        BY <4>1
    <3>6. CASE ~(rs[last].order <= -1)
      <4>1. \A m \in S : m <= rs[last].order
        BY <1>1, <3>4, <3>6
      <4> QED
        BY <4>1
    <3> QED
      BY <3>5, <3>6
  <2> QED
    BY <2>1, <2>2
<1>4. PICK n \in S : \A m \in S : m <= n
  BY <1>3
<1>5. Largest(S) = n
  BY <1>2, <1>4, LargestIs
<1> QED
  BY <1>2, <1>5 DEF NextOrder

-----------------------------------------------------------------------------
\* A list names finitely many rules.
LEMMA IdsFinite ==
  ASSUME NEW S, NEW list \in Seq(S)
  PROVE  IsFiniteSet(Ids(list))
<1> DEFINE f == [k \in 1..Len(list) |-> list[k].id]
<1>1. Len(list) \in Nat /\ DOMAIN list = 1..Len(list)
  BY LenProperties
<1>2. f \in Surjection(1..Len(list), Ids(list))
  BY <1>1 DEF Surjection, Ids
<1>3. IsFiniteSet(1..Len(list))
  <2>1. 1 \in Int /\ Len(list) \in Int
    BY <1>1
  <2> QED
    BY <2>1, FS_Interval
<1> HIDE DEF f
<1> QED
  BY <1>2, <1>3, FS_Surjection

\* What Rollback and Import insert for a list is a table.
LEMMA RestoredTable ==
  ASSUME NEW I \in SUBSET Nat, NEW T \in SUBSET Int, NEW B,
         NEW list \in Lists(I, B), NEW now \in T
  PROVE  Table(Restored(list, now), I, T, B) /\ DOMAIN Restored(list, now) = Ids(list)
<1> DEFINE S == [id : I, order : Int, body : B]
           At(i) == CHOOSE k \in DOMAIN list : list[k].id = i
<1>1. list \in Seq(S)
  BY DEF Lists
<1>2. Len(list) \in Nat /\ DOMAIN list = 1..Len(list) /\ \A k \in DOMAIN list : list[k] \in S
  <2> HIDE DEF S
  <2> QED
    BY <1>1, LenProperties, ElementOfSeq
<1>3. IsFiniteSet(Ids(list))
  BY <1>1, IdsFinite
<1>4. Ids(list) \subseteq I
  BY <1>2 DEF Ids
<1>5. Restored(list, now) =
        [i \in Ids(list) |->
          [order |-> IF list[At(i)].order = 0 THEN At(i) - 1 ELSE list[At(i)].order,
           born  |-> now,
           body  |-> list[At(i)].body]]
  BY DEF Restored
<1>6. ASSUME NEW i \in Ids(list)
      PROVE  Restored(list, now)[i] \in [order : Int, born : T, body : B]
  <2>1. At(i) \in DOMAIN list
    BY DEF Ids
  <2> HIDE DEF At
  <2>2. At(i) \in Int /\ list[At(i)].order \in Int /\ list[At(i)].body \in B
    BY <2>1, <1>2
  <2> QED
    BY <1>5, <2>2
<1> HIDE DEF At, S
<1> QED
  BY <1>3, <1>4, <1>5, <1>6 DEF Table

\* An INSERT adds one row.
LEMMA InsertedTable ==
  ASSUME NEW I \in SUBSET Nat, NEW T \in SUBSET Int, NEW B, NEW rs, Table(rs, I, T, B),
         NEW id \in I, NEW order \in Int, NEW body \in B, NEW now \in T
  PROVE  Table(Inserted(rs, id, order, body, now), I, T, B)
<1>1. IsFiniteSet({id})
  BY FS_Singleton
<1>2. NextOrder(rs) \in Int
  BY NextOrderType
<1> DEFINE new == IF order = 0 THEN NextOrder(rs) ELSE order
<1>3. new \in Int
  BY <1>2
<1>4. Inserted(rs, id, order, body, now) =
        [i \in {id} |-> [order |-> new, born |-> now, body |-> body]]
  BY DEF Inserted
<1> HIDE DEF new
<1> QED
  BY <1>1, <1>3, <1>4 DEF Table

\* A list of n ids that names each once.
Once(ids, n) == DOMAIN ids = 1..n /\ \A j, k \in 1..n : ids[j] = ids[k] => j = k

\* The rules that a list of n ids names, each at its position.
Placed(put, rs, ids, n) ==
  /\ DOMAIN put = DOMAIN rs \cap {ids[k] : k \in 1..n}
  /\ \A k \in 1..n : ids[k] \in DOMAIN rs => put[ids[k]].order = k - 1

\* UPDATE rules SET order_idx, for ids that are each named once, gives every rule
\* its position.
LEMMA ReorderedTable ==
  ASSUME NEW I \in SUBSET Nat, NEW T \in SUBSET Int, NEW B, NEW rs, Table(rs, I, T, B),
         NEW ids, NEW n \in Nat, Once(ids, n)
  PROVE  Table(Reordered(rs, ids), I, T, B) /\ Placed(Reordered(rs, ids), rs, ids, n)
<1> DEFINE D == DOMAIN rs \cap {ids[k] : k \in 1..n}
           At(i) == Largest({k \in 1..n : ids[k] = i}) - 1
<1>1. Reordered(rs, ids) = [i \in D |-> [rs[i] EXCEPT !.order = At(i)]]
  BY DEF Reordered, Once
<1>2. ASSUME NEW k \in 1..n PROVE At(ids[k]) = k - 1
  <2> DEFINE S == {m \in 1..n : ids[m] = ids[k]}
  <2>1. S \in SUBSET Int /\ k \in S /\ \A m \in S : m <= k
    BY DEF Once
  <2> HIDE DEF S
  <2>2. Largest(S) = k
    BY <2>1, LargestIs
  <2> QED
    BY <2>2 DEF S
<1> HIDE DEF At
<1>3. IsFiniteSet(D) /\ D \subseteq I
  <2>1. D \in SUBSET DOMAIN rs /\ IsFiniteSet(DOMAIN rs) /\ DOMAIN rs \subseteq I
    BY DEF Table
  <2> QED
    BY <2>1, FS_Subset
<1>4. ASSUME NEW i \in D
      PROVE  [rs[i] EXCEPT !.order = At(i)] \in [order : Int, born : T, body : B]
  <2>1. PICK k \in 1..n : i = ids[k]
    OBVIOUS
  <2>2. At(i) \in Int
    BY <1>2, <2>1
  <2>3. rs[i] \in [order : Int, born : T, body : B]
    BY DEF Table
  <2> QED
    BY <2>2, <2>3
<1>5. ASSUME NEW i \in D PROVE Reordered(rs, ids)[i].order = At(i)
  <2>1. rs[i] \in [order : Int, born : T, body : B]
    BY DEF Table
  <2> QED
    BY <1>1, <2>1
<1> HIDE DEF D
<1>6. Table(Reordered(rs, ids), I, T, B)
  BY <1>1, <1>3, <1>4 DEF Table
<1>7. DOMAIN Reordered(rs, ids) = D
  BY <1>1
<1> QED
  BY <1>2, <1>5, <1>6, <1>7 DEF D, Placed

\* A table of rows of two tables.
LEMMA MergedTable ==
  ASSUME NEW I \in SUBSET Nat, NEW T \in SUBSET Int, NEW B,
         NEW rs, Table(rs, I, T, B), NEW put, Table(put, I, T, B), NEW f,
         \A i \in DOMAIN f : \/ i \in DOMAIN rs /\ f[i] = rs[i]
                             \/ i \in DOMAIN put /\ f[i] = put[i]
  PROVE  Table(f, I, T, B)
<1>1. DOMAIN f \in SUBSET (DOMAIN rs \cup DOMAIN put)
  OBVIOUS
<1>2. IsFiniteSet(DOMAIN rs \cup DOMAIN put)
  BY FS_Union DEF Table
<1>3. IsFiniteSet(DOMAIN f)
  BY <1>1, <1>2, FS_Subset
<1> QED
  BY <1>1, <1>3 DEF Table

-----------------------------------------------------------------------------
\* The shape of the variables that the proofs rely on.
Shape ==
  /\ DOMAIN cache = Replicas /\ cut \subseteq Replicas
  /\ DOMAIN tx = Replicas
  /\ conn \in [Replicas -> {"up", "down"}]
  /\ due \in [Replicas -> BOOLEAN]
  /\ clock \in Nat

\* A transaction that is open has a number the sequence gave to it alone, and
\* under which no version is stored yet.
Numbered ==
  /\ DOMAIN versions \subseteq 1..clock
  /\ \A r \in Replicas :
       tx[r].stage = "open" =>
         /\ tx[r].version \in 1..clock \ DOMAIN versions
         /\ \A q \in Replicas \ {r} : tx[q].stage = "open" => tx[q].version # tx[r].version

IInv == Shape /\ Numbered /\ ListeningReplicaIsCurrent

\* A version that was stored is never changed or removed, so that a rollback to
\* it brings back what it was: two changes at once, on any replicas, do not take
\* the same number (recordVersionSnapshotTx).
VersionsAreFinal ==
  \A v \in DOMAIN versions : v \in DOMAIN versions' /\ versions'[v] = versions[v]

-----------------------------------------------------------------------------
\* Starting a transaction takes the next number.
LEMMA OpenStep ==
  ASSUME IInv, NEW r \in Replicas, NEW put, NEW gone, Open(r, put, gone)
  PROVE  IInv' /\ VersionsAreFinal
<1> USE RuleStoreAssumption
<1>1. Shape' BY DEF IInv, Shape, Open
<1>2. Numbered'
  <2>1. clock' = clock + 1 /\ clock \in Nat /\ versions' = versions
    BY DEF IInv, Shape, Open
  <2>2. DOMAIN tx = Replicas BY DEF IInv, Shape
  <2>3. tx'[r].stage = "open" /\ tx'[r].version = clock + 1
    BY <2>2 DEF Open
  <2>4. \A q \in Replicas \ {r} : tx'[q] = tx[q]
    BY <2>2 DEF Open
  <2>5. \A q \in Replicas : tx[q].stage = "open" =>
           tx[q].version \in 1..clock \ DOMAIN versions
    BY DEF IInv, Numbered
  <2>6. DOMAIN versions \subseteq 1..clock BY DEF IInv, Numbered
  <2>7. DOMAIN versions' \subseteq 1..clock' BY <2>1, <2>6
  <2>8. ASSUME NEW p \in Replicas, tx'[p].stage = "open"
        PROVE  tx'[p].version \in 1..clock' \ DOMAIN versions'
    <3>1. CASE p = r BY <3>1, <2>1, <2>3, <2>6
    <3>2. CASE p # r
      <4>1. tx'[p] = tx[p] BY <3>2, <2>4
      <4>2. tx[p].version \in 1..clock \ DOMAIN versions BY <4>1, <2>5, <2>8
      <4> QED BY <4>1, <4>2, <2>1
    <3> QED BY <3>1, <3>2
  <2>9. ASSUME NEW p \in Replicas, tx'[p].stage = "open",
               NEW q \in Replicas \ {p}, tx'[q].stage = "open"
        PROVE  tx'[q].version # tx'[p].version
    <3>1. CASE p = r
      <4>1. tx'[q] = tx[q] BY <3>1, <2>4
      <4>2. tx[q].version \in 1..clock BY <4>1, <2>5, <2>9
      <4> QED BY <3>1, <4>1, <4>2, <2>1, <2>3
    <3>2. CASE q = r
      <4>1. tx'[p] = tx[p] BY <3>2, <2>4
      <4>2. tx[p].version \in 1..clock BY <4>1, <2>5, <2>9
      <4> QED BY <3>2, <4>1, <4>2, <2>1, <2>3
    <3>3. CASE p # r /\ q # r
      <4>1. tx'[p] = tx[p] /\ tx'[q] = tx[q] BY <3>3, <2>4
      <4> QED BY <4>1, <2>9 DEF IInv, Numbered
    <3> QED BY <3>1, <3>2, <3>3
  <2> QED BY <2>7, <2>8, <2>9 DEF Numbered
<1>3. ListeningReplicaIsCurrent'
  BY DEF IInv, ListeningReplicaIsCurrent, Serves, Open
<1>4. VersionsAreFinal BY DEF Open, VersionsAreFinal
<1> QED BY <1>1, <1>2, <1>3, <1>4 DEF IInv

\* What ends a transaction without storing a version keeps the numbers apart.
LEMMA Ended ==
  ASSUME IInv, NEW r \in Replicas, NEW t, t.stage # "open",
         tx' = [tx EXCEPT ![r] = t], versions' = versions, clock' = clock
  PROVE  Numbered' /\ VersionsAreFinal /\ DOMAIN tx' = Replicas
<1>1. DOMAIN tx = Replicas BY DEF IInv, Shape
<1>2. \A q \in Replicas : tx'[q].stage = "open" => tx'[q] = tx[q] BY <1>1
<1>3. Numbered' BY <1>2 DEF IInv, Numbered
<1>4. VersionsAreFinal BY DEF VersionsAreFinal
<1> QED BY <1>1, <1>3, <1>4

\* The commit is where rows and versions change: whoever listens is told.
LEMMA CommitStep ==
  ASSUME IInv, NEW r \in Replicas, Commit(r)
  PROVE  IInv' /\ VersionsAreFinal
<1>1. DOMAIN tx = Replicas /\ clock' = clock /\ tx[r].stage = "open"
  BY DEF IInv, Shape, Commit
<1>2. Shape' BY DEF IInv, Shape, Commit
<1>3. tx'[r].stage = "committed" /\ \A q \in Replicas \ {r} : tx'[q] = tx[q]
  BY <1>1 DEF Commit
<1>4. tx[r].version \in 1..clock \ DOMAIN versions BY <1>1 DEF IInv, Numbered
<1>5. DOMAIN versions' = DOMAIN versions \cup {tx[r].version} BY DEF Commit
<1>6. Numbered'
  <2>1. DOMAIN versions' \subseteq 1..clock' BY <1>1, <1>4, <1>5 DEF IInv, Numbered
  <2>2. ASSUME NEW p \in Replicas, tx'[p].stage = "open"
        PROVE  /\ tx'[p].version \in 1..clock' \ DOMAIN versions'
               /\ \A q \in Replicas \ {p} :
                    tx'[q].stage = "open" => tx'[q].version # tx'[p].version
    <3>1. p # r /\ tx'[p] = tx[p] BY <1>3, <2>2
    <3>2. tx[p].version # tx[r].version BY <3>1, <2>2, <1>1 DEF IInv, Numbered
    <3>3. tx[p].version \in 1..clock \ DOMAIN versions BY <3>1, <2>2 DEF IInv, Numbered
    <3>4. tx'[p].version \in 1..clock' \ DOMAIN versions'
      BY <3>1, <3>2, <3>3, <1>1, <1>5
    <3>5. ASSUME NEW q \in Replicas \ {p}, tx'[q].stage = "open"
          PROVE  tx'[q].version # tx'[p].version
      <4>1. tx'[q] = tx[q] BY <3>5, <1>3
      <4> QED BY <4>1, <3>1, <3>5, <2>2 DEF IInv, Numbered
    <3> QED BY <3>4, <3>5
  <2> QED BY <2>1, <2>2 DEF Numbered
<1>7. ListeningReplicaIsCurrent'
  <2>1. \A q \in Replicas : conn'[q] = "up" => due'[q]
    BY DEF IInv, Shape, Commit
  <2> QED BY <2>1 DEF ListeningReplicaIsCurrent
<1>8. VersionsAreFinal BY <1>4, <1>5 DEF Commit, VersionsAreFinal
<1> QED BY <1>2, <1>6, <1>7, <1>8 DEF IInv

\* A reload leaves the replica with the rules of the database or the first of
\* them, and the others with what they had.
LEMMA ReadServes ==
  ASSUME Shape, NEW r \in Replicas, ReadAll(r) \/ ReadPart(r), rows' = rows
  PROVE  /\ DOMAIN cache' = Replicas /\ cut' \subseteq Replicas
         /\ Serves(r)'
         /\ \A q \in Replicas \ {r} : Serves(q) => Serves(q)'
<1> USE DEF Shape, Serves
<1>1. \A q \in Replicas \ {r} : cache'[q] = cache[q] /\ (q \in cut' <=> q \in cut)
  BY DEF ReadAll, ReadPart
<1>2. CASE ReadAll(r)
  BY <1>1, <1>2 DEF ReadAll
<1>3. CASE ReadPart(r)
  BY <1>1, <1>3 DEF ReadPart
<1> QED
  BY <1>2, <1>3

\* Every step keeps the invariant, and the versions that are stored.
LEMMA Step == IInv /\ [Next]_vars => IInv' /\ (VersionsAreFinal \/ UNCHANGED vars)
<1> SUFFICES ASSUME IInv, [Next]_vars PROVE IInv' /\ (VersionsAreFinal \/ UNCHANGED vars)
  OBVIOUS
<1>1. CASE UNCHANGED vars
  BY <1>1 DEF vars, IInv, Shape, Numbered, ListeningReplicaIsCurrent, Serves
<1>2. ASSUME NEW r \in Replicas,
             Create(r) \/ Update(r) \/ Delete(r) \/ Reorder(r) \/ Rollback(r) \/ Import(r)
      PROVE  IInv' /\ VersionsAreFinal
  <2>1. PICK put, gone : Open(r, put, gone)
    <3>1. CASE Create(r) BY <3>1 DEF Create
    <3>2. CASE Update(r) BY <3>2 DEF Update
    <3>3. CASE Delete(r) BY <3>3 DEF Delete
    <3>4. CASE Reorder(r) BY <3>4 DEF Reorder
    <3>5. CASE Rollback(r) BY <3>5 DEF Rollback, Replace
    <3>6. CASE Import(r) BY <3>6 DEF Import, Replace
    <3> QED BY <1>2, <3>1, <3>2, <3>3, <3>4, <3>5, <3>6
  <2> QED BY <2>1, OpenStep
<1>3. ASSUME NEW r \in Replicas, Commit(r) PROVE IInv' /\ VersionsAreFinal
  BY <1>3, CommitStep
<1>4. ASSUME NEW r \in Replicas, Abort(r) \/ ReturnError(r)
      PROVE  IInv' /\ VersionsAreFinal
  <2>1. tx' = [tx EXCEPT ![r] = NoTx] /\ versions' = versions /\ clock' = clock
        /\ UNCHANGED <<rows, cache, cut, conn, due>>
    BY <1>4 DEF Abort, ReturnError
  <2>2. NoTx.stage # "open" BY DEF NoTx
  <2>3. Numbered' /\ VersionsAreFinal /\ DOMAIN tx' = Replicas BY <2>1, <2>2, Ended
  <2>4. Shape' /\ ListeningReplicaIsCurrent'
    BY <2>1, <2>3 DEF IInv, Shape, ListeningReplicaIsCurrent, Serves
  <2> QED BY <2>3, <2>4 DEF IInv
<1>5. ASSUME NEW r \in Replicas, Return(r) PROVE IInv' /\ VersionsAreFinal
  <2>1. tx' = [tx EXCEPT ![r] = NoTx] /\ versions' = versions /\ clock' = clock
    BY <1>5 DEF Return
  <2>2. NoTx.stage # "open" BY DEF NoTx
  <2>3. Numbered' /\ VersionsAreFinal /\ DOMAIN tx' = Replicas BY <2>1, <2>2, Ended
  <2>4. /\ DOMAIN cache' = Replicas /\ cut' \subseteq Replicas
        /\ Serves(r)' /\ \A q \in Replicas \ {r} : Serves(q) => Serves(q)'
    BY <1>5, ReadServes DEF IInv, Return, ReadRules
  <2>5. Shape' /\ ListeningReplicaIsCurrent'
    BY <1>5, <2>3, <2>4 DEF IInv, Shape, ListeningReplicaIsCurrent, Return
  <2> QED BY <2>3, <2>4, <2>5 DEF IInv
<1>6. ASSUME NEW r \in Replicas, Listen(r) \/ Reload(r) \/ Disconnect(r)
      PROVE  IInv' /\ VersionsAreFinal
  <2>1. UNCHANGED <<rows, versions, clock, tx>> BY <1>6 DEF Listen, Reload, Disconnect
  <2>2. Numbered' /\ VersionsAreFinal BY <2>1 DEF IInv, Numbered, VersionsAreFinal
  <2>3. Shape' /\ ListeningReplicaIsCurrent'
    <3>1. CASE Listen(r)
      BY <3>1 DEF IInv, Shape, ListeningReplicaIsCurrent, Serves, Listen
    <3>2. CASE Reload(r)
      <4>1. /\ DOMAIN cache' = Replicas /\ cut' \subseteq Replicas
            /\ Serves(r)' /\ \A q \in Replicas \ {r} : Serves(q) => Serves(q)'
        BY <2>1, <3>2, ReadServes DEF IInv, Reload, ReadRules
      <4> QED
        BY <3>2, <4>1 DEF IInv, Shape, ListeningReplicaIsCurrent, Reload
    <3>3. CASE Disconnect(r)
      BY <3>3 DEF IInv, Shape, ListeningReplicaIsCurrent, Serves, Disconnect
    <3> QED BY <1>6, <3>1, <3>2, <3>3
  <2> QED BY <2>2, <2>3 DEF IInv
<1>7. ASSUME NEW r \in Replicas, Restart(r) PROVE IInv' /\ VersionsAreFinal
  <2>1. tx' = [tx EXCEPT ![r] = NoTx] /\ versions' = versions /\ clock' = clock
    BY <1>7 DEF Restart
  <2>2. NoTx.stage # "open" BY DEF NoTx
  <2>3. Numbered' /\ VersionsAreFinal /\ DOMAIN tx' = Replicas BY <2>1, <2>2, Ended
  <2>4. /\ DOMAIN cache' = Replicas /\ cut' \subseteq Replicas
        /\ \A q \in Replicas \ {r} : Serves(q) => Serves(q)'
    BY <1>7, ReadServes DEF IInv, Restart
  <2>5. Shape' /\ ListeningReplicaIsCurrent'
    BY <1>7, <2>3, <2>4 DEF IInv, Shape, ListeningReplicaIsCurrent, Restart
  <2> QED BY <2>3, <2>4, <2>5 DEF IInv
<1> QED BY <1>1, <1>2, <1>3, <1>4, <1>5, <1>6, <1>7 DEF Next

\* The invariant of the rule store holds in every state that is reached: the
\* replicas' caches, connections and transactions, whatever fails.
THEOREM Invariance == Spec => []IInv
<1>1. Init => IInv
  BY RuleStoreAssumption DEF Init, IInv, Shape, Numbered, ListeningReplicaIsCurrent, NoTx
<1>2. IInv /\ [Next]_vars => IInv' BY Step
<1> QED BY <1>1, <1>2, PTL DEF Spec

\* A replica whose listener is connected and has nothing left to handle matches
\* requests against the rules of the database, and against the first of them if
\* the query of its last reload broke (listenForRuleChangesOnce, reloadLocked).
THEOREM ListeningIsCurrent == Spec => []ListeningReplicaIsCurrent
<1>1. IInv => ListeningReplicaIsCurrent BY DEF IInv
<1> QED BY <1>1, Invariance, PTL

\* No change, rollback or import ever rewrites a version (recordVersionSnapshotTx).
THEOREM VersionHistory == Spec => [][VersionsAreFinal]_vars
<1>1. IInv /\ [Next]_vars => [VersionsAreFinal]_vars BY Step
<1> QED BY <1>1, Invariance, PTL DEF Spec

-----------------------------------------------------------------------------
\* A change that is open writes rows of the table's types under a snapshot of them.
ChangeOK(t) ==
  /\ t.stage \in {"none", "open", "committed"}
  /\ t.stage = "open" =>
       /\ Table(t.put, RuleIds, 1..MaxChanges, Bodies)
       /\ t.version \in 1..MaxChanges
       /\ t.snap \in Lists(RuleIds, Bodies)

TypeIInv ==
  /\ Table(rows, RuleIds, 1..MaxChanges, Bodies)
  /\ DOMAIN versions \subseteq 1..MaxChanges
  /\ \A v \in DOMAIN versions : versions[v] \in Lists(RuleIds, Bodies)
  /\ clock \in 0..MaxChanges
  /\ DOMAIN tx = Replicas /\ \A r \in Replicas : ChangeOK(tx[r])
  /\ cache \in [Replicas -> Lists(RuleIds, Bodies)]
  /\ cut \subseteq Replicas
  /\ conn \in [Replicas -> {"up", "down"}]
  /\ due \in [Replicas -> BOOLEAN]
  /\ faults \in 0..MaxFaults

\* What the sets of ids, times and contents are.
LEMMA RuleTypes ==
  /\ RuleIds \in SUBSET Nat /\ IsFiniteSet(RuleIds)
  /\ 1..MaxChanges \in SUBSET Int
  /\ MaxChanges \in Nat /\ MaxFaults \in Nat
  /\ \A list \in Imports : list \in Lists(RuleIds, Bodies)
<1>1. \A list \in Imports : list \in Lists(RuleIds, Bodies)
  BY RuleStoreAssumption DEF Lists, ListedRules
<1>2. RuleIds \in SUBSET Nat /\ IsFiniteSet(RuleIds) /\ MaxChanges \in Nat /\ MaxFaults \in Nat
  BY RuleStoreAssumption
<1>3. 1..MaxChanges \in SUBSET Int
  BY <1>2
<1> QED
  BY <1>1, <1>2, <1>3

\* A transaction leaves a table of the same types.
LEMMA WrittenTable ==
  ASSUME TypeIInv, NEW t, Table(t.put, RuleIds, 1..MaxChanges, Bodies)
  PROVE  Table(Written(rows, t), RuleIds, 1..MaxChanges, Bodies)
<1> DEFINE f == Written(rows, t)
<1>1. \A i \in DOMAIN f : \/ i \in DOMAIN rows /\ f[i] = rows[i]
                          \/ i \in DOMAIN t.put /\ f[i] = t.put[i]
  BY DEF Written
<1> HIDE DEF f
<1>2. Table(rows, RuleIds, 1..MaxChanges, Bodies)
  BY DEF TypeIInv
<1>3. Table(f, RuleIds, 1..MaxChanges, Bodies)
  BY <1>1, <1>2, MergedTable, RuleTypes
<1> QED
  BY <1>3 DEF f

\* The list that is read from the table has the types of a list.
LEMMA ReadTable ==
  ASSUME TypeIInv
  PROVE  Listed(rows) \in Lists(RuleIds, Bodies)
BY ListedTable, RuleTypes DEF TypeIInv

\* So have its first rules, and the caches after a reload.
LEMMA ReadTypes ==
  ASSUME TypeIInv, NEW r \in Replicas, ReadAll(r) \/ ReadPart(r)
  PROVE  cache' \in [Replicas -> Lists(RuleIds, Bodies)] /\ cut' \subseteq Replicas
<1> DEFINE E == [id : RuleIds, order : Int, body : Bodies]
<1>1. Listed(rows) \in Seq(E) /\ cache \in [Replicas -> Seq(E)] /\ cut \subseteq Replicas
  BY ReadTable DEF Lists, TypeIInv
<1> HIDE DEF E
<1>2. CASE ReadAll(r)
  BY <1>1, <1>2 DEF ReadAll, Lists, E
<1>3. CASE ReadPart(r)
  <2>1. PICK n \in 1..Cardinality(DOMAIN rows) :
            cache' = [cache EXCEPT ![r] = SubSeq(Listed(rows), 1, n - 1)]
    BY <1>3 DEF ReadPart
  <2>2. Len(Listed(rows)) = Cardinality(DOMAIN rows) /\ Cardinality(DOMAIN rows) \in Nat
    <3>1. Table(rows, RuleIds, 1..MaxChanges, Bodies)
      BY DEF TypeIInv
    <3>2. Cardinality(DOMAIN rows) \in Nat
      BY <3>1, FS_CardinalityType DEF Table
    <3>3. DOMAIN Listed(rows) = 1..Cardinality(DOMAIN rows)
      BY DEF Listed
    <3> QED
      BY <1>1, <3>2, <3>3
  <2>3. SubSeq(Listed(rows), 1, n - 1) \in Seq(E)
    <3>1. n - 1 \in Int /\ \A i \in 1..(n - 1) : Listed(rows)[i] \in E
      BY <1>1, <2>2
    <3> QED
      BY <1>1, <3>1, SubSeqProperties
  <2> QED
    BY <1>1, <1>3, <2>1, <2>3 DEF ReadPart, Lists, E
<1> QED
  BY <1>2, <1>3

\* Whatever rows of these types a change writes and whichever it deletes.
LEMMA OpenTypes ==
  ASSUME TypeIInv, NEW r \in Replicas, NEW put, NEW gone, Open(r, put, gone),
         Table(put, RuleIds, 1..MaxChanges, Bodies)
  PROVE  TypeIInv'
<1> DEFINE t == [put |-> put, gone |-> gone]
           new == [stage |-> "open", put |-> put, gone |-> gone, version |-> clock + 1,
                   snap |-> Listed(Written(rows, t))]
<1>1. clock < MaxChanges /\ clock' = clock + 1 /\ tx' = [tx EXCEPT ![r] = new]
      /\ UNCHANGED <<rows, versions, cache, cut, conn, due, faults>>
  BY DEF Open
<1>2. clock \in Nat /\ clock + 1 \in 1..MaxChanges
  BY <1>1, RuleTypes DEF TypeIInv
<1>3. Table(Written(rows, t), RuleIds, 1..MaxChanges, Bodies)
  BY WrittenTable
<1>4. Listed(Written(rows, t)) \in Lists(RuleIds, Bodies)
  <2> DEFINE rs == Written(rows, t)
  <2> HIDE DEF rs
  <2>1. Table(rs, RuleIds, 1..MaxChanges, Bodies) => Listed(rs) \in Lists(RuleIds, Bodies)
    BY ListedTable, RuleTypes
  <2> QED
    BY <1>3, <2>1 DEF rs
<1>5. ChangeOK(new)
  BY <1>2, <1>4 DEF ChangeOK
<1> HIDE DEF new
<1>6. DOMAIN tx' = Replicas /\ \A q \in Replicas : ChangeOK(tx'[q])
  BY <1>1, <1>5 DEF TypeIInv
<1> QED
  BY <1>1, <1>2, <1>6 DEF TypeIInv

\* The rows that the statements of each change write.
LEMMA ChangeTypes ==
  ASSUME TypeIInv, NEW r \in Replicas,
         Create(r) \/ Update(r) \/ Delete(r) \/ Reorder(r) \/ Rollback(r) \/ Import(r)
  PROVE  TypeIInv'
<1> DEFINE T == 1..MaxChanges
           IsTable(put) == Table(put, RuleIds, T, Bodies)
<1>1. T \in SUBSET Int /\ RuleIds \in SUBSET Nat /\ IsTable(rows) /\ clock \in Nat
  BY RuleTypes DEF TypeIInv
<1>2. ASSUME NEW put, NEW gone, Open(r, put, gone) PROVE clock + 1 \in T
  BY <1>1, <1>2, RuleTypes DEF Open
<1>3. CASE Create(r)
  <2>1. PICK id \in RuleIds, order \in 0..1, b \in Bodies :
          Open(r, Inserted(rows, id, order, b, clock + 1), {})
    BY <1>3 DEF Create
  <2>2. clock + 1 \in T /\ order \in Int
    BY <1>2, <2>1
  <2> HIDE DEF T
  <2>3. IsTable(Inserted(rows, id, order, b, clock + 1))
    BY <1>1, <2>2, InsertedTable
  <2> QED
    BY <2>1, <2>3, OpenTypes DEF T
<1>4. CASE Update(r)
  <2>1. PICK id \in DOMAIN rows, b \in Bodies :
          Open(r, [i \in {id} |-> [rows[i] EXCEPT !.body = b]], {})
    BY <1>4 DEF Update
  <2> DEFINE put == [i \in {id} |-> [rows[i] EXCEPT !.body = b]]
  <2>2. IsFiniteSet({id})
    BY FS_Singleton
  <2>3. id \in RuleIds /\ rows[id] \in [order : Int, born : T, body : Bodies]
    BY <1>1 DEF Table
  <2>4. DOMAIN put = {id} /\ put[id] \in [order : Int, born : T, body : Bodies]
    BY <2>3
  <2> HIDE DEF put
  <2>5. IsTable(put)
    BY <2>2, <2>3, <2>4 DEF Table
  <2> QED
    BY <2>1, <2>5, OpenTypes DEF put
<1>5. CASE Delete(r)
  <2>1. PICK id \in DOMAIN rows : Open(r, [i \in {} |-> 0], {id})
    BY <1>5 DEF Delete
  <2> DEFINE put == [i \in {} |-> 0]
  <2>2. DOMAIN put = {}
    OBVIOUS
  <2> HIDE DEF put
  <2>3. IsTable(put)
    BY <2>2, FS_EmptySet DEF Table
  <2> QED
    BY <2>1, <2>3, OpenTypes DEF put
<1>6. CASE Reorder(r)
  <2>0. PICK S \in SUBSET RuleIds : \E ids \in [1..Cardinality(S) -> S] :
          {ids[k] : k \in DOMAIN ids} = S /\ Open(r, Reordered(rows, ids), {})
    BY <1>6 DEF Reorder
  <2>1. PICK ids \in [1..Cardinality(S) -> S] :
          {ids[k] : k \in DOMAIN ids} = S /\ Open(r, Reordered(rows, ids), {})
    BY <2>0
  <2> DEFINE n == Cardinality(S)
  <2>2. IsFiniteSet(S) /\ n \in Nat
    BY RuleTypes, FS_Subset, FS_CardinalityType
  <2>3. IsFiniteSet(1..n) /\ Cardinality(1..n) = n
    <3>1. 1 \in Int /\ n \in Int
      BY <2>2
    <3>2. IsFiniteSet(1..n) /\ Cardinality(1..n) = IF 1 > n THEN 0 ELSE n - 1 + 1
      BY <3>1, FS_Interval
    <3> QED
      BY <2>2, <3>2
  <2>4. ids \in Surjection(1..n, S)
    BY <2>1 DEF Surjection
  <2>5. ids \in Injection(1..n, S)
    BY <2>3, <2>4, FS_SurjSameCardinalityImpliesInj
  <2>6. Once(ids, n)
    BY <2>5 DEF Injection, IsInjective, Once
  <2> HIDE DEF n, T
  <2>7. IsTable(Reordered(rows, ids))
    BY <1>1, <2>2, <2>6, ReorderedTable
  <2> QED
    BY <2>1, <2>7, OpenTypes DEF T
<1>7. ASSUME NEW list \in Lists(RuleIds, Bodies), Replace(r, list) PROVE TypeIInv'
  <2>1. Open(r, Restored(list, clock + 1), DOMAIN rows)
    BY <1>7 DEF Replace
  <2>2. clock + 1 \in T
    BY <1>2, <2>1
  <2> HIDE DEF T
  <2>3. IsTable(Restored(list, clock + 1))
    BY <1>1, <2>2, RestoredTable
  <2> QED
    BY <2>1, <2>3, OpenTypes DEF T
<1>8. CASE Rollback(r)
  BY <1>7, <1>8 DEF Rollback, TypeIInv
<1>9. CASE Import(r)
  BY <1>7, <1>9, RuleTypes DEF Import
<1> QED
  BY <1>3, <1>4, <1>5, <1>6, <1>8, <1>9

\* Every step of the rule store keeps the types.
LEMMA TypeStep == TypeIInv /\ [Next]_vars => TypeIInv'
<1> SUFFICES ASSUME TypeIInv, [Next]_vars PROVE TypeIInv'
  OBVIOUS
<1> DEFINE L == Lists(RuleIds, Bodies)
<1>1. CASE UNCHANGED vars
  BY <1>1 DEF vars, TypeIInv
<1>2. ASSUME NEW r \in Replicas, Commit(r) PROVE TypeIInv'
  <2>1. /\ tx[r].stage = "open"
        /\ rows' = Written(rows, tx[r])
        /\ DOMAIN versions' = DOMAIN versions \cup {tx[r].version}
        /\ \A v \in DOMAIN versions' :
             versions'[v] = IF v = tx[r].version THEN tx[r].snap ELSE versions[v]
        /\ tx' = [tx EXCEPT ![r] = [stage |-> "committed"]]
        /\ due' = [q \in Replicas |-> due[q] \/ conn[q] = "up"]
        /\ UNCHANGED <<clock, cache, cut, conn, faults>>
    BY <1>2 DEF Commit
  <2>2. ChangeOK(tx[r])
    BY DEF TypeIInv
  <2>3. Table(rows', RuleIds, 1..MaxChanges, Bodies)
    BY <2>1, <2>2, WrittenTable DEF ChangeOK
  <2>4. DOMAIN versions' \subseteq 1..MaxChanges /\ \A v \in DOMAIN versions' : versions'[v] \in L
    BY <2>1, <2>2 DEF ChangeOK, TypeIInv
  <2>5. DOMAIN tx' = Replicas /\ \A q \in Replicas : ChangeOK(tx'[q])
    BY <2>1 DEF ChangeOK, TypeIInv
  <2>6. due' \in [Replicas -> BOOLEAN]
    BY <2>1
  <2> QED
    BY <2>1, <2>3, <2>4, <2>5, <2>6 DEF TypeIInv
<1>3. ChangeOK(NoTx)
  BY DEF ChangeOK, NoTx
<1>4. Fault => faults' \in 0..MaxFaults
  BY RuleTypes DEF Fault, TypeIInv
<1>5. ASSUME NEW r \in Replicas, Abort(r) \/ Return(r) \/ ReturnError(r) PROVE TypeIInv'
  <2>1. DOMAIN tx' = Replicas /\ \A q \in Replicas : ChangeOK(tx'[q])
    BY <1>3, <1>5 DEF Abort, Return, ReturnError, TypeIInv
  <2>2. cache' \in [Replicas -> L] /\ cut' \subseteq Replicas
    BY <1>5, ReadTypes DEF Abort, Return, ReadRules, ReturnError, TypeIInv
  <2>3. faults' \in 0..MaxFaults
    BY <1>4, <1>5 DEF Abort, Return, ReadRules, ReturnError, TypeIInv
  <2>4. UNCHANGED <<rows, versions, clock, conn, due>>
    BY <1>5 DEF Abort, Return, ReturnError
  <2> QED
    BY <2>1, <2>2, <2>3, <2>4 DEF TypeIInv
<1>6. ASSUME NEW r \in Replicas, Listen(r) \/ Reload(r) \/ Disconnect(r) PROVE TypeIInv'
  <2>1. cache' \in [Replicas -> L] /\ cut' \subseteq Replicas
    BY <1>6, ReadTypes DEF Listen, Reload, ReadRules, Disconnect, TypeIInv
  <2>2. conn' \in [Replicas -> {"up", "down"}] /\ due' \in [Replicas -> BOOLEAN]
    BY <1>6 DEF Listen, Reload, Disconnect, TypeIInv
  <2>3. faults' \in 0..MaxFaults
    BY <1>4, <1>6 DEF Listen, Reload, ReadRules, Disconnect, TypeIInv
  <2>4. UNCHANGED <<rows, versions, clock, tx>>
    BY <1>6 DEF Listen, Reload, Disconnect
  <2> QED
    BY <2>1, <2>2, <2>3, <2>4 DEF TypeIInv
<1>7. ASSUME NEW r \in Replicas, Restart(r) PROVE TypeIInv'
  <2>1. DOMAIN tx' = Replicas /\ \A q \in Replicas : ChangeOK(tx'[q])
    BY <1>3, <1>7 DEF Restart, TypeIInv
  <2>2. cache' \in [Replicas -> L] /\ cut' \subseteq Replicas
    BY <1>7, ReadTypes DEF Restart, TypeIInv
  <2>3. conn' \in [Replicas -> {"up", "down"}] /\ due' \in [Replicas -> BOOLEAN]
    BY <1>7 DEF Restart, TypeIInv
  <2>4. faults' \in 0..MaxFaults /\ UNCHANGED <<rows, versions, clock>>
    BY <1>4, <1>7 DEF Restart
  <2> QED
    BY <2>1, <2>2, <2>3, <2>4 DEF TypeIInv
<1> QED
  BY <1>1, <1>2, <1>5, <1>6, <1>7, ChangeTypes DEF Next

\* The rule store keeps its types: what is cached, stored as a version and restored
\* from one are lists of rules of the table, and every row of the table has the id
\* and the contents of some change (recordVersionSnapshotTx, Rollback, Import).
THEOREM RuleStoreTypes == Spec => []TypeOK
<1>1. Init => TypeIInv
  <2> SUFFICES ASSUME Init PROVE TypeIInv
    OBVIOUS
  <2>1. DOMAIN rows = {} /\ DOMAIN versions = {}
    BY DEF Init
  <2>2. Table(rows, RuleIds, 1..MaxChanges, Bodies)
    BY <2>1, FS_EmptySet DEF Table
  <2>3. <<>> \in Lists(RuleIds, Bodies)
    BY DEF Lists
  <2>4. cache \in [Replicas -> Lists(RuleIds, Bodies)]
    BY <2>3 DEF Init
  <2>5. DOMAIN tx = Replicas /\ \A r \in Replicas : ChangeOK(tx[r])
    BY DEF Init, ChangeOK, NoTx
  <2> QED
    BY <2>1, <2>2, <2>4, <2>5, RuleTypes DEF Init, TypeIInv
<1>2. TypeIInv => TypeOK
  BY DEF TypeIInv, TypeOK, Table, ChangeOK, Lists, ListedRules
<1> QED
  BY <1>1, <1>2, TypeStep, PTL DEF Spec

-----------------------------------------------------------------------------
\* The calls that are in flight, in whatever order, and that they are in one.
InFlight(s) == {s[i] : i \in DOMAIN s}
IsQueue(s) == s \in Seq(InFlight(s))

\* The calls without the i-th.
Rest(s, i) == SubSeq(s, 1, i - 1) \o SubSeq(s, i + 1, Len(s))

\* A sequence of anything is a queue of its own elements.
LEMMA QueueOf ==
  ASSUME NEW S, NEW s \in Seq(S)
  PROVE  IsQueue(s)
<1>1. Len(s) \in Nat /\ DOMAIN s = 1..Len(s) /\ s \in [1..Len(s) -> S]
  BY LenProperties
<1>2. s \in [1..Len(s) -> InFlight(s)]
  <2>1. \A i \in 1..Len(s) : s[i] \in InFlight(s)
    BY <1>1 DEF InFlight
  <2> QED
    BY <1>1, <2>1
<1>3. [1..Len(s) -> InFlight(s)] \in {[1..n -> InFlight(s)] : n \in Nat}
  BY <1>1
<1> QED
  BY <1>2, <1>3, SeqDef DEF IsQueue

\* The indices of a queue are those from 1 to its length.
LEMMA QueueLength ==
  ASSUME NEW s, IsQueue(s)
  PROVE  Len(s) \in Nat /\ DOMAIN s = 1..Len(s)
BY LenProperties DEF IsQueue

\* A call that is sent is one more.
LEMMA QueueAppend ==
  ASSUME NEW s, NEW e, IsQueue(s)
  PROVE  /\ IsQueue(Append(s, e))
         /\ InFlight(Append(s, e)) = InFlight(s) \cup {e}
         /\ DOMAIN Append(s, e) = 1..(Len(s) + 1)
         /\ \A j \in 1..Len(s) : Append(s, e)[j] = s[j]
         /\ Append(s, e)[Len(s) + 1] = e
<1> DEFINE S == InFlight(s) \cup {e}
           t == Append(s, e)
<1>1. s \in Seq(S)
  BY SeqDef, LenProperties DEF IsQueue
<1>2. /\ t \in Seq(S) /\ Len(t) = Len(s) + 1
      /\ \A j \in 1..Len(s) : t[j] = s[j]
      /\ t[Len(s) + 1] = e
  BY <1>1, AppendProperties
<1>3. Len(s) \in Nat /\ DOMAIN s = 1..Len(s) /\ DOMAIN t = 1..(Len(s) + 1)
  BY <1>1, <1>2, LenProperties
<1> HIDE DEF t
<1>4. InFlight(t) = InFlight(s) \cup {e}
  BY <1>2, <1>3 DEF InFlight
<1>5. IsQueue(t)
  BY <1>2, QueueOf
<1> QED
  BY <1>2, <1>3, <1>4, <1>5 DEF t

\* The places after the i-th of n, once that is taken out.
LEMMA PlacesBehind ==
  ASSUME NEW n \in Nat, NEW i \in 1..n, NEW j \in 1..(n - 1), ~(j < i)
  PROVE  /\ j - (i - 1) \in 1..(n - i)
         /\ j \in 1..((i - 1) + (n - i)) /\ ~(j <= i - 1)
         /\ i + (j - (i - 1)) = j + 1
  OBVIOUS

\* A call that has ended is one less, and the others keep their order.
LEMMA QueueRest ==
  ASSUME NEW s, IsQueue(s), NEW i \in DOMAIN s
  PROVE  /\ IsQueue(Rest(s, i))
         /\ InFlight(Rest(s, i)) \subseteq InFlight(s)
         /\ DOMAIN Rest(s, i) = 1..(Len(s) - 1)
         /\ \A j \in 1..(Len(s) - 1) : Rest(s, i)[j] = s[IF j < i THEN j ELSE j + 1]
<1> DEFINE S == InFlight(s)
           a == SubSeq(s, 1, i - 1)
           b == SubSeq(s, i + 1, Len(s))
<1>0. s \in Seq(S)
  BY DEF IsQueue
<1>1. Len(s) \in Nat /\ i \in 1..Len(s) /\ DOMAIN s = 1..Len(s)
  BY <1>0, LenProperties
<1> HIDE DEF S
<1>2. /\ a \in Seq(S) /\ Len(a) = i - 1
      /\ \A j \in 1..(i - 1) : a[j] = s[j]
  BY <1>0, <1>1, SubSeqProperties, SMTT(20)
<1>3. /\ b \in Seq(S) /\ Len(b) = Len(s) - i
      /\ \A j \in 1..(Len(s) - i) : b[j] = s[i + j]
  BY <1>0, <1>1, SubSeqProperties, SMTT(20)
<1>4. /\ a \o b \in Seq(S) /\ Len(a \o b) = Len(a) + Len(b)
      /\ \A j \in 1..(Len(a) + Len(b)) :
           (a \o b)[j] = IF j <= Len(a) THEN a[j] ELSE b[j - Len(a)]
  BY <1>2, <1>3, ConcatProperties
<1> HIDE DEF a, b
<1>5. DOMAIN (a \o b) = 1..(Len(s) - 1)
  <2>1. Len(a \o b) = Len(s) - 1
    BY <1>1, <1>2, <1>3, <1>4
  <2> QED
    BY <1>4, <2>1, LenProperties
<1>6. ASSUME NEW j \in 1..(Len(s) - 1)
      PROVE  (a \o b)[j] = s[IF j < i THEN j ELSE j + 1]
  <2>1. CASE j < i
    <3>1. j \in 1..(i - 1) /\ j \in 1..(Len(a) + Len(b)) /\ j <= Len(a)
      BY <1>1, <1>2, <1>3, <2>1
    <3> QED
      BY <1>2, <1>4, <2>1, <3>1
  <2>2. CASE ~(j < i)
    <3>0. /\ Len(s) \in Nat /\ i \in 1..Len(s) /\ j \in 1..(Len(s) - 1)
          /\ Len(a) = i - 1 /\ Len(b) = Len(s) - i
      BY <1>1, <1>2, <1>3, <1>6
    <3>1. /\ j - Len(a) \in 1..(Len(s) - i) /\ j \in 1..(Len(a) + Len(b)) /\ ~(j <= Len(a))
          /\ i + (j - Len(a)) = j + 1
      BY <2>2, <3>0, PlacesBehind
    <3>2. (a \o b)[j] = b[j - Len(a)] /\ b[j - Len(a)] = s[i + (j - Len(a))]
      BY <1>3, <1>4, <3>1
    <3> QED
      BY <2>2, <3>1, <3>2
  <2> QED
    BY <2>1, <2>2
<1>7. \A j \in 1..(Len(s) - 1) : (IF j < i THEN j ELSE j + 1) \in DOMAIN s
  BY <1>1
<1>8. InFlight(a \o b) \subseteq InFlight(s)
  BY <1>5, <1>6, <1>7 DEF InFlight
<1>9. IsQueue(a \o b)
  BY <1>4, QueueOf
<1> QED
  BY <1>5, <1>6, <1>8, <1>9 DEF Rest, a, b

\* What is left was there before, in another place than the i-th.
LEMMA QueueKept ==
  ASSUME NEW s, IsQueue(s), NEW i \in DOMAIN s
  PROVE  /\ IsQueue(Rest(s, i))
         /\ \A j \in DOMAIN Rest(s, i) : \E k \in DOMAIN s : k # i /\ Rest(s, i)[j] = s[k]
<1>1. Len(s) \in Nat /\ i \in 1..Len(s) /\ DOMAIN s = 1..Len(s)
  BY QueueLength
<1>2. ASSUME NEW j \in DOMAIN Rest(s, i)
      PROVE  \E k \in DOMAIN s : k # i /\ Rest(s, i)[j] = s[k]
  <2>1. j \in 1..(Len(s) - 1) /\ Rest(s, i)[j] = s[IF j < i THEN j ELSE j + 1]
    BY QueueRest
  <2>2. (IF j < i THEN j ELSE j + 1) \in DOMAIN s /\ (IF j < i THEN j ELSE j + 1) # i
    BY <1>1, <2>1
  <2> QED
    BY <2>1, <2>2
<1> QED
  BY <1>2, QueueRest

\* A call that changes keeps its place.
LEMMA QueueExcept ==
  ASSUME NEW s, NEW e, IsQueue(s), NEW i \in DOMAIN s
  PROVE  /\ IsQueue([s EXCEPT ![i] = e])
         /\ InFlight([s EXCEPT ![i] = e]) \subseteq InFlight(s) \cup {e}
         /\ DOMAIN [s EXCEPT ![i] = e] = DOMAIN s
<1> DEFINE S == InFlight(s) \cup {e}
           t == [s EXCEPT ![i] = e]
<1>1. Len(s) \in Nat /\ DOMAIN s = 1..Len(s) /\ s \in [1..Len(s) -> S]
  BY LenProperties DEF IsQueue
<1>2. t \in [1..Len(s) -> S]
  BY <1>1
<1>3. t \in Seq(S)
  BY <1>1, <1>2, SeqDef
<1>4. IsQueue(t)
  BY <1>3, QueueOf
<1>5. InFlight(t) \subseteq S
  BY <1>1, <1>2 DEF InFlight
<1> QED
  BY <1>4, <1>5

\* More calls at the end.
LEMMA QueueConcat ==
  ASSUME NEW s, IsQueue(s), NEW t, IsQueue(t)
  PROVE  /\ IsQueue(s \o t)
         /\ InFlight(s \o t) = InFlight(s) \cup InFlight(t)
         /\ DOMAIN s \subseteq DOMAIN (s \o t)
         /\ \A j \in DOMAIN s : (s \o t)[j] = s[j]
         /\ \A j \in DOMAIN (s \o t) \ DOMAIN s : (s \o t)[j] \in InFlight(t)
<1> DEFINE S == InFlight(s) \cup InFlight(t)
           m == Len(s)
           n == Len(t)
<1>1. s \in Seq(S) /\ t \in Seq(S)
  <2>1. s \in [1..m -> InFlight(s)] /\ m \in Nat /\ t \in [1..n -> InFlight(t)] /\ n \in Nat
    BY LenProperties DEF IsQueue
  <2>2. s \in [1..m -> S] /\ t \in [1..n -> S]
    BY <2>1
  <2> QED
    BY <2>1, <2>2, SeqDef
<1>2. /\ m \in Nat /\ n \in Nat /\ DOMAIN s = 1..m /\ DOMAIN t = 1..n
  BY <1>1, LenProperties
<1>3. /\ s \o t \in Seq(S) /\ Len(s \o t) = m + n
      /\ \A j \in 1..(m + n) : (s \o t)[j] = IF j <= m THEN s[j] ELSE t[j - m]
  BY <1>1, ConcatProperties
<1>4. DOMAIN (s \o t) = 1..(m + n)
  BY <1>3, LenProperties
<1> HIDE DEF S, m, n
<1>5. \A j \in 1..m : j \in 1..(m + n) /\ (s \o t)[j] = s[j]
  BY <1>2, <1>3
<1>6. \A j \in 1..n : j + m \in 1..(m + n) /\ (s \o t)[j + m] = t[j]
  <2>1. SUFFICES ASSUME NEW j \in 1..n PROVE j + m \in 1..(m + n) /\ (s \o t)[j + m] = t[j]
    OBVIOUS
  <2>2. j + m \in 1..(m + n) /\ ~(j + m <= m) /\ (j + m) - m = j
    BY <1>2, <2>1
  <2> QED
    BY <1>3, <2>2
<1>7. \A j \in (1..(m + n)) \ (1..m) : j - m \in 1..n /\ (s \o t)[j] = t[j - m]
  <2>1. SUFFICES ASSUME NEW j \in (1..(m + n)) \ (1..m)
                 PROVE  j - m \in 1..n /\ (s \o t)[j] = t[j - m]
    OBVIOUS
  <2>2. j \in 1..(m + n) /\ ~(j <= m) /\ j - m \in 1..n
    BY <1>2, <2>1
  <2> QED
    BY <1>3, <2>2
<1>8. InFlight(s \o t) = InFlight(s) \cup InFlight(t)
  <2> DEFINE u == s \o t
  <2>1. /\ \A j \in DOMAIN s : j \in DOMAIN u /\ u[j] = s[j]
        /\ \A j \in DOMAIN t : j + m \in DOMAIN u /\ u[j + m] = t[j]
        /\ \A j \in DOMAIN u : j \in DOMAIN s \/ (j - m \in DOMAIN t /\ u[j] = t[j - m])
    BY <1>2, <1>4, <1>5, <1>6, <1>7
  <2> HIDE DEF u
  <2>2. InFlight(u) \subseteq InFlight(s) \cup InFlight(t)
    BY <2>1 DEF InFlight
  <2>3. InFlight(s) \subseteq InFlight(u)
    BY <2>1 DEF InFlight
  <2>4. InFlight(t) \subseteq InFlight(u)
    BY <2>1 DEF InFlight
  <2> QED
    BY <2>2, <2>3, <2>4 DEF u
<1>9. IsQueue(s \o t)
  BY <1>3, QueueOf
<1> QED
  BY <1>2, <1>4, <1>5, <1>7, <1>8, <1>9 DEF InFlight

\* The calls, each with something about it changed.
LEMMA QueueMapped ==
  ASSUME NEW s, IsQueue(s), NEW t, t = [i \in DOMAIN s |-> t[i]]
  PROVE  IsQueue(t) /\ DOMAIN t = DOMAIN s
<1>1. Len(s) \in Nat /\ DOMAIN s = 1..Len(s)
  BY QueueLength
<1>2. t \in [1..Len(s) -> InFlight(t)] /\ DOMAIN t = DOMAIN s
  BY <1>1 DEF InFlight
<1>3. t \in Seq(InFlight(t))
  BY <1>1, <1>2, SeqDef
<1> QED
  BY <1>2, <1>3 DEF IsQueue

\* When at most one call is of some kind, that is so without the i-th, and there is
\* none if that was the one.
LEMMA QueueOnly ==
  ASSUME NEW s, IsQueue(s), NEW i \in DOMAIN s, NEW M,
         \A j, k \in DOMAIN s : s[j] \in M /\ s[k] \in M => j = k
  PROVE  /\ \A j, k \in DOMAIN Rest(s, i) : Rest(s, i)[j] \in M /\ Rest(s, i)[k] \in M => j = k
         /\ s[i] \in M => InFlight(Rest(s, i)) \cap M = {}
<1> DEFINE r == Rest(s, i)
           at(j) == IF j < i THEN j ELSE j + 1
<1>1. /\ DOMAIN r = 1..(Len(s) - 1) /\ \A j \in 1..(Len(s) - 1) : r[j] = s[at(j)]
  BY QueueRest
<1>2. Len(s) \in Nat /\ DOMAIN s = 1..Len(s)
  BY QueueLength
<1> HIDE DEF r
<1>3. \A j \in DOMAIN r : r[j] = s[at(j)] /\ at(j) \in DOMAIN s /\ at(j) # i
  BY <1>1, <1>2
<1>4. \A j, k \in DOMAIN r : at(j) = at(k) => j = k
  BY <1>1, <1>2
<1> HIDE DEF at
<1>5. \A j, k \in DOMAIN r : r[j] \in M /\ r[k] \in M => j = k
  BY <1>3, <1>4
<1>6. ASSUME s[i] \in M, NEW j \in DOMAIN r
      PROVE  r[j] \notin M
  BY <1>3, <1>6
<1> QED
  BY <1>5, <1>6 DEF r, InFlight

-----------------------------------------------------------------------------
\* What the pages have in common: their operators are these.
Common == INSTANCE ConsolePage

\* The calls in flight are records of an operation, its argument and a stage.
IsCall(c) == c = [op |-> c.op, arg |-> c.arg, stage |-> c.stage]
CallsOK(s) == IsQueue(s) /\ \A c \in InFlight(s) : IsCall(c)

\* Every call of t is one of s, which may have got on in the meantime.
Continued(s, t) ==
  \A c \in InFlight(t) : \E b \in InFlight(s) : b.op = c.op /\ b.arg = c.arg

\* A page starts with nothing in flight.
LEMMA CallsStart == CallsOK(<<>>) /\ InFlight(<<>>) = {}
<1>1. <<>> \in Seq({}) /\ InFlight(<<>>) = {}
  BY DEF InFlight
<1> QED
  BY <1>1, QueueOf DEF CallsOK

\* Sending a request, and asking for something.
LEMMA CallsSent ==
  ASSUME NEW s, CallsOK(s), NEW op, NEW arg, NEW stage
  PROVE  LET c == [op |-> op, arg |-> arg, stage |-> stage]
         IN  CallsOK(Append(s, c)) /\ InFlight(Append(s, c)) = InFlight(s) \cup {c}
<1> DEFINE c == [op |-> op, arg |-> arg, stage |-> stage]
<1>1. IsCall(c)
  BY DEF IsCall
<1> HIDE DEF c
<1>2. IsQueue(Append(s, c)) /\ InFlight(Append(s, c)) = InFlight(s) \cup {c}
  BY QueueAppend DEF CallsOK
<1> QED
  BY <1>1, <1>2 DEF CallsOK, c

\* A call gets to another stage.
LEMMA CallsStage ==
  ASSUME NEW s, CallsOK(s), NEW i \in DOMAIN s, NEW stage
  PROVE  LET t == [s EXCEPT ![i].stage = stage]
         IN  CallsOK(t) /\ Continued(s, t) /\ DOMAIN t = DOMAIN s
<1> DEFINE e == [s[i] EXCEPT !.stage = stage]
           t == [s EXCEPT ![i] = e]
<1>1. s[i] \in InFlight(s) /\ IsCall(s[i])
  BY DEF CallsOK, InFlight
<1>2. IsCall(e) /\ e.op = s[i].op /\ e.arg = s[i].arg
  BY <1>1 DEF IsCall
<1> HIDE DEF e
<1>3. IsQueue(t) /\ InFlight(t) \subseteq InFlight(s) \cup {e} /\ DOMAIN t = DOMAIN s
  BY QueueExcept DEF CallsOK
<1> HIDE DEF t
<1>4. CallsOK(t) /\ Continued(s, t)
  BY <1>1, <1>2, <1>3 DEF CallsOK, Continued
<1> QED
  BY <1>3, <1>4 DEF t, e

\* A call comes to its end.
LEMMA CallsSettled ==
  ASSUME NEW s, CallsOK(s), NEW i \in DOMAIN s
  PROVE  /\ CallsOK(Rest(s, i)) /\ InFlight(Rest(s, i)) \subseteq InFlight(s)
         /\ Continued(s, Rest(s, i))
BY QueueRest DEF CallsOK, Continued

\* What the engine does with a request.
LEMMA CallsHandled ==
  ASSUME CallsOK(calls), NEW i \in DOMAIN calls, NEW new,
         Common!Handle(i, new) \/ Common!Refuse(i)
  PROVE  /\ CallsOK(calls') /\ Continued(calls, calls') /\ DOMAIN calls' = DOMAIN calls
         /\ db' \in {db, new}
         /\ UNCHANGED <<query, ui, left>>
<1>1. PICK s \in {"done", "failed"} : calls' = [calls EXCEPT ![i].stage = s]
  BY DEF Common!Handle, Common!Refuse
<1>2. db' \in {db, new} /\ UNCHANGED <<query, ui, left>>
  BY DEF Common!Handle, Common!Refuse
<1> QED
  BY <1>1, <1>2, CallsStage

-----------------------------------------------------------------------------
\* The entries of the cache of which a page says something: wrote is the number of
\* the last change that the page was told of while it showed the entry.  An answer
\* on its way is at least as new, and so is what is shown unless it failed to be
\* fetched again.
Entry(q, wrote) ==
  /\ DOMAIN q = {"data", "stale", "failed", "busy", "answer"}
  /\ \A d \in q.data \cup q.answer : d.seq \in Nat
  /\ ~q.busy => q.answer = {}
  /\ \A d \in q.answer : d.seq >= wrote
  /\ ~q.busy /\ ~q.failed => \A d \in q.data : d.seq >= wrote

\* No change is told of before the engines have made and numbered it.
Counted(wrote) ==
  "seq" \in DOMAIN db /\ db.seq \in Nat /\ wrote \in Nat /\ wrote <= db.seq

\* What the engines hold, or a later state of it.
NotBefore(new) == "seq" \in DOMAIN new /\ new.seq \in Nat /\ new.seq >= db.seq

\* What the engine makes of a request leaves the page as it is.
LEMMA CountedHandled ==
  ASSUME CallsOK(calls), NEW wrote, Counted(wrote), NEW i \in DOMAIN calls, NEW new, NotBefore(new),
         Common!Handle(i, new) \/ Common!Refuse(i)
  PROVE  /\ CallsOK(calls') /\ Continued(calls, calls') /\ UNCHANGED <<query, ui>>
         /\ NotBefore(db')
<1>1. NotBefore(db)
  BY DEF Counted, NotBefore
<1> QED
  BY <1>1, CallsHandled

\* What was counted when a page was told of a change is still behind the engine
\* later.
LEMMA CountedLater ==
  ASSUME NEW wrote, Counted(wrote), NotBefore(db')
  PROVE  /\ "seq" \in DOMAIN db' /\ db'.seq \in Nat /\ wrote \in Nat
         /\ wrote <= db'.seq /\ db.seq <= db'.seq
BY DEF Counted, NotBefore

\* An entry that is fetched for the first time has nothing to answer for.
LEMMA EntryStart == Entry(Common!Fetched(Common!Unfetched), 0)
BY DEF Entry, Common!Fetched, Common!Unfetched

\* An entry that has been told of a change is also one that has been told of
\* none.
LEMMA EntryOfAnother ==
  ASSUME NEW q, NEW w, Entry(q, w)
  PROVE  Entry(q, 0)
BY DEF Entry

\* An entry that is fetched again because of a change: an answer that was on its
\* way before the change is not used, except for an entry that has shown nothing,
\* which is as new as it was told of before (ShownFrom).
LEMMA EntryFetched ==
  ASSUME NEW q, NEW w, Entry(q, w), NEW n
  PROVE  /\ Entry(Common!Fetched(q), IF q.data = {} /\ q.answer # {} THEN w ELSE n)
         /\ Entry(Common!Fetched(q), w)
BY DEF Entry, Common!Fetched

\* Marking an entry as stale keeps what it was told of (invalidateQueries).
LEMMA EntryMarked ==
  ASSUME NEW q, NEW w, Entry(q, w)
  PROVE  Entry([q EXCEPT !.stale = TRUE], w)
BY DEF Entry

\* Opening a page on a cached entry keeps what the entry was told of.
LEMMA EntryOpened ==
  ASSUME NEW q, NEW w, Entry(q, w)
  PROVE  Entry(Common!Opened(q), w)
BY EntryFetched DEF Common!Opened

\* What becomes of a fetch.
LEMMA EntryAnswered ==
  ASSUME NEW k \in DOMAIN query, NEW w, Entry(query[k], w),
         NEW v, v.seq \in Nat, v.seq >= w, Common!Answer(k, v)
  PROVE  /\ DOMAIN query' = DOMAIN query /\ Entry(query'[k], w)
         /\ \A j \in DOMAIN query \ {k} : query'[j] = query[j]
         /\ UNCHANGED <<db, calls, ui, left>>
<1>1. query' = [query EXCEPT ![k] = [query[k] EXCEPT !.answer = {v}]] /\ query[k].busy
  BY DEF Common!Answer
<1>2. Entry([query[k] EXCEPT !.answer = {v}], w)
  BY <1>1 DEF Entry
<1> QED
  BY <1>1, <1>2 DEF Common!Answer

\* When a fetch comes back or is lost, its entry keeps what it was told of and
\* the others stay.
LEMMA EntryFetchEnds ==
  ASSUME NEW k \in DOMAIN query, NEW w, Entry(query[k], w),
         Common!Deliver(k) \/ Common!Lose(k)
  PROVE  /\ DOMAIN query' = DOMAIN query /\ Entry(query'[k], w)
         /\ \A j \in DOMAIN query \ {k} : query'[j] = query[j]
         /\ UNCHANGED <<db, calls, ui, left>>
<1>1. CASE Common!Deliver(k)
  <2> DEFINE e == [Common!Unfetched EXCEPT !.data = query[k].answer]
  <2>1. Entry(e, w)
    BY DEF Entry, Common!Unfetched
  <2>2. query' = [query EXCEPT ![k] = e] /\ UNCHANGED <<db, calls, ui, left>>
    BY <1>1 DEF Common!Deliver
  <2> QED
    BY <2>1, <2>2
<1>2. CASE Common!Lose(k)
  <2> DEFINE e == [query[k] EXCEPT !.busy = FALSE, !.answer = {}, !.failed = TRUE]
  <2>1. Entry(e, w)
    BY DEF Entry
  <2>2. query' = [query EXCEPT ![k] = e] /\ UNCHANGED <<db, calls, ui, left>>
    BY <1>2 DEF Common!Lose
  <2> QED
    BY <2>1, <2>2
<1> QED
  BY <1>1, <1>2

\* Fetching an entry again keeps what it was told of and leaves the others
\* alone.
LEMMA EntryRefetched ==
  ASSUME NEW k \in DOMAIN query, NEW w, Entry(query[k], w), Common!Refetch(k)
  PROVE  /\ DOMAIN query' = DOMAIN query /\ Entry(query'[k], w)
         /\ \A j \in DOMAIN query \ {k} : query'[j] = query[j]
         /\ UNCHANGED <<db, calls, ui>>
<1>1. Entry(Common!Fetched(query[k]), w)
  BY EntryFetched
<1>2. query' = [query EXCEPT ![k] = Common!Fetched(query[k])] /\ UNCHANGED <<db, calls, ui>>
  BY DEF Common!Refetch
<1> QED
  BY <1>1, <1>2

\* A cache of several entries, one of which, under key, is on the screen.
Entries(qs, key, w) ==
  key \in DOMAIN qs /\ \A k \in DOMAIN qs : Entry(qs[k], IF k = key THEN w ELSE 0)

\* Every step of a fetch keeps a cache whose entry of the page has been told of
\* the changes up to w.
LEMMA EntriesAnswered ==
  ASSUME NEW key, NEW w, Entries(query, key, w), NEW k \in DOMAIN query,
         NEW v, v.seq \in Nat, v.seq >= IF k = key THEN w ELSE 0,
         Common!Answer(k, v) \/ Common!Deliver(k) \/ Common!Lose(k) \/ Common!Refetch(k)
  PROVE  Entries(query', key, w) /\ UNCHANGED <<db, calls, ui>>
<1> DEFINE u == IF k = key THEN w ELSE 0
<1>1. Entry(query[k], u) /\ v.seq \in Nat /\ v.seq >= u
  BY DEF Entries
<1> HIDE DEF u
<1>2. /\ DOMAIN query' = DOMAIN query /\ Entry(query'[k], u)
      /\ \A j \in DOMAIN query \ {k} : query'[j] = query[j]
      /\ UNCHANGED <<db, calls, ui>>
  BY <1>1, EntryAnswered, EntryFetchEnds, EntryRefetched
<1> QED
  BY <1>2 DEF Entries, u

\* The same where the engine answers with what it holds now.
LEMMA EntriesFetch ==
  ASSUME NEW key, NEW w, Entries(query, key, w), Counted(w),
         NEW k \in DOMAIN query, NEW v, v.seq = db.seq,
         Common!Answer(k, v) \/ Common!Deliver(k) \/ Common!Lose(k) \/ Common!Refetch(k)
  PROVE  Entries(query', key, w) /\ UNCHANGED <<db, calls, ui>>
<1>1. v.seq \in Nat /\ v.seq >= IF k = key THEN w ELSE 0
  BY DEF Counted
<1> QED
  BY <1>1, EntriesAnswered

\* Everything is invalidated because of a change that the page is told of.
LEMMA EntriesInvalidated ==
  ASSUME NEW key, NEW w, Entries(query, key, w), NEW n, query' = Common!Invalidated(key)
  PROVE  /\ Entries(query', key, IF query[key].data = {} /\ query[key].answer # {} THEN w ELSE n)
         /\ Entries(query', key, w)
<1> DEFINE u == IF query[key].data = {} /\ query[key].answer # {} THEN w ELSE n
<1>1. /\ Entry(Common!Fetched(query[key]), u) /\ Entry(Common!Fetched(query[key]), w)
      /\ \A k \in DOMAIN query \ {key} : Entry([query[k] EXCEPT !.stale = TRUE], 0)
  BY EntryFetched, EntryMarked DEF Entries
<1> HIDE DEF u
<1>2. /\ DOMAIN query' = DOMAIN query /\ query'[key] = Common!Fetched(query[key])
      /\ \A k \in DOMAIN query \ {key} : query'[k] = [query[k] EXCEPT !.stale = TRUE]
  BY DEF Common!Invalidated, Entries
<1> QED
  BY <1>1, <1>2 DEF Entries, u

\* Another entry comes on the screen.
LEMMA EntriesMounted ==
  ASSUME NEW key, NEW w, Entries(query, key, w), NEW k, query' = Common!Mounted(k)
  PROVE  Entries(query', k, 0)
<1> DEFINE e == IF k \in DOMAIN query THEN query[k] ELSE Common!Unfetched
<1>1. Entry(e, 0)
  BY EntryOfAnother DEF Entries, Entry, Common!Unfetched
<1>2. /\ \A j \in DOMAIN query : Entry(query[j], 0)
      /\ Entry(Common!Opened(e), 0)
  BY <1>1, EntryOfAnother, EntryOpened DEF Entries
<1>3. /\ DOMAIN query' = DOMAIN query \cup {k} /\ query'[k] = Common!Opened(e)
      /\ \A j \in DOMAIN query \ {k} : query'[j] = query[j]
  BY DEF Common!Mounted
<1> QED
  BY <1>2, <1>3 DEF Entries

\* A cache that starts with the entry of the page.
LEMMA EntriesStart ==
  ASSUME NEW key, query = [k \in {key} |-> Common!Fetched(Common!Unfetched)]
  PROVE  Entries(query, key, 0)
BY EntryStart DEF Entries

\* A click that sends one request, or none.
Clicked ==
  \/ UNCHANGED calls
  \/ \E op, arg, stage : calls' = Append(calls, [op |-> op, arg |-> arg, stage |-> stage])

\* A click that sends at most one request keeps the queue of requests.
LEMMA CallsClicked ==
  ASSUME CallsOK(calls), Clicked
  PROVE  CallsOK(calls')
<1>1. CASE UNCHANGED calls
  BY <1>1
<1>2. CASE \E op, arg, stage : calls' = Append(calls, [op |-> op, arg |-> arg, stage |-> stage])
  <2>1. PICK op, arg, stage : calls' = Append(calls, [op |-> op, arg |-> arg, stage |-> stage])
    BY <1>2
  <2> QED
    BY <2>1, CallsSent
<1> QED
  BY <1>1, <1>2 DEF Clicked

\* What the engine does with a request, when it changes nothing or numbers the change.
LEMMA CallsEngine ==
  ASSUME CallsOK(calls), NEW wrote, Counted(wrote), NEW i \in DOMAIN calls,
         Common!Refuse(i) \/ \E new : NotBefore(new) /\ Common!Handle(i, new)
  PROVE  /\ CallsOK(calls') /\ Continued(calls, calls') /\ UNCHANGED <<query, ui>>
         /\ "seq" \in DOMAIN db' /\ db'.seq \in Nat /\ wrote \in Nat /\ wrote <= db'.seq
<1>1. CASE Common!Refuse(i)
  BY <1>1, CallsHandled, CountedLater DEF Counted, NotBefore
<1>2. CASE \E new : NotBefore(new) /\ Common!Handle(i, new)
  <2>1. PICK new : NotBefore(new) /\ Common!Handle(i, new)
    BY <1>2
  <2> QED
    BY <2>1, CountedHandled, CountedLater
<1> QED
  BY <1>1, <1>2

-----------------------------------------------------------------------------
\* The way to a page: the cursors of the pages before it, and its own.  The next
\* page is one more at the end of it.
LEMMA WayNext ==
  ASSUME NEW h, IsQueue(h), NEW c, NEW d
  PROVE  LET p == Append(h, c)
             q == Append(p, d)
         IN  /\ IsQueue(p) /\ Len(h) \in Nat
             /\ Len(p) = Len(h) + 1 /\ Len(q) = Len(h) + 2
             /\ \A k \in 1..(Len(h) + 1) : q[k] = p[k]
             /\ p[Len(h) + 1] = c /\ q[Len(h) + 2] = d
<1> DEFINE p == Append(h, c)
           q == Append(p, d)
<1>1. Len(h) \in Nat /\ DOMAIN h = 1..Len(h)
  BY QueueLength
<1>2. IsQueue(p) /\ DOMAIN p = 1..(Len(h) + 1) /\ p[Len(h) + 1] = c
  BY QueueAppend
<1> HIDE DEF p
<1>3. Len(p) \in Nat /\ DOMAIN p = 1..Len(p)
  BY <1>2, QueueLength
<1>4. Len(p) = Len(h) + 1
  <2>1. Len(p) \in DOMAIN p \/ Len(p) = 0
    BY <1>3
  <2>2. Len(h) + 1 \in DOMAIN p
    BY <1>1, <1>2
  <2> QED
    BY <1>1, <1>2, <1>3, <2>1, <2>2
<1>5. IsQueue(q) /\ DOMAIN q = 1..(Len(p) + 1) /\ q[Len(p) + 1] = d
      /\ \A k \in 1..Len(p) : q[k] = p[k]
  BY <1>2, QueueAppend
<1> HIDE DEF q
<1>6. Len(q) \in Nat /\ DOMAIN q = 1..Len(q)
  BY <1>5, QueueLength
<1>7. Len(q) = Len(p) + 1
  <2>1. Len(q) \in DOMAIN q \/ Len(q) = 0
    BY <1>6
  <2>2. Len(p) + 1 \in DOMAIN q
    BY <1>3, <1>5
  <2> QED
    BY <1>3, <1>5, <1>6, <2>1, <2>2
<1> QED
  BY <1>1, <1>2, <1>4, <1>5, <1>7 DEF p, q

\* The page before is the last of the way to the page, which is forgotten.
LEMMA WayBack ==
  ASSUME NEW h, IsQueue(h), h # <<>>, NEW c
  PROVE  LET f == SubSeq(h, 1, Len(h) - 1)
             p == Append(f, h[Len(h)])
         IN  /\ IsQueue(f)
             /\ Len(h) \in Nat \ {0} /\ Len(p) = Len(h) /\ Len(Append(h, c)) = Len(h) + 1
             /\ \A k \in 1..Len(h) : p[k] = Append(h, c)[k]
<1> DEFINE n == Len(h)
           f == SubSeq(h, 1, n - 1)
           p == Append(f, h[n])
<1>1. n \in Nat /\ DOMAIN h = 1..n /\ h \in Seq(InFlight(h))
  BY QueueLength DEF IsQueue
<1>2. n # 0
  BY <1>1, EmptySeq
<1>3. f \in Seq(InFlight(h)) /\ Len(f) = n - 1 /\ \A k \in 1..(n - 1) : f[k] = h[k]
  BY <1>1, <1>2, SubSeqProperties
<1>4. IsQueue(f)
  BY <1>3, QueueOf
<1>5. /\ DOMAIN Append(h, c) = 1..(n + 1) /\ IsQueue(Append(h, c))
      /\ \A k \in 1..n : Append(h, c)[k] = h[k]
  BY QueueAppend
<1>6. /\ DOMAIN p = 1..n /\ IsQueue(p) /\ p[n] = h[n]
      /\ \A k \in 1..(n - 1) : p[k] = f[k]
  <2>1. /\ DOMAIN p = 1..(Len(f) + 1) /\ IsQueue(p) /\ p[Len(f) + 1] = h[n]
        /\ \A k \in 1..Len(f) : p[k] = f[k]
    <3> HIDE DEF f, n
    <3> QED
      BY <1>4, QueueAppend
  <2> HIDE DEF p, f
  <2> QED
    BY <2>1, <1>3, <1>1, <1>2
<1> HIDE DEF p, f, n
<1>7. Len(p) \in Nat /\ DOMAIN p = 1..Len(p)
  BY <1>6, QueueLength
<1>8. Len(p) = n
  <2>1. n \in DOMAIN p /\ (Len(p) \in DOMAIN p \/ Len(p) = 0)
    BY <1>1, <1>2, <1>6, <1>7
  <2> QED
    BY <1>1, <1>6, <1>7, <2>1
<1>9. Len(Append(h, c)) = n + 1
  <2>1. Len(Append(h, c)) \in Nat /\ DOMAIN Append(h, c) = 1..Len(Append(h, c))
    BY <1>5, QueueLength
  <2> DEFINE r == Append(h, c)
  <2> HIDE DEF r
  <2>2. n + 1 \in DOMAIN r /\ (Len(r) \in DOMAIN r \/ Len(r) = 0)
    BY <1>1, <1>5, <2>1 DEF r
  <2> QED
    BY <1>1, <1>5, <2>1, <2>2 DEF r
<1>10. \A k \in 1..n : p[k] = Append(h, c)[k]
  <2> TAKE k \in 1..n
  <2>1. CASE k = n
    BY <1>5, <1>6, <2>1
  <2>2. CASE k \in 1..(n - 1)
    BY <1>3, <1>5, <1>6, <2>2
  <2> QED
    BY <1>1, <2>1, <2>2
<1> QED
  BY <1>1, <1>2, <1>4, <1>8, <1>9, <1>10 DEF p, f, n

\* What an entry shows or is about to show.  Only an answer adds to that.
Contents(q) == q.data \cup q.answer

ContentsKept ==
  \A x \in DOMAIN query' :
    Contents(query'[x]) \subseteq IF x \in DOMAIN query THEN Contents(query[x]) ELSE {}

\* Fetching or opening an entry brings no content of its own.
LEMMA ContentsFetched ==
  ASSUME NEW q
  PROVE  /\ Contents(Common!Fetched(q)) \subseteq Contents(q)
         /\ Contents(Common!Opened(q)) \subseteq Contents(q)
BY DEF Contents, Common!Fetched, Common!Opened

\* Marking an entry as stale brings no content.
LEMMA ContentsMarked ==
  ASSUME NEW q, NEW w, Entry(q, w)
  PROVE  Contents([q EXCEPT !.stale = TRUE]) \subseteq Contents(q)
BY DEF Contents, Entry

\* Fetching an entry again brings no content until the answer.
LEMMA ContentsRefetched ==
  ASSUME NEW k \in DOMAIN query, query' = [query EXCEPT ![k] = Common!Fetched(query[k])]
  PROVE  ContentsKept
<1>1. Contents(Common!Fetched(query[k])) \subseteq Contents(query[k])
  BY ContentsFetched
<1>2. DOMAIN query' = DOMAIN query /\ query'[k] = Common!Fetched(query[k])
      /\ \A x \in DOMAIN query \ {k} : query'[x] = query[x]
  BY DEF Common!Fetched
<1> QED
  BY <1>1, <1>2 DEF ContentsKept

\* Mounting a page on an entry brings no content until the answer.
LEMMA ContentsMounted ==
  ASSUME NEW k, query' = Common!Mounted(k)
  PROVE  ContentsKept
<1> DEFINE u == IF k \in DOMAIN query THEN query[k] ELSE Common!Unfetched
<1>1. Contents(Common!Opened(u)) \subseteq Contents(u)
  BY ContentsFetched
<1>2. Contents(Common!Unfetched) = {}
  BY DEF Contents, Common!Unfetched
<1>3. Contents(Common!Opened(u)) \subseteq IF k \in DOMAIN query THEN Contents(query[k]) ELSE {}
  BY <1>1, <1>2
<1>4. /\ DOMAIN query' = DOMAIN query \cup {k} /\ query'[k] = Common!Opened(u)
      /\ \A x \in DOMAIN query' \ {k} : query'[x] = query[x]
  BY DEF Common!Mounted
<1> HIDE DEF u
<1> QED
  BY <1>3, <1>4 DEF ContentsKept

\* Invalidating an entry brings no content until the answer.
LEMMA ContentsInvalidated ==
  ASSUME NEW key, NEW w, Entries(query, key, w), query' = Common!Invalidated(key)
  PROVE  ContentsKept
<1>1. /\ DOMAIN query' = DOMAIN query /\ query'[key] = Common!Fetched(query[key])
      /\ \A k \in DOMAIN query \ {key} : query'[k] = [query[k] EXCEPT !.stale = TRUE]
  BY DEF Common!Invalidated, Entries
<1>2. /\ Contents(Common!Fetched(query[key])) \subseteq Contents(query[key])
      /\ \A k \in DOMAIN query : Contents([query[k] EXCEPT !.stale = TRUE]) \subseteq Contents(query[k])
  BY ContentsFetched, ContentsMarked DEF Entries
<1> QED
  BY <1>1, <1>2 DEF ContentsKept

\* An answer, or the end of a fetch: every content is one of before, or the answer.
LEMMA ContentsAnswered ==
  ASSUME NEW k \in DOMAIN query, NEW w, Entry(query[k], w), NEW v,
         Common!Answer(k, v) \/ Common!Deliver(k) \/ Common!Lose(k) \/ Common!Refetch(k)
  PROVE  /\ DOMAIN query' = DOMAIN query
         /\ \A x \in DOMAIN query :
              Contents(query'[x]) \subseteq Contents(query[x]) \cup IF x = k THEN {v} ELSE {}
<1> DEFINE Becomes(e) ==
      query' = [query EXCEPT ![k] = e] /\ Contents(e) \subseteq Contents(query[k]) \cup {v}
<1>1. CASE Common!Answer(k, v)
  <2> DEFINE e == [query[k] EXCEPT !.answer = {v}]
  <2>1. query' = [query EXCEPT ![k] = e]
    BY <1>1 DEF Common!Answer
  <2>2. Contents(e) \subseteq Contents(query[k]) \cup {v}
    BY DEF Contents, Entry
  <2> QED
    BY <2>1, <2>2
<1>2. CASE Common!Deliver(k)
  <2> DEFINE e == [Common!Unfetched EXCEPT !.data = query[k].answer]
  <2>1. query' = [query EXCEPT ![k] = e]
    BY <1>2 DEF Common!Deliver
  <2>2. Contents(e) \subseteq Contents(query[k])
    BY DEF Contents, Common!Unfetched
  <2> QED
    BY <2>1, <2>2
<1>3. CASE Common!Lose(k)
  <2> DEFINE e == [query[k] EXCEPT !.busy = FALSE, !.answer = {}, !.failed = TRUE]
  <2>1. query' = [query EXCEPT ![k] = e]
    BY <1>3 DEF Common!Lose
  <2>2. Contents(e) \subseteq Contents(query[k])
    BY DEF Contents, Entry
  <2> QED
    BY <2>1, <2>2
<1>4. CASE Common!Refetch(k)
  <2>1. Contents(Common!Fetched(query[k])) \subseteq Contents(query[k])
    BY ContentsFetched
  <2>2. query' = [query EXCEPT ![k] = Common!Fetched(query[k])]
    BY <1>4 DEF Common!Refetch
  <2> QED
    BY <2>1, <2>2
<1> QED
  BY <1>1, <1>2, <1>3, <1>4

-----------------------------------------------------------------------------
\* The operators page.
OperatorsFields == {"builder", "form", "submitting", "deactivate", "delete", "wrote"}

\* A dialog is open for one operator, and a change under way is about the operator
\* of the dialog of its kind that is open.
AboutDialog(c) ==
  /\ c.op \in {"create", "toggle", "delete"}
  /\ c.op = "toggle" => ui.deactivate \subseteq {c.arg.id}
  /\ c.op = "delete" => ui.delete \subseteq {c.arg}

OperatorsInv ==
  /\ DOMAIN ui = OperatorsFields
  /\ CallsOK(calls)
  /\ \A x, y \in ui.deactivate : x = y
  /\ \A x, y \in ui.delete : x = y
  /\ \A c \in InFlight(calls) : AboutDialog(c)
  /\ Counted(ui.wrote)
  /\ DOMAIN query = {"operators"} /\ Entry(query["operators"], ui.wrote)

\* The operators page starts in its invariant.
LEMMA OperatorsStart ==
  ASSUME Accounts!Init
  PROVE  OperatorsInv
<1>1. query = [k \in {"operators"} |-> Common!Fetched(Common!Unfetched)]
  BY DEF Accounts!Init, Accounts!Fetched, Accounts!Unfetched, Common!Fetched, Common!Unfetched
<1>2. DOMAIN query = {"operators"} /\ query["operators"] = Common!Fetched(Common!Unfetched)
  BY <1>1
<1>3. Entry(query["operators"], 0)
  BY <1>2, EntryStart
<1> QED
  BY <1>2, <1>3, CallsStart DEF Accounts!Init, OperatorsInv, OperatorsFields, Counted

\* What the buttons do.
LEMMA OperatorsClick ==
  ASSUME OperatorsInv,
         \/ Accounts!setIsBuilderOpen \/ Accounts!EditForm \/ Accounts!handleSubmit
         \/ Accounts!setDeactivateTarget \/ Accounts!setDeleteTarget \/ Accounts!Dismiss
         \/ Accounts!Reactivate \/ Accounts!ConfirmDeactivation \/ Accounts!ConfirmDelete
  PROVE  OperatorsInv'
<1> USE DEF OperatorsInv, OperatorsFields, Counted
<1>1. UNCHANGED <<db, query>>
  BY DEF Accounts!setIsBuilderOpen, Accounts!EditForm, Accounts!handleSubmit,
         Accounts!setDeactivateTarget, Accounts!setDeleteTarget, Accounts!Dismiss,
         Accounts!Reactivate, Accounts!ConfirmDeactivation, Accounts!ConfirmDelete,
         Accounts!Only, Accounts!Send
<1>2. CASE Accounts!setIsBuilderOpen \/ Accounts!EditForm \/ Accounts!Dismiss
  <2>1. /\ DOMAIN ui' = DOMAIN ui /\ UNCHANGED calls /\ ui'.wrote = ui.wrote
        /\ ui'.deactivate \subseteq ui.deactivate /\ ui'.delete \subseteq ui.delete
    BY <1>2 DEF Accounts!setIsBuilderOpen, Accounts!EditForm, Accounts!Dismiss, Accounts!Only
  <2> QED
    BY <1>1, <2>1 DEF AboutDialog
<1>3. CASE Accounts!setDeactivateTarget
  <2>1. \A c \in InFlight(calls) : c.op # "toggle"
    BY <1>3 DEF Accounts!setDeactivateTarget, Accounts!Enabled, Accounts!isPending, InFlight
  <2>2. PICK x : ui' = [ui EXCEPT !.deactivate = {x}] /\ UNCHANGED calls
    BY <1>3 DEF Accounts!setDeactivateTarget, Accounts!Only
  <2> QED
    BY <1>1, <2>1, <2>2 DEF AboutDialog
<1>4. CASE Accounts!setDeleteTarget
  <2>1. \A c \in InFlight(calls) : c.op # "delete"
    BY <1>4 DEF Accounts!setDeleteTarget, Accounts!Enabled, Accounts!isPending, InFlight
  <2>2. PICK x : ui' = [ui EXCEPT !.delete = {x}] /\ UNCHANGED calls
    BY <1>4 DEF Accounts!setDeleteTarget, Accounts!Only
  <2> QED
    BY <1>1, <2>1, <2>2 DEF AboutDialog
<1>5. ASSUME NEW op, NEW arg, calls' = Accounts!Sent(op, arg),
             AboutDialog([op |-> op, arg |-> arg, stage |-> "sent"]),
             DOMAIN ui' = DOMAIN ui, ui'.wrote = ui.wrote,
             ui'.deactivate = ui.deactivate, ui'.delete = ui.delete
      PROVE  OperatorsInv'
  <2> DEFINE c == [op |-> op, arg |-> arg, stage |-> "sent"]
  <2>1. CallsOK(calls') /\ InFlight(calls') = InFlight(calls) \cup {c}
    BY <1>5, CallsSent DEF Accounts!Sent
  <2>2. \A b \in InFlight(calls') : AboutDialog(b)
    BY <1>5, <2>1
  <2>3. \A b \in InFlight(calls') : AboutDialog(b)'
    BY <1>5, <2>2 DEF AboutDialog
  <2> QED
    BY <1>1, <1>5, <2>1, <2>3
<1>6. CASE Accounts!handleSubmit
  BY <1>5, <1>6 DEF Accounts!handleSubmit, Accounts!Send, AboutDialog
<1>7. CASE Accounts!Reactivate
  BY <1>5, <1>7 DEF Accounts!Reactivate, Accounts!Uncovered, Accounts!Send, AboutDialog
<1>8. CASE Accounts!ConfirmDeactivation
  BY <1>5, <1>8 DEF Accounts!ConfirmDeactivation, Accounts!Send, AboutDialog
<1>9. CASE Accounts!ConfirmDelete
  BY <1>5, <1>9 DEF Accounts!ConfirmDelete, Accounts!Send, AboutDialog
<1> QED
  BY <1>2, <1>3, <1>4, <1>6, <1>7, <1>8, <1>9

\* What the engine makes of a request, and the page of its response.
LEMMA OperatorsResponse ==
  ASSUME OperatorsInv, NEW i \in DOMAIN calls,
         Accounts!Engine(i) \/ Accounts!Return(i) \/ Accounts!ReturnError(i)
  PROVE  OperatorsInv'
<1> USE DEF OperatorsInv, OperatorsFields, Counted
<1>1. CASE Accounts!Engine(i)
  <2>1. PICK new : NotBefore(new) /\ (Common!Handle(i, new) \/ Common!Refuse(i))
    <3>1. \A ops, active : NotBefore(Accounts!With(ops, active))
      BY DEF Accounts!With, NotBefore
    <3>2. NotBefore(db)
      BY DEF NotBefore
    <3>3. \A new : /\ Accounts!Handle(i, new) => Common!Handle(i, new)
                   /\ Accounts!Refuse(i) => Common!Refuse(i)
      BY DEF Accounts!Handle, Accounts!Refuse, Common!Handle, Common!Refuse
    <3> QED
      BY <1>1, <3>1, <3>2, <3>3 DEF Accounts!Engine
  <2>2. CallsOK(calls') /\ Continued(calls, calls') /\ UNCHANGED <<query, ui>>
    BY <2>1, CountedHandled
  <2>3. Counted(ui.wrote)'
    BY <2>1, <2>2, CountedHandled, CountedLater
  <2>4. \A c \in InFlight(calls') : AboutDialog(c)'
    BY <2>2 DEF Continued, AboutDialog
  <2> QED
    BY <2>2, <2>3, <2>4
<1>2. CASE Accounts!Return(i)
  <2>1. CallsOK(calls') /\ InFlight(calls') \subseteq InFlight(calls) /\ UNCHANGED db
    BY <1>2, CallsSettled DEF Accounts!Return, Accounts!Settled, Rest
  <2>0. calls[i].op \in {"create", "toggle", "delete"}
    BY DEF AboutDialog, InFlight
  <2>2. /\ DOMAIN ui' = DOMAIN ui
        /\ ui'.wrote = Accounts!ShownFrom("operators", ui.wrote)
        /\ ui'.deactivate \subseteq ui.deactivate /\ ui'.delete \subseteq ui.delete
    BY <1>2, <2>0 DEF Accounts!Return
  <2>3. query' = [query EXCEPT !["operators"] = Common!Fetched(query["operators"])]
    BY <1>2 DEF Accounts!Return, Accounts!Fetched, Common!Fetched
  <2>4. DOMAIN query' = {"operators"} /\ Entry(query'["operators"], ui'.wrote)
    BY <2>2, <2>3, EntryFetched DEF Accounts!ShownFrom
  <2>5. \A c \in InFlight(calls') : AboutDialog(c)'
    BY <2>1, <2>2 DEF AboutDialog
  <2> QED
    BY <2>1, <2>2, <2>4, <2>5 DEF Accounts!ShownFrom
<1>3. CASE Accounts!ReturnError(i)
  <2>1. /\ CallsOK(calls') /\ InFlight(calls') \subseteq InFlight(calls)
        /\ UNCHANGED <<db, query>>
    BY <1>3, CallsSettled DEF Accounts!ReturnError, Accounts!Settled, Rest
  <2>2. /\ DOMAIN ui' = DOMAIN ui /\ ui'.wrote = ui.wrote
        /\ ui'.deactivate = ui.deactivate /\ ui'.delete = ui.delete
    BY <1>3 DEF Accounts!ReturnError
  <2> QED
    BY <2>1, <2>2 DEF AboutDialog
<1> QED
  BY <1>1, <1>2, <1>3

\* What becomes of the fetches of the list.
LEMMA OperatorsFetch ==
  ASSUME OperatorsInv,
         \/ Accounts!Refetch("operators") \/ Accounts!Answer("operators", Accounts!Read("operators"))
         \/ Accounts!Deliver("operators") \/ Accounts!Lose("operators")
  PROVE  OperatorsInv'
<1> USE DEF OperatorsInv, OperatorsFields, Counted
<1> DEFINE v == Accounts!Read("operators")
<1>1. v.seq = db.seq
  BY DEF Accounts!Read
<1>2. \/ Common!Refetch("operators") \/ Common!Answer("operators", v)
      \/ Common!Deliver("operators") \/ Common!Lose("operators")
  BY DEF Accounts!Refetch, Common!Refetch, Accounts!Answer, Common!Answer, Accounts!Deliver,
         Common!Deliver, Accounts!Lose, Common!Lose, Accounts!Unfetched, Common!Unfetched,
         Accounts!Fetched, Common!Fetched, Accounts!Spend, Common!Spend
<1> HIDE DEF v
<1>3. /\ DOMAIN query' = DOMAIN query /\ Entry(query'["operators"], ui.wrote)
      /\ UNCHANGED <<db, calls, ui>>
  BY <1>1, <1>2, EntryRefetched, EntryAnswered, EntryFetchEnds
<1> QED
  BY <1>3 DEF AboutDialog

\* Every step of the operators page keeps its invariant.
LEMMA OperatorsStep ==
  ASSUME OperatorsInv, Accounts!Next
  PROVE  OperatorsInv'
BY OperatorsClick, OperatorsResponse, OperatorsFetch DEF Accounts!Next

-----------------------------------------------------------------------------
\* The Vulcan page.
VulcanFields ==
  {"tab", "toRevoke", "toRotate", "rotating", "token", "sheet", "errors", "secret", "catalogue",
   "scopes", "loading", "typed", "parsed", "verdict", "caveats", "root", "wrote"}

VulcanInv ==
  /\ DOMAIN ui = VulcanFields
  /\ CallsOK(calls)
  /\ Counted(ui.wrote)
  /\ DOMAIN query = {"keys"} /\ Entry(query["keys"], ui.wrote)

\* The vulcan page starts in its invariant.
LEMMA VulcanStart ==
  ASSUME Vulcan!Init
  PROVE  VulcanInv
<1>1. query = [k \in {"keys"} |-> Common!Fetched(Common!Unfetched)]
  BY DEF Vulcan!Init, Vulcan!Fetched, Vulcan!Unfetched, Common!Fetched, Common!Unfetched
<1>2. DOMAIN query = {"keys"} /\ Entry(query["keys"], 0)
  BY <1>1, EntryStart
<1> QED
  BY <1>2, CallsStart DEF Vulcan!Init, VulcanInv, VulcanFields, Counted

\* Whatever is clicked, requests are added and the list is left alone.
LEMMA VulcanClick ==
  ASSUME VulcanInv,
         \/ Vulcan!setKeyToRevoke \/ Vulcan!setKeyToRotate \/ Vulcan!Cancel \/ Vulcan!revoke
         \/ Vulcan!handleRotate \/ Vulcan!setOpen \/ Vulcan!handleSubmit
         \/ Vulcan!handleCloseSecretModal \/ Vulcan!setScopeSheetOpen \/ Vulcan!handleCreateScope
         \/ Vulcan!handleDeleteScope \/ Vulcan!setTokenInput \/ Vulcan!handleParse
         \/ Vulcan!handleVerify \/ Vulcan!setKeyId \/ Vulcan!addCaveat \/ Vulcan!removeCaveat
         \/ Vulcan!handleGenerate
  PROVE  VulcanInv'
<1> USE DEF VulcanInv, Counted
<1> DEFINE Told == DOMAIN ui' = DOMAIN ui /\ ui'.wrote = ui.wrote /\ UNCHANGED <<db, query>>
           More == \E op, arg, stage :
                     calls' = Append(calls, [op |-> op, arg |-> arg, stage |-> stage])
<1>1. ASSUME Told, UNCHANGED calls \/ More PROVE VulcanInv'
  <2>1. CASE UNCHANGED calls
    BY <1>1, <2>1
  <2>2. CASE More
    <3>1. PICK op, arg, stage : calls' = Append(calls, [op |-> op, arg |-> arg, stage |-> stage])
      BY <2>2
    <3>2. CallsOK(calls')
      BY <3>1, CallsSent
    <3> QED
      BY <1>1, <3>2
  <2> QED
    BY <1>1, <2>1, <2>2
<1> HIDE DEF VulcanInv
<1>2. CASE \/ Vulcan!setKeyToRevoke \/ Vulcan!setKeyToRotate \/ Vulcan!Cancel \/ Vulcan!setOpen
           \/ Vulcan!handleCloseSecretModal \/ Vulcan!setTokenInput \/ Vulcan!handleParse
           \/ Vulcan!setKeyId \/ Vulcan!addCaveat \/ Vulcan!removeCaveat
  <2>1. DOMAIN ui = VulcanFields
    BY DEF VulcanInv
  <2>2. Told /\ UNCHANGED calls
    BY <1>2, <2>1
    DEF Vulcan!setKeyToRevoke, Vulcan!setKeyToRotate, Vulcan!Cancel, Vulcan!setOpen,
        Vulcan!handleCloseSecretModal, Vulcan!setTokenInput, Vulcan!handleParse,
        Vulcan!setKeyId, Vulcan!addCaveat, Vulcan!removeCaveat, Vulcan!Only, VulcanFields
  <2> QED
    BY <1>1, <2>2
<1>3. CASE \/ Vulcan!revoke \/ Vulcan!handleRotate \/ Vulcan!handleSubmit
           \/ Vulcan!setScopeSheetOpen \/ Vulcan!handleCreateScope \/ Vulcan!handleDeleteScope
           \/ Vulcan!handleVerify \/ Vulcan!handleGenerate
  <2>1. DOMAIN ui = VulcanFields
    BY DEF VulcanInv
  <2>2. UNCHANGED calls \/ More
    BY <1>3
    DEF Vulcan!revoke, Vulcan!handleRotate, Vulcan!handleSubmit, Vulcan!setScopeSheetOpen,
        Vulcan!handleCreateScope, Vulcan!handleDeleteScope, Vulcan!handleVerify,
        Vulcan!handleGenerate, Vulcan!Do, Vulcan!Only, Vulcan!Sent, Vulcan!Asked
  <2>3. Told
    BY <1>3, <2>1
    DEF Vulcan!revoke, Vulcan!handleRotate, Vulcan!handleSubmit, Vulcan!setScopeSheetOpen,
        Vulcan!handleCreateScope, Vulcan!handleDeleteScope, Vulcan!handleVerify,
        Vulcan!handleGenerate, Vulcan!Do, Vulcan!Only, VulcanFields
  <2> QED
    BY <1>1, <2>2, <2>3
<1> QED
  BY <1>2, <1>3

\* What the engine makes of a request, and the page of its response.
LEMMA VulcanResponse ==
  ASSUME VulcanInv, NEW i \in DOMAIN calls,
         Vulcan!Engine(i) \/ Vulcan!Return(i) \/ Vulcan!ReturnError(i)
  PROVE  VulcanInv'
<1> USE DEF VulcanInv, VulcanFields, Counted
<1>1. CASE Vulcan!Engine(i)
  <2>1. \/ \E new : NotBefore(new) /\ (Common!Handle(i, new) \/ Common!Refuse(i))
        \/ calls' = [calls EXCEPT ![i].stage = "done"] /\ UNCHANGED <<db, query, ui, left>>
    <3>1. \A f, S : "seq" \in DOMAIN db => NotBefore(Vulcan!With(f, S))
      BY DEF Vulcan!With, NotBefore
    <3>2. NotBefore(db)
      BY DEF NotBefore
    <3>3. \A new : /\ Vulcan!Handle(i, new) => Common!Handle(i, new)
                   /\ Vulcan!Refuse(i) => Common!Refuse(i)
      BY DEF Vulcan!Handle, Vulcan!Refuse, Common!Handle, Common!Refuse
    <3> QED
      BY <1>1, <3>1, <3>2, <3>3 DEF Vulcan!Engine, Vulcan!Create
  <2>2. CASE \E new : NotBefore(new) /\ (Common!Handle(i, new) \/ Common!Refuse(i))
    BY <2>2, CountedHandled, CountedLater
  <2>3. CASE calls' = [calls EXCEPT ![i].stage = "done"] /\ UNCHANGED <<db, query, ui, left>>
    BY <2>3, CallsStage
  <2> QED
    BY <2>1, <2>2, <2>3
<1>2. CASE Vulcan!Return(i)
  <2>1. CallsOK(calls')
    <3>1. CallsOK(Rest(calls, i))
      BY CallsSettled
    <3>2. \/ calls' = Rest(calls, i)
          \/ calls' = Append(Rest(calls, i), [op |-> "load", arg |-> 0, stage |-> "asked"])
      BY <1>2 DEF Vulcan!Return, Vulcan!Settled, Rest
    <3>3. CallsOK(Append(Rest(calls, i), [op |-> "load", arg |-> 0, stage |-> "asked"]))
      BY <3>1, CallsSent
    <3> QED
      BY <3>1, <3>2, <3>3
  <2>2. /\ UNCHANGED db /\ DOMAIN ui' = DOMAIN ui
        /\ ui'.wrote = IF Vulcan!Changed(calls[i]) THEN Vulcan!ShownFrom("keys", ui.wrote)
                       ELSE ui.wrote
    BY <1>2 DEF Vulcan!Return
  <2>3. query' = IF Vulcan!ChangesKeys(calls[i].op)
                 THEN [query EXCEPT !["keys"] = Common!Fetched(query["keys"])] ELSE query
    BY <1>2 DEF Vulcan!Return, Vulcan!Fetched, Common!Fetched
  <2>4. DOMAIN query' = {"keys"} /\ Entry(query'["keys"], ui'.wrote)
    BY <2>2, <2>3, EntryFetched DEF Vulcan!Changed, Vulcan!ShownFrom
  <2> QED
    BY <2>1, <2>2, <2>4 DEF Vulcan!ShownFrom
<1>3. CASE Vulcan!ReturnError(i)
  <2>1. CallsOK(calls') /\ UNCHANGED <<db, query>>
    BY <1>3, CallsSettled DEF Vulcan!ReturnError, Vulcan!Settled, Rest
  <2>2. DOMAIN ui' = DOMAIN ui /\ ui'.wrote = ui.wrote
    BY <1>3 DEF Vulcan!ReturnError
  <2> QED
    BY <2>1, <2>2
<1> QED
  BY <1>1, <1>2, <1>3

\* What becomes of the fetches of the list.
LEMMA VulcanFetch ==
  ASSUME VulcanInv,
         \/ Vulcan!Refetch("keys") \/ Vulcan!Answer("keys", Vulcan!Read("keys"))
         \/ Vulcan!Deliver("keys") \/ Vulcan!Lose("keys")
  PROVE  VulcanInv'
<1> USE DEF VulcanInv, Counted
<1> DEFINE v == Vulcan!Read("keys")
<1>1. v.seq = db.seq
  BY DEF Vulcan!Read
<1>2. \/ Common!Refetch("keys") \/ Common!Answer("keys", v)
      \/ Common!Deliver("keys") \/ Common!Lose("keys")
  BY DEF Vulcan!Refetch, Common!Refetch, Vulcan!Answer, Common!Answer, Vulcan!Deliver,
         Common!Deliver, Vulcan!Lose, Common!Lose, Vulcan!Unfetched, Common!Unfetched,
         Vulcan!Fetched, Common!Fetched, Vulcan!Spend, Common!Spend
<1> HIDE DEF v
<1>3. /\ DOMAIN query' = DOMAIN query /\ Entry(query'["keys"], ui.wrote)
      /\ UNCHANGED <<db, calls, ui>>
  BY <1>1, <1>2, EntryRefetched, EntryAnswered, EntryFetchEnds
<1> QED
  BY <1>3

\* Every step of the vulcan page keeps its invariant.
LEMMA VulcanStep ==
  ASSUME VulcanInv, Vulcan!Next
  PROVE  VulcanInv'
BY VulcanClick, VulcanResponse, VulcanFetch DEF Vulcan!Next

-----------------------------------------------------------------------------
\* The Themis studio.
StudioFields ==
  {"versionsOf", "versions", "loading", "rolling", "suiteOf", "fixtures", "running", "result",
   "mode", "expression", "timer", "validation", "evaluating", "verdict", "wrote"}

StudioInv ==
  /\ DOMAIN ui = StudioFields
  /\ CallsOK(calls)
  /\ Counted(ui.wrote)
  /\ DOMAIN query = {"list"} /\ Entry(query["list"], ui.wrote)

\* The themis studio starts in its invariant.
LEMMA StudioStart ==
  ASSUME Studio!Init
  PROVE  StudioInv
<1>1. DOMAIN query = {"list"} /\ query["list"] = Common!Fetched(Common!Unfetched)
  BY DEF Studio!Init, Studio!Fetched, Studio!Unfetched, Common!Fetched, Common!Unfetched
<1>2. Entry(query["list"], 0)
  BY <1>1, EntryStart
<1> QED
  BY <1>1, <1>2, CallsStart DEF Studio!Init, StudioInv, StudioFields, Counted

\* What the user does on the themis studio keeps its invariant.
LEMMA StudioClick ==
  ASSUME StudioInv,
         \/ \E p : Studio!toggle(p) \/ Studio!delete(p) \/ Studio!OpenVersions(p)
                     \/ Studio!OpenSuite(p) \/ Studio!onSubmit(p)
         \/ Studio!CloseVersions \/ Studio!handleRollback \/ Studio!CloseSuite
         \/ Studio!handleRunSuite \/ Studio!handleAddFixture \/ Studio!handleDeleteFixture
         \/ Studio!EditScratchpad \/ Studio!Validate \/ Studio!handleEvaluate
  PROVE  StudioInv'
<1> DEFINE Told(u) == DOMAIN u = StudioFields /\ u.wrote = ui.wrote
<1>1. CASE Studio!CloseVersions \/ Studio!CloseSuite \/ Studio!EditScratchpad
  <2>1. Told(ui') /\ UNCHANGED <<db, query, calls>>
    BY <1>1 DEF Studio!CloseVersions, Studio!CloseSuite, Studio!EditScratchpad, StudioInv,
                StudioFields
  <2> QED
    BY <2>1 DEF StudioInv, Counted
<1>2. CASE \/ \E p : Studio!toggle(p) \/ Studio!delete(p) \/ Studio!OpenVersions(p)
                       \/ Studio!OpenSuite(p) \/ Studio!onSubmit(p)
           \/ Studio!handleRollback \/ Studio!handleRunSuite \/ Studio!handleAddFixture
           \/ Studio!handleDeleteFixture \/ Studio!Validate \/ Studio!handleEvaluate
  <2>1. ASSUME NEW op, NEW arg, NEW new, Studio!Request(op, arg, new), Told(new)
        PROVE  StudioInv'
    <3>1. Clicked /\ ui' = new /\ UNCHANGED <<db, query>>
      BY <2>1 DEF Studio!Request, Studio!Sent, Studio!Asked, Clicked
    <3>2. CallsOK(calls')
      BY <3>1, CallsClicked DEF StudioInv
    <3> QED
      BY <2>1, <3>1, <3>2 DEF StudioInv, Counted
  <2>2. DOMAIN ui = StudioFields
    BY DEF StudioInv
  <2>3. CASE \E p : Studio!toggle(p) \/ Studio!delete(p) \/ Studio!onSubmit(p)
    BY <2>1, <2>2, <2>3 DEF Studio!toggle, Studio!delete, Studio!onSubmit, StudioFields
  <2>4. CASE \E p : Studio!OpenVersions(p) \/ Studio!OpenSuite(p)
    BY <2>1, <2>2, <2>4 DEF Studio!OpenVersions, Studio!OpenSuite, StudioFields
  <2>5. CASE Studio!handleRollback \/ Studio!handleRunSuite
    <3>1. CASE Studio!handleRollback
      <4>1. PICK p, v : Studio!Request("rollback", [of |-> p, shown |-> v],
                                       [ui EXCEPT !.rolling = TRUE])
        BY <3>1 DEF Studio!handleRollback
      <4>2. Told([ui EXCEPT !.rolling = TRUE])
        BY <2>2 DEF StudioFields
      <4> HIDE DEF Told
      <4> QED
        BY <2>1, <4>1, <4>2
    <3>2. CASE Studio!handleRunSuite
      BY <2>1, <2>2, <3>2 DEF Studio!handleRunSuite, StudioFields
    <3> QED
      BY <2>5, <3>1, <3>2
  <2>6. CASE Studio!handleAddFixture \/ Studio!handleDeleteFixture
    BY <2>1, <2>2, <2>6 DEF Studio!handleAddFixture, Studio!handleDeleteFixture, StudioFields
  <2>7. CASE Studio!Validate \/ Studio!handleEvaluate
    BY <2>1, <2>2, <2>7 DEF Studio!Validate, Studio!handleEvaluate, StudioFields
  <2> HIDE DEF Told
  <2> QED
    BY <1>2, <2>3, <2>4, <2>5, <2>6, <2>7
<1> QED
  BY <1>1, <1>2

\* Every stage of a request of the themis studio keeps its invariant: the
\* engine, the answer and the error.
LEMMA StudioResponse ==
  ASSUME StudioInv, NEW i \in DOMAIN calls,
         Studio!Engine(i) \/ Studio!Return(i) \/ Studio!ReturnError(i)
  PROVE  StudioInv'
<1>1. CASE Studio!Engine(i)
  <2>1. \A S : \A f \in {"policies", "enabled", "fixtures"} : NotBefore(Studio!With(f, S))
    BY DEF Studio!With, NotBefore, StudioInv, Counted
  <2>2. Common!Refuse(i) \/ \E new : NotBefore(new) /\ Common!Handle(i, new)
    BY <1>1, <2>1 DEF Studio!Engine, Studio!Handle, Studio!Refuse, Common!Handle, Common!Refuse
  <2>3. /\ CallsOK(calls') /\ UNCHANGED <<query, ui>> /\ Counted(ui.wrote)'
    BY <2>2, CallsEngine DEF StudioInv, Counted
  <2> QED
    BY <2>3 DEF StudioInv
<1>2. CASE Studio!Return(i)
  <2> DEFINE listed == Studio!Listing(calls[i].op)
             n == IF listed THEN Studio!ShownFrom("list", ui.wrote) ELSE ui.wrote
             e == IF listed THEN Common!Fetched(query["list"]) ELSE query["list"]
  <2>1. CallsOK(calls')
    <3>1. CallsOK(Rest(calls, i))
      BY CallsSettled DEF StudioInv
    <3>2. \/ calls' = Rest(calls, i)
          \/ \E arg : calls' = Append(Rest(calls, i),
                                      [op |-> "fixtures", arg |-> arg, stage |-> "asked"])
      BY <1>2 DEF Studio!Return, Studio!Settled, Rest
    <3>3. ASSUME NEW arg PROVE CallsOK(Append(Rest(calls, i),
                                 [op |-> "fixtures", arg |-> arg, stage |-> "asked"]))
      BY <3>1, CallsSent
    <3> QED
      BY <3>1, <3>2, <3>3
  <2>2. DOMAIN ui' = StudioFields /\ ui'.wrote = n /\ UNCHANGED db
    <3>1. DOMAIN Studio!Shown(calls[i]) = StudioFields
          /\ Studio!Shown(calls[i]).wrote = ui.wrote
      BY DEF Studio!Shown, StudioInv, StudioFields
    <3>2. ui' = [Studio!Shown(calls[i]) EXCEPT !.wrote =
                   IF Studio!Listing(calls[i].op) THEN Studio!ShownFrom("list", @) ELSE @]
          /\ UNCHANGED db
      BY <1>2 DEF Studio!Return
    <3> QED
      BY <3>1, <3>2 DEF StudioFields
  <2>3. DOMAIN query' = {"list"} /\ query'["list"] = e
    BY <1>2 DEF Studio!Return, Studio!Fetched, Common!Fetched, StudioInv
  <2>4. Entry(e, n)
    BY EntryFetched DEF StudioInv, Studio!ShownFrom
  <2>5. Counted(n)
    BY DEF StudioInv, Counted, Studio!ShownFrom
  <2> HIDE DEF n, e
  <2> QED
    BY <2>1, <2>2, <2>3, <2>4, <2>5 DEF StudioInv, Counted
<1>3. CASE Studio!ReturnError(i)
  <2>1. CallsOK(calls')
    BY <1>3, CallsSettled DEF Studio!ReturnError, Studio!Settled, Rest, StudioInv
  <2>2. DOMAIN ui' = StudioFields /\ ui'.wrote = ui.wrote /\ UNCHANGED <<db, query>>
    BY <1>3 DEF Studio!ReturnError, StudioInv, StudioFields
  <2> QED
    BY <2>1, <2>2 DEF StudioInv, Counted
<1> QED
  BY <1>1, <1>2, <1>3

\* Every step of a fetch of the themis studio keeps its invariant.
LEMMA StudioFetch ==
  ASSUME StudioInv,
         \/ Studio!Refetch("list") \/ Studio!Answer("list", Studio!Read("list"))
         \/ Studio!Deliver("list") \/ Studio!Lose("list")
  PROVE  StudioInv'
<1> DEFINE v == Studio!Read("list")
<1>1. v.seq = db.seq /\ Entries(query, "list", ui.wrote) /\ "list" \in DOMAIN query
  BY DEF Studio!Read, StudioInv, Entries
<1>2. \/ Common!Refetch("list") \/ Common!Answer("list", v)
      \/ Common!Deliver("list") \/ Common!Lose("list")
  BY DEF Studio!Refetch, Common!Refetch, Studio!Answer, Common!Answer, Studio!Deliver,
         Common!Deliver, Studio!Lose, Common!Lose, Studio!Unfetched, Common!Unfetched,
         Studio!Fetched, Common!Fetched, Studio!Spend, Common!Spend
<1> HIDE DEF v
<1>3. Entries(query', "list", ui.wrote) /\ UNCHANGED <<db, calls, ui>>
  BY <1>1, <1>2, EntriesFetch DEF StudioInv
<1>4. DOMAIN query' = DOMAIN query
  BY <1>2 DEF Common!Refetch, Common!Answer, Common!Deliver, Common!Lose
<1> QED
  BY <1>3, <1>4 DEF StudioInv, Counted, Entries

\* Every step of the themis studio keeps its invariant.
LEMMA StudioStep ==
  ASSUME StudioInv, Studio!Next
  PROVE  StudioInv'
BY StudioClick, StudioResponse, StudioFetch DEF Studio!Next

-----------------------------------------------------------------------------
\* The policies page: of the entries of its searches and page sizes one is on the
\* screen, and only of that the page has been told anything.
DirectoryFields ==
  {"search", "size", "open", "name", "said", "wrote", "payload", "jsonError", "verdict"}

DirectoryInv ==
  /\ DOMAIN ui = DirectoryFields
  /\ CallsOK(calls)
  /\ \A c \in InFlight(calls) : c.op \in {"create", "delete", "evaluate"}
  /\ Counted(ui.wrote)
  /\ Entries(query, Directory!key, ui.wrote)

\* The policies page starts in its invariant.
LEMMA DirectoryStart ==
  ASSUME Directory!Init
  PROVE  DirectoryInv
<1>1. query = [k \in {Directory!key} |-> Common!Fetched(Common!Unfetched)]
  BY DEF Directory!Init, Directory!Fetched, Directory!Unfetched, Common!Fetched, Common!Unfetched
<1>2. Entries(query, Directory!key, 0)
  BY <1>1, EntriesStart
<1> QED
  BY <1>2, CallsStart DEF Directory!Init, DirectoryInv, DirectoryFields, Counted

\* What the user does on the policies page keeps its invariant.
LEMMA DirectoryClick ==
  ASSUME DirectoryInv,
         \/ Directory!setSearchQuery \/ Directory!handlePageSizeChange \/ Directory!Edit
         \/ Directory!setTemplate \/ Directory!handleCreatePolicy \/ Directory!EditPayload
         \/ Directory!handleEvaluate \/ \E p : Directory!handleDelete(p)
  PROVE  DirectoryInv'
<1> USE DEF DirectoryFields
<1>1. CASE Directory!setSearchQuery \/ Directory!handlePageSizeChange
  <2>1. PICK s, n : Directory!Browse(s, n)
    BY <1>1 DEF Directory!setSearchQuery, Directory!handlePageSizeChange
  <2>2. /\ ui' = [ui EXCEPT !.search = s, !.size = n, !.wrote = 0]
        /\ query' = Directory!Mounted([search |-> s, size |-> n])
        /\ UNCHANGED <<db, calls>>
    BY <2>1 DEF Directory!Browse
  <2>3. query' = Common!Mounted([search |-> s, size |-> n])
    BY <2>2 DEF Directory!Mounted, Common!Mounted, Directory!Opened, Common!Opened,
                Directory!Unfetched, Common!Unfetched, Directory!Fetched, Common!Fetched
  <2>4. Entries(query', [search |-> s, size |-> n], 0)
    BY <2>3, EntriesMounted DEF DirectoryInv
  <2>5. ui'.wrote = 0 /\ DOMAIN ui' = DOMAIN ui /\ Directory!key' = [search |-> s, size |-> n]
    BY <2>2 DEF Directory!key, DirectoryInv
  <2> QED
    BY <2>2, <2>4, <2>5 DEF DirectoryInv, Counted
<1>2. CASE \/ Directory!Edit \/ Directory!setTemplate \/ Directory!EditPayload
           \/ Directory!handleCreatePolicy \/ Directory!handleEvaluate
           \/ \E p : Directory!handleDelete(p)
  <2> DEFINE More(op) ==
        \E arg, stage : calls' = Append(calls, [op |-> op, arg |-> arg, stage |-> stage])
  <2>1. DOMAIN ui' = DOMAIN ui /\ ui'.wrote = ui.wrote /\ Directory!key' = Directory!key
        /\ UNCHANGED <<db, query>>
    BY <1>2 DEF DirectoryInv, Directory!Edit, Directory!setTemplate, Directory!EditPayload,
                Directory!handleCreatePolicy, Directory!handleEvaluate, Directory!handleDelete,
                Directory!key
  <2>2. UNCHANGED calls \/ \E op \in {"create", "delete", "evaluate"} : More(op)
    BY <1>2 DEF Directory!Edit, Directory!setTemplate, Directory!EditPayload,
                Directory!handleCreatePolicy, Directory!handleEvaluate, Directory!handleDelete,
                Directory!Sent, Directory!Asked
  <2>3. ASSUME NEW op \in {"create", "delete", "evaluate"}, More(op)
        PROVE  CallsOK(calls') /\ \A c \in InFlight(calls') : c.op \in {"create", "delete", "evaluate"}
    <3>1. PICK arg, stage : calls' = Append(calls, [op |-> op, arg |-> arg, stage |-> stage])
      BY <2>3
    <3>2. CallsOK(calls') /\ InFlight(calls')
            = InFlight(calls) \cup {[op |-> op, arg |-> arg, stage |-> stage]}
      BY <3>1, CallsSent DEF DirectoryInv
    <3> QED
      BY <3>2 DEF DirectoryInv
  <2> HIDE DEF More
  <2>4. CallsOK(calls') /\ \A c \in InFlight(calls') : c.op \in {"create", "delete", "evaluate"}
    BY <2>2, <2>3 DEF DirectoryInv
  <2> QED
    BY <2>1, <2>4 DEF DirectoryInv, Counted
<1> QED
  BY <1>1, <1>2

\* Every stage of a request of the policies page keeps its invariant: the
\* engine, the answer and the error.
LEMMA DirectoryResponse ==
  ASSUME DirectoryInv, NEW i \in DOMAIN calls,
         Directory!Engine(i) \/ Directory!Return(i) \/ Directory!ReturnError(i)
  PROVE  DirectoryInv'
<1> USE DEF DirectoryFields
<1>1. CASE Directory!Engine(i)
  <2>1. \A S : NotBefore(Directory!With(S))
    BY DEF Directory!With, NotBefore, DirectoryInv, Counted
  <2>2. Common!Refuse(i) \/ \E new : NotBefore(new) /\ Common!Handle(i, new)
    BY <1>1, <2>1 DEF Directory!Engine, Directory!Handle, Directory!Refuse, Common!Handle,
                      Common!Refuse
  <2>3. /\ CallsOK(calls') /\ Continued(calls, calls') /\ UNCHANGED <<query, ui>>
        /\ Counted(ui.wrote)'
    BY <2>2, CallsEngine DEF DirectoryInv, Counted
  <2>4. Directory!key' = Directory!key
    BY <2>3 DEF Directory!key
  <2> QED
    BY <2>3, <2>4 DEF DirectoryInv, Continued
<1>2. CASE Directory!Return(i) \/ Directory!ReturnError(i)
  <2>0. calls[i].op \in {"create", "delete", "evaluate"} /\ calls[i] \in InFlight(calls)
    BY DEF DirectoryInv, InFlight
  <2>1. CallsOK(calls') /\ InFlight(calls') \subseteq InFlight(calls) /\ UNCHANGED db
    BY <1>2, CallsSettled DEF Directory!Return, Directory!ReturnError, Directory!Settled, Rest,
                              DirectoryInv
  <2>2. /\ DOMAIN ui' = DOMAIN ui /\ Directory!key' = Directory!key
        /\ \/ UNCHANGED query /\ ui'.wrote = ui.wrote
           \/ /\ query' = Directory!Invalidated(Directory!key)
              /\ ui'.wrote \in {ui.wrote, Directory!ShownFrom(Directory!key, ui.wrote)}
    BY <1>2, <2>0 DEF Directory!Return, Directory!ReturnError, Directory!key, DirectoryInv
  <2>3. CASE UNCHANGED query /\ ui'.wrote = ui.wrote
    BY <2>1, <2>2, <2>3 DEF DirectoryInv, Counted
  <2>4. CASE /\ query' = Directory!Invalidated(Directory!key)
             /\ ui'.wrote \in {ui.wrote, Directory!ShownFrom(Directory!key, ui.wrote)}
    <3>1. query' = Common!Invalidated(Directory!key)
      BY <2>4 DEF Directory!Invalidated, Common!Invalidated, Directory!Fetched, Common!Fetched
    <3>2. Entries(query', Directory!key, ui'.wrote)
      BY <2>4, <3>1, EntriesInvalidated DEF DirectoryInv, Directory!ShownFrom
    <3>3. Counted(ui.wrote)'
      BY <2>1, <2>4 DEF DirectoryInv, Counted, Directory!ShownFrom
    <3> QED
      BY <2>1, <2>2, <3>2, <3>3 DEF DirectoryInv
  <2> QED
    BY <2>2, <2>3, <2>4
<1> QED
  BY <1>1, <1>2

\* Every step of a fetch of the policies page keeps its invariant.
LEMMA DirectoryFetch ==
  ASSUME DirectoryInv, NEW k \in DOMAIN query,
         \/ Directory!Answer(k, Directory!Read(k)) \/ Directory!Deliver(k) \/ Directory!Lose(k)
         \/ Directory!Refetch(k)
  PROVE  DirectoryInv'
<1> DEFINE v == Directory!Read(k)
<1>1. v.seq = db.seq
  BY DEF Directory!Read
<1>2. \/ Common!Answer(k, v) \/ Common!Deliver(k) \/ Common!Lose(k) \/ Common!Refetch(k)
  BY DEF Directory!Refetch, Common!Refetch, Directory!Answer, Common!Answer, Directory!Deliver,
         Common!Deliver, Directory!Lose, Common!Lose, Directory!Unfetched, Common!Unfetched,
         Directory!Fetched, Common!Fetched, Directory!Spend, Common!Spend
<1> HIDE DEF v
<1>3. Entries(query', Directory!key, ui.wrote) /\ UNCHANGED <<db, calls, ui>>
  BY <1>1, <1>2, EntriesFetch DEF DirectoryInv
<1>4. Directory!key' = Directory!key
  BY <1>3 DEF Directory!key
<1> QED
  BY <1>3, <1>4 DEF DirectoryInv, Counted

\* Every step of the policies page keeps its invariant.
LEMMA DirectoryStep ==
  ASSUME DirectoryInv, Directory!Next
  PROVE  DirectoryInv'
<1>1. Directory!key \in DOMAIN query
  BY DEF DirectoryInv, Entries
<1> QED
  BY <1>1, DirectoryClick, DirectoryResponse, DirectoryFetch DEF Directory!Next, Directory!refresh

-----------------------------------------------------------------------------
\* The proxy rules page.
RulesFields == {"filter", "tab", "wizard", "dialog", "selected", "matched", "moved", "wrote"}

RulesInv ==
  /\ DOMAIN ui = RulesFields
  /\ CallsOK(calls)
  /\ Counted(ui.wrote)
  /\ DOMAIN query = {"rules", "versions"}
  /\ Entries(query, "rules", ui.wrote)

\* The proxy rules page starts in its invariant.
LEMMA RulesStart ==
  ASSUME Rules!Init
  PROVE  RulesInv
<1>1. query = [rules |-> Common!Fetched(Common!Unfetched), versions |-> Common!Unfetched]
  BY DEF Rules!Init, Rules!Fetched, Rules!Unfetched, Common!Fetched, Common!Unfetched
<1>2. Entry(Common!Unfetched, 0)
  BY DEF Entry, Common!Unfetched
<1>3. DOMAIN query = {"rules", "versions"} /\ Entries(query, "rules", 0)
  BY <1>1, <1>2, EntryStart DEF Entries
<1>4. PICK n : db = [rows |-> Rules!Restored([k \in 1..n |-> [id |-> k, order |-> 0, body |-> "b"]], 0),
                     versions |-> [v \in {} |-> <<>>], seq |-> 1]
  BY DEF Rules!Init
<1>5. Counted(0)
  BY <1>4 DEF Counted
<1>6. DOMAIN ui = RulesFields /\ ui.wrote = 0 /\ calls = <<>>
  BY DEF Rules!Init, RulesFields
<1> QED
  BY <1>3, <1>5, <1>6, CallsStart DEF RulesInv

\* What the user does on the proxy rules page keeps its invariant.
LEMMA RulesClick ==
  ASSUME RulesInv,
         \/ Rules!Click \/ Rules!setOpen \/ Rules!Edit \/ Rules!handleFinish \/ Rules!OpenDialog
         \/ Rules!handleRollback \/ Rules!Elsewhere
  PROVE  RulesInv'
<1> DEFINE Told == DOMAIN ui' = RulesFields /\ ui'.wrote = ui.wrote
<1>1. ASSUME Clicked, Told, UNCHANGED <<db, query>> PROVE RulesInv'
  <2>1. CallsOK(calls')
    BY <1>1, CallsClicked DEF RulesInv
  <2> QED
    BY <1>1, <2>1 DEF RulesInv, Counted
<1>2. DOMAIN ui = RulesFields
  BY DEF RulesInv
<1>3. CASE Rules!Click
  <2>1. CASE \E i, j : Rules!moveRule(i, j)
    <3>1. PICK i, j : Rules!moveRule(i, j)
      BY <2>1
    <3>2. Told /\ UNCHANGED <<db, query>>
      BY <1>2, <3>1 DEF Rules!moveRule, RulesFields
    <3>3. Clicked
      BY <3>1 DEF Rules!moveRule, Rules!Sent, Clicked
    <3> HIDE DEF Told
    <3> QED
      BY <1>1, <3>2, <3>3
  <2>2. CASE \E i : Rules!handleDelete(i) \/ Rules!handleQuickSimulate(i)
    <3>1. PICK i : Rules!handleDelete(i) \/ Rules!handleQuickSimulate(i)
      BY <2>2
    <3>2. Told /\ UNCHANGED <<db, query>>
      BY <1>2, <3>1 DEF Rules!handleDelete, Rules!handleQuickSimulate, RulesFields
    <3>3. Clicked
      BY <3>1 DEF Rules!handleDelete, Rules!handleQuickSimulate, Rules!Sent, Rules!Asked, Clicked
    <3> HIDE DEF Told
    <3> QED
      BY <1>1, <3>2, <3>3
  <2>3. CASE Rules!handleTestMatch
    BY <1>1, <1>2, <2>3 DEF Rules!handleTestMatch, Rules!Asked, Clicked
  <2>4. CASE Rules!SetSearchFilter \/ Rules!setActiveTab
    BY <1>1, <1>2, <2>4 DEF Rules!SetSearchFilter, Rules!setActiveTab, Clicked, RulesFields
  <2> HIDE DEF Told
  <2> QED
    BY <1>3, <2>1, <2>2, <2>3, <2>4 DEF Rules!Click
<1>4. CASE Rules!setOpen \/ Rules!Edit
  BY <1>1, <1>2, <1>4 DEF Rules!setOpen, Rules!Edit, Clicked, RulesFields
<1>5. CASE Rules!handleFinish
  <2>1. Told /\ UNCHANGED <<db, query>>
    BY <1>2, <1>5 DEF Rules!handleFinish, RulesFields
  <2>2. Clicked
    BY <1>5 DEF Rules!handleFinish, Rules!Sent, Clicked
  <2> HIDE DEF Told
  <2> QED
    BY <1>1, <2>1, <2>2
<1>6. CASE Rules!OpenDialog
  <2> DEFINE e == IF ui.dialog THEN query["versions"] ELSE Common!Opened(query["versions"])
  <2>1. /\ Told /\ UNCHANGED <<db, calls>>
        /\ DOMAIN query' = {"rules", "versions"}
        /\ query'["rules"] = query["rules"] /\ query'["versions"] = e
    BY <1>6 DEF Rules!OpenDialog, Rules!Opened, Common!Opened, Rules!Fetched, Common!Fetched,
                RulesInv, RulesFields
  <2>2. Entry(e, 0)
    BY EntryOpened DEF RulesInv, Entries
  <2> HIDE DEF e
  <2> QED
    BY <2>1, <2>2 DEF RulesInv, Counted, Entries
<1>7. CASE Rules!handleRollback
  <2>1. Told /\ UNCHANGED <<db, query>>
    BY <1>2, <1>7 DEF Rules!handleRollback, RulesFields
  <2>2. Clicked
    BY <1>7 DEF Rules!handleRollback, Rules!Sent, Clicked
  <2> HIDE DEF Told
  <2> QED
    BY <1>1, <2>1, <2>2
<1>8. CASE Rules!Elsewhere
  <2>1. \A rs : "seq" \in DOMAIN Rules!Stored(rs) /\ Rules!Stored(rs).seq = db.seq + 1
    BY DEF Rules!Stored
  <2>2. PICK rs : db' = Rules!Stored(rs)
    BY <1>8 DEF Rules!Elsewhere, Rules!Created
  <2>3. UNCHANGED <<query, calls, ui>>
    BY <1>8 DEF Rules!Elsewhere
  <2>4. Counted(ui.wrote)'
    BY <2>1, <2>2, <2>3 DEF RulesInv, Counted
  <2> QED
    BY <2>3, <2>4 DEF RulesInv
<1> HIDE DEF Told
<1> QED
  BY <1>3, <1>4, <1>5, <1>6, <1>7, <1>8

\* Every stage of a request of the proxy rules page keeps its invariant: the
\* engine, the answer and the error.
LEMMA RulesResponse ==
  ASSUME RulesInv, NEW i \in DOMAIN calls,
         Rules!Engine(i) \/ Rules!Return(i) \/ Rules!Reject(i)
  PROVE  RulesInv'
<1>1. CASE Rules!Engine(i)
  <2>1. \A rs : NotBefore(Rules!Stored(rs))
    BY DEF Rules!Stored, NotBefore, RulesInv, Counted
  <2>2. (\E new : NotBefore(new) /\ Rules!Handle(i, new)) \/ Rules!Refuse(i)
    BY <1>1, <2>1 DEF Rules!Engine, Rules!Created
  <2>3. Common!Refuse(i) \/ \E new : NotBefore(new) /\ Common!Handle(i, new)
    BY <2>2 DEF Rules!Handle, Rules!Refuse, Common!Handle, Common!Refuse
  <2>4. /\ CallsOK(calls') /\ UNCHANGED <<query, ui>> /\ Counted(ui.wrote)'
    BY <2>3, CallsEngine DEF RulesInv, Counted
  <2> QED
    BY <2>4 DEF RulesInv
<1>2. CASE Rules!Return(i)
  <2> DEFINE n == Rules!ShownFrom("rules", ui.wrote)
  <2>1. CallsOK(calls') /\ UNCHANGED db
    BY <1>2, CallsSettled DEF Rules!Return, Rules!Settled, Rest, RulesInv
  <2>2. CASE calls[i].op = "test"
    <3>1. DOMAIN ui' = RulesFields /\ ui'.wrote = ui.wrote /\ UNCHANGED query
      BY <1>2, <2>2 DEF Rules!Return, RulesInv, RulesFields
    <3> QED
      BY <2>1, <3>1 DEF RulesInv, Counted
  <2>3. CASE calls[i].op # "test"
    <3>1. DOMAIN ui' = RulesFields /\ ui'.wrote = n
      BY <1>2, <2>3 DEF Rules!Return, RulesInv, RulesFields
    <3>2. /\ DOMAIN query' = {"rules", "versions"}
          /\ query'["rules"] = Common!Fetched(query["rules"])
          /\ query'["versions"] \in {query["versions"], Common!Fetched(query["versions"]),
                                     [query["versions"] EXCEPT !.stale = TRUE]}
      BY <1>2, <2>3 DEF Rules!Return, Rules!Fetched, Common!Fetched, RulesInv
    <3>0. Entry(query["rules"], ui.wrote) /\ Entry(query["versions"], 0)
      BY DEF RulesInv, Entries
    <3>3. Entry(query'["rules"], n) /\ Entry(query'["versions"], 0)
      <4>1. Entry(Common!Fetched(query["rules"]), n)
        BY <3>0, EntryFetched DEF Rules!ShownFrom
      <4>2. /\ Entry(Common!Fetched(query["versions"]), 0)
            /\ Entry([query["versions"] EXCEPT !.stale = TRUE], 0)
        BY <3>0, EntryFetched, EntryMarked
      <4> QED
        BY <3>0, <3>2, <4>1, <4>2
    <3>4. Counted(n)
      BY DEF RulesInv, Counted, Rules!ShownFrom
    <3> HIDE DEF n
    <3> QED
      BY <2>1, <3>1, <3>2, <3>3, <3>4 DEF RulesInv, Counted, Entries
  <2> QED
    BY <2>2, <2>3
<1>3. CASE Rules!Reject(i)
  <2>1. CallsOK(calls') /\ UNCHANGED <<db, query, ui>>
    BY <1>3, CallsSettled DEF Rules!Reject, Rules!Settled, Rest, RulesInv
  <2> QED
    BY <2>1 DEF RulesInv, Counted
<1> QED
  BY <1>1, <1>2, <1>3

\* Every step of a fetch of the proxy rules page keeps its invariant.
LEMMA RulesFetch ==
  ASSUME RulesInv, NEW k \in {"rules", "versions"},
         \/ Rules!Answer(k, Rules!Read(k)) \/ Rules!Deliver(k) \/ Rules!Lose(k) \/ Rules!Refetch(k)
  PROVE  RulesInv'
<1> DEFINE v == Rules!Read(k)
<1>1. v.seq = db.seq /\ k \in DOMAIN query
  BY DEF Rules!Read, RulesInv
<1>2. Common!Refetch(k) \/ Common!Answer(k, v) \/ Common!Deliver(k) \/ Common!Lose(k)
  BY DEF Rules!Refetch, Common!Refetch, Rules!Answer, Common!Answer, Rules!Deliver,
         Common!Deliver, Rules!Lose, Common!Lose, Rules!Unfetched, Common!Unfetched,
         Rules!Fetched, Common!Fetched, Rules!Spend, Common!Spend
<1> HIDE DEF v
<1>3. Entries(query', "rules", ui.wrote) /\ UNCHANGED <<db, calls, ui>>
  BY <1>1, <1>2, EntriesFetch DEF RulesInv
<1>4. DOMAIN query' = DOMAIN query
  BY <1>2 DEF Common!Refetch, Common!Answer, Common!Deliver, Common!Lose
<1> QED
  BY <1>3, <1>4 DEF RulesInv, Counted

\* Every step of the proxy rules page keeps its invariant.
LEMMA RulesStep ==
  ASSUME RulesInv, Rules!Next
  PROVE  RulesInv'
BY RulesClick, RulesResponse, RulesFetch DEF Rules!Next, Rules!refresh

-----------------------------------------------------------------------------
(* Moving a rule on the proxy rules page. *)

\* The list of rules of an answer.
Numbering(list) ==
  \E n \in Nat : DOMAIN list = 1..n /\ Once([k \in DOMAIN list |-> list[k].id], n)

Adjacent(p, q) == q = p + 1 \/ q = p - 1

\* The ids that are sent for a click on the p-th rule of a list, to exchange it
\* with its neighbour.
IsMove(ids, m) ==
  \E n \in Nat : \E p, q \in 1..n :
    /\ Once(m.from, n) /\ Adjacent(p, q)
    /\ m.clicked = m.from[p] /\ m.over = m.from[q]
    /\ ids = Rules!Swapped(m.from, p, q)

\* Where the rule of position j ends up.
Place(p, q, j) == IF j = p THEN q ELSE IF j = q THEN p ELSE j

\* Positions that are exchanged still name each id once, and the rule that was in
\* one of them is in the other.
LEMMA Exchanged ==
  ASSUME NEW n \in Nat, NEW p \in 1..n, NEW q \in 1..n, NEW s, Once(s, n), Adjacent(p, q)
  PROVE  LET t == Rules!Swapped(s, p, q) IN
         /\ Once(t, n)
         /\ \A j \in 1..n : Place(p, q, j) \in 1..n /\ t[Place(p, q, j)] = s[j]
<1> DEFINE t == Rules!Swapped(s, p, q)
<1>0. t = [s EXCEPT ![p] = s[q], ![q] = s[p]]
  BY DEF Rules!Swapped
<1> HIDE DEF t
<1>1. DOMAIN t = 1..n
  BY <1>0 DEF Once
<1>2. p # q
  BY DEF Adjacent
<1>3. \A j \in 1..n : t[j] = IF j = p THEN s[q] ELSE IF j = q THEN s[p] ELSE s[j]
  BY <1>0, <1>2 DEF Once
<1>4. ASSUME NEW j \in 1..n PROVE Place(p, q, j) \in 1..n /\ t[Place(p, q, j)] = s[j]
  BY <1>2, <1>3 DEF Place
<1>5. ASSUME NEW j \in 1..n, NEW k \in 1..n, t[j] = t[k] PROVE j = k
  BY <1>2, <1>3, <1>5 DEF Once
<1> QED
  BY <1>1, <1>4, <1>5 DEF t, Once

\* Exchanging two neighbours turns exactly their order round.
LEMMA PlacesInOrder ==
  ASSUME NEW n \in Nat, NEW p \in 1..n, NEW q \in 1..n, Adjacent(p, q),
         NEW j \in 1..n, NEW k \in 1..n, j # k
  PROVE  /\ Place(p, q, j) # Place(p, q, k)
         /\ {j, k} = {p, q} => (Place(p, q, j) < Place(p, q, k) <=> ~(j < k))
         /\ {j, k} # {p, q} => (Place(p, q, j) < Place(p, q, k) <=> j < k)
<1>1. ({j, k} = {p, q}) <=> (j = p /\ k = q) \/ (j = q /\ k = p)
  BY Zenon
<1>2. n \in Int /\ p \in Int /\ q \in Int /\ j \in Int /\ k \in Int
  OBVIOUS
<1>3. Place(p, q, j) # Place(p, q, k)
  BY <1>2 DEF Place, Adjacent
<1> DEFINE swapped == (j = p /\ k = q) \/ (j = q /\ k = p)
<1>4. CASE swapped
  BY <1>1, <1>2, <1>3, <1>4 DEF Place, Adjacent
<1>5. CASE ~swapped
  BY <1>1, <1>2, <1>3, <1>5 DEF Place, Adjacent
<1> QED
  BY <1>3, <1>4, <1>5

\* The operators of the page about rows and lists are those of the rule store.
LEMMA SameRows ==
  /\ \A rs : Rules!Listed(rs) = Listed(rs)
  /\ \A rs, a, b : Rules!Precedes(rs, a, b) <=> Precedes(rs, a, b)
  /\ \A rs, ids : Rules!Reordered(rs, ids) = Reordered(rs, ids)
  /\ \A list, now : Rules!Restored(list, now) = Restored(list, now)
  /\ \A rs, id, order, body, now :
       Rules!Inserted(rs, id, order, body, now) = Inserted(rs, id, order, body, now)
<1>1. \A rs, a, b : Rules!Precedes(rs, a, b) <=> Precedes(rs, a, b)
  BY DEF Rules!Precedes, Precedes
<1>2. \A rs : Rules!Listed(rs) = Listed(rs)
  BY DEF Rules!Listed, Listed, Rules!Precedes, Precedes, Rules!Cardinality, Cardinality
<1>3. \A rs, ids : Rules!Reordered(rs, ids) = Reordered(rs, ids)
  BY DEF Rules!Reordered, Reordered, Rules!Largest, Largest
<1>4. \A list, now : Rules!Restored(list, now) = Restored(list, now)
  BY DEF Rules!Restored, Restored, Rules!Ids, Ids
<1>5. \A rs, id, order, body, now :
        Rules!Inserted(rs, id, order, body, now) = Inserted(rs, id, order, body, now)
  BY DEF Rules!Inserted, Inserted, Rules!NextOrder, NextOrder, Rules!Largest, Largest
<1> QED
  BY <1>1, <1>2, <1>3, <1>4, <1>5

IsRules(rs) == Table(rs, Nat, Int, {"b"})

\* UPDATE rules SET order_idx for ids that are each named once, in the table of
\* the page.
LEMMA ReorderedRules ==
  ASSUME NEW rs, IsRules(rs), NEW ids, NEW n \in Nat, Once(ids, n)
  PROVE  IsRules(Reordered(rs, ids)) /\ Placed(Reordered(rs, ids), rs, ids, n)
<1> DEFINE I == Nat
           T == Int
           B == {"b"}
<1>1. I \in SUBSET Nat /\ T \in SUBSET Int /\ Table(rs, I, T, B)
  BY DEF IsRules
<1> HIDE DEF I, T, B
<1>2. Table(Reordered(rs, ids), I, T, B) /\ Placed(Reordered(rs, ids), rs, ids, n)
  BY <1>1, ReorderedTable
<1> QED
  BY <1>2 DEF IsRules, I, T, B

\* The ids of a click, and the rules in the order they were shown, but for the one
\* that was clicked and its neighbour.
ShownIn(m) == {m.from[k] : k \in DOMAIN m.from}
Exchanges(rs, m, a, b) ==
  Rules!Precedes(rs, a, b)
    <=> ((Rules!At(m.from, a) < Rules!At(m.from, b)) # ({a, b} = {m.clicked, m.over}))

\* A move that reaches Aegis does to the rules in the table what was clicked, and
\* nothing else: whatever the table holds by then.
LEMMA MoveOfRows ==
  ASSUME NEW rs, IsRules(rs), NEW ids, NEW m, IsMove(ids, m),
         NEW new, new = Rules!Over(rs, Rules!Reordered(rs, ids)),
         NEW a, NEW b, {a, b} \subseteq ShownIn(m), {a, b} \subseteq DOMAIN new, a # b
  PROVE  Exchanges(new, m, a, b)
<1>0. PICK n \in Nat : \E p, q \in 1..n :
        /\ Once(m.from, n) /\ Adjacent(p, q)
        /\ m.clicked = m.from[p] /\ m.over = m.from[q]
        /\ ids = Rules!Swapped(m.from, p, q)
  BY DEF IsMove
<1>1. PICK p \in 1..n, q \in 1..n :
        /\ Once(m.from, n) /\ Adjacent(p, q)
        /\ m.clicked = m.from[p] /\ m.over = m.from[q]
        /\ ids = Rules!Swapped(m.from, p, q)
  BY <1>0
<1> DEFINE s == m.from
           u == m.clicked
           v == m.over
<1>s. /\ Once(s, n) /\ Adjacent(p, q) /\ u = s[p] /\ v = s[q]
      /\ ids = Rules!Swapped(s, p, q)
  BY <1>1
<1> HIDE DEF s, u, v
<1>2. DOMAIN s = 1..n /\ \A j, k \in 1..n : s[j] = s[k] => j = k
  BY <1>s DEF Once
<1>3. PICK j \in 1..n, k \in 1..n : a = s[j] /\ b = s[k] /\ j # k
  BY <1>2 DEF s, ShownIn
<1>4. /\ Once(ids, n)
      /\ \A x \in 1..n : Place(p, q, x) \in 1..n /\ ids[Place(p, q, x)] = s[x]
  <2>1. n \in Nat /\ p \in 1..n /\ q \in 1..n
    OBVIOUS
  <2> QED
    BY <1>s, <2>1, Exchanged
<1> DEFINE put == Reordered(rs, ids)
<1>5. /\ DOMAIN put = DOMAIN rs \cap {ids[x] : x \in 1..n}
      /\ \A x \in 1..n : ids[x] \in DOMAIN rs => put[ids[x]].order = x - 1
  <2>1. Placed(put, rs, ids, n)
    BY <1>4, ReorderedRules
  <2> HIDE DEF put
  <2> QED
    BY <2>1 DEF Placed
<1> HIDE DEF put
<1>6. new = [i \in DOMAIN rs \cup DOMAIN put |-> IF i \in DOMAIN put THEN put[i] ELSE rs[i]]
  BY SameRows DEF Rules!Over, put
<1>7. ASSUME NEW x \in 1..n, s[x] \in DOMAIN new
      PROVE  new[s[x]].order = Place(p, q, x) - 1
  <2>1. s[x] \in DOMAIN rs /\ s[x] = ids[Place(p, q, x)] /\ Place(p, q, x) \in 1..n
    BY <1>4, <1>5, <1>6, <1>7
  <2>2. s[x] \in DOMAIN put /\ put[s[x]].order = Place(p, q, x) - 1
    BY <1>5, <2>1
  <2> QED
    BY <1>6, <2>2
<1>8. new[a].order = Place(p, q, j) - 1 /\ new[b].order = Place(p, q, k) - 1
  BY <1>3, <1>7
<1>9. Place(p, q, j) \in Int /\ Place(p, q, k) \in Int /\ Place(p, q, j) # Place(p, q, k)
  BY <1>3, <1>4, <1>s, PlacesInOrder
<1>10. Precedes(new, a, b) <=> Place(p, q, j) < Place(p, q, k)
  BY <1>8, <1>9 DEF Precedes
<1>11. Rules!At(s, a) = j /\ Rules!At(s, b) = k
  BY <1>2, <1>3 DEF Rules!At
<1>12. ({a, b} = {u, v}) <=> ({j, k} = {p, q})
  <2>1. a = s[j] /\ b = s[k] /\ u = s[p] /\ v = s[q]
    BY <1>s, <1>3
  <2>2. (a = s[p] <=> j = p) /\ (a = s[q] <=> j = q) /\ (b = s[p] <=> k = p) /\ (b = s[q] <=> k = q)
    BY <1>2, <1>3
  <2> QED
    BY <2>1, <2>2, Zenon
<1>13. /\ {j, k} = {p, q} => (Place(p, q, j) < Place(p, q, k) <=> ~(j < k))
       /\ {j, k} # {p, q} => (Place(p, q, j) < Place(p, q, k) <=> j < k)
  <2>1. n \in Nat /\ p \in 1..n /\ q \in 1..n /\ j \in 1..n /\ k \in 1..n
    OBVIOUS
  <2>2. Adjacent(p, q)
    BY <1>s
  <2>3. j # k
    BY <1>3
  <2>4. Place(p, q, j) # Place(p, q, k)
    BY <2>1, <2>2, <2>3, PlacesInOrder
  <2>5. {j, k} = {p, q} => (Place(p, q, j) < Place(p, q, k) <=> ~(j < k))
    BY <2>1, <2>2, <2>3, PlacesInOrder
  <2>6. {j, k} # {p, q} => (Place(p, q, j) < Place(p, q, k) <=> j < k)
    BY <2>1, <2>2, <2>3, PlacesInOrder
  <2> QED
    BY <2>5, <2>6
<1>14. Rules!Precedes(new, a, b) <=> Precedes(new, a, b)
  BY SameRows
<1>15. (Rules!At(s, a) < Rules!At(s, b)) <=> (j < k)
  BY <1>11
<1> QED
  BY <1>10, <1>12, <1>13, <1>14, <1>15 DEF s, u, v, Exchanges

-----------------------------------------------------------------------------
\* What a call that is in flight was sent for.
KnownCall(c) ==
  /\ c.op = "rollback" => c.arg \in DOMAIN db.versions
  /\ c.op = "create" => c.arg \subseteq Nat
  /\ c.op = "reorder" => ui.moved # {} /\ \A m \in ui.moved : IsMove(c.arg, m)

\* The rules page: the rules and their versions are lists of rules, a list of rules
\* that is shown has each once, a version that is shown is kept, and the ids that
\* were sent for a move are those of the click.
MovesInv ==
  /\ IsRules(db.rows)
  /\ \A v \in DOMAIN db.versions : db.versions[v] \in Lists(Nat, {"b"})
  /\ DOMAIN ui.wizard = {"open", "step", "id"} /\ ui.wizard.id \subseteq Nat
  /\ \A d \in Contents(query["rules"]) : Numbering(d.list)
  /\ \A d \in Contents(query["versions"]) : d.list \subseteq DOMAIN db.versions
  /\ \A c \in InFlight(calls) : KnownCall(c)

\* The lists that are made of the rules, and the tables that are made of the lists.
LEMMA RulesListed ==
  ASSUME NEW rs, IsRules(rs)
  PROVE  Listed(rs) \in Lists(Nat, {"b"}) /\ Numbering(Listed(rs))
<1> DEFINE I == Nat
           T == Int
           B == {"b"}
<1>1. I \in SUBSET Nat /\ T \in SUBSET Int /\ Table(rs, I, T, B)
  BY DEF IsRules
<1> HIDE DEF I, T, B
<1>2. Listed(rs) \in Lists(I, B)
  BY <1>1, ListedTable
<1>3. \A j, k \in DOMAIN Listed(rs) : Listed(rs)[j].id = Listed(rs)[k].id => j = k
  BY <1>1, <1>2, ListedTable
<1>4. DOMAIN Listed(rs) = 1..Cardinality(DOMAIN rs) /\ Cardinality(DOMAIN rs) \in Nat
  BY <1>1, ListedRank, Ranks
<1> DEFINE list == Listed(rs)
           n == Cardinality(DOMAIN rs)
<1> HIDE DEF list, n
<1>5. n \in Nat /\ DOMAIN list = 1..n /\ \A j, k \in 1..n : list[j].id = list[k].id => j = k
  BY <1>3, <1>4 DEF list, n
<1>6. Numbering(list)
  BY <1>5 DEF Numbering, Once
<1> QED
  BY <1>2, <1>6 DEF list, I, B

\* A rollback to a list of rules makes a table of rules.
LEMMA RestoredRules ==
  ASSUME NEW list \in Lists(Nat, {"b"}), NEW now \in Int
  PROVE  IsRules(Restored(list, now))
<1> DEFINE I == Nat
           T == Int
           B == {"b"}
<1>1. I \in SUBSET Nat /\ T \in SUBSET Int /\ list \in Lists(I, B) /\ now \in T
  OBVIOUS
<1> HIDE DEF I, T, B
<1>2. Table(Restored(list, now), I, T, B)
  BY <1>1, RestoredTable
<1> QED
  BY <1>2 DEF IsRules, I, T, B

\* A rule that is created adds to a table of rules.
LEMMA CreatedRules ==
  ASSUME NEW rs, IsRules(rs), NEW id \in Nat, NEW now \in Int
  PROVE  IsRules(Rules!Over(rs, Inserted(rs, id, 0, "b", now)))
<1> DEFINE I == Nat
           T == Int
           B == {"b"}
           put == Inserted(rs, id, 0, "b", now)
           f == Rules!Over(rs, put)
<1>1. I \in SUBSET Nat /\ T \in SUBSET Int /\ Table(rs, I, T, B) /\ id \in I /\ now \in T
      /\ 0 \in Int /\ "b" \in B
  BY DEF IsRules
<1> HIDE DEF I, T, B
<1>2. Table(put, I, T, B)
  BY <1>1, InsertedTable
<1> HIDE DEF put
<1>3. \A i \in DOMAIN f : \/ i \in DOMAIN rs /\ f[i] = rs[i]
                          \/ i \in DOMAIN put /\ f[i] = put[i]
  BY DEF Rules!Over
<1> HIDE DEF f
<1>4. Table(f, I, T, B)
  BY <1>1, <1>2, <1>3, MergedTable
<1> QED
  BY <1>4 DEF IsRules, I, T, B, f, put

\* A move leaves a table of rules.
LEMMA MovedRules ==
  ASSUME NEW rs, IsRules(rs), NEW ids, NEW m, IsMove(ids, m)
  PROVE  IsRules(Rules!Over(rs, Reordered(rs, ids)))
<1> DEFINE I == Nat
           T == Int
           B == {"b"}
           put == Reordered(rs, ids)
           f == Rules!Over(rs, put)
<1>0. PICK n \in Nat : \E p, q \in 1..n :
        Once(m.from, n) /\ Adjacent(p, q) /\ ids = Rules!Swapped(m.from, p, q)
  BY DEF IsMove
<1>1. PICK p \in 1..n, q \in 1..n :
        Once(m.from, n) /\ Adjacent(p, q) /\ ids = Rules!Swapped(m.from, p, q)
  BY <1>0
<1>2. n \in Nat /\ Once(ids, n)
  <2>1. n \in Nat /\ p \in 1..n /\ q \in 1..n
    OBVIOUS
  <2> QED
    BY <1>1, <2>1, Exchanged
<1>3. IsRules(put)
  BY <1>2, ReorderedRules
<1> HIDE DEF put
<1>4. I \in SUBSET Nat /\ T \in SUBSET Int /\ Table(rs, I, T, B) /\ Table(put, I, T, B)
  BY <1>3 DEF IsRules
<1> HIDE DEF I, T, B
<1>5. \A i \in DOMAIN f : \/ i \in DOMAIN rs /\ f[i] = rs[i]
                          \/ i \in DOMAIN put /\ f[i] = put[i]
  BY DEF Rules!Over
<1> HIDE DEF f
<1>6. Table(f, I, T, B)
  BY <1>4, <1>5, MergedTable
<1> QED
  BY <1>6 DEF IsRules, I, T, B, f, put

\* A rule that is deleted leaves a table of rules.
LEMMA FewerRules ==
  ASSUME NEW rs, IsRules(rs), NEW id
  PROVE  IsRules(Rules!Without(rs, id))
<1> DEFINE f == Rules!Without(rs, id)
<1>1. DOMAIN f \in SUBSET DOMAIN rs /\ \A i \in DOMAIN f : f[i] = rs[i]
  BY DEF Rules!Without
<1> HIDE DEF f
<1>2. IsFiniteSet(DOMAIN f)
  BY <1>1, FS_Subset DEF IsRules, Table
<1> QED
  BY <1>1, <1>2 DEF IsRules, Table, f

\* What Aegis does with a change keeps the versions, and adds one.
LEMMA StoredRules ==
  ASSUME MovesInv, NEW rs, IsRules(rs), db' = Rules!Stored(rs)
  PROVE  /\ IsRules(db'.rows) /\ DOMAIN db.versions \subseteq DOMAIN db'.versions
         /\ \A v \in DOMAIN db'.versions : db'.versions[v] \in Lists(Nat, {"b"})
<1>1. /\ db'.rows = rs
      /\ db'.versions = [v \in DOMAIN db.versions \cup {db.seq} |->
                          IF v = db.seq THEN Listed(rs) ELSE db.versions[v]]
  BY SameRows DEF Rules!Stored
<1>2. Listed(rs) \in Lists(Nat, {"b"})
  BY RulesListed
<1> QED
  BY <1>1, <1>2 DEF MovesInv

\* A step that keeps what is shown and what was sent.
LEMMA MovesKept ==
  ASSUME MovesInv,
         IsRules(db'.rows), DOMAIN db.versions \subseteq DOMAIN db'.versions,
         \A v \in DOMAIN db'.versions : db'.versions[v] \in Lists(Nat, {"b"}),
         DOMAIN ui'.wizard = {"open", "step", "id"}, ui'.wizard.id \subseteq Nat,
         Contents(query'["rules"]) \subseteq Contents(query["rules"]),
         Contents(query'["versions"]) \subseteq Contents(query["versions"]),
         ui'.moved = ui.moved,
         \A c \in InFlight(calls') :
           KnownCall(c) \/ \E b \in InFlight(calls) : b.op = c.op /\ b.arg = c.arg
  PROVE  MovesInv'
<1>1. ASSUME NEW c \in InFlight(calls') PROVE KnownCall(c)'
  <2>1. PICK b : KnownCall(b) /\ b.op = c.op /\ b.arg = c.arg
    BY <1>1 DEF MovesInv
  <2> QED
    BY <2>1 DEF KnownCall
<1> QED
  BY <1>1 DEF MovesInv

-----------------------------------------------------------------------------
\* The proxy rules page starts with a table of rules and nothing that was sent.
LEMMA MovesStart ==
  ASSUME Rules!Init
  PROVE  MovesInv
<1>1. PICK n \in PageRules :
        db = [rows |-> Rules!Restored([k \in 1..n |-> [id |-> k, order |-> 0, body |-> "b"]], 0),
              versions |-> [v \in {} |-> <<>>], seq |-> 1]
  BY DEF Rules!Init
<1>2. n \in Nat
  BY PageRulesAssumption
<1> DEFINE list == [k \in 1..n |-> [id |-> k, order |-> 0, body |-> "b"]]
           none == [v \in {} |-> <<>>]
<1>3. list \in Lists(Nat, {"b"})
  <2> DEFINE S == [id : Nat, order : Int, body : {"b"}]
  <2>1. list \in [1..n -> S]
    BY <1>2
  <2> HIDE DEF list, S
  <2>2. list \in Seq(S)
    BY <1>2, <2>1, SeqDef
  <2> QED
    BY <2>2 DEF Lists, S
<1>4. DOMAIN none = {}
  OBVIOUS
<1> HIDE DEF list, none
<1>5. db.rows = Rules!Restored(list, 0) /\ db.versions = none
  BY <1>1 DEF list, none
<1>6. 0 \in Int
  OBVIOUS
<1>7. IsRules(db.rows)
  BY <1>3, <1>5, <1>6, RestoredRules, SameRows
<1>8. /\ Contents(query["rules"]) = {} /\ Contents(query["versions"]) = {}
  BY DEF Rules!Init, Rules!Fetched, Rules!Unfetched, Contents
<1>9. /\ calls = <<>> /\ DOMAIN ui.wizard = {"open", "step", "id"} /\ ui.wizard.id = {}
  BY DEF Rules!Init, Rules!Blank
<1>10. InFlight(calls) = {}
  BY <1>9, CallsStart
<1> QED
  BY <1>4, <1>5, <1>7, <1>8, <1>9, <1>10 DEF MovesInv

\* A click on a rule that is shown next to another.
LEMMA MovesMove ==
  ASSUME RulesInv, MovesInv, NEW p \in DOMAIN Rules!filteredRules, NEW q, Adjacent(p, q),
         Rules!moveRule(p, q)
  PROVE  MovesInv'
<1> DEFINE list == Rules!apiRules
           ids == [k \in DOMAIN list |-> list[k].id]
           m == [clicked |-> list[p].id, over |-> list[q].id, from |-> ids]
<1>1. /\ Rules!View = "rules" /\ ui.filter = {} /\ q \in DOMAIN Rules!filteredRules
      /\ UNCHANGED <<db, query>> /\ ~Rules!isPending("reorder")
  BY DEF Rules!moveRule
<1>2. Rules!filteredRules = list
  BY <1>1 DEF Rules!filteredRules
<1>3. PICK n \in Nat : DOMAIN list = 1..n /\ Once(ids, n)
  <2>1. query["rules"].data # {}
    BY <1>1 DEF Rules!View, Rules!apiRules
  <2>2. \E d \in query["rules"].data : list = d.list
    BY <2>1 DEF Rules!apiRules
  <2>3. Numbering(list)
    BY <2>2 DEF MovesInv, Contents
  <2> QED
    BY <2>3 DEF Numbering
<1>4. p \in 1..n /\ q \in 1..n
  BY <1>1, <1>2, <1>3
<1>5. m.from = ids /\ m.clicked = ids[p] /\ m.over = ids[q]
  BY <1>3, <1>4
<1>6. /\ calls' = Append(calls, [op |-> "reorder", arg |-> Rules!Swapped(ids, p, q),
                                 stage |-> "sent"])
      /\ ui' = [ui EXCEPT !.moved = {m}]
  BY <1>2 DEF Rules!moveRule, Rules!Sent
<1> HIDE DEF list, ids, m
<1>7. IsMove(Rules!Swapped(ids, p, q), m)
  BY <1>3, <1>4, <1>5 DEF IsMove
<1>8. PICK s, e : IsMove(s, e) /\ s = Rules!Swapped(ids, p, q) /\ e = m
  BY <1>7
<1> DEFINE c == [op |-> "reorder", arg |-> s, stage |-> "sent"]
<1>9. CallsOK(calls) /\ DOMAIN ui = RulesFields
  BY DEF RulesInv
<1>10. InFlight(calls') = InFlight(calls) \cup {c}
  BY <1>6, <1>8, <1>9, CallsSent
<1>11. ui'.moved = {e} /\ ui'.wizard = ui.wizard
  BY <1>6, <1>8, <1>9 DEF RulesFields
<1>12. \A b \in InFlight(calls) : b.op # "reorder"
  BY <1>1 DEF Rules!isPending, InFlight
<1>13. ASSUME NEW b \in InFlight(calls) PROVE KnownCall(b)'
  BY <1>1, <1>12, <1>13 DEF KnownCall, MovesInv
<1>14. KnownCall(c)'
  BY <1>8, <1>11 DEF KnownCall
<1> HIDE DEF c
<1>15. \A b \in InFlight(calls') : KnownCall(b)'
  BY <1>10, <1>13, <1>14
<1> QED
  BY <1>1, <1>11, <1>15 DEF MovesInv

\* A click that asks for something else.
LEMMA MovesAsked ==
  ASSUME RulesInv, MovesInv, NEW op, NEW arg, NEW stage,
         calls' = Append(calls, [op |-> op, arg |-> arg, stage |-> stage]),
         KnownCall([op |-> op, arg |-> arg, stage |-> stage]),
         ui'.wizard = ui.wizard, ui'.moved = ui.moved, UNCHANGED <<db, query>>
  PROVE  MovesInv'
<1>1. InFlight(calls') = InFlight(calls) \cup {[op |-> op, arg |-> arg, stage |-> stage]}
  BY CallsSent DEF RulesInv
<1>2. \A c \in InFlight(calls') :
        KnownCall(c) \/ \E b \in InFlight(calls) : b.op = c.op /\ b.arg = c.arg
  BY <1>1
<1> QED
  BY <1>2, MovesKept DEF MovesInv

\* What the operator or another one does keeps what the moves rest on.
LEMMA MovesClick ==
  ASSUME RulesInv, MovesInv,
         \/ Rules!Click \/ Rules!setOpen \/ Rules!Edit \/ Rules!handleFinish \/ Rules!OpenDialog
         \/ Rules!handleRollback \/ Rules!Elsewhere
  PROVE  MovesInv'
<1>0. DOMAIN ui = RulesFields
  BY DEF RulesInv
<1>1. ASSUME DOMAIN ui'.wizard = {"open", "step", "id"}, ui'.wizard.id \subseteq Nat,
             ui'.moved = ui.moved, UNCHANGED <<db, query, calls>>
      PROVE  MovesInv'
  <2>1. \A c \in InFlight(calls') :
          KnownCall(c) \/ \E b \in InFlight(calls) : b.op = c.op /\ b.arg = c.arg
    BY <1>1
  <2> QED
    BY <1>1, <2>1, MovesKept DEF MovesInv
<1>2. CASE Rules!Click
  <2>1. CASE \E i \in DOMAIN Rules!filteredRules : Rules!moveRule(i, i - 1) \/ Rules!moveRule(i, i + 1)
    BY <2>1, MovesMove DEF Adjacent
  <2>2. CASE \E i : Rules!handleDelete(i)
    <3>1. PICK i : Rules!handleDelete(i)
      BY <2>2
    <3>2. /\ calls' = Append(calls, [op |-> "delete", arg |-> Rules!filteredRules[i].id,
                                     stage |-> "sent"])
          /\ UNCHANGED <<ui, db, query>>
      BY <3>1 DEF Rules!handleDelete, Rules!Sent
    <3>3. KnownCall([op |-> "delete", arg |-> Rules!filteredRules[i].id, stage |-> "sent"])
      BY DEF KnownCall
    <3> QED
      BY <3>2, <3>3, MovesAsked
  <2>3. CASE Rules!handleTestMatch \/ \E i : Rules!handleQuickSimulate(i)
    <3>1. PICK S : calls' = Append(calls, [op |-> "test", arg |-> S, stage |-> "asked"])
      BY <2>3 DEF Rules!handleTestMatch, Rules!handleQuickSimulate, Rules!Asked
    <3>2. ui'.wizard = ui.wizard /\ ui'.moved = ui.moved /\ UNCHANGED <<db, query>>
      BY <1>0, <2>3 DEF Rules!handleTestMatch, Rules!handleQuickSimulate, RulesFields
    <3>3. KnownCall([op |-> "test", arg |-> S, stage |-> "asked"])
      BY DEF KnownCall
    <3> QED
      BY <3>1, <3>2, <3>3, MovesAsked
  <2>4. CASE Rules!SetSearchFilter \/ Rules!setActiveTab
    <3>1. ui'.wizard = ui.wizard /\ ui'.moved = ui.moved /\ UNCHANGED <<db, query, calls>>
      BY <1>0, <2>4 DEF Rules!SetSearchFilter, Rules!setActiveTab, RulesFields
    <3> QED
      BY <1>1, <3>1 DEF MovesInv
  <2> QED
    BY <1>2, <2>1, <2>2, <2>3, <2>4 DEF Rules!Click
<1>3. CASE Rules!setOpen \/ Rules!Edit
  <2>1. DOMAIN ui.wizard = {"open", "step", "id"} /\ ui.wizard.id \subseteq Nat
    BY DEF MovesInv
  <2>2. /\ ui'.moved = ui.moved /\ UNCHANGED <<db, query, calls>>
        /\ DOMAIN ui'.wizard = {"open", "step", "id"} /\ ui'.wizard.id \subseteq Nat
    <3>1. CASE Rules!setOpen
      BY <1>0, <2>1, <3>1 DEF Rules!setOpen, RulesFields
    <3>2. CASE Rules!Edit
      BY <1>0, <2>1, <3>2, PageRulesAssumption DEF Rules!Edit, RulesFields
    <3> QED
      BY <1>3, <3>1, <3>2
  <2> QED
    BY <1>1, <2>2
<1>4. CASE Rules!handleFinish
  <2>1. UNCHANGED <<db, query>>
    BY <1>4 DEF Rules!handleFinish
  <2>2. CASE ui.wizard.id = {}
    <3>1. UNCHANGED calls /\ ui' = [ui EXCEPT !.wizard.step = 1]
      BY <1>4, <2>2 DEF Rules!handleFinish
    <3>2. /\ ui'.moved = ui.moved
          /\ DOMAIN ui'.wizard = {"open", "step", "id"} /\ ui'.wizard.id \subseteq Nat
      BY <1>0, <3>1 DEF MovesInv, RulesFields
    <3> QED
      BY <1>1, <2>1, <3>1, <3>2
  <2>3. CASE ui.wizard.id # {}
    <3>1. /\ calls' = Append(calls, [op |-> "create", arg |-> ui.wizard.id, stage |-> "sent"])
          /\ UNCHANGED ui
      BY <1>4, <2>3 DEF Rules!handleFinish, Rules!Sent
    <3>2. KnownCall([op |-> "create", arg |-> ui.wizard.id, stage |-> "sent"])
      BY DEF KnownCall, MovesInv
    <3> QED
      BY <2>1, <3>1, <3>2, MovesAsked
  <2> QED
    BY <2>2, <2>3
<1>5. CASE Rules!OpenDialog
  <2> DEFINE e == IF ui.dialog THEN query["versions"] ELSE Common!Opened(query["versions"])
  <2>1. /\ UNCHANGED <<db, calls>> /\ ui'.wizard = ui.wizard /\ ui'.moved = ui.moved
        /\ query'["rules"] = query["rules"] /\ query'["versions"] = e
    BY <1>0, <1>5 DEF Rules!OpenDialog, Rules!Opened, Common!Opened, Rules!Fetched, Common!Fetched,
                RulesInv, RulesFields
  <2>2. Contents(e) \subseteq Contents(query["versions"])
    BY ContentsFetched
  <2> HIDE DEF e
  <2>3. \A c \in InFlight(calls') :
          KnownCall(c) \/ \E b \in InFlight(calls) : b.op = c.op /\ b.arg = c.arg
    BY <2>1
  <2>4. /\ Contents(query'["rules"]) \subseteq Contents(query["rules"])
        /\ Contents(query'["versions"]) \subseteq Contents(query["versions"])
    BY <2>1, <2>2
  <2> QED
    BY <2>1, <2>3, <2>4, MovesKept DEF MovesInv
<1>6. CASE Rules!handleRollback
  <2>1. PICK v : \E d \in query["versions"].data :
          /\ v \in d.list /\ ui' = [ui EXCEPT !.selected = {v}]
          /\ calls' = Append(calls, [op |-> "rollback", arg |-> v, stage |-> "sent"])
    BY <1>6 DEF Rules!handleRollback, Rules!Sent
  <2>2. KnownCall([op |-> "rollback", arg |-> v, stage |-> "sent"])
    BY <2>1 DEF KnownCall, MovesInv, Contents
  <2>3. ui'.wizard = ui.wizard /\ ui'.moved = ui.moved /\ UNCHANGED <<db, query>>
    BY <1>0, <1>6, <2>1 DEF RulesFields, Rules!handleRollback
  <2> QED
    BY <2>1, <2>2, <2>3, MovesAsked
<1>7. CASE Rules!Elsewhere
  <2>1. db.seq \in Int /\ IsRules(db.rows)
    BY DEF RulesInv, Counted, MovesInv
  <2>2. \A id \in Nat : IsRules(Rules!Over(db.rows, Rules!Inserted(db.rows, id, 0, "b", db.seq)))
    BY <2>1, CreatedRules, SameRows
  <2>3. PICK rs : IsRules(rs) /\ db' = Rules!Stored(rs)
    BY <1>7, <2>1, <2>2, FewerRules, PageRulesAssumption DEF Rules!Elsewhere, Rules!Created
  <2>4. UNCHANGED <<query, calls, ui>>
    BY <1>7 DEF Rules!Elsewhere
  <2>5. \A c \in InFlight(calls') :
          KnownCall(c) \/ \E b \in InFlight(calls) : b.op = c.op /\ b.arg = c.arg
    BY <2>4
  <2>6. /\ IsRules(db'.rows) /\ DOMAIN db.versions \subseteq DOMAIN db'.versions
        /\ \A v \in DOMAIN db'.versions : db'.versions[v] \in Lists(Nat, {"b"})
    BY <2>3, StoredRules
  <2> QED
    BY <2>4, <2>5, <2>6, MovesKept DEF MovesInv
<1> QED
  BY <1>2, <1>3, <1>4, <1>5, <1>6, <1>7

-----------------------------------------------------------------------------
\* Every stage of a request keeps what the moves rest on: the engine, the
\* answer and the error.
LEMMA MovesResponse ==
  ASSUME RulesInv, MovesInv, NEW i \in DOMAIN calls,
         Rules!Engine(i) \/ Rules!Return(i) \/ Rules!Reject(i)
  PROVE  MovesInv'
<1>0. CallsOK(calls) /\ DOMAIN ui = RulesFields
  BY DEF RulesInv
<1>1. CASE Rules!Engine(i)
  <2>1. db.seq \in Int /\ db.seq \in Nat /\ IsRules(db.rows) /\ KnownCall(calls[i])
    BY DEF RulesInv, Counted, MovesInv, InFlight
  <2>2. Rules!Refuse(i) \/ \E rs : IsRules(rs) /\ Rules!Handle(i, Rules!Stored(rs))
    <3>1. CASE /\ calls[i].op = "reorder"
               /\ Rules!Handle(i, Rules!Stored(Rules!Over(db.rows, Rules!Reordered(db.rows, calls[i].arg))))
      <4>1. PICK m : IsMove(calls[i].arg, m)
        BY <2>1, <3>1 DEF KnownCall
      <4>2. IsRules(Rules!Over(db.rows, Rules!Reordered(db.rows, calls[i].arg)))
        BY <2>1, <4>1, MovedRules, SameRows
      <4> QED
        BY <3>1, <4>2
    <3>2. CASE \E id \in calls[i].arg : calls[i].op = "create" /\ Rules!Handle(i, Rules!Created(id))
      <4>1. PICK id \in Nat : Rules!Handle(i, Rules!Created(id))
        BY <2>1, <3>2 DEF KnownCall
      <4>2. IsRules(Rules!Over(db.rows, Rules!Inserted(db.rows, id, 0, "b", db.seq)))
        BY <2>1, CreatedRules, SameRows
      <4> QED
        BY <4>1, <4>2 DEF Rules!Created
    <3>3. CASE /\ calls[i].op = "rollback"
               /\ Rules!Handle(i, Rules!Stored(Rules!Restored(db.versions[calls[i].arg], db.seq)))
      <4>1. db.versions[calls[i].arg] \in Lists(Nat, {"b"})
        BY <2>1, <3>3 DEF KnownCall, MovesInv
      <4>2. IsRules(Rules!Restored(db.versions[calls[i].arg], db.seq))
        BY <2>1, <4>1, RestoredRules, SameRows
      <4> QED
        BY <3>3, <4>2
    <3>4. CASE Rules!Handle(i, Rules!Stored(Rules!Without(db.rows, calls[i].arg)))
      BY <2>1, <3>4, FewerRules
    <3> QED
      BY <1>1, <3>1, <3>2, <3>3, <3>4 DEF Rules!Engine
  <2>3. \/ Common!Refuse(i)
        \/ \E rs : IsRules(rs) /\ Common!Handle(i, Rules!Stored(rs))
    BY <2>2 DEF Rules!Handle, Rules!Refuse, Common!Handle, Common!Refuse
  <2>4. \E rs : /\ IsRules(rs) /\ db' \in {db, Rules!Stored(rs)}
                /\ Continued(calls, calls') /\ UNCHANGED <<query, ui>>
    <3>1. CASE Common!Refuse(i)
      BY <1>0, <2>1, <3>1, CallsHandled DEF Common!Refuse
    <3>2. CASE \E rs : IsRules(rs) /\ Common!Handle(i, Rules!Stored(rs))
      <4>1. PICK rs : IsRules(rs) /\ Common!Handle(i, Rules!Stored(rs))
        BY <3>2
      <4>2. PICK new : new = Rules!Stored(rs)
        OBVIOUS
      <4>3. Common!Handle(i, new)
        BY <4>1, <4>2
      <4>4. db' \in {db, new} /\ Continued(calls, calls') /\ UNCHANGED <<query, ui>>
        BY <1>0, <4>3, CallsHandled
      <4> QED
        BY <4>1, <4>2, <4>4
    <3> QED
      BY <2>3, <3>1, <3>2
  <2>5. /\ IsRules(db'.rows) /\ DOMAIN db.versions \subseteq DOMAIN db'.versions
        /\ \A v \in DOMAIN db'.versions : db'.versions[v] \in Lists(Nat, {"b"})
    <3>1. CASE UNCHANGED db
      BY <3>1 DEF MovesInv
    <3>2. CASE \E rs : IsRules(rs) /\ db' = Rules!Stored(rs)
      BY <3>2, StoredRules
    <3> QED
      BY <2>4, <3>1, <3>2
  <2>6. \A c \in InFlight(calls') :
          KnownCall(c) \/ \E b \in InFlight(calls) : b.op = c.op /\ b.arg = c.arg
    BY <2>4 DEF Continued
  <2> QED
    BY <2>4, <2>5, <2>6, MovesKept DEF MovesInv
<1>2. ASSUME UNCHANGED db, calls' = Rest(calls, i), ui'.moved = ui.moved,
             DOMAIN ui'.wizard = {"open", "step", "id"}, ui'.wizard.id \subseteq Nat,
             Contents(query'["rules"]) \subseteq Contents(query["rules"]),
             Contents(query'["versions"]) \subseteq Contents(query["versions"])
      PROVE  MovesInv'
  <2>1. InFlight(calls') \subseteq InFlight(calls)
    BY <1>0, <1>2, CallsSettled
  <2>2. \A c \in InFlight(calls') :
          KnownCall(c) \/ \E b \in InFlight(calls) : b.op = c.op /\ b.arg = c.arg
    BY <2>1
  <2> QED
    BY <1>2, <2>2, MovesKept DEF MovesInv
<1>3. CASE Rules!Return(i)
  <2>1. calls' = Rest(calls, i) /\ UNCHANGED db
    BY <1>3 DEF Rules!Return, Rules!Settled, Rest
  <2>2. /\ ui'.moved = ui.moved
        /\ ui'.wizard = ui.wizard \/ ui'.wizard = Rules!Blank
    BY <1>0, <1>3 DEF Rules!Return, RulesFields
  <2>3. DOMAIN ui'.wizard = {"open", "step", "id"} /\ ui'.wizard.id \subseteq Nat
    BY <2>2 DEF Rules!Blank, MovesInv
  <2>4. DOMAIN query = {"rules", "versions"} /\ Entries(query, "rules", ui.wrote)
    BY DEF RulesInv
  <2>5. /\ query'["rules"] \in {query["rules"], Common!Fetched(query["rules"])}
        /\ query'["versions"] \in {query["versions"], Common!Fetched(query["versions"]),
                                   [query["versions"] EXCEPT !.stale = TRUE]}
    <3>1. CASE calls[i].op = "test"
      BY <1>3, <3>1 DEF Rules!Return
    <3>2. CASE calls[i].op # "test"
      BY <1>3, <2>4, <3>2 DEF Rules!Return, Rules!Fetched, Common!Fetched
    <3> QED
      BY <3>1, <3>2
  <2>6. Contents([query["versions"] EXCEPT !.stale = TRUE]) \subseteq Contents(query["versions"])
    BY <2>4, ContentsMarked DEF Entries
  <2>7. /\ Contents(query'["rules"]) \subseteq Contents(query["rules"])
        /\ Contents(query'["versions"]) \subseteq Contents(query["versions"])
    BY <2>5, <2>6, ContentsFetched
  <2> QED
    BY <1>2, <2>1, <2>2, <2>3, <2>7
<1>4. CASE Rules!Reject(i)
  <2>1. calls' = Rest(calls, i) /\ UNCHANGED <<db, query, ui>>
    BY <1>4 DEF Rules!Reject, Rules!Settled, Rest
  <2> QED
    BY <1>2, <2>1 DEF MovesInv
<1> QED
  BY <1>1, <1>3, <1>4

\* Every step of a fetch keeps what the moves rest on: a list that is shown has
\* each rule once.
LEMMA MovesFetch ==
  ASSUME RulesInv, MovesInv, NEW k \in {"rules", "versions"},
         \/ Rules!Answer(k, Rules!Read(k)) \/ Rules!Deliver(k) \/ Rules!Lose(k) \/ Rules!Refetch(k)
  PROVE  MovesInv'
<1>1. PICK v : v = Rules!Read(k)
  OBVIOUS
<1>2. Common!Refetch(k) \/ Common!Answer(k, v) \/ Common!Deliver(k) \/ Common!Lose(k)
  BY <1>1 DEF Rules!Refetch, Common!Refetch, Rules!Answer, Common!Answer, Rules!Deliver,
         Common!Deliver, Rules!Lose, Common!Lose, Rules!Unfetched, Common!Unfetched,
         Rules!Fetched, Common!Fetched, Rules!Spend, Common!Spend
<1>3. UNCHANGED <<db, calls, ui>>
  BY <1>2 DEF Common!Refetch, Common!Answer, Common!Deliver, Common!Lose
<1>4. /\ DOMAIN query = {"rules", "versions"} /\ k \in DOMAIN query
      /\ \A x \in DOMAIN query : \E w : Entry(query[x], w)
  BY DEF RulesInv, Entries
<1>5. \A x \in DOMAIN query :
        Contents(query'[x]) \subseteq Contents(query[x]) \cup IF x = k THEN {v} ELSE {}
  BY <1>2, <1>4, ContentsAnswered
<1>6. k = "rules" => Numbering(v.list)
  <2>1. k = "rules" => v.list = Listed(db.rows)
    BY <1>1, SameRows DEF Rules!Read
  <2>2. Numbering(Listed(db.rows))
    BY RulesListed DEF MovesInv
  <2> QED
    BY <2>1, <2>2
<1>7. k = "versions" => v.list = DOMAIN db.versions
  BY <1>1 DEF Rules!Read
<1>8. \A d \in Contents(query'["rules"]) : Numbering(d.list)
  BY <1>4, <1>5, <1>6 DEF MovesInv
<1>9. \A d \in Contents(query'["versions"]) : d.list \subseteq DOMAIN db.versions
  BY <1>4, <1>5, <1>7 DEF MovesInv
<1>10. \A c \in InFlight(calls) : KnownCall(c)'
  BY <1>3 DEF MovesInv, KnownCall
<1> QED
  BY <1>3, <1>8, <1>9, <1>10 DEF MovesInv

\* Every step of the proxy rules page keeps what the moves rest on.
LEMMA MovesStep ==
  ASSUME RulesInv, MovesInv, Rules!Next
  PROVE  MovesInv'
BY MovesClick, MovesResponse, MovesFetch DEF Rules!Next, Rules!refresh

\* In a step that changes the rules and takes a reorder on its way, that is the one
\* that is carried out.
LEMMA MoveStep ==
  ASSUME RulesInv, MovesInv, Rules!Next
  PROVE  Rules!MoveMovesWhatWasClicked
<1> SUFFICES ASSUME NEW i \in DOMAIN calls, NEW m \in ui.moved,
                    calls[i].op = "reorder", calls[i].stage = "sent", db' # db,
                    Len(calls') = Len(calls), calls'[i].stage # "sent",
                    NEW a \in {m.from[k] : k \in DOMAIN m.from} \cap DOMAIN db'.rows,
                    NEW b \in {m.from[k] : k \in DOMAIN m.from} \cap DOMAIN db'.rows, a # b
             PROVE  Rules!Precedes(db'.rows, a, b)
                      <=> ((Rules!At(m.from, a) < Rules!At(m.from, b)) # ({a, b} = {m.clicked, m.over}))
  BY DEF Rules!MoveMovesWhatWasClicked
<1>1. IsMove(calls[i].arg, m) /\ IsRules(db.rows)
  BY DEF MovesInv, KnownCall, InFlight
<1>2. ~UNCHANGED calls
  OBVIOUS
<1>3. PICK j \in DOMAIN calls : Rules!Engine(j)
  <2>1. ASSUME NEW k, Rules!Answer(k, Rules!Read(k)) \/ Rules!Deliver(k) \/ Rules!Lose(k)
        PROVE  FALSE
    BY <2>1 DEF Rules!Answer, Rules!Deliver, Rules!Lose
  <2>2. ~Rules!refresh
    BY DEF Rules!refresh, Rules!Refetch
  <2>3. ASSUME NEW k, Rules!Return(k) \/ Rules!Reject(k) PROVE FALSE
    BY <2>3 DEF Rules!Return, Rules!Reject
  <2>4. ASSUME Rules!Click \/ Rules!setOpen \/ Rules!Edit \/ Rules!handleFinish \/ Rules!OpenDialog
               \/ Rules!handleRollback
        PROVE  FALSE
    BY <2>4 DEF Rules!Click, Rules!moveRule, Rules!handleDelete, Rules!handleQuickSimulate,
                Rules!handleTestMatch, Rules!SetSearchFilter, Rules!setActiveTab, Rules!setOpen,
                Rules!Edit, Rules!handleFinish, Rules!OpenDialog, Rules!handleRollback
  <2>5. ~Rules!Elsewhere
    BY <1>2 DEF Rules!Elsewhere
  <2> QED
    BY <2>1, <2>2, <2>3, <2>4, <2>5 DEF Rules!Next
<1>4. \E stage : calls' = [calls EXCEPT ![j].stage = stage]
  BY <1>3 DEF Rules!Engine, Rules!Handle, Rules!Refuse
<1>5. i = j
  BY <1>4
<1> DEFINE rs == Rules!Over(db.rows, Rules!Reordered(db.rows, calls[i].arg))
<1>6. db' = Rules!Stored(rs)
  <2>1. Rules!Handle(i, Rules!Stored(rs))
    BY <1>3, <1>5 DEF Rules!Engine, Rules!Refuse
  <2> HIDE DEF rs
  <2> QED
    BY <2>1 DEF Rules!Handle
<1>7. db'.rows = rs
  <2> HIDE DEF rs
  <2> QED
    BY <1>6 DEF Rules!Stored
<1>8. PICK new, ids : new = db'.rows /\ ids = calls[i].arg
  OBVIOUS
<1>9. PICK old : old = db.rows
  OBVIOUS
<1>10. new = Rules!Over(old, Rules!Reordered(old, ids)) /\ IsMove(ids, m) /\ IsRules(old)
  BY <1>1, <1>7, <1>8, <1>9
<1> HIDE DEF rs
<1>11. {a, b} \subseteq ShownIn(m) /\ {a, b} \subseteq DOMAIN new
  BY <1>8 DEF ShownIn
<1>12. Exchanges(new, m, a, b)
  BY <1>10, <1>11, MoveOfRows
<1> QED
  BY <1>8, <1>12 DEF Exchanges

-----------------------------------------------------------------------------
\* The enterprise page: the fields of the sheet are those of its provider while it
\* is open, and what is saved was taken from it then.
EnterpriseFields ==
  {"tab", "sheet", "fields", "enabled", "saving", "deleting", "wizard", "submitting", "groups",
   "runs", "creating", "syncing", "wrote"}

EnterpriseOps == {"toggle", "save", "delete", "create", "groups", "history", "group", "sync"}

OfOneProvider(c) ==
  c.op \in EnterpriseOps /\ (c.op = "save" => c.arg.fields = c.arg.id)

SheetInv(u) ==
  (\A x, y \in u.sheet : x = y) /\ (u.sheet # {} => u.fields = u.sheet)

EnterpriseInv ==
  /\ DOMAIN ui = EnterpriseFields
  /\ SheetInv(ui)
  /\ CallsOK(calls)
  /\ \A c \in InFlight(calls) : OfOneProvider(c)
  /\ Counted(ui.wrote)
  /\ DOMAIN query = Saml!Keys
  /\ Entries(query, "providers", ui.wrote)

\* The enterprise page starts in its invariant.
LEMMA EnterpriseStart ==
  ASSUME Saml!Init
  PROVE  EnterpriseInv
<1> DEFINE e == [Common!Unfetched EXCEPT !.data = {Saml!Read("shown")}]
<1>1. /\ DOMAIN query = {"providers", "shown"}
      /\ query["providers"] = Common!Fetched(Common!Unfetched)
      /\ query["shown"] = e
  BY DEF Saml!Init, Saml!Keys, Saml!Fetched, Saml!Unfetched, Common!Fetched, Common!Unfetched
<1>2. Entry(e, 0)
  BY DEF Entry, Common!Unfetched, Saml!Read
<1> HIDE DEF e
<1>3. Entries(query, "providers", 0)
  BY <1>1, <1>2, EntryStart DEF Entries
<1>4. /\ DOMAIN ui = EnterpriseFields /\ ui.wrote = 0 /\ ui.sheet = {} /\ calls = <<>>
      /\ "seq" \in DOMAIN db /\ db.seq = 1
  BY DEF Saml!Init, EnterpriseFields
<1> QED
  BY <1>1, <1>3, <1>4, CallsStart DEF EnterpriseInv, SheetInv, Counted, Saml!Keys

\* What the buttons of the page, the sheet and the wizard do.
LEMMA EnterpriseClick ==
  ASSUME EnterpriseInv,
         \/ \E t : Saml!setTab(t)
         \/ Saml!handleRefresh \/ Saml!handleToggle \/ Saml!setSelectedProvider \/ Saml!CloseSheet
         \/ Saml!handleToggleEnabled \/ Saml!handleSave \/ Saml!handleDelete
         \/ Saml!setIsWizardOpen \/ Saml!EditConnection \/ Saml!setStep \/ Saml!handleCreate
         \/ Saml!handleCreateGroup \/ Saml!handleTriggerSync
  PROVE  EnterpriseInv'
<1> DEFINE Told(u) == DOMAIN u = EnterpriseFields /\ u.wrote = ui.wrote /\ SheetInv(u)
<1>0. DOMAIN ui = EnterpriseFields /\ SheetInv(ui)
  BY DEF EnterpriseInv
<1>1. ASSUME NEW u, Saml!Only(u), Told(u) PROVE EnterpriseInv'
  <2>1. ui' = u /\ UNCHANGED <<db, query, calls>>
    BY <1>1 DEF Saml!Only
  <2> QED
    BY <1>1, <2>1 DEF EnterpriseInv, Counted, SheetInv
<1>2. ASSUME NEW op \in EnterpriseOps, NEW arg, NEW u, Told(u), op = "save" => arg.fields = arg.id,
             calls' = Saml!Sent(op, arg), ui' = u, UNCHANGED <<db, query>>
      PROVE  EnterpriseInv'
  <2> DEFINE c == [op |-> op, arg |-> arg, stage |-> "sent"]
  <2>1. CallsOK(calls') /\ InFlight(calls') = InFlight(calls) \cup {c}
    BY <1>2, CallsSent DEF Saml!Sent, EnterpriseInv
  <2>2. OfOneProvider(c)
    BY <1>2 DEF OfOneProvider
  <2> HIDE DEF c
  <2> QED
    BY <1>2, <2>1, <2>2 DEF EnterpriseInv, Counted, SheetInv
<1>3. ASSUME NEW op \in EnterpriseOps, NEW arg, NEW u, Saml!Send(op, arg, u), Told(u),
             op = "save" => arg.fields = arg.id
      PROVE  EnterpriseInv'
  BY <1>2, <1>3 DEF Saml!Send
<1>4. CASE \E t : Saml!setTab(t)
  <2>1. PICK t : Saml!setTab(t)
    BY <1>4
  <2>2. ui' = [ui EXCEPT !.tab = t] /\ Told(ui') /\ UNCHANGED <<db, query>>
    BY <1>0, <2>1 DEF Saml!setTab, EnterpriseFields, SheetInv
  <2>3. CASE t \in {"groups", "history"}
    <3>1. calls' = Saml!Sent(t, {})
      BY <2>1, <2>3 DEF Saml!setTab, Saml!loads, Saml!Sent
    <3>2. t \in EnterpriseOps /\ t # "save"
      BY <2>3 DEF EnterpriseOps
    <3> QED
      BY <1>2, <2>2, <3>1, <3>2
  <2>4. CASE t \notin {"groups", "history"}
    <3>1. UNCHANGED calls
      BY <2>1, <2>4 DEF Saml!setTab
    <3> QED
      BY <2>2, <3>1 DEF EnterpriseInv, Counted, SheetInv
  <2> QED
    BY <2>3, <2>4
<1>5. CASE Saml!handleRefresh
  <2>1. /\ query' = [k \in Saml!Keys |-> Common!Fetched(query[k])]
        /\ UNCHANGED <<db, calls, ui>>
    BY <1>5 DEF Saml!handleRefresh, Saml!Fetched, Common!Fetched
  <2>2. \A k \in Saml!Keys : Entry(query'[k], IF k = "providers" THEN ui.wrote ELSE 0)
    BY <2>1, EntryFetched DEF EnterpriseInv, Entries
  <2> QED
    BY <2>1, <2>2 DEF EnterpriseInv, Entries, Counted, Saml!Keys
<1>6. CASE Saml!handleToggle \/ Saml!handleToggleEnabled
  BY <1>0, <1>3, <1>6 DEF Saml!handleToggle, Saml!handleToggleEnabled, EnterpriseOps
<1>7. CASE Saml!setSelectedProvider \/ Saml!CloseSheet
  BY <1>0, <1>1, <1>7 DEF Saml!setSelectedProvider, Saml!CloseSheet, EnterpriseFields, SheetInv
<1>8. CASE Saml!handleSave
  <2>1. PICK p \in ui.sheet, f \in ui.fields :
          Saml!Send("save", [id |-> p, fields |-> f], [ui EXCEPT !.saving = TRUE])
    BY <1>8 DEF Saml!handleSave
  <2>2. f = p
    BY <1>0 DEF SheetInv
  <2>3. Told([ui EXCEPT !.saving = TRUE])
    BY <1>0 DEF EnterpriseFields, SheetInv
  <2> HIDE DEF Told
  <2> QED
    BY <1>3, <2>1, <2>2, <2>3 DEF EnterpriseOps
<1>9. CASE Saml!handleDelete
  BY <1>0, <1>3, <1>9 DEF Saml!handleDelete, EnterpriseFields, EnterpriseOps, SheetInv
<1>10. CASE Saml!setIsWizardOpen
  BY <1>0, <1>1, <1>10 DEF Saml!setIsWizardOpen, EnterpriseFields, SheetInv
<1>11. CASE Saml!EditConnection \/ Saml!setStep
  BY <1>0, <1>1, <1>11 DEF Saml!EditConnection, Saml!setStep, EnterpriseFields, SheetInv
<1>12. CASE Saml!handleCreate
  BY <1>0, <1>3, <1>12 DEF Saml!handleCreate, EnterpriseFields, EnterpriseOps, SheetInv
<1>13. CASE Saml!handleCreateGroup \/ Saml!handleTriggerSync
  BY <1>0, <1>3, <1>13 DEF Saml!handleCreateGroup, Saml!handleTriggerSync, EnterpriseFields,
     EnterpriseOps, SheetInv
<1> HIDE DEF Told
<1> QED
  BY <1>4, <1>5, <1>6, <1>7, <1>8, <1>9, <1>10, <1>11, <1>12, <1>13

\* What Hermes and Argus make of a request.
LEMMA EnterpriseEngine ==
  ASSUME EnterpriseInv, NEW i \in DOMAIN calls, Saml!Engine(i)
  PROVE  EnterpriseInv'
<1>0. /\ \A v : \A f \in {"providers", "enabled", "groups", "runs"} : NotBefore(Saml!With(f, v))
      /\ \A p : NotBefore(Saml!Created(p)) /\ NotBefore(Saml!Deleted(p))
  BY DEF Saml!With, Saml!Created, Saml!Deleted, NotBefore, EnterpriseInv, Counted
<1>1. \/ Common!Refuse(i) \/ \E new : NotBefore(new) /\ Common!Handle(i, new)
      \/ Saml!Loaded(i)
  <2>1. \/ Saml!Refuse(i) \/ \E new : NotBefore(new) /\ Saml!Handle(i, new)
        \/ Saml!Loaded(i)
    BY <1>0 DEF Saml!Engine
  <2> QED
    BY <2>1 DEF Saml!Handle, Saml!Refuse, Common!Handle, Common!Refuse
<1>2. CASE Common!Refuse(i) \/ \E new : NotBefore(new) /\ Common!Handle(i, new)
  <2>1. /\ CallsOK(calls') /\ Continued(calls, calls') /\ UNCHANGED <<query, ui>>
        /\ Counted(ui.wrote)'
    BY <1>2, CallsEngine DEF EnterpriseInv, Counted
  <2>2. \A c \in InFlight(calls') : OfOneProvider(c)
    BY <2>1 DEF EnterpriseInv, Continued, OfOneProvider
  <2> QED
    BY <2>1, <2>2 DEF EnterpriseInv, SheetInv
<1>3. CASE Saml!Loaded(i)
  <2>1. PICK arg : /\ calls' = [calls EXCEPT ![i].stage = "done", ![i].arg = arg]
                   /\ calls[i].op \in {"groups", "history"}
                   /\ UNCHANGED <<db, query, ui>>
    BY <1>3 DEF Saml!Loaded
  <2> DEFINE d == [calls[i] EXCEPT !.stage = "done"]
             e == [d EXCEPT !.arg = arg]
  <2>2. IsCall(calls[i])
    BY DEF EnterpriseInv, CallsOK, InFlight
  <2>3. IsCall(e) /\ e.op = calls[i].op
    <3>1. IsCall(d) /\ d.op = calls[i].op
      BY <2>2 DEF IsCall
    <3> HIDE DEF d
    <3> QED
      BY <3>1 DEF IsCall
  <2>4. calls' = [calls EXCEPT ![i] = e]
    BY <2>1
  <2>5. OfOneProvider(e)
    BY <2>1, <2>3 DEF OfOneProvider, EnterpriseOps
  <2> HIDE DEF e
  <2>6. IsQueue(calls') /\ InFlight(calls') \subseteq InFlight(calls) \cup {e}
    BY <2>4, QueueExcept DEF EnterpriseInv, CallsOK
  <2>7. CallsOK(calls') /\ \A c \in InFlight(calls') : OfOneProvider(c)
    BY <2>3, <2>5, <2>6 DEF EnterpriseInv, CallsOK
  <2> QED
    BY <2>1, <2>7 DEF EnterpriseInv, Counted, SheetInv
<1> QED
  BY <1>1, <1>2, <1>3

\* Every stage of a request of the enterprise page keeps its invariant: the
\* engine, the answer and the error.
LEMMA EnterpriseResponse ==
  ASSUME EnterpriseInv, NEW i \in DOMAIN calls, Saml!Return(i) \/ Saml!ReturnError(i)
  PROVE  EnterpriseInv'
<1>0. calls[i] \in InFlight(calls) /\ calls[i].op \in EnterpriseOps
  BY DEF EnterpriseInv, OfOneProvider, InFlight
<1>1. CallsOK(Rest(calls, i)) /\ InFlight(Rest(calls, i)) \subseteq InFlight(calls)
  BY CallsSettled DEF EnterpriseInv
<1>2. CASE Saml!Return(i)
  <2> DEFINE listed == Saml!Listing(calls[i].op)
             n == IF listed THEN Saml!ShownFrom("providers", ui.wrote) ELSE ui.wrote
             told == [ui EXCEPT !.wrote = n]
  <2>1. CallsOK(calls') /\ \A c \in InFlight(calls') : OfOneProvider(c)
    <3>1. \/ calls' = Rest(calls, i)
          \/ \E arg : \E op \in {"groups", "history"} :
               calls' = Append(Rest(calls, i), [op |-> op, arg |-> arg, stage |-> "sent"])
      BY <1>2 DEF Saml!Return, Saml!Settled, Rest
    <3>2. CASE calls' = Rest(calls, i)
      BY <1>1, <3>2 DEF EnterpriseInv
    <3>3. ASSUME NEW op \in {"groups", "history"}, NEW arg,
                 calls' = Append(Rest(calls, i), [op |-> op, arg |-> arg, stage |-> "sent"])
          PROVE  CallsOK(calls') /\ \A c \in InFlight(calls') : OfOneProvider(c)
      <4>1. OfOneProvider([op |-> op, arg |-> arg, stage |-> "sent"])
        BY DEF OfOneProvider, EnterpriseOps
      <4>2. CallsOK(calls') /\ InFlight(calls')
              = InFlight(Rest(calls, i)) \cup {[op |-> op, arg |-> arg, stage |-> "sent"]}
        BY <1>1, <3>3, CallsSent
      <4> QED
        BY <1>1, <4>1, <4>2 DEF EnterpriseInv
    <3> QED
      BY <3>1, <3>2, <3>3
  <2>2. DOMAIN told = EnterpriseFields /\ told.wrote = n /\ SheetInv(told)
    BY DEF EnterpriseInv, EnterpriseFields, SheetInv
  <2>3. DOMAIN ui' = EnterpriseFields /\ ui'.wrote = n /\ SheetInv(ui') /\ UNCHANGED db
    <3>1. ui' = CASE calls[i].op = "toggle" ->
                       [told EXCEPT !.enabled = IF calls[i].arg.sheet THEN calls[i].arg.on ELSE @]
                  [] calls[i].op = "save" -> [told EXCEPT !.sheet = {}, !.saving = FALSE]
                  [] calls[i].op = "delete" -> [told EXCEPT !.sheet = {}, !.deleting = FALSE]
                  [] calls[i].op = "create" ->
                       [told EXCEPT !.wizard.success = TRUE, !.submitting = FALSE]
                  [] calls[i].op = "groups" -> [told EXCEPT !.groups = calls[i].arg]
                  [] calls[i].op = "history" -> [told EXCEPT !.runs = calls[i].arg]
                  [] calls[i].op = "group" -> [told EXCEPT !.creating = FALSE]
                  [] calls[i].op = "sync" -> [told EXCEPT !.syncing = FALSE]
      BY <1>2 DEF Saml!Return
    <3> HIDE DEF told, n
    <3>2. DOMAIN ui' = EnterpriseFields /\ ui'.wrote = n
      BY <1>0, <2>2, <3>1 DEF EnterpriseOps, EnterpriseFields
    <3>3. ui'.sheet \subseteq told.sheet /\ ui'.fields = told.fields
      BY <1>0, <2>2, <3>1 DEF EnterpriseOps, EnterpriseFields
    <3>4. ui'.sheet \in {{}, told.sheet}
      BY <1>0, <2>2, <3>1 DEF EnterpriseOps, EnterpriseFields
    <3>5. UNCHANGED db
      BY <1>2 DEF Saml!Return
    <3> QED
      BY <2>2, <3>2, <3>3, <3>4, <3>5 DEF SheetInv
  <2>4. DOMAIN query' = Saml!Keys /\ Entries(query', "providers", n)
    <3>1. \A k \in Saml!Keys : Entry(query[k], IF k = "providers" THEN ui.wrote ELSE 0)
      BY DEF EnterpriseInv, Entries
    <3>2. CASE listed
      <4>1. query' = [query EXCEPT !["providers"] = Common!Fetched(query["providers"])]
        BY <1>2, <3>2 DEF Saml!Return, Saml!Listing, Saml!Fetched, Common!Fetched
      <4>2. n = Saml!ShownFrom("providers", ui.wrote)
        BY <3>2
      <4>3. Entry(query["providers"], ui.wrote)
        BY <3>1 DEF Saml!Keys
      <4>4. Entry(Common!Fetched(query["providers"]), n)
        BY <4>2, <4>3, EntryFetched DEF Saml!ShownFrom
      <4> HIDE DEF n
      <4> QED
        BY <3>1, <4>1, <4>4 DEF EnterpriseInv, Entries, Saml!Keys
    <3>3. CASE ~listed
      <4>1. n = ui.wrote
        BY <3>3
      <4>2. Entry(query["shown"], 0)
        BY <3>1 DEF Saml!Keys
      <4>3. Entry(Common!Fetched(query["shown"]), 0)
        BY <4>2, EntryFetched
      <4>4. query' \in {query, [query EXCEPT !["shown"] = Common!Fetched(query["shown"])]}
        BY <1>2, <3>3 DEF Saml!Return, Saml!Fetched, Common!Fetched
      <4> HIDE DEF n, listed
      <4> QED
        BY <3>1, <4>1, <4>3, <4>4 DEF EnterpriseInv, Entries, Saml!Keys
    <3> QED
      BY <3>2, <3>3
  <2>5. Counted(n)
    BY DEF EnterpriseInv, Counted, Saml!ShownFrom
  <2> HIDE DEF n
  <2> QED
    BY <2>1, <2>3, <2>4, <2>5 DEF EnterpriseInv, Counted, SheetInv
<1>3. CASE Saml!ReturnError(i)
  <2>1. calls' = Rest(calls, i) /\ UNCHANGED <<db, query>>
    BY <1>3 DEF Saml!ReturnError, Saml!Settled, Rest
  <2>2. /\ DOMAIN ui' = EnterpriseFields /\ ui'.wrote = ui.wrote
        /\ ui'.sheet = ui.sheet /\ ui'.fields = ui.fields
    BY <1>3 DEF Saml!ReturnError, EnterpriseInv, EnterpriseFields
  <2> QED
    BY <1>1, <2>1, <2>2 DEF EnterpriseInv, Counted, SheetInv
<1> QED
  BY <1>2, <1>3

\* Every step of a fetch of the enterprise page keeps its invariant.
LEMMA EnterpriseFetch ==
  ASSUME EnterpriseInv, NEW k \in Saml!Keys,
         Saml!Answer(k, Saml!Read(k)) \/ Saml!Deliver(k) \/ Saml!Lose(k)
  PROVE  EnterpriseInv'
<1> DEFINE v == Saml!Read(k)
<1>1. /\ v.seq \in Nat /\ v.seq >= IF k = "providers" THEN ui.wrote ELSE 0
      /\ k \in DOMAIN query
  BY DEF Saml!Read, EnterpriseInv, Counted
<1>2. Common!Answer(k, v) \/ Common!Deliver(k) \/ Common!Lose(k)
  BY DEF Saml!Answer, Common!Answer, Saml!Deliver, Common!Deliver, Saml!Lose, Common!Lose,
         Saml!Unfetched, Common!Unfetched
<1> HIDE DEF v
<1>3. Entries(query', "providers", ui.wrote) /\ UNCHANGED <<db, calls, ui>>
  BY <1>1, <1>2, EntriesAnswered DEF EnterpriseInv
<1>4. DOMAIN query' = DOMAIN query
  BY <1>2 DEF Common!Answer, Common!Deliver, Common!Lose
<1> QED
  BY <1>3, <1>4 DEF EnterpriseInv, Counted, SheetInv

\* Every step of the enterprise page keeps its invariant.
LEMMA EnterpriseStep ==
  ASSUME EnterpriseInv, Saml!Next
  PROVE  EnterpriseInv'
BY EnterpriseClick, EnterpriseEngine, EnterpriseResponse, EnterpriseFetch DEF Saml!Next

-----------------------------------------------------------------------------
\* The schema studio.  An error response is taken for an empty list, numbered 0.
SchemasFields ==
  {"selected", "creating", "last", "id", "text", "renamed", "error", "preview", "saving",
   "deleting", "wrote"}

ListOrError(q, wrote) ==
  /\ DOMAIN q = {"data", "stale", "failed", "busy", "answer"}
  /\ ~q.busy => q.answer = {}
  /\ \A d \in q.answer : d.seq = 0 \/ d.seq >= wrote
  /\ ~q.busy /\ ~q.failed => \A d \in q.data : d.seq = 0 \/ d.seq >= wrote

\* A text that nobody renamed has the identifier it was loaded with, in the editor
\* and in what is being saved.
EditorInv(u) == DOMAIN u = SchemasFields /\ (~u.renamed => u.text = u.id)

SavesWhatWasLoaded(c) == c.op = "save" /\ ~c.arg.renamed => c.arg.text = c.arg.id

SchemasInv ==
  /\ EditorInv(ui)
  /\ CallsOK(calls)
  /\ \A c \in InFlight(calls) : SavesWhatWasLoaded(c)
  /\ Counted(ui.wrote)
  /\ DOMAIN query = {"schemas"} /\ ListOrError(query["schemas"], ui.wrote)

\* The schema studio starts in its invariant.
LEMMA SchemasStart ==
  ASSUME Catalogue!Init
  PROVE  SchemasInv
<1>1. DOMAIN query = {"schemas"} /\ ListOrError(query["schemas"], 0)
  BY DEF Catalogue!Init, Catalogue!key, Catalogue!Fetched, Catalogue!Unfetched, ListOrError
<1>2. EditorInv(ui) /\ calls = <<>> /\ ui.wrote = 0
  BY DEF Catalogue!Init, EditorInv, SchemasFields
<1>3. PICK S : db = [seq |-> 1, ids |-> S]
  BY DEF Catalogue!Init
<1>4. Counted(0)
  BY <1>3 DEF Counted
<1> QED
  BY <1>1, <1>2, <1>4, CallsStart DEF SchemasInv

\* The effect leaves the text and its identifier together, and what the page was told.
LEMMA EffectKeepsTheIdentifier ==
  ASSUME NEW u, EditorInv(u), NEW q, NEW v \in Catalogue!Synchronized(u, q)
  PROVE  EditorInv(v) /\ v.wrote = u.wrote
<1>1. CASE v = u
  BY <1>1
<1>2. CASE \E x : v = [Catalogue!Filled(u, x) EXCEPT !.last = x, !.selected = x]
  <2>1. PICK x : v = [Catalogue!Filled(u, x) EXCEPT !.last = x, !.selected = x]
    BY <1>2
  <2>2. /\ DOMAIN Catalogue!Filled(u, x) = SchemasFields
        /\ Catalogue!Filled(u, x).text = x /\ Catalogue!Filled(u, x).id = x
        /\ Catalogue!Filled(u, x).wrote = u.wrote
    BY DEF Catalogue!Filled, EditorInv, SchemasFields
  <2> QED
    BY <2>1, <2>2 DEF EditorInv, SchemasFields
<1> QED
  BY <1>1, <1>2 DEF Catalogue!Synchronized

\* What the user does on the schema studio keeps its invariant.
LEMMA SchemasClick ==
  ASSUME SchemasInv,
         \/ Catalogue!SelectSchema \/ Catalogue!handleApplyPreset \/ Catalogue!setSchemaId
         \/ Catalogue!handleJsonChange \/ Catalogue!handleFormatJson
         \/ Catalogue!handleFieldChange \/ Catalogue!handleSaveSchema
         \/ Catalogue!handleDeleteSchema
  PROVE  SchemasInv'
<1>0. EditorInv(ui)
  BY DEF SchemasInv
<1>1. ASSUME NEW u, EditorInv(u), u.wrote = ui.wrote, Catalogue!Only(u) PROVE SchemasInv'
  <2>1. UNCHANGED <<db, query, calls>> /\ EditorInv(ui') /\ ui'.wrote = ui.wrote
    BY <1>1, EffectKeepsTheIdentifier DEF Catalogue!Only
  <2> QED
    BY <2>1 DEF SchemasInv, Counted, EditorInv
<1>2. ASSUME NEW u, EditorInv(u), u.wrote = ui.wrote, Catalogue!Type(u) PROVE SchemasInv'
  BY <1>2 DEF Catalogue!Type, SchemasInv, Counted, EditorInv
<1>3. ASSUME NEW op, NEW arg, SavesWhatWasLoaded([op |-> op, arg |-> arg, stage |-> "sent"]),
             calls' = Catalogue!Sent(op, arg), EditorInv(ui'), ui'.wrote = ui.wrote,
             UNCHANGED <<db, query>>
      PROVE  SchemasInv'
  <2> DEFINE c == [op |-> op, arg |-> arg, stage |-> "sent"]
  <2>1. CallsOK(calls') /\ InFlight(calls') = InFlight(calls) \cup {c}
    BY <1>3, CallsSent DEF Catalogue!Sent, SchemasInv
  <2> HIDE DEF c
  <2> QED
    BY <1>3, <2>1 DEF SchemasInv, Counted, EditorInv, c
<1>4. CASE Catalogue!SelectSchema
  BY <1>0, <1>1, <1>4 DEF Catalogue!SelectSchema, EditorInv, SchemasFields
<1>5. CASE Catalogue!handleApplyPreset
  BY <1>0, <1>1, <1>5 DEF Catalogue!handleApplyPreset, Catalogue!Filled, EditorInv, SchemasFields
<1>6. CASE Catalogue!setSchemaId
  BY <1>0, <1>2, <1>6 DEF Catalogue!setSchemaId, EditorInv, SchemasFields
<1>7. CASE Catalogue!handleJsonChange \/ Catalogue!handleFieldChange
  BY <1>0, <1>2, <1>7 DEF Catalogue!handleJsonChange, Catalogue!handleFieldChange, EditorInv,
     SchemasFields
<1>8. CASE Catalogue!handleFormatJson
  BY <1>0, <1>1, <1>8 DEF Catalogue!handleFormatJson, EditorInv, SchemasFields
<1>9. CASE Catalogue!handleSaveSchema
  <2>1. EditorInv(ui') /\ ui'.wrote = ui.wrote /\ UNCHANGED <<db, query>>
    BY <1>0, <1>9 DEF Catalogue!handleSaveSchema, EditorInv, SchemasFields
  <2>2. calls' = Catalogue!Sent("save", [id |-> ui.id, text |-> ui.text, renamed |-> ui.renamed,
          existing |-> ui.id \in Catalogue!rows(query[Catalogue!key])])
    BY <1>9 DEF Catalogue!handleSaveSchema
  <2> DEFINE arg == [id |-> ui.id, text |-> ui.text, renamed |-> ui.renamed,
                     existing |-> ui.id \in Catalogue!rows(query[Catalogue!key])]
  <2>3. ~arg.renamed => arg.text = arg.id
    BY <1>0 DEF EditorInv
  <2> HIDE DEF arg
  <2>4. SavesWhatWasLoaded([op |-> "save", arg |-> arg, stage |-> "sent"])
    BY <2>3 DEF SavesWhatWasLoaded
  <2> QED
    BY <1>3, <2>1, <2>2, <2>4 DEF arg
<1>10. CASE Catalogue!handleDeleteSchema
  <2>1. EditorInv(ui') /\ ui'.wrote = ui.wrote /\ UNCHANGED <<db, query>>
    BY <1>0, <1>10 DEF Catalogue!handleDeleteSchema, EditorInv, SchemasFields
  <2>2. PICK arg : calls' = Catalogue!Sent("delete", arg)
    BY <1>10 DEF Catalogue!handleDeleteSchema
  <2>3. SavesWhatWasLoaded([op |-> "delete", arg |-> arg, stage |-> "sent"])
    BY DEF SavesWhatWasLoaded
  <2> QED
    BY <1>3, <2>1, <2>2, <2>3
<1> QED
  BY <1>4, <1>5, <1>6, <1>7, <1>8, <1>9, <1>10

\* Every stage of a request of the schema studio keeps its invariant: the
\* engine, the answer and the error.
LEMMA SchemasResponse ==
  ASSUME SchemasInv, NEW i \in DOMAIN calls,
         \/ Catalogue!Engine(i) \/ Catalogue!Return(i) \/ Catalogue!Refetched(i)
         \/ Catalogue!ReturnError(i)
  PROVE  SchemasInv'
<1>0. EditorInv(ui) /\ Catalogue!key = "schemas"
  BY DEF SchemasInv, Catalogue!key
<1>1. CASE Catalogue!Engine(i)
  <2>1. \A S : NotBefore([[db EXCEPT !.ids = S] EXCEPT !.seq = db.seq + 1])
    BY DEF NotBefore, SchemasInv, Counted
  <2>2. \/ Catalogue!Refuse(i)
        \/ \E S : Catalogue!Handle(i, [[db EXCEPT !.ids = S] EXCEPT !.seq = db.seq + 1])
    BY <1>1 DEF Catalogue!Engine
  <2>3. Common!Refuse(i) \/ \E new : NotBefore(new) /\ Common!Handle(i, new)
    BY <2>1, <2>2 DEF Catalogue!Handle, Catalogue!Refuse, Common!Handle, Common!Refuse
  <2>4. /\ CallsOK(calls') /\ Continued(calls, calls') /\ UNCHANGED <<query, ui>>
        /\ Counted(ui.wrote)'
    BY <2>3, CallsEngine DEF SchemasInv, Counted
  <2>5. \A c \in InFlight(calls') : SavesWhatWasLoaded(c)
    BY <2>4 DEF SchemasInv, Continued, SavesWhatWasLoaded
  <2> QED
    BY <2>4, <2>5 DEF SchemasInv
<1>2. CASE Catalogue!Return(i)
  <2>1. CallsOK(calls') /\ Continued(calls, calls') /\ UNCHANGED db
    BY <1>2, CallsStage DEF Catalogue!Return, SchemasInv
  <2>2. \A c \in InFlight(calls') : SavesWhatWasLoaded(c)
    BY <2>1 DEF SchemasInv, Continued, SavesWhatWasLoaded
  <2>3. /\ EditorInv(ui')
        /\ ui'.wrote = Catalogue!ShownFrom("schemas", ui.wrote)
    BY <1>0, <1>2 DEF Catalogue!Return, EditorInv, SchemasFields
  <2>4. DOMAIN query' = {"schemas"} /\ ListOrError(query'["schemas"], ui'.wrote)
    BY <1>0, <1>2, <2>3
    DEF Catalogue!Return, Catalogue!Fetched, Catalogue!ShownFrom, SchemasInv, ListOrError
  <2>5. Counted(ui.wrote)'
    BY <2>1, <2>3 DEF SchemasInv, Counted, Catalogue!ShownFrom
  <2> QED
    BY <2>1, <2>2, <2>3, <2>4, <2>5 DEF SchemasInv
<1>3. CASE Catalogue!Refetched(i)
  <2>1. /\ CallsOK(calls') /\ InFlight(calls') \subseteq InFlight(calls)
        /\ UNCHANGED <<db, query>>
    BY <1>3, CallsSettled DEF Catalogue!Refetched, Catalogue!Settled, Rest, SchemasInv
  <2>2. PICK u : /\ EditorInv(u) /\ u.wrote = ui.wrote
                 /\ ui' \in Catalogue!Synchronized(u, query[Catalogue!key])
    <3> DEFINE v == [ui EXCEPT !.creating = FALSE]
               s == [v EXCEPT !.selected = calls[i].arg.id, !.saving = FALSE]
               d == [v EXCEPT !.selected = Catalogue!Fallback, !.deleting = FALSE]
    <3>1. EditorInv(v) /\ v.wrote = ui.wrote
      BY <1>0 DEF EditorInv, SchemasFields
    <3>2. ui' \in Catalogue!Synchronized(IF calls[i].op = "save" THEN s ELSE d,
                                         query[Catalogue!key])
      BY <1>3 DEF Catalogue!Refetched
    <3> HIDE DEF v
    <3>3. EditorInv(s) /\ s.wrote = ui.wrote /\ EditorInv(d) /\ d.wrote = ui.wrote
      BY <3>1 DEF EditorInv, SchemasFields
    <3> HIDE DEF s, d
    <3> QED
      BY <3>2, <3>3
  <2>3. EditorInv(ui') /\ ui'.wrote = ui.wrote
    BY <2>2, EffectKeepsTheIdentifier
  <2> QED
    BY <2>1, <2>3 DEF SchemasInv, Counted, EditorInv
<1>4. CASE Catalogue!ReturnError(i)
  <2>1. /\ CallsOK(calls') /\ InFlight(calls') \subseteq InFlight(calls)
        /\ UNCHANGED <<db, query>>
    BY <1>4, CallsSettled DEF Catalogue!ReturnError, Catalogue!Settled, Rest, SchemasInv
  <2>2. EditorInv(ui') /\ ui'.wrote = ui.wrote
    BY <1>0, <1>4 DEF Catalogue!ReturnError, EditorInv, SchemasFields
  <2> QED
    BY <2>1, <2>2 DEF SchemasInv, Counted, EditorInv
<1> QED
  BY <1>1, <1>2, <1>3, <1>4

\* Every step of a fetch of the schema studio keeps its invariant.
LEMMA SchemasFetch ==
  ASSUME SchemasInv,
         \/ Catalogue!Refetch("schemas") \/ Catalogue!Answer("schemas", Catalogue!Read("schemas"))
         \/ Catalogue!Answer("schemas", Catalogue!ReadError("schemas"))
         \/ Catalogue!Arrive \/ Catalogue!Lose("schemas")
  PROVE  SchemasInv'
<1>0. EditorInv(ui) /\ Catalogue!key = "schemas"
  BY DEF SchemasInv, Catalogue!key
<1>1. UNCHANGED <<db, calls>>
  BY DEF Catalogue!Refetch, Catalogue!Answer, Catalogue!Arrive, Catalogue!Lose
<1>2. EditorInv(ui') /\ ui'.wrote = ui.wrote
  <2>1. UNCHANGED ui \/ \E q : ui' \in Catalogue!Synchronized(ui, q)
    BY DEF Catalogue!Refetch, Catalogue!Answer, Catalogue!Arrive, Catalogue!Lose
  <2> QED
    BY <1>0, <2>1, EffectKeepsTheIdentifier
<1>3. DOMAIN query' = {"schemas"} /\ ListOrError(query'["schemas"], ui.wrote)
  <2>1. CASE Catalogue!Refetch("schemas")
    BY <2>1 DEF Catalogue!Refetch, Catalogue!Fetched, SchemasInv, ListOrError
  <2>2. CASE \/ Catalogue!Answer("schemas", Catalogue!Read("schemas"))
             \/ Catalogue!Answer("schemas", Catalogue!ReadError("schemas"))
    <3>1. PICK v : Catalogue!Answer("schemas", v) /\ (v.seq = 0 \/ v.seq >= ui.wrote)
      BY <2>2 DEF Catalogue!Read, Catalogue!ReadError, SchemasInv, Counted
    <3> QED
      BY <3>1 DEF Catalogue!Answer, SchemasInv, ListOrError
  <2>3. CASE Catalogue!Arrive
    BY <1>0, <2>3 DEF Catalogue!Arrive, Catalogue!Unfetched, SchemasInv, ListOrError
  <2>4. CASE Catalogue!Lose("schemas")
    BY <2>4 DEF Catalogue!Lose, SchemasInv, ListOrError
  <2> QED
    BY <2>1, <2>2, <2>3, <2>4
<1> QED
  BY <1>1, <1>2, <1>3 DEF SchemasInv, Counted, EditorInv

\* Every step of the schema studio keeps its invariant.
LEMMA SchemasStep ==
  ASSUME SchemasInv, Catalogue!Next
  PROVE  SchemasInv'
BY SchemasClick, SchemasResponse, SchemasFetch DEF Catalogue!Next, Catalogue!key

-----------------------------------------------------------------------------
\* The OAuth2 page: each list has been told of its own changes, and the list of the
\* scopes is another one each time that its tab is opened.
OAuthFields == {"tab", "open", "client", "secret", "scopeError", "wrote"}
OAuthOps == {"create", "secret", "delete", "scope", "unscope", "rotate"}

OAuthInv ==
  /\ DOMAIN ui = OAuthFields
  /\ CallsOK(calls)
  /\ \A c \in InFlight(calls) : c.op \in OAuthOps
  /\ DOMAIN ui.wrote = OAuth!Tabs
  /\ \A k \in OAuth!Tabs : Counted(ui.wrote[k])
  /\ {"clients", "keys"} \subseteq DOMAIN query /\ DOMAIN query \subseteq OAuth!Tabs
  /\ \A c \in InFlight(calls) : OAuth!ListOf(c.op) \in DOMAIN query
  /\ ui.tab \in DOMAIN query
  /\ \A k \in DOMAIN query : Entry(query[k], IF OAuth!OnPage(k) THEN ui.wrote[k] ELSE 0)

\* The OAuth2 page starts in its invariant.
LEMMA OAuthStart ==
  ASSUME OAuth!Init
  PROVE  OAuthInv
<1>1. DOMAIN query = {"clients", "keys"}
      /\ \A k \in DOMAIN query : query[k] = Common!Fetched(Common!Unfetched)
  BY DEF OAuth!Init, OAuth!Fetched, OAuth!Unfetched, Common!Fetched, Common!Unfetched
<1>2. /\ DOMAIN ui = OAuthFields /\ calls = <<>> /\ "seq" \in DOMAIN db /\ db.seq = 1
      /\ ui.tab = "clients" /\ ui.wrote = [k \in OAuth!Tabs |-> 0]
  BY DEF OAuth!Init, OAuthFields
<1>3. \A k \in DOMAIN query : Entry(query[k], IF OAuth!OnPage(k) THEN ui.wrote[k] ELSE 0)
  BY <1>1, <1>2, EntryStart DEF OAuth!Tabs
<1> QED
  BY <1>1, <1>2, <1>3, CallsStart DEF OAuthInv, Counted, OAuth!Tabs

\* What the tabs, the forms and the dialog do.
LEMMA OAuthClick ==
  ASSUME OAuthInv,
         \/ \E t \in OAuth!Tabs : OAuth!setTab(t)
         \/ OAuth!handleRefresh \/ OAuth!handleCreateClient \/ OAuth!SelectClient
         \/ OAuth!onOpenChange \/ OAuth!rotateSecret \/ OAuth!deleteClient
         \/ OAuth!handleCreateScope \/ OAuth!handleDeleteScope \/ OAuth!rotateKeys
  PROVE  OAuthInv'
<1>1. CASE \E t \in OAuth!Tabs : OAuth!setTab(t)
  <2>1. PICK t \in OAuth!Tabs : OAuth!setTab(t)
    BY <1>1
  <2>2. /\ ui' = [ui EXCEPT !.tab = t, !.scopeError = FALSE, !.wrote["scopes"] = 0]
        /\ query' = IF t \in DOMAIN query /\ t = "clients" THEN query ELSE Common!Mounted(t)
        /\ UNCHANGED <<db, calls>>
    BY <2>1 DEF OAuth!setTab, OAuth!Mounted, Common!Mounted, OAuth!Opened, Common!Opened,
                OAuth!Unfetched, Common!Unfetched, OAuth!Fetched, Common!Fetched
  <2>3. /\ DOMAIN ui' = OAuthFields /\ ui'.tab = t /\ DOMAIN ui'.wrote = OAuth!Tabs
        /\ ui'.wrote["scopes"] = 0
        /\ \A k \in OAuth!Tabs \ {"scopes"} : ui'.wrote[k] = ui.wrote[k]
    BY <2>2 DEF OAuthInv, OAuthFields, OAuth!Tabs
  <2> DEFINE W(k) == IF OAuth!OnPage(k) THEN ui.wrote[k] ELSE 0
             N(k) == IF k = "scopes" THEN 0 ELSE ui.wrote[k]
  <2>4. \A k \in DOMAIN query : Entry(query[k], N(k))
    <3>1. SUFFICES ASSUME NEW k \in DOMAIN query PROVE Entry(query[k], N(k))
      OBVIOUS
    <3>2. Entry(query[k], W(k))
      BY DEF OAuthInv
    <3>3. CASE k = "scopes"
      BY <3>2, <3>3, EntryOfAnother
    <3>4. CASE k # "scopes"
      BY <3>2, <3>4 DEF OAuth!OnPage
    <3> QED
      BY <3>3, <3>4
  <2>5. DOMAIN query' = DOMAIN query \cup {t} /\ \A k \in DOMAIN query' : Entry(query'[k], N(k))
    <3>1. CASE t \in DOMAIN query /\ t = "clients"
      BY <2>2, <2>4, <3>1
    <3>2. CASE ~(t \in DOMAIN query /\ t = "clients")
      <4> DEFINE e == IF t \in DOMAIN query THEN query[t] ELSE Common!Unfetched
      <4>1. Entry(e, N(t))
        <5>1. CASE t \in DOMAIN query
          BY <2>4, <5>1
        <5>2. CASE t \notin DOMAIN query
          <6>1. t = "scopes" \/ t = "grants"
            BY <5>2 DEF OAuthInv, OAuth!Tabs
          <6>2. e = Common!Unfetched
            BY <5>2
          <6>3. \A n : Entry(Common!Unfetched, n)
            BY DEF Entry, Common!Unfetched
          <6> QED
            BY <6>2, <6>3
        <5> QED
          BY <5>1, <5>2
      <4> HIDE DEF e, N
      <4>2. Entry(Common!Opened(e), N(t))
        BY <4>1, EntryOpened
      <4>3. /\ DOMAIN query' = DOMAIN query \cup {t} /\ query'[t] = Common!Opened(e)
            /\ \A k \in DOMAIN query \ {t} : query'[k] = query[k]
        BY <2>2, <3>2 DEF Common!Mounted, e
      <4> QED
        BY <2>4, <4>2, <4>3
    <3> QED
      BY <3>1, <3>2
  <2>6. \A k \in DOMAIN query' : N(k) = (IF OAuth!OnPage(k) THEN ui.wrote[k] ELSE 0)'
    BY <2>3, <2>5 DEF OAuth!OnPage, OAuthInv, OAuth!Tabs
  <2>7. \A k \in DOMAIN query' : Entry(query[k], IF OAuth!OnPage(k) THEN ui.wrote[k] ELSE 0)'
    BY <2>5, <2>6 DEF Entry
  <2>8. \A k \in OAuth!Tabs : Counted(ui.wrote[k])'
    <3>1. SUFFICES ASSUME NEW k \in OAuth!Tabs PROVE Counted(ui.wrote[k])'
      OBVIOUS
    <3>2. Counted(ui.wrote[k])
      BY DEF OAuthInv
    <3>3. ui'.wrote[k] \in {0, ui.wrote[k]} /\ UNCHANGED db
      BY <2>2, <2>3
    <3> QED
      BY <3>2, <3>3 DEF Counted
  <2> HIDE DEF N
  <2> QED
    BY <2>1, <2>2, <2>3, <2>5, <2>7, <2>8 DEF OAuthInv
<1>2. CASE OAuth!handleRefresh
  <2>1. /\ query' = [query EXCEPT !["clients"] = Common!Fetched(query["clients"]),
                                  !["keys"] = Common!Fetched(query["keys"])]
        /\ UNCHANGED <<db, calls, ui>>
    BY <1>2 DEF OAuth!handleRefresh, OAuth!Fetched, Common!Fetched
  <2>2. \A k \in DOMAIN query' : Entry(query'[k], IF OAuth!OnPage(k) THEN ui.wrote[k] ELSE 0)
    <3>1. /\ DOMAIN query' = DOMAIN query
          /\ \A k \in DOMAIN query : query'[k] \in {query[k], Common!Fetched(query[k])}
      BY <2>1 DEF OAuthInv
    <3>2. \A k \in DOMAIN query :
            LET w == IF OAuth!OnPage(k) THEN ui.wrote[k] ELSE 0
            IN  Entry(query[k], w) /\ Entry(Common!Fetched(query[k]), w)
      BY EntryFetched DEF OAuthInv
    <3> QED
      BY <3>1, <3>2
  <2>3. (\A k \in DOMAIN query : Entry(query[k], IF OAuth!OnPage(k) THEN ui.wrote[k] ELSE 0))'
    BY <2>1, <2>2 DEF OAuth!OnPage
  <2>4. DOMAIN query' = DOMAIN query
    BY <2>1
  <2> QED
    BY <2>1, <2>3, <2>4 DEF OAuthInv, Counted
<1>3. CASE OAuth!SelectClient \/ OAuth!onOpenChange
  <2>1. /\ DOMAIN ui' = OAuthFields /\ ui'.tab = ui.tab /\ ui'.wrote = ui.wrote
        /\ UNCHANGED <<db, query, calls>>
    BY <1>3 DEF OAuth!SelectClient, OAuth!onOpenChange, OAuth!Only, OAuthInv, OAuthFields
  <2> QED
    BY <2>1 DEF OAuthInv, Counted, OAuth!OnPage
<1>4. CASE \/ OAuth!handleCreateClient \/ OAuth!rotateSecret \/ OAuth!deleteClient
           \/ OAuth!handleCreateScope \/ OAuth!handleDeleteScope \/ OAuth!rotateKeys
  <2>1. PICK op, arg : /\ op \in OAuthOps
                       /\ calls' = OAuth!Sent(op, arg)
                       /\ op \in {"scope", "unscope"} => ui.tab = "scopes"
    BY <1>4 DEF OAuth!handleCreateClient, OAuth!rotateSecret, OAuth!deleteClient,
                OAuth!handleCreateScope, OAuth!handleDeleteScope, OAuth!rotateKeys, OAuth!Send,
                OAuthOps
  <2>2. UNCHANGED <<db, query, ui>>
    BY <1>4 DEF OAuth!handleCreateClient, OAuth!rotateSecret, OAuth!deleteClient,
                OAuth!handleCreateScope, OAuth!handleDeleteScope, OAuth!rotateKeys, OAuth!Send
  <2>3. OAuth!ListOf(op) \in DOMAIN query
    BY <2>1 DEF OAuth!ListOf, OAuthOps, OAuthInv
  <2>4. /\ CallsOK(calls')
        /\ InFlight(calls') = InFlight(calls) \cup {[op |-> op, arg |-> arg, stage |-> "sent"]}
    BY <2>1, CallsSent DEF OAuthInv, OAuth!Sent
  <2>5. \A c \in InFlight(calls') : c.op \in OAuthOps /\ OAuth!ListOf(c.op) \in DOMAIN query'
    BY <2>1, <2>2, <2>3, <2>4 DEF OAuthInv
  <2> QED
    BY <2>2, <2>4, <2>5 DEF OAuthInv, Counted, OAuth!OnPage
<1> QED
  BY <1>1, <1>2, <1>3, <1>4

\* What Janus makes of a request, and the page of its response.
LEMMA OAuthResponse ==
  ASSUME OAuthInv, NEW i \in DOMAIN calls,
         OAuth!Engine(i) \/ OAuth!Return(i) \/ OAuth!ReturnError(i)
  PROVE  OAuthInv'
<1>1. CASE OAuth!Engine(i)
  <2>0. Counted(ui.wrote["clients"])
    BY DEF OAuthInv, OAuth!Tabs
  <2>1. \A v : \A f \in {"clients", "scopes", "keys"} : NotBefore(OAuth!With(f, v))
    BY <2>0 DEF OAuth!With, NotBefore, Counted
  <2>2. Common!Refuse(i) \/ \E new : NotBefore(new) /\ Common!Handle(i, new)
    <3>1. OAuth!Refuse(i) \/ \E new : NotBefore(new) /\ OAuth!Handle(i, new)
      BY <1>1, <2>1 DEF OAuth!Engine
    <3> QED
      BY <3>1 DEF OAuth!Handle, OAuth!Refuse, Common!Handle, Common!Refuse
  <2>3. CallsOK(calls') /\ Continued(calls, calls') /\ UNCHANGED <<query, ui>>
    BY <2>0, <2>2, CallsEngine DEF OAuthInv
  <2>4. \A k \in OAuth!Tabs : Counted(ui.wrote[k])'
    <3>1. SUFFICES ASSUME NEW k \in OAuth!Tabs PROVE Counted(ui.wrote[k])'
      OBVIOUS
    <3>2. Counted(ui.wrote[k])
      BY DEF OAuthInv
    <3>3. "seq" \in DOMAIN db' /\ db'.seq \in Nat /\ ui.wrote[k] \in Nat /\ ui.wrote[k] <= db'.seq
      BY <2>2, <3>2, CallsEngine DEF OAuthInv
    <3> QED
      BY <2>3, <3>3 DEF Counted
  <2>5. \A c \in InFlight(calls') : c.op \in OAuthOps /\ OAuth!ListOf(c.op) \in DOMAIN query'
    BY <2>3 DEF OAuthInv, Continued
  <2> QED
    BY <2>3, <2>4, <2>5 DEF OAuthInv, OAuth!OnPage
<1>2. CASE OAuth!Return(i)
  <2> DEFINE k == OAuth!ListOf(calls[i].op)
             n == IF OAuth!OnPage(k) THEN OAuth!ShownFrom(k, ui.wrote[k]) ELSE ui.wrote[k]
             e == IF OAuth!OnPage(k) THEN Common!Fetched(query[k])
                  ELSE [query[k] EXCEPT !.stale = TRUE]
             told == [ui EXCEPT !.wrote[k] = n]
  <2>0. calls[i] \in InFlight(calls) /\ calls[i].op \in OAuthOps
    BY DEF OAuthInv, InFlight
  <2>1. k \in DOMAIN query /\ k \in OAuth!Tabs
    BY <2>0 DEF OAuthInv
  <2>2. CallsOK(calls') /\ InFlight(calls') \subseteq InFlight(calls) /\ UNCHANGED db
    BY <1>2, CallsSettled DEF OAuth!Return, OAuth!Settled, Rest, OAuthInv
  <2>3. query' = [query EXCEPT ![k] = e]
    BY <1>2 DEF OAuth!Return, OAuth!Fetched, Common!Fetched
  <2>4. /\ DOMAIN told = OAuthFields /\ told.tab = ui.tab /\ DOMAIN told.wrote = OAuth!Tabs
        /\ told.wrote[k] = n /\ \A j \in OAuth!Tabs \ {k} : told.wrote[j] = ui.wrote[j]
    BY <2>1 DEF OAuthInv, OAuthFields
  <2>5. DOMAIN ui' = OAuthFields /\ ui'.tab = ui.tab /\ ui'.wrote = told.wrote
    <3>1. ui' = CASE calls[i].op = "secret" -> [told EXCEPT !.secret = {calls[i].arg}]
                  [] calls[i].op = "delete" ->
                       [told EXCEPT !.open = FALSE, !.client = {},
                                    !.secret = IF ui.open THEN {} ELSE @]
                  [] calls[i].op = "scope" -> [told EXCEPT !.scopeError = FALSE]
                  [] OTHER -> told
      BY <1>2 DEF OAuth!Return
    <3> HIDE DEF told
    <3> QED
      BY <2>4, <3>1 DEF OAuthFields
  <2>6. Entry(e, IF OAuth!OnPage(k) THEN n ELSE 0)
    <3> DEFINE w == IF OAuth!OnPage(k) THEN ui.wrote[k] ELSE 0
    <3>1. Entry(query[k], w)
      BY <2>1 DEF OAuthInv
    <3>2. CASE OAuth!OnPage(k)
      <4>1. w = ui.wrote[k] /\ e = Common!Fetched(query[k])
            /\ n = IF query[k].data = {} /\ query[k].answer # {} THEN ui.wrote[k] ELSE db.seq
        BY <3>2 DEF OAuth!ShownFrom
      <4> HIDE DEF w, n, e, k
      <4>2. Entry(Common!Fetched(query[k]),
                  IF query[k].data = {} /\ query[k].answer # {} THEN w ELSE db.seq)
        BY <3>1, EntryFetched
      <4> QED
        BY <3>2, <4>1, <4>2
    <3>3. CASE ~OAuth!OnPage(k)
      BY <3>1, <3>3, EntryMarked
    <3> QED
      BY <3>2, <3>3
  <2>7. n \in {ui.wrote[k], db.seq}
    BY DEF OAuth!ShownFrom
  <2> HIDE DEF n, e, k, told
  <2>8. \A j \in DOMAIN query' : Entry(query[j], IF OAuth!OnPage(j) THEN ui.wrote[j] ELSE 0)'
    <3>1. SUFFICES ASSUME NEW j \in DOMAIN query
                   PROVE  Entry(query'[j], IF OAuth!OnPage(j)' THEN ui'.wrote[j] ELSE 0)
      BY <2>3 DEF Entry
    <3>2. OAuth!OnPage(j)' <=> OAuth!OnPage(j)
      BY <2>5 DEF OAuth!OnPage
    <3>3. CASE j = k
      BY <2>1, <2>3, <2>4, <2>5, <2>6, <3>2, <3>3
    <3>4. CASE j # k
      <4>1. query'[j] = query[j] /\ ui'.wrote[j] = ui.wrote[j]
        BY <2>3, <2>4, <2>5, <3>4 DEF OAuthInv
      <4>2. Entry(query[j], IF OAuth!OnPage(j) THEN ui.wrote[j] ELSE 0)
        BY DEF OAuthInv
      <4> QED
        BY <3>2, <4>1, <4>2
    <3> QED
      BY <3>3, <3>4
  <2>9. \A j \in OAuth!Tabs : Counted(ui.wrote[j])'
    <3>1. SUFFICES ASSUME NEW j \in OAuth!Tabs PROVE Counted(ui.wrote[j])'
      OBVIOUS
    <3>2. Counted(ui.wrote[j])
      BY DEF OAuthInv
    <3>3. ui'.wrote[j] \in {ui.wrote[j], db.seq}
      BY <2>1, <2>4, <2>5, <2>7
    <3> QED
      BY <2>2, <3>2, <3>3 DEF Counted
  <2>10. DOMAIN query' = DOMAIN query
    BY <2>3
  <2> QED
    BY <2>2, <2>4, <2>5, <2>8, <2>9, <2>10 DEF OAuthInv
<1>3. CASE OAuth!ReturnError(i)
  <2>1. /\ CallsOK(calls') /\ InFlight(calls') \subseteq InFlight(calls)
        /\ UNCHANGED <<db, query>>
    BY <1>3, CallsSettled DEF OAuth!ReturnError, OAuth!Settled, Rest, OAuthInv
  <2>2. DOMAIN ui' = OAuthFields /\ ui'.tab = ui.tab /\ ui'.wrote = ui.wrote
    BY <1>3 DEF OAuth!ReturnError, OAuthInv, OAuthFields
  <2> QED
    BY <2>1, <2>2 DEF OAuthInv, Counted, OAuth!OnPage
<1> QED
  BY <1>1, <1>2, <1>3

\* Every step of a fetch of the OAuth2 page keeps its invariant.
LEMMA OAuthFetch ==
  ASSUME OAuthInv, NEW k \in DOMAIN query,
         OAuth!Answer(k, OAuth!Read(k)) \/ OAuth!Deliver(k) \/ OAuth!Lose(k)
  PROVE  OAuthInv'
<1> DEFINE v == OAuth!Read(k)
           w == IF OAuth!OnPage(k) THEN ui.wrote[k] ELSE 0
<1>1. v.seq \in Nat /\ v.seq >= w /\ Entry(query[k], w)
  <2>1. Counted(ui.wrote[k]) /\ v.seq = db.seq
    BY DEF OAuthInv, OAuth!Read
  <2> QED
    BY <2>1 DEF Counted, OAuthInv
<1>2. Common!Answer(k, v) \/ Common!Deliver(k) \/ Common!Lose(k)
  BY DEF OAuth!Answer, Common!Answer, OAuth!Deliver, Common!Deliver, OAuth!Lose, Common!Lose,
         OAuth!Unfetched, Common!Unfetched
<1> HIDE DEF v, w
<1>3. /\ DOMAIN query' = DOMAIN query /\ Entry(query'[k], w)
      /\ \A j \in DOMAIN query \ {k} : query'[j] = query[j]
      /\ UNCHANGED <<db, calls, ui>>
  BY <1>1, <1>2, EntryAnswered, EntryFetchEnds
<1>4. (\A j \in DOMAIN query : Entry(query[j], IF OAuth!OnPage(j) THEN ui.wrote[j] ELSE 0))'
  BY <1>3 DEF OAuthInv, OAuth!OnPage, w
<1> QED
  BY <1>3, <1>4 DEF OAuthInv, Counted

\* Every step of the OAuth2 page keeps its invariant.
LEMMA OAuthStep ==
  ASSUME OAuthInv, OAuth!Next
  PROVE  OAuthInv'
BY OAuthClick, OAuthResponse, OAuthFetch DEF OAuth!Next

-----------------------------------------------------------------------------
\* The identities page: of the pages of its list one is on the screen.  The cursor
\* that comes with a page was issued for the same search and lies after the page's.
PeopleFields ==
  {"input", "timer", "search", "cursor", "history", "size", "email", "csv", "checked", "said",
   "wrote"}

PeopleCalls == {"invite", "dry run", "import"}

NextIsAfter(k, d) == \A c \in d.next : c.search = k.search /\ k.cursor.after < c.after

PeopleInv ==
  /\ DOMAIN ui = PeopleFields
  /\ CallsOK(calls)
  /\ \A c \in InFlight(calls) : c.op \in PeopleCalls
  /\ Counted(ui.wrote)
  /\ Entries(query, People!key, ui.wrote)
  /\ \A k \in DOMAIN query : \A d \in Contents(query[k]) : NextIsAfter(k, d)
  /\ IsQueue(ui.history)
  /\ People!PagesFollowEachOther

\* The identities page starts in its invariant.
LEMMA PeopleStart ==
  ASSUME People!Init
  PROVE  PeopleInv
<1>1. query = [k \in {People!key} |-> Common!Fetched(Common!Unfetched)]
  BY DEF People!Init, People!Fetched, People!Unfetched, Common!Fetched, Common!Unfetched
<1>2. Entries(query, People!key, 0)
  BY <1>1, EntriesStart
<1>3. \A k \in DOMAIN query : Contents(query[k]) = {}
  BY <1>1 DEF Contents, Common!Fetched, Common!Unfetched
<1>4. IsQueue(<<>>)
  BY CallsStart DEF CallsOK
<1>5. Len(Append(<<>>, People!Start)) = 1 /\ Append(<<>>, People!Start)[1] = People!Start
  OBVIOUS
<1>6. People!PagesFollowEachOther
  <2>1. Append(ui.history, ui.cursor) = Append(<<>>, People!Start)
    BY DEF People!Init
  <2>2. 2..1 = {}
    OBVIOUS
  <2> QED
    BY <1>5, <2>1, <2>2 DEF People!PagesFollowEachOther
<1> QED
  BY <1>2, <1>3, <1>4, <1>6, CallsStart
  DEF People!Init, PeopleInv, PeopleFields, Counted

\* What stays true of the cursors when no page has other contents.
LEMMA PeopleKept ==
  ASSUME \A k \in DOMAIN query : \A d \in Contents(query[k]) : NextIsAfter(k, d), ContentsKept
  PROVE  \A k \in DOMAIN query' : \A d \in Contents(query'[k]) : NextIsAfter(k, d)
BY DEF ContentsKept

\* Another page comes on the screen.
LEMMA PeopleShow ==
  ASSUME PeopleInv, NEW u, DOMAIN u = PeopleFields, u.wrote = 0, People!Show(u), IsQueue(u.history),
         People!PagesFollowEachOther'
  PROVE  PeopleInv'
<1>1. ui' = u /\ query' = People!Mounted(People!keyOf(u)) /\ UNCHANGED <<db, calls>>
  BY DEF People!Show
<1>2. query' = Common!Mounted(People!keyOf(u))
  BY <1>1 DEF People!Mounted, Common!Mounted, People!Opened, Common!Opened,
              People!Unfetched, Common!Unfetched, People!Fetched, Common!Fetched
<1>3. Entries(query', People!keyOf(u), 0)
  BY <1>2, EntriesMounted DEF PeopleInv
<1>4. ContentsKept
  BY <1>2, ContentsMounted
<1>5. \A k \in DOMAIN query' : \A d \in Contents(query'[k]) : NextIsAfter(k, d)
  BY <1>4, PeopleKept DEF PeopleInv
<1>6. People!key' = People!keyOf(u)
  BY <1>1 DEF People!key
<1> QED
  BY <1>1, <1>3, <1>5, <1>6 DEF PeopleInv, Counted

\* Going back to the first page of the directory empties the history.
LEMMA PeopleFirst ==
  ASSUME NEW u, u.history = <<>>, u.cursor = People!Start, ui' = u
  PROVE  IsQueue(u.history) /\ People!PagesFollowEachOther'
<1>1. IsQueue(<<>>)
  BY CallsStart DEF CallsOK
<1>2. Len(Append(<<>>, People!Start)) = 1 /\ Append(<<>>, People!Start)[1] = People!Start
  OBVIOUS
<1>3. Append(ui'.history, ui'.cursor) = Append(<<>>, People!Start)
  OBVIOUS
<1>4. 2..1 = {}
  OBVIOUS
<1> QED
  BY <1>1, <1>2, <1>3, <1>4 DEF People!PagesFollowEachOther

\* Going from page to page of the directory, or searching it anew, keeps the
\* invariant.
LEMMA PeopleBrowse ==
  ASSUME PeopleInv, 
         \/ People!Debounced \/ People!handlePageSizeChange
         \/ People!handleNextPage \/ People!handlePreviousPage
  PROVE  PeopleInv'
<1>1. CASE People!Debounced \/ People!handlePageSizeChange
  <2>1. PICK u : /\ People!Show(People!FirstPage(u)) /\ DOMAIN u = PeopleFields
    <3>1. CASE People!Debounced
      <4> DEFINE u == [ui EXCEPT !.search = ui.input, !.timer = FALSE]
      <4>1. DOMAIN u = PeopleFields /\ People!Show(People!FirstPage(u))
        BY <3>1 DEF PeopleInv, People!Debounced
      <4> QED
        BY <4>1
    <3>2. CASE People!handlePageSizeChange
      <4>1. PICK n : People!Show(People!FirstPage([ui EXCEPT !.size = n]))
        BY <3>2 DEF People!handlePageSizeChange
      <4>2. DOMAIN [ui EXCEPT !.size = n] = PeopleFields
        BY DEF PeopleInv
      <4> QED
        BY <4>1, <4>2
    <3> QED
      BY <1>1, <3>1, <3>2
  <2> DEFINE f == People!FirstPage(u)
  <2>2. /\ DOMAIN f = PeopleFields /\ f.wrote = 0 /\ f.history = <<>> /\ f.cursor = People!Start
    <3>1. f = [u EXCEPT !.cursor = People!Start, !.history = <<>>, !.wrote = 0]
      BY DEF People!FirstPage
    <3> QED
      BY <2>1, <3>1 DEF PeopleFields
  <2>3. ui' = f
    BY <2>1 DEF People!Show
  <2> HIDE DEF f
  <2>4. IsQueue(f.history) /\ People!PagesFollowEachOther'
    BY <2>2, <2>3, PeopleFirst
  <2> QED
    BY <2>1, <2>2, <2>4, PeopleShow DEF f
<1>2. CASE People!handleNextPage
  <2>1. PICK d \in query[People!key].data : \E c \in d.next :
          People!Show([ui EXCEPT !.history = Append(ui.history, ui.cursor), !.cursor = c, !.wrote = 0])
    BY <1>2 DEF People!handleNextPage
  <2>2. PICK c \in d.next :
          People!Show([ui EXCEPT !.history = Append(ui.history, ui.cursor), !.cursor = c, !.wrote = 0])
    BY <2>1
  <2> DEFINE u == [ui EXCEPT !.history = Append(ui.history, ui.cursor), !.cursor = c, !.wrote = 0]
             h == ui.history
             p == Append(h, ui.cursor)
             q == Append(p, c)
  <2>3. c.search = ui.search /\ ui.cursor.after < c.after
    <3>1. People!key \in DOMAIN query /\ d \in Contents(query[People!key])
      BY <2>1 DEF PeopleInv, Entries, Contents
    <3>2. NextIsAfter(People!key, d)
      BY <3>1 DEF PeopleInv
    <3> QED
      BY <3>2 DEF NextIsAfter, People!key, People!keyOf
  <2>4. /\ DOMAIN u = PeopleFields /\ u.wrote = 0 /\ u.history = p /\ u.cursor = c
        /\ u.search = ui.search /\ ui' = u
    <3>1. DOMAIN ui = PeopleFields
      BY DEF PeopleInv
    <3> QED
      BY <2>2, <3>1 DEF PeopleFields, People!Show
  <2>5. /\ IsQueue(p) /\ Len(h) \in Nat
        /\ Len(p) = Len(h) + 1 /\ Len(q) = Len(h) + 2
        /\ \A k \in 1..(Len(h) + 1) : q[k] = p[k]
        /\ p[Len(h) + 1] = ui.cursor /\ q[Len(h) + 2] = c
    <3>1. IsQueue(h)
      BY DEF PeopleInv
    <3> QED
      BY <3>1, WayNext
  <2>6. p[1] = People!Start
        /\ \A k \in 2..Len(p) : p[k].search = ui.search /\ p[k - 1].after < p[k].after
    BY DEF PeopleInv, People!PagesFollowEachOther
  <2>7. q[1] = People!Start
        /\ \A k \in 2..Len(q) : q[k].search = ui.search /\ q[k - 1].after < q[k].after
    <3> HIDE DEF p, q, h
    <3>1. q[1] = People!Start
      BY <2>5, <2>6
    <3>2. ASSUME NEW k \in 2..(Len(h) + 1)
          PROVE  q[k].search = ui.search /\ q[k - 1].after < q[k].after
      BY <2>5, <2>6, <3>2
    <3>3. LET k == Len(h) + 2 IN q[k].search = ui.search /\ q[k - 1].after < q[k].after
      BY <2>3, <2>5
    <3>4. \A k \in 2..Len(q) : k \in 2..(Len(h) + 1) \/ k = Len(h) + 2
      BY <2>5
    <3> QED
      BY <3>1, <3>2, <3>3, <3>4
  <2>8. People!PagesFollowEachOther'
    <3> HIDE DEF p, q, h, u
    <3>1. Append(ui'.history, ui'.cursor) = q /\ ui'.search = ui.search
      BY <2>4 DEF q
    <3> QED
      BY <2>7, <3>1 DEF People!PagesFollowEachOther
  <2> HIDE DEF p, q, h
  <2>9. IsQueue(u.history)
    BY <2>4, <2>5
  <2> QED
    BY <2>2, <2>4, <2>8, <2>9, PeopleShow
<1>3. CASE People!handlePreviousPage
  <2> DEFINE h == ui.history
             n == Len(h)
             f == SubSeq(h, 1, n - 1)
             u == [ui EXCEPT !.history = f, !.cursor = h[n], !.wrote = 0]
             p == Append(f, h[n])
             q == Append(h, ui.cursor)
  <2>1. h # <<>> /\ People!Show(u)
    <3>1. /\ ui.history # <<>>
          /\ People!Show([ui EXCEPT !.history = SubSeq(@, 1, Len(ui.history) - 1),
                                    !.cursor = ui.history[Len(ui.history)], !.wrote = 0])
      BY <1>3 DEF People!handlePreviousPage
    <3> QED
      BY <3>1
  <2>2. /\ DOMAIN u = PeopleFields /\ u.wrote = 0 /\ u.history = f /\ u.cursor = h[n]
        /\ u.search = ui.search /\ ui' = u
    <3>1. DOMAIN ui = PeopleFields
      BY DEF PeopleInv
    <3> HIDE DEF f, n, h
    <3> QED
      BY <2>1, <3>1 DEF PeopleFields, People!Show
  <2>3. /\ IsQueue(f) /\ n \in Nat \ {0} /\ Len(p) = n /\ Len(q) = n + 1
        /\ \A k \in 1..n : p[k] = q[k]
    <3>1. IsQueue(h)
      BY DEF PeopleInv
    <3> QED
      BY <2>1, <3>1, WayBack
  <2>4. q[1] = People!Start
        /\ \A k \in 2..Len(q) : q[k].search = ui.search /\ q[k - 1].after < q[k].after
    BY DEF PeopleInv, People!PagesFollowEachOther
  <2>5. p[1] = People!Start
        /\ \A k \in 2..Len(p) : p[k].search = ui.search /\ p[k - 1].after < p[k].after
    <3> HIDE DEF p, q, n
    <3> QED
      BY <2>3, <2>4
  <2>6. People!PagesFollowEachOther'
    <3> HIDE DEF p, q, h, n, f, u
    <3>1. Append(ui'.history, ui'.cursor) = p /\ ui'.search = ui.search
      BY <2>2 DEF p
    <3> QED
      BY <2>5, <3>1 DEF People!PagesFollowEachOther
  <2>7. IsQueue(u.history)
    BY <2>2, <2>3
  <2> HIDE DEF u
  <2> QED
    BY <2>1, <2>2, <2>6, <2>7, PeopleShow
<1> QED
  BY <1>1, <1>2, <1>3

\* The clicks that leave the way to the page as it is.
LEMMA PeopleClick ==
  ASSUME PeopleInv,
         \/ People!setSearchQueryInput \/ People!Edit \/ People!handleCreate
         \/ People!handleDryRun \/ People!handleCommit
  PROVE  PeopleInv'
<1> DEFINE More(op) ==
      \E arg, stage : calls' = Append(calls, [op |-> op, arg |-> arg, stage |-> stage])
<1>1. /\ DOMAIN ui' = DOMAIN ui /\ ui'.wrote = ui.wrote /\ ui'.history = ui.history
      /\ ui'.search = ui.search /\ ui'.cursor = ui.cursor /\ ui'.size = ui.size
      /\ UNCHANGED <<db, query>>
  BY DEF PeopleInv, PeopleFields, People!setSearchQueryInput, People!Edit, People!handleCreate,
         People!handleDryRun, People!handleCommit
<1>2. UNCHANGED calls \/ \E op \in PeopleCalls : More(op)
  BY DEF PeopleCalls, People!setSearchQueryInput, People!Edit, People!handleCreate,
         People!handleDryRun, People!handleCommit, People!Sent, People!Asked
<1>3. ASSUME NEW op \in PeopleCalls, More(op)
      PROVE  CallsOK(calls') /\ \A c \in InFlight(calls') : c.op \in PeopleCalls
  <2>1. PICK arg, stage : calls' = Append(calls, [op |-> op, arg |-> arg, stage |-> stage])
    BY <1>3
  <2>2. CallsOK(calls') /\ InFlight(calls')
          = InFlight(calls) \cup {[op |-> op, arg |-> arg, stage |-> stage]}
    BY <2>1, CallsSent DEF PeopleInv
  <2> QED
    BY <2>2 DEF PeopleInv
<1> HIDE DEF More
<1>4. CallsOK(calls') /\ \A c \in InFlight(calls') : c.op \in PeopleCalls
  BY <1>2, <1>3 DEF PeopleInv
<1>5. People!key' = People!key /\ People!PagesFollowEachOther'
  BY <1>1 DEF PeopleInv, People!key, People!keyOf, People!PagesFollowEachOther
<1> QED
  BY <1>1, <1>4, <1>5 DEF PeopleInv, Counted

\* Every stage of a request of the identities page keeps its invariant: the
\* engine, the answer and the error.
LEMMA PeopleResponse ==
  ASSUME PeopleInv, NEW i \in DOMAIN calls,
         People!Engine(i) \/ People!Return(i) \/ People!ReturnError(i)
  PROVE  PeopleInv'
<1>1. CASE People!Engine(i)
  <2>1. \A S : NotBefore(People!With(S))
    BY DEF People!With, NotBefore, PeopleInv, Counted
  <2>2. Common!Refuse(i) \/ \E new : NotBefore(new) /\ Common!Handle(i, new)
    BY <1>1, <2>1 DEF People!Engine, People!Handle, People!Refuse, Common!Handle, Common!Refuse
  <2>3. /\ CallsOK(calls') /\ Continued(calls, calls') /\ UNCHANGED <<query, ui>>
        /\ Counted(ui.wrote)'
    BY <2>2, CallsEngine DEF PeopleInv, Counted
  <2>4. People!key' = People!key /\ People!PagesFollowEachOther'
    BY <2>3 DEF PeopleInv, People!key, People!PagesFollowEachOther
  <2> QED
    BY <2>3, <2>4 DEF PeopleInv, Continued
<1>2. CASE People!Return(i) \/ People!ReturnError(i)
  <2> DEFINE Refetched == query' = [query EXCEPT ![People!key] = Common!Fetched(query[People!key])]
             seen == People!ShownFrom(People!key, ui.wrote)
  <2>0. calls[i].op \in PeopleCalls /\ calls[i] \in InFlight(calls) /\ People!key \in DOMAIN query
    BY DEF PeopleInv, InFlight, Entries
  <2>1. CallsOK(calls') /\ InFlight(calls') \subseteq InFlight(calls) /\ UNCHANGED db
    BY <1>2, CallsSettled DEF People!Return, People!ReturnError, People!Settled, Rest, PeopleInv
  <2>2. /\ DOMAIN ui' = DOMAIN ui /\ ui'.history = ui.history
        /\ ui'.search = ui.search /\ ui'.cursor = ui.cursor /\ ui'.size = ui.size
        /\ \/ UNCHANGED query /\ ui'.wrote = ui.wrote
           \/ Refetched /\ ui'.wrote = seen
           \/ query' = Common!Invalidated(People!key) /\ ui'.wrote = ui.wrote
    <3>1. CASE People!Return(i)
      BY <3>1, <2>0 DEF People!Return, PeopleInv, PeopleFields, People!Fetched, Common!Fetched
    <3>2. CASE People!ReturnError(i)
      BY <3>2 DEF People!ReturnError, PeopleInv, PeopleFields, People!Invalidated,
                  Common!Invalidated, People!Fetched, Common!Fetched
    <3> QED
      BY <1>2, <3>1, <3>2
  <2>3. Entries(query', People!key, ui'.wrote) /\ (ContentsKept \/ UNCHANGED query)
    <3>1. CASE UNCHANGED query /\ ui'.wrote = ui.wrote
      BY <3>1 DEF PeopleInv
    <3>2. CASE Refetched /\ ui'.wrote = seen
      <4>1. /\ Entry(Common!Fetched(query[People!key]), seen)
            /\ \A k \in DOMAIN query \ {People!key} : Entry(query[k], 0)
        BY EntryFetched DEF PeopleInv, Entries, People!ShownFrom
      <4>2. /\ DOMAIN query' = DOMAIN query /\ query'[People!key] = Common!Fetched(query[People!key])
            /\ \A k \in DOMAIN query \ {People!key} : query'[k] = query[k]
        BY <2>0, <3>2 
      <4>3. ContentsKept
        BY <2>0, <3>2, ContentsRefetched
      <4> HIDE DEF seen
      <4> QED
        BY <2>0, <3>2, <4>1, <4>2, <4>3 DEF Entries
    <3>3. CASE query' = Common!Invalidated(People!key) /\ ui'.wrote = ui.wrote
      BY <3>3, EntriesInvalidated, ContentsInvalidated DEF PeopleInv
    <3> QED
      BY <2>2, <3>1, <3>2, <3>3
  <2>4. People!key' = People!key /\ People!PagesFollowEachOther'
    BY <2>2 DEF PeopleInv, People!key, People!keyOf, People!PagesFollowEachOther
  <2>5. \A k \in DOMAIN query' : \A d \in Contents(query'[k]) : NextIsAfter(k, d)
    BY <2>3, PeopleKept DEF PeopleInv
  <2>6. Counted(ui.wrote)'
    BY <2>1, <2>2 DEF PeopleInv, Counted, People!ShownFrom
  <2> QED
    BY <2>1, <2>2, <2>3, <2>4, <2>5, <2>6 DEF PeopleInv
<1> QED
  BY <1>1, <1>2

\* Every step of a fetch of the identities page keeps its invariant.
LEMMA PeopleFetch ==
  ASSUME PeopleInv, NEW k \in DOMAIN query,
         \/ People!Answer(k, People!Read(k)) \/ People!Deliver(k) \/ People!Lose(k)
         \/ People!Refetch(k)
  PROVE  PeopleInv'
<1> DEFINE v == People!Read(k)
<1>1. v.seq = db.seq
  BY DEF People!Read
<1>0. NextIsAfter(k, v)
  <2> SUFFICES ASSUME NEW c \in v.next PROVE c.search = k.search /\ k.cursor.after < c.after
    BY DEF NextIsAfter
  <2>1. PICK x \in {y \in db.identities : k.cursor.after < y} :
          c = [after |-> x, search |-> k.search]
    BY Zenon DEF People!Read
  <2> QED
    BY <2>1
<1>2. \/ Common!Answer(k, v) \/ Common!Deliver(k) \/ Common!Lose(k) \/ Common!Refetch(k)
  BY DEF People!Refetch, Common!Refetch, People!Answer, Common!Answer, People!Deliver,
         Common!Deliver, People!Lose, Common!Lose, People!Unfetched, Common!Unfetched,
         People!Fetched, Common!Fetched, People!Spend, Common!Spend
<1> HIDE DEF v
<1>3. Entries(query', People!key, ui.wrote) /\ UNCHANGED <<db, calls, ui>>
  BY <1>1, <1>2, EntriesFetch DEF PeopleInv
<1>4. People!key' = People!key /\ People!PagesFollowEachOther'
  BY <1>3 DEF People!key, PeopleInv, People!PagesFollowEachOther
<1>5. \A x \in DOMAIN query' : \A d \in Contents(query'[x]) : NextIsAfter(x, d)
  <2>1. PICK w : Entry(query[k], w)
    BY DEF PeopleInv, Entries
  <2>2. /\ DOMAIN query' = DOMAIN query
        /\ \A x \in DOMAIN query :
             Contents(query'[x]) \subseteq Contents(query[x]) \cup IF x = k THEN {v} ELSE {}
    BY <1>2, <2>1, ContentsAnswered
  <2> QED
    BY <1>0, <2>2 DEF PeopleInv
<1> QED
  BY <1>3, <1>4, <1>5 DEF PeopleInv, Counted

\* Every step of the identities page keeps its invariant.
LEMMA PeopleStep ==
  ASSUME PeopleInv, People!Next
  PROVE  PeopleInv'
<1>1. People!key \in DOMAIN query
  BY DEF PeopleInv, Entries
<1> QED
  BY <1>1, PeopleBrowse, PeopleClick, PeopleResponse, PeopleFetch DEF People!Next, People!refresh

-----------------------------------------------------------------------------
\* The permissions page: of the pages of tuples one is on the screen, the schema is
\* always there, and the caveats are from when their tab was first opened.  The page
\* is told of changes of the caveats only while their tab is open.
RelationsFields ==
  {"tab", "cursor", "history", "size", "tuple", "input", "result", "editor", "caveat",
   "formError", "wrote", "wroteCaveat"}

RelationsCalls == {"create", "delete", "define", "forget", "schema", "check"}

\* The number of the last change that the page was told of while it showed the entry.
Relates(k, shown, wrote, wroteCaveat) ==
  IF k = shown THEN wrote ELSE IF k = Permissions!caveats THEN wroteCaveat ELSE 0

RelationsEntries ==
  /\ Permissions!page \in DOMAIN query
  /\ Permissions!schema \in DOMAIN query
  /\ \A k \in DOMAIN query :
       /\ k.kind = "tuples" \/ k \in {Permissions!schema, Permissions!caveats}
       /\ Entry(query[k], Relates(k, Permissions!page, ui.wrote, ui.wroteCaveat))

RowsAreAfter(k, d) == k.kind = "tuples" => \A x \in d.rows : k.cursor < x

RelationsWay ==
  /\ \A k \in DOMAIN query : \A d \in Contents(query[k]) : RowsAreAfter(k, d)
  /\ IsQueue(ui.history)
  /\ Permissions!PagesFollowEachOther

RelationsInv ==
  /\ DOMAIN ui = RelationsFields
  /\ CallsOK(calls)
  /\ \A c \in InFlight(calls) : c.op \in RelationsCalls
  /\ Counted(ui.wrote)
  /\ Counted(ui.wroteCaveat)
  /\ ui.tab # "caveats" => ui.wroteCaveat = 0 /\ ui.caveat = {}
  /\ ui.tab = "caveats" \/ (\E c \in InFlight(calls) : c.op \in {"define", "forget"}) =>
       Permissions!caveats \in DOMAIN query
  /\ RelationsEntries
  /\ RelationsWay

\* The three kinds of entries.
LEMMA RelationsKeys ==
  /\ \A u : Permissions!pageOf(u).kind = "tuples" /\ Permissions!pageOf(u).cursor = u.cursor
  /\ Permissions!schema.kind = "schema" /\ Permissions!caveats.kind = "caveats"
  /\ \A u : Permissions!pageOf(u) \notin {Permissions!schema, Permissions!caveats}
  /\ Permissions!schema # Permissions!caveats
<1>1. \A u : Permissions!pageOf(u).kind = "tuples" /\ Permissions!pageOf(u).cursor = u.cursor
  BY DEF Permissions!pageOf
<1>2. Permissions!schema.kind = "schema" /\ Permissions!caveats.kind = "caveats"
  BY DEF Permissions!schema, Permissions!caveats
<1> QED
  BY <1>1, <1>2

\* The permissions page starts in its invariant.
LEMMA RelationsStart ==
  ASSUME Permissions!Init
  PROVE  RelationsInv
<1>1. /\ DOMAIN query = {Permissions!page, Permissions!schema}
      /\ \A k \in DOMAIN query : query[k] = Common!Fetched(Common!Unfetched)
  BY DEF Permissions!Init, Permissions!Fetched, Permissions!Unfetched, Common!Fetched,
         Common!Unfetched
<1>2. /\ ui.wrote = 0 /\ ui.wroteCaveat = 0 /\ ui.tab = "simulator" /\ ui.history = <<>>
      /\ ui.cursor = 0 /\ ui.caveat = {} /\ DOMAIN ui = RelationsFields
      /\ calls = <<>> /\ "seq" \in DOMAIN db /\ db.seq = 1
  BY DEF Permissions!Init, RelationsFields
<1>3. Permissions!page.kind = "tuples"
  BY DEF Permissions!page, Permissions!pageOf
<1>4. \A k \in DOMAIN query : Relates(k, Permissions!page, 0, 0) = 0
  BY DEF Relates
<1>5. RelationsEntries
  BY <1>1, <1>2, <1>3, <1>4, EntryStart DEF RelationsEntries
<1>6. \A k \in DOMAIN query : Contents(query[k]) = {}
  BY <1>1 DEF Contents, Common!Fetched, Common!Unfetched
<1>7. IsQueue(<<>>)
  BY CallsStart DEF CallsOK
<1>8. Permissions!PagesFollowEachOther
  <2>1. Len(Append(<<>>, 0)) = 1 /\ Append(<<>>, 0)[1] = 0 /\ 2..1 = {}
    OBVIOUS
  <2> QED
    BY <1>2, <2>1 DEF Permissions!PagesFollowEachOther
<1>9. RelationsWay
  BY <1>2, <1>6, <1>7, <1>8 DEF RelationsWay
<1> QED
  BY <1>2, <1>5, <1>9, CallsStart DEF RelationsInv, Counted

\* What stays true of the rows when no entry has other contents.
LEMMA RelationsKept ==
  ASSUME \A k \in DOMAIN query : \A d \in Contents(query[k]) : RowsAreAfter(k, d), ContentsKept
  PROVE  \A k \in DOMAIN query' : \A d \in Contents(query'[k]) : RowsAreAfter(k, d)
BY DEF ContentsKept

\* Mounting a tab on its entry changes only that entry.
LEMMA RelationsMounted ==
  ASSUME NEW k, NEW n, query' = Common!Mounted(k),
         k \in DOMAIN query => Entry(query[k], n), k \notin DOMAIN query => n = 0
  PROVE  /\ DOMAIN query' = DOMAIN query \cup {k} /\ Entry(query'[k], n)
         /\ \A x \in DOMAIN query \ {k} : query'[x] = query[x]
<1> DEFINE u == IF k \in DOMAIN query THEN query[k] ELSE Common!Unfetched
<1>1. Entry(Common!Unfetched, 0)
  BY DEF Entry, Common!Unfetched
<1>2. Entry(u, n)
  BY <1>1
<1>3. Entry(Common!Opened(u), n)
  BY <1>2, EntryOpened
<1>4. /\ DOMAIN query' = DOMAIN query \cup {k} /\ query'[k] = Common!Opened(u)
      /\ \A x \in DOMAIN query' \ {k} : query'[x] = query[x]
  BY DEF Common!Mounted
<1> HIDE DEF u
<1> QED
  BY <1>3, <1>4

\* Another page of tuples comes on the screen.
LEMMA RelationsShow ==
  ASSUME RelationsInv, NEW u, Permissions!Show(u), DOMAIN u = RelationsFields, u.wrote = 0,
         u.wroteCaveat = ui.wroteCaveat, u.tab = ui.tab, u.caveat = ui.caveat,
         IsQueue(u.history), Permissions!PagesFollowEachOther'
  PROVE  RelationsInv'
<1> DEFINE k == Permissions!pageOf(u)
<1>1. ui' = u /\ query' = Permissions!Mounted(k) /\ UNCHANGED <<db, calls>>
  BY DEF Permissions!Show
<1>2. query' = Common!Mounted(k)
  BY <1>1 DEF Permissions!Mounted, Common!Mounted, Permissions!Opened, Common!Opened,
              Permissions!Unfetched, Common!Unfetched, Permissions!Fetched, Common!Fetched
<1>3. Permissions!page' = k
  BY <1>1 DEF Permissions!page
<1>4. \A x \in DOMAIN query : Entry(query[x], 0)
  BY EntryOfAnother DEF RelationsInv, RelationsEntries
<1>5. k.kind = "tuples" /\ k # Permissions!caveats
  BY RelationsKeys
<1> HIDE DEF k
<1>6. /\ DOMAIN query' = DOMAIN query \cup {k} /\ Entry(query'[k], 0)
      /\ \A x \in DOMAIN query \ {k} : query'[x] = query[x]
  BY <1>2, <1>4, RelationsMounted
<1>7. \A x \in DOMAIN query' : Entry(query'[x], Relates(x, k, 0, ui.wroteCaveat))
  <2> TAKE x \in DOMAIN query'
  <2>1. CASE x = k
    BY <1>6, <2>1 DEF Relates
  <2>2. CASE x # k /\ x = Permissions!caveats
    <3>1. Permissions!page # Permissions!caveats
      BY RelationsKeys DEF Permissions!page
    <3>2. Entry(query[x], ui.wroteCaveat)
      BY <1>6, <2>2, <3>1 DEF RelationsInv, RelationsEntries, Relates
    <3> QED
      BY <1>6, <2>2, <3>2 DEF Relates
  <2>3. CASE x # k /\ x # Permissions!caveats
    BY <1>4, <1>6, <2>3 DEF Relates
  <2> QED
    BY <2>1, <2>2, <2>3
<1>8. RelationsEntries'
  <2>1. Permissions!schema' = Permissions!schema /\ Permissions!caveats' = Permissions!caveats
    BY DEF Permissions!schema, Permissions!caveats
  <2>2. \A x \in DOMAIN query' :
          x.kind = "tuples" \/ x \in {Permissions!schema, Permissions!caveats}
    BY <1>5, <1>6 DEF RelationsInv, RelationsEntries
  <2> QED
    BY <1>1, <1>3, <1>6, <1>7, <2>1, <2>2 DEF RelationsInv, RelationsEntries
<1>9. ContentsKept
  BY <1>2, ContentsMounted
<1>10. RelationsWay'
  BY <1>1, <1>9, RelationsKept DEF RelationsInv, RelationsWay
<1> QED
  BY <1>1, <1>6, <1>8, <1>10 DEF RelationsInv, Counted

\* Going back to the first page of the tuples empties the history.
LEMMA RelationsFirst ==
  ASSUME NEW u, u.history = <<>>, u.cursor = 0, ui' = u
  PROVE  IsQueue(u.history) /\ Permissions!PagesFollowEachOther'
<1>1. IsQueue(<<>>)
  BY CallsStart DEF CallsOK
<1>2. Len(Append(<<>>, 0)) = 1 /\ Append(<<>>, 0)[1] = 0 /\ 2..1 = {}
  OBVIOUS
<1>3. Append(ui'.history, ui'.cursor) = Append(<<>>, 0)
  OBVIOUS
<1> QED
  BY <1>1, <1>2, <1>3 DEF Permissions!PagesFollowEachOther

\* Going from page to page of the tuples keeps the invariant.
LEMMA RelationsBrowse ==
  ASSUME RelationsInv,
         \/ Permissions!handlePageSizeChange
         \/ Permissions!handleNextPage \/ Permissions!handlePrevPage
  PROVE  RelationsInv'
<1>0. DOMAIN ui = RelationsFields
  BY DEF RelationsInv
<1>1. CASE Permissions!handlePageSizeChange
  <2>1. PICK n :
          Permissions!Show([ui EXCEPT !.size = n, !.cursor = 0, !.history = <<>>, !.wrote = 0])
    BY <1>1 DEF Permissions!handlePageSizeChange
  <2> DEFINE u == [ui EXCEPT !.size = n, !.cursor = 0, !.history = <<>>, !.wrote = 0]
  <2>2. /\ DOMAIN u = RelationsFields /\ u.wrote = 0 /\ u.history = <<>> /\ u.cursor = 0
        /\ u.wroteCaveat = ui.wroteCaveat /\ u.tab = ui.tab /\ u.caveat = ui.caveat
    BY <1>0 DEF RelationsFields
  <2>3. ui' = u /\ Permissions!Show(u)
    BY <2>1 DEF Permissions!Show
  <2> HIDE DEF u
  <2>4. IsQueue(u.history) /\ Permissions!PagesFollowEachOther'
    BY <2>2, <2>3, RelationsFirst
  <2> QED
    BY <2>2, <2>3, <2>4, RelationsShow
<1>2. CASE Permissions!handleNextPage
  <2>1. PICK d \in query[Permissions!page].data : \E x \in d.rows :
          Permissions!Show([ui EXCEPT !.history = Append(@, ui.cursor), !.cursor = x, !.wrote = 0])
    BY <1>2 DEF Permissions!handleNextPage
  <2>2. PICK c \in d.rows :
          Permissions!Show([ui EXCEPT !.history = Append(@, ui.cursor), !.cursor = c, !.wrote = 0])
    BY <2>1
  <2> DEFINE h == ui.history
             p == Append(h, ui.cursor)
             q == Append(p, c)
             u == [ui EXCEPT !.history = p, !.cursor = c, !.wrote = 0]
  <2>3. ui.cursor < c
    <3>1. Permissions!page \in DOMAIN query /\ d \in Contents(query[Permissions!page])
      BY <2>1 DEF RelationsInv, RelationsEntries, Contents
    <3>2. RowsAreAfter(Permissions!page, d)
      BY <3>1 DEF RelationsInv, RelationsWay
    <3> QED
      BY <3>2, RelationsKeys DEF RowsAreAfter, Permissions!page
  <2>4. /\ DOMAIN u = RelationsFields /\ u.wrote = 0 /\ u.history = p /\ u.cursor = c
        /\ u.wroteCaveat = ui.wroteCaveat /\ u.tab = ui.tab /\ u.caveat = ui.caveat
        /\ ui' = u /\ Permissions!Show(u)
    BY <1>0, <2>2 DEF RelationsFields, Permissions!Show
  <2>5. /\ IsQueue(p) /\ Len(h) \in Nat
        /\ Len(p) = Len(h) + 1 /\ Len(q) = Len(h) + 2
        /\ \A k \in 1..(Len(h) + 1) : q[k] = p[k]
        /\ p[Len(h) + 1] = ui.cursor /\ q[Len(h) + 2] = c
    <3>1. IsQueue(h)
      BY DEF RelationsInv, RelationsWay
    <3> QED
      BY <3>1, WayNext
  <2>6. p[1] = 0 /\ \A k \in 2..Len(p) : p[k - 1] < p[k]
    BY DEF RelationsInv, RelationsWay, Permissions!PagesFollowEachOther
  <2>7. q[1] = 0 /\ \A k \in 2..Len(q) : q[k - 1] < q[k]
    <3> HIDE DEF p, q, h
    <3>1. q[1] = 0
      BY <2>5, <2>6
    <3>2. ASSUME NEW k \in 2..(Len(h) + 1)
          PROVE  q[k - 1] < q[k]
      <4>1. p[k - 1] < p[k]
        BY <2>5, <2>6
      <4>2. q[k - 1] = p[k - 1] /\ q[k] = p[k]
        BY <2>5
      <4> QED
        BY <4>1, <4>2
    <3>3. q[Len(h) + 2 - 1] < q[Len(h) + 2]
      <4>1. q[Len(h) + 1] = ui.cursor
        BY <2>5
      <4>2. Len(h) + 2 - 1 = Len(h) + 1
        BY <2>5
      <4> QED
        BY <2>3, <2>5, <4>1, <4>2
    <3>4. \A k \in 2..Len(q) : k \in 2..(Len(h) + 1) \/ k = Len(h) + 2
      BY <2>5
    <3> QED
      BY <3>1, <3>2, <3>3, <3>4
  <2>8. Permissions!PagesFollowEachOther'
    <3> HIDE DEF p, q, h, u
    <3>1. Append(ui'.history, ui'.cursor) = q
      BY <2>4 DEF q
    <3> QED
      BY <2>7, <3>1 DEF Permissions!PagesFollowEachOther
  <2> HIDE DEF p, q, h, u
  <2>9. IsQueue(u.history)
    BY <2>4, <2>5
  <2> QED
    BY <2>4, <2>8, <2>9, RelationsShow
<1>3. CASE Permissions!handlePrevPage
  <2> DEFINE h == ui.history
             n == Len(h)
             f == SubSeq(h, 1, n - 1)
             u == [ui EXCEPT !.history = f, !.cursor = h[n], !.wrote = 0]
             p == Append(f, h[n])
             q == Append(h, ui.cursor)
  <2>1. h # <<>> /\ Permissions!Show(u)
    <3>1. /\ ui.history # <<>>
          /\ Permissions!Show([ui EXCEPT !.history = SubSeq(@, 1, Len(ui.history) - 1),
                                         !.cursor = ui.history[Len(ui.history)], !.wrote = 0])
      BY <1>3 DEF Permissions!handlePrevPage
    <3> QED
      BY <3>1
  <2>2. /\ DOMAIN u = RelationsFields /\ u.wrote = 0 /\ u.history = f /\ u.cursor = h[n]
        /\ u.wroteCaveat = ui.wroteCaveat /\ u.tab = ui.tab /\ u.caveat = ui.caveat
        /\ ui' = u
    <3> HIDE DEF f, n, h
    <3> QED
      BY <1>0, <2>1 DEF RelationsFields, Permissions!Show
  <2>3. /\ IsQueue(f) /\ n \in Nat \ {0} /\ Len(p) = n /\ Len(q) = n + 1
        /\ \A k \in 1..n : p[k] = q[k]
    <3>1. IsQueue(h)
      BY DEF RelationsInv, RelationsWay
    <3> QED
      BY <2>1, <3>1, WayBack
  <2>4. q[1] = 0 /\ \A k \in 2..Len(q) : q[k - 1] < q[k]
    BY DEF RelationsInv, RelationsWay, Permissions!PagesFollowEachOther
  <2>5. p[1] = 0 /\ \A k \in 2..Len(p) : p[k - 1] < p[k]
    <3> HIDE DEF p, q, n
    <3>1. p[1] = 0
      BY <2>3, <2>4
    <3>2. ASSUME NEW k \in 2..n
          PROVE  p[k - 1] < p[k]
      <4>1. q[k - 1] < q[k]
        BY <2>3, <2>4
      <4>2. q[k - 1] = p[k - 1] /\ q[k] = p[k]
        BY <2>3
      <4> QED
        BY <4>1, <4>2
    <3> QED
      BY <2>3, <3>1, <3>2
  <2>6. Permissions!PagesFollowEachOther'
    <3> HIDE DEF p, q, h, n, f, u
    <3>1. Append(ui'.history, ui'.cursor) = p
      BY <2>2 DEF p
    <3> QED
      BY <2>5, <3>1 DEF Permissions!PagesFollowEachOther
  <2>7. IsQueue(u.history)
    BY <2>2, <2>3
  <2> HIDE DEF u
  <2> QED
    BY <2>1, <2>2, <2>6, <2>7, RelationsShow
<1> QED
  BY <1>1, <1>2, <1>3

\* Turning to another tab mounts its list and forgets what the last one was
\* told of.
LEMMA RelationsSetTab ==
  ASSUME RelationsInv, NEW t, Permissions!setTab(t)
  PROVE  RelationsInv'
<1>1. /\ ui' = [ui EXCEPT !.tab = t, !.editor = Permissions!Closed, !.caveat = {},
                          !.wroteCaveat = 0]
      /\ query' = IF t = "caveats" THEN Permissions!Mounted(Permissions!caveats) ELSE query
      /\ UNCHANGED <<db, calls>>
  BY DEF Permissions!setTab
<1>2. /\ DOMAIN ui' = DOMAIN ui /\ ui'.tab = t /\ ui'.wrote = ui.wrote /\ ui'.wroteCaveat = 0
      /\ ui'.caveat = {} /\ ui'.history = ui.history /\ ui'.cursor = ui.cursor
      /\ ui'.size = ui.size
  <2>1. DOMAIN ui = RelationsFields
    BY DEF RelationsInv
  <2> DEFINE none == {}
  <2>2. ui' = [ui EXCEPT !.tab = t, !.editor = Permissions!Closed, !.caveat = none,
                          !.wroteCaveat = 0]
    BY <1>1
  <2> HIDE DEF none
  <2>3. /\ DOMAIN ui' = DOMAIN ui /\ ui'.tab = t /\ ui'.wrote = ui.wrote /\ ui'.wroteCaveat = 0
        /\ ui'.caveat = none /\ ui'.history = ui.history /\ ui'.cursor = ui.cursor
        /\ ui'.size = ui.size
    BY <2>1, <2>2 DEF RelationsFields
  <2> QED
    BY <2>3 DEF none
<1>3. /\ Permissions!page' = Permissions!page /\ Permissions!PagesFollowEachOther'
      /\ Permissions!schema' = Permissions!schema /\ Permissions!caveats' = Permissions!caveats
  BY <1>2 DEF Permissions!page, Permissions!pageOf, Permissions!schema, Permissions!caveats,
              RelationsInv, RelationsWay, Permissions!PagesFollowEachOther
<1>4. Permissions!page # Permissions!caveats /\ Permissions!schema # Permissions!caveats
  BY RelationsKeys DEF Permissions!page
<1>5. /\ DOMAIN query \subseteq DOMAIN query'
      /\ DOMAIN query' \subseteq DOMAIN query \cup {Permissions!caveats}
      /\ t = "caveats" => Permissions!caveats \in DOMAIN query'
      /\ \A x \in DOMAIN query \ {Permissions!caveats} : query'[x] = query[x]
      /\ Permissions!caveats \in DOMAIN query' => Entry(query'[Permissions!caveats], 0)
      /\ ContentsKept \/ UNCHANGED query
  <2>1. Permissions!caveats \in DOMAIN query => Entry(query[Permissions!caveats], 0)
    BY EntryOfAnother DEF RelationsInv, RelationsEntries
  <2>2. CASE t = "caveats"
    <3>1. query' = Common!Mounted(Permissions!caveats)
      BY <1>1, <2>2
      DEF Permissions!Mounted, Common!Mounted, Permissions!Opened, Common!Opened,
          Permissions!Unfetched, Common!Unfetched, Permissions!Fetched, Common!Fetched
    <3>2. ContentsKept
      BY <3>1, ContentsMounted
    <3>3. /\ DOMAIN query' = DOMAIN query \cup {Permissions!caveats}
          /\ Entry(query'[Permissions!caveats], 0)
          /\ \A x \in DOMAIN query \ {Permissions!caveats} : query'[x] = query[x]
      BY <2>1, <3>1, RelationsMounted
    <3> QED
      BY <3>2, <3>3
  <2>3. CASE t # "caveats"
    BY <1>1, <2>1, <2>3
  <2> QED
    BY <2>2, <2>3
<1>6. \A x \in DOMAIN query' : Entry(query'[x], Relates(x, Permissions!page, ui.wrote, 0))
  <2> TAKE x \in DOMAIN query'
  <2>1. CASE x = Permissions!caveats
    BY <1>4, <1>5, <2>1 DEF Relates
  <2>2. CASE x # Permissions!caveats
    <3>1. x \in DOMAIN query /\ query'[x] = query[x]
      BY <1>5, <2>2
    <3>2. Entry(query[x], Relates(x, Permissions!page, ui.wrote, ui.wroteCaveat))
      BY <3>1 DEF RelationsInv, RelationsEntries
    <3> QED
      BY <2>2, <3>1, <3>2 DEF Relates
  <2> QED
    BY <2>1, <2>2
<1>7. RelationsEntries'
  BY <1>2, <1>3, <1>5, <1>6 DEF RelationsInv, RelationsEntries
<1>8. RelationsWay'
  BY <1>2, <1>3, <1>5, RelationsKept DEF RelationsInv, RelationsWay
<1> QED
  BY <1>1, <1>2, <1>5, <1>7, <1>8, <1>3 DEF RelationsInv, Counted

\* The entries and the way to the page stay as they are.
RelationsQuiet ==
  /\ UNCHANGED query /\ DOMAIN ui' = DOMAIN ui /\ ui'.tab = ui.tab
  /\ ui'.wrote = ui.wrote /\ ui'.wroteCaveat = ui.wroteCaveat
  /\ ui'.history = ui.history /\ ui'.cursor = ui.cursor /\ ui'.size = ui.size

\* A step that touches neither the cache nor the place in the list keeps both.
LEMMA RelationsQuietly ==
  ASSUME RelationsInv, RelationsQuiet
  PROVE  /\ RelationsEntries' /\ RelationsWay' /\ DOMAIN ui' = RelationsFields
         /\ Permissions!caveats' = Permissions!caveats
<1>1. /\ Permissions!page' = Permissions!page /\ Permissions!PagesFollowEachOther'
      /\ Permissions!schema' = Permissions!schema /\ Permissions!caveats' = Permissions!caveats
  BY DEF RelationsQuiet, Permissions!page, Permissions!pageOf, Permissions!schema,
         Permissions!caveats, RelationsInv, RelationsWay, Permissions!PagesFollowEachOther
<1> QED
  BY <1>1 DEF RelationsInv, RelationsQuiet, RelationsEntries, RelationsWay

\* What the user does on the permissions page keeps its invariant.
LEMMA RelationsClick ==
  ASSUME RelationsInv,
         \/ Permissions!EditQuery \/ Permissions!handleSimulate \/ Permissions!EditTuple
         \/ Permissions!handleSubmit \/ Permissions!onDelete \/ Permissions!EditSchema
         \/ Permissions!handleCancel \/ Permissions!handleSave \/ Permissions!EditCaveat
         \/ Permissions!handleDefine \/ Permissions!handleForget
  PROVE  RelationsInv'
<1> DEFINE More(op) ==
      \E arg, stage : calls' = Append(calls, [op |-> op, arg |-> arg, stage |-> stage])
<1>0. DOMAIN ui = RelationsFields
  BY DEF RelationsInv
<1>1. CASE \/ Permissions!EditQuery \/ Permissions!EditTuple \/ Permissions!EditSchema
           \/ Permissions!handleCancel \/ Permissions!EditCaveat
  <2>1. /\ RelationsQuiet /\ UNCHANGED <<db, calls>>
        /\ ui.tab # "caveats" => ui'.caveat = ui.caveat
    BY <1>0, <1>1
    DEF Permissions!EditQuery, Permissions!EditTuple, Permissions!EditSchema,
        Permissions!handleCancel, Permissions!EditCaveat, Permissions!Only, RelationsFields,
        RelationsQuiet
  <2> QED
    BY <2>1, RelationsQuietly DEF RelationsInv, Counted, RelationsQuiet
<1>2. CASE \/ Permissions!handleSimulate \/ Permissions!handleSubmit \/ Permissions!onDelete
           \/ Permissions!handleSave \/ Permissions!handleDefine \/ Permissions!handleForget
  <2>1. UNCHANGED <<db, query, ui>>
    BY <1>2
    DEF Permissions!handleSimulate, Permissions!handleSubmit, Permissions!onDelete,
        Permissions!handleSave, Permissions!handleDefine, Permissions!handleForget, Permissions!Send
  <2>2. \E op \in RelationsCalls :
          More(op) /\ (op \in {"define", "forget"} => ui.tab = "caveats")
    BY <1>2
    DEF Permissions!handleSimulate, Permissions!handleSubmit, Permissions!onDelete,
        Permissions!handleSave, Permissions!handleDefine, Permissions!handleForget,
        Permissions!Send, Permissions!Sent, Permissions!Asked, RelationsInv, RelationsCalls
  <2> HIDE DEF More
  <2>3. PICK op \in RelationsCalls :
          More(op) /\ (op \in {"define", "forget"} => ui.tab = "caveats")
    BY <2>2
  <2>4. PICK arg, stage : calls' = Append(calls, [op |-> op, arg |-> arg, stage |-> stage])
    BY <2>3 DEF More
  <2>5. CallsOK(calls') /\ InFlight(calls')
          = InFlight(calls) \cup {[op |-> op, arg |-> arg, stage |-> stage]}
    BY <2>4, CallsSent DEF RelationsInv
  <2>6. RelationsEntries' /\ RelationsWay' /\ Permissions!caveats' = Permissions!caveats
    BY <2>1, RelationsQuietly DEF RelationsQuiet
  <2> QED
    BY <2>1, <2>3, <2>5, <2>6 DEF RelationsInv, Counted
<1> QED
  BY <1>1, <1>2

\* What the engines do with a request.
LEMMA RelationsEngine ==
  ASSUME RelationsInv, NEW i \in DOMAIN calls, Permissions!Engine(i)
  PROVE  RelationsInv'
<1>1. \A f, v : f # "seq" => NotBefore(Permissions!With(f, v))
  BY DEF Permissions!With, NotBefore, RelationsInv, Counted
<1>2. \/ Permissions!Refuse(i)
      \/ \E new : NotBefore(new) /\ Permissions!Handle(i, new)
      \/ /\ calls' = [calls EXCEPT ![i].stage = "done"]
         /\ UNCHANGED <<query, ui>>
         /\ NotBefore(db')
  <2>1. NotBefore(db)
    BY DEF NotBefore, RelationsInv, Counted
  <2>2. CASE \E f, v : f # "seq" /\ Permissions!Handle(i, Permissions!With(f, v))
    BY <1>1, <2>2
  <2>3. CASE /\ \E v : db' \in {db, Permissions!With("schema", v)}
             /\ calls' = [calls EXCEPT ![i].stage = "done"]
             /\ UNCHANGED <<query, ui>>
    BY <1>1, <2>1, <2>3
  <2> QED
    BY <2>2, <2>3 DEF Permissions!Engine
<1>3. /\ CallsOK(calls') /\ Continued(calls, calls') /\ UNCHANGED <<query, ui>>
      /\ Counted(ui.wrote)' /\ Counted(ui.wroteCaveat)'
  <2>1. CASE Permissions!Refuse(i) \/ \E new : NotBefore(new) /\ Permissions!Handle(i, new)
    <3>1. Common!Refuse(i) \/ \E new : NotBefore(new) /\ Common!Handle(i, new)
      BY <2>1 DEF Permissions!Handle, Permissions!Refuse, Common!Handle, Common!Refuse
    <3>2. /\ CallsOK(calls') /\ Continued(calls, calls') /\ UNCHANGED <<query, ui>>
          /\ Counted(ui.wrote)'
      BY <3>1, CallsEngine DEF RelationsInv, Counted
    <3>3. Counted(ui.wroteCaveat)'
      BY <3>1, CallsEngine DEF RelationsInv, Counted
    <3> QED
      BY <3>2, <3>3
  <2>2. CASE /\ calls' = [calls EXCEPT ![i].stage = "done"]
             /\ UNCHANGED <<query, ui>>
             /\ NotBefore(db')
    <3>1. CallsOK(calls') /\ Continued(calls, calls')
      BY <2>2, CallsStage DEF RelationsInv
    <3> QED
      BY <2>2, <3>1, CountedLater DEF RelationsInv, Counted
  <2> QED
    BY <1>2, <2>1, <2>2
<1>4. RelationsEntries' /\ RelationsWay' /\ Permissions!caveats' = Permissions!caveats
  BY <1>3, RelationsQuietly DEF RelationsQuiet
<1>5. \A c \in InFlight(calls') : \E b \in InFlight(calls) : b.op = c.op
  BY <1>3 DEF Continued
<1> QED
  BY <1>3, <1>4, <1>5 DEF RelationsInv

\* What a response leaves as it is.
RelationsStays ==
  /\ UNCHANGED db /\ DOMAIN ui' = DOMAIN ui /\ ui'.tab = ui.tab
  /\ ui'.history = ui.history /\ ui'.cursor = ui.cursor /\ ui'.size = ui.size
  /\ ui'.caveat \in {ui.caveat, {}}

\* What the page makes of a response: it is told of a change of a list that it shows,
\* and fetches it.
LEMMA RelationsTold ==
  ASSUME RelationsInv, NEW w, NEW v, RelationsStays,
         ui'.wrote = w, ui'.wroteCaveat = v, w \in {ui.wrote, db.seq},
         v = ui.wroteCaveat \/ (v = db.seq /\ ui.tab = "caveats"),
         CallsOK(calls'), InFlight(calls') \subseteq InFlight(calls),
         DOMAIN query' = DOMAIN query,
         \A k \in DOMAIN query : Entry(query'[k], Relates(k, Permissions!page, w, v)),
         \A k \in DOMAIN query : k.kind = "tuples" => Contents(query'[k]) \subseteq Contents(query[k])
  PROVE  RelationsInv'
<1>1. /\ Permissions!page' = Permissions!page /\ Permissions!PagesFollowEachOther'
      /\ Permissions!schema' = Permissions!schema /\ Permissions!caveats' = Permissions!caveats
  BY DEF RelationsStays, Permissions!page, Permissions!pageOf, Permissions!schema,
         Permissions!caveats, RelationsInv, RelationsWay, Permissions!PagesFollowEachOther
<1>2. RelationsEntries'
  BY <1>1 DEF RelationsInv, RelationsEntries
<1>3. \A k \in DOMAIN query' : \A d \in Contents(query'[k]) : RowsAreAfter(k, d)
  BY DEF RelationsInv, RelationsWay, RowsAreAfter
<1>4. RelationsWay'
  BY <1>1, <1>3 DEF RelationsInv, RelationsWay, RelationsStays
<1>5. Counted(ui.wrote)' /\ Counted(ui.wroteCaveat)'
  BY DEF RelationsInv, RelationsStays, Counted
<1>6. DOMAIN ui' = RelationsFields
  BY DEF RelationsInv, RelationsStays
<1>7. ui'.tab # "caveats" => ui'.wroteCaveat = 0 /\ ui'.caveat = {}
  BY DEF RelationsInv, RelationsStays
<1>8. ui'.tab = "caveats" \/ (\E c \in InFlight(calls') : c.op \in {"define", "forget"}) =>
        Permissions!caveats \in DOMAIN query
  BY DEF RelationsInv, RelationsStays
<1> QED
  BY <1>1, <1>2, <1>4, <1>5, <1>6, <1>7, <1>8 DEF RelationsInv

\* The answer to a change of a tuple, the schema or a caveat invalidates the
\* list of its tab only.
LEMMA RelationsReturn ==
  ASSUME RelationsInv, NEW i \in DOMAIN calls, Permissions!Return(i)
  PROVE  RelationsInv'
<1> DEFINE c == calls[i]
           p == Permissions!page
           r == Permissions!caveats
           none == {}
           fetch(k) == Common!Fetched(query[k])
           mark(k) == [query[k] EXCEPT !.stale = TRUE]
<1>1. c.op \in RelationsCalls /\ c \in InFlight(calls) /\ DOMAIN ui = RelationsFields
  BY DEF RelationsInv, InFlight
<1>2. CallsOK(calls') /\ InFlight(calls') \subseteq InFlight(calls) /\ UNCHANGED db
  BY CallsSettled DEF Permissions!Return, Permissions!Settled, Rest, RelationsInv
<1>3. /\ p \in DOMAIN query /\ Permissions!schema \in DOMAIN query
      /\ p.kind = "tuples" /\ p # r /\ Permissions!schema # p /\ Permissions!schema # r
      /\ r.kind # "tuples" /\ Permissions!schema.kind # "tuples"
  BY RelationsKeys DEF RelationsInv, RelationsEntries, Permissions!page
<1>4. \A k \in DOMAIN query : Entry(query[k], Relates(k, p, ui.wrote, ui.wroteCaveat))
  BY DEF RelationsInv, RelationsEntries
<1>5. \A k : Permissions!Fetched(query[k]) = fetch(k)
  BY DEF Permissions!Fetched, Common!Fetched
<1>6. CASE c.op \in {"create", "delete"}
  <2> DEFINE w == Permissions!ShownFrom(p, ui.wrote)
  <2>1. RelationsStays /\ ui'.wrote = w /\ ui'.wroteCaveat = ui.wroteCaveat
    <3>1. \/ ui' = [ui EXCEPT !.tuple = none, !.wrote = w]
          \/ ui' = [ui EXCEPT !.wrote = w]
      BY <1>6 DEF Permissions!Return
    <3> HIDE DEF none, w
    <3>2. ui'.caveat = ui.caveat /\ ui'.wrote = w /\ ui'.wroteCaveat = ui.wroteCaveat
          /\ DOMAIN ui' = DOMAIN ui /\ ui'.tab = ui.tab
          /\ ui'.history = ui.history /\ ui'.cursor = ui.cursor /\ ui'.size = ui.size
      BY <1>1, <3>1 DEF RelationsFields
    <3> QED
      BY <1>2, <3>2 DEF RelationsStays
  <2>2. query' = [k \in DOMAIN query |-> IF k.kind # "tuples" THEN query[k]
                                         ELSE IF k = p THEN fetch(k) ELSE mark(k)]
    BY <1>5, <1>6 DEF Permissions!Return
  <2>3. w = IF query[p].data = {} /\ query[p].answer # {} THEN ui.wrote ELSE db.seq
    BY DEF Permissions!ShownFrom
  <2>4. ASSUME NEW k \in DOMAIN query
        PROVE  /\ Entry(query'[k], Relates(k, p, w, ui.wroteCaveat))
               /\ k.kind = "tuples" => Contents(query'[k]) \subseteq Contents(query[k])
    <3>1. CASE k = p
      <4>1. query'[k] = fetch(p)
        BY <1>3, <2>2, <3>1
      <4>2. Entry(query[p], ui.wrote)
        BY <1>3, <1>4 DEF Relates
      <4>3. Entry(fetch(p), w)
        BY <2>3, <4>2, EntryFetched
      <4> HIDE DEF fetch, w
      <4> QED
        BY <3>1, <4>1, <4>3, ContentsFetched DEF Relates, fetch
    <3>2. CASE k # p /\ k.kind = "tuples"
      <4>1. query'[k] = mark(k)
        BY <2>2, <3>2
      <4>2. Entry(query[k], 0)
        BY <1>4, EntryOfAnother
      <4>3. Entry(mark(k), 0) /\ Contents(mark(k)) \subseteq Contents(query[k])
        BY <4>2, EntryMarked, ContentsMarked
      <4>4. k # r
        BY <1>3, <3>2
      <4> HIDE DEF mark
      <4> QED
        BY <3>2, <4>1, <4>3, <4>4 DEF Relates
    <3>3. CASE k.kind # "tuples"
      <4>1. query'[k] = query[k] /\ k # p
        BY <1>3, <2>2, <3>3
      <4> QED
        BY <1>4, <3>3, <4>1 DEF Relates
    <3> QED
      BY <3>1, <3>2, <3>3
  <2>5. w \in {ui.wrote, db.seq} /\ DOMAIN query' = DOMAIN query
    BY <2>2, <2>3
  <2> HIDE DEF w
  <2> QED
    BY <1>2, <2>1, <2>4, <2>5, RelationsTold
<1>7. CASE c.op \in {"define", "forget"}
  <2> DEFINE v == Permissions!WroteCaveat
             e == IF ui.tab = "caveats" THEN fetch(r) ELSE mark(r)
  <2>0. r \in DOMAIN query
    BY <1>1, <1>7 DEF RelationsInv
  <2>1. RelationsStays /\ ui'.wrote = ui.wrote /\ ui'.wroteCaveat = v
    <3>1. \/ ui' = [ui EXCEPT !.caveat = none, !.formError = FALSE, !.wroteCaveat = v]
          \/ ui' = [ui EXCEPT !.wroteCaveat = v]
      BY <1>7 DEF Permissions!Return
    <3> HIDE DEF none, v
    <3>2. ui'.caveat \in {ui.caveat, none} /\ ui'.wrote = ui.wrote /\ ui'.wroteCaveat = v
          /\ DOMAIN ui' = DOMAIN ui /\ ui'.tab = ui.tab
          /\ ui'.history = ui.history /\ ui'.cursor = ui.cursor /\ ui'.size = ui.size
      BY <1>1, <3>1 DEF RelationsFields
    <3> QED
      BY <1>2, <3>2 DEF RelationsStays, none
  <2>2. query' = [query EXCEPT ![r] = e]
    <3>1. query' = [query EXCEPT ![r] =
                      IF ui.tab = "caveats" THEN Permissions!Fetched(query[r])
                      ELSE [query[r] EXCEPT !.stale = TRUE]]
      BY <1>7 DEF Permissions!Return
    <3> QED
      BY <1>5, <3>1
  <2>3. v = IF ui.tab # "caveats" \/ (query[r].data = {} /\ query[r].answer # {})
            THEN ui.wroteCaveat ELSE db.seq
    BY DEF Permissions!WroteCaveat, Permissions!ShownFrom
  <2>4. Entry(e, v)
    <3>1. Entry(query[r], ui.wroteCaveat)
      BY <1>3, <1>4, <2>0 DEF Relates
    <3>2. CASE ui.tab = "caveats"
      BY <2>3, <3>1, <3>2, EntryFetched
    <3>3. CASE ui.tab # "caveats"
      BY <2>3, <3>1, <3>3, EntryMarked
    <3> QED
      BY <3>2, <3>3
  <2>5. v = ui.wroteCaveat \/ (v = db.seq /\ ui.tab = "caveats")
    BY <2>3
  <2>6. ASSUME NEW k \in DOMAIN query
        PROVE  /\ Entry(query'[k], Relates(k, p, ui.wrote, v))
               /\ k.kind = "tuples" => Contents(query'[k]) \subseteq Contents(query[k])
    <3> HIDE DEF e, v
    <3>1. CASE k = r
      BY <1>3, <2>2, <2>4, <3>1 DEF Relates
    <3>2. CASE k # r
      <4>1. query'[k] = query[k]
        BY <2>2, <3>2
      <4> QED
        BY <1>4, <3>2, <4>1 DEF Relates
    <3> QED
      BY <3>1, <3>2
  <2>7. DOMAIN query' = DOMAIN query
    BY <2>2
  <2> HIDE DEF v
  <2> QED
    BY <1>2, <2>1, <2>5, <2>6, <2>7, RelationsTold
<1>8. CASE c.op = "schema"
  <2> DEFINE s == Permissions!schema
             e == [query[s] EXCEPT !.failed = FALSE, !.stale = FALSE,
                                   !.data = {[seq |-> db.seq, text |-> c.arg]}]
  <2>1. RelationsStays /\ ui'.wrote = ui.wrote /\ ui'.wroteCaveat = ui.wroteCaveat
    <3>1. ui' = [ui EXCEPT !.editor = Permissions!Closed]
      BY <1>8 DEF Permissions!Return
    <3> QED
      BY <1>1, <1>2, <3>1 DEF RelationsStays, RelationsFields
  <2>2. query' = [query EXCEPT ![s] = e]
    <3>1. query' = [query EXCEPT ![s] = [@ EXCEPT !.failed = FALSE, !.stale = FALSE,
                                           !.data = {[seq |-> db.seq, text |-> c.arg]}]]
      BY <1>8 DEF Permissions!Return
    <3> QED
      BY <3>1
  <2>3. Entry(e, 0)
    <3>1. Entry(query[s], 0)
      BY <1>3, <1>4 DEF Relates
    <3>2. db.seq \in Nat
      BY DEF RelationsInv, Counted
    <3> DEFINE d == {[seq |-> db.seq, text |-> c.arg]}
    <3>3. \A x \in d : x.seq = db.seq
      OBVIOUS
    <3> HIDE DEF d
    <3>4. Entry([query[s] EXCEPT !.failed = FALSE, !.stale = FALSE, !.data = d], 0)
      BY <3>1, <3>2, <3>3 DEF Entry
    <3> QED
      BY <3>4 DEF d
  <2>4. ASSUME NEW k \in DOMAIN query
        PROVE  /\ Entry(query'[k], Relates(k, p, ui.wrote, ui.wroteCaveat))
               /\ k.kind = "tuples" => Contents(query'[k]) \subseteq Contents(query[k])
    <3> HIDE DEF e
    <3>1. CASE k = s
      BY <1>3, <2>2, <2>3, <3>1 DEF Relates
    <3>2. CASE k # s
      <4>1. query'[k] = query[k]
        BY <2>2, <3>2
      <4> QED
        BY <1>4, <3>2, <4>1
    <3> QED
      BY <3>1, <3>2
  <2>5. DOMAIN query' = DOMAIN query
    BY <2>2
  <2> QED
    BY <1>2, <2>1, <2>4, <2>5, RelationsTold
<1>9. CASE c.op = "check"
  <2>1. /\ ui' = [ui EXCEPT !.result = {[input |-> c.arg, answered |-> TRUE]}]
        /\ UNCHANGED query
    BY <1>9 DEF Permissions!Return
  <2>2. RelationsStays /\ ui'.wrote = ui.wrote /\ ui'.wroteCaveat = ui.wroteCaveat
    BY <1>1, <1>2, <2>1 DEF RelationsStays, RelationsFields
  <2> QED
    BY <1>2, <1>4, <2>1, <2>2, RelationsTold
<1> QED
  BY <1>1, <1>6, <1>7, <1>8, <1>9 DEF RelationsCalls

\* An error that answers a request of the permissions page keeps its invariant.
LEMMA RelationsReturnError ==
  ASSUME RelationsInv, NEW i \in DOMAIN calls, Permissions!ReturnError(i)
  PROVE  RelationsInv'
<1>1. DOMAIN ui = RelationsFields
  BY DEF RelationsInv
<1>2. CallsOK(calls') /\ InFlight(calls') \subseteq InFlight(calls) /\ UNCHANGED <<db, query>>
  BY CallsSettled DEF Permissions!ReturnError, Permissions!Settled, Rest, RelationsInv
<1>3. RelationsStays /\ ui'.wrote = ui.wrote /\ ui'.wroteCaveat = ui.wroteCaveat
  BY <1>1, <1>2 DEF RelationsStays, RelationsFields, Permissions!ReturnError
<1>4. \A k \in DOMAIN query : Entry(query[k], Relates(k, Permissions!page, ui.wrote, ui.wroteCaveat))
  BY DEF RelationsInv, RelationsEntries
<1> QED
  BY <1>2, <1>3, <1>4, RelationsTold

\* Every step of a fetch of the permissions page keeps its invariant.
LEMMA RelationsFetch ==
  ASSUME RelationsInv, NEW k \in DOMAIN query,
         \/ Permissions!Answer(k, Permissions!Read(k)) \/ Permissions!Deliver(k)
         \/ Permissions!Lose(k) \/ Permissions!Refetch(k)
  PROVE  RelationsInv'
<1> DEFINE v == Permissions!Read(k)
           w == Relates(k, Permissions!page, ui.wrote, ui.wroteCaveat)
<1>1. k.kind = "tuples" \/ k = Permissions!schema \/ k = Permissions!caveats
  BY DEF RelationsInv, RelationsEntries
<1>2. v.seq = db.seq
  BY <1>1, RelationsKeys DEF Permissions!Read
<1>3. RowsAreAfter(k, v)
  <2> SUFFICES ASSUME k.kind = "tuples", NEW x \in v.rows PROVE k.cursor < x
    BY DEF RowsAreAfter
  <2>1. k # Permissions!schema /\ k # Permissions!caveats
    BY RelationsKeys
  <2>2. x \in {y \in db.tuples : k.cursor < y}
    BY <2>1 DEF Permissions!Read
  <2> QED
    BY <2>2
<1>4. \/ Common!Answer(k, v) \/ Common!Deliver(k) \/ Common!Lose(k) \/ Common!Refetch(k)
  BY DEF Permissions!Refetch, Common!Refetch, Permissions!Answer, Common!Answer, Permissions!Deliver,
         Common!Deliver, Permissions!Lose, Common!Lose, Permissions!Unfetched, Common!Unfetched,
         Permissions!Fetched, Common!Fetched, Permissions!Spend, Common!Spend
<1>5. Entry(query[k], w) /\ v.seq \in Nat /\ v.seq >= w
  BY <1>2 DEF RelationsInv, RelationsEntries, Counted, Relates
<1> HIDE DEF v, w
<1>6. /\ DOMAIN query' = DOMAIN query /\ Entry(query'[k], w)
      /\ \A j \in DOMAIN query \ {k} : query'[j] = query[j]
      /\ UNCHANGED <<db, calls, ui>>
  BY <1>4, <1>5, EntryAnswered, EntryFetchEnds, EntryRefetched
<1>7. \A x \in DOMAIN query :
        Contents(query'[x]) \subseteq Contents(query[x]) \cup IF x = k THEN {v} ELSE {}
  BY <1>4, <1>5, ContentsAnswered
<1>8. /\ Permissions!page' = Permissions!page /\ Permissions!PagesFollowEachOther'
      /\ Permissions!schema' = Permissions!schema /\ Permissions!caveats' = Permissions!caveats
  BY <1>6 DEF Permissions!page, Permissions!schema, Permissions!caveats, RelationsInv,
              RelationsWay, Permissions!PagesFollowEachOther
<1>9. RelationsEntries'
  BY <1>6, <1>8 DEF RelationsInv, RelationsEntries, w
<1>10. RelationsWay'
  BY <1>3, <1>6, <1>7, <1>8 DEF RelationsInv, RelationsWay
<1> QED
  BY <1>6, <1>8, <1>9, <1>10 DEF RelationsInv, Counted

\* Every step of the permissions page keeps its invariant.
LEMMA RelationsStep ==
  ASSUME RelationsInv, Permissions!Next
  PROVE  RelationsInv'
<1>1. Permissions!page \in DOMAIN query
  BY DEF RelationsInv, RelationsEntries
<1> QED
  BY <1>1, RelationsSetTab, RelationsBrowse, RelationsClick, RelationsEngine, RelationsReturn,
     RelationsReturnError, RelationsFetch
  DEF Permissions!Next

-----------------------------------------------------------------------------
\* The sheet of an identity: while it shows one, the traits it edits are of that one.
SheetFields ==
  {"id", "suspended", "traits", "action", "saving", "sessions", "factors", "link", "said"}

IsTraits(t) == t = [of |-> t.of, edited |-> t.edited]
OfOneIdentity(u) ==
  /\ DOMAIN u = SheetFields
  /\ \A x, y \in u.id : x = y
  /\ \A t \in u.traits : IsTraits(t) /\ \A x \in u.id : t.of = x
SavesItsOwn(c) == c.op = "traits" => c.arg.traits.of = c.arg.id

IdentitySheetInv ==
  /\ OfOneIdentity(ui)
  /\ CallsOK(calls)
  /\ \A c \in InFlight(calls) : SavesItsOwn(c)

\* The identity sheet starts in its invariant.
LEMMA IdentitySheetStart ==
  ASSUME Sheet!Init
  PROVE  IdentitySheetInv
<1>1. OfOneIdentity(ui) /\ calls = <<>>
  BY DEF Sheet!Init, OfOneIdentity, SheetFields
<1> QED
  BY <1>1, CallsStart DEF IdentitySheetInv

\* What the user does on the identity sheet keeps its invariant.
LEMMA IdentitySheetClick ==
  ASSUME IdentitySheetInv,
         \/ \E x \in Identities : Sheet!Select(x)
         \/ Sheet!Close \/ Sheet!EditTraits \/ Sheet!handleSaveTraits
         \/ Sheet!handleResetPassword \/ Sheet!handleIssueRecoveryLink
         \/ Sheet!handleToggleSuspend \/ Sheet!handleRevokeSession
  PROVE  IdentitySheetInv'
<1>0. OfOneIdentity(ui)
  BY DEF IdentitySheetInv
<1>1. ASSUME NEW op, NEW arg, op = "traits" => arg.traits.of = arg.id,
             Sheet!Request(op, arg), OfOneIdentity(ui')
      PROVE  IdentitySheetInv'
  <2>1. PICK stage : calls' = Append(calls, [op |-> op, arg |-> arg, stage |-> stage])
    BY <1>1 DEF Sheet!Request, Sheet!Sent, Sheet!Asked
  <2> DEFINE c == [op |-> op, arg |-> arg, stage |-> stage]
  <2>2. CallsOK(calls') /\ InFlight(calls') = InFlight(calls) \cup {c}
    BY <2>1, CallsSent DEF IdentitySheetInv
  <2>3. SavesItsOwn(c)
    BY <1>1 DEF SavesItsOwn
  <2> HIDE DEF c
  <2> QED
    BY <1>1, <2>2, <2>3 DEF IdentitySheetInv, OfOneIdentity
<1>2. CASE \E x \in Identities : Sheet!Select(x)
  <2>1. PICK x : Sheet!Select(x)
    BY <1>2
  <2> DEFINE a == [op |-> "sessions", arg |-> x, stage |-> "asked"]
             b == [op |-> "mfa", arg |-> x, stage |-> "asked"]
  <2>2. CallsOK(Append(calls, a)) /\ InFlight(Append(calls, a)) = InFlight(calls) \cup {a}
    BY CallsSent DEF IdentitySheetInv
  <2>3. calls' = Append(Append(calls, a), b)
    BY <2>1 DEF Sheet!Select, Sheet!Asked
  <2> DEFINE s == Append(calls, a)
  <2>4. CallsOK(calls') /\ InFlight(calls') = InFlight(calls) \cup {a, b}
    <3>1. CallsOK(s) /\ InFlight(s) = InFlight(calls) \cup {a}
      BY <2>2
    <3> HIDE DEF s
    <3>2. CallsOK(Append(s, b)) /\ InFlight(Append(s, b)) = InFlight(s) \cup {b}
      BY <3>1, CallsSent
    <3> HIDE DEF a, b
    <3> QED
      BY <2>3, <3>1, <3>2 DEF s
  <2>5. SavesItsOwn(a) /\ SavesItsOwn(b)
    BY DEF SavesItsOwn
  <2>6. OfOneIdentity(ui')
    <3> DEFINE t == [of |-> x, edited |-> FALSE]
    <3>1. IsTraits(t) /\ t.of = x
      BY DEF IsTraits
    <3> HIDE DEF t
    <3>2. DOMAIN ui' = SheetFields /\ ui'.id = {x} /\ ui'.traits = {t}
      BY <1>0, <2>1 DEF Sheet!Select, OfOneIdentity, SheetFields, t
    <3> QED
      BY <3>1, <3>2 DEF OfOneIdentity
  <2> HIDE DEF a, b
  <2> QED
    BY <2>4, <2>5, <2>6 DEF IdentitySheetInv, OfOneIdentity
<1>3. CASE Sheet!Close
  <2>1. OfOneIdentity(ui') /\ UNCHANGED calls
    BY <1>0, <1>3 DEF Sheet!Close, OfOneIdentity, SheetFields
  <2> QED
    BY <2>1 DEF IdentitySheetInv, OfOneIdentity
<1>4. CASE Sheet!EditTraits
  <2>1. ui' = [ui EXCEPT !.traits = {[t EXCEPT !.edited = TRUE] : t \in ui.traits}]
        /\ UNCHANGED calls
    BY <1>4 DEF Sheet!EditTraits
  <2>2. \A t \in ui.traits : /\ IsTraits([t EXCEPT !.edited = TRUE])
                             /\ [t EXCEPT !.edited = TRUE].of = t.of
    <3>1. SUFFICES ASSUME NEW t \in ui.traits
                   PROVE  /\ IsTraits([t EXCEPT !.edited = TRUE])
                          /\ [t EXCEPT !.edited = TRUE].of = t.of
      OBVIOUS
    <3>2. IsTraits(t)
      BY <1>0 DEF OfOneIdentity
    <3>3. \A e : IsTraits([t EXCEPT !.edited = e]) /\ [t EXCEPT !.edited = e].of = t.of
      BY <3>2 DEF IsTraits
    <3> QED
      BY <3>3
  <2>3. DOMAIN ui' = DOMAIN ui /\ ui'.id = ui.id
        /\ ui'.traits = {[t EXCEPT !.edited = TRUE] : t \in ui.traits}
    BY <1>0, <2>1 DEF OfOneIdentity, SheetFields
  <2>4. \A t \in ui'.traits : IsTraits(t) /\ \A x \in ui'.id : t.of = x
    BY <1>0, <2>2, <2>3 DEF OfOneIdentity
  <2> QED
    BY <1>0, <2>1, <2>3, <2>4 DEF IdentitySheetInv, OfOneIdentity
<1>5. CASE Sheet!handleSaveTraits
  <2>1. OfOneIdentity(ui')
    BY <1>0, <1>5 DEF Sheet!handleSaveTraits, OfOneIdentity, SheetFields
  <2>2. PICK x \in ui.id, t \in ui.traits : Sheet!Request("traits", [id |-> x, traits |-> t])
    BY <1>5 DEF Sheet!handleSaveTraits
  <2>3. t.of = x
    BY <1>0 DEF OfOneIdentity
  <2> QED
    BY <1>1, <2>1, <2>2, <2>3
<1>6. ASSUME NEW op, op # "traits", NEW arg, Sheet!Act(op, arg) PROVE IdentitySheetInv'
  <2>1. OfOneIdentity(ui') /\ Sheet!Request(op, arg)
    BY <1>0, <1>6 DEF Sheet!Act, OfOneIdentity, SheetFields
  <2> QED
    BY <1>1, <1>6, <2>1
<1>7. CASE Sheet!handleResetPassword \/ Sheet!handleIssueRecoveryLink \/ Sheet!handleToggleSuspend
  BY <1>6, <1>7 DEF Sheet!handleResetPassword, Sheet!handleIssueRecoveryLink,
                    Sheet!handleToggleSuspend
<1>8. CASE Sheet!handleRevokeSession
  <2>1. PICK s : Sheet!Request("revoke", s)
    BY <1>8 DEF Sheet!handleRevokeSession
  <2>2. OfOneIdentity(ui')
    BY <1>0, <1>8 DEF Sheet!handleRevokeSession, OfOneIdentity
  <2> QED
    BY <1>1, <2>1, <2>2
<1> QED
  BY <1>2, <1>3, <1>4, <1>5, <1>7, <1>8

\* Every stage of a request of the identity sheet keeps its invariant: the
\* engine, the answer and the error.
LEMMA IdentitySheetResponse ==
  ASSUME IdentitySheetInv, NEW i \in DOMAIN calls,
         Sheet!Engine(i) \/ Sheet!Return(i) \/ Sheet!ReturnError(i)
  PROVE  IdentitySheetInv'
<1>1. CASE Sheet!Engine(i)
  <2>1. \E new : Common!Handle(i, new) \/ Common!Refuse(i)
    BY <1>1 DEF Sheet!Engine, Sheet!Handle, Sheet!Refuse, Common!Handle, Common!Refuse
  <2>2. CallsOK(calls') /\ Continued(calls, calls') /\ UNCHANGED ui
    BY <2>1, CallsHandled DEF IdentitySheetInv
  <2>3. \A c \in InFlight(calls') : SavesItsOwn(c)
    BY <2>2 DEF IdentitySheetInv, Continued, SavesItsOwn
  <2> QED
    BY <2>2, <2>3 DEF IdentitySheetInv, OfOneIdentity
<1>2. CASE Sheet!Return(i) \/ Sheet!ReturnError(i)
  <2>1. CallsOK(calls') /\ InFlight(calls') \subseteq InFlight(calls)
    BY <1>2, CallsSettled DEF Sheet!Return, Sheet!ReturnError, Sheet!Settled, Rest,
                              IdentitySheetInv
  <2>2. DOMAIN ui' = DOMAIN ui /\ ui'.id = ui.id /\ ui'.traits = ui.traits
    BY <1>2 DEF Sheet!Return, Sheet!ReturnError, IdentitySheetInv, OfOneIdentity, SheetFields
  <2> QED
    BY <2>1, <2>2 DEF IdentitySheetInv, OfOneIdentity
<1> QED
  BY <1>1, <1>2

\* Every step of the identity sheet keeps its invariant.
LEMMA IdentitySheetStep ==
  ASSUME IdentitySheetInv, Sheet!Next
  PROVE  IdentitySheetInv'
BY IdentitySheetClick, IdentitySheetResponse DEF Sheet!Next

-----------------------------------------------------------------------------
\* The sessions of the browser.  A session is known by a number, and those that have
\* been opened are below db.next.
Issued(S) == \A n \in S : n \in Nat /\ n < db.next

RequestFields == {"op", "tab", "at", "cookie", "stage", "says", "sets", "new"}
TabFields == {"at", "operator", "isLoading", "checking", "loading", "leaving"}

\* A response that says that a session is not valid takes its cookie away, and the
\* token that a response brings is that of a session that was opened for it.
IsRequest(c, next) ==
  /\ DOMAIN c = RequestFields
  /\ c.sets \in {"keep", "delete", "new"}
  /\ c.op \in {"me", "api"} /\ c.says = "no" => c.cookie = {} \/ c.sets = "delete"
  /\ c.sets = "new" => c.stage = "done" /\ c.new \in Nat /\ c.new < next

\* The sessions that a tab on its way was told of.
LeavingFor(tabs) == UNION {{l.of : l \in tabs[t].leaving} : t \in BrowserTabs}

\* What the browser, its requests and its tabs know of sessions.
Known == {ui.cookie} \cup {c.cookie : c \in InFlight(calls)} \cup LeavingFor(ui.tabs)

AreTabs(tabs) ==
  /\ DOMAIN tabs = BrowserTabs
  /\ \A t \in BrowserTabs : DOMAIN tabs[t] = TabFields

SessionInv ==
  /\ DOMAIN db = {"valid", "next", "owner"} /\ db.next \in Nat
  /\ DOMAIN ui = {"cookie", "tabs"} /\ AreTabs(ui.tabs)
  /\ IsQueue(calls) /\ \A c \in InFlight(calls) : IsRequest(c, db.next)
  /\ \A S \in Known : Issued(S)
  /\ \A S \in LeavingFor(ui.tabs) : S # {} => ui.cookie # S
  /\ \A c \in InFlight(calls) : c.sets = "new" => {c.new} \notin Known
  /\ \A i, j \in DOMAIN calls :
       i # j /\ calls[i].sets = "new" /\ calls[j].sets = "new" => calls[i].new # calls[j].new

\* The browser starts in its invariant.
LEMMA SessionStart ==
  ASSUME Browser!Init
  PROVE  SessionInv
<1>1. PICK own \in BOOLEAN, V \in {{}, {1}}, c \in {{}, {1}} :
        /\ db = [valid |-> V, next |-> 2, owner |-> own]
        /\ ui = [cookie |-> c, tabs |-> [t \in BrowserTabs |-> Browser!Resting(c)]]
  BY DEF Browser!Init
<1>2. calls = <<>> /\ IsQueue(calls) /\ InFlight(calls) = {} /\ DOMAIN calls = {}
  BY CallsStart DEF Browser!Init, CallsOK, InFlight
<1>3. /\ DOMAIN Browser!Resting(c) = TabFields
      /\ Browser!Resting(c).leaving = {}
  BY DEF Browser!Resting, Browser!Loaded, TabFields
<1>4. AreTabs(ui.tabs) /\ LeavingFor(ui.tabs) = {} /\ ui.cookie = c
  BY <1>1, <1>3 DEF AreTabs, LeavingFor
<1>5. Known = {c}
  BY <1>2, <1>4 DEF Known
<1>6. db.next = 2 /\ DOMAIN db = {"valid", "next", "owner"} /\ DOMAIN ui = {"cookie", "tabs"}
  BY <1>1
<1>7. Issued(c)
  BY <1>1, <1>6 DEF Issued
<1> QED
  BY <1>2, <1>4, <1>5, <1>6, <1>7 DEF SessionInv

\* The calls of s are still there, perhaps without the tab that sent them, and the
\* others of t were sent with the cookie.
Sends(s, t, cookie) ==
  /\ IsQueue(t)
  /\ DOMAIN s \subseteq DOMAIN t
  /\ \A j \in DOMAIN s : /\ DOMAIN t[j] = DOMAIN s[j]
                         /\ \A f \in RequestFields \ {"tab"} : t[j][f] = s[j][f]
  /\ \A j \in DOMAIN t \ DOMAIN s :
       DOMAIN t[j] = RequestFields /\ t[j].cookie = cookie /\ t[j].says = "" /\ t[j].sets = "keep"

IsSent(c, cookie) ==
  DOMAIN c = RequestFields /\ c.cookie = cookie /\ c.says = "" /\ c.sets = "keep"

\* A request that is built carries the cookie that the browser had.
LEMMA RequestIsSent ==
  \A op, t, at, cookie : IsSent(Browser!Request(op, t, at, cookie), cookie)
BY DEF IsSent, Browser!Request, RequestFields

\* Sending more requests with the cookie of the browser.
LEMMA SendsConcat ==
  ASSUME NEW s, IsQueue(s), NEW r, Sends(s, r, {}), DOMAIN r = DOMAIN s,
         NEW n, IsQueue(n), NEW cookie, \A c \in InFlight(n) : IsSent(c, cookie)
  PROVE  Sends(s, r \o n, cookie)
<1>1. IsQueue(r)
  BY DEF Sends
<1>2. /\ IsQueue(r \o n)
      /\ DOMAIN r \subseteq DOMAIN (r \o n)
      /\ \A j \in DOMAIN r : (r \o n)[j] = r[j]
      /\ \A j \in DOMAIN (r \o n) \ DOMAIN r : (r \o n)[j] \in InFlight(n)
  BY <1>1, QueueConcat
<1> DEFINE t == r \o n
<1> HIDE DEF t
<1> SUFFICES Sends(s, t, cookie)
  BY DEF t
<1>3. /\ IsQueue(t) /\ DOMAIN s \subseteq DOMAIN t
      /\ \A j \in DOMAIN s : t[j] = r[j]
      /\ \A j \in DOMAIN t \ DOMAIN s : IsSent(t[j], cookie)
  BY <1>2 DEF t
<1> QED
  BY <1>3 DEF Sends, IsSent

\* A step that sends nothing keeps what is in flight.
LEMMA SendsNothing ==
  ASSUME NEW s, IsQueue(s)
  PROVE  Sends(s, s, {})
BY DEF Sends

\* A step that sends one request with the cookie of the browser.
LEMMA SendsOne ==
  ASSUME IsQueue(calls), NEW op, NEW t, NEW at, NEW cookie,
         calls' = Append(calls, Browser!Request(op, t, at, cookie))
  PROVE  Sends(calls, calls', cookie)
<1> DEFINE c == Browser!Request(op, t, at, cookie)
<1>1. IsSent(c, cookie)
  BY RequestIsSent
<1> HIDE DEF c
<1>2. /\ IsQueue(calls') /\ DOMAIN calls' = 1..(Len(calls) + 1)
      /\ \A j \in 1..Len(calls) : calls'[j] = calls[j]
      /\ calls'[Len(calls) + 1] = c
  BY QueueAppend DEF c
<1>3. Len(calls) \in Nat /\ DOMAIN calls = 1..Len(calls)
  BY QueueLength
<1>4. /\ DOMAIN calls \subseteq DOMAIN calls'
      /\ \A j \in DOMAIN calls' \ DOMAIN calls : j = Len(calls) + 1
  BY <1>2, <1>3
<1> QED
  BY <1>1, <1>2, <1>3, <1>4 DEF Sends, IsSent

\* What a page asks for when it is loaded carries the cookie of the browser.
LEMMA SendsAsks ==
  ASSUME NEW at, NEW t
  PROVE  IsQueue(Browser!Asks(at, t)) /\ \A c \in InFlight(Browser!Asks(at, t)) : IsSent(c, ui.cookie)
<1> DEFINE a == Browser!Request("me", t, at, ui.cookie)
           b == Browser!Request("status", t, at, ui.cookie)
           S == {a, b}
<1>1. IsSent(a, ui.cookie) /\ IsSent(b, ui.cookie)
  BY RequestIsSent
<1> HIDE DEF a, b
<1>2. <<a>> \in Seq(S) /\ <<b>> \in Seq(S) /\ <<>> \in Seq(S)
  OBVIOUS
<1>3. <<a>> \o <<b>> \in Seq(S) /\ <<a>> \o <<>> \in Seq(S)
  BY <1>2, ConcatProperties
<1>4. Browser!Asks(at, t) \in Seq(S)
  BY <1>3 DEF Browser!Asks, a, b
<1>5. IsQueue(Browser!Asks(at, t))
  BY <1>4, QueueOf
<1>6. InFlight(Browser!Asks(at, t)) \subseteq S
  BY <1>4, LenProperties DEF InFlight
<1> QED
  BY <1>1, <1>5, <1>6

\* A tab that is loaded anew leaves its requests behind.
LEMMA SendsOrphaned ==
  ASSUME NEW t, IsQueue(calls), \A c \in InFlight(calls) : IsRequest(c, db.next)
  PROVE  Sends(calls, Browser!Orphaned(t), {}) /\ DOMAIN Browser!Orphaned(t) = DOMAIN calls
<1> DEFINE r == Browser!Orphaned(t)
<1>1. r = [i \in DOMAIN calls |-> [calls[i] EXCEPT !.tab = IF @ = t THEN 0 ELSE @]]
  BY DEF Browser!Orphaned
<1> HIDE DEF r
<1>2. IsQueue(r) /\ DOMAIN r = DOMAIN calls
  <2>1. r = [i \in DOMAIN calls |-> r[i]]
    BY <1>1
  <2> QED
    BY <2>1, QueueMapped
<1>3. \A j \in DOMAIN calls : /\ DOMAIN r[j] = DOMAIN calls[j]
                              /\ \A f \in RequestFields \ {"tab"} : r[j][f] = calls[j][f]
  <2>1. \A j \in DOMAIN calls : DOMAIN calls[j] = RequestFields
    BY DEF IsRequest, InFlight
  <2> QED
    BY <1>1, <2>1 DEF RequestFields
<1> QED
  BY <1>2, <1>3 DEF Sends, r

\* Requests are sent with a cookie the browser has or gets, and nobody is told that
\* a session is not valid.
LEMMA SessionSends ==
  ASSUME SessionInv, NEW cookie,
         DOMAIN db' = DOMAIN db, db'.next \in Nat, db.next <= db'.next,
         DOMAIN ui' = DOMAIN ui, AreTabs(ui'.tabs), ui'.cookie \in {ui.cookie, cookie},
         LeavingFor(ui'.tabs) \subseteq LeavingFor(ui.tabs) \cup {{}},
         Sends(calls, calls', cookie),
         cookie = ui.cookie \/ (cookie = {db.next} /\ db'.next = db.next + 1)
  PROVE  SessionInv'
<1>1. \A f \in RequestFields \ {"tab"} : \A j \in DOMAIN calls : calls'[j][f] = calls[j][f]
  BY DEF Sends
<1>2. \A j \in DOMAIN calls : IsRequest(calls[j], db.next)
  BY DEF SessionInv, InFlight
<1>3. \A c \in InFlight(calls') : IsRequest(c, db'.next)
  <2>1. SUFFICES ASSUME NEW j \in DOMAIN calls' PROVE IsRequest(calls'[j], db'.next)
    BY DEF InFlight
  <2>2. CASE j \in DOMAIN calls
    <3>0. DOMAIN calls'[j] = RequestFields
      BY <1>2, <2>2 DEF Sends, IsRequest
    <3>1. /\ calls'[j].op = calls[j].op /\ calls'[j].sets = calls[j].sets
          /\ calls'[j].says = calls[j].says /\ calls'[j].cookie = calls[j].cookie
          /\ calls'[j].stage = calls[j].stage /\ calls'[j].new = calls[j].new
      BY <1>1, <2>2 DEF RequestFields
    <3>2. db.next \in Nat
      BY DEF SessionInv
    <3>3. IsRequest(calls[j], db.next)
      BY <1>2, <2>2
    <3>4. calls[j].sets = "new" => calls[j].new \in Nat /\ calls[j].new < db'.next
      BY <3>2, <3>3 DEF IsRequest
    <3> QED
      BY <3>0, <3>1, <3>3, <3>4 DEF IsRequest
  <2>3. CASE j \notin DOMAIN calls
    BY <2>1, <2>3 DEF Sends, IsRequest
  <2> QED
    BY <2>2, <2>3
<1>4. Known' \subseteq Known \cup {{}, cookie}
  <2>1. \A c \in InFlight(calls') : c.cookie \in {b.cookie : b \in InFlight(calls)} \cup {cookie}
    <3>1. SUFFICES ASSUME NEW j \in DOMAIN calls'
                   PROVE  calls'[j].cookie \in {b.cookie : b \in InFlight(calls)} \cup {cookie}
      BY DEF InFlight
    <3>2. CASE j \in DOMAIN calls
      BY <1>1, <3>2 DEF InFlight, RequestFields
    <3>3. CASE j \notin DOMAIN calls
      BY <3>1, <3>3 DEF Sends
    <3> QED
      BY <3>2, <3>3
  <2> QED
    BY <2>1 DEF Known
<1>5. \A S \in Known' : Issued(S)'
  <2>1. \A S : Issued(S) => Issued(S)'
    BY DEF Issued, SessionInv
  <2>2. \A S \in Known : Issued(S)
    BY DEF SessionInv
  <2>3. ui.cookie \in Known
    BY DEF Known
  <2>4. Issued(cookie)'
    <3>1. CASE cookie = ui.cookie
      BY <2>1, <2>2, <2>3, <3>1
    <3>2. CASE cookie = {db.next} /\ db'.next = db.next + 1
      BY <3>2 DEF Issued, SessionInv
    <3> QED
      BY <3>1, <3>2
  <2>5. Issued({})'
    BY DEF Issued
  <2> QED
    BY <1>4, <2>1, <2>2, <2>4, <2>5
<1>6. \A S \in LeavingFor(ui.tabs)' : S # {} => ui'.cookie # S
  <2>1. SUFFICES ASSUME NEW S \in LeavingFor(ui'.tabs), S # {} PROVE ui'.cookie # S
    BY DEF LeavingFor
  <2>2. S \in LeavingFor(ui.tabs) /\ S \in Known
    BY <2>1 DEF Known
  <2>3. ui.cookie # S /\ Issued(S)
    BY <2>1, <2>2 DEF SessionInv
  <2>4. S # {db.next}
    BY <2>3 DEF Issued, SessionInv
  <2> QED
    BY <2>3, <2>4
<1>7. \A c \in InFlight(calls') : c.sets = "new" => {c.new} \notin Known'
  <2>1. SUFFICES ASSUME NEW j \in DOMAIN calls', calls'[j].sets = "new"
                 PROVE  {calls'[j].new} \notin Known'
    BY DEF InFlight
  <2>2. j \in DOMAIN calls
    BY <2>1 DEF Sends
  <2>3. calls[j].sets = "new" /\ calls'[j].new = calls[j].new
    BY <1>1, <2>1, <2>2 DEF RequestFields
  <2>4. {calls[j].new} \notin Known /\ calls[j].new \in Nat /\ calls[j].new < db.next
    BY <1>2, <2>2, <2>3 DEF SessionInv, IsRequest, InFlight
  <2>5. {calls[j].new} # {db.next} /\ {calls[j].new} # {}
    BY <2>4 DEF SessionInv
  <2>6. ui.cookie \in Known
    BY DEF Known
  <2> QED
    BY <1>4, <2>3, <2>4, <2>5, <2>6
<1>8. \A i, j \in DOMAIN calls' :
        i # j /\ calls'[i].sets = "new" /\ calls'[j].sets = "new" => calls'[i].new # calls'[j].new
  <2>1. \A j \in DOMAIN calls' : calls'[j].sets = "new" =>
          j \in DOMAIN calls /\ calls[j].sets = "new" /\ calls'[j].new = calls[j].new
    BY <1>1 DEF Sends, RequestFields
  <2> QED
    BY <2>1 DEF SessionInv
<1>9. IsQueue(calls')
  BY DEF Sends
<1> QED
  BY <1>3, <1>5, <1>6, <1>7, <1>8, <1>9 DEF SessionInv

\* One tab changes.
LEMMA TabChanges ==
  ASSUME NEW tabs, AreTabs(tabs), NEW t \in BrowserTabs, NEW tab, DOMAIN tab = TabFields
  PROVE  /\ AreTabs([tabs EXCEPT ![t] = tab])
         /\ LeavingFor([tabs EXCEPT ![t] = tab]) \subseteq LeavingFor(tabs) \cup {l.of : l \in tab.leaving}
BY DEF AreTabs, LeavingFor

\* A page that is loaded anew has been told of no session that is over.
LEMMA LoadedTab ==
  ASSUME NEW at
  PROVE  DOMAIN Browser!Loaded(at) = TabFields /\ Browser!Loaded(at).leaving = {}
BY DEF Browser!Loaded, TabFields

\* A tab shows another page, in a document of its own or not.
LEMMA SessionGoes ==
  ASSUME SessionInv, NEW t \in BrowserTabs, NEW at, UNCHANGED db,
         Browser!Load(t, at) \/ Browser!Navigate(t, at)
  PROVE  SessionInv'
<1> DEFINE to == Browser!middleware(at)
<1>1. /\ IsQueue(calls) /\ \A c \in InFlight(calls) : IsRequest(c, db.next)
      /\ AreTabs(ui.tabs) /\ DOMAIN ui = {"cookie", "tabs"} /\ db.next \in Nat
  BY DEF SessionInv
<1>2. IsQueue(Browser!Asks(to, t)) /\ \A c \in InFlight(Browser!Asks(to, t)) : IsSent(c, ui.cookie)
  BY SendsAsks
<1>3. Sends(calls, calls', ui.cookie)
  <2>1. CASE Browser!Load(t, at)
    <3>1. Sends(calls, Browser!Orphaned(t), {}) /\ DOMAIN Browser!Orphaned(t) = DOMAIN calls
      BY <1>1, SendsOrphaned
    <3>2. calls' = Browser!Orphaned(t) \o Browser!Asks(to, t)
      BY <2>1 DEF Browser!Load
    <3> HIDE DEF to
    <3> QED
      BY <1>1, <1>2, <3>1, <3>2, SendsConcat
  <2>2. CASE Browser!Navigate(t, at)
    <3>1. calls' = calls \o Browser!Asks(to, t)
      BY <2>2 DEF Browser!Navigate
    <3> HIDE DEF to
    <3> QED
      BY <1>1, <1>2, <3>1, SendsNothing, SendsConcat
  <2> QED
    BY <2>1, <2>2
<1>4. \E tab : DOMAIN tab = TabFields /\ tab.leaving = {} /\ ui' = [ui EXCEPT !.tabs[t] = tab]
  <2>1. CASE Browser!Load(t, at)
    <3>1. ui' = [ui EXCEPT !.tabs[t] = Browser!Loaded(to)]
      BY <2>1 DEF Browser!Load
    <3> QED
      BY <3>1, LoadedTab
  <2>2. CASE Browser!Navigate(t, at)
    <3> DEFINE tab == [ui.tabs[t] EXCEPT !.at = to, !.checking = to \in Browser!Public,
                                         !.loading = FALSE, !.leaving = {}]
    <3>1. ui' = [ui EXCEPT !.tabs[t] = tab]
      BY <2>2 DEF Browser!Navigate
    <3>2. DOMAIN ui.tabs[t] = TabFields
      BY <1>1 DEF AreTabs
    <3>3. DOMAIN tab = TabFields /\ tab.leaving = {}
      BY <3>2 DEF TabFields
    <3> QED
      BY <3>1, <3>3
  <2> QED
    BY <2>1, <2>2
<1>5. PICK tab : DOMAIN tab = TabFields /\ tab.leaving = {} /\ ui' = [ui EXCEPT !.tabs[t] = tab]
  BY <1>4
<1>6. DOMAIN ui' = DOMAIN ui /\ ui'.tabs = [ui.tabs EXCEPT ![t] = tab] /\ ui'.cookie = ui.cookie
  BY <1>1, <1>5
<1>7. AreTabs(ui'.tabs) /\ LeavingFor(ui'.tabs) \subseteq LeavingFor(ui.tabs) \cup {{}}
  BY <1>1, <1>5, <1>6, TabChanges
<1> QED
  BY <1>1, <1>3, <1>6, <1>7, SessionSends

\* A tab sends a request and shows the page that it showed.
LEMMA SessionAsks ==
  ASSUME SessionInv, NEW t \in BrowserTabs, NEW op, NEW at, UNCHANGED db,
         calls' = Append(calls, Browser!Request(op, t, at, ui.cookie)),
         UNCHANGED ui \/ ui' = [ui EXCEPT !.tabs[t].loading = TRUE]
  PROVE  SessionInv'
<1>1. IsQueue(calls) /\ AreTabs(ui.tabs) /\ DOMAIN ui = {"cookie", "tabs"} /\ db.next \in Nat
  BY DEF SessionInv
<1>2. Sends(calls, calls', ui.cookie)
  BY <1>1, SendsOne
<1>3. /\ DOMAIN ui' = DOMAIN ui /\ ui'.cookie = ui.cookie /\ AreTabs(ui'.tabs)
      /\ LeavingFor(ui'.tabs) = LeavingFor(ui.tabs)
  <2>1. CASE UNCHANGED ui
    BY <1>1, <2>1
  <2>2. CASE ui' = [ui EXCEPT !.tabs[t].loading = TRUE]
    <3>1. /\ DOMAIN ui' = DOMAIN ui /\ ui'.cookie = ui.cookie
          /\ ui'.tabs = [ui.tabs EXCEPT ![t] = [ui.tabs[t] EXCEPT !.loading = TRUE]]
      BY <1>1, <2>2
    <3>2. \A s \in BrowserTabs : /\ DOMAIN ui'.tabs[s] = TabFields
                                 /\ ui'.tabs[s].leaving = ui.tabs[s].leaving
      BY <1>1, <3>1 DEF AreTabs, TabFields
    <3>3. DOMAIN ui'.tabs = BrowserTabs
      BY <1>1, <3>1 DEF AreTabs
    <3> QED
      BY <3>1, <3>2, <3>3 DEF AreTabs, LeavingFor
  <2> QED
    BY <2>1, <2>2
<1> QED
  BY <1>1, <1>2, <1>3, SessionSends

\* The browser comes back with a session of its own.
LEMMA SessionCallback ==
  ASSUME SessionInv, NEW t \in BrowserTabs, Browser!SsoCallback(t)
  PROVE  SessionInv'
<1>1. /\ IsQueue(calls) /\ \A c \in InFlight(calls) : IsRequest(c, db.next)
      /\ AreTabs(ui.tabs) /\ DOMAIN ui = {"cookie", "tabs"}
      /\ db.next \in Nat /\ DOMAIN db = {"valid", "next", "owner"}
  BY DEF SessionInv
<1>2. DOMAIN db' = DOMAIN db /\ db'.next = db.next + 1
  BY <1>1 DEF Browser!SsoCallback
<1>3. /\ DOMAIN ui' = DOMAIN ui /\ ui'.cookie = {db.next}
      /\ ui'.tabs = [ui.tabs EXCEPT ![t] = Browser!Loaded("app")]
  BY <1>1 DEF Browser!SsoCallback
<1>4. AreTabs(ui'.tabs) /\ LeavingFor(ui'.tabs) \subseteq LeavingFor(ui.tabs) \cup {{}}
  <2> DEFINE tab == Browser!Loaded("app")
  <2>1. DOMAIN tab = TabFields /\ tab.leaving = {}
    BY LoadedTab
  <2> HIDE DEF tab
  <2> QED
    BY <1>1, <1>3, <2>1, TabChanges DEF tab
<1>5. Sends(calls, calls', {db.next})
  <2> DEFINE r == Browser!Orphaned(t)
             a == Browser!Request("me", t, "app", {db.next})
             n == <<a>>
  <2>1. Sends(calls, r, {}) /\ DOMAIN r = DOMAIN calls
    BY <1>1, SendsOrphaned
  <2>2. calls' = r \o n
    BY DEF Browser!SsoCallback
  <2>3. IsSent(a, {db.next})
    BY RequestIsSent
  <2> HIDE DEF r, a
  <2>4. n \in Seq({a}) /\ InFlight(n) = {a}
    BY DEF InFlight
  <2>5. IsQueue(n)
    BY <2>4, QueueOf
  <2> HIDE DEF n
  <2> QED
    BY <1>1, <2>1, <2>2, <2>3, <2>4, <2>5, SendsConcat
<1> QED
  BY <1>1, <1>2, <1>3, <1>4, <1>5, SessionSends

\* The expiry of a session in the control plane keeps the invariant of the
\* browser.
LEMMA SessionExpires ==
  ASSUME SessionInv, Browser!Expire
  PROVE  SessionInv'
<1>1. IsQueue(calls) /\ AreTabs(ui.tabs) /\ db.next \in Nat
  BY DEF SessionInv
<1>2. UNCHANGED <<calls, ui>> /\ DOMAIN db' = DOMAIN db /\ db'.next = db.next
  BY DEF Browser!Expire, SessionInv
<1>3. Sends(calls, calls', ui.cookie)
  BY <1>1, <1>2 DEF Sends
<1> QED
  BY <1>1, <1>2, <1>3, SessionSends

\* What the operator and the tabs do.
LEMMA SessionClick ==
  ASSUME SessionInv, NEW t \in BrowserTabs,
         \/ Browser!Reload(t) \/ Browser!checkSession(t) \/ Browser!fetchJSON(t)
         \/ Browser!handleLocalLogin(t) \/ Browser!handleSubmit(t) \/ Browser!handleLogout(t)
         \/ Browser!SsoCallback(t) \/ Browser!Leave(t)
  PROVE  SessionInv'
<1>1. CASE Browser!Reload(t) \/ Browser!Leave(t)
  <2>1. UNCHANGED db /\ \E at : Browser!Load(t, at) \/ Browser!Navigate(t, at)
    BY <1>1 DEF Browser!Reload, Browser!Leave
  <2> QED
    BY <2>1, SessionGoes
<1>2. CASE Browser!checkSession(t) \/ Browser!fetchJSON(t) \/ Browser!handleLogout(t)
           \/ Browser!handleLocalLogin(t) \/ Browser!handleSubmit(t)
  <2>1. /\ UNCHANGED db
        /\ \E op, at : calls' = Append(calls, Browser!Request(op, t, at, ui.cookie))
        /\ UNCHANGED ui \/ ui' = [ui EXCEPT !.tabs[t].loading = TRUE]
    BY <1>2 DEF Browser!checkSession, Browser!fetchJSON, Browser!handleLogout, Browser!Submit,
                Browser!handleLocalLogin, Browser!handleSubmit
  <2> QED
    BY <2>1, SessionAsks
<1>3. CASE Browser!SsoCallback(t)
  BY <1>3, SessionCallback
<1> QED
  BY <1>1, <1>2, <1>3

\* A response is given: what it says is of its request, and a token that it brings
\* is one that nobody has.
LEMMA SessionResponds ==
  ASSUME SessionInv, NEW i \in DOMAIN calls, NEW says, NEW sets,
         calls[i].stage = "sent", Browser!Respond(i, says, sets),
         DOMAIN db' = DOMAIN db, UNCHANGED ui,
         \/ sets \in {"keep", "delete"} /\ db'.next = db.next
         \/ sets = "new" /\ db'.next = db.next + 1,
         calls[i].op \in {"me", "api"} /\ says = "no" => calls[i].cookie = {} \/ sets = "delete"
  PROVE  SessionInv'
<1> DEFINE e == [calls[i] EXCEPT !.stage = "done", !.says = says, !.sets = sets, !.new = db.next]
<1>1. /\ IsQueue(calls) /\ db.next \in Nat /\ db'.next \in Nat /\ db.next <= db'.next
      /\ \A j \in DOMAIN calls : IsRequest(calls[j], db.next)
  BY DEF SessionInv, InFlight
<1>2. calls' = [calls EXCEPT ![i] = e]
  BY DEF Browser!Respond
<1>3. DOMAIN calls[i] = RequestFields
  BY <1>1 DEF IsRequest
<1>4. /\ DOMAIN e = RequestFields /\ e.op = calls[i].op /\ e.cookie = calls[i].cookie
      /\ e.stage = "done" /\ e.says = says /\ e.sets = sets /\ e.new = db.next
  BY <1>3 DEF RequestFields
<1> HIDE DEF e
<1>5. /\ IsQueue(calls') /\ InFlight(calls') \subseteq InFlight(calls) \cup {e}
      /\ DOMAIN calls' = DOMAIN calls
  BY <1>1, <1>2, QueueExcept
<1>6. \A j \in DOMAIN calls' : calls'[j] = IF j = i THEN e ELSE calls[j]
  BY <1>2, <1>5
<1>7. \A c \in InFlight(calls') : IsRequest(c, db'.next)
  <2>1. IsRequest(e, db'.next)
    BY <1>1, <1>4 DEF IsRequest
  <2>2. \A j \in DOMAIN calls : IsRequest(calls[j], db'.next)
    <3>1. \A m \in Nat : m < db.next => m < db'.next
      BY <1>1
    <3> QED
      BY <1>1, <3>1 DEF IsRequest
  <2> QED
    BY <1>5, <2>1, <2>2 DEF InFlight
<1>8. Known' \subseteq Known
  <2>1. \A c \in InFlight(calls') : \E b \in InFlight(calls) : c.cookie = b.cookie
    BY <1>4, <1>5 DEF InFlight
  <2> QED
    BY <2>1 DEF Known
<1>9. \A S \in Known' : \A n \in S : n \in Nat /\ n < db'.next
  <2>1. \A S \in Known : \A n \in S : n \in Nat /\ n < db.next
    BY DEF SessionInv, Issued
  <2> QED
    BY <1>1, <1>8, <2>1
<1>10. {db.next} \notin Known
  BY <1>1 DEF SessionInv, Issued
<1>11. \A c \in InFlight(calls') : c.sets = "new" => {c.new} \notin Known'
  <2>1. \A c \in InFlight(calls) : c.sets = "new" => {c.new} \notin Known
    BY DEF SessionInv
  <2> QED
    BY <1>4, <1>5, <1>8, <1>10, <2>1
<1>12. \A j, k \in DOMAIN calls' :
         j # k /\ calls'[j].sets = "new" /\ calls'[k].sets = "new" => calls'[j].new # calls'[k].new
  <2>1. \A j \in DOMAIN calls : calls[j].sets = "new" => calls[j].new \in Nat /\ calls[j].new < db.next
    BY <1>1 DEF IsRequest
  <2>2. \A j, k \in DOMAIN calls :
          j # k /\ calls[j].sets = "new" /\ calls[k].sets = "new" => calls[j].new # calls[k].new
    BY DEF SessionInv
  <2>3. \A j \in DOMAIN calls' : j # i /\ calls'[j].sets = "new" => calls'[j].new # db.next
    BY <1>1, <1>5, <1>6, <2>1
  <2> QED
    BY <1>4, <1>5, <1>6, <2>2, <2>3
<1>13. LeavingFor(ui'.tabs) = LeavingFor(ui.tabs)
  BY DEF LeavingFor
<1> QED
  BY <1>1, <1>5, <1>7, <1>9, <1>11, <1>12, <1>13 DEF SessionInv, Issued

\* What the BFF and Argus make of a request.
LEMMA SessionServe ==
  ASSUME SessionInv, NEW i \in DOMAIN calls, Browser!Serve(i)
  PROVE  SessionInv'
<1>1. calls[i].stage = "sent" /\ UNCHANGED ui
  BY DEF Browser!Serve
<1>2. DOMAIN db = {"valid", "next", "owner"}
  BY DEF SessionInv
<1>3. \E says, sets :
        /\ Browser!Respond(i, says, sets) /\ DOMAIN db' = DOMAIN db
        /\ \/ sets \in {"keep", "delete"} /\ db'.next = db.next
           \/ sets = "new" /\ db'.next = db.next + 1
        /\ calls[i].op \in {"me", "api"} /\ says = "no" => calls[i].cookie = {} \/ sets = "delete"
  <2>1. CASE Browser!me(i)
    BY <1>2, <2>1 DEF Browser!me
  <2>2. CASE Browser!proxyRequest(i)
    BY <1>2, <2>2 DEF Browser!proxyRequest
  <2>3. CASE Browser!status(i)
    <3> DEFINE says == IF db.owner THEN "yes" ELSE "no"
    <3>1. calls[i].op = "status" /\ UNCHANGED db
      BY <2>3 DEF Browser!status
    <3>2. Browser!Respond(i, says, "keep") \/ Browser!Respond(i, "error", "keep")
      BY <2>3 DEF Browser!status
    <3> HIDE DEF says
    <3> QED
      BY <3>1, <3>2
  <2>4. CASE Browser!login(i)
    BY <1>2, <2>4 DEF Browser!login
  <2>5. CASE Browser!setup(i)
    <3>1. CASE UNCHANGED db
      BY <1>2, <2>5, <3>1 DEF Browser!setup
    <3>2. CASE ~UNCHANGED db
      BY <1>2, <2>5, <3>2 DEF Browser!setup
    <3> QED
      BY <3>1, <3>2
  <2>6. CASE Browser!logout(i)
    BY <1>2, <2>6 DEF Browser!logout
  <2> QED
    BY <2>1, <2>2, <2>3, <2>4, <2>5, <2>6 DEF Browser!Serve
<1> QED
  BY <1>1, <1>3, SessionResponds

\* A request comes to its end: the browser may know of its session, and a tab that
\* is told to leave a session finds the browser without it.
LEMMA SessionEnds ==
  ASSUME SessionInv, NEW i \in DOMAIN calls, calls' = Browser!Settled(i), UNCHANGED db,
         DOMAIN ui' = DOMAIN ui, AreTabs(ui'.tabs),
         LeavingFor(ui'.tabs) \subseteq LeavingFor(ui.tabs) \cup {{}, calls[i].cookie},
         \/ ui'.cookie \in {ui.cookie, {}}
         \/ calls[i].sets = "new" /\ ui'.cookie = {calls[i].new},
         \A S \in LeavingFor(ui'.tabs) : S # {} => ui'.cookie # S
  PROVE  SessionInv'
<1>1. /\ IsQueue(calls) /\ db.next \in Nat
      /\ \A c \in InFlight(calls) : IsRequest(c, db.next)
      /\ \A S \in Known : Issued(S)
      /\ \A c \in InFlight(calls) : c.sets = "new" => {c.new} \notin Known
      /\ \A j, k \in DOMAIN calls :
           j # k /\ calls[j].sets = "new" /\ calls[k].sets = "new" => calls[j].new # calls[k].new
  BY DEF SessionInv
<1>2. /\ IsQueue(calls') /\ InFlight(calls') \subseteq InFlight(calls)
      /\ DOMAIN calls' = 1..(Len(calls) - 1)
      /\ \A j \in 1..(Len(calls) - 1) : calls'[j] = calls[IF j < i THEN j ELSE j + 1]
  <2>1. calls' = Rest(calls, i)
    BY DEF Browser!Settled, Rest
  <2> QED
    BY <1>1, <2>1, QueueRest
<1>3. Len(calls) \in Nat /\ DOMAIN calls = 1..Len(calls)
  BY <1>1, QueueLength
<1>4. calls[i] \in InFlight(calls)
  BY DEF InFlight
<1>5. \A j \in DOMAIN calls' : \E k \in DOMAIN calls : k # i /\ calls'[j] = calls[k]
  BY <1>2, <1>3
<1>6. Known' \subseteq Known \cup {{}} \cup {S \in {{calls[i].new}} : calls[i].sets = "new"}
  <2>1. {c.cookie : c \in InFlight(calls')} \subseteq Known
    BY <1>2 DEF Known
  <2>2. LeavingFor(ui'.tabs) \subseteq Known \cup {{}}
    BY <1>4 DEF Known
  <2>3. ui'.cookie \in Known \cup {{}} \cup {S \in {{calls[i].new}} : calls[i].sets = "new"}
    BY DEF Known
  <2> QED
    BY <2>1, <2>2, <2>3 DEF Known
<1>7. \A S \in Known' : Issued(S)
  <2>1. calls[i].sets = "new" => calls[i].new \in Nat /\ calls[i].new < db.next
    BY <1>1, <1>4 DEF IsRequest
  <2> QED
    BY <1>1, <1>6, <2>1 DEF Issued
<1>8. \A c \in InFlight(calls') : c.sets = "new" => {c.new} \notin Known'
  <2>1. SUFFICES ASSUME NEW j \in DOMAIN calls', calls'[j].sets = "new"
                 PROVE  {calls'[j].new} \notin Known'
    BY DEF InFlight
  <2>2. PICK k \in DOMAIN calls : k # i /\ calls'[j] = calls[k]
    BY <1>5
  <2>3. {calls[k].new} \notin Known
    BY <1>1, <2>1, <2>2 DEF InFlight
  <2>4. calls[i].sets = "new" => calls[i].new # calls[k].new
    BY <1>1, <2>1, <2>2
  <2> QED
    BY <1>6, <2>2, <2>3, <2>4
<1>9. \A j, k \in DOMAIN calls' :
        j # k /\ calls'[j].sets = "new" /\ calls'[k].sets = "new" => calls'[j].new # calls'[k].new
  <2> DEFINE at(j) == IF j < i THEN j ELSE j + 1
  <2>1. \A j, k \in DOMAIN calls' : j # k => at(j) # at(k) /\ at(j) \in DOMAIN calls
    BY <1>2, <1>3
  <2>2. \A j \in DOMAIN calls' : calls'[j] = calls[at(j)]
    BY <1>2
  <2> HIDE DEF at
  <2>3. SUFFICES ASSUME NEW j \in DOMAIN calls', NEW k \in DOMAIN calls', j # k,
                        calls'[j].sets = "new", calls'[k].sets = "new"
                 PROVE  calls'[j].new # calls'[k].new
    OBVIOUS
  <2>4. at(j) # at(k) /\ at(j) \in DOMAIN calls /\ at(k) \in DOMAIN calls
    BY <2>1, <2>3
  <2> QED
    BY <1>1, <2>2, <2>3, <2>4
<1>10. \A c \in InFlight(calls') : IsRequest(c, db'.next)
  BY <1>1, <1>2
<1>11. \A S \in Known' : \A n \in S : n \in Nat /\ n < db'.next
  BY <1>7 DEF Issued
<1> QED
  BY <1>1, <1>2, <1>8, <1>9, <1>10, <1>11 DEF SessionInv, Issued

\* What a tab is told leaves it a tab, on its way for the reasons that it had or
\* because the session of the request is not valid.
LEMMA TabIsTold ==
  ASSUME NEW tab, DOMAIN tab = TabFields, NEW c,
         NEW new, new \in {Browser!Told(tab, c), Browser!Checked(tab, c)}
  PROVE  /\ DOMAIN new = TabFields
         /\ \A l \in new.leaving :
              \/ l \in tab.leaving \/ l.of = {}
              \/ c.op \in {"me", "api"} /\ c.says = "no" /\ l.of = c.cookie
<1> DEFINE Good(n) == /\ DOMAIN n = TabFields
                      /\ \A l \in n.leaving :
                           \/ l \in tab.leaving \/ l.of = {}
                           \/ c.op \in {"me", "api"} /\ c.says = "no" /\ l.of = c.cookie
<1>1. Good(tab)
  OBVIOUS
<1>2. \A to, load : \A l \in Browser!Leaving(to, load, {}) : l.of = {}
  BY DEF Browser!Leaving
<1>3. \A L : (\A l \in L : l.of = {}) => Good([tab EXCEPT !.leaving = L])
  BY DEF TabFields
<1>4. \A L, b : (\A l \in L : l.of = {}) => Good([tab EXCEPT !.loading = b, !.leaving = L])
  BY DEF TabFields
<1>5. \A b : Good([tab EXCEPT !.loading = b]) /\ Good([tab EXCEPT !.checking = b])
  BY DEF TabFields
<1>6. \A o, b : LET n == [tab EXCEPT !.operator = o, !.isLoading = b]
                IN  Good(n) /\ n.leaving = tab.leaving
  BY DEF TabFields
<1>7. \A n, of : Good(n) /\ (of = {} \/ (c.op \in {"me", "api"} /\ c.says = "no" /\ of = c.cookie))
                 => Good(Browser!redirectToLogin(n, of))
  <2>1. \A to, load, of : \A l \in Browser!Leaving(to, load, of) : l.of = of
    BY DEF Browser!Leaving
  <2>3. SUFFICES ASSUME NEW n, NEW of, Good(n),
                        of = {} \/ (c.op \in {"me", "api"} /\ c.says = "no" /\ of = c.cookie)
                 PROVE  Good(Browser!redirectToLogin(n, of))
    OBVIOUS
  <2> DEFINE L == IF n.at \in Browser!Public \/ \E l \in n.leaving : l.load THEN n.leaving
                  ELSE Browser!Leaving("login", TRUE, of)
  <2>4. Browser!redirectToLogin(n, of) = [n EXCEPT !.leaving = L]
    BY DEF Browser!redirectToLogin
  <2>5. \A l \in L : \/ l \in n.leaving \/ l.of = {}
                     \/ c.op \in {"me", "api"} /\ c.says = "no" /\ l.of = c.cookie
    BY <2>1, <2>3
  <2> HIDE DEF L
  <2> QED
    <3>1. Good([n EXCEPT !.leaving = L])
      BY <2>3, <2>5 DEF TabFields
    <3> QED
      BY <2>4, <3>1
<1> HIDE DEF Good
<1>8. CASE new = Browser!Told(tab, c)
  <2>1. CASE c.op = "me" /\ c.says = "yes"
    BY <1>6, <1>8, <2>1 DEF Browser!Told
  <2>2. CASE c.op = "me" /\ c.says = "no"
    <3> DEFINE out == [tab EXCEPT !.operator = {}, !.isLoading = FALSE]
    <3>1. Good(out)
      <4>1. \A o, b : Good([tab EXCEPT !.operator = o, !.isLoading = b])
        BY <1>6
      <4> QED
        BY <4>1
    <3>2. new = IF c.at \in Browser!Public THEN out ELSE Browser!redirectToLogin(out, c.cookie)
      BY <1>8, <2>2 DEF Browser!Told
    <3> HIDE DEF out
    <3>3. Good(Browser!redirectToLogin(out, c.cookie))
      BY <1>7, <2>2, <3>1
    <3> QED
      BY <3>1, <3>2, <3>3 DEF Good
  <2>3. CASE c.op = "api" /\ c.says = "no"
    <3>1. new = Browser!redirectToLogin(tab, c.cookie)
      BY <1>8, <2>3 DEF Browser!Told
    <3>2. Good(new)
      BY <1>1, <1>7, <2>3, <3>1
    <3> QED
      BY <3>2 DEF Good
  <2>4. CASE c.op = "api" /\ c.says = "refused"
    <3>1. new = Browser!redirectToLogin(tab, {})
      BY <1>8, <2>4 DEF Browser!Told
    <3>2. Good(new)
      BY <1>1, <1>7, <3>1
    <3> QED
      BY <3>2 DEF Good
  <2>5. CASE c.op \in {"login", "setup", "logout"}
    <3>1. \/ \E L, b : (\A l \in L : l.of = {}) /\ new = [tab EXCEPT !.loading = b, !.leaving = L]
          \/ \E L : (\A l \in L : l.of = {}) /\ new = [tab EXCEPT !.leaving = L]
          \/ \E b : new = [tab EXCEPT !.loading = b]
      <4>1. CASE c.op = "login" /\ c.says = "yes"
        <5>1. new = [tab EXCEPT !.loading = FALSE, !.leaving = Browser!Leaving("app", TRUE, {})]
          BY <1>8, <4>1 DEF Browser!Told
        <5> QED
          BY <1>2, <5>1
      <4>2. CASE c.op = "setup" /\ c.says = "yes"
        <5>1. new = [tab EXCEPT !.loading = FALSE, !.leaving = Browser!Leaving("app", FALSE, {})]
          BY <1>8, <4>2 DEF Browser!Told
        <5> QED
          BY <1>2, <5>1
      <4>3. CASE c.op = "logout"
        <5>1. new = [tab EXCEPT !.leaving = Browser!Leaving("login", TRUE, {})]
          BY <1>8, <4>3 DEF Browser!Told
        <5> QED
          BY <1>2, <5>1
      <4>4. CASE c.op \in {"login", "setup"} /\ c.says # "yes"
        <5>1. new = [tab EXCEPT !.loading = FALSE]
          BY <1>8, <4>4 DEF Browser!Told
        <5> QED
          BY <5>1
      <4> QED
        BY <2>5, <4>1, <4>2, <4>3, <4>4
    <3>2. Good(new)
      <4>1. CASE \E L, b : (\A l \in L : l.of = {}) /\ new = [tab EXCEPT !.loading = b, !.leaving = L]
        <5>1. PICK L, b : (\A l \in L : l.of = {}) /\ new = [tab EXCEPT !.loading = b, !.leaving = L]
          BY <4>1
        <5>2. Good([tab EXCEPT !.loading = b, !.leaving = L])
          BY <1>4, <5>1
        <5> QED
          BY <5>1, <5>2
      <4>2. CASE \E L : (\A l \in L : l.of = {}) /\ new = [tab EXCEPT !.leaving = L]
        BY <1>3, <4>2
      <4>3. CASE \E b : new = [tab EXCEPT !.loading = b]
        BY <1>5, <4>3
      <4> QED
        BY <3>1, <4>1, <4>2, <4>3
    <3> QED
      BY <3>2 DEF Good
  <2>6. CASE /\ c.op \notin {"login", "setup", "logout"}
             /\ ~(c.op = "me" /\ c.says \in {"yes", "no"})
             /\ ~(c.op = "api" /\ c.says \in {"no", "refused"})
    <3>1. new = tab
      BY <1>8, <2>6 DEF Browser!Told
    <3> QED
      BY <1>1, <3>1 DEF Good
  <2> QED
    BY <2>1, <2>2, <2>3, <2>4, <2>5, <2>6
<1>9. CASE new = Browser!Checked(tab, c)
  <2>1. \/ new = tab
        \/ \E L : (\A l \in L : l.of = {}) /\ new = [tab EXCEPT !.leaving = L]
        \/ \E b : new = [tab EXCEPT !.checking = b]
    <3>1. \/ new = tab
          \/ \E to, load : new = [tab EXCEPT !.leaving = Browser!Leaving(to, load, {})]
          \/ \E b : new = [tab EXCEPT !.checking = b]
      <4>1. CASE tab.at # c.at
        BY <1>9, <4>1 DEF Browser!Checked
      <4>2. CASE tab.at = c.at /\ c.at = "login" /\ c.says = "no"
        <5>1. new = [tab EXCEPT !.leaving = Browser!Leaving("setup", FALSE, {})]
          BY <1>9, <4>2 DEF Browser!Checked
        <5> QED
          BY <5>1
      <4>3. CASE tab.at = c.at /\ c.at = "setup" /\ c.says = "yes"
        <5>1. new = [tab EXCEPT !.leaving = Browser!Leaving("login", FALSE, {})]
          BY <1>9, <4>3 DEF Browser!Checked
        <5> QED
          BY <5>1
      <4>4. CASE /\ tab.at = c.at /\ ~(c.at = "login" /\ c.says = "no")
                 /\ ~(c.at = "setup" /\ c.says = "yes")
        <5>1. new = [tab EXCEPT !.checking = FALSE]
          BY <1>9, <4>4 DEF Browser!Checked
        <5> QED
          BY <5>1
      <4> QED
        BY <4>1, <4>2, <4>3, <4>4
    <3> QED
      BY <1>2, <3>1
  <2>2. Good(new)
    BY <1>1, <1>3, <1>5, <2>1
  <2> QED
    BY <2>2 DEF Good
<1> QED
  BY <1>8, <1>9

\* A tab that gets no answer.
LEMMA LostTab ==
  ASSUME NEW tab, DOMAIN tab = TabFields, NEW c
  PROVE  /\ DOMAIN Browser!Lost(tab, c) = TabFields
         /\ \A l \in Browser!Lost(tab, c).leaving : l \in tab.leaving \/ l.of = {}
<1>1. CASE c.op = "logout"
  <2>1. Browser!Lost(tab, c) = [tab EXCEPT !.leaving = Browser!Leaving("login", TRUE, {})]
    BY <1>1 DEF Browser!Lost
  <2>2. \A l \in Browser!Leaving("login", TRUE, {}) : l.of = {}
    BY DEF Browser!Leaving
  <2> QED
    BY <2>1, <2>2 DEF TabFields
<1>2. CASE c.op # "logout"
  <2>1. \/ Browser!Lost(tab, c) = tab
        \/ \E b : Browser!Lost(tab, c) \in {[tab EXCEPT !.checking = b], [tab EXCEPT !.loading = b]}
        \/ \E o, b : Browser!Lost(tab, c) = [tab EXCEPT !.operator = o, !.isLoading = b]
    BY <1>2 DEF Browser!Lost
  <2> QED
    BY <2>1 DEF TabFields
<1> QED
  BY <1>1, <1>2

\* An answer that reaches the browser, or that no tab waits for any more, keeps
\* its invariant.
LEMMA SessionReceive ==
  ASSUME SessionInv, NEW i \in DOMAIN calls, Browser!Receive(i) \/ Browser!Drop(i)
  PROVE  SessionInv'
<1> DEFINE c == calls[i]
<1>1. /\ DOMAIN ui = {"cookie", "tabs"} /\ AreTabs(ui.tabs)
      /\ IsRequest(c, db.next)
      /\ \A S \in LeavingFor(ui.tabs) : S # {} => ui.cookie # S
      /\ c.sets = "new" => {c.new} \notin Known
  BY DEF SessionInv, InFlight
<1>2. calls' = Browser!Settled(i) /\ UNCHANGED db
  BY DEF Browser!Receive, Browser!Drop
<1>3. c.cookie \in Known /\ LeavingFor(ui.tabs) \subseteq Known
  BY DEF Known, InFlight
<1>4. CASE Browser!Receive(i)
  <2>1. /\ DOMAIN ui' = DOMAIN ui /\ ui'.cookie = Browser!CookieBy(c)
        /\ ui'.tabs = Browser!After(c)
    BY <1>1, <1>4 DEF Browser!Receive
  <2> HIDE DEF c
  <2>2. /\ DOMAIN ui'.tabs = BrowserTabs
        /\ \A t \in BrowserTabs :
             \/ ui'.tabs[t] = ui.tabs[t]
             \/ ui'.tabs[t] \in {Browser!Told(ui.tabs[t], c), Browser!Checked(ui.tabs[t], c)}
    BY <1>1, <2>1 DEF Browser!After, AreTabs
  <2>3. \A t \in BrowserTabs :
          /\ DOMAIN ui'.tabs[t] = TabFields
          /\ \A l \in ui'.tabs[t].leaving :
               \/ l \in ui.tabs[t].leaving \/ l.of = {}
               \/ c.op \in {"me", "api"} /\ c.says = "no" /\ l.of = c.cookie
    <3>1. SUFFICES ASSUME NEW t \in BrowserTabs
                   PROVE  /\ DOMAIN ui'.tabs[t] = TabFields
                          /\ \A l \in ui'.tabs[t].leaving :
                               \/ l \in ui.tabs[t].leaving \/ l.of = {}
                               \/ c.op \in {"me", "api"} /\ c.says = "no" /\ l.of = c.cookie
      OBVIOUS
    <3>2. DOMAIN ui.tabs[t] = TabFields
      BY <1>1 DEF AreTabs
    <3>3. CASE ui'.tabs[t] = ui.tabs[t]
      BY <3>2, <3>3
    <3>4. CASE ui'.tabs[t] \in {Browser!Told(ui.tabs[t], c), Browser!Checked(ui.tabs[t], c)}
      <4> DEFINE new == ui'.tabs[t]
                 old == ui.tabs[t]
      <4>1. new \in {Browser!Told(old, c), Browser!Checked(old, c)}
        BY <3>4
      <4>2. DOMAIN old = TabFields
        BY <3>2
      <4> HIDE DEF new, old
      <4>3. /\ DOMAIN new = TabFields
            /\ \A l \in new.leaving :
                 \/ l \in old.leaving \/ l.of = {}
                 \/ c.op \in {"me", "api"} /\ c.says = "no" /\ l.of = c.cookie
        BY <4>1, <4>2, TabIsTold
      <4> QED
        BY <4>3 DEF new, old
    <3> QED
      BY <2>2, <3>3, <3>4
  <2>4. AreTabs(ui'.tabs)
    BY <2>2, <2>3 DEF AreTabs
  <2>5. \A S \in LeavingFor(ui'.tabs) :
          \/ S \in LeavingFor(ui.tabs) \/ S = {}
          \/ c.op \in {"me", "api"} /\ c.says = "no" /\ S = c.cookie
    BY <2>3 DEF LeavingFor
  <2>6. c.op \in {"me", "api"} /\ c.says = "no" => c.cookie = {} \/ c.sets = "delete"
    BY <1>1 DEF IsRequest
  <2>7. \/ c.sets = "keep" /\ ui'.cookie = ui.cookie
        \/ c.sets = "delete" /\ ui'.cookie = {}
        \/ c.sets = "new" /\ ui'.cookie = {c.new}
    BY <1>1, <2>1 DEF Browser!CookieBy, IsRequest
  <2>8. \A S \in LeavingFor(ui'.tabs) : S # {} => ui'.cookie # S
    BY <1>1, <1>3, <2>5, <2>6, <2>7
  <2>9. LeavingFor(ui'.tabs) \subseteq LeavingFor(ui.tabs) \cup {{}, c.cookie}
    BY <2>5
  <2> QED
    BY <1>2, <2>1, <2>4, <2>7, <2>8, <2>9, SessionEnds DEF c
<1>5. CASE Browser!Drop(i)
  <2>1. /\ DOMAIN ui' = DOMAIN ui /\ ui'.cookie = ui.cookie
        /\ ui'.tabs = [t \in BrowserTabs |-> IF t = c.tab THEN Browser!Lost(ui.tabs[t], c) ELSE ui.tabs[t]]
    BY <1>1, <1>5 DEF Browser!Drop
  <2> HIDE DEF c
  <2>2. \A t \in BrowserTabs :
          /\ DOMAIN ui'.tabs[t] = TabFields
          /\ \A l \in ui'.tabs[t].leaving : l \in ui.tabs[t].leaving \/ l.of = {}
    <3>1. \A tab : DOMAIN tab = TabFields =>
            /\ DOMAIN Browser!Lost(tab, c) = TabFields
            /\ \A l \in Browser!Lost(tab, c).leaving : l \in tab.leaving \/ l.of = {}
      BY LostTab
    <3> QED
      BY <1>1, <2>1, <3>1 DEF AreTabs
  <2>3. AreTabs(ui'.tabs)
    BY <2>1, <2>2 DEF AreTabs
  <2>4. LeavingFor(ui'.tabs) \subseteq LeavingFor(ui.tabs) \cup {{}}
    BY <2>2 DEF LeavingFor
  <2>5. \A S \in LeavingFor(ui'.tabs) : S # {} => ui'.cookie # S
    BY <1>1, <2>1, <2>4
  <2>6. LeavingFor(ui'.tabs) \subseteq LeavingFor(ui.tabs) \cup {{}, c.cookie}
    BY <2>4
  <2> QED
    BY <1>2, <2>1, <2>3, <2>5, <2>6, SessionEnds DEF c
<1> QED
  BY <1>4, <1>5

\* Every step of the browser keeps its invariant.
LEMMA SessionStep ==
  ASSUME SessionInv, Browser!Next
  PROVE  SessionInv'
<1>1. CASE Browser!Expire
  BY <1>1, SessionExpires
<1>2. CASE \E t \in BrowserTabs :
             \/ Browser!Reload(t) \/ Browser!checkSession(t) \/ Browser!fetchJSON(t)
             \/ Browser!handleLocalLogin(t) \/ Browser!handleSubmit(t) \/ Browser!handleLogout(t)
             \/ Browser!SsoCallback(t) \/ Browser!Leave(t)
  BY <1>2, SessionClick
<1>3. CASE \E i \in DOMAIN calls : Browser!Serve(i) \/ Browser!Receive(i) \/ Browser!Drop(i)
  BY <1>3, SessionServe, SessionReceive
<1> QED
  BY <1>1, <1>2, <1>3 DEF Browser!Next

-----------------------------------------------------------------------------
\* The environment, the list of engines and the wizard.
FleetFields == {"env", "saved", "restored", "engines", "isLoading", "page", "step",
                "type", "target", "minting", "minted"}

\* The request for a token whose answer the wizard waits for.
Minting == {c \in InFlight(calls) : c.op = "mint" /\ c.arg.own}

\* While it is under way, the form can be left but not edited, and asks for no other.
FrozenFor(c) ==
  /\ ui.page = "enroll" /\ ui.minting /\ ui.step = 2 /\ ui.minted = {}
  /\ c.arg.type = ui.type /\ c.arg.env = ui.target

EnginesInv ==
  /\ DOMAIN ui = FleetFields
  /\ CallsOK(calls)
  /\ \A c \in InFlight(calls) : "own" \in DOMAIN c.arg /\ c.arg.own \in BOOLEAN
  /\ \A c \in Minting : FrozenFor(c)
  /\ \A j, k \in DOMAIN calls : calls[j] \in Minting /\ calls[k] \in Minting => j = k
  /\ ui.minted # {} => ui.page = "enroll"
  /\ \A m \in ui.minted : m.type = ui.type /\ m.env = ui.target

\* The fleet pages starts in its invariant.
LEMMA EnginesStart ==
  ASSUME Engines!Init
  PROVE  EnginesInv
<1> DEFINE c == Engines!Ask(Engines!Prod, TRUE)
<1>1. c.op = "engines" /\ IsCall(c) /\ "own" \in DOMAIN c.arg /\ c.arg.own = TRUE
  BY DEF Engines!Ask, IsCall
<1>2. calls = <<c>>
  BY DEF Engines!Init
<1> HIDE DEF c
<1>3. <<c>> \in Seq({c}) /\ InFlight(<<c>>) = {c}
  BY DEF InFlight
<1>4. CallsOK(calls) /\ InFlight(calls) = {c}
  BY <1>1, <1>2, <1>3, QueueOf DEF CallsOK
<1>5. Minting = {}
  BY <1>1, <1>4 DEF Minting
<1>6. DOMAIN ui = FleetFields /\ ui.minted = {}
  BY DEF Engines!Init, FleetFields
<1> QED
  BY <1>1, <1>4, <1>5, <1>6 DEF EnginesInv

\* The requests under way stay where they are; some answers will be ignored.
LEMMA CancelledCalls ==
  ASSUME EnginesInv, NEW op
  PROVE  LET t == Engines!Cancelled(op)
         IN  /\ CallsOK(t) /\ DOMAIN t = DOMAIN calls
             /\ \A c \in InFlight(t) : "own" \in DOMAIN c.arg /\ c.arg.own \in BOOLEAN
             /\ \A j \in DOMAIN calls :
                  /\ t[j].op = calls[j].op
                  /\ t[j].arg.own => t[j] = calls[j] /\ calls[j].arg.own /\ calls[j].op # op
<1> DEFINE t == Engines!Cancelled(op)
<1>1. t = [i \in DOMAIN calls |-> IF calls[i].op = op THEN [calls[i] EXCEPT !.arg = [own |-> FALSE]]
                                  ELSE calls[i]]
  BY DEF Engines!Cancelled
<1>2. \A j \in DOMAIN calls : IsCall(calls[j]) /\ "own" \in DOMAIN calls[j].arg /\ calls[j].arg.own \in BOOLEAN
  BY DEF EnginesInv, CallsOK, InFlight
<1>3. ASSUME NEW j \in DOMAIN calls, calls[j].op = op
      PROVE  /\ IsCall(t[j]) /\ t[j].op = op
             /\ "own" \in DOMAIN t[j].arg /\ t[j].arg.own = FALSE
  <2>1. t[j] = [calls[j] EXCEPT !.arg = [own |-> FALSE]]
    BY <1>1, <1>3
  <2> DEFINE a == [own |-> FALSE]
  <2>2. t[j] = [calls[j] EXCEPT !.arg = a] /\ "own" \in DOMAIN a /\ a.own = FALSE
    BY <2>1
  <2> HIDE DEF a
  <2>3. calls[j] = [op |-> calls[j].op, arg |-> calls[j].arg, stage |-> calls[j].stage]
    BY <1>2 DEF IsCall
  <2>4. t[j] = [op |-> calls[j].op, arg |-> a, stage |-> calls[j].stage]
    BY <2>2, <2>3
  <2> QED
    BY <1>3, <2>2, <2>4 DEF IsCall
<1>4. \A j \in DOMAIN calls : calls[j].op # op => t[j] = calls[j]
  BY <1>1
<1>5. IsQueue(t) /\ DOMAIN t = DOMAIN calls
  <2>1. IsQueue(calls) /\ t = [i \in DOMAIN calls |-> t[i]]
    BY <1>1 DEF EnginesInv, CallsOK
  <2> HIDE DEF t
  <2> QED
    BY <2>1, QueueMapped
<1> HIDE DEF t
<1> QED
  BY <1>2, <1>3, <1>4, <1>5 DEF CallsOK, InFlight, t

\* The form stays as it is, and the requests for a token are those that there were.
LEMMA EnginesKept ==
  ASSUME EnginesInv, CallsOK(calls'), DOMAIN ui' = FleetFields,
         \A c \in InFlight(calls') : "own" \in DOMAIN c.arg /\ c.arg.own \in BOOLEAN,
         Minting' = {} \/ UNCHANGED <<ui.page, ui.step, ui.minting, ui.type, ui.target>>,
         ui'.minted # {} => UNCHANGED <<ui.page, ui.type, ui.target>>,
         ui'.minted \subseteq ui.minted,
         \A j \in DOMAIN calls' : calls'[j] \in Minting' =>
            j \in DOMAIN calls /\ calls[j] \in Minting /\ calls'[j].arg = calls[j].arg
  PROVE  EnginesInv'
<1>1. \A c \in Minting' : FrozenFor(c)'
  <2>1. SUFFICES ASSUME NEW j \in DOMAIN calls', calls'[j] \in Minting'
                 PROVE  /\ ui'.page = "enroll" /\ ui'.minting /\ ui'.step = 2 /\ ui'.minted = {}
                        /\ calls'[j].arg.type = ui'.type /\ calls'[j].arg.env = ui'.target
    BY DEF FrozenFor, Minting, InFlight
  <2>2. j \in DOMAIN calls /\ calls[j] \in Minting /\ calls'[j].arg = calls[j].arg
    BY <2>1
  <2>3. FrozenFor(calls[j])
    BY <2>2 DEF EnginesInv
  <2> QED
    BY <2>1, <2>2, <2>3 DEF FrozenFor
<1>2. \A j, k \in DOMAIN calls' : calls'[j] \in Minting' /\ calls'[k] \in Minting' => j = k
  BY DEF EnginesInv
<1> QED
  BY <1>1, <1>2 DEF EnginesInv

\* The environment, its list and the pages.
LEMMA EnginesClick ==
  ASSUME EnginesInv,
         \/ Engines!restore \/ Engines!setEnvironment \/ Engines!refreshCapabilities
         \/ Engines!EnrollEngine \/ Engines!BackToFleet \/ Engines!EditScope \/ Engines!handleBack
         \/ Engines!handleNext \/ Engines!setMintedToken
  PROVE  EnginesInv'
<1> USE DEF FleetFields
<1>1. /\ DOMAIN ui = FleetFields /\ CallsOK(calls) /\ IsQueue(calls)
      /\ \A c \in InFlight(calls) : "own" \in DOMAIN c.arg /\ c.arg.own \in BOOLEAN
      /\ \A c \in Minting : FrozenFor(c)
      /\ ui.minted # {} => ui.page = "enroll"
  BY DEF EnginesInv, CallsOK
  \* A request that is added is not one for a token.
<1>2. ASSUME NEW s, CallsOK(s), DOMAIN s = DOMAIN calls,
             \A c \in InFlight(s) : "own" \in DOMAIN c.arg /\ c.arg.own \in BOOLEAN,
             \A j \in DOMAIN calls : s[j].op = "mint" /\ s[j].arg.own => s[j] = calls[j],
             NEW op, op # "mint", NEW env, NEW own \in BOOLEAN, NEW stage,
             calls' = Append(s, [op |-> op, arg |-> [env |-> env, own |-> own], stage |-> stage]),
             DOMAIN ui' = FleetFields,
             UNCHANGED <<ui.page, ui.step, ui.minting, ui.type, ui.target, ui.minted>>
      PROVE  EnginesInv'
  <2> DEFINE arg == [env |-> env, own |-> own]
             c == [op |-> op, arg |-> arg, stage |-> stage]
  <2>1. "own" \in DOMAIN arg /\ arg.own \in BOOLEAN
    OBVIOUS
  <2> HIDE DEF arg
  <2>2. c.op # "mint" /\ c.arg = arg
    BY <1>2
  <2>3. CallsOK(calls') /\ InFlight(calls') = InFlight(s) \cup {c}
    BY <1>2, CallsSent DEF arg
  <2>4. IsQueue(s)
    BY <1>2 DEF CallsOK
  <2>5. calls' = Append(s, c)
    BY <1>2 DEF arg
  <2> HIDE DEF c
  <2>6. /\ DOMAIN calls' = 1..(Len(s) + 1) /\ DOMAIN s = 1..Len(s) /\ Len(s) \in Nat
        /\ \A j \in 1..Len(s) : calls'[j] = s[j]
        /\ calls'[Len(s) + 1] = c
    BY <2>4, <2>5, QueueAppend, QueueLength
  <2>7. \A j \in DOMAIN calls' : calls'[j] \in Minting' =>
           j \in DOMAIN calls /\ calls[j] \in Minting /\ calls'[j].arg = calls[j].arg
    <3>1. SUFFICES ASSUME NEW j \in DOMAIN calls', calls'[j] \in Minting'
                   PROVE  j \in DOMAIN calls /\ calls[j] \in Minting /\ calls'[j].arg = calls[j].arg
      OBVIOUS
    <3>2. calls'[j].op = "mint" /\ calls'[j].arg.own
      BY <3>1 DEF Minting
    <3>3. j \in DOMAIN s /\ calls'[j] = s[j]
      BY <2>2, <2>6, <3>2
    <3>4. s[j] = calls[j]
      BY <1>2, <3>2, <3>3
    <3> QED
      BY <1>2, <3>2, <3>3, <3>4 DEF Minting, InFlight
  <2>8. \A b \in InFlight(calls') : "own" \in DOMAIN b.arg /\ b.arg.own \in BOOLEAN
    BY <1>2, <2>1, <2>2, <2>3
  <2> QED
    BY <1>1, <1>2, <2>3, <2>7, <2>8, EnginesKept
<1>3. ASSUME NEW env, NEW u, Engines!Switch(env, u), DOMAIN u = FleetFields,
             u.page = ui.page, u.step = ui.step, u.minting = ui.minting, u.type = ui.type,
             u.target = ui.target, u.minted = ui.minted
      PROVE  EnginesInv'
  <2> DEFINE s == Engines!Cancelled("engines")
  <2>1. /\ CallsOK(s) /\ DOMAIN s = DOMAIN calls
        /\ \A c \in InFlight(s) : "own" \in DOMAIN c.arg /\ c.arg.own \in BOOLEAN
        /\ \A j \in DOMAIN calls : s[j].op = "mint" /\ s[j].arg.own => s[j] = calls[j]
    BY CancelledCalls
  <2>2. \E b \in BOOLEAN : calls' = Append(s, [op |-> "engines", arg |-> [env |-> env, own |-> b], stage |-> "asked"])
    BY <1>3 DEF Engines!Switch, Engines!Ask
  <2>3. /\ DOMAIN ui' = FleetFields
        /\ UNCHANGED <<ui.page, ui.step, ui.minting, ui.type, ui.target, ui.minted>>
    BY <1>3 DEF Engines!Switch
  <2> HIDE DEF s
  <2> QED
    BY <1>2, <2>1, <2>2, <2>3
<1>4. CASE Engines!restore
  <2>1. CASE ui.saved = ui.env
    <3>1. /\ DOMAIN ui' = FleetFields /\ UNCHANGED calls
          /\ UNCHANGED <<ui.page, ui.step, ui.minting, ui.type, ui.target, ui.minted>>
      BY <1>1, <1>4, <2>1 DEF Engines!restore
    <3> QED
      BY <1>1, <3>1, EnginesKept DEF Minting
  <2>2. CASE ui.saved # ui.env
    <3> DEFINE u == [ui EXCEPT !.restored = TRUE]
    <3>1. Engines!Switch(ui.saved, u)
      BY <1>4, <2>2 DEF Engines!restore
    <3>2. /\ DOMAIN u = FleetFields /\ u.page = ui.page /\ u.step = ui.step
          /\ u.minting = ui.minting /\ u.type = ui.type /\ u.target = ui.target /\ u.minted = ui.minted
      BY <1>1
    <3> HIDE DEF u
    <3> QED
      BY <1>3, <3>1, <3>2
  <2> QED
    BY <2>1, <2>2
<1>5. CASE Engines!setEnvironment
  <2>1. PICK e : Engines!Switch(e, [ui EXCEPT !.saved = e])
    BY <1>5 DEF Engines!setEnvironment
  <2> DEFINE u == [ui EXCEPT !.saved = e]
  <2>2. /\ DOMAIN u = FleetFields /\ u.page = ui.page /\ u.step = ui.step
        /\ u.minting = ui.minting /\ u.type = ui.type /\ u.target = ui.target /\ u.minted = ui.minted
    BY <1>1
  <2>3. Engines!Switch(e, u)
    BY <2>1
  <2> HIDE DEF u
  <2> QED
    BY <1>3, <2>2, <2>3
<1>6. CASE Engines!refreshCapabilities
  <2>1. \E b \in BOOLEAN : calls' = Append(calls, [op |-> "refresh", arg |-> [env |-> ui.env, own |-> b], stage |-> "asked"])
    BY <1>6 DEF Engines!refreshCapabilities, Engines!Asked
  <2>2. /\ DOMAIN ui' = FleetFields
        /\ UNCHANGED <<ui.page, ui.step, ui.minting, ui.type, ui.target, ui.minted>>
    BY <1>1, <1>6 DEF Engines!refreshCapabilities
  <2> QED
    BY <1>1, <1>2, <2>1, <2>2
<1>7. CASE Engines!EnrollEngine \/ Engines!EditScope \/ Engines!handleBack \/ Engines!handleNext
           \/ Engines!setMintedToken
  <2>1. DOMAIN ui' = FleetFields /\ UNCHANGED calls /\ ui'.minted = {}
    BY <1>1, <1>7 DEF Engines!EnrollEngine, Engines!EditScope, Engines!handleBack, Engines!handleNext,
                      Engines!setMintedToken, Engines!Only, Engines!Enrolling
  <2>2. ui.page = "overview" \/ ui.step = 1 \/ ~ui.minting \/ ui.minted # {}
    BY <1>7 DEF Engines!EnrollEngine, Engines!EditScope, Engines!handleBack, Engines!handleNext,
                Engines!setMintedToken
  <2>3. Minting = {}
    BY <1>1, <2>2 DEF FrozenFor
  <2> QED
    BY <1>1, <2>1, <2>3, EnginesKept DEF Minting
<1>8. CASE Engines!BackToFleet
  <2> DEFINE s == Engines!Cancelled("mint")
  <2>1. /\ CallsOK(s) /\ DOMAIN s = DOMAIN calls
        /\ \A c \in InFlight(s) : "own" \in DOMAIN c.arg /\ c.arg.own \in BOOLEAN
        /\ \A j \in DOMAIN calls : ~(s[j].op = "mint" /\ s[j].arg.own)
    BY CancelledCalls
  <2>2. calls' = s /\ DOMAIN ui' = FleetFields /\ ui'.minted = {}
    BY <1>1, <1>8 DEF Engines!BackToFleet
  <2> HIDE DEF s
  <2>3. Minting' = {}
    BY <2>1, <2>2 DEF Minting, InFlight
  <2> QED
    BY <2>1, <2>2, <2>3, EnginesKept DEF InFlight
<1> QED
  BY <1>4, <1>5, <1>6, <1>7, <1>8

\* A token is asked for.
LEMMA EnginesMint ==
  ASSUME EnginesInv, Engines!handleMintToken
  PROVE  EnginesInv'
<1> DEFINE arg == [type |-> ui.type, env |-> ui.target, own |-> TRUE]
           c == [op |-> "mint", arg |-> arg, stage |-> "sent"]
<1>1. /\ DOMAIN ui = FleetFields /\ CallsOK(calls) /\ IsQueue(calls)
      /\ \A b \in InFlight(calls) : "own" \in DOMAIN b.arg /\ b.arg.own \in BOOLEAN
      /\ \A b \in Minting : FrozenFor(b)
  BY DEF EnginesInv, CallsOK
<1>2. /\ ui.page = "enroll" /\ ui.minted = {} /\ ui.step = 2 /\ ~ui.minting
      /\ ui' = [ui EXCEPT !.minting = TRUE]
  BY DEF Engines!handleMintToken, Engines!Enrolling
<1>3. /\ DOMAIN ui' = FleetFields /\ ui'.page = "enroll" /\ ui'.minted = {} /\ ui'.step = 2 /\ ui'.minting
      /\ ui'.type = ui.type /\ ui'.target = ui.target
  BY <1>1, <1>2 DEF FleetFields
<1>4. Minting = {}
  BY <1>1, <1>2 DEF FrozenFor
<1>5. "own" \in DOMAIN arg /\ arg.own \in BOOLEAN /\ arg.type = ui.type /\ arg.env = ui.target
  OBVIOUS
<1>6. calls' = Append(calls, c)
  BY DEF Engines!handleMintToken, Engines!Sent
<1> HIDE DEF arg
<1>7. c.arg = arg
  OBVIOUS
<1>8. CallsOK(calls') /\ InFlight(calls') = InFlight(calls) \cup {c}
  BY <1>1, <1>6, CallsSent
<1> HIDE DEF c
<1>9. \A b \in Minting' : b = c
  BY <1>4, <1>8 DEF Minting
<1>10. \A b \in Minting' : FrozenFor(b)'
  BY <1>3, <1>5, <1>7, <1>9 DEF FrozenFor
<1>11. \A j, k \in DOMAIN calls' : calls'[j] \in Minting' /\ calls'[k] \in Minting' => j = k
  <2>1. /\ DOMAIN calls' = 1..(Len(calls) + 1) /\ Len(calls) \in Nat /\ DOMAIN calls = 1..Len(calls)
        /\ \A j \in 1..Len(calls) : calls'[j] = calls[j]
    BY <1>1, <1>6, QueueAppend, QueueLength
  <2>2. \A j \in 1..Len(calls) : calls'[j] \notin Minting'
    BY <1>4, <2>1 DEF Minting, InFlight
  <2> QED
    BY <2>1, <2>2
<1> QED
  BY <1>1, <1>3, <1>5, <1>7, <1>8, <1>10, <1>11 DEF EnginesInv

\* What becomes of a request.
LEMMA EnginesAnswer ==
  ASSUME EnginesInv, NEW i \in DOMAIN calls,
         Engines!Engine(i) \/ Engines!fetchEngines(i) \/ Engines!Minted(i)
  PROVE  EnginesInv'
<1> USE DEF FleetFields
<1>1. /\ DOMAIN ui = FleetFields /\ CallsOK(calls) /\ IsQueue(calls)
      /\ \A c \in InFlight(calls) : "own" \in DOMAIN c.arg /\ c.arg.own \in BOOLEAN
      /\ \A c \in Minting : FrozenFor(c)
      /\ \A j, k \in DOMAIN calls : calls[j] \in Minting /\ calls[k] \in Minting => j = k
      /\ ui.minted # {} => ui.page = "enroll"
      /\ \A m \in ui.minted : m.type = ui.type /\ m.env = ui.target
  BY DEF EnginesInv, CallsOK
<1>2. CASE Engines!Engine(i)
  <2>1. \E stage : calls' = [calls EXCEPT ![i].stage = stage]
    BY <1>2 DEF Engines!Engine, Engines!Handle, Engines!Refuse
  <2>2. PICK stage : calls' = [calls EXCEPT ![i].stage = stage]
    BY <2>1
  <2>3. UNCHANGED ui
    BY <1>2 DEF Engines!Engine, Engines!Handle, Engines!Refuse
  <2>4. CallsOK(calls') /\ DOMAIN calls' = DOMAIN calls
    BY <1>1, <2>2, CallsStage
  <2>5. \A j \in DOMAIN calls : IsCall(calls[j])
    BY <1>1 DEF CallsOK, InFlight
  <2>6. \A j \in DOMAIN calls : calls'[j].op = calls[j].op /\ calls'[j].arg = calls[j].arg
    BY <2>2, <2>5 DEF IsCall
  <2>7. \A c \in InFlight(calls') : "own" \in DOMAIN c.arg /\ c.arg.own \in BOOLEAN
    BY <1>1, <2>4, <2>6 DEF InFlight
  <2>8. \A j \in DOMAIN calls' : calls'[j] \in Minting' =>
          j \in DOMAIN calls /\ calls[j] \in Minting /\ calls'[j].arg = calls[j].arg
    BY <2>4, <2>6 DEF Minting, InFlight
  <2> QED
    BY <1>1, <2>3, <2>4, <2>7, <2>8, EnginesKept
<1>3. ASSUME calls' = Rest(calls, i)
      PROVE  /\ CallsOK(calls') /\ InFlight(calls') \subseteq InFlight(calls)
             /\ Minting' \subseteq Minting
             /\ \A j, k \in DOMAIN calls' : calls'[j] \in Minting' /\ calls'[k] \in Minting' => j = k
             /\ calls[i] \in Minting => Minting' = {}
  <2>1. CallsOK(calls') /\ InFlight(calls') \subseteq InFlight(calls)
    BY <1>1, <1>3, CallsSettled
  <2>2. Minting' \subseteq Minting
    BY <2>1 DEF Minting
  <2>3. /\ \A j, k \in DOMAIN calls' : calls'[j] \in Minting /\ calls'[k] \in Minting => j = k
        /\ calls[i] \in Minting => InFlight(calls') \cap Minting = {}
    BY <1>1, <1>3, QueueOnly
  <2>4. Minting' \subseteq InFlight(calls')
    BY DEF Minting
  <2> QED
    BY <2>1, <2>2, <2>3, <2>4
<1>4. CASE Engines!fetchEngines(i)
  <2>1. calls' = Rest(calls, i)
    BY <1>4 DEF Engines!fetchEngines, Engines!Settled, Rest
  <2>2. /\ DOMAIN ui' = FleetFields
        /\ UNCHANGED <<ui.page, ui.step, ui.minting, ui.type, ui.target, ui.minted>>
    BY <1>1, <1>4 DEF Engines!fetchEngines
  <2>3. \A c \in Minting' : FrozenFor(c)'
    BY <1>1, <1>3, <2>1, <2>2 DEF FrozenFor
  <2> QED
    BY <1>1, <1>3, <2>1, <2>2, <2>3 DEF EnginesInv
<1>5. CASE Engines!Minted(i)
  <2>1. calls' = Rest(calls, i) /\ calls[i].op = "mint"
    BY <1>5 DEF Engines!Minted, Engines!Settled, Rest
  <2>2. CASE calls[i].arg.own
    <3>1. calls[i] \in Minting
      BY <2>1, <2>2 DEF Minting, InFlight
    <3>2. Minting' = {}
      BY <1>3, <2>1, <3>1
    <3>3. FrozenFor(calls[i])
      BY <1>1, <3>1
    <3>4. PICK m : m.type = calls[i].arg.type /\ m.env = calls[i].arg.env
                   /\ ui' = [ui EXCEPT !.minting = FALSE, !.minted = {m}]
      <4> DEFINE m == [type |-> calls[i].arg.type, env |-> calls[i].arg.env, real |-> Engines!Succeeds(i)]
      <4>1. ui' = [ui EXCEPT !.minting = FALSE, !.minted = {m}]
        BY <1>5, <2>2 DEF Engines!Minted
      <4>2. m.type = calls[i].arg.type /\ m.env = calls[i].arg.env
        OBVIOUS
      <4> HIDE DEF m
      <4> QED
        BY <4>1, <4>2
    <3>5. /\ DOMAIN ui' = FleetFields /\ ui'.page = ui.page /\ ui'.type = ui.type
          /\ ui'.target = ui.target /\ ui'.minted = {m}
      BY <1>1, <3>4
    <3> QED
      BY <1>1, <1>3, <2>1, <3>2, <3>3, <3>4, <3>5 DEF EnginesInv, FrozenFor
  <2>3. CASE ~calls[i].arg.own
    <3>1. UNCHANGED ui
      BY <1>5, <2>3 DEF Engines!Minted
    <3>2. \A c \in Minting' : FrozenFor(c)'
      BY <1>1, <1>3, <2>1, <3>1 DEF FrozenFor
    <3> QED
      BY <1>1, <1>3, <2>1, <3>1, <3>2 DEF EnginesInv
  <2> QED
    BY <2>2, <2>3
<1> QED
  BY <1>2, <1>4, <1>5

\* Every step of the fleet pages keeps its invariant.
LEMMA EnginesStep ==
  ASSUME EnginesInv, Engines!Next
  PROVE  EnginesInv'
<1>1. CASE Engines!Elsewhere
  <2>1. UNCHANGED <<calls, ui>>
    BY <1>1 DEF Engines!Elsewhere
  <2> QED
    BY <2>1 DEF EnginesInv, Minting, FrozenFor
<1>2. CASE ~Engines!Elsewhere
  BY <1>2, EnginesClick, EnginesMint, EnginesAnswer DEF Engines!Next
<1> QED
  BY <1>1, <1>2

-----------------------------------------------------------------------------
\* The explorer: a panel that hides what it knows while it waits asks one question
\* at a time.
PanelFields == {"panel", "input", "isLoading", "failed", "asked", "result"}
Patient == ui.panel \in {"subject", "consistency"}

OfLast(r) == r.of = ui.asked.of /\ r.since = ui.asked.since

ExplorerInv ==
  /\ DOMAIN ui = PanelFields
  /\ CallsOK(calls)
  /\ \A c \in InFlight(calls) : DOMAIN c.arg = {"of", "since", "got"}
  /\ Patient =>
       /\ \A j, k \in DOMAIN calls : j = k
       /\ ~ui.isLoading => InFlight(calls) = {}
       /\ \A c \in InFlight(calls) : OfLast(c.arg)
       /\ ~ui.failed /\ ~ui.isLoading => \A r \in ui.result : OfLast(r)

\* A panel that was just mounted waits for the answer to its first question.
LEMMA ExplorerMounts ==
  ASSUME NEW p, NEW u, u = Insight!Mount(p), NEW op, NEW s,
         s = <<[op |-> op, arg |-> Insight!Question(u), stage |-> "asked"]>>
  PROVE  /\ DOMAIN u = PanelFields /\ CallsOK(s) /\ u.isLoading
         /\ \A c \in InFlight(s) : /\ DOMAIN c.arg = {"of", "since", "got"}
                                   /\ c.arg.of = u.asked.of /\ c.arg.since = u.asked.since
         /\ \A j, k \in DOMAIN s : j = k
<1> DEFINE arg == Insight!Question(u)
           c == [op |-> op, arg |-> arg, stage |-> "asked"]
<1>1. /\ DOMAIN arg = {"of", "since", "got"} /\ arg.of = u.asked.of /\ arg.since = u.asked.since
      /\ DOMAIN u = PanelFields /\ u.isLoading
  BY DEF Insight!Question, Insight!Mount, PanelFields
<1> HIDE DEF arg
<1>2. IsCall(c) /\ c.arg = arg
  BY DEF IsCall
<1>3. s = <<c>>
  BY DEF arg
<1> HIDE DEF c
<1>4. s \in Seq({c}) /\ InFlight(s) = {c} /\ DOMAIN s = {1}
  BY <1>3 DEF InFlight
<1> QED
  BY <1>1, <1>2, <1>4, QueueOf DEF CallsOK

\* The explorer starts in its invariant.
LEMMA ExplorerStart ==
  ASSUME Insight!Init
  PROVE  ExplorerInv
<1>1. /\ ui = Insight!Mount("subject")
      /\ calls = <<[op |-> "subject", arg |-> Insight!Question(ui), stage |-> "asked"]>>
  BY DEF Insight!Init
<1> QED
  BY <1>1, ExplorerMounts DEF ExplorerInv, OfLast

\* A question is asked by a panel that waits for none, or that shows every answer.
LEMMA ExplorerAsks ==
  ASSUME ExplorerInv, NEW u, DOMAIN u = PanelFields, u.panel = ui.panel, Insight!Ask(u),
         Patient => InFlight(calls) = {}
  PROVE  ExplorerInv'
<1> DEFINE arg == Insight!Question(u)
           c == [op |-> u.panel, arg |-> arg, stage |-> "asked"]
<1>1. CallsOK(calls) /\ IsQueue(calls) /\ \A b \in InFlight(calls) : DOMAIN b.arg = {"of", "since", "got"}
  BY DEF ExplorerInv, CallsOK
<1>2. ui' = [u EXCEPT !.isLoading = TRUE, !.failed = FALSE,
                      !.asked = [of |-> u.input, since |-> db.seq]]
  BY DEF Insight!Ask
<1>3. \E a : a.of = u.input /\ a.since = db.seq
             /\ ui' = [u EXCEPT !.isLoading = TRUE, !.failed = FALSE, !.asked = a]
  <2> DEFINE a == [of |-> u.input, since |-> db.seq]
  <2>1. a.of = u.input /\ a.since = db.seq
    OBVIOUS
  <2>2. ui' = [u EXCEPT !.isLoading = TRUE, !.failed = FALSE, !.asked = a]
    BY <1>2
  <2> HIDE DEF a
  <2> QED
    BY <2>1, <2>2
<1>4. PICK a : a.of = u.input /\ a.since = db.seq
               /\ ui' = [u EXCEPT !.isLoading = TRUE, !.failed = FALSE, !.asked = a]
  BY <1>3
<1>5. /\ DOMAIN ui' = PanelFields /\ ui'.isLoading /\ ui'.panel = ui.panel /\ ui'.asked = a
  BY <1>4 DEF PanelFields
<1>6. DOMAIN arg = {"of", "since", "got"} /\ arg.of = a.of /\ arg.since = a.since
  BY <1>4 DEF Insight!Question
<1>7. calls' = Append(calls, c)
  BY DEF Insight!Ask, Insight!Asked
<1> HIDE DEF arg
<1>8. c.arg = arg
  OBVIOUS
<1>9. CallsOK(calls') /\ InFlight(calls') = InFlight(calls) \cup {c}
  BY <1>1, <1>7, CallsSent
<1> HIDE DEF c
<1>10. \A b \in InFlight(calls') : DOMAIN b.arg = {"of", "since", "got"}
  BY <1>1, <1>6, <1>8, <1>9
<1>11. ASSUME Patient
       PROVE  /\ \A j, k \in DOMAIN calls' : j = k
              /\ \A b \in InFlight(calls') : OfLast(b.arg)'
  <2>1. InFlight(calls) = {}
    BY <1>11
  <2>2. DOMAIN calls' = 1..(Len(calls) + 1) /\ Len(calls) \in Nat /\ DOMAIN calls = 1..Len(calls)
    BY <1>1, <1>7, QueueAppend, QueueLength
  <2>3. DOMAIN calls = {}
    BY <2>1 DEF InFlight
  <2>4. Len(calls) = 0
    BY <2>2, <2>3
  <2> QED
    BY <1>5, <1>6, <1>8, <1>9, <2>1, <2>2, <2>4 DEF OfLast
<1> QED
  BY <1>5, <1>9, <1>10, <1>11 DEF ExplorerInv, Patient

\* What the user does on the explorer keeps its invariant.
LEMMA ExplorerClick ==
  ASSUME ExplorerInv,
         \/ Insight!setActiveTab \/ Insight!setSubjectQuery \/ Insight!handleSearch
         \/ Insight!runDiagnostics \/ Insight!EditAccess \/ Insight!handleEvaluate
         \/ Insight!EditRequest \/ Insight!handleSimulate \/ Insight!Elsewhere
  PROVE  ExplorerInv'
<1>1. DOMAIN ui = PanelFields /\ (Patient /\ ~ui.isLoading => InFlight(calls) = {})
  BY DEF ExplorerInv
<1>2. CASE Insight!setActiveTab
  <2>1. \E p : /\ ui' = Insight!Mount(p)
               /\ calls' = <<[op |-> ui'.panel, arg |-> Insight!Question(ui'), stage |-> "asked"]>>
    BY <1>2 DEF Insight!setActiveTab
  <2>2. /\ DOMAIN ui' = PanelFields /\ CallsOK(calls') /\ ui'.isLoading
        /\ \A c \in InFlight(calls') : /\ DOMAIN c.arg = {"of", "since", "got"}
                                       /\ c.arg.of = ui'.asked.of /\ c.arg.since = ui'.asked.since
        /\ \A j, k \in DOMAIN calls' : j = k
    BY <2>1, ExplorerMounts
  <2> QED
    BY <2>2 DEF ExplorerInv, OfLast
<1>3. CASE Insight!setSubjectQuery \/ Insight!Elsewhere
  <2>1. /\ UNCHANGED calls /\ DOMAIN ui' = PanelFields
        /\ UNCHANGED <<ui.panel, ui.isLoading, ui.failed, ui.asked, ui.result>>
    BY <1>1, <1>3 DEF Insight!setSubjectQuery, Insight!Elsewhere, PanelFields
  <2> QED
    BY <2>1 DEF ExplorerInv, Patient, OfLast
<1>4. CASE Insight!handleSearch \/ Insight!runDiagnostics \/ Insight!handleEvaluate \/ Insight!handleSimulate
  <2>1. Insight!Ask(ui) /\ ~ui.isLoading
    BY <1>4 DEF Insight!handleSearch, Insight!runDiagnostics, Insight!handleEvaluate, Insight!handleSimulate
  <2> QED
    BY <1>1, <2>1, ExplorerAsks
<1>5. CASE Insight!EditAccess \/ Insight!EditRequest
  <2>1. ~Patient
    BY <1>5 DEF Insight!EditAccess, Insight!EditRequest, Patient
  <2>2. PICK r : Insight!Ask([ui EXCEPT !.input = r])
    BY <1>5 DEF Insight!EditAccess, Insight!EditRequest
  <2> DEFINE u == [ui EXCEPT !.input = r]
  <2>3. DOMAIN u = PanelFields /\ u.panel = ui.panel
    BY <1>1 DEF PanelFields
  <2> HIDE DEF u
  <2>4. Insight!Ask(u)
    BY <2>2 DEF u
  <2> QED
    BY <2>1, <2>3, <2>4, ExplorerAsks
<1> QED
  BY <1>2, <1>3, <1>4, <1>5

\* Every stage of a request of the explorer keeps its invariant: the engine,
\* the answer and the error.
LEMMA ExplorerAnswer ==
  ASSUME ExplorerInv, NEW i \in DOMAIN calls,
         Insight!Reply(i) \/ Insight!Return(i) \/ Insight!ReturnError(i)
  PROVE  ExplorerInv'
<1>1. /\ DOMAIN ui = PanelFields /\ CallsOK(calls) /\ IsQueue(calls)
      /\ \A c \in InFlight(calls) : DOMAIN c.arg = {"of", "since", "got"}
  BY DEF ExplorerInv, CallsOK
<1>2. CASE Insight!Reply(i)
  <2>1. \E got : calls' = [calls EXCEPT ![i].arg.got = got]
    BY <1>2 DEF Insight!Reply
  <2>2. PICK got : calls' = [calls EXCEPT ![i].arg.got = got]
    BY <2>1
  <2> DEFINE arg == [calls[i].arg EXCEPT !.got = got]
             c == [calls[i] EXCEPT !.arg = arg]
  <2>3. calls' = [calls EXCEPT ![i] = c]
    BY <2>2
  <2>4. IsCall(calls[i]) /\ DOMAIN calls[i].arg = {"of", "since", "got"}
    BY <1>1 DEF CallsOK, InFlight
  <2>5. /\ DOMAIN arg = {"of", "since", "got"} /\ arg.of = calls[i].arg.of /\ arg.since = calls[i].arg.since
    BY <2>4
  <2> HIDE DEF arg
  <2>6. c = [op |-> calls[i].op, arg |-> arg, stage |-> calls[i].stage]
    BY <2>4 DEF IsCall
  <2>7. IsCall(c) /\ c.arg = arg
    BY <2>6 DEF IsCall
  <2> HIDE DEF c
  <2>8. /\ IsQueue(calls') /\ InFlight(calls') \subseteq InFlight(calls) \cup {c}
        /\ DOMAIN calls' = DOMAIN calls
    BY <1>1, <2>3, QueueExcept
  <2>9. CallsOK(calls') /\ \A b \in InFlight(calls') : DOMAIN b.arg = {"of", "since", "got"}
    BY <1>1, <2>5, <2>7, <2>8 DEF CallsOK
  <2>10. UNCHANGED ui
    BY <1>2 DEF Insight!Reply
  <2>11. InFlight(calls) # {} /\ calls[i] \in InFlight(calls)
    BY DEF InFlight
  <2> QED
    BY <2>5, <2>7, <2>8, <2>9, <2>10, <2>11 DEF ExplorerInv, Patient, OfLast
<1>3. ASSUME calls' = Rest(calls, i)
      PROVE  /\ CallsOK(calls') /\ \A c \in InFlight(calls') : DOMAIN c.arg = {"of", "since", "got"}
             /\ Patient => DOMAIN calls' = {} /\ InFlight(calls') = {}
  <2>1. CallsOK(calls') /\ InFlight(calls') \subseteq InFlight(calls)
    BY <1>1, <1>3, CallsSettled
  <2>2. DOMAIN calls' = 1..(Len(calls) - 1)
    BY <1>1, <1>3, QueueRest
  <2>3. DOMAIN calls = 1..Len(calls) /\ Len(calls) \in Nat
    BY <1>1, QueueLength
  <2>4. ASSUME Patient PROVE DOMAIN calls' = {} /\ InFlight(calls') = {}
    <3>1. \A j, k \in DOMAIN calls : j = k
      BY <2>4 DEF ExplorerInv
    <3>2. Len(calls) < 2
      BY <2>3, <3>1
    <3>3. DOMAIN calls' = {}
      BY <2>2, <2>3, <3>2
    <3> QED
      BY <3>3 DEF InFlight
  <2> QED
    BY <1>1, <2>1, <2>4
<1>4. CASE Insight!Return(i)
  <2>1. calls' = Rest(calls, i)
    BY <1>4 DEF Insight!Return, Insight!Settled, Rest
  <2>2. \E r : /\ r.of = calls[i].arg.of /\ r.since = calls[i].arg.since
               /\ ui' = [ui EXCEPT !.isLoading = FALSE, !.failed = FALSE, !.result = {r}]
    <3> DEFINE r == [of |-> calls[i].arg.of, since |-> calls[i].arg.since, says |-> Insight!Answered(i)]
    <3>1. r.of = calls[i].arg.of /\ r.since = calls[i].arg.since
      OBVIOUS
    <3>2. ui' = [ui EXCEPT !.isLoading = FALSE, !.failed = FALSE, !.result = {r}]
      BY <1>4 DEF Insight!Return
    <3> HIDE DEF r
    <3> QED
      BY <3>1, <3>2
  <2>3. PICK r : /\ r.of = calls[i].arg.of /\ r.since = calls[i].arg.since
                 /\ ui' = [ui EXCEPT !.isLoading = FALSE, !.failed = FALSE, !.result = {r}]
    BY <2>2
  <2>4. /\ DOMAIN ui' = PanelFields /\ ui'.panel = ui.panel /\ ui'.asked = ui.asked /\ ui'.result = {r}
    BY <1>1, <2>3 DEF PanelFields
  <2>5. Patient => OfLast(calls[i].arg)
    BY DEF ExplorerInv, InFlight
  <2>6. Patient => OfLast(r)
    BY <2>3, <2>5 DEF OfLast
  <2> QED
    BY <1>3, <2>1, <2>4, <2>6 DEF ExplorerInv, Patient, OfLast
<1>5. CASE Insight!ReturnError(i)
  <2>1. calls' = Rest(calls, i)
    BY <1>5 DEF Insight!ReturnError, Insight!Settled, Rest
  <2>2. /\ DOMAIN ui' = PanelFields /\ ui'.panel = ui.panel /\ ui'.failed
    BY <1>1, <1>5 DEF Insight!ReturnError, PanelFields
  <2> QED
    BY <1>3, <2>1, <2>2 DEF ExplorerInv, Patient
<1> QED
  BY <1>2, <1>4, <1>5

\* Every step of the explorer keeps its invariant.
LEMMA ExplorerStep ==
  ASSUME ExplorerInv, Insight!Next
  PROVE  ExplorerInv'
BY ExplorerClick, ExplorerAnswer DEF Insight!Next

-----------------------------------------------------------------------------
\* The observability page: the fleet's metrics are asked for by one tab, the probe
\* by another, each of them once at a time.
DashboardFields == {"tab", "engine", "isLoading", "failed", "metrics", "asked", "alerts", "error",
                    "target", "isProbing", "probed", "probe", "lists", "isExporting"}
MeasuresOf(s) == {c \in InFlight(s) : c.op = "metrics"}
ProbesOf(s) == {c \in InFlight(s) : c.op = "probe"}

AreReadings(s) ==
  /\ IsQueue(s)
  /\ \A c \in InFlight(s) : /\ DOMAIN c = {"op", "arg", "stage", "read"}
                            /\ c.op \in {"metrics", "alerts", "probe", "lists", "bundle"}
  /\ \A j, k \in DOMAIN s : s[j] \in MeasuresOf(s) /\ s[k] \in MeasuresOf(s) => j = k
  /\ \A j, k \in DOMAIN s : s[j] \in ProbesOf(s) /\ s[k] \in ProbesOf(s) => j = k

\* What is read for a refresh is not older than the refresh.
Measures(c) ==
  /\ ui.tab = "fleet" /\ ui.isLoading
  /\ c.stage = "done" => c.read \in Nat /\ c.read >= ui.asked
Probes(c) == ui.tab = "diagnostics" /\ ui.isProbing /\ c.arg = ui.probed

ObservabilityInv ==
  /\ DOMAIN ui = DashboardFields
  /\ DOMAIN db = {"seq"} /\ db.seq \in Nat /\ ui.asked \in Nat /\ ui.asked <= db.seq
  /\ AreReadings(calls)
  /\ \A c \in MeasuresOf(calls) : Measures(c)
  /\ \A c \in ProbesOf(calls) : Probes(c)
  /\ ui.tab # "fleet" => ui.metrics = {}
  /\ ui.tab # "diagnostics" => ui.probe = ui.probed
  /\ ~ui.failed /\ ~ui.isLoading => \A m \in ui.metrics : m >= ui.asked
  /\ ~ui.failed /\ ~ui.isProbing => ui.probe = ui.probed

\* A tab that is opened has asked for what it shows, and for nothing else.
LEMMA TelemetryOpens ==
  ASSUME DOMAIN db' = {"seq"}, db'.seq \in Nat, NEW n \in Nat, n <= db'.seq,
         NEW tab, NEW engine, DOMAIN ui' = DashboardFields,
         ui'.tab = tab, tab = "fleet" => ui'.isLoading, ui'.metrics = {}, ui'.asked = n,
         ui'.probed = {}, ui'.probe = {},
         calls' = Telemetry!OnMount(tab)
  PROVE  ObservabilityInv'
<1>1. /\ IsQueue(calls') /\ \A j, k \in DOMAIN calls' : j = k
      /\ \A c \in InFlight(calls') :
           /\ DOMAIN c = {"op", "arg", "stage", "read"}
           /\ c.op \in {"metrics", "alerts", "lists"} /\ c.stage = "sent"
           /\ c.op = "metrics" => tab = "fleet"
  <2>1. CASE tab \in {"fleet", "alerts", "diagnostics"}
    <3>1. PICK op \in {"metrics", "alerts", "lists"} :
            calls' = <<Telemetry!Request(op, {})>> /\ (op = "metrics" => tab = "fleet")
      BY <2>1 DEF Telemetry!OnMount
    <3> DEFINE c == Telemetry!Request(op, {})
    <3>2. /\ DOMAIN c = {"op", "arg", "stage", "read"} /\ c.op = op /\ c.stage = "sent"
      <4>1. \A arg : LET b == Telemetry!Request(op, arg)
                     IN  DOMAIN b = {"op", "arg", "stage", "read"} /\ b.op = op /\ b.stage = "sent"
        BY DEF Telemetry!Request
      <4> QED
        BY <4>1
    <3>3. calls' = <<c>>
      BY <3>1
    <3> HIDE DEF c
    <3>4. calls' \in Seq({c}) /\ InFlight(calls') = {c} /\ DOMAIN calls' = {1}
      BY <3>3 DEF InFlight
    <3> QED
      BY <3>1, <3>2, <3>4, QueueOf
  <2>2. CASE tab \notin {"fleet", "alerts", "diagnostics"}
    <3>1. calls' = <<>>
      BY <2>2 DEF Telemetry!OnMount
    <3>2. CallsOK(calls') /\ InFlight(calls') = {}
      BY <3>1, CallsStart
    <3> QED
      BY <3>2 DEF CallsOK, InFlight
  <2> QED
    BY <2>1, <2>2
<1>2. AreReadings(calls')
  BY <1>1 DEF AreReadings
<1>3. \A c \in MeasuresOf(calls') : Measures(c)'
  BY <1>1 DEF MeasuresOf, Measures
<1>4. ProbesOf(calls') = {}
  BY <1>1 DEF ProbesOf
<1> QED
  BY <1>2, <1>3, <1>4 DEF ObservabilityInv

\* The observability page starts in its invariant.
LEMMA ObservabilityStart ==
  ASSUME Telemetry!Init
  PROVE  ObservabilityInv
<1>1. /\ db = [seq |-> 1] /\ ui = Telemetry!Fresh("fleet", Telemetry!FirstEngine)
      /\ calls = <<Telemetry!Request("metrics", {})>>
  BY DEF Telemetry!Init, Telemetry!OnMount
<1>2. /\ DOMAIN ui = DashboardFields /\ ui.tab = "fleet" /\ ui.isLoading
      /\ ui.metrics = {} /\ ui.asked = 1 /\ ui.probed = {} /\ ui.probe = {}
  BY <1>1 DEF Telemetry!Fresh, DashboardFields
<1>3. PICK c : /\ DOMAIN c = {"op", "arg", "stage", "read"} /\ c.op = "metrics" /\ c.stage = "sent"
               /\ calls = <<c>>
  <2>1. \A arg : LET b == Telemetry!Request("metrics", arg)
                 IN  DOMAIN b = {"op", "arg", "stage", "read"} /\ b.op = "metrics" /\ b.stage = "sent"
    BY DEF Telemetry!Request
  <2> QED
    BY <1>1, <2>1
<1>4. calls \in Seq({c}) /\ InFlight(calls) = {c} /\ DOMAIN calls = {1}
  BY <1>3 DEF InFlight
<1>5. AreReadings(calls)
  BY <1>3, <1>4, QueueOf DEF AreReadings
<1>6. /\ \A b \in MeasuresOf(calls) : Measures(b)
      /\ ProbesOf(calls) = {}
  BY <1>2, <1>3, <1>4 DEF MeasuresOf, Measures, ProbesOf
<1> QED
  BY <1>1, <1>2, <1>5, <1>6 DEF ObservabilityInv

\* One more request, of a kind that nobody waits for yet or that may be repeated.
LEMMA ReadingSent ==
  ASSUME AreReadings(calls), NEW op \in {"metrics", "alerts", "probe", "lists", "bundle"}, NEW arg,
         op = "metrics" => MeasuresOf(calls) = {}, op = "probe" => ProbesOf(calls) = {},
         calls' = Append(calls, Telemetry!Request(op, arg))
  PROVE  /\ AreReadings(calls')
         /\ \A c \in MeasuresOf(calls') : c \in MeasuresOf(calls) \/ (op = "metrics" /\ c.stage = "sent")
         /\ \A c \in ProbesOf(calls') : c \in ProbesOf(calls) \/ (op = "probe" /\ c.arg = arg)
<1> DEFINE c == Telemetry!Request(op, arg)
<1>1. DOMAIN c = {"op", "arg", "stage", "read"} /\ c.op = op /\ c.arg = arg /\ c.stage = "sent"
  BY DEF Telemetry!Request
<1> HIDE DEF c
<1>2. /\ IsQueue(calls') /\ InFlight(calls') = InFlight(calls) \cup {c}
      /\ DOMAIN calls' = 1..(Len(calls) + 1)
      /\ \A j \in 1..Len(calls) : calls'[j] = calls[j]
      /\ calls'[Len(calls) + 1] = c
  BY QueueAppend DEF AreReadings, c
<1>3. Len(calls) \in Nat /\ DOMAIN calls = 1..Len(calls)
  BY QueueLength DEF AreReadings
<1>4. \A j, k \in DOMAIN calls' :
        calls'[j] \in MeasuresOf(calls') /\ calls'[k] \in MeasuresOf(calls') => j = k
  BY <1>1, <1>2, <1>3 DEF AreReadings, MeasuresOf, InFlight
<1>5. \A j, k \in DOMAIN calls' :
        calls'[j] \in ProbesOf(calls') /\ calls'[k] \in ProbesOf(calls') => j = k
  BY <1>1, <1>2, <1>3 DEF AreReadings, ProbesOf, InFlight
<1> QED
  BY <1>1, <1>2, <1>4, <1>5 DEF AreReadings, MeasuresOf, ProbesOf

\* What the user does on the observability page keeps its invariant.
LEMMA ObservabilityClick ==
  ASSUME ObservabilityInv,
         \/ Telemetry!setActiveTab \/ Telemetry!handleSelectEngine \/ Telemetry!fetchMetrics
         \/ Telemetry!loadAlerts \/ Telemetry!setTargetEngine \/ Telemetry!runProbe
         \/ Telemetry!handleExportBundle \/ Telemetry!Elsewhere
  PROVE  ObservabilityInv'
<1> USE DEF DashboardFields
<1>1. /\ DOMAIN ui = DashboardFields /\ AreReadings(calls)
      /\ DOMAIN db = {"seq"} /\ db.seq \in Nat /\ ui.asked \in Nat /\ ui.asked <= db.seq
      /\ \A c \in MeasuresOf(calls) : Measures(c)
      /\ \A c \in ProbesOf(calls) : Probes(c)
  BY DEF ObservabilityInv
<1>2. CASE Telemetry!setActiveTab \/ Telemetry!handleSelectEngine
  <2>1. PICK tab, engine : ui' = Telemetry!Fresh(tab, engine) /\ calls' = Telemetry!OnMount(tab) /\ UNCHANGED db
    BY <1>2 DEF Telemetry!setActiveTab, Telemetry!handleSelectEngine, Telemetry!Open
  <2>2. /\ DOMAIN ui' = DashboardFields
        /\ ui'.tab = tab /\ (tab = "fleet" => ui'.isLoading) /\ ui'.metrics = {}
        /\ ui'.asked = db.seq /\ ui'.probed = {} /\ ui'.probe = {}
    BY <2>1 DEF Telemetry!Fresh
  <2>3. DOMAIN db' = {"seq"} /\ db'.seq \in Nat /\ db.seq \in Nat /\ db.seq <= db'.seq
    BY <1>1, <2>1
  <2>4. calls' = Telemetry!OnMount(tab)
    BY <2>1
  <2> QED
    BY <2>2, <2>3, <2>4, TelemetryOpens
<1>3. CASE Telemetry!fetchMetrics
  <2>1. /\ ui.tab = "fleet" /\ ~ui.isLoading /\ UNCHANGED db
        /\ ui' = [ui EXCEPT !.isLoading = TRUE, !.failed = FALSE, !.asked = db.seq]
        /\ calls' = Append(calls, Telemetry!Request("metrics", {}))
    BY <1>3 DEF Telemetry!fetchMetrics, Telemetry!Send
  <2>2. /\ DOMAIN ui' = DashboardFields /\ ui'.tab = "fleet" /\ ui'.isLoading /\ ui'.asked = db.seq
        /\ UNCHANGED <<ui.probe, ui.probed, ui.isProbing, ui.metrics>>
    BY <1>1, <2>1
  <2>3. MeasuresOf(calls) = {} /\ ProbesOf(calls) = {}
    BY <1>1, <2>1 DEF Measures, Probes
  <2>4. \E arg : calls' = Append(calls, Telemetry!Request("metrics", arg))
    BY <2>1
  <2>5. /\ AreReadings(calls') /\ ProbesOf(calls') = {}
        /\ \A c \in MeasuresOf(calls') : c.stage = "sent"
    BY <1>1, <2>3, <2>4, ReadingSent
  <2> QED
    BY <1>1, <2>1, <2>2, <2>5 DEF ObservabilityInv, Measures
<1>4. CASE Telemetry!loadAlerts \/ Telemetry!handleExportBundle
  <2>1. /\ UNCHANGED db /\ DOMAIN ui' = DashboardFields
        /\ UNCHANGED <<ui.tab, ui.isLoading, ui.failed, ui.metrics, ui.asked, ui.probe, ui.probed, ui.isProbing>>
    BY <1>1, <1>4 DEF Telemetry!loadAlerts, Telemetry!handleExportBundle, Telemetry!Send
  <2>2. \E arg : \E op \in {"alerts", "bundle"} : calls' = Append(calls, Telemetry!Request(op, arg))
    BY <1>4 DEF Telemetry!loadAlerts, Telemetry!handleExportBundle, Telemetry!Send
  <2>3. /\ AreReadings(calls')
        /\ \A c \in MeasuresOf(calls') : c \in MeasuresOf(calls)
        /\ \A c \in ProbesOf(calls') : c \in ProbesOf(calls)
    BY <1>1, <2>2, ReadingSent
  <2>4. /\ \A c \in MeasuresOf(calls') : Measures(c)'
        /\ \A c \in ProbesOf(calls') : Probes(c)'
    BY <1>1, <2>1, <2>3 DEF Measures, Probes
  <2> QED
    BY <2>1, <2>3, <2>4 DEF ObservabilityInv
<1>5. CASE Telemetry!setTargetEngine \/ Telemetry!Elsewhere
  <2>1. /\ UNCHANGED calls /\ DOMAIN ui' = DashboardFields
        /\ UNCHANGED <<ui.tab, ui.isLoading, ui.failed, ui.metrics, ui.asked, ui.probe, ui.probed, ui.isProbing>>
        /\ DOMAIN db' = {"seq"} /\ db'.seq \in Nat /\ db.seq <= db'.seq
    BY <1>1, <1>5 DEF Telemetry!setTargetEngine, Telemetry!Elsewhere
  <2>2. ui'.asked <= db'.seq
    BY <1>1, <2>1
  <2>3. /\ \A c \in MeasuresOf(calls') : Measures(c)'
        /\ \A c \in ProbesOf(calls') : Probes(c)'
    BY <1>1, <2>1 DEF Measures, Probes
  <2> QED
    BY <2>1, <2>2, <2>3 DEF ObservabilityInv
<1>6. CASE Telemetry!runProbe
  <2>1. /\ ui.tab = "diagnostics" /\ ~ui.isProbing /\ UNCHANGED db
        /\ ui' = [ui EXCEPT !.isProbing = TRUE, !.failed = FALSE, !.probed = {ui.target}]
        /\ calls' = Append(calls, Telemetry!Request("probe", {ui.target}))
    BY <1>6 DEF Telemetry!runProbe, Telemetry!Send
  <2>2. /\ DOMAIN ui' = DashboardFields /\ ui'.tab = "diagnostics" /\ ui'.isProbing /\ ui'.probed = {ui.target}
        /\ UNCHANGED <<ui.metrics, ui.asked, ui.isLoading>>
    BY <1>1, <2>1
  <2>3. MeasuresOf(calls) = {} /\ ProbesOf(calls) = {}
    BY <1>1, <2>1 DEF Measures, Probes
  <2>4. /\ AreReadings(calls') /\ MeasuresOf(calls') = {}
        /\ \A c \in ProbesOf(calls') : c.arg = {ui.target}
    BY <1>1, <2>1, <2>3, ReadingSent
  <2>5. ui.metrics = {}
    BY <2>1 DEF ObservabilityInv
  <2> QED
    BY <1>1, <2>1, <2>2, <2>4, <2>5 DEF ObservabilityInv, Probes
<1> QED
  BY <1>2, <1>3, <1>4, <1>5, <1>6

\* Every stage of a request of the observability page keeps its invariant: the
\* engine, the answer and the error.
LEMMA ObservabilityAnswer ==
  ASSUME ObservabilityInv, NEW i \in DOMAIN calls,
         Telemetry!Read(i) \/ Telemetry!Return(i) \/ Telemetry!ReturnError(i)
  PROVE  ObservabilityInv'
<1> USE DEF DashboardFields
<1> DEFINE M == MeasuresOf(calls)
           P == ProbesOf(calls)
<1>1. /\ DOMAIN ui = DashboardFields /\ IsQueue(calls)
      /\ \A c \in InFlight(calls) : /\ DOMAIN c = {"op", "arg", "stage", "read"}
                                    /\ c.op \in {"metrics", "alerts", "probe", "lists", "bundle"}
      /\ \A j, k \in DOMAIN calls : calls[j] \in M /\ calls[k] \in M => j = k
      /\ \A j, k \in DOMAIN calls : calls[j] \in P /\ calls[k] \in P => j = k
      /\ DOMAIN db = {"seq"} /\ db.seq \in Nat /\ ui.asked \in Nat /\ ui.asked <= db.seq
      /\ \A c \in M : Measures(c)
      /\ \A c \in P : Probes(c)
  BY DEF ObservabilityInv, AreReadings
<1>2. UNCHANGED db /\ calls[i] \in InFlight(calls)
  BY DEF Telemetry!Read, Telemetry!Return, Telemetry!ReturnError, InFlight
<1>3. CASE Telemetry!Read(i)
  <2> DEFINE c == [calls[i] EXCEPT !.stage = "done", !.read = db.seq]
  <2>1. calls' = [calls EXCEPT ![i] = c] /\ UNCHANGED ui
    BY <1>3 DEF Telemetry!Read
  <2>2. /\ DOMAIN c = {"op", "arg", "stage", "read"} /\ c.op = calls[i].op /\ c.arg = calls[i].arg
        /\ c.read = db.seq
    BY <1>1, <1>2
  <2> HIDE DEF c
  <2>3. /\ IsQueue(calls') /\ InFlight(calls') \subseteq InFlight(calls) \cup {c}
        /\ DOMAIN calls' = DOMAIN calls
    BY <1>1, <2>1, QueueExcept
  <2>4. \A j \in DOMAIN calls : calls'[j] = IF j = i THEN c ELSE calls[j]
    BY <2>1, <2>3
  <2>5. \A j \in DOMAIN calls : calls'[j].op = calls[j].op
    BY <2>2, <2>4
  <2>6. /\ \A j \in DOMAIN calls : calls'[j] \in MeasuresOf(calls') => calls[j] \in M
        /\ \A j \in DOMAIN calls : calls'[j] \in ProbesOf(calls') => calls[j] \in P
    BY <2>5 DEF MeasuresOf, ProbesOf, InFlight
  <2>7. AreReadings(calls')
    BY <1>1, <1>2, <2>2, <2>3, <2>6 DEF AreReadings
  <2>8. \A b \in MeasuresOf(calls') : Measures(b)'
    <3>1. \A b \in MeasuresOf(calls') : b \in M \/ (b = c /\ calls[i] \in M)
      BY <1>2, <2>2, <2>3 DEF MeasuresOf
    <3>2. calls[i] \in M => Measures(calls[i])
      BY <1>1
    <3> QED
      BY <1>1, <2>1, <2>2, <3>1, <3>2 DEF Measures
  <2>9. \A b \in ProbesOf(calls') : Probes(b)'
    <3>1. \A b \in ProbesOf(calls') : b \in P \/ (b = c /\ calls[i] \in P)
      BY <1>2, <2>2, <2>3 DEF ProbesOf
    <3> QED
      BY <1>1, <2>1, <2>2, <3>1 DEF Probes
  <2> QED
    BY <1>2, <2>1, <2>7, <2>8, <2>9 DEF ObservabilityInv
<1>4. ASSUME calls' = Rest(calls, i)
      PROVE  /\ AreReadings(calls')
             /\ MeasuresOf(calls') \subseteq M /\ ProbesOf(calls') \subseteq P
             /\ calls[i] \in M => MeasuresOf(calls') = {}
             /\ calls[i] \in P => ProbesOf(calls') = {}
  <2>1. IsQueue(calls') /\ InFlight(calls') \subseteq InFlight(calls)
    BY <1>1, <1>4, QueueRest
  <2>2. MeasuresOf(calls') \subseteq M /\ ProbesOf(calls') \subseteq P
    BY <2>1 DEF MeasuresOf, ProbesOf
  <2>3. MeasuresOf(calls') \subseteq InFlight(calls') /\ ProbesOf(calls') \subseteq InFlight(calls')
    BY DEF MeasuresOf, ProbesOf
  <2> HIDE DEF M, P
  <2>4. /\ \A j, k \in DOMAIN calls' : calls'[j] \in M /\ calls'[k] \in M => j = k
        /\ calls[i] \in M => InFlight(calls') \cap M = {}
    BY <1>1, <1>4, QueueOnly
  <2>5. /\ \A j, k \in DOMAIN calls' : calls'[j] \in P /\ calls'[k] \in P => j = k
        /\ calls[i] \in P => InFlight(calls') \cap P = {}
    BY <1>1, <1>4, QueueOnly
  <2> QED
    BY <1>1, <2>1, <2>2, <2>3, <2>4, <2>5 DEF AreReadings
<1>5. CASE Telemetry!Return(i) \/ Telemetry!ReturnError(i)
  <2>1. calls' = Rest(calls, i)
    BY <1>5 DEF Telemetry!Return, Telemetry!ReturnError, Telemetry!Settled, Rest
  <2>2. /\ AreReadings(calls')
        /\ MeasuresOf(calls') \subseteq M /\ ProbesOf(calls') \subseteq P
        /\ calls[i] \in M => MeasuresOf(calls') = {}
        /\ calls[i] \in P => ProbesOf(calls') = {}
    BY <1>4, <2>1
  <2>3. CASE calls[i].op = "metrics"
    <3>1. calls[i] \in M
      BY <1>2, <2>3 DEF MeasuresOf
    <3>2. Measures(calls[i])
      BY <1>1, <3>1
    <3>3. P = {}
      BY <1>1, <3>2 DEF Measures, Probes
    <3>4. /\ DOMAIN ui' = DashboardFields
          /\ UNCHANGED <<ui.tab, ui.asked, ui.probe, ui.probed, ui.isProbing>>
          /\ ui'.failed \/ ui'.metrics = {calls[i].read}
          /\ Telemetry!Return(i) \/ ui'.failed
      BY <1>1, <1>5, <2>3 DEF Telemetry!Return, Telemetry!ReturnError
    <3>5. Telemetry!Return(i) => calls[i].stage = "done"
      BY DEF Telemetry!Return
    <3>6. ui'.failed \/ (ui'.metrics = {calls[i].read} /\ calls[i].read >= ui.asked)
      BY <3>2, <3>4, <3>5 DEF Measures
    <3>7. MeasuresOf(calls') = {} /\ ProbesOf(calls') = {}
      BY <2>2, <3>1, <3>3
    <3>8. /\ DOMAIN db' = {"seq"} /\ db'.seq \in Nat /\ ui'.asked \in Nat /\ ui'.asked <= db'.seq
          /\ ui'.tab = "fleet" /\ (ui'.tab # "diagnostics" => ui'.probe = ui'.probed)
          /\ ~ui'.failed => \A m \in ui'.metrics : m >= ui'.asked
          /\ ~ui'.failed /\ ~ui'.isProbing => ui'.probe = ui'.probed
      BY <1>1, <1>2, <3>2, <3>4, <3>6 DEF ObservabilityInv, Measures
    <3> QED
      BY <2>2, <3>4, <3>7, <3>8 DEF ObservabilityInv
  <2>4. CASE calls[i].op = "probe"
    <3>1. calls[i] \in P
      BY <1>2, <2>4 DEF ProbesOf
    <3>2. Probes(calls[i])
      BY <1>1, <3>1
    <3>3. M = {}
      BY <1>1, <3>2 DEF Measures, Probes
    <3>4. /\ DOMAIN ui' = DashboardFields
          /\ UNCHANGED <<ui.tab, ui.asked, ui.metrics, ui.isLoading, ui.probed>>
          /\ ui'.failed \/ ui'.probe = calls[i].arg
      <4>1. CASE Telemetry!Return(i)
        <5>1. ui' = [ui EXCEPT !.isProbing = FALSE, !.failed = FALSE, !.probe = calls[i].arg]
          BY <2>4, <4>1 DEF Telemetry!Return
        <5> QED
          BY <1>1, <5>1 DEF DashboardFields
      <4>2. CASE Telemetry!ReturnError(i)
        <5>1. ui' = [ui EXCEPT !.isProbing = FALSE, !.failed = TRUE]
          BY <2>4, <4>2 DEF Telemetry!ReturnError
        <5> QED
          BY <1>1, <5>1 DEF DashboardFields
      <4> QED
        BY <1>5, <4>1, <4>2
    <3>5. ui.metrics = {}
      BY <3>2 DEF ObservabilityInv, Probes
    <3>6. MeasuresOf(calls') = {} /\ ProbesOf(calls') = {}
      BY <2>2, <3>1, <3>3
    <3>7. /\ DOMAIN db' = {"seq"} /\ db'.seq \in Nat /\ ui'.asked \in Nat /\ ui'.asked <= db'.seq
          /\ ui'.tab = "diagnostics" /\ ui'.metrics = {}
          /\ ~ui'.failed => ui'.probe = ui'.probed
      BY <1>1, <1>2, <3>2, <3>4, <3>5 DEF ObservabilityInv, Probes
    <3> QED
      BY <2>2, <3>4, <3>6, <3>7 DEF ObservabilityInv
  <2>5. CASE calls[i].op \in {"alerts", "lists", "bundle"}
    <3>1. /\ DOMAIN ui' = DashboardFields
          /\ UNCHANGED <<ui.tab, ui.isLoading, ui.failed, ui.metrics, ui.asked, ui.probe, ui.probed, ui.isProbing>>
      BY <1>1, <1>5, <2>5 DEF Telemetry!Return, Telemetry!ReturnError
    <3>2. /\ \A c \in MeasuresOf(calls') : Measures(c)'
          /\ \A c \in ProbesOf(calls') : Probes(c)'
      BY <1>1, <2>2, <3>1 DEF Measures, Probes
    <3> QED
      BY <1>2, <2>2, <3>1, <3>2 DEF ObservabilityInv
  <2> QED
    BY <1>1, <1>2, <2>3, <2>4, <2>5
<1> QED
  BY <1>3, <1>5

\* Every step of the observability page keeps its invariant.
LEMMA ObservabilityStep ==
  ASSUME ObservabilityInv, Telemetry!Next
  PROVE  ObservabilityInv'
BY ObservabilityClick, ObservabilityAnswer DEF Telemetry!Next

-----------------------------------------------------------------------------
\* The playground.  An import has yet to write the tuple that it is about and those
\* after it, and nothing else of what it read.
SimulatorFields == {"input", "context", "checking", "asked", "result"}

IsWrite(c, written) ==
  /\ c.op \in {"add", "import", "check"} /\ "owner" \in DOMAIN c.arg
  /\ c.op = "import" =>
       /\ c.stage # "asked" /\ IsQueue(c.arg.rest)
       /\ c.arg.all \subseteq written \cup {c.arg.tuple} \cup InFlight(c.arg.rest)
       /\ c.stage = "done" => c.arg.tuple \in written

\* The check whose verdict the simulator waits for.
Awaits(c) == c.op = "check" /\ "simulator" \in c.arg.owner

AreWrites(s, written) ==
  /\ CallsOK(s)
  /\ \A c \in InFlight(s) : IsWrite(c, written)
  /\ \A j, k \in DOMAIN s : Awaits(s[j]) /\ Awaits(s[k]) => j = k

AwaitedBy(s, check) ==
  \A c \in InFlight(s) : Awaits(c) => check.checking /\ check.asked = {c.arg.tuple}

PlaygroundInv ==
  /\ DOMAIN ui = {"tab", "grid", "check", "told"} /\ DOMAIN ui.check = SimulatorFields
  /\ DOMAIN db = {"tuples", "written", "seq"}
  /\ AreWrites(calls, db.written)
  /\ AwaitedBy(calls, ui.check)
  /\ ui.told \subseteq db.written
  /\ \A r \in ui.check.result : ui.check.asked = {r.of}

\* The playground starts in its invariant.
LEMMA PlaygroundStart ==
  ASSUME Nexus!Init
  PROVE  PlaygroundInv
<1>1. CallsOK(calls) /\ InFlight(calls) = {} /\ DOMAIN calls = {}
  BY CallsStart DEF Nexus!Init, InFlight
<1>2. /\ ui.check = Nexus!Simulator /\ ui.told = {} /\ DOMAIN ui = {"tab", "grid", "check", "told"}
      /\ DOMAIN db = {"tuples", "written", "seq"}
  BY DEF Nexus!Init
<1>3. DOMAIN Nexus!Simulator = SimulatorFields /\ Nexus!Simulator.result = {}
  BY DEF Nexus!Simulator, SimulatorFields
<1> QED
  BY <1>1, <1>2, <1>3 DEF PlaygroundInv, AreWrites, AwaitedBy

\* Requests go on without the components that wait for them.
LEMMA WritesOrphaned ==
  ASSUME NEW s, NEW written, AreWrites(s, written), NEW check, AwaitedBy(s, check), NEW gone
  PROVE  LET t == Nexus!Orphaned(s, gone)
         IN  /\ AreWrites(t, written) /\ AwaitedBy(t, check)
             /\ "simulator" \in gone => \A c \in InFlight(t) : ~Awaits(c)
<1> DEFINE t == Nexus!Orphaned(s, gone)
<1>1. t = [j \in DOMAIN s |-> [s[j] EXCEPT !.arg = [s[j].arg EXCEPT !.owner = s[j].arg.owner \ gone]]]
  BY DEF Nexus!Orphaned
<1>2. \A j \in DOMAIN s : IsCall(s[j]) /\ IsWrite(s[j], written)
  BY DEF AreWrites, CallsOK, InFlight
<1>3. IsQueue(t) /\ DOMAIN t = DOMAIN s
  <2>1. t = [j \in DOMAIN s |-> t[j]] /\ IsQueue(s)
    BY <1>1 DEF AreWrites, CallsOK
  <2> HIDE DEF t
  <2> QED
    BY <2>1, QueueMapped
<1>4. \A j \in DOMAIN s : t[j] = [s[j] EXCEPT !.arg = [s[j].arg EXCEPT !.owner = s[j].arg.owner \ gone]]
  BY <1>1
<1> HIDE DEF t
<1>5. ASSUME NEW j \in DOMAIN s
      PROVE  /\ IsCall(t[j]) /\ t[j].op = s[j].op /\ t[j].stage = s[j].stage
             /\ DOMAIN t[j].arg = DOMAIN s[j].arg
             /\ t[j].arg.owner = s[j].arg.owner \ gone
             /\ t[j].arg.rest = s[j].arg.rest /\ t[j].arg.all = s[j].arg.all
             /\ t[j].arg.tuple = s[j].arg.tuple
  <2> DEFINE arg == [s[j].arg EXCEPT !.owner = s[j].arg.owner \ gone]
  <2>1. /\ DOMAIN arg = DOMAIN s[j].arg /\ arg.owner = s[j].arg.owner \ gone
        /\ arg.rest = s[j].arg.rest /\ arg.all = s[j].arg.all /\ arg.tuple = s[j].arg.tuple
    BY <1>2 DEF IsWrite
  <2>2. t[j] = [s[j] EXCEPT !.arg = arg]
    BY <1>4
  <2>3. s[j] = [op |-> s[j].op, arg |-> s[j].arg, stage |-> s[j].stage]
    BY <1>2 DEF IsCall
  <2> HIDE DEF arg
  <2>4. t[j] = [op |-> s[j].op, arg |-> arg, stage |-> s[j].stage]
    BY <2>2, <2>3
  <2> QED
    BY <2>1, <2>4 DEF IsCall
<1>6. \A j \in DOMAIN s : IsWrite(t[j], written)
  BY <1>2, <1>5 DEF IsWrite
<1>7. \A j \in DOMAIN s : Awaits(t[j]) => Awaits(s[j]) /\ "simulator" \notin gone
  BY <1>5 DEF Awaits
<1>8. AreWrites(t, written)
  BY <1>3, <1>5, <1>6, <1>7 DEF AreWrites, CallsOK, InFlight
<1>9. AwaitedBy(t, check)
  <2>1. SUFFICES ASSUME NEW j \in DOMAIN s, Awaits(t[j])
                 PROVE  check.checking /\ check.asked = {t[j].arg.tuple}
    BY <1>3 DEF AwaitedBy, InFlight
  <2>2. Awaits(s[j]) /\ s[j] \in InFlight(s)
    BY <1>7, <2>1 DEF InFlight
  <2> QED
    BY <1>5, <2>2 DEF AwaitedBy
<1>10. "simulator" \in gone => \A c \in InFlight(t) : ~Awaits(c)
  BY <1>3, <1>7 DEF InFlight
<1> QED
  BY <1>8, <1>9, <1>10 DEF t

\* A request comes to its end.
LEMMA WritesSettled ==
  ASSUME NEW s, NEW written, AreWrites(s, written), NEW check, AwaitedBy(s, check), NEW i \in DOMAIN s
  PROVE  /\ AreWrites(Rest(s, i), written) /\ AwaitedBy(Rest(s, i), check)
         /\ Awaits(s[i]) => \A c \in InFlight(Rest(s, i)) : ~Awaits(c)
<1> DEFINE r == Rest(s, i)
           M == {c \in InFlight(s) : Awaits(c)}
<1>1. IsQueue(s) /\ CallsOK(s) /\ \A j, k \in DOMAIN s : s[j] \in M /\ s[k] \in M => j = k
  BY DEF AreWrites, CallsOK
<1>2. CallsOK(r) /\ InFlight(r) \subseteq InFlight(s)
  BY <1>1, CallsSettled
<1>3. s[i] \in InFlight(s)
  BY DEF InFlight
<1>4. /\ \A j, k \in DOMAIN r : r[j] \in M /\ r[k] \in M => j = k
      /\ s[i] \in M => InFlight(r) \cap M = {}
  <2> HIDE DEF M
  <2> QED
    BY <1>1, QueueOnly
<1>5. \A j \in DOMAIN r : r[j] \in InFlight(s)
  BY <1>2 DEF InFlight
<1> HIDE DEF r
<1>6. AreWrites(r, written) /\ AwaitedBy(r, check)
  BY <1>2, <1>4, <1>5 DEF AreWrites, AwaitedBy
<1>7. Awaits(s[i]) => \A c \in InFlight(r) : ~Awaits(c)
  BY <1>2, <1>3, <1>4
<1> QED
  BY <1>6, <1>7 DEF r

\* A tuple is written, one more.
LEMMA WritesSent ==
  ASSUME NEW s, NEW written, AreWrites(s, written), NEW check, AwaitedBy(s, check),
         NEW c, IsCall(c), IsWrite(c, written), c.op # "check"
  PROVE  AreWrites(Append(s, c), written) /\ AwaitedBy(Append(s, c), check)
<1> DEFINE t == Append(s, c)
<1>1. IsQueue(s)
  BY DEF AreWrites, CallsOK
<1>2. /\ IsQueue(t) /\ InFlight(t) = InFlight(s) \cup {c}
      /\ DOMAIN t = 1..(Len(s) + 1)
      /\ \A j \in 1..Len(s) : t[j] = s[j]
      /\ t[Len(s) + 1] = c
  BY <1>1, QueueAppend
<1>3. Len(s) \in Nat /\ DOMAIN s = 1..Len(s)
  BY <1>1, QueueLength
<1> HIDE DEF t
<1>4. ~Awaits(c)
  BY DEF Awaits
<1>5. \A j \in DOMAIN t : Awaits(t[j]) => j \in DOMAIN s /\ t[j] = s[j]
  BY <1>2, <1>3, <1>4
<1>6. AreWrites(t, written)
  BY <1>2, <1>5 DEF AreWrites, CallsOK
<1>7. AwaitedBy(t, check)
  BY <1>2, <1>4 DEF AwaitedBy
<1> QED
  BY <1>6, <1>7 DEF t

\* A write of a request is one of the tuple, or of all that an import read.
LEMMA WriteIsCall ==
  ASSUME NEW x, NEW rest, IsQueue(rest), NEW all, NEW written, NEW owner,
         all \subseteq written \cup {x} \cup InFlight(rest)
  PROVE  LET c == Nexus!Write(x, rest, all, owner)
         IN  IsCall(c) /\ IsWrite(c, written) /\ c.op # "check"
<1> DEFINE arg == [tuple |-> x, rest |-> rest, all |-> all, owner |-> owner]
           op == IF all = {} THEN "add" ELSE "import"
           c == [op |-> op, arg |-> arg, stage |-> "sent"]
<1>1. Nexus!Write(x, rest, all, owner) = c
  BY DEF Nexus!Write
<1>2. /\ arg.tuple = x /\ arg.rest = rest /\ arg.all = all /\ "owner" \in DOMAIN arg
      /\ op \in {"add", "import"}
  OBVIOUS
<1> HIDE DEF arg, op
<1>3. IsCall(c) /\ c.op = op /\ c.arg = arg /\ c.stage = "sent"
  BY DEF IsCall
<1> HIDE DEF c
<1> QED
  BY <1>1, <1>2, <1>3 DEF IsWrite

\* Nothing happens to what the simulator shows, or to what was written.
LEMMA PlaygroundKept ==
  ASSUME PlaygroundInv, DOMAIN ui' = DOMAIN ui, DOMAIN ui'.check = DOMAIN ui.check,
         UNCHANGED <<db, ui.told, ui.check.checking, ui.check.asked, ui.check.result>>,
         AreWrites(calls', db.written), AwaitedBy(calls', ui.check)
  PROVE  PlaygroundInv'
<1>1. AwaitedBy(calls', ui'.check)
  BY DEF AwaitedBy
<1> QED
  BY <1>1 DEF PlaygroundInv

\* The grid is loading: it is unmounted in the playground tab.
LEMMA PlaygroundLoads ==
  ASSUME PlaygroundInv, NEW u, NEW s, Nexus!Loading(u, s), DOMAIN u = DOMAIN ui,
         AreWrites(s, db.written), AwaitedBy(s, u.check)
  PROVE  /\ DOMAIN ui' = DOMAIN ui /\ ui'.check = u.check /\ ui'.told = u.told
         /\ AreWrites(calls', db.written) /\ AwaitedBy(calls', u.check)
<1>1. CASE ui.tab = "playground"
  <2>1. ui' = [u EXCEPT !.grid = Nexus!Grid] /\ calls' = Nexus!Orphaned(s, {"grid", "form"})
    BY <1>1 DEF Nexus!Loading
  <2>2. AreWrites(calls', db.written) /\ AwaitedBy(calls', u.check)
    BY <2>1, WritesOrphaned
  <2> QED
    BY <2>1, <2>2 DEF PlaygroundInv
<1>2. CASE ui.tab # "playground"
  BY <1>2 DEF Nexus!Loading
<1> QED
  BY <1>1, <1>2

\* What the user does on the playground keeps its invariant.
LEMMA PlaygroundClick ==
  ASSUME PlaygroundInv,
         \/ Nexus!Focus \/ Nexus!setTab \/ Nexus!setIsAddOpen \/ Nexus!handleSubmit
         \/ Nexus!setImportText \/ Nexus!EditCheck \/ Nexus!Elsewhere \/ Nexus!Lose("tuples")
  PROVE  PlaygroundInv'
<1> USE DEF SimulatorFields
<1>1. /\ DOMAIN ui = {"tab", "grid", "check", "told"} /\ DOMAIN ui.check = SimulatorFields
      /\ AreWrites(calls, db.written) /\ AwaitedBy(calls, ui.check)
  BY DEF PlaygroundInv
<1>2. CASE Nexus!Focus
  <2>1. Nexus!Loading(ui, calls) /\ UNCHANGED db
    BY <1>2 DEF Nexus!Focus
  <2>2. /\ DOMAIN ui' = DOMAIN ui /\ ui'.check = ui.check /\ ui'.told = ui.told
        /\ AreWrites(calls', db.written) /\ AwaitedBy(calls', ui.check)
    BY <1>1, <2>1, PlaygroundLoads
  <2> QED
    BY <2>1, <2>2, PlaygroundKept
<1>3. CASE Nexus!setTab
  <2> DEFINE gone == {"grid", "form", "simulator"}
  <2>1. /\ calls' = Nexus!Orphaned(calls, gone) /\ UNCHANGED db
        /\ DOMAIN ui' = DOMAIN ui /\ ui'.check = Nexus!Simulator /\ ui'.told = ui.told
    BY <1>1, <1>3 DEF Nexus!setTab
  <2>2. "simulator" \in gone
    OBVIOUS
  <2> HIDE DEF gone
  <2>3. AreWrites(calls', db.written) /\ \A c \in InFlight(calls') : ~Awaits(c)
    BY <1>1, <2>1, <2>2, WritesOrphaned
  <2>4. DOMAIN Nexus!Simulator = SimulatorFields /\ Nexus!Simulator.result = {}
    BY DEF Nexus!Simulator
  <2> QED
    BY <1>1, <2>1, <2>3, <2>4 DEF PlaygroundInv, AwaitedBy
<1>4. CASE Nexus!setIsAddOpen \/ Nexus!setImportText
  <2>1. /\ calls' = calls \/ calls' = Nexus!Orphaned(calls, {"form"})
        /\ UNCHANGED db /\ \E g : ui' = [ui EXCEPT !.grid = g]
    BY <1>4 DEF Nexus!setIsAddOpen, Nexus!setImportText, Nexus!OnGrid
  <2>2. AreWrites(calls', db.written) /\ AwaitedBy(calls', ui.check)
    BY <1>1, <2>1, WritesOrphaned
  <2>3. DOMAIN ui' = DOMAIN ui /\ UNCHANGED <<ui.check, ui.told>>
    BY <1>1, <2>1
  <2> QED
    BY <2>1, <2>2, <2>3, PlaygroundKept
<1>5. CASE Nexus!handleSubmit
  <2>1. PICK x : calls' = Append(calls, Nexus!Write(x, <<>>, {}, {"grid", "form"}))
    BY <1>5 DEF Nexus!handleSubmit
  <2>2. UNCHANGED db /\ DOMAIN ui' = DOMAIN ui /\ UNCHANGED <<ui.check, ui.told>>
    BY <1>1, <1>5 DEF Nexus!handleSubmit
  <2> DEFINE c == Nexus!Write(x, <<>>, {}, {"grid", "form"})
  <2>3. IsQueue(<<>>)
    BY CallsStart DEF CallsOK
  <2>4. IsCall(c) /\ IsWrite(c, db.written) /\ c.op # "check"
    <3>1. \A all, owner : all = {} => LET b == Nexus!Write(x, <<>>, all, owner)
                                      IN  IsCall(b) /\ IsWrite(b, db.written) /\ b.op # "check"
      BY <2>3, WriteIsCall
    <3> QED
      BY <3>1
  <2> HIDE DEF c
  <2>5. AreWrites(calls', db.written) /\ AwaitedBy(calls', ui.check)
    BY <1>1, <2>1, <2>4, WritesSent DEF c
  <2> QED
    BY <2>2, <2>5, PlaygroundKept
<1>6. CASE Nexus!EditCheck
  <2>1. /\ UNCHANGED <<db, calls>> /\ DOMAIN ui' = DOMAIN ui /\ DOMAIN ui'.check = DOMAIN ui.check
        /\ UNCHANGED <<ui.told, ui.check.checking, ui.check.asked, ui.check.result>>
    BY <1>1, <1>6 DEF Nexus!EditCheck
  <2> QED
    BY <1>1, <2>1, PlaygroundKept
<1>7. CASE Nexus!Elsewhere
  <2>1. UNCHANGED <<calls, ui>> /\ DOMAIN db' = DOMAIN db /\ db'.written = db.written
    BY <1>7 DEF Nexus!Elsewhere, PlaygroundInv
  <2> QED
    BY <2>1 DEF PlaygroundInv
<1>8. CASE Nexus!Lose("tuples")
  <2>1. UNCHANGED <<calls, ui, db>>
    BY <1>8 DEF Nexus!Lose
  <2> QED
    BY <2>1 DEF PlaygroundInv
<1> QED
  BY <1>2, <1>3, <1>4, <1>5, <1>6, <1>7, <1>8

\* What is read of a text is a queue of tuples.
LEMMA ParsedText ==
  ASSUME NEW text
  PROVE  IsQueue(Nexus!parsed(text))
<1> DEFINE line(x) == IF x = Nexus!Malformed THEN <<>> ELSE <<x>>
           S == {text[1], text[2]}
<1>1. line(text[1]) \in Seq(S) /\ line(text[2]) \in Seq(S)
  <2>1. \A x \in S : <<x>> \in Seq(S) /\ <<>> \in Seq(S)
    OBVIOUS
  <2>2. \A x \in S : line(x) = <<x>> \/ line(x) = <<>>
    OBVIOUS
  <2>3. text[1] \in S /\ text[2] \in S
    OBVIOUS
  <2> HIDE DEF S, line
  <2> QED
    BY <2>1, <2>2, <2>3
<1> HIDE DEF S, line
<1>2. line(text[1]) \o line(text[2]) \in Seq(S)
  BY <1>1, ConcatProperties
<1>3. Nexus!parsed(text) \in Seq(S)
  BY <1>2 DEF Nexus!parsed, line
<1> QED
  BY <1>3, QueueOf

\* Taking the first element of a queue that is not empty.
LEMMA QueueHead ==
  ASSUME NEW s, IsQueue(s), s # <<>>
  PROVE  IsQueue(Tail(s)) /\ InFlight(s) \subseteq {Head(s)} \cup InFlight(Tail(s))
<1>1. /\ s \in Seq(InFlight(s)) /\ Len(s) \in Nat /\ DOMAIN s = 1..Len(s)
  BY QueueLength DEF IsQueue
<1>2. /\ Tail(s) \in Seq(InFlight(s)) /\ Head(s) = s[1]
      /\ Len(Tail(s)) = Len(s) - 1
      /\ \A j \in 1..Len(Tail(s)) : Tail(s)[j] = s[j + 1]
  BY <1>1, HeadTailProperties
<1>3. IsQueue(Tail(s))
  BY <1>2, QueueOf
<1>4. DOMAIN Tail(s) = 1..Len(Tail(s))
  BY <1>3, QueueLength
<1>5. ASSUME NEW j \in DOMAIN s PROVE s[j] \in {Head(s)} \cup InFlight(Tail(s))
  <2>1. CASE j = 1
    BY <1>2, <2>1
  <2>2. CASE j # 1
    <3>1. j - 1 \in 1..Len(Tail(s)) /\ s[(j - 1) + 1] = s[j]
      BY <1>1, <1>2, <2>2
    <3> QED
      BY <1>2, <1>4, <3>1 DEF InFlight
  <2> QED
    BY <2>1, <2>2
<1> QED
  BY <1>3, <1>5 DEF InFlight

\* Starting an import keeps the invariant: its lines are those of the text.
LEMMA PlaygroundImport ==
  ASSUME PlaygroundInv, Nexus!handleBulkImport
  PROVE  PlaygroundInv'
<1>1. /\ DOMAIN ui = {"tab", "grid", "check", "told"}
      /\ AreWrites(calls, db.written) /\ AwaitedBy(calls, ui.check)
  BY DEF PlaygroundInv
<1> DEFINE p == Nexus!parsed(ui.grid.text)
<1>2. UNCHANGED db /\ DOMAIN ui' = DOMAIN ui /\ UNCHANGED <<ui.check, ui.told>>
  BY <1>1 DEF Nexus!handleBulkImport
<1>3. \/ UNCHANGED calls
      \/ p # <<>> /\ calls' = Append(calls, Nexus!Write(Head(p), Tail(p), {p[k] : k \in DOMAIN p}, {"grid"}))
  BY DEF Nexus!handleBulkImport
<1>4. IsQueue(p)
  BY ParsedText
<1> HIDE DEF p
<1>5. ASSUME p # <<>>,
             calls' = Append(calls, Nexus!Write(Head(p), Tail(p), {p[k] : k \in DOMAIN p}, {"grid"}))
      PROVE  AreWrites(calls', db.written) /\ AwaitedBy(calls', ui.check)
  <2> DEFINE c == Nexus!Write(Head(p), Tail(p), InFlight(p), {"grid"})
  <2>1. calls' = Append(calls, c)
    BY <1>5 DEF InFlight
  <2>2. IsQueue(Tail(p)) /\ InFlight(p) \subseteq {Head(p)} \cup InFlight(Tail(p))
    BY <1>4, <1>5, QueueHead
  <2>3. InFlight(p) \subseteq db.written \cup {Head(p)} \cup InFlight(Tail(p))
    BY <2>2
  <2>4. IsCall(c) /\ IsWrite(c, db.written) /\ c.op # "check"
    BY <2>2, <2>3, WriteIsCall
  <2> HIDE DEF c
  <2> QED
    BY <1>1, <2>1, <2>4, WritesSent
<1>6. AreWrites(calls', db.written) /\ AwaitedBy(calls', ui.check)
  BY <1>1, <1>3, <1>5
<1> QED
  BY <1>2, <1>6, PlaygroundKept

\* A check is asked for, or a context that cannot be read forgets the last one.
LEMMA PlaygroundCheck ==
  ASSUME PlaygroundInv, Nexus!handleCheck
  PROVE  PlaygroundInv'
<1> USE DEF SimulatorFields
<1>1. /\ DOMAIN ui = {"tab", "grid", "check", "told"} /\ DOMAIN ui.check = SimulatorFields
      /\ AreWrites(calls, db.written) /\ AwaitedBy(calls, ui.check) /\ IsQueue(calls)
  BY DEF PlaygroundInv, AreWrites, CallsOK
<1>2. ~ui.check.checking /\ UNCHANGED db
  BY DEF Nexus!handleCheck
<1>3. \A c \in InFlight(calls) : ~Awaits(c)
  BY <1>1, <1>2 DEF AwaitedBy
<1>4. CASE ui.check.context = "invalid"
  <2>1. /\ DOMAIN ui' = DOMAIN ui /\ DOMAIN ui'.check = DOMAIN ui.check /\ ui'.check.result = {}
        /\ ui'.told = ui.told /\ UNCHANGED calls
    <3>1. PICK e : e = {} /\ UNCHANGED calls /\ ui' = [ui EXCEPT !.check.result = e, !.check.asked = e]
      BY <1>4 DEF Nexus!handleCheck
    <3> DEFINE check == [ui.check EXCEPT !.result = e, !.asked = e]
    <3>2. DOMAIN check = DOMAIN ui.check /\ check.result = e
      BY <1>1
    <3>3. DOMAIN ui' = DOMAIN ui /\ ui'.check = check /\ ui'.told = ui.told
      BY <1>1, <3>1
    <3> HIDE DEF check
    <3> QED
      BY <3>1, <3>2, <3>3
  <2> QED
    BY <1>2, <1>3, <2>1 DEF PlaygroundInv, AwaitedBy
<1>5. CASE ui.check.context # "invalid"
  <2> DEFINE x == ui.check.input
             arg == [tuple |-> x, owner |-> {"simulator"}]
             c == [op |-> "check", arg |-> arg, stage |-> "asked"]
  <2>1. /\ DOMAIN ui' = DOMAIN ui /\ DOMAIN ui'.check = DOMAIN ui.check /\ ui'.check.result = {}
        /\ ui'.check.checking /\ ui'.check.asked = {x} /\ ui'.told = ui.told
    <3>1. PICK b, e, a : /\ b /\ e = {} /\ a = {x}
                         /\ ui' = [ui EXCEPT !.check.checking = b, !.check.result = e, !.check.asked = a]
      <4>1. ui' = [ui EXCEPT !.check.checking = TRUE, !.check.result = {}, !.check.asked = {x}]
        BY <1>5 DEF Nexus!handleCheck
      <4> QED
        BY <4>1, Zenon
    <3> DEFINE check == [ui.check EXCEPT !.checking = b, !.result = e, !.asked = a]
    <3>2. DOMAIN check = DOMAIN ui.check /\ check.result = e /\ check.checking = b /\ check.asked = a
      BY <1>1
    <3>3. DOMAIN ui' = DOMAIN ui /\ ui'.check = check /\ ui'.told = ui.told
      BY <1>1, <3>1
    <3> HIDE DEF check
    <3> QED
      BY <3>1, <3>2, <3>3
  <2>2. calls' = Append(calls, c)
    BY <1>5 DEF Nexus!handleCheck
  <2>3. arg.tuple = x /\ "owner" \in DOMAIN arg
    OBVIOUS
  <2> HIDE DEF arg
  <2>4. c.op = "check" /\ c.arg = arg /\ IsCall(c)
    BY DEF IsCall
  <2>5. /\ CallsOK(calls') /\ InFlight(calls') = InFlight(calls) \cup {c}
    BY <1>1, <2>2, CallsSent DEF AreWrites
  <2> HIDE DEF c
  <2>6. /\ DOMAIN calls' = 1..(Len(calls) + 1) /\ Len(calls) \in Nat /\ DOMAIN calls = 1..Len(calls)
        /\ \A j \in 1..Len(calls) : calls'[j] = calls[j]
    BY <1>1, <2>2, QueueAppend, QueueLength
  <2>7. \A j \in DOMAIN calls' : Awaits(calls'[j]) => j = Len(calls) + 1
    BY <1>3, <2>6 DEF InFlight
  <2>8. AreWrites(calls', db.written)
    BY <1>1, <2>3, <2>4, <2>5, <2>7 DEF AreWrites, IsWrite
  <2>9. AwaitedBy(calls', ui'.check)
    BY <1>3, <2>1, <2>3, <2>4, <2>5 DEF AwaitedBy
  <2> QED
    BY <1>2, <2>1, <2>8, <2>9 DEF PlaygroundInv
<1> QED
  BY <1>4, <1>5

\* What Nexus makes of a write.
LEMMA PlaygroundEngine ==
  ASSUME PlaygroundInv, NEW i \in DOMAIN calls, Nexus!Engine(i)
  PROVE  PlaygroundInv'
<1>1. /\ AreWrites(calls, db.written) /\ AwaitedBy(calls, ui.check) /\ CallsOK(calls)
      /\ DOMAIN db = {"tuples", "written", "seq"}
  BY DEF PlaygroundInv, AreWrites
<1>2. PICK stage : /\ stage \in {"done", "failed"} /\ calls' = [calls EXCEPT ![i].stage = stage]
                   /\ calls[i].stage = "sent" /\ UNCHANGED ui
                   /\ DOMAIN db' = DOMAIN db /\ db.written \subseteq db'.written
                   /\ stage = "done" => calls[i].arg.tuple \in db'.written
  <2> DEFINE x == calls[i].arg.tuple
             new == [tuples |-> db.tuples \cup {x}, written |-> db.written \cup {x}, seq |-> db.seq + 1]
  <2>1. Nexus!Handle(i, new) \/ Nexus!Refuse(i)
    BY DEF Nexus!Engine
  <2>2. DOMAIN new = DOMAIN db /\ db.written \subseteq new.written /\ x \in new.written
    BY <1>1
  <2> HIDE DEF new
  <2> QED
    BY <2>1, <2>2 DEF Nexus!Handle, Nexus!Refuse
<1>3. CallsOK(calls') /\ DOMAIN calls' = DOMAIN calls
  BY <1>1, <1>2, CallsStage
<1>4. \A j \in DOMAIN calls : IsCall(calls[j]) /\ IsWrite(calls[j], db.written)
  BY <1>1 DEF CallsOK, InFlight, AreWrites
<1>5. \A j \in DOMAIN calls : /\ calls'[j].op = calls[j].op /\ calls'[j].arg = calls[j].arg
                              /\ calls'[j].stage = IF j = i THEN stage ELSE calls[j].stage
  BY <1>2, <1>4 DEF IsCall
<1>6. \A j \in DOMAIN calls : IsWrite(calls'[j], db'.written)
  <2>1. SUFFICES ASSUME NEW j \in DOMAIN calls PROVE IsWrite(calls'[j], db'.written)
    OBVIOUS
  <2>2. CASE calls[j].op = "import"
    <3>1. /\ calls[j].stage # "asked" /\ IsQueue(calls[j].arg.rest)
          /\ calls[j].arg.all \subseteq db'.written \cup {calls[j].arg.tuple} \cup InFlight(calls[j].arg.rest)
          /\ calls[j].stage = "done" => calls[j].arg.tuple \in db'.written
      BY <1>2, <1>4, <2>2 DEF IsWrite
    <3>2. calls'[j].stage = "done" => calls[j].arg.tuple \in db'.written
      BY <1>2, <1>5, <3>1
    <3>3. calls'[j].stage # "asked"
      BY <1>2, <1>5, <3>1
    <3> QED
      BY <1>4, <1>5, <3>1, <3>2, <3>3 DEF IsWrite
  <2>3. CASE calls[j].op # "import"
    BY <1>4, <1>5, <2>3 DEF IsWrite
  <2> QED
    BY <2>2, <2>3
<1>7. \A j \in DOMAIN calls : Awaits(calls'[j]) <=> Awaits(calls[j])
  BY <1>5 DEF Awaits
<1>8. AreWrites(calls', db'.written)
  BY <1>1, <1>3, <1>6, <1>7 DEF AreWrites, InFlight
<1>9. AwaitedBy(calls', ui'.check)
  <2>1. SUFFICES ASSUME NEW j \in DOMAIN calls, Awaits(calls'[j])
                 PROVE  ui'.check.checking /\ ui'.check.asked = {calls'[j].arg.tuple}
    BY <1>3 DEF AwaitedBy, InFlight
  <2>2. Awaits(calls[j]) /\ calls[j] \in InFlight(calls)
    BY <1>7, <2>1 DEF InFlight
  <2>3. ui.check.checking /\ ui.check.asked = {calls[j].arg.tuple}
    BY <1>1, <2>2 DEF AwaitedBy
  <2> QED
    BY <1>2, <1>5, <2>3
<1> QED
  BY <1>2, <1>8, <1>9 DEF PlaygroundInv

\* An answer comes back.
LEMMA PlaygroundReturn ==
  ASSUME PlaygroundInv, NEW i \in DOMAIN calls, Nexus!Return(i)
  PROVE  PlaygroundInv'
<1> DEFINE c == calls[i]
<1>1. /\ DOMAIN ui = {"tab", "grid", "check", "told"} /\ DOMAIN ui.check = SimulatorFields
      /\ AreWrites(calls, db.written) /\ AwaitedBy(calls, ui.check) /\ CallsOK(calls)
      /\ ui.told \subseteq db.written
  BY DEF PlaygroundInv, AreWrites
<1>2. IsWrite(c, db.written) /\ IsCall(c) /\ c \in InFlight(calls)
  BY <1>1 DEF AreWrites, CallsOK, InFlight
<1>3. /\ AreWrites(Rest(calls, i), db.written) /\ AwaitedBy(Rest(calls, i), ui.check)
      /\ Awaits(c) => \A b \in InFlight(Rest(calls, i)) : ~Awaits(b)
  BY <1>1, WritesSettled
<1>4. UNCHANGED db /\ Nexus!Settled(i) = Rest(calls, i) /\ c.stage \in {"done", "asked"}
  BY DEF Nexus!Return, Nexus!Settled, Nexus!Succeeds, Rest
<1> HIDE DEF c
<1>5. CASE c.op = "add"
  <2> DEFINE s == Nexus!Orphaned(Rest(calls, i), {"form"})
  <2>1. \E u : /\ Nexus!Loading(u, s) /\ DOMAIN u = DOMAIN ui
               /\ u.check = ui.check /\ u.told = ui.told
    <3> DEFINE u == IF "grid" \in c.arg.owner THEN [ui EXCEPT !.grid.add = {}] ELSE ui
    <3>1. Nexus!Loading(u, s)
      BY <1>4, <1>5 DEF Nexus!Return, c
    <3>2. DOMAIN u = DOMAIN ui /\ u.check = ui.check /\ u.told = ui.told
      BY <1>1
    <3> HIDE DEF u, s
    <3> QED
      BY <3>1, <3>2
  <2>2. AreWrites(s, db.written) /\ AwaitedBy(s, ui.check)
    BY <1>3, WritesOrphaned
  <2> HIDE DEF s
  <2>3. /\ DOMAIN ui' = DOMAIN ui /\ ui'.check = ui.check /\ ui'.told = ui.told
        /\ AreWrites(calls', db.written) /\ AwaitedBy(calls', ui.check)
    BY <2>1, <2>2, PlaygroundLoads
  <2> QED
    BY <1>4, <2>3, PlaygroundKept
<1>6. CASE c.op = "import" /\ c.arg.rest # <<>>
  <2> DEFINE e == Nexus!Write(Head(c.arg.rest), Tail(c.arg.rest), c.arg.all, c.arg.owner)
             s == [calls EXCEPT ![i] = e]
  <2>1. Nexus!Loading(ui, s)
    BY <1>6 DEF Nexus!Return, c
  <2>2. IsQueue(c.arg.rest) /\ c.arg.all \subseteq db.written \cup InFlight(c.arg.rest)
    BY <1>2, <1>4, <1>6 DEF IsWrite
  <2>3. /\ IsQueue(Tail(c.arg.rest))
        /\ InFlight(c.arg.rest) \subseteq {Head(c.arg.rest)} \cup InFlight(Tail(c.arg.rest))
    BY <1>6, <2>2, QueueHead
  <2>4. IsCall(e) /\ IsWrite(e, db.written) /\ e.op # "check"
    <3>1. c.arg.all \subseteq db.written \cup {Head(c.arg.rest)} \cup InFlight(Tail(c.arg.rest))
      BY <2>2, <2>3
    <3> QED
      BY <2>3, <3>1, WriteIsCall
  <2> HIDE DEF e
  <2>5. /\ IsQueue(s) /\ InFlight(s) \subseteq InFlight(calls) \cup {e} /\ DOMAIN s = DOMAIN calls
    BY <1>1, QueueExcept DEF CallsOK
  <2>6. \A j \in DOMAIN calls : Awaits(s[j]) => Awaits(calls[j])
    BY <2>4 DEF Awaits
  <2>7. AreWrites(s, db.written)
    BY <1>1, <2>4, <2>5, <2>6 DEF AreWrites, CallsOK
  <2>8. AwaitedBy(s, ui.check)
    BY <1>1, <2>4, <2>5 DEF AwaitedBy, Awaits
  <2> HIDE DEF s
  <2>9. /\ DOMAIN ui' = DOMAIN ui /\ ui'.check = ui.check /\ ui'.told = ui.told
        /\ AreWrites(calls', db.written) /\ AwaitedBy(calls', ui.check)
    BY <2>1, <2>7, <2>8, PlaygroundLoads
  <2> QED
    BY <1>4, <2>9, PlaygroundKept
<1>7. CASE c.op = "import" /\ c.arg.rest = <<>>
  <2>1. \E u : /\ Nexus!Loading(u, Rest(calls, i)) /\ DOMAIN u = DOMAIN ui /\ u.check = ui.check
               /\ u.told \subseteq ui.told \cup c.arg.all
    <3> DEFINE u == IF "grid" \in c.arg.owner
                    THEN [ui EXCEPT !.grid.text = <<>>, !.grid.open = FALSE,
                                    !.grid.importing = FALSE, !.told = @ \cup c.arg.all]
                    ELSE ui
    <3>1. Nexus!Loading(u, Rest(calls, i))
      BY <1>4, <1>7 DEF Nexus!Return, c
    <3>2. DOMAIN u = DOMAIN ui /\ u.check = ui.check /\ u.told \subseteq ui.told \cup c.arg.all
      BY <1>1
    <3> HIDE DEF u
    <3> QED
      BY <3>1, <3>2
  <2>2. /\ DOMAIN ui' = DOMAIN ui /\ ui'.check = ui.check /\ ui'.told \subseteq ui.told \cup c.arg.all
        /\ AreWrites(calls', db.written) /\ AwaitedBy(calls', ui.check)
    BY <1>3, <2>1, PlaygroundLoads
  <2>3. InFlight(<<>>) = {}
    BY CallsStart
  <2>4. c.arg.all \subseteq db.written
    BY <1>2, <1>4, <1>7, <2>3 DEF IsWrite
  <2> QED
    BY <1>1, <1>4, <2>2, <2>4 DEF PlaygroundInv
<1>8. CASE c.op = "check"
  <2>1. calls' = Rest(calls, i)
    BY <1>4, <1>8 DEF Nexus!Return, c
  <2>2. CASE "simulator" \notin c.arg.owner
    <3>1. UNCHANGED ui
      BY <1>8, <2>2 DEF Nexus!Return, c
    <3> QED
      BY <1>3, <1>4, <2>1, <3>1, PlaygroundKept
  <2>3. CASE "simulator" \in c.arg.owner
    <3>1. Awaits(c)
      BY <1>8, <2>3 DEF Awaits
    <3>2. ui.check.asked = {c.arg.tuple}
      BY <1>1, <1>2, <3>1 DEF AwaitedBy
    <3>3. PICK b, r : r.of = c.arg.tuple /\ ui' = [ui EXCEPT !.check.checking = b, !.check.result = {r}]
      <4> DEFINE r == [of |-> c.arg.tuple, allowed |-> c.arg.tuple \in db.tuples]
      <4>1. ui' = [ui EXCEPT !.check.checking = FALSE, !.check.result = {r}]
        BY <1>8, <2>3 DEF Nexus!Return, c
      <4>2. r.of = c.arg.tuple
        OBVIOUS
      <4> HIDE DEF r
      <4> QED
        BY <4>1, <4>2
    <3> DEFINE check == [ui.check EXCEPT !.checking = b, !.result = {r}]
    <3>4. DOMAIN check = DOMAIN ui.check /\ check.result = {r} /\ check.asked = ui.check.asked
      BY <1>1 DEF SimulatorFields
    <3>5. DOMAIN ui' = DOMAIN ui /\ ui'.check = check /\ ui'.told = ui.told
      BY <1>1, <3>3
    <3> HIDE DEF check
    <3>6. AwaitedBy(calls', ui'.check)
      BY <1>3, <2>1, <3>1 DEF AwaitedBy
    <3> QED
      BY <1>1, <1>3, <1>4, <2>1, <3>2, <3>3, <3>4, <3>5, <3>6 DEF PlaygroundInv
  <2> QED
    BY <2>2, <2>3
<1> QED
  BY <1>2, <1>5, <1>6, <1>7, <1>8 DEF IsWrite

\* An error that answers a request of the playground keeps its invariant.
LEMMA PlaygroundReturnError ==
  ASSUME PlaygroundInv, NEW i \in DOMAIN calls, Nexus!ReturnError(i)
  PROVE  PlaygroundInv'
<1> DEFINE c == calls[i]
<1>1. /\ DOMAIN ui = {"tab", "grid", "check", "told"} /\ DOMAIN ui.check = SimulatorFields
      /\ AreWrites(calls, db.written) /\ AwaitedBy(calls, ui.check)
  BY DEF PlaygroundInv
<1>2. c.op \in {"add", "import", "check"}
  BY <1>1 DEF AreWrites, IsWrite, InFlight
<1>3. calls' = Rest(calls, i) /\ UNCHANGED db
  BY DEF Nexus!ReturnError, Nexus!Settled, Rest
<1>4. /\ AreWrites(calls', db.written) /\ AwaitedBy(calls', ui.check)
      /\ Awaits(c) => \A b \in InFlight(calls') : ~Awaits(b)
  BY <1>1, <1>3, WritesSettled
<1> HIDE DEF c
<1>5. CASE c.op # "check" \/ "simulator" \notin c.arg.owner
  <2>1. DOMAIN ui' = DOMAIN ui /\ UNCHANGED <<ui.check, ui.told>>
    <3>1. CASE c.op = "add"
      BY <1>1, <3>1 DEF Nexus!ReturnError, c
    <3>2. CASE c.op = "import"
      BY <1>1, <3>2 DEF Nexus!ReturnError, c
    <3>3. CASE c.op = "check"
      BY <1>1, <1>5, <3>3 DEF Nexus!ReturnError, c
    <3> QED
      BY <1>2, <3>1, <3>2, <3>3
  <2> QED
    BY <1>3, <1>4, <2>1, PlaygroundKept
<1>6. CASE c.op = "check" /\ "simulator" \in c.arg.owner
  <2>1. ui' = [ui EXCEPT !.check.checking = FALSE]
    BY <1>6 DEF Nexus!ReturnError, c
  <2>2. /\ DOMAIN ui' = DOMAIN ui /\ DOMAIN ui'.check = DOMAIN ui.check
        /\ UNCHANGED <<ui.told, ui.check.asked, ui.check.result>>
    BY <1>1, <2>1 DEF SimulatorFields
  <2>3. AwaitedBy(calls', ui'.check)
    BY <1>4, <1>6 DEF AwaitedBy, Awaits
  <2> QED
    BY <1>1, <1>3, <1>4, <2>2, <2>3 DEF PlaygroundInv
<1> QED
  BY <1>5, <1>6

\* Every step of the playground keeps its invariant.
LEMMA PlaygroundStep ==
  ASSUME PlaygroundInv, Nexus!Next
  PROVE  PlaygroundInv'
BY PlaygroundClick, PlaygroundImport, PlaygroundCheck, PlaygroundEngine, PlaygroundReturn,
   PlaygroundReturnError DEF Nexus!Next

-----------------------------------------------------------------------------
\* The console: what holds of the page that is open.
ConsoleIInv ==
  /\ page = "rules" => RulesInv /\ MovesInv
  /\ page = "directory" => DirectoryInv
  /\ page = "people" => PeopleInv
  /\ page = "sheet" => IdentitySheetInv
  /\ page = "studio" => StudioInv
  /\ page = "permissions" => RelationsInv
  /\ page = "oauth" => OAuthInv
  /\ page = "vulcan" => VulcanInv
  /\ page = "operators" => OperatorsInv
  /\ page = "enterprise" => EnterpriseInv
  /\ page = "session" => SessionInv
  /\ page = "engines" => EnginesInv
  /\ page = "schemas" => SchemasInv
  /\ page = "explorer" => ExplorerInv
  /\ page = "observability" => ObservabilityInv
  /\ page = "playground" => PlaygroundInv

\* Every page starts in its invariant.
LEMMA ConsoleStart ==
  ASSUME ConsoleInit
  PROVE  ConsoleIInv
BY RulesStart, MovesStart, DirectoryStart, PeopleStart, IdentitySheetStart, StudioStart, RelationsStart,
   OAuthStart, VulcanStart, OperatorsStart, EnterpriseStart, SessionStart,
   EnginesStart, SchemasStart, ExplorerStart, ObservabilityStart, PlaygroundStart
DEF ConsoleInit, ConsoleIInv

\* The step of a page keeps the invariant of that page.
LEMMA ConsoleStep ==
  ASSUME ConsoleIInv, ConsoleNext
  PROVE  ConsoleIInv'
BY RulesStep, MovesStep, DirectoryStep, PeopleStep, IdentitySheetStep, StudioStep, RelationsStep,
   OAuthStep, VulcanStep, OperatorsStep, EnterpriseStep, SessionStep,
   EnginesStep, SchemasStep, ExplorerStep, ObservabilityStep, PlaygroundStep
DEF ConsoleNext, ConsoleIInv

\* What is said of a page is said of its state.
LEMMA ConsoleStutter ==
  ASSUME ConsoleIInv, UNCHANGED consoleVars
  PROVE  ConsoleIInv'
<1>0. UNCHANGED <<db, query, calls, ui, left, page>>
  BY DEF consoleVars
<1> USE <1>0 DEF Counted
<1>1. RulesInv /\ MovesInv => (RulesInv /\ MovesInv)'
  BY DEF RulesInv, MovesInv, KnownCall
<1>2. DirectoryInv => DirectoryInv'
  BY DEF DirectoryInv, Directory!key
<1>3. PeopleInv => PeopleInv'
  BY DEF PeopleInv, People!key, People!keyOf, People!PagesFollowEachOther
<1>4. IdentitySheetInv => IdentitySheetInv'
  BY DEF IdentitySheetInv
<1>5. StudioInv => StudioInv'
  BY DEF StudioInv
<1>6. RelationsInv => RelationsInv'
  BY DEF RelationsInv, RelationsEntries, RelationsWay, Permissions!page, Permissions!pageOf, Permissions!schema, Permissions!caveats,
         Permissions!PagesFollowEachOther
<1>7. OAuthInv => OAuthInv'
  BY DEF OAuthInv, OAuth!OnPage
<1>8. VulcanInv => VulcanInv'
  BY DEF VulcanInv
<1>9. OperatorsInv => OperatorsInv'
  BY DEF OperatorsInv, AboutDialog
<1>10. EnterpriseInv => EnterpriseInv'
  BY DEF EnterpriseInv
<1>11. SessionInv => SessionInv'
  BY DEF SessionInv, Known, Issued
<1>12. EnginesInv => EnginesInv'
  BY DEF EnginesInv, Minting, FrozenFor
<1>13. SchemasInv => SchemasInv'
  BY DEF SchemasInv
<1>14. ExplorerInv => ExplorerInv'
  BY DEF ExplorerInv, Patient, OfLast
<1>15. ObservabilityInv => ObservabilityInv'
  BY DEF ObservabilityInv, Measures, Probes
<1>16. PlaygroundInv => PlaygroundInv'
  BY DEF PlaygroundInv
<1>17. page' = page
  OBVIOUS
<1> QED
  BY <1>1, <1>2, <1>3, <1>4, <1>5, <1>6, <1>7, <1>8, <1>9, <1>10, <1>11, <1>12, <1>13, <1>14,
     <1>15, <1>16, <1>17 DEF ConsoleIInv

\* The invariant of the console: every page keeps its own, for any number of requests
\* under way, of changes by others and of failures, in every order (ConsoleNext).
THEOREM ConsoleInvariance == ConsoleSpec => []ConsoleIInv
<1>1. ConsoleInit => ConsoleIInv
  BY ConsoleStart
<1>2. ConsoleIInv /\ [ConsoleNext]_consoleVars => ConsoleIInv'
  BY ConsoleStep, ConsoleStutter
<1> QED
  BY <1>1, <1>2, PTL DEF ConsoleSpec

\* A page whose entry of the cache has been told of the changes up to wrote shows them.
LEMMA Shows ==
  ASSUME NEW q, NEW w, Entry(q, w), ~q.busy, ~q.failed, NEW d \in q.data
  PROVE  d.seq >= w
BY DEF Entry

\* A list that a page shows, when no request for it is under way and none has failed,
\* is at least as new as the table was when the page was last told of a change of its
\* own that was made (the invalidations and refetches of the mutations' onSuccess), unless
\* the first answer of that list was on its way at that moment, which is kept.
THEOREM ChangesAreShown == ConsoleSpec => []OwnChangesAreShown
<1>1. ConsoleIInv => OwnChangesAreShown
  <2> SUFFICES ASSUME ConsoleIInv PROVE OwnChangesAreShown
    OBVIOUS
  <2>1. page = "rules" => Rules!OwnChangesAreShown
    BY Shows DEF ConsoleIInv, Rules!OwnChangesAreShown, RulesInv, Entries
  <2>2. page = "directory" => Directory!OwnChangesAreShown
    BY Shows DEF ConsoleIInv, Directory!OwnChangesAreShown, DirectoryInv, Entries
  <2>3. page = "people" => People!OwnChangesAreShown
    BY Shows DEF ConsoleIInv, People!OwnChangesAreShown, PeopleInv, Entries
  <2>4. page = "studio" => Studio!OwnChangesAreShown
    BY Shows DEF ConsoleIInv, Studio!OwnChangesAreShown, StudioInv
  <2>5. page = "permissions" => Permissions!OwnChangesAreShown
    <3> SUFFICES ASSUME RelationsInv PROVE Permissions!OwnChangesAreShown
      BY DEF ConsoleIInv
    <3>1. Entry(query[Permissions!page], ui.wrote)
      BY DEF RelationsInv, RelationsEntries, Relates
    <3>2. ui.tab = "caveats" => Entry(query[Permissions!caveats], ui.wroteCaveat)
      <4>1. Permissions!caveats # Permissions!page
        BY RelationsKeys DEF Permissions!page
      <4> QED
        BY <4>1 DEF RelationsInv, RelationsEntries, Relates
    <3> QED
      BY <3>1, <3>2, Shows DEF Permissions!OwnChangesAreShown
  <2>6. page = "oauth" => OAuth!OwnChangesAreShown
    BY Shows DEF ConsoleIInv, OAuth!OwnChangesAreShown, OAuthInv
  <2>7. page = "vulcan" => Vulcan!OwnChangesAreShown
    BY Shows DEF ConsoleIInv, Vulcan!OwnChangesAreShown, VulcanInv
  <2>8. page = "operators" => Accounts!OwnChangesAreShown
    BY Shows DEF ConsoleIInv, Accounts!OwnChangesAreShown, Accounts!q, OperatorsInv
  <2>9. page = "enterprise" => Saml!OwnChangesAreShown
    BY Shows DEF ConsoleIInv, Saml!OwnChangesAreShown, EnterpriseInv, Entries
  <2>10. page = "schemas" => Catalogue!OwnChangesAreShown
    BY DEF ConsoleIInv, Catalogue!OwnChangesAreShown, Catalogue!key, SchemasInv, ListOrError
  <2> QED
    BY <2>1, <2>2, <2>3, <2>4, <2>5, <2>6, <2>7, <2>8, <2>9, <2>10 DEF OwnChangesAreShown
<1> QED
  BY <1>1, ConsoleInvariance, PTL

\* The pages of a list that is browsed are shown in the order of the list, however
\* the list changes meanwhile: handleNextPage takes the cursor of the page that is
\* shown and handlePreviousPage the last one of the history.
THEOREM PagesInOrder == ConsoleSpec => []PagesFollowEachOther
<1>1. ConsoleIInv => PagesFollowEachOther
  BY DEF ConsoleIInv, PagesFollowEachOther, PeopleInv, RelationsInv, RelationsWay
<1> QED
  BY <1>1, ConsoleInvariance, PTL

\* What is saved about an identity, a provider or a schema was loaded for it: setId,
\* setProvider and loadSchema replace the fields with the subject, and a save in
\* flight holds both.
THEOREM EditsStayApart == ConsoleSpec => []EditsKeepTheirSubject
<1>1. ConsoleIInv => EditsKeepTheirSubject
  <2>1. IdentitySheetInv => Sheet!TraitsGoToTheirIdentity
    BY DEF IdentitySheetInv, SavesItsOwn, InFlight, Sheet!TraitsGoToTheirIdentity
  <2>2. EnterpriseInv => Saml!SavedFieldsAreTheProviders
    BY DEF EnterpriseInv, OfOneProvider, InFlight, Saml!SavedFieldsAreTheProviders
  <2>3. SchemasInv => Catalogue!TextsKeepTheirIdentifier
    BY DEF SchemasInv, SavesWhatWasLoaded, InFlight, Catalogue!TextsKeepTheirIdentifier
  <2> QED
    BY <2>1, <2>2, <2>3 DEF ConsoleIInv, EditsKeepTheirSubject
<1> QED
  BY <1>1, ConsoleInvariance, PTL

\* A dialog that asks about an operator is not closed, or turned to another, by the
\* answer about somebody else (toggleStatusMutation, deleteMutation).
THEOREM DialogsStay == ConsoleSpec => []DialogsOutliveOtherAnswers
<1>1. ConsoleIInv => DialogsOutliveOtherAnswers
  BY DEF ConsoleIInv, DialogsOutliveOtherAnswers, OperatorsInv, AboutDialog, InFlight,
         Accounts!DialogsOutliveOtherAnswers
<1> QED
  BY <1>1, ConsoleInvariance, PTL

\* Whatever the tabs of a browser ask and in whatever order the answers come, a tab
\* that was told that its session is over does not find the cookie of that session
\* when it comes to the login page (middleware).
THEOREM SignInStaysReachable == ConsoleSpec => []SignInIsReachable
<1>1. SessionInv => Browser!SignInIsReachable
  <2> SUFFICES ASSUME SessionInv, NEW t \in BrowserTabs, NEW l \in ui.tabs[t].leaving, l.of # {}
               PROVE  ui.cookie # l.of
    BY DEF Browser!SignInIsReachable
  <2>1. l.of \in LeavingFor(ui.tabs)
    BY DEF LeavingFor
  <2> QED
    BY <2>1 DEF SessionInv
<1>2. ConsoleIInv => SignInIsReachable
  BY <1>1 DEF ConsoleIInv, SignInIsReachable
<1> QED
  BY <1>2, ConsoleInvariance, PTL

\* What is shown as an outcome is the outcome of what was asked last: the snippets of
\* the enrolment wizard, the panels of the explorer, the fleet's metrics and the
\* probe, the verdict and the imports of the playground.
THEOREM OutcomesFollowQuestions == ConsoleSpec => []OutcomesAreOfTheirQuestion
<1>1. EnginesInv => Engines!SnippetsAreForTheirToken
  BY DEF EnginesInv, Engines!SnippetsAreForTheirToken, Engines!Snippet
<1>2. ExplorerInv => Insight!AnswersFollowQuestions
  BY DEF ExplorerInv, OfLast, Patient, Insight!AnswersFollowQuestions, Insight!SubjectShown,
         Insight!FindingsShown
<1>3. ObservabilityInv => Telemetry!AnswersFollowRequests
  BY DEF ObservabilityInv, Telemetry!AnswersFollowRequests
<1>4. PlaygroundInv => Nexus!OutcomesAreComplete
  BY DEF PlaygroundInv, Nexus!OutcomesAreComplete
<1>5. ConsoleIInv => OutcomesAreOfTheirQuestion
  BY <1>1, <1>2, <1>3, <1>4 DEF ConsoleIInv, OutcomesAreOfTheirQuestion
<1> QED
  BY <1>5, ConsoleInvariance, PTL

\* A move on the rules page does to the order of the rules what was clicked, and
\* nothing else: moveRule sends the ids of the whole list that is shown, and its
\* buttons are disabled while a filter is set or a move is pending.
THEOREM MovesAreAsClicked == ConsoleSpec => MoveMovesWhatWasClicked
<1>1. ConsoleIInv /\ [ConsoleNext]_consoleVars
        => [page = "rules" => Rules!MoveMovesWhatWasClicked]_consoleVars
  <2> SUFFICES ASSUME ConsoleIInv, ConsoleNext, page = "rules"
               PROVE  Rules!MoveMovesWhatWasClicked
    OBVIOUS
  <2>1. RulesInv /\ MovesInv /\ Rules!Next
    BY DEF ConsoleIInv, ConsoleNext
  <2> QED
    BY <2>1, MoveStep
<1> QED
  BY <1>1, ConsoleInvariance, PTL DEF ConsoleSpec, MoveMovesWhatWasClicked
=============================================================================
