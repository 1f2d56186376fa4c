----------------------------- MODULE RuleStore -----------------------------
(***************************************************************************)
(* The rule store of Aegis on PostgreSQL: several proxy replicas, each     *)
(* with a cache of the rules that it matches requests against, a mutex     *)
(* that serialises its own changes and reloads, and a listener that        *)
(* reloads the cache when a change is notified.                            *)
(*                                                                         *)
(* A change is three steps: the statements of its transaction (Open), the  *)
(* commit, which also delivers the notification, and the reload that ends  *)
(* the call.  Between them the other replicas work on the same table at    *)
(* READ COMMITTED: a statement sees the committed rows and those of its    *)
(* own transaction, and waits for a row another open transaction wrote.    *)
(* A replica may crash, a listener may lose its connection, a statement or *)
(* a reload may fail, and the query of a reload may break after some of    *)
(* its rows: reloadLocked does not ask rows.Err() and takes these rows for *)
(* the whole list.                                                         *)
(***************************************************************************)
EXTENDS RuleRows

CONSTANTS
  Replicas,    \* the Aegis processes that share the database
  RuleIds,     \* rule ids, numbers
  Bodies,      \* contents of a rule
  Imports,     \* lists a client may import; one with an id twice changes nothing
  MaxChanges,  \* bound on the transactions that are started
  MaxFaults    \* bound on crashes, lost connections, failed statements and
               \* queries that break

\* What a list of rules consists of.
ListedRules == [id : RuleIds, order : Int, body : Bodies]

ASSUME RuleStoreAssumption ==
  /\ RuleIds \subseteq Nat /\ IsFiniteSet(RuleIds)
  /\ Imports \subseteq Seq(ListedRules)
  /\ \A list \in Imports : Cardinality(Ids(list)) = Len(list)
  /\ MaxChanges \in Nat
  /\ MaxFaults \in Nat

VARIABLES
  rows,      \* the committed rows of the table rules
  versions,  \* the committed rows of the table rule_versions, by version
  clock,     \* transactions started so far: the version sequence, and the time
  tx,        \* the change a replica works on, with the mutex held
  cache,     \* the list of rules a replica matches with
  cut,       \* the replicas whose list came of a query that broke
  conn,      \* "up" while the listener's LISTEN is in force
  due,       \* a notification, or the reload after LISTEN, waits to be handled
  faults     \* faults so far

vars == <<rows, versions, clock, tx, cache, cut, conn, due, faults>>

NoTx == [stage |-> "none"]

\* The table as a transaction sees it after its own statements.
Written(rs, t) ==
  [i \in (DOMAIN rs \ t.gone) \cup DOMAIN t.put |->
    IF i \in DOMAIN t.put THEN t.put[i] ELSE rs[i]]

\* No other open transaction holds one of these rows, or has inserted it.
Unlocked(r, ids) ==
  \A q \in Replicas \ {r} :
    tx[q].stage = "open" => (DOMAIN tx[q].put \cup tx[q].gone) \cap ids = {}

Init ==
  /\ rows = [i \in {} |-> 0]
  /\ versions = [v \in {} |-> <<>>]
  /\ clock = 0
  /\ tx = [r \in Replicas |-> NoTx]
  /\ cache = [r \in Replicas |-> <<>>]
  /\ cut = {}
  /\ conn = [r \in Replicas |-> "down"]
  /\ due = [r \in Replicas |-> FALSE]
  /\ faults = 0

-----------------------------------------------------------------------------
\* A change that takes the number of its version twice.
OpenTwice(r, put, gone) ==
  /\ tx[r] = NoTx
  /\ clock < MaxChanges
  /\ Unlocked(r, DOMAIN put \cup gone)
  /\ clock' = clock + 2
  /\ tx' = [tx EXCEPT ![r] =
       [stage |-> "open", put |-> put, gone |-> gone, version |-> clock + 2,
        snap |-> Listed(Written(rows, [put |-> put, gone |-> gone]))]]
  /\ UNCHANGED <<rows, versions, cache, cut, conn, due, faults>>

\* The statements of a change: the rows it writes and deletes, then the
\* snapshot of the version, under the number the sequence gives.
Open(r, put, gone) ==
  /\ tx[r] = NoTx
  /\ clock < MaxChanges
  /\ Unlocked(r, DOMAIN put \cup gone)
  /\ clock' = clock + 1
  /\ tx' = [tx EXCEPT ![r] =
       [stage |-> "open", put |-> put, gone |-> gone, version |-> clock + 1,
        snap |-> Listed(Written(rows, [put |-> put, gone |-> gone]))]]
  /\ UNCHANGED <<rows, versions, cache, cut, conn, due, faults>>

\* Refused when the cache of the replica has the id, and by the primary key.
Create(r) ==
  \E id \in RuleIds \ (Ids(cache[r]) \cup DOMAIN rows), order \in 0..1, b \in Bodies :
    Open(r, Inserted(rows, id, order, b, clock + 1), {})

Update(r) ==
  \E id \in DOMAIN rows, b \in Bodies :
    Open(r, [i \in {id} |-> [rows[i] EXCEPT !.body = b]], {})

Delete(r) == \E id \in DOMAIN rows : Open(r, [i \in {} |-> 0], {id})

\* The ids come from a list that may be older than the table.
Reorder(r) ==
  \E S \in SUBSET RuleIds : \E ids \in [1..Cardinality(S) -> S] :
    /\ S # {}
    /\ {ids[k] : k \in DOMAIN ids} = S
    /\ Open(r, Reordered(rows, ids), {})

\* DELETE FROM rules deletes the rows that are committed when it starts.
Replace(r, list) == Open(r, Restored(list, clock + 1), DOMAIN rows)

Rollback(r) == \E v \in DOMAIN versions : Replace(r, versions[v])

Import(r) == \E list \in Imports : Replace(r, list)

\* COMMIT delivers pg_notify to every session that listens.
Commit(r) ==
  /\ tx[r].stage = "open"
  /\ rows' = Written(rows, tx[r])
  /\ versions' = [v \in DOMAIN versions \cup {tx[r].version} |->
                   IF v = tx[r].version THEN tx[r].snap ELSE versions[v]]
  /\ tx' = [tx EXCEPT ![r] = [stage |-> "committed"]]
  /\ due' = [q \in Replicas |-> due[q] \/ conn[q] = "up"]
  /\ UNCHANGED <<clock, cache, cut, conn, faults>>

Fault == faults < MaxFaults /\ faults' = faults + 1

\* A statement or the commit fails: the transaction is rolled back.
Abort(r) ==
  /\ tx[r].stage = "open"
  /\ Fault
  /\ tx' = [tx EXCEPT ![r] = NoTx]
  /\ UNCHANGED <<rows, versions, clock, cache, cut, conn, due>>

\* reloadLocked, when the query gives every row, and when it breaks before: the
\* rows that came are taken for the list.
ReadAll(r) ==
  /\ cache' = [cache EXCEPT ![r] = Listed(rows)]
  /\ cut' = cut \ {r}

ReadPart(r) ==
  /\ \E n \in 1..Cardinality(DOMAIN rows) :
       cache' = [cache EXCEPT ![r] = SubSeq(Listed(rows), 1, n - 1)]
  /\ cut' = cut \cup {r}

ReadRules(r) == (ReadAll(r) /\ UNCHANGED faults) \/ (ReadPart(r) /\ Fault)

\* The call ends with a reload of the cache ...
Return(r) ==
  /\ tx[r].stage = "committed"
  /\ ReadRules(r)
  /\ tx' = [tx EXCEPT ![r] = NoTx]
  /\ UNCHANGED <<rows, versions, clock, conn, due>>

\* ... or, when the reload fails, with an error for a change that is made.
ReturnError(r) ==
  /\ tx[r].stage = "committed"
  /\ Fault
  /\ tx' = [tx EXCEPT ![r] = NoTx]
  /\ UNCHANGED <<rows, versions, clock, cache, cut, conn, due>>

-----------------------------------------------------------------------------
\* A listener that does not reload after LISTEN, and one that does not reconnect.
ListenOnly(r) ==
  /\ conn[r] = "down"
  /\ conn' = [conn EXCEPT ![r] = "up"]
  /\ UNCHANGED <<rows, versions, clock, tx, cache, cut, due, faults>>


\* LISTEN on a fresh connection; the reload that follows is due.
Listen(r) ==
  /\ conn[r] = "down"
  /\ conn' = [conn EXCEPT ![r] = "up"]
  /\ due' = [due EXCEPT ![r] = TRUE]
  /\ UNCHANGED <<rows, versions, clock, tx, cache, cut, faults>>

\* The listener takes the mutex and reloads.
Reload(r) ==
  /\ due[r]
  /\ tx[r] = NoTx
  /\ ReadRules(r)
  /\ due' = [due EXCEPT ![r] = FALSE]
  /\ UNCHANGED <<rows, versions, clock, tx, conn>>

\* The connection breaks, or a reload fails and the connection is given back:
\* what was notified on it is lost.
Disconnect(r) ==
  /\ conn[r] = "up"
  /\ Fault
  /\ conn' = [conn EXCEPT ![r] = "down"]
  /\ due' = [due EXCEPT ![r] = FALSE]
  /\ UNCHANGED <<rows, versions, clock, tx, cache, cut>>

\* The process dies and starts again: it loads the rules, then listens.
Restart(r) ==
  /\ Fault
  /\ tx' = [tx EXCEPT ![r] = NoTx]
  /\ ReadAll(r) \/ ReadPart(r)
  /\ conn' = [conn EXCEPT ![r] = "down"]
  /\ due' = [due EXCEPT ![r] = FALSE]
  /\ UNCHANGED <<rows, versions, clock>>

Next ==
  \E r \in Replicas :
    \/ Create(r) \/ Update(r) \/ Delete(r) \/ Reorder(r)
    \/ Rollback(r) \/ Import(r)
    \/ Commit(r) \/ Abort(r) \/ Return(r) \/ ReturnError(r)
    \/ Listen(r) \/ Reload(r) \/ Disconnect(r) \/ Restart(r)

\* Calls end, and the listener retries with a backoff until it is closed.
Fairness ==
  \A r \in Replicas :
    /\ WF_vars(Commit(r) \/ Return(r))
    /\ WF_vars(Listen(r))
    /\ WF_vars(Reload(r))

Spec == Init /\ [][Next]_vars /\ Fairness

-----------------------------------------------------------------------------
TypeOK ==
  /\ DOMAIN rows \subseteq RuleIds
  /\ \A i \in DOMAIN rows : rows[i] \in [order : Int, born : 1..MaxChanges, body : Bodies]
  /\ DOMAIN versions \subseteq 1..MaxChanges
  /\ \A v \in DOMAIN versions : versions[v] \in Seq(ListedRules)
  /\ clock \in 0..MaxChanges
  /\ \A r \in Replicas : tx[r].stage \in {"none", "open", "committed"}
  /\ cache \in [Replicas -> Seq(ListedRules)]
  /\ cut \subseteq Replicas
  /\ conn \in [Replicas -> {"up", "down"}]
  /\ due \in [Replicas -> BOOLEAN]
  /\ faults \in 0..MaxFaults

\* What a replica serves: the rules of the database, or, of a list whose query
\* broke, the first of them.
Serves(r) ==
  IF r \in cut
  THEN \E n \in 1..Cardinality(DOMAIN rows) : cache[r] = SubSeq(Listed(rows), 1, n - 1)
  ELSE cache[r] = Listed(rows)

\* "closing the gap for notifications that may have been missed" (store.go:179):
\* a replica whose listener is connected and has nothing left to handle serves
\* the rules of the database, whoever changed them and whatever was lost, refused
\* or crashed.  A reload whose query breaks halfway is the exception the code
\* leaves: it reports success, the list ends early (but has no rule that is gone
\* or out of its place), and nothing is due any more.
ListeningReplicaIsCurrent ==
  \A r \in Replicas : conn[r] = "up" /\ ~due[r] => Serves(r)


=============================================================================
