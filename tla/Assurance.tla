----------------------------- MODULE Assurance -----------------------------
(***************************************************************************)
(* The console's audit and compliance pages: the records of the audit      *)
(* chain with their filters and exports, the verification of the chain,    *)
(* and the package of compliance evidence.  Both pages take an error       *)
(* response for an empty list, and the first takes an error response to    *)
(* the verification for a chain that was verified.                         *)
(***************************************************************************)
EXTENDS ConsolePage

CONSTANTS
  Actions,      \* what an audit record may say was done
  Frameworks    \* frameworks that a control may be of

\* The number of a record is its place in the chain.
Records == [n : 1..2, action : Actions]
Controls == [framework : Frameworks, compliant : BOOLEAN]
All == "ALL"
Searches == {{}, {1}}

logsOf(u) == [kind |-> "logs", of |-> u.filter]
evidenceOf(u) == [kind |-> "evidence", of |-> u.framework]
verification == [kind |-> "verification", of |-> All]
Shown(u) == IF u.page = "audit" THEN {logsOf(u), verification} ELSE {evidenceOf(u)}

Init ==
  /\ \E a \in Actions, C \in {{}, Controls}, intact \in BOOLEAN :
       db = [records |-> {[n |-> 1, action |-> a]}, controls |-> C, intact |-> intact]
  /\ \E p \in {"audit", "compliance"} :
       ui = [page |-> p, filter |-> All, search |-> {}, entry |-> {}, exported |-> {},
             framework |-> All, period |-> 1, expanded |-> {}, package |-> {}]
  /\ query = [k \in Shown(ui) |-> Fetched(Unfetched)]
  /\ calls = <<>>

\* The engine filters the records, and does not filter the evidence.
Read(k) ==
  CASE k.kind = "logs" -> {r \in db.records : k.of \in {All, r.action}}
    [] k.kind = "evidence" -> db.controls
    [] k = verification -> db.intact

\* What the page makes of an error response.
ReadError(k) == IF k = verification THEN TRUE ELSE {}

DataOf(k) == UNION query[k].data

\* The rows the tables show: the page filters again what it was given.
filteredLogs ==
  {r \in DataOf(logsOf(ui)) : ui.filter \in {All, r.action} /\ (ui.search = {} \/ r.n \in ui.search)}

filteredControls ==
  {c \in DataOf(evidenceOf(ui)) : ui.framework \in {All, c.framework}}

Only(u) ==
  /\ ui' = u
  /\ UNCHANGED <<db, query, calls, left>>

Save(u) ==
  /\ Spend
  /\ ui' = u
  /\ UNCHANGED <<db, query, calls>>

Show(u) ==
  /\ Spend
  /\ ui' = u
  /\ query' = Mounted(IF u.page = "audit" THEN logsOf(u) ELSE evidenceOf(u))
  /\ UNCHANGED <<db, calls>>

-----------------------------------------------------------------------------
setFilter ==
  /\ ui.page = "audit"
  /\ \E a \in ({All} \cup Actions) \ {ui.filter} : Show([ui EXCEPT !.filter = a])

setSearchTerm ==
  /\ ui.page = "audit"
  /\ \E s \in Searches \ {ui.search} : Only([ui EXCEPT !.search = s])

\* An export writes the rows that are shown to a file.
handleExport ==
  /\ ui.page = "audit"
  /\ Save([ui EXCEPT !.exported =
       {[filter |-> ui.filter, search |-> ui.search, rows |-> filteredLogs]}])

setSelectedEntry ==
  ui.page = "audit" /\ ui.entry = {} /\ \E r \in filteredLogs : Only([ui EXCEPT !.entry = {r}])

CloseEntry == ui.entry # {} /\ Only([ui EXCEPT !.entry = {}])

\* The banner says that the chain is verified; the answer only supplies its
\* length and its head.
Banner == [verified |-> TRUE, length |-> query[verification].data # {}]

-----------------------------------------------------------------------------
setSelectedFramework ==
  /\ ui.page = "compliance"
  /\ \E f \in ({All} \cup Frameworks) \ {ui.framework} : Show([ui EXCEPT !.framework = f])

setSelectedPeriod ==
  ui.page = "compliance" /\ Only([ui EXCEPT !.period = 3 - @])

setExpandedControlId ==
  /\ ui.page = "compliance"
  /\ \E c \in filteredControls :
       Only([ui EXCEPT !.expanded = IF @ = {c} THEN {} ELSE {c}])

\* The package has the controls that are shown, whatever framework it is made
\* for, says that none fails, and that the audit chain was verified.
handleGeneratePackage(f) ==
  LET controls == DataOf(evidenceOf(ui)) IN
  Save([ui EXCEPT !.package =
    {[framework |-> f, period |-> ui.period, shown |-> ui.framework,
      passing |-> Cardinality({c \in controls : c.compliant}),
      total |-> Cardinality(controls), failing |-> 0, chain |-> "verified",
      controls |-> filteredControls]}])

\* One button for each framework, and one for all.
GeneratePackage ==
  ui.page = "compliance" /\ \E f \in {All} \cup Frameworks : handleGeneratePackage(f)

-----------------------------------------------------------------------------
\* A record is appended to the chain, or one that is in it is altered.
Elsewhere ==
  /\ Spend
  /\ \/ \E r \in Records :
          /\ ~\E o \in db.records : o.n >= r.n
          /\ db' = [db EXCEPT !.records = @ \cup {r}]
     \/ db.intact /\ db' = [db EXCEPT !.intact = FALSE]
  /\ UNCHANGED <<query, calls, ui>>

Next ==
  \/ setFilter \/ setSearchTerm \/ handleExport \/ setSelectedEntry \/ CloseEntry
  \/ setSelectedFramework \/ setSelectedPeriod \/ setExpandedControlId
  \/ GeneratePackage \/ Elsewhere
  \/ \E k \in Shown(ui) : Refetch(k)
  \/ \E k \in DOMAIN query :
       Answer(k, Read(k)) \/ Answer(k, ReadError(k)) \/ Deliver(k) \/ Lose(k)
=============================================================================
