----------------------------- MODULE MCConsole -----------------------------
(***************************************************************************)
(* The console with two or three of everything.                            *)
(***************************************************************************)
EXTENDS Console

\* Two steps are enough where one request and one change by another meet; the
\* other pages need one more to get to a second page, dialog or form.
Few == {"studio", "oauth", "vulcan", "audit", "enterprise", "session", "explorer", "playground"}
Many == {"rules", "directory", "people", "sheet", "permissions", "operators", "engines",
         "schemas", "observability"}
RequestsOfAVisit == [p \in Few \cup Many |-> IF p \in Few THEN 2 ELSE 3]
=============================================================================
