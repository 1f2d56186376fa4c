---------------------------- MODULE Observability ----------------------------
(***************************************************************************)
(* The console's observability page: the fleet metrics and the alerts that *)
(* Prometheus reports, the dashboard of one engine, and the diagnostics    *)
(* with their connectivity probe.  A tab is mounted anew each time it is   *)
(* opened and sends its requests without the query cache.  The tabs for    *)
(* logs, traces and objectives have no state.                              *)
(***************************************************************************)
EXTENDS ConsolePage

CONSTANT Types   \* types of engine

FirstEngine == CHOOSE t \in Types : TRUE

\* What the tabs that are mounted later start from.
Fresh(tab, engine) ==
  [tab |-> tab, engine |-> engine,
   isLoading |-> tab = "fleet", failed |-> FALSE, metrics |-> {}, asked |-> db.seq,
   alerts |-> {}, error |-> FALSE,
   target |-> FirstEngine, isProbing |-> FALSE, probed |-> {}, probe |-> {},
   lists |-> {}, isExporting |-> FALSE]

\* A request, before its answer has been looked up.
Request(op, arg) == [op |-> op, arg |-> arg, stage |-> "sent", read |-> 0]

OnMount(tab) ==
  CASE tab = "fleet" -> <<Request("metrics", {})>>
    [] tab = "alerts" -> <<Request("alerts", {})>>
    [] tab = "diagnostics" -> <<Request("lists", {})>>
    [] OTHER -> <<>>

\* db.seq is the state of what Prometheus has seen.
Init ==
  /\ db = [seq |-> 1]
  /\ query = <<>>
  /\ ui = Fresh("fleet", FirstEngine)
  /\ calls = OnMount("fleet")

Open(tab, engine) ==
  /\ Spend
  /\ ui' = Fresh(tab, engine)
  /\ calls' = OnMount(tab)
  /\ UNCHANGED <<db, query>>

setActiveTab ==
  \E t \in {"fleet", "engine", "alerts", "diagnostics"} \ {ui.tab} : Open(t, ui.engine)

\* Inspect, in the table of the fleet's metrics.
handleSelectEngine ==
  /\ ui.tab = "fleet"
  /\ ui.metrics # {}
  /\ \E e \in Types : Open("engine", e)

Send(u, op, arg) ==
  /\ Spend
  /\ ui' = u
  /\ calls' = Append(calls, Request(op, arg))
  /\ UNCHANGED <<db, query>>

fetchMetrics ==
  /\ ui.tab = "fleet"
  /\ ~ui.isLoading
  /\ Send([ui EXCEPT !.isLoading = TRUE, !.failed = FALSE, !.asked = db.seq], "metrics", {})

\* The refresh button of the alerts is never disabled.
loadAlerts == ui.tab = "alerts" /\ Send([ui EXCEPT !.error = FALSE], "alerts", {})

setTargetEngine ==
  /\ ui.tab = "diagnostics"
  /\ \E e \in Types \ {ui.target} : ui' = [ui EXCEPT !.target = e]
  /\ UNCHANGED <<db, query, calls, left>>

\* The probe without the disabled condition of its button.
runProbeAnyTime ==
  /\ ui.tab = "diagnostics"
  /\ Send([ui EXCEPT !.isProbing = TRUE, !.failed = FALSE, !.probed = {ui.target}],
          "probe", {ui.target})

runProbe ==
  /\ ui.tab = "diagnostics"
  /\ ~ui.isProbing
  /\ Send([ui EXCEPT !.isProbing = TRUE, !.failed = FALSE, !.probed = {ui.target}],
          "probe", {ui.target})

handleExportBundle ==
  /\ ui.tab = "diagnostics"
  /\ ~ui.isExporting
  /\ Send([ui EXCEPT !.isExporting = TRUE], "bundle", {})

-----------------------------------------------------------------------------
\* The BFF asks Prometheus, or makes up its answer: probes, migrations, drift and
\* bundles are constants of their routes.
Read(i) ==
  /\ calls[i].stage = "sent"
  /\ calls' = [calls EXCEPT ![i].stage = "done", ![i].read = db.seq]
  /\ UNCHANGED <<db, query, ui, left>>

Return(i) ==
  LET c == calls[i] IN
  /\ c.stage = "done"
  /\ calls' = Settled(i)
  /\ ui' = CASE c.op = "metrics" ->
                  [ui EXCEPT !.isLoading = FALSE, !.failed = FALSE, !.metrics = {c.read}]
             [] c.op = "alerts" -> [ui EXCEPT !.alerts = {c.read}]
             [] c.op = "probe" ->
                  [ui EXCEPT !.isProbing = FALSE, !.failed = FALSE, !.probe = c.arg]
             [] c.op = "lists" -> [ui EXCEPT !.lists = {c.read}]
             [] c.op = "bundle" -> [ui EXCEPT !.isExporting = FALSE]
  /\ UNCHANGED <<db, query, left>>

\* What is shown stays, except that the alerts are hidden behind the error when a
\* response says so, and not when there is none.
ReturnError(i) ==
  LET c == calls[i] IN
  /\ calls' = Settled(i)
  /\ ui' \in CASE c.op = "metrics" -> {[ui EXCEPT !.isLoading = FALSE, !.failed = TRUE]}
               [] c.op = "alerts" -> {ui, [ui EXCEPT !.error = TRUE]}
               [] c.op = "probe" -> {[ui EXCEPT !.isProbing = FALSE, !.failed = TRUE]}
               [] c.op = "lists" -> {ui}
               [] c.op = "bundle" -> {[ui EXCEPT !.isExporting = FALSE]}
  /\ UNCHANGED <<db, query, left>>

Elsewhere ==
  /\ Spend
  /\ db' = [db EXCEPT !.seq = @ + 1]
  /\ UNCHANGED <<query, calls, ui>>

Next ==
  \/ setActiveTab \/ handleSelectEngine \/ fetchMetrics \/ loadAlerts \/ setTargetEngine
  \/ runProbe \/ handleExportBundle \/ Elsewhere
  \/ \E i \in DOMAIN calls : Read(i) \/ Return(i) \/ ReturnError(i)

-----------------------------------------------------------------------------
\* The metrics that are shown were measured after the last refresh, and the probe
\* was of the engine that was last probed, unless that request failed: each answer
\* replaces what is shown, and the fields can be edited meanwhile.
AnswersFollowRequests ==
  ~ui.failed =>
    /\ ~ui.isLoading => \A m \in ui.metrics : m >= ui.asked
    /\ ~ui.isProbing => ui.probe = ui.probed
=============================================================================
