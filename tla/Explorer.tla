------------------------------ MODULE Explorer ------------------------------
(***************************************************************************)
(* The console's cross-engine explorer: one panel at a time resolves a     *)
(* subject, evaluates an access, simulates a request or scans for          *)
(* inconsistencies.  A panel keeps its form, whether it waits and what it  *)
(* was last told, and sends its requests without the query cache.  The BFF *)
(* asks the engines, and goes on without those that do not answer.         *)
(***************************************************************************)
EXTENDS ConsolePage, TLC

CONSTANT Questions   \* what the form of a panel may hold

Panels == {"subject", "access", "simulator", "consistency"}
Blank == 0
FirstQuestion == CHOOSE r \in Questions : \A o \in Questions : r <= o

\* What the BFF asks of the engines for a panel.  It asks one engine after the
\* other about an access and all at once otherwise; Aegis and the relations of a
\* scan are asked too, and make no difference.
Sources(p) ==
  CASE p = "subject" -> <<"identity", "sessions", "tuples", "keys", "users">>
    [] p = "access" -> <<"nexus", "themis">>
    [] p = "simulator" -> <<>>
    [] p = "consistency" -> <<"keys", "providers">>

\* No answer and an error are the same to the BFF.
None == "none"
Replies(p) ==
  CASE p = "subject" -> {None, "found"}
    [] p = "access" -> {None, "allowed", "denied"}
    [] OTHER -> {None, "clean", "finding"}

\* A question that is sent, with the replies that the BFF has had so far.
Question(u) == [of |-> u.input, since |-> db.seq, got |-> <<>>]

Mount(p) ==
  [panel |-> p, input |-> FirstQuestion, isLoading |-> TRUE, failed |-> FALSE,
   asked |-> [of |-> FirstQuestion, since |-> db.seq], result |-> {}]

\* Every panel asks as soon as it is mounted.
Init ==
  /\ db = [seq |-> 1]
  /\ query = <<>>
  /\ ui = Mount("subject")
  /\ calls = <<[op |-> "subject", arg |-> Question(ui), stage |-> "asked"]>>

\* The other panel starts anew; what the last one waits for is thrown away.
setActiveTab ==
  /\ Spend
  /\ \E p \in Panels \ {ui.panel} : ui' = Mount(p)
  /\ calls' = <<[op |-> ui'.panel, arg |-> Question(ui'), stage |-> "asked"]>>
  /\ UNCHANGED <<db, query>>

-----------------------------------------------------------------------------
Ask(u) ==
  /\ ui' = [u EXCEPT !.isLoading = TRUE, !.failed = FALSE,
                     !.asked = [of |-> u.input, since |-> db.seq]]
  /\ calls' = Asked(u.panel, Question(u))
  /\ UNCHANGED <<db, query>>

setSubjectQuery ==
  /\ ui.panel = "subject"
  /\ \E r \in Questions \cup {Blank} : r # ui.input /\ ui' = [ui EXCEPT !.input = r]
  /\ UNCHANGED <<db, query, calls, left>>

\* The form without the disabled condition of its button.
SearchAnyTime == ui.panel = "subject" /\ ui.input # Blank /\ Spend /\ Ask(ui)

\* A disabled button keeps the form from being submitted.
handleSearch ==
  /\ ui.panel = "subject"
  /\ ~ui.isLoading
  /\ ui.input # Blank
  /\ Spend
  /\ Ask(ui)

runDiagnostics == ui.panel = "consistency" /\ ~ui.isLoading /\ Spend /\ Ask(ui)

\* The effect asks again at every edit of a field, while the last question is
\* still on its way.
EditAccess ==
  /\ ui.panel = "access"
  /\ Spend
  /\ \E r \in Questions \ {ui.input} : Ask([ui EXCEPT !.input = r])

handleEvaluate == ui.panel = "access" /\ ~ui.isLoading /\ Spend /\ Ask(ui)

EditRequest ==
  /\ ui.panel = "simulator"
  /\ Spend
  /\ \E r \in Questions \ {ui.input} : Ask([ui EXCEPT !.input = r])

handleSimulate == ui.panel = "simulator" /\ ~ui.isLoading /\ Spend /\ Ask(ui)

-----------------------------------------------------------------------------
\* The engines the BFF waits for: the next one, or all that have not replied.
Awaited(i) ==
  LET wanted == Sources(calls[i].op)
      rest == {k \in DOMAIN wanted : wanted[k] \notin DOMAIN calls[i].arg.got}
  IN  IF calls[i].op = "access" THEN {wanted[k] : k \in {j \in rest : \A o \in rest : j <= o}}
      ELSE {wanted[k] : k \in rest}

Reply(i) ==
  /\ \E s \in Awaited(i), v \in Replies(calls[i].op) :
       calls' = [calls EXCEPT ![i].arg.got = @ @@ (s :> v)]
  /\ UNCHANGED <<db, query, ui, left>>

\* A subject that Ego does not know, or that it was not asked about in time, is
\* shown as an active identity; the other sections are then empty.
UnifiedSubject(got) ==
  [identity |-> IF got["identity"] = None THEN "invented" ELSE "found",
   sections |-> {s \in DOMAIN got \ {"identity"} : got[s] = "found"}]

\* Access is denied when Nexus or Themis said so, and the first of them is named.
\* An engine that did not answer counts as one that allows it.
EffectiveAccess(got) ==
  [allowed |-> \A s \in DOMAIN got : got[s] # "denied",
   reason |-> IF got["nexus"] = "denied" THEN "nexus"
              ELSE IF got["themis"] = "denied" THEN "themis" ELSE "granted"]

\* The simulator asks nobody: the request is forwarded whatever it is.
Simulation == [allowed |-> TRUE, decision |-> "forwarded"]

\* A scan that reached no engine has found what a scan always finds.
Findings(got) == {"aligned"} \cup {s \in DOMAIN got : got[s] = "finding"}

Answered(i) ==
  LET c == calls[i] IN
  CASE c.op = "subject" -> UnifiedSubject(c.arg.got)
    [] c.op = "access" -> EffectiveAccess(c.arg.got)
    [] c.op = "simulator" -> Simulation
    [] c.op = "consistency" -> Findings(c.arg.got)

Return(i) ==
  /\ Awaited(i) = {}
  /\ calls' = Settled(i)
  /\ ui' = [ui EXCEPT !.isLoading = FALSE, !.failed = FALSE, !.result =
       {[of |-> calls[i].arg.of, since |-> calls[i].arg.since, says |-> Answered(i)]}]
  /\ UNCHANGED <<db, query, left>>

\* The response is an error or is lost: a toast, and what was shown before stays.
ReturnError(i) ==
  /\ calls' = Settled(i)
  /\ ui' = [ui EXCEPT !.isLoading = FALSE, !.failed = TRUE]
  /\ UNCHANGED <<db, query, left>>

\* Something changes in the engines.
Elsewhere ==
  /\ Spend
  /\ db' = [db EXCEPT !.seq = @ + 1]
  /\ UNCHANGED <<query, calls, ui>>

Next ==
  \/ setActiveTab \/ setSubjectQuery \/ handleSearch \/ runDiagnostics \/ EditAccess
  \/ handleEvaluate \/ EditRequest \/ handleSimulate \/ Elsewhere
  \/ \E i \in DOMAIN calls : Reply(i) \/ Return(i) \/ ReturnError(i)

-----------------------------------------------------------------------------
\* The two panels that hide what they know while they wait.
SubjectShown == IF ui.panel = "subject" /\ ~ui.isLoading THEN ui.result ELSE {}
FindingsShown == IF ui.panel = "consistency" /\ ~ui.isLoading THEN ui.result ELSE {}

\* The subject and the findings that are shown answer the last question that was
\* asked, unless that failed: they are of the subject it named, and were looked up
\* after it was asked, though an answer replaces whatever is shown.
AnswersFollowQuestions ==
  ~ui.failed =>
    \A r \in SubjectShown \cup FindingsShown :
      r.of = ui.asked.of /\ r.since = ui.asked.since
=============================================================================
