---------------------------------- MODULE Run ----------------------------------
(***************************************************************************)
(* run.Run (platform/run/run.go): the lifecycle every engine's main gives  *)
(* to its listeners.  One goroutine per server runs Serve, Run waits for   *)
(* the first event, one goroutine calls the Shutdowns in order, and Run    *)
(* returns when every Serve has.                                           *)
(*                                                                         *)
(* Servers are numbered in the order of the list.  Serve is the servers'   *)
(* own code: that of an http.Server or janus-key-reload returns once its   *)
(* Shutdown was called; that of a Contextual one (argus-registry in six    *)
(* engines, ego-notifications, the rule listener of aegis) is              *)
(* "<-ctx.Done(); return run.ErrServerClosed" and takes no notice of its   *)
(* Shutdown.  The Shutdown of an Unbounded one (the gRPC servers of nexus, *)
(* themis and argus) is GracefulStop, which takes no context: it lasts as  *)
(* long as the longest RPC and may never return, and its Serve returns     *)
(* after it.  No other Shutdown outlives its deadline by more than a batch *)
(* or a few seconds.                                                       *)
(***************************************************************************)
EXTENDS Naturals, FiniteSets

CONSTANTS
    N,           \* the number of servers
    Contextual,  \* the servers whose Serve waits for ctx alone
    Unbounded,   \* the servers whose Shutdown is GracefulStop
    NoError

Servers == 1..N

ASSUME RunAssumption ==
    /\ N \in Nat \ {0}
    /\ Contextual \subseteq Servers
    /\ Unbounded \subseteq Servers \ Contextual
    /\ NoError \notin Servers

VARIABLES
    ctxDone,   \* SIGINT or SIGTERM arrived
    serve,     \* serve[s]: what the Serve of s has come to
    errs,      \* the servers that returned and whose result is unread: a Serve
               \* and the send that follows it are one step, so any order is
    phase,     \* where Run is
    trigger,   \* triggerErr: the server that crashed, or NoError
    consumed,  \* how many results Run has read
    shutdown,  \* shutdown[s]: the call of its Shutdown
    expired    \* the drain deadline is over

vars == <<ctxDone, serve, errs, phase, trigger, consumed, shutdown, expired>>

TypeOK ==
    /\ ctxDone \in BOOLEAN
    /\ serve \in [Servers -> {"serving", "closed", "crashed"}]
    /\ errs \subseteq Servers
    /\ phase \in {"waiting", "shutting", "collecting", "returned"}
    /\ trigger \in Servers \union {NoError}
    /\ consumed \in 0..N
    /\ shutdown \in [Servers -> {"none", "called", "returned"}]
    /\ expired \in BOOLEAN
    /\ consumed + Cardinality(errs) = Cardinality({s \in Servers : serve[s] # "serving"})

Init ==
    /\ ctxDone = FALSE
    /\ serve = [s \in Servers |-> "serving"]
    /\ errs = {}
    /\ phase = "waiting"
    /\ trigger = NoError
    /\ consumed = 0
    /\ shutdown = [s \in Servers |-> "none"]
    /\ expired = FALSE

-----------------------------------------------------------------------------
(* The servers                                                             *)

\* SIGINT or SIGTERM.
Signal ==
    /\ ~ctxDone /\ phase # "returned"
    /\ ctxDone' = TRUE
    /\ UNCHANGED <<serve, errs, phase, trigger, consumed, shutdown, expired>>

\* The Serve of s returns; its goroutine puts the result into errs.
Serve(s, result) ==
    /\ serve[s] = "serving"
    /\ serve' = [serve EXCEPT ![s] = result]
    /\ errs' = errs \union {s}
    /\ UNCHANGED <<ctxDone, phase, trigger, consumed, shutdown, expired>>

\* A listener fails: Serve returns an error other than ErrServerClosed (that of
\* a gRPC server also when it is entered after its GracefulStop).
Crash(s) == s \notin Contextual /\ Serve(s, "crashed")

\* Serve returns ErrServerClosed.
Close(s) ==
    /\ s \in Contextual => ctxDone
    /\ s \in Unbounded => shutdown[s] = "returned"
    /\ s \notin Contextual => shutdown[s] # "none"
    /\ Serve(s, "closed")

-----------------------------------------------------------------------------
(* Run                                                                     *)

\* The select takes ctx.Done().
WakeBySignal ==
    /\ phase = "waiting" /\ ctxDone
    /\ phase' = "shutting"
    /\ UNCHANGED <<ctxDone, serve, errs, trigger, consumed, shutdown, expired>>

\* Mutant: the loop below starts at 0 and reads one result too many.
BugConsumed(s) ==
    /\ phase = "waiting" /\ s \in errs
    /\ phase' = "shutting"
    /\ errs' = errs \ {s}
    /\ trigger' = IF serve[s] = "crashed" THEN s ELSE NoError
    /\ UNCHANGED <<ctxDone, serve, consumed, shutdown, expired>>

\* The select takes a result from errs; a closed server's is nil.
WakeByServer(s) ==
    /\ phase = "waiting" /\ s \in errs
    /\ phase' = "shutting"
    /\ errs' = errs \ {s}
    /\ trigger' = IF serve[s] = "crashed" THEN s ELSE NoError
    /\ consumed' = 1
    /\ UNCHANGED <<ctxDone, serve, shutdown, expired>>

\* Mutant: Shutdown is called for the crashed server only.
BugCallShutdown(s) ==
    /\ phase # "waiting" /\ shutdown[s] = "none"
    /\ trigger = NoError \/ s = trigger
    /\ \A t \in 1..(s - 1) : shutdown[t] = "returned"
    /\ shutdown' = [shutdown EXCEPT ![s] = "called"]
    /\ UNCHANGED <<ctxDone, serve, errs, phase, trigger, consumed, expired>>

\* The shutdown goroutine calls Shutdown for one server after the other, also
\* when Run no longer waits for it.
CallShutdown(s) ==
    /\ phase # "waiting" /\ shutdown[s] = "none"
    /\ \A t \in 1..(s - 1) : shutdown[t] = "returned"
    /\ shutdown' = [shutdown EXCEPT ![s] = "called"]
    /\ UNCHANGED <<ctxDone, serve, errs, phase, trigger, consumed, expired>>

\* Shutdown returns, with or without an error.  That of an Unbounded server
\* need not: the action has no fairness then.
ReturnShutdown(s) ==
    /\ shutdown[s] = "called"
    /\ shutdown' = [shutdown EXCEPT ![s] = "returned"]
    /\ UNCHANGED <<ctxDone, serve, errs, phase, trigger, consumed, expired>>

\* The drain deadline passes.
Expire ==
    /\ phase # "waiting" /\ ~expired
    /\ expired' = TRUE
    /\ UNCHANGED <<ctxDone, serve, errs, phase, trigger, consumed, shutdown>>

\* done is closed, or the deadline is over.
Drained ==
    /\ phase = "shutting"
    /\ expired \/ \A s \in Servers : shutdown[s] = "returned"

\* The second select.
StopWaiting ==
    /\ Drained
    /\ phase' = "collecting"
    /\ UNCHANGED <<ctxDone, serve, errs, trigger, consumed, shutdown, expired>>

\* The loop that drains the remaining Serve goroutines reads one more result.
Collect(s) ==
    /\ phase = "collecting" /\ consumed < N /\ s \in errs
    /\ errs' = errs \ {s}
    /\ consumed' = consumed + 1
    /\ UNCHANGED <<ctxDone, serve, phase, trigger, shutdown, expired>>

\* Run returns triggerErr.
Return ==
    /\ phase = "collecting" /\ consumed = N
    /\ phase' = "returned"
    /\ UNCHANGED <<ctxDone, serve, errs, trigger, consumed, shutdown, expired>>

-----------------------------------------------------------------------------
Main == WakeBySignal \/ (\E s \in Servers : WakeByServer(s) \/ Collect(s)) \/ StopWaiting \/ Return

Next ==
    \/ Signal \/ Expire \/ WakeBySignal \/ StopWaiting \/ Return
    \/ \E s \in Servers :
        \/ Crash(s) \/ Close(s)
        \/ WakeByServer(s) \/ Collect(s)
        \/ CallShutdown(s) \/ ReturnShutdown(s)

Spec == Init /\ [][Next]_vars

\* Goroutines run, time passes, a Serve that may return does, and so does a
\* Shutdown that heeds its deadline or waits for one batch: any but GracefulStop.
Fairness ==
    /\ WF_vars(Main)
    /\ WF_vars(Expire)
    /\ \A s \in Servers : WF_vars(Close(s)) /\ WF_vars(CallShutdown(s))
    /\ \A s \in Servers \ Unbounded : WF_vars(ReturnShutdown(s))

FairSpec == Spec /\ Fairness

-----------------------------------------------------------------------------
(* Properties                                                              *)

Crashed == {s \in Servers : serve[s] = "crashed"}

\* "Run returns the triggering server's error, if any": without a signal Run
\* ends because of a crash and says so; it never blames a server that closed.
TriggerIsACrash ==
    /\ trigger \in Crashed \union {NoError}
    /\ phase # "waiting" /\ ~ctxDone => trigger # NoError

\* "Drain remaining Serve goroutines so they don't leak past Run": when Run
\* has returned nothing serves, and no result was read twice or left unread.
NothingLeaks ==
    phase = "returned" => errs = {} /\ \A s \in Servers : serve[s] # "serving"

\* "after every Shutdown call has returned": Run returns no earlier, unless
\* the drain deadline is over.
ShutdownsPrecedeReturn ==
    phase \in {"collecting", "returned"} =>
        expired \/ \A s \in Servers : shutdown[s] = "returned"

\* The GracefulStop of s has begun and never returns ("a known, accepted
\* limitation", nexusd/main.go:214-218).
Hangs(s) == s \in Unbounded /\ [](shutdown[s] = "called")

\* "any other error is treated as a crash and triggers shutdown of every other
\* server": whatever else crashes or is late, with the one exception the code
\* leaves open, the servers listed after a GracefulStop that never returns.
\* There run.go:44-45 ("every server then receives Shutdown with a context
\* bounded by drain") is not true: argus-registry is never told to deregister.
CrashShutsDownAll ==
    \A s, t \in Servers :
        serve[s] = "crashed" ~>
            (shutdown[t] # "none" \/ \E u \in Servers : u < t /\ Hangs(u))

\* A signal ends the process, also when a Shutdown takes longer than the
\* deadline or a server crashes meanwhile, unless a GracefulStop never returns:
\* Run waits for the Serve of that server without a deadline.
SignalEndsRun ==
    ctxDone ~> (phase = "returned" \/ \E u \in Servers : Hangs(u))

=============================================================================
