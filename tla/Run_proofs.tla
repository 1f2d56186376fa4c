------------------------------- MODULE Run_proofs -------------------------------
(***************************************************************************)
(* Proofs about run.Run for any number of servers of any kind.             *)
(* The inductive invariant is TypeOK, whose last conjunct counts the       *)
(* results, with what the phases and the contents of errs tell.            *)
(***************************************************************************)
EXTENDS Run, FiniteSetTheorems, TLAPS

Ended == {s \in Servers : serve[s] # "serving"}

\* Before the first event nothing was read or shut down, and a server closes
\* only because of a signal.
BeforeFirstEvent ==
    phase = "waiting" =>
        /\ consumed = 0 /\ trigger = NoError /\ ~expired
        /\ \A s \in Servers : shutdown[s] = "none" /\ (serve[s] = "closed" => ctxDone)

\* Only servers that ended have a result in errs, and a Run that returns has
\* read as many results as there are servers.
Results == errs \subseteq Ended /\ (phase = "returned" => consumed = N)

Types ==
    /\ ctxDone \in BOOLEAN
    /\ serve \in [Servers -> {"serving", "closed", "crashed"}]
    /\ errs \subseteq Servers
    /\ phase \in {"waiting", "shutting", "collecting", "returned"}
    /\ trigger \in Servers \union {NoError}
    /\ consumed \in 0..N
    /\ shutdown \in [Servers -> {"none", "called", "returned"}]
    /\ expired \in BOOLEAN

Accounting == consumed + Cardinality(errs) = Cardinality(Ended)

IInv ==
    /\ Types /\ Accounting
    /\ BeforeFirstEvent /\ Results
    /\ TriggerIsACrash /\ ShutdownsPrecedeReturn

-----------------------------------------------------------------------------
\* The sets of servers are finite: as many as N at most, and as many as N only
\* if they are all.
LEMMA Counting ==
    ASSUME NEW S \in SUBSET Servers
    PROVE  /\ IsFiniteSet(S) /\ Cardinality(S) \in Nat /\ Cardinality(S) <= N
           /\ Cardinality(S) = N => S = Servers
           /\ Cardinality(S) = 0 <=> S = {}
           /\ \A s \in S : Cardinality(S \ {s}) = Cardinality(S) - 1
           /\ \A s \in Servers \ S : Cardinality(S \union {s}) = Cardinality(S) + 1
<1>1. IsFiniteSet(Servers) /\ Cardinality(Servers) = N
  BY FS_Interval, RunAssumption DEF Servers
<1>2. IsFiniteSet(S) /\ Cardinality(S) <= N /\ (Cardinality(S) = N => S = Servers)
  BY <1>1, FS_Subset
<1>3. Cardinality(S) \in Nat
  BY <1>2, FS_CardinalityType
<1>4. Cardinality(S) = 0 <=> S = {}
  BY <1>2, FS_EmptySet
<1>5. \A s \in S : Cardinality(S \ {s}) = Cardinality(S) - 1
  BY <1>2, FS_RemoveElement
<1>6. \A s \in Servers \ S : Cardinality(S \union {s}) = Cardinality(S) + 1
  BY <1>2, FS_AddElement
<1> QED
  BY <1>2, <1>3, <1>4, <1>5, <1>6

\* A server whose Serve returns is one more that ended, and its result one more
\* in errs.
LEMMA ServeCounts ==
    ASSUME IInv, NEW s \in Servers, NEW result \in {"closed", "crashed"}, Serve(s, result)
    PROVE  Accounting' /\ errs' \subseteq Ended'
<1> USE DEF IInv, Types, Results
<1>1. errs' = errs \union {s} /\ Ended' = Ended \union {s} /\ s \notin errs /\ s \notin Ended
  BY DEF Serve, Ended
<1>2. Cardinality(errs') = Cardinality(errs) + 1
  BY <1>1, Counting
<1>3. Ended \subseteq Servers
  BY DEF Ended
<1>4. Cardinality(Ended') = Cardinality(Ended) + 1
  BY <1>1, <1>3, Counting
<1>5. Cardinality(errs) \in Nat /\ Cardinality(Ended) \in Nat /\ consumed' = consumed
  BY <1>3, Counting DEF Serve
<1> QED
  BY <1>1, <1>2, <1>4, <1>5 DEF Accounting

\* A result that is read leaves errs and is counted.
LEMMA ReadCounts ==
    ASSUME IInv, NEW s \in errs, errs' = errs \ {s}, consumed' = consumed + 1, UNCHANGED serve
    PROVE  Accounting' /\ errs' \subseteq Ended'
<1> USE DEF IInv, Types, Results
<1>1. Cardinality(errs') = Cardinality(errs) - 1 /\ Cardinality(errs) \in Nat
  BY Counting
<1>2. Ended' = Ended /\ Cardinality(Ended) \in Nat
  BY Counting DEF Ended
<1> QED
  BY <1>1, <1>2 DEF Accounting

-----------------------------------------------------------------------------
\* Every action keeps the invariant.
LEMMA Step == IInv /\ [Next]_vars => IInv'
<1> USE RunAssumption
<1> SUFFICES ASSUME IInv, [Next]_vars PROVE IInv'
  OBVIOUS
<1>1. ASSUME Signal PROVE IInv'
  <2>1. Types'
    BY <1>1 DEF IInv, Types, BeforeFirstEvent, Signal
  <2>2. Accounting' /\ errs' \subseteq Ended'
    BY <1>1 DEF IInv, Accounting, Results, Ended, Signal
  <2>3. BeforeFirstEvent'
    BY <1>1 DEF IInv, Types, BeforeFirstEvent, Signal
  <2>4. Results'
    BY <1>1, <2>2 DEF IInv, Types, Results, Signal
  <2>5. TriggerIsACrash'
    BY <1>1 DEF IInv, Types, BeforeFirstEvent, Results, Ended, TriggerIsACrash, Crashed, Signal
  <2>6. ShutdownsPrecedeReturn'
    BY <1>1 DEF IInv, Types, BeforeFirstEvent, ShutdownsPrecedeReturn, Signal
  <2> QED
    BY <2>1, <2>2, <2>3, <2>4, <2>5, <2>6 DEF IInv
<1>2. ASSUME Expire PROVE IInv'
  <2>1. Types'
    BY <1>2 DEF IInv, Types, BeforeFirstEvent, Expire
  <2>2. Accounting' /\ errs' \subseteq Ended'
    BY <1>2 DEF IInv, Accounting, Results, Ended, Expire
  <2>3. BeforeFirstEvent'
    BY <1>2 DEF IInv, Types, BeforeFirstEvent, Expire
  <2>4. Results'
    BY <1>2, <2>2 DEF IInv, Types, Results, Expire
  <2>5. TriggerIsACrash'
    BY <1>2 DEF IInv, Types, BeforeFirstEvent, Results, Ended, TriggerIsACrash, Crashed, Expire
  <2>6. ShutdownsPrecedeReturn'
    BY <1>2 DEF IInv, Types, BeforeFirstEvent, ShutdownsPrecedeReturn, Expire
  <2> QED
    BY <2>1, <2>2, <2>3, <2>4, <2>5, <2>6 DEF IInv
<1>3. ASSUME WakeBySignal PROVE IInv'
  <2>1. Types'
    BY <1>3 DEF IInv, Types, BeforeFirstEvent, WakeBySignal
  <2>2. Accounting' /\ errs' \subseteq Ended'
    BY <1>3 DEF IInv, Accounting, Results, Ended, WakeBySignal
  <2>3. BeforeFirstEvent'
    BY <1>3 DEF IInv, Types, BeforeFirstEvent, WakeBySignal
  <2>4. Results'
    BY <1>3, <2>2 DEF IInv, Types, Results, WakeBySignal
  <2>5. TriggerIsACrash'
    BY <1>3 DEF IInv, Types, BeforeFirstEvent, Results, Ended, TriggerIsACrash, Crashed, WakeBySignal
  <2>6. ShutdownsPrecedeReturn'
    BY <1>3 DEF IInv, Types, BeforeFirstEvent, ShutdownsPrecedeReturn, WakeBySignal
  <2> QED
    BY <2>1, <2>2, <2>3, <2>4, <2>5, <2>6 DEF IInv
<1>4. ASSUME StopWaiting PROVE IInv'
  <2>1. Types'
    BY <1>4 DEF IInv, Types, BeforeFirstEvent, StopWaiting, Drained
  <2>2. Accounting' /\ errs' \subseteq Ended'
    BY <1>4 DEF IInv, Accounting, Results, Ended, StopWaiting, Drained
  <2>3. BeforeFirstEvent'
    BY <1>4 DEF IInv, Types, BeforeFirstEvent, StopWaiting, Drained
  <2>4. Results'
    BY <1>4, <2>2 DEF IInv, Types, Results, StopWaiting, Drained
  <2>5. TriggerIsACrash'
    BY <1>4 DEF IInv, Types, BeforeFirstEvent, Results, Ended, TriggerIsACrash, Crashed, StopWaiting, Drained
  <2>6. ShutdownsPrecedeReturn'
    BY <1>4 DEF IInv, Types, BeforeFirstEvent, ShutdownsPrecedeReturn, StopWaiting, Drained
  <2> QED
    BY <2>1, <2>2, <2>3, <2>4, <2>5, <2>6 DEF IInv
<1>5. ASSUME Return PROVE IInv'
  <2>1. Types'
    BY <1>5 DEF IInv, Types, BeforeFirstEvent, Return
  <2>2. Accounting' /\ errs' \subseteq Ended'
    BY <1>5 DEF IInv, Accounting, Results, Ended, Return
  <2>3. BeforeFirstEvent'
    BY <1>5 DEF IInv, Types, BeforeFirstEvent, Return
  <2>4. Results'
    BY <1>5, <2>2 DEF IInv, Types, Results, Return
  <2>5. TriggerIsACrash'
    BY <1>5 DEF IInv, Types, BeforeFirstEvent, Results, Ended, TriggerIsACrash, Crashed, Return
  <2>6. ShutdownsPrecedeReturn'
    BY <1>5 DEF IInv, Types, BeforeFirstEvent, ShutdownsPrecedeReturn, Return
  <2> QED
    BY <2>1, <2>2, <2>3, <2>4, <2>5, <2>6 DEF IInv
<1>6. ASSUME NEW s \in Servers, Crash(s) PROVE IInv'
  <2>1. Types'
    BY <1>6 DEF IInv, Types, BeforeFirstEvent, Crash, Serve
  <2>2. Accounting' /\ errs' \subseteq Ended'
    BY <1>6, ServeCounts DEF Crash
  <2>3. BeforeFirstEvent'
    BY <1>6 DEF IInv, Types, BeforeFirstEvent, Crash, Serve
  <2>4. Results'
    BY <1>6, <2>2 DEF IInv, Types, Results, Crash, Serve
  <2>5. TriggerIsACrash'
    BY <1>6 DEF IInv, Types, BeforeFirstEvent, Results, Ended, TriggerIsACrash, Crashed, Crash, Serve
  <2>6. ShutdownsPrecedeReturn'
    BY <1>6 DEF IInv, Types, BeforeFirstEvent, ShutdownsPrecedeReturn, Crash, Serve
  <2> QED
    BY <2>1, <2>2, <2>3, <2>4, <2>5, <2>6 DEF IInv
<1>7. ASSUME NEW s \in Servers, Close(s) PROVE IInv'
  <2>1. Types'
    BY <1>7 DEF IInv, Types, BeforeFirstEvent, Close, Serve
  <2>2. Accounting' /\ errs' \subseteq Ended'
    BY <1>7, ServeCounts DEF Close
  <2>3. BeforeFirstEvent'
    BY <1>7 DEF IInv, Types, BeforeFirstEvent, Close, Serve
  <2>4. Results'
    BY <1>7, <2>2 DEF IInv, Types, Results, Close, Serve
  <2>5. TriggerIsACrash'
    BY <1>7 DEF IInv, Types, BeforeFirstEvent, Results, Ended, TriggerIsACrash, Crashed, Close, Serve
  <2>6. ShutdownsPrecedeReturn'
    BY <1>7 DEF IInv, Types, BeforeFirstEvent, ShutdownsPrecedeReturn, Close, Serve
  <2> QED
    BY <2>1, <2>2, <2>3, <2>4, <2>5, <2>6 DEF IInv
<1>8. ASSUME NEW s \in Servers, WakeByServer(s) PROVE IInv'
  <2>1. Types'
    BY <1>8 DEF IInv, Types, BeforeFirstEvent, WakeByServer
  <2>2. Accounting' /\ errs' \subseteq Ended'
    BY <1>8, ReadCounts DEF IInv, Types, BeforeFirstEvent, WakeByServer
  <2>3. BeforeFirstEvent'
    BY <1>8 DEF IInv, Types, BeforeFirstEvent, WakeByServer
  <2>4. Results'
    BY <1>8, <2>2 DEF IInv, Types, Results, WakeByServer
  <2>5. TriggerIsACrash'
    BY <1>8 DEF IInv, Types, BeforeFirstEvent, Results, Ended, TriggerIsACrash, Crashed, WakeByServer
  <2>6. ShutdownsPrecedeReturn'
    BY <1>8 DEF IInv, Types, BeforeFirstEvent, ShutdownsPrecedeReturn, WakeByServer
  <2> QED
    BY <2>1, <2>2, <2>3, <2>4, <2>5, <2>6 DEF IInv
<1>9. ASSUME NEW s \in Servers, Collect(s) PROVE IInv'
  <2>1. Types'
    BY <1>9 DEF IInv, Types, BeforeFirstEvent, Collect
  <2>2. Accounting' /\ errs' \subseteq Ended'
    BY <1>9, ReadCounts DEF IInv, Types, BeforeFirstEvent, Collect
  <2>3. BeforeFirstEvent'
    BY <1>9 DEF IInv, Types, BeforeFirstEvent, Collect
  <2>4. Results'
    BY <1>9, <2>2 DEF IInv, Types, Results, Collect
  <2>5. TriggerIsACrash'
    BY <1>9 DEF IInv, Types, BeforeFirstEvent, Results, Ended, TriggerIsACrash, Crashed, Collect
  <2>6. ShutdownsPrecedeReturn'
    BY <1>9 DEF IInv, Types, BeforeFirstEvent, ShutdownsPrecedeReturn, Collect
  <2> QED
    BY <2>1, <2>2, <2>3, <2>4, <2>5, <2>6 DEF IInv
<1>10. ASSUME NEW s \in Servers, CallShutdown(s) PROVE IInv'
  <2>1. Types'
    BY <1>10 DEF IInv, Types, BeforeFirstEvent, CallShutdown
  <2>2. Accounting' /\ errs' \subseteq Ended'
    BY <1>10 DEF IInv, Accounting, Results, Ended, CallShutdown
  <2>3. BeforeFirstEvent'
    BY <1>10 DEF IInv, Types, BeforeFirstEvent, CallShutdown
  <2>4. Results'
    BY <1>10, <2>2 DEF IInv, Types, Results, CallShutdown
  <2>5. TriggerIsACrash'
    BY <1>10 DEF IInv, Types, BeforeFirstEvent, Results, Ended, TriggerIsACrash, Crashed, CallShutdown
  <2>6. ShutdownsPrecedeReturn'
    BY <1>10 DEF IInv, Types, BeforeFirstEvent, ShutdownsPrecedeReturn, CallShutdown
  <2> QED
    BY <2>1, <2>2, <2>3, <2>4, <2>5, <2>6 DEF IInv
<1>11. ASSUME NEW s \in Servers, ReturnShutdown(s) PROVE IInv'
  <2>1. Types'
    BY <1>11 DEF IInv, Types, BeforeFirstEvent, ReturnShutdown
  <2>2. Accounting' /\ errs' \subseteq Ended'
    BY <1>11 DEF IInv, Accounting, Results, Ended, ReturnShutdown
  <2>3. BeforeFirstEvent'
    BY <1>11 DEF IInv, Types, BeforeFirstEvent, ReturnShutdown
  <2>4. Results'
    BY <1>11, <2>2 DEF IInv, Types, Results, ReturnShutdown
  <2>5. TriggerIsACrash'
    BY <1>11 DEF IInv, Types, BeforeFirstEvent, Results, Ended, TriggerIsACrash, Crashed, ReturnShutdown
  <2>6. ShutdownsPrecedeReturn'
    BY <1>11 DEF IInv, Types, BeforeFirstEvent, ShutdownsPrecedeReturn, ReturnShutdown
  <2> QED
    BY <2>1, <2>2, <2>3, <2>4, <2>5, <2>6 DEF IInv
<1>12. CASE UNCHANGED vars
  BY <1>12 DEF IInv, Types, Accounting, BeforeFirstEvent, Results, Ended, TriggerIsACrash, Crashed, ShutdownsPrecedeReturn, vars
<1> QED
  BY <1>1, <1>2, <1>3, <1>4, <1>5, <1>6, <1>7, <1>8, <1>9, <1>10, <1>11, <1>12 DEF Next

\* The inductive invariant holds in every reachable state.
THEOREM Invariance == Spec => []IInv
<1>1. Init => IInv
  <2> SUFFICES ASSUME Init PROVE IInv
    OBVIOUS
  <2>1. Ended = {} /\ errs = {}
    BY DEF Init, Ended
  <2>2. Accounting
    BY <2>1, FS_EmptySet DEF Accounting, Init
  <2>3. Types
    <3>1. 0 \in 0..N
      BY RunAssumption
    <3> QED
      BY <3>1 DEF Init, Types
  <2>4. BeforeFirstEvent
    BY DEF Init, BeforeFirstEvent
  <2>5. Results /\ TriggerIsACrash /\ ShutdownsPrecedeReturn
    BY <2>1 DEF Init, Results, TriggerIsACrash, ShutdownsPrecedeReturn
  <2> QED
    BY <2>2, <2>3, <2>4, <2>5 DEF IInv
<1> QED
  BY <1>1, Step, PTL DEF Spec

\* The type invariant, with the count of the results.
THEOREM TypeCorrect == Spec => []TypeOK
<1>1. IInv => TypeOK
  BY DEF IInv, Types, Accounting, Ended, TypeOK
<1> QED
  BY <1>1, Invariance, PTL

\* The error Run returns is that of a server that crashed.
THEOREM TriggerCrashed == Spec => []TriggerIsACrash
<1>1. IInv => TriggerIsACrash
  BY DEF IInv
<1> QED
  BY <1>1, Invariance, PTL

\* Run waits for every Shutdown or for the drain deadline.
THEOREM ShutdownsFirst == Spec => []ShutdownsPrecedeReturn
<1>1. IInv => ShutdownsPrecedeReturn
  BY DEF IInv
<1> QED
  BY <1>1, Invariance, PTL

\* When Run has returned every Serve has, and every result was read once: N
\* results were read, so the servers that ended are all of them.
THEOREM NoLeak == Spec => []NothingLeaks
<1>1. IInv => NothingLeaks
  <2> SUFFICES ASSUME IInv, phase = "returned"
               PROVE  errs = {} /\ \A s \in Servers : serve[s] # "serving"
    BY DEF NothingLeaks
  <2>1. consumed = N /\ N \in Nat
    BY RunAssumption DEF IInv, Results
  <2>2. Ended \subseteq Servers /\ errs \subseteq Servers
    BY DEF Ended, IInv, Types
  <2>3. Cardinality(errs) = 0 /\ Cardinality(Ended) = N
    <3>1. Cardinality(errs) \in Nat /\ Cardinality(Ended) \in Nat /\ Cardinality(Ended) <= N
      BY <2>2, Counting
    <3> QED
      BY <2>1, <3>1 DEF IInv, Accounting
  <2>4. errs = {} /\ Ended = Servers
    BY <2>2, <2>3, Counting
  <2> QED
    BY <2>4 DEF Ended
<1> QED
  BY <1>1, Invariance, PTL
=============================================================================
