-------------------------------- MODULE Fleet --------------------------------
(***************************************************************************)
(* The life of engine instances in argus: registration, the signed         *)
(* heartbeat RPC (argus/internal/transport/grpc/server.go), the evaluator  *)
(* sweep (argus/internal/core/evaluator.go), graceful deregistration, the  *)
(* administrative force-remove (argus/internal/core/admin.go) and the      *)
(* retention prune.                                                        *)
(*                                                                         *)
(* The handlers and the sweeps of all argusd replicas share one database   *)
(* and nothing else.  Each repository call is one statement or one         *)
(* transaction, so one action; a handler keeps what it read in between,    *)
(* and the status it writes is decided from that.  No status write looks   *)
(* at the status it replaces.                                              *)
(*                                                                         *)
(* Time is counted in heartbeat intervals and kept as ages, which stop     *)
(* growing at EvictAfter: nothing tells two older ages apart.              *)
(***************************************************************************)
EXTENDS Naturals

CONSTANTS
    Instances,        \* rows of the instances table, by identity
    Handlers,         \* heartbeat RPCs in progress at once
    Sweepers,         \* evaluator loops, one per argusd replica
    DegradedAfter,    \* 2 missed heartbeats; StaleAfter is the same
    UnreachableAfter, \* 4 missed heartbeats
    EvictAfter,       \* evictAfter, 24h
    Never,            \* last_heartbeat_at IS NULL
    Nobody, Nothing

ASSUME ThresholdAssumption ==
    /\ DegradedAfter \in Nat /\ UnreachableAfter \in Nat /\ EvictAfter \in Nat
    /\ 0 < DegradedAfter
    /\ DegradedAfter < UnreachableAfter
    /\ UnreachableAfter < EvictAfter
    /\ Never \notin Nat

ASSUME FleetSentinelAssumption ==
    Nobody \notin Instances

VARIABLES
    status,     \* status[i]: the status column, "absent" without a row
    age,        \* age[i]: time since last_heartbeat_at
    trusted,    \* trusted[i]: a credential row with revoked_at NULL
    pc,         \* pc[h]: the call heartbeat h makes next
    inst,       \* inst[h]: its instance
    seen,       \* seen[h]: the status it read
    stamp,      \* stamp[h]: time since it took its "now"
    ready,      \* ready[h]: the readiness it reports
    plan,       \* plan[s][i]: the status sweep s is going to write
    removing    \* instances evicted by a force-remove that has not revoked yet

beats == <<pc, inst, seen, stamp, ready>>
vars == <<status, age, trusted, pc, inst, seen, stamp, ready, plan, removing>>

Terminal == {"evicted", "deregistered"}
Status == {"pending", "registering", "healthy", "degraded", "unreachable"}
              \union Terminal
Ages == 0..EvictAfter

TypeOK ==
    /\ status \in [Instances -> Status \union {"absent"}]
    /\ age \in [Instances -> Ages \union {Never}]
    /\ trusted \in [Instances -> BOOLEAN]
    /\ pc \in [Handlers -> {"idle", "read", "record", "apply"}]
    /\ inst \in [Handlers -> Instances \union {Nobody}]
    /\ seen \in [Handlers -> Status \union {"absent"}]
    /\ stamp \in [Handlers -> Ages]
    /\ ready \in [Handlers -> BOOLEAN]
    /\ plan \in [Sweepers -> [Instances -> Status \union {Nothing}]]
    /\ removing \subseteq Instances
    /\ \A i \in Instances : status[i] = "absent" => ~trusted[i] /\ age[i] = Never

NoPlan == [i \in Instances |-> Nothing]

Init ==
    /\ status = [i \in Instances |-> "absent"]
    /\ age = [i \in Instances |-> Never]
    /\ trusted = [i \in Instances |-> FALSE]
    /\ pc = [h \in Handlers |-> "idle"]
    /\ inst = [h \in Handlers |-> Nobody]
    /\ seen = [h \in Handlers |-> "absent"]
    /\ stamp = [h \in Handlers |-> 0]
    /\ ready = [h \in Handlers |-> FALSE]
    /\ plan = [s \in Sweepers |-> NoPlan]
    /\ removing = {}

-----------------------------------------------------------------------------
\* Mutant: terminal statuses are judged by their age like the others.
BugEvaluateStatus(current, a, rdy) ==
    IF a = Never THEN "pending"
    ELSE IF a >= EvictAfter THEN "evicted"
    ELSE IF a >= UnreachableAfter THEN "unreachable"
    ELSE IF a >= DegradedAfter \/ ~rdy THEN "degraded"
    ELSE "healthy"

\* EvaluateStatus: the status of an instance last heard of a intervals ago.
EvaluateStatus(current, a, rdy) ==
    IF current \in Terminal THEN current
    ELSE IF a = Never THEN "pending"
    ELSE IF a >= EvictAfter THEN "evicted"
    ELSE IF a >= UnreachableAfter THEN "unreachable"
    ELSE IF a >= DegradedAfter \/ ~rdy THEN "degraded"
    ELSE "healthy"

\* SetInstanceStatus and SetInstanceStatusWithEvent: an UPDATE by id alone.
SetStatus(i, s) == status' = [status EXCEPT ![i] = s]

-----------------------------------------------------------------------------
(* Registration                                                            *)

\* RegisterInstance: the row is inserted or updated (last_heartbeat_at stays),
\* its status forced to registering and a credential set, in one transaction.
Register(i) ==
    /\ SetStatus(i, "registering")
    /\ trusted' = [trusted EXCEPT ![i] = TRUE]
    /\ UNCHANGED <<age, beats, plan, removing>>

\* handleManualRegister: UpsertInstance inserts a pending row without a
\* credential; a row that exists keeps its status.
ManualRegister(i) ==
    /\ status[i] = "absent"
    /\ SetStatus(i, "pending")
    /\ UNCHANGED <<age, trusted, beats, plan, removing>>

-----------------------------------------------------------------------------
(* The Heartbeat RPC                                                       *)

\* The timestamp and the nonce are accepted and the signature matches the
\* credential read: now is taken here.
AcceptBeat(h, i, r) ==
    /\ pc[h] = "idle" /\ trusted[i]
    /\ pc' = [pc EXCEPT ![h] = "read"]
    /\ inst' = [inst EXCEPT ![h] = i]
    /\ stamp' = [stamp EXCEPT ![h] = 0]
    /\ ready' = [ready EXCEPT ![h] = r]
    /\ UNCHANGED <<status, age, trusted, seen, plan, removing>>

\* The response or the error is sent.
EndBeat(h) ==
    /\ pc' = [pc EXCEPT ![h] = "idle"]
    /\ inst' = [inst EXCEPT ![h] = Nobody]
    /\ seen' = [seen EXCEPT ![h] = "absent"]
    /\ stamp' = [stamp EXCEPT ![h] = 0]
    /\ ready' = [ready EXCEPT ![h] = FALSE]

\* GetInstance.
ReadInstance(h) ==
    /\ pc[h] = "read"
    /\ pc' = [pc EXCEPT ![h] = "record"]
    /\ seen' = [seen EXCEPT ![h] = status[inst[h]]]
    /\ UNCHANGED <<status, age, trusted, inst, stamp, ready, plan, removing>>

\* Mutant: the heartbeat is not recorded.
BugRecordHeartbeat(h) ==
    /\ pc[h] = "record"
    /\ pc' = [pc EXCEPT ![h] = "apply"]
    /\ UNCHANGED <<status, age, trusted, inst, seen, stamp, ready, plan, removing>>

\* RecordHeartbeat: last_heartbeat_at becomes the handler's now, which may be
\* older than what another handler wrote.
RecordHeartbeat(h) ==
    /\ pc[h] = "record"
    /\ age' = [age EXCEPT ![inst[h]] = stamp[h]]
    /\ pc' = [pc EXCEPT ![h] = "apply"]
    /\ UNCHANGED <<status, trusted, inst, seen, stamp, ready, plan, removing>>

\* EvaluateStatus of the status read before; written if it differs from that.
ApplyBeat(h) ==
    /\ pc[h] = "apply"
    /\ LET new == EvaluateStatus(seen[h], 0, ready[h])
       IN IF new = seen[h] THEN UNCHANGED status ELSE SetStatus(inst[h], new)
    /\ EndBeat(h)
    /\ UNCHANGED <<age, trusted, plan, removing>>

\* A repository call fails, or argusd dies: what was written stays written.
FailBeat(h) ==
    /\ pc[h] # "idle"
    /\ EndBeat(h)
    /\ UNCHANGED <<status, age, trusted, plan, removing>>

-----------------------------------------------------------------------------
(* The evaluator sweep                                                     *)

\* Mutant: the query names the statuses it wants and forgets degraded.
BugStale(i) == status[i] \in {"registering", "healthy"} /\ age[i] # Never /\ age[i] > DegradedAfter

\* ListStaleInstances: not terminal, heard of once, not within StaleAfter.
Stale(i) ==
    /\ status[i] \notin Terminal \union {"absent"}
    /\ age[i] # Never /\ age[i] > DegradedAfter

\* The sweep takes its now, lists the stale instances and decides for each.
ListStale(s) ==
    /\ plan[s] = NoPlan
    /\ plan' = [plan EXCEPT ![s] =
            [i \in Instances |->
                LET new == EvaluateStatus(status[i], age[i], FALSE)
                IN IF Stale(i) /\ new # status[i] THEN new ELSE Nothing]]
    /\ UNCHANGED <<status, age, trusted, beats, removing>>

\* It writes its decisions one after the other.
ApplySweep(s, i) ==
    /\ plan[s][i] # Nothing
    /\ SetStatus(i, plan[s][i])
    /\ plan' = [plan EXCEPT ![s][i] = Nothing]
    /\ UNCHANGED <<age, trusted, beats, removing>>

\* A write fails, or argusd dies: the rest of this sweep is dropped.
AbortSweep(s) ==
    /\ plan[s] # NoPlan
    /\ plan' = [plan EXCEPT ![s] = NoPlan]
    /\ UNCHANGED <<status, age, trusted, beats, removing>>

-----------------------------------------------------------------------------
(* Leaving the fleet                                                       *)

\* Deregister: the credential stays valid.
Deregister(i) ==
    /\ status[i] # "absent"
    /\ SetStatus(i, "deregistered")
    /\ UNCHANGED <<age, trusted, beats, plan, removing>>

\* ForceRemoveInstance, first transaction.
ForceEvict(i) ==
    /\ status[i] # "absent"
    /\ SetStatus(i, "evicted")
    /\ removing' = removing \union {i}
    /\ UNCHANGED <<age, trusted, beats, plan>>

\* ForceRemoveInstance, second transaction.
ForceRevoke(i) ==
    /\ i \in removing
    /\ trusted' = [trusted EXCEPT ![i] = FALSE]
    /\ removing' = removing \ {i}
    /\ UNCHANGED <<status, age, beats, plan>>

\* argusd dies or the call fails between the two.
AbandonForceRemove(i) ==
    /\ i \in removing
    /\ removing' = removing \ {i}
    /\ UNCHANGED <<status, age, trusted, beats, plan>>

\* Mutant: the credential outlives the row (no ON DELETE CASCADE).
BugPrune(i) ==
    /\ status[i] = "evicted"
    /\ \A h \in Handlers : inst[h] # i
    /\ \A s \in Sweepers : plan[s][i] = Nothing
    /\ i \notin removing
    /\ SetStatus(i, "absent")
    /\ age' = [age EXCEPT ![i] = Never]
    /\ UNCHANGED <<trusted, beats, plan, removing>>

\* PruneOlderThan deletes an instance evicted longer ago than any request
\* lives (30 days against the 30 seconds of a request).
Prune(i) ==
    /\ status[i] = "evicted"
    /\ \A h \in Handlers : inst[h] # i
    /\ \A s \in Sweepers : plan[s][i] = Nothing
    /\ i \notin removing
    /\ SetStatus(i, "absent")
    /\ age' = [age EXCEPT ![i] = Never]
    /\ trusted' = [trusted EXCEPT ![i] = FALSE]
    /\ UNCHANGED <<beats, plan, removing>>

Older(a) == IF a = Never \/ a = EvictAfter THEN a ELSE a + 1

\* One heartbeat interval passes.
Tick ==
    /\ age' = [i \in Instances |-> Older(age[i])]
    /\ stamp' = [h \in Handlers |-> IF pc[h] = "idle" THEN 0 ELSE Older(stamp[h])]
    /\ UNCHANGED <<status, trusted, pc, inst, seen, ready, plan, removing>>

-----------------------------------------------------------------------------
Beat(h) == ReadInstance(h) \/ RecordHeartbeat(h) \/ ApplyBeat(h)

Next ==
    \/ \E i \in Instances :
        \/ Register(i) \/ ManualRegister(i) \/ Deregister(i)
        \/ ForceEvict(i) \/ ForceRevoke(i) \/ AbandonForceRemove(i) \/ Prune(i)
    \/ \E h \in Handlers, i \in Instances, r \in BOOLEAN : AcceptBeat(h, i, r)
    \/ \E h \in Handlers : Beat(h) \/ FailBeat(h)
    \/ \E s \in Sweepers : ListStale(s) \/ AbortSweep(s)
    \/ \E s \in Sweepers, i \in Instances : ApplySweep(s, i)
    \/ Tick

Spec == Init /\ [][Next]_vars

\* Time passes, an RPC ends, the ticker of a live argusd starts the next sweep,
\* and the database does not fail every sweep before it gets to an instance.
Fairness ==
    /\ WF_vars(Tick)
    /\ \A h \in Handlers : WF_vars(Beat(h))
    /\ \A s \in Sweepers : WF_vars(ListStale(s))
    /\ \A s \in Sweepers, i \in Instances : SF_vars(ApplySweep(s, i))

FairSpec == Spec /\ Fairness

-----------------------------------------------------------------------------
(* Properties                                                              *)

\* An instance is called healthy, degraded or unreachable only when argus has
\* a heartbeat to judge it by, also after a re-registration or a prune.
JudgedByAHeartbeat ==
    \A i \in Instances :
        status[i] \in {"healthy", "degraded", "unreachable"} => age[i] # Never

\* What can still write a status of i that was decided before i left: the RPCs
\* that read i while it was in the fleet, and what the sweeps have yet to write.
OldBeats(i) == {h \in Handlers :
    pc[h] \in {"record", "apply"} /\ inst[h] = i /\ seen[h] \notin Terminal}
OldSweeps(i) == {s \in Sweepers : plan[s][i] # Nothing}

\* Once an instance is evicted or deregistered nothing begun from then on brings
\* it back: what was begun before only runs out, and each of its revivals uses
\* up one of these.  So the heartbeats of an instance that left, or that was
\* evicted and not revoked, are in vain however long its credential lasts.  This
\* is as far as core/status.go:36-38 ("the sweep must never resurrect or re-evict
\* a terminal instance just because time passed") is true: a sweep or an RPC in
\* progress does bring one back, once.
RevivalsRunOut ==
    [][\A i \in Instances : status[i] \in Terminal =>
        /\ OldBeats(i)' \subseteq OldBeats(i)
        /\ OldSweeps(i)' \subseteq OldSweeps(i)
        /\ status'[i] \in {"healthy", "degraded", "unreachable"} =>
            OldBeats(i)' # OldBeats(i) \/ OldSweeps(i)' # OldSweeps(i)]_vars

\* An instance that falls silent does not stay healthy, and leaves the fleet
\* once it has been silent for EvictAfter (the evaluator's comment: "instances
\* that stop heartbeating must decay even if no one is actively querying them").
SilentInstanceDecays ==
    \A i \in Instances :
        /\ age[i] \in {a \in Ages : a > DegradedAfter}
             ~> (age[i] \in 0..DegradedAfter \/ status[i] # "healthy")
        /\ age[i] = EvictAfter ~> (age[i] # EvictAfter \/ status[i] \in Terminal)

\* A force-removed instance ends up out of the fleet for good, whatever
\* heartbeats and sweeps were in progress, unless it registers again.
ForceRemovedStaysOut ==
    \A i \in Instances :
        <>[](~trusted[i] /\ age[i] # Never) => <>[](status[i] \in Terminal)

=============================================================================
