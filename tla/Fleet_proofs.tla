---------------------------- MODULE Fleet_proofs ----------------------------
(***************************************************************************)
(* Safety of the instance lifecycle for any set of instances, of heartbeat *)
(* RPCs in progress and of evaluators, and for any thresholds.             *)
(***************************************************************************)
EXTENDS Fleet, TLAPS

Judged == {"degraded", "unreachable", "evicted"}

\* What an RPC or a sweep in progress relies on: its instance has a row, and by
\* the time it decides a status that row has been heard of.
WorkInv ==
    /\ \A h \in Handlers : pc[h] # "idle" =>
        inst[h] \in Instances /\ status[inst[h]] # "absent"
    /\ \A h \in Handlers : pc[h] = "apply" => age[inst[h]] # Never
    /\ \A s \in Sweepers, i \in Instances : plan[s][i] # Nothing =>
        plan[s][i] \in Judged /\ status[i] # "absent" /\ age[i] # Never
    /\ \A i \in removing : status[i] # "absent"

Inv == TypeOK /\ WorkInv /\ JudgedByAHeartbeat

\* A sweep decides on degraded, unreachable or evicted, never on healthy.
LEMMA SweepVerdict ==
    ASSUME NEW i \in Instances, TypeOK, Stale(i)
    PROVE  EvaluateStatus(status[i], age[i], FALSE) \in Judged
  BY ThresholdAssumption DEF Stale, TypeOK, EvaluateStatus, Judged, Ages, Status

\* A heartbeat decides on healthy or degraded, or leaves a terminal status.
LEMMA BeatVerdict ==
    ASSUME NEW s \in Status \union {"absent"}, NEW r \in BOOLEAN
    PROVE  EvaluateStatus(s, 0, r) \in
               IF s \in Terminal THEN {s} ELSE {"healthy", "degraded"}
  BY ThresholdAssumption DEF EvaluateStatus

\* Time passes for the last heartbeat without leaving the ages that are told
\* apart.
LEMMA OlderType == ASSUME NEW a \in Ages \union {Never}
                   PROVE  /\ Older(a) \in Ages \union {Never}
                          /\ a \in Ages => Older(a) \in Ages
                          /\ Older(a) = Never <=> a = Never
  BY ThresholdAssumption DEF Older, Ages

\* Every action keeps the invariant.
LEMMA Step ==
    ASSUME Inv, [Next]_vars
    PROVE  Inv'
<1> USE ThresholdAssumption, FleetSentinelAssumption
        DEF Inv, TypeOK, WorkInv, JudgedByAHeartbeat, SetStatus, Status, Terminal, Judged
<1>1. ASSUME NEW i \in Instances, Register(i) PROVE Inv'
  BY <1>1 DEF Register, beats
<1>2. ASSUME NEW i \in Instances, ManualRegister(i) PROVE Inv'
  BY <1>2 DEF ManualRegister, beats
<1>3. ASSUME NEW i \in Instances, Deregister(i) PROVE Inv'
  BY <1>3 DEF Deregister, beats
<1>4. ASSUME NEW i \in Instances, ForceEvict(i) PROVE Inv'
  BY <1>4 DEF ForceEvict, beats
<1>5. ASSUME NEW i \in Instances, ForceRevoke(i) PROVE Inv'
  BY <1>5 DEF ForceRevoke, beats
<1>6. ASSUME NEW i \in Instances, AbandonForceRemove(i) PROVE Inv'
  BY <1>6 DEF AbandonForceRemove, beats
<1>7. ASSUME NEW i \in Instances, Prune(i) PROVE Inv'
  BY <1>7 DEF Prune, beats
<1>8. ASSUME NEW h \in Handlers, NEW i \in Instances, NEW r \in BOOLEAN, AcceptBeat(h, i, r)
      PROVE  Inv'
  BY <1>8 DEF AcceptBeat, Ages
<1>9. ASSUME NEW h \in Handlers, ReadInstance(h) PROVE Inv'
  BY <1>9 DEF ReadInstance
<1>10. ASSUME NEW h \in Handlers, RecordHeartbeat(h) PROVE Inv'
  BY <1>10 DEF RecordHeartbeat, Ages
<1>11. ASSUME NEW h \in Handlers, ApplyBeat(h) PROVE Inv'
  BY <1>11, BeatVerdict DEF ApplyBeat, EndBeat, Ages
<1>12. ASSUME NEW h \in Handlers, FailBeat(h) PROVE Inv'
  BY <1>12 DEF FailBeat, EndBeat, Ages
<1>13. ASSUME NEW s \in Sweepers, ListStale(s) PROVE Inv'
  BY <1>13, SweepVerdict DEF ListStale, Stale, beats
<1>14. ASSUME NEW s \in Sweepers, AbortSweep(s) PROVE Inv'
  BY <1>14 DEF AbortSweep, NoPlan, beats
<1>15. ASSUME NEW s \in Sweepers, NEW i \in Instances, ApplySweep(s, i) PROVE Inv'
  BY <1>15 DEF ApplySweep, beats
<1>16. ASSUME Tick PROVE Inv'
  <2>1. /\ age' \in [Instances -> Ages \union {Never}]
        /\ \A i \in Instances : age'[i] = Never <=> age[i] = Never
    BY <1>16, OlderType DEF Tick
  <2>2. stamp' \in [Handlers -> Ages]
    <3>1. 0 \in Ages
      BY DEF Ages
    <3>2. \A h \in Handlers : Older(stamp[h]) \in Ages
      BY OlderType
    <3> QED
      BY <1>16, <3>1, <3>2 DEF Tick
  <2> QED
    BY <1>16, <2>1, <2>2 DEF Tick
<1>17. CASE UNCHANGED vars
  BY <1>17 DEF vars
<1> HIDE DEF Inv
<1> QED
  BY <1>1, <1>2, <1>3, <1>4, <1>5, <1>6, <1>7, <1>8, <1>9, <1>10, <1>11, <1>12,
     <1>13, <1>14, <1>15, <1>16, <1>17 DEF Next, Beat

\* The invariant of the fleet holds in every state: a pass of the evaluator,
\* heartbeats, registrations and retirements, in any order (Next).
THEOREM Invariance == Spec => []Inv
<1>1. Init => Inv
  BY ThresholdAssumption DEF Init, NoPlan, Inv, TypeOK, WorkInv, JudgedByAHeartbeat, Ages, Status
<1> QED
  BY <1>1, Step, PTL DEF Spec

\* The tables and the state of the requests in progress keep their types, and
\* an absent row has no credential and no heartbeat (the Prune cascade).
THEOREM TypeCorrect == Spec => []TypeOK
  BY Invariance, PTL DEF Inv

\* EvaluateStatus never meets a row without a heartbeat when it decides between
\* healthy, degraded and unreachable (the nil branch of core/status.go).
THEOREM AlwaysJudgedByAHeartbeat == Spec => []JudgedByAHeartbeat
  BY Invariance, PTL DEF Inv

\* What RevivalsRunOut says of a step and an instance that has left.
RunsOut(i) ==
    /\ OldBeats(i)' \subseteq OldBeats(i)
    /\ OldSweeps(i)' \subseteq OldSweeps(i)
    /\ status'[i] \in {"healthy", "degraded", "unreachable"} =>
        OldBeats(i)' # OldBeats(i) \/ OldSweeps(i)' # OldSweeps(i)

\* No step decides anew to write a judgement over a terminal status, and a step
\* that writes one uses up the decision.
LEMMA RunsOutStep ==
    ASSUME Inv, Next, NEW i \in Instances, status[i] \in Terminal
    PROVE  RunsOut(i)
<1> USE DEF Inv, TypeOK, WorkInv, SetStatus, Terminal, RunsOut, OldBeats, OldSweeps
<1>1. ASSUME NEW h \in Handlers, ApplyBeat(h) PROVE RunsOut(i)
  <2>1. OldBeats(i)' \subseteq OldBeats(i) /\ h \notin OldBeats(i)' /\ OldSweeps(i)' = OldSweeps(i)
    BY <1>1 DEF ApplyBeat, EndBeat
  <2>2. status'[i] \in {"healthy", "degraded", "unreachable"} => h \in OldBeats(i)
    BY <1>1, BeatVerdict DEF ApplyBeat
  <2> QED
    BY <2>1, <2>2
<1>2. ASSUME NEW s \in Sweepers, NEW j \in Instances, ApplySweep(s, j) PROVE RunsOut(i)
  <2>1. OldBeats(i)' = OldBeats(i) /\ OldSweeps(i)' \subseteq OldSweeps(i)
    BY <1>2 DEF ApplySweep, beats
  <2>2. CASE j = i
    BY <1>2, <2>1, <2>2 DEF ApplySweep
  <2>3. CASE j # i
    BY <1>2, <2>1, <2>3 DEF ApplySweep
  <2> QED
    BY <2>2, <2>3
<1>3. ASSUME NEW j \in Instances,
             \/ Register(j) \/ ManualRegister(j) \/ Deregister(j) \/ ForceEvict(j)
             \/ ForceRevoke(j) \/ AbandonForceRemove(j) \/ Prune(j)
      PROVE RunsOut(i)
  <2>1. OldBeats(i)' = OldBeats(i) /\ OldSweeps(i)' = OldSweeps(i)
    BY <1>3 DEF Register, ManualRegister, Deregister, ForceEvict, ForceRevoke,
                AbandonForceRemove, Prune, beats
  <2> DEFINE Out == {"registering", "pending", "deregistered", "evicted", "absent"}
  <2>2. status'[i] = status[i] \/ status'[i] \in Out
    BY <1>3 DEF Register, ManualRegister, Deregister, ForceEvict, ForceRevoke,
                AbandonForceRemove, Prune
  <2> QED
    BY <2>1, <2>2
<1>4. ASSUME NEW h \in Handlers, NEW j \in Instances, NEW r \in BOOLEAN, AcceptBeat(h, j, r)
      PROVE  RunsOut(i)
  BY <1>4 DEF AcceptBeat
<1>5. ASSUME NEW h \in Handlers, ReadInstance(h) \/ RecordHeartbeat(h) \/ FailBeat(h)
      PROVE  RunsOut(i)
  BY <1>5 DEF ReadInstance, RecordHeartbeat, FailBeat, EndBeat
<1>6. ASSUME NEW s \in Sweepers, ListStale(s) PROVE RunsOut(i)
  <2>1. OldBeats(i)' = OldBeats(i) /\ status' = status
    BY <1>6 DEF ListStale, beats
  <2>2. \A t \in Sweepers : t # s => plan'[t] = plan[t]
    BY <1>6 DEF ListStale
  <2>3. plan'[s][i] = Nothing
    <3>1. ~Stale(i)
      BY DEF Stale
    <3>2. plan'[s] = [j \in Instances |->
              IF Stale(j) /\ EvaluateStatus(status[j], age[j], FALSE) # status[j]
              THEN EvaluateStatus(status[j], age[j], FALSE) ELSE Nothing]
      BY <1>6 DEF ListStale
    <3> QED
      BY <3>1, <3>2
  <2> QED
    BY <2>1, <2>2, <2>3
<1>7. ASSUME NEW s \in Sweepers, AbortSweep(s) PROVE RunsOut(i)
  BY <1>7 DEF AbortSweep, NoPlan, beats
<1>8. CASE Tick
  BY <1>8 DEF Tick
<1> HIDE DEF Inv, TypeOK, WorkInv, SetStatus, Terminal, RunsOut, OldBeats, OldSweeps
<1> QED
  BY <1>1, <1>2, <1>3, <1>4, <1>5, <1>6, <1>7, <1>8 DEF Next, Beat

\* The writes decided before an instance left only run out, each revives it at
\* most once, and a heartbeat or a sweep begun later adds none (the terminal
\* branch of EvaluateStatus and the WHERE clause of ListStaleInstances).
THEOREM RevivalsAreNumbered == Spec => RevivalsRunOut
<1>1. Inv /\ [Next]_vars => [\A i \in Instances : status[i] \in Terminal => RunsOut(i)]_vars
  BY RunsOutStep
<1> QED
  BY <1>1, Invariance, PTL DEF RevivalsRunOut, RunsOut, Spec
=============================================================================
