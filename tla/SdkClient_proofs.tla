-------------------------- MODULE SdkClient_proofs --------------------------
(***************************************************************************)
(* Proofs about the TypeScript SDK for any subjects, times, retries, calls *)
(* and changes.  What the three properties need of the calls in flight is  *)
(* separate, so that each has an invariant of its own beside the types:    *)
(* how old a decision may be, whose decision the hook waits for, and how   *)
(* often a write can have been carried out.                                *)
(***************************************************************************)
EXTENDS SdkClient, SequenceTheorems, TLAPS

Sessions == {{}} \cup {{s} : s \in Subjects}
Decisions == [allowed : BOOLEAN, age : 0..Old]
Entries == [allowed : BOOLEAN, age : 0..Old, stored : 0..Old]
Calls ==
  [op : {"whoami", "check", "write", "logout"}, of : SUBSET (Subjects \cup Nat),
   hooked : BOOLEAN, retry : BOOLEAN, attempt : Nat,
   stage : {"waiting", "sent", "served"}, elapsed : 0..timeoutMs,
   answer : SUBSET (Decisions \cup Subjects)]

Hooks ==
  [allowed : BOOLEAN, checking : BOOLEAN, of : SUBSET (Subjects \cup Nat), session : Sessions]

\* What an answer is depends on the operation.
Answered(c) ==
  /\ c.stage = "waiting" => c.answer = {}
  /\ c.op = "whoami" => c.answer \in Sessions
  /\ c.op = "check" => c.answer \subseteq Decisions /\ \E s \in Subjects : c.of = {s}

Types ==
  /\ engine \in [session : Sessions, allowed : [Subjects -> BOOLEAN], writes : Seq(Nat)]
  /\ cache \in [Subjects -> SUBSET Entries]
  /\ calls \in Seq(Calls)
  /\ \A i \in DOMAIN calls : Answered(calls[i])
  /\ provider \in [session : Sessions, loading : BOOLEAN]
  /\ hook \in Hooks
  /\ returned \subseteq Decisions

\* A decision is no older than the attempt that fetched it, and in the cache no
\* older than that and its time there.
Young(c) == c.op = "check" => \A d \in c.answer : d.age <= c.elapsed
Recent ==
  /\ \A i \in DOMAIN calls : Young(calls[i])
  /\ \A s \in Subjects : \A e \in cache[s] : e.age <= e.stored + timeoutMs
  /\ DecisionsAreRecent

\* The hook waits for decisions about the session its effect ran for, and for no
\* others, whatever the provider's session has become since.
Awaited(c, session) == c.hooked => c.op = "check" /\ c.of = session
Heeds(h) == ~h.checking /\ h.allowed => h.of = h.session
Heeded ==
  /\ \A i \in DOMAIN calls : Awaited(calls[i], hook.session)
  /\ Heeds(hook)

\* A write has one call, which is attempted once, and is done when it is served.
Writes(c) == c.op = "write"
Undone(c, writes) ==
  /\ ~c.retry
  /\ \E w \in DOMAIN writes : c.of = {w} /\ (c.stage # "served" => writes[w] = 0)
Single(cs) ==
  \A i, j \in DOMAIN cs : Writes(cs[i]) /\ Writes(cs[j]) /\ cs[i].of = cs[j].of => i = j
Once ==
  /\ \A i \in DOMAIN calls : Writes(calls[i]) => Undone(calls[i], engine.writes)
  /\ Single(calls)
  /\ WritesAreDoneOnce

-----------------------------------------------------------------------------
\* A sequence without its i-th element.
LEMMA Removed ==
  ASSUME NEW S, NEW s \in Seq(S), NEW i \in DOMAIN s
  PROVE  /\ RemoveAt(s, i) \in Seq(S)
         /\ DOMAIN RemoveAt(s, i) = 1..(Len(s) - 1)
         /\ \A j \in 1..(Len(s) - 1) :
              RemoveAt(s, i)[j] = s[IF j < i THEN j ELSE j + 1]
<1> DEFINE a == SubSeq(s, 1, i - 1)
           b == SubSeq(s, i + 1, Len(s))
<1>1. Len(s) \in Nat /\ i \in 1..Len(s)
  BY LenProperties
<1>2. /\ a \in Seq(S) /\ Len(a) = i - 1
      /\ \A j \in 1..(i - 1) : a[j] = s[j]
  BY <1>1, SubSeqProperties, SMTT(20)
<1>3. /\ b \in Seq(S) /\ Len(b) = Len(s) - i
      /\ \A j \in 1..(Len(s) - i) : b[j] = s[i + j]
  BY <1>1, SubSeqProperties, SMTT(20)
<1>4. /\ a \o b \in Seq(S) /\ Len(a \o b) = Len(a) + Len(b)
      /\ \A j \in 1..(Len(a) + Len(b)) :
           (a \o b)[j] = IF j <= Len(a) THEN a[j] ELSE b[j - Len(a)]
  BY <1>2, <1>3, ConcatProperties
<1> HIDE DEF a, b
<1>5. DOMAIN (a \o b) = 1..(Len(s) - 1)
  BY <1>1, <1>2, <1>3, <1>4, LenProperties
<1>6. ASSUME NEW j \in 1..(Len(s) - 1)
      PROVE  (a \o b)[j] = s[IF j < i THEN j ELSE j + 1]
  <2>1. CASE j < i
    <3>1. j \in 1..(i - 1) /\ j \in 1..(Len(a) + Len(b)) /\ j <= Len(a)
      BY <1>1, <1>2, <1>3, <2>1
    <3> QED
      BY <1>2, <1>4, <2>1, <3>1
  <2>2. CASE ~(j < i)
    <3>0. /\ Len(s) \in Nat /\ i \in 1..Len(s) /\ j \in 1..(Len(s) - 1)
          /\ Len(a) = i - 1 /\ Len(b) = Len(s) - i
      BY <1>1, <1>2, <1>3, <1>6
    <3>1. j - Len(a) \in 1..(Len(s) - i) /\ j \in 1..(Len(a) + Len(b)) /\ ~(j <= Len(a))
      BY <2>2, <3>0, SMTT(20)
    <3>2. (a \o b)[j] = b[j - Len(a)] /\ b[j - Len(a)] = s[i + (j - Len(a))]
      BY <1>3, <1>4, <3>1
    <3>3. i + (j - Len(a)) = j + 1
      BY <1>1, <1>2
    <3> QED
      BY <2>2, <3>2, <3>3
  <2> QED
    BY <2>1, <2>2
<1> QED
  BY <1>4, <1>5, <1>6 DEF RemoveAt, a, b

\* What is left was there before, in another place than the i-th.
LEMMA Kept ==
  ASSUME NEW S, NEW s \in Seq(S), NEW i \in DOMAIN s, NEW j \in DOMAIN RemoveAt(s, i)
  PROVE  \E k \in DOMAIN s : k # i /\ RemoveAt(s, i)[j] = s[k]
<1>1. Len(s) \in Nat /\ i \in 1..Len(s) /\ DOMAIN s = 1..Len(s)
  BY LenProperties
<1>2. j \in 1..(Len(s) - 1) /\ RemoveAt(s, i)[j] = s[IF j < i THEN j ELSE j + 1]
  BY Removed
<1> QED
  BY <1>1, <1>2

-----------------------------------------------------------------------------
\* A call before its first attempt is a call, and has no answer yet.
LEMMA NewCall ==
  ASSUME NEW op \in {"whoami", "check", "write", "logout"}, NEW of \in SUBSET (Subjects \cup Nat),
         NEW hooked \in BOOLEAN, op = "check" => \E s \in Subjects : of = {s}
  PROVE  Call(op, of, hooked) \in Calls /\ Answered(Call(op, of, hooked))
<1>1. 0 \in 0..timeoutMs
  BY SdkAssumption
<1> QED
  BY <1>1 DEF Call, Calls, Answered, Sessions

\* The hook's flag is no part of what a call is answered with.
LEMMA UnhookedType ==
  ASSUME NEW cs \in Seq(Calls)
  PROVE  /\ Unhooked(cs) \in Seq(Calls) /\ DOMAIN Unhooked(cs) = DOMAIN cs
         /\ \A i \in DOMAIN cs :
              /\ ~Unhooked(cs)[i].hooked
              /\ Unhooked(cs)[i].op = cs[i].op /\ Unhooked(cs)[i].of = cs[i].of
              /\ Unhooked(cs)[i].retry = cs[i].retry /\ Unhooked(cs)[i].stage = cs[i].stage
              /\ Unhooked(cs)[i].answer = cs[i].answer
              /\ Unhooked(cs)[i].elapsed = cs[i].elapsed
<1> DEFINE e(i) == [cs[i] EXCEPT !.hooked = FALSE]
<1>1. Len(cs) \in Nat /\ DOMAIN cs = 1..Len(cs)
  BY LenProperties
<1>2. \A i \in 1..Len(cs) : cs[i] \in Calls
  BY <1>1, ElementOfSeq
<1>3. \A i \in 1..Len(cs) : e(i) \in Calls
  BY <1>2 DEF Calls
<1>4. [i \in 1..Len(cs) |-> e(i)] \in Seq(Calls)
  BY <1>1, <1>3, IsASeq
<1> QED
  BY <1>1, <1>2, <1>4 DEF Unhooked, Calls

\* What check() leaves behind, from the cache or by a new call.
LEMMA CheckType ==
  Types =>
    \A s \in Subjects, hooked \in BOOLEAN, others \in Seq(Calls), h \in Hooks :
      check(s, hooked, others, h) /\ (\A i \in DOMAIN others : Answered(others[i])) =>
        /\ calls' \in Seq(Calls) /\ \A i \in DOMAIN calls' : Answered(calls'[i])
        /\ hook' \in Hooks /\ returned' \subseteq Decisions
<1> SUFFICES ASSUME Types, NEW s \in Subjects, NEW hooked \in BOOLEAN, NEW others \in Seq(Calls),
                    NEW h \in Hooks, check(s, hooked, others, h),
                    \A i \in DOMAIN others : Answered(others[i])
             PROVE  /\ calls' \in Seq(Calls) /\ \A i \in DOMAIN calls' : Answered(calls'[i])
                    /\ hook' \in Hooks /\ returned' \subseteq Decisions
  OBVIOUS
<1>1. CASE \E e \in Cached(s) :
             /\ returned' = {[allowed |-> e.allowed, age |-> e.age]}
             /\ hook' = IF hooked THEN Told(h, {s}, e) ELSE h
             /\ calls' = others
  <2>1. PICK e \in Cached(s) :
             /\ returned' = {[allowed |-> e.allowed, age |-> e.age]}
             /\ hook' = IF hooked THEN Told(h, {s}, e) ELSE h
             /\ calls' = others
    BY <1>1
  <2>2. e \in Entries
    BY <2>1 DEF Types, Cached
  <2>3. Told(h, {s}, e) \in Hooks
    BY <2>2 DEF Told, Hooks, Entries
  <2> QED
    BY <2>1, <2>2, <2>3 DEF Entries, Decisions
<1>2. CASE /\ Cached(s) = {}
           /\ calls' = Append(others, Call("check", {s}, hooked))
           /\ hook' = h
           /\ UNCHANGED returned
  <2>1. Call("check", {s}, hooked) \in Calls /\ Answered(Call("check", {s}, hooked))
    BY NewCall
  <2>2. calls' \in Seq(Calls)
    BY <1>2, <2>1
  <2>3. \A i \in DOMAIN calls' : Answered(calls'[i])
    BY <1>2, <2>1
  <2> QED
    BY <1>2, <2>2, <2>3 DEF Types
<1> QED
  BY <1>1, <1>2 DEF check

\* The hook while it asks about a subject.
LEMMA Asking ==
  ASSUME Types, NEW s \in Subjects
  PROVE  /\ [hook EXCEPT !.checking = TRUE, !.session = {s}] \in Hooks
         /\ [hook EXCEPT !.checking = TRUE, !.session = {s}].checking
         /\ [hook EXCEPT !.checking = TRUE, !.session = {s}].session = {s}
BY DEF Types, Hooks, Sessions

\* The effect of the hook, for the session that the provider has come to.
LEMMA HookType ==
  Types /\ usePermission =>
    /\ calls' \in Seq(Calls) /\ \A i \in DOMAIN calls' : Answered(calls'[i])
    /\ hook' \in Hooks /\ returned' \subseteq Decisions
<1> SUFFICES ASSUME Types, usePermission
             PROVE  /\ calls' \in Seq(Calls) /\ \A i \in DOMAIN calls' : Answered(calls'[i])
                    /\ hook' \in Hooks /\ returned' \subseteq Decisions
  OBVIOUS
<1>0. calls \in Seq(Calls) /\ \A i \in DOMAIN calls : Answered(calls[i])
  BY DEF Types
<1>1. /\ Unhooked(calls) \in Seq(Calls)
      /\ \A i \in DOMAIN Unhooked(calls) : Answered(Unhooked(calls)[i])
  BY <1>0, UnhookedType DEF Answered
<1>2. CASE /\ calls' = Unhooked(calls)
           /\ hook' = [hook EXCEPT !.allowed = FALSE, !.checking = FALSE, !.session = {}]
           /\ UNCHANGED returned
  <2>1. {} \in Sessions
    BY DEF Sessions
  <2> QED
    BY <1>1, <1>2, <2>1 DEF Types, Hooks
<1>3. CASE \E s \in provider.session :
             check(s, TRUE, Unhooked(calls), [hook EXCEPT !.checking = TRUE, !.session = {s}])
  <2>1. PICK s \in provider.session :
             check(s, TRUE, Unhooked(calls), [hook EXCEPT !.checking = TRUE, !.session = {s}])
    BY <1>3
  <2>2. s \in Subjects
    BY <2>1 DEF Sessions, Types
  <2> QED
    BY <1>1, <2>1, <2>2, Asking, CheckType
<1> QED
  BY <1>2, <1>3 DEF usePermission

\* The types are inductive by themselves.
LEMMA TypeStep == Types /\ [Next]_vars => Types'
<1> SUFFICES ASSUME Types, [Next]_vars PROVE Types'
  OBVIOUS
<1> USE SdkAssumption
<1>1. /\ 0 \in 0..timeoutMs /\ 0 \in 0..Old /\ {} \in Sessions
      /\ \A n \in 0..Old : Older(n) \in 0..Old
  BY DEF Old, Older, Sessions
<1>2. /\ calls \in Seq(Calls) /\ Len(calls) \in Nat /\ DOMAIN calls = 1..Len(calls)
      /\ \A i \in DOMAIN calls : calls[i] \in Calls
  BY LenProperties, ElementOfSeq DEF Types
<1>3. \A i \in DOMAIN calls : Answered(calls[i])
  BY DEF Types
<1>4. \A c \in Calls : Answered(c) =>
        /\ Append(calls, c) \in Seq(Calls)
        /\ \A i \in DOMAIN Append(calls, c) : Answered(Append(calls, c)[i])
  BY <1>2, <1>3
<1>5. ASSUME NEW i \in DOMAIN calls
      PROVE  /\ RemoveAt(calls, i) \in Seq(Calls)
             /\ \A j \in DOMAIN RemoveAt(calls, i) : Answered(RemoveAt(calls, i)[j])
  <2>1. RemoveAt(calls, i) \in Seq(Calls)
    BY <1>2, Removed
  <2>2. ASSUME NEW j \in DOMAIN RemoveAt(calls, i) PROVE Answered(RemoveAt(calls, i)[j])
    <3>1. PICK k \in DOMAIN calls : RemoveAt(calls, i)[j] = calls[k]
      BY <1>2, Kept
    <3> QED
      BY <1>3, <3>1
  <2> QED
    BY <2>1, <2>2
<1>6. ASSUME NEW i \in DOMAIN calls, NEW c \in Calls, Answered(c)
      PROVE  /\ [calls EXCEPT ![i] = c] \in Seq(Calls)
             /\ \A j \in DOMAIN [calls EXCEPT ![i] = c] : Answered([calls EXCEPT ![i] = c][j])
  BY <1>2, <1>3, <1>6, ExceptSeq
<1>7. CASE refreshSession
  <2>1. Call("whoami", {}, FALSE) \in Calls /\ Answered(Call("whoami", {}, FALSE))
    BY NewCall
  <2>2. /\ calls' = Append(calls, Call("whoami", {}, FALSE))
        /\ provider' = [provider EXCEPT !.loading = TRUE]
        /\ UNCHANGED <<engine, cache, hook, returned>>
    BY <1>7 DEF refreshSession
  <2>3. calls' \in Seq(Calls) /\ \A i \in DOMAIN calls' : Answered(calls'[i])
    BY <1>4, <2>1, <2>2
  <2> QED
    BY <2>2, <2>3 DEF Types
<1>8. CASE Check
  <2>1. PICK s \in Subjects : check(s, FALSE, calls, hook)
    BY <1>8 DEF Check
  <2>2. /\ calls' \in Seq(Calls) /\ \A i \in DOMAIN calls' : Answered(calls'[i])
        /\ hook' \in Hooks /\ returned' \subseteq Decisions
    BY <2>1, CheckType DEF Types
  <2> QED
    BY <1>8, <2>2 DEF Check, Types
<1>9. CASE Write
  <2>1. Len(engine.writes) + 1 \in Nat /\ engine.writes \in Seq(Nat)
    BY LenProperties DEF Types
  <2> DEFINE c == Call("write", {Len(engine.writes) + 1}, FALSE)
  <2>2. c \in Calls /\ Answered(c)
    BY <2>1, NewCall
  <2>3. Append(engine.writes, 0) \in Seq(Nat)
    BY <2>1
  <2>4. /\ calls' = Append(calls, c)
        /\ engine' = [engine EXCEPT !.writes = Append(@, 0)]
        /\ UNCHANGED <<cache, provider, hook, returned>>
    BY <1>9 DEF Write
  <2> HIDE DEF c
  <2>5. calls' \in Seq(Calls) /\ \A i \in DOMAIN calls' : Answered(calls'[i])
    BY <1>4, <2>2, <2>4
  <2> QED
    BY <2>3, <2>4, <2>5 DEF Types
<1>10. CASE logout
  <2>1. Call("logout", {}, FALSE) \in Calls /\ Answered(Call("logout", {}, FALSE))
    BY NewCall
  <2>2. /\ calls' = Append(calls, Call("logout", {}, FALSE))
        /\ UNCHANGED <<engine, cache, provider, hook, returned>>
    BY <1>10 DEF logout
  <2>3. calls' \in Seq(Calls) /\ \A i \in DOMAIN calls' : Answered(calls'[i])
    BY <1>4, <2>1, <2>2
  <2> QED
    BY <2>2, <2>3 DEF Types
<1>11. CASE Elsewhere
  <2>1. UNCHANGED <<cache, calls, provider, hook, returned>>
    BY <1>11 DEF Elsewhere
  <2>2. CASE \E S \in Sessions : engine' = [engine EXCEPT !.session = S]
    BY <2>1, <2>2 DEF Types
  <2>3. CASE \E s \in Subjects : engine' = [engine EXCEPT !.allowed[s] = ~@]
    <3>1. PICK s \in Subjects : engine' = [engine EXCEPT !.allowed[s] = ~@]
      BY <2>3
    <3>2. [engine.allowed EXCEPT ![s] = ~@] \in [Subjects -> BOOLEAN]
      BY DEF Types
    <3>3. engine' = [engine EXCEPT !.allowed = [engine.allowed EXCEPT ![s] = ~@]]
      BY <3>1 DEF Types
    <3> QED
      BY <2>1, <3>2, <3>3 DEF Types
  <2> QED
    BY <1>11, <2>2, <2>3 DEF Elsewhere, Sessions
<1>12. CASE Tick
  <2>1. \A d \in Decisions : Aged(d) \in Decisions
    BY <1>1 DEF Aged, Decisions
  <2>2. \A d \in Entries : [Aged(d) EXCEPT !.stored = Older(@)] \in Entries
    BY <1>1 DEF Aged, Entries
  <2>3. cache' \in [Subjects -> SUBSET Entries]
    <3>1. cache' = [s \in Subjects |-> {[Aged(e) EXCEPT !.stored = Older(@)] : e \in cache[s]}]
      BY <1>12 DEF Tick
    <3>2. \A s \in Subjects : cache[s] \subseteq Entries
      BY DEF Types
    <3> QED
      BY <2>2, <3>1, <3>2
  <2> DEFINE t(i) == [calls[i] EXCEPT
                        !.elapsed = IF calls[i].stage = "waiting" THEN 0 ELSE @ + 1,
                        !.answer = IF calls[i].op = "check" THEN {Aged(d) : d \in @} ELSE @]
  <2>4. calls' = [i \in DOMAIN calls |-> t(i)]
    BY <1>12 DEF Tick
  <2>5. ASSUME NEW i \in DOMAIN calls PROVE t(i) \in Calls /\ Answered(t(i))
    <3>1. calls[i] \in Calls /\ Answered(calls[i])
      BY <1>2, <1>3
    <3>2. calls[i].stage # "waiting" => calls[i].elapsed + 1 \in 0..timeoutMs
      <4>1. calls[i].stage # "waiting" => calls[i].elapsed < timeoutMs
        BY <1>12 DEF Tick
      <4>2. calls[i].elapsed \in 0..timeoutMs /\ timeoutMs \in Nat
        BY <3>1 DEF Calls
      <4> QED
        BY <4>1, <4>2
    <3>3. calls[i].op = "check" =>
            /\ {Aged(d) : d \in calls[i].answer} \subseteq Decisions
            /\ calls[i].answer = {} => {Aged(d) : d \in calls[i].answer} = {}
      BY <2>1, <3>1 DEF Answered
    <3>4. t(i) \in Calls
      BY <1>1, <3>1, <3>2, <3>3 DEF Calls
    <3>5. /\ t(i).stage = calls[i].stage /\ t(i).op = calls[i].op /\ t(i).of = calls[i].of
          /\ t(i).answer = IF calls[i].op = "check" THEN {Aged(d) : d \in calls[i].answer}
                           ELSE calls[i].answer
      BY <3>1 DEF Calls
    <3> HIDE DEF t
    <3>6. Answered(t(i))
      BY <3>1, <3>3, <3>5 DEF Answered
    <3> QED
      BY <3>4, <3>6
  <2> HIDE DEF t
  <2>6. calls' \in Seq(Calls)
    BY <1>2, <2>4, <2>5, IsASeq
  <2>7. \A i \in DOMAIN calls' : Answered(calls'[i])
    BY <2>4, <2>5
  <2> QED
    BY <1>12, <2>3, <2>6, <2>7 DEF Tick, Types
<1>13. ASSUME NEW i \in DOMAIN calls, Attempt(i) PROVE Types'
  <2> DEFINE c == [calls[i] EXCEPT !.stage = "sent", !.elapsed = 0]
  <2>1. calls[i] \in Calls /\ Answered(calls[i])
    BY <1>2, <1>3
  <2>2. c \in Calls /\ Answered(c)
    BY <1>1, <1>13, <2>1 DEF Attempt, Calls, Answered
  <2>3. calls' = [calls EXCEPT ![i] = c]
    BY <1>2, <1>13, <2>1 DEF Attempt, Calls
  <2> HIDE DEF c
  <2>4. calls' \in Seq(Calls) /\ \A j \in DOMAIN calls' : Answered(calls'[j])
    BY <1>6, <2>2, <2>3
  <2> QED
    BY <1>13, <2>4 DEF Attempt, Types
<1>14. ASSUME NEW i \in DOMAIN calls
       PROVE  Done(calls[i]) \in [session : Sessions, allowed : [Subjects -> BOOLEAN],
                                  writes : Seq(Nat)]
  <2>1. CASE calls[i].op = "write"
    <3> DEFINE n(w) == IF w \in calls[i].of THEN engine.writes[w] + 1 ELSE engine.writes[w]
    <3>1. engine.writes \in Seq(Nat) /\ DOMAIN engine.writes = 1..Len(engine.writes)
          /\ Len(engine.writes) \in Nat
      BY LenProperties DEF Types
    <3>2. \A w \in 1..Len(engine.writes) : n(w) \in Nat
      BY <3>1, ElementOfSeq
    <3>3. [w \in 1..Len(engine.writes) |-> n(w)] \in Seq(Nat)
      BY <3>1, <3>2, IsASeq
    <3>4. Done(calls[i]) = [engine EXCEPT !.writes = [w \in 1..Len(engine.writes) |-> n(w)]]
      BY <2>1, <3>1 DEF Done
    <3> HIDE DEF n
    <3> QED
      BY <3>3, <3>4 DEF Types
  <2>2. CASE calls[i].op # "write"
    BY <1>1, <2>2 DEF Done, Types
  <2> QED
    BY <2>1, <2>2
<1>15. ASSUME NEW i \in DOMAIN calls, Serve(i) PROVE Types'
  <2> DEFINE c == [calls[i] EXCEPT !.stage = "served", !.answer = Says(calls[i])]
  <2>1. calls[i] \in Calls /\ Answered(calls[i])
    BY <1>2, <1>3
  <2>2. /\ calls[i].op = "whoami" => Says(calls[i]) \in Sessions
        /\ calls[i].op = "check" => Says(calls[i]) \subseteq Decisions
        /\ calls[i].op \notin {"whoami", "check"} => Says(calls[i]) = {}
    <3>1. CASE calls[i].op = "whoami"
      BY <3>1 DEF Says, Types
    <3>2. CASE calls[i].op = "check"
      <4> DEFINE b == \A s \in calls[i].of : engine.allowed[s]
      <4>1. Says(calls[i]) = {[allowed |-> b, age |-> 0]}
        BY <3>2 DEF Says
      <4>2. b \in BOOLEAN
        OBVIOUS
      <4> HIDE DEF b
      <4> QED
        BY <1>1, <3>2, <4>1, <4>2 DEF Decisions
    <3>3. CASE calls[i].op \notin {"whoami", "check"}
      BY <3>3 DEF Says
    <3> QED
      BY <3>1, <3>2, <3>3
  <2>3. Says(calls[i]) \subseteq Decisions \cup Subjects
    BY <2>1, <2>2 DEF Calls, Sessions
  <2>4. c \in Calls /\ c.stage = "served" /\ c.op = calls[i].op /\ c.of = calls[i].of
        /\ c.answer = Says(calls[i])
    BY <2>1, <2>3 DEF Calls
  <2>5. Answered(c)
    BY <2>1, <2>2, <2>4 DEF Answered
  <2>6. calls' = [calls EXCEPT ![i] = c]
    BY <1>2, <1>15, <2>1 DEF Serve, Calls
  <2> HIDE DEF c
  <2>7. calls' \in Seq(Calls) /\ \A j \in DOMAIN calls' : Answered(calls'[j])
    BY <1>6, <2>4, <2>5, <2>6
  <2> QED
    BY <1>14, <1>15, <2>7 DEF Serve, Types
<1>16. ASSUME NEW i \in DOMAIN calls, Receive(i) PROVE Types'
  <2>1. calls[i] \in Calls /\ Answered(calls[i])
    BY <1>2, <1>3
  <2>2. CASE Session(i)
    <3>1. calls[i].answer \in Sessions
      BY <2>1, <2>2 DEF Session, Answered
    <3>2. calls' \in Seq(Calls) /\ \A j \in DOMAIN calls' : Answered(calls'[j])
      BY <1>5, <2>2 DEF Session
    <3> QED
      BY <1>16, <2>2, <3>1, <3>2 DEF Session, Receive, Types
  <2>3. CASE Decision(i)
    <3> DEFINE s0 == CHOOSE s \in calls[i].of : TRUE
    <3>1. PICK d \in calls[i].answer :
            /\ cache' = [cache EXCEPT ![s0] =
                           {[allowed |-> d.allowed, age |-> d.age, stored |-> 0]}]
            /\ HandOut(calls[i].of, calls[i].hooked, d)
      BY <2>3 DEF Decision
    <3>2. d \in Decisions
      BY <2>1, <2>3, <3>1 DEF Decision, Answered
    <3> HIDE DEF s0
    <3>3. cache' \in [Subjects -> SUBSET Entries]
      <4>1. [allowed |-> d.allowed, age |-> d.age, stored |-> 0] \in Entries
        BY <1>1, <3>2 DEF Decisions, Entries
      <4> QED
        BY <3>1, <4>1 DEF Types
    <3>4. hook' \in Hooks /\ returned' \subseteq Decisions
      BY <2>1, <3>1, <3>2 DEF HandOut, Told, Hooks, Decisions, Calls, Types
    <3>5. calls' = RemoveAt(calls, i) /\ UNCHANGED <<provider, engine>>
      BY <1>16, <2>3 DEF Decision, Receive
    <3>6. calls' \in Seq(Calls) /\ \A j \in DOMAIN calls' : Answered(calls'[j])
      BY <1>5, <3>5
    <3> QED
      BY <3>3, <3>4, <3>5, <3>6 DEF Types
  <2>4. CASE /\ calls[i].op \in {"write", "logout"}
             /\ calls' = RemoveAt(calls, i)
             /\ UNCHANGED <<cache, provider, hook, returned>>
    <3>1. calls' \in Seq(Calls) /\ \A j \in DOMAIN calls' : Answered(calls'[j])
      BY <1>5, <2>4
    <3> QED
      BY <1>16, <2>4, <3>1 DEF Receive, Types
  <2> QED
    BY <1>16, <2>2, <2>3, <2>4 DEF Receive
<1>17. ASSUME NEW i \in DOMAIN calls, Fail(i) PROVE Types'
  <2>1. calls[i] \in Calls /\ Answered(calls[i])
    BY <1>2, <1>3
  <2>2. engine' \in [session : Sessions, allowed : [Subjects -> BOOLEAN], writes : Seq(Nat)]
        /\ UNCHANGED <<cache, provider>>
    BY <1>14, <1>17 DEF Fail, Types
  <2>3. CASE Again(i) /\ UNCHANGED <<hook, returned>>
    <3> DEFINE c == [calls[i] EXCEPT !.stage = "waiting", !.attempt = @ + 1, !.answer = {}]
    <3>1. c \in Calls /\ Answered(c)
      <4>1. c \in Calls /\ c.answer = {} /\ c.op = calls[i].op /\ c.of = calls[i].of
        <5>1. calls[i].attempt + 1 \in Nat /\ {} \in SUBSET (Decisions \cup Subjects)
          BY <2>1 DEF Calls
        <5>2. c \in Calls
          BY <2>1, <5>1 DEF Calls
        <5>3. c.answer = {} /\ c.op = calls[i].op /\ c.of = calls[i].of
          BY <2>1 DEF Calls
        <5> QED
          BY <5>2, <5>3
      <4> QED
        BY <1>1, <2>1, <4>1 DEF Answered
    <3>2. calls' = [calls EXCEPT ![i] = c]
      BY <1>2, <2>1, <2>3 DEF Again, Calls
    <3> HIDE DEF c
    <3>3. calls' \in Seq(Calls) /\ \A j \in DOMAIN calls' : Answered(calls'[j])
      BY <1>6, <3>1, <3>2
    <3> QED
      BY <2>2, <2>3, <3>3 DEF Types
  <2>4. CASE Failed(i)
    <3>1. calls' \in Seq(Calls) /\ \A j \in DOMAIN calls' : Answered(calls'[j])
      BY <1>5, <2>4 DEF Failed
    <3>2. hook' \in Hooks /\ returned' \subseteq Decisions
      <4>1. NoAnswer \in Decisions
        BY <1>1 DEF NoAnswer, Decisions
      <4>2. CASE calls[i].op = "check"
        <5>1. HandOut(calls[i].of, calls[i].hooked, NoAnswer)
          BY <2>4, <4>2 DEF Failed
        <5> QED
          BY <2>1, <4>1, <5>1 DEF HandOut, Told, Hooks, Decisions, Calls, Types
      <4>3. CASE calls[i].op # "check"
        BY <2>4, <4>3 DEF Failed, Types
      <4> QED
        BY <4>2, <4>3
    <3> QED
      BY <2>2, <3>1, <3>2 DEF Types
  <2> QED
    BY <1>17, <2>3, <2>4 DEF Fail
<1>18. CASE usePermission
  <2>1. /\ calls' \in Seq(Calls) /\ \A i \in DOMAIN calls' : Answered(calls'[i])
        /\ hook' \in Hooks /\ returned' \subseteq Decisions
    BY <1>18, HookType
  <2> QED
    BY <1>18, <2>1 DEF usePermission, Types
<1>19. CASE UNCHANGED vars
  BY <1>19 DEF vars, Types
<1> QED
  BY <1>7, <1>8, <1>9, <1>10, <1>11, <1>12, <1>13, <1>15, <1>16, <1>17, <1>18, <1>19 DEF Next

-----------------------------------------------------------------------------
\* A decision from the cache has been there for less than its lifetime.
LEMMA CheckRecent ==
  Types /\ Recent =>
    \A s \in Subjects, hooked \in BOOLEAN, others \in Seq(Calls), h \in Hooks :
      check(s, hooked, others, h) /\ (\A i \in DOMAIN others : Young(others[i])) =>
        (\A i \in DOMAIN calls' : Young(calls'[i])) /\ DecisionsAreRecent'
<1> SUFFICES ASSUME Types, Recent, NEW s \in Subjects, NEW hooked \in BOOLEAN,
                    NEW others \in Seq(Calls), NEW h \in Hooks, check(s, hooked, others, h),
                    \A i \in DOMAIN others : Young(others[i])
             PROVE  (\A i \in DOMAIN calls' : Young(calls'[i])) /\ DecisionsAreRecent'
  OBVIOUS
<1>1. CASE \E e \in Cached(s) :
             /\ returned' = {[allowed |-> e.allowed, age |-> e.age]}
             /\ calls' = others
  <2>1. PICK e \in Cached(s) :
             returned' = {[allowed |-> e.allowed, age |-> e.age]} /\ calls' = others
    BY <1>1
  <2>2. e \in Entries /\ e.stored < cacheTtlMs /\ e.age <= e.stored + timeoutMs
    BY <2>1 DEF Types, Recent, Cached
  <2>3. e.age <= timeoutMs + cacheTtlMs
    BY <2>2, SdkAssumption DEF Entries, Old
  <2> QED
    BY <2>1, <2>3 DEF DecisionsAreRecent
<1>2. CASE calls' = Append(others, Call("check", {s}, hooked)) /\ UNCHANGED returned
  <2> DEFINE c == Call("check", {s}, hooked)
  <2>1. c \in Calls /\ c.answer = {} /\ calls' = Append(others, c)
    BY <1>2, NewCall DEF Call
  <2> HIDE DEF c
  <2>2. \A i \in DOMAIN calls' : Young(calls'[i])
    BY <2>1 DEF Young
  <2> QED
    BY <1>2, <2>2 DEF Recent, DecisionsAreRecent
<1> QED
  BY <1>1, <1>2 DEF check

\* The effect of the hook keeps every decision recent (usePermission).
LEMMA HookRecent ==
  Types /\ Recent /\ usePermission =>
    (\A i \in DOMAIN calls' : Young(calls'[i])) /\ DecisionsAreRecent'
<1> SUFFICES ASSUME Types, Recent, usePermission
             PROVE  (\A i \in DOMAIN calls' : Young(calls'[i])) /\ DecisionsAreRecent'
  OBVIOUS
<1>1. /\ Unhooked(calls) \in Seq(Calls)
      /\ \A i \in DOMAIN Unhooked(calls) : Young(Unhooked(calls)[i])
  BY UnhookedType DEF Young, Types, Recent
<1>2. CASE calls' = Unhooked(calls) /\ UNCHANGED returned
  BY <1>1, <1>2 DEF Recent, DecisionsAreRecent
<1>3. ASSUME NEW s \in provider.session,
             check(s, TRUE, Unhooked(calls), [hook EXCEPT !.checking = TRUE, !.session = {s}])
      PROVE  (\A i \in DOMAIN calls' : Young(calls'[i])) /\ DecisionsAreRecent'
  <2>1. s \in Subjects
    BY <1>3 DEF Sessions, Types
  <2> QED
    BY <1>1, <1>3, <2>1, Asking, CheckRecent
<1> QED
  BY <1>2, <1>3 DEF usePermission

\* Ages grow with the time an attempt takes and with the time in the cache.
LEMMA RecentStep == Types /\ Recent /\ [Next]_vars => Recent'
<1> SUFFICES ASSUME Types, Recent, [Next]_vars PROVE Recent'
  OBVIOUS
<1>1. /\ calls \in Seq(Calls) /\ Len(calls) \in Nat /\ DOMAIN calls = 1..Len(calls)
      /\ \A i \in DOMAIN calls : calls[i] \in Calls /\ Answered(calls[i]) /\ Young(calls[i])
  BY LenProperties, ElementOfSeq DEF Types, Recent
<1>2. timeoutMs \in Nat \ {0} /\ cacheTtlMs \in Nat \ {0} /\ Old = timeoutMs + cacheTtlMs + 1
  BY SdkAssumption DEF Old
<1>3. \A n \in 0..Old : Older(n) \in 0..Old /\ Older(n) <= n + 1 /\ (n < Old => Older(n) = n + 1)
                        /\ (~(n < Old) => Older(n) = Old)
  BY <1>2 DEF Older
<1>4. ASSUME NEW i \in DOMAIN calls
      PROVE  /\ RemoveAt(calls, i) \in Seq(Calls)
             /\ \A j \in DOMAIN RemoveAt(calls, i) : Young(RemoveAt(calls, i)[j])
  <2>1. RemoveAt(calls, i) \in Seq(Calls)
    BY <1>1, Removed
  <2>2. ASSUME NEW j \in DOMAIN RemoveAt(calls, i) PROVE Young(RemoveAt(calls, i)[j])
    <3>1. PICK k \in DOMAIN calls : RemoveAt(calls, i)[j] = calls[k]
      BY <1>1, Kept
    <3> QED
      BY <1>1, <3>1
  <2> QED
    BY <2>1, <2>2
<1>5. \A c \in Calls : c.answer = {} =>
        \A i \in DOMAIN Append(calls, c) : Young(Append(calls, c)[i])
  BY <1>1 DEF Young
<1>6. CASE refreshSession
  <2>1. Call("whoami", {}, FALSE) \in Calls /\ Call("whoami", {}, FALSE).answer = {}
    BY NewCall DEF Call
  <2> QED
    BY <1>5, <1>6, <2>1 DEF refreshSession, Recent, DecisionsAreRecent
<1>7. CASE Check
  <2>1. PICK s \in Subjects : check(s, FALSE, calls, hook)
    BY <1>7 DEF Check
  <2>2. (\A i \in DOMAIN calls' : Young(calls'[i])) /\ DecisionsAreRecent'
    BY <1>1, <2>1, CheckRecent DEF Types
  <2> QED
    BY <1>7, <2>2 DEF Check, Recent
<1>8. CASE Write
  <2> DEFINE c == Call("write", {Len(engine.writes) + 1}, FALSE)
  <2>1. Len(engine.writes) + 1 \in Nat
    BY LenProperties DEF Types
  <2>2. c \in Calls /\ c.answer = {}
    BY <2>1, NewCall DEF Call
  <2>3. calls' = Append(calls, c) /\ UNCHANGED <<cache, returned>>
    BY <1>8 DEF Write
  <2> HIDE DEF c
  <2> QED
    BY <1>5, <2>2, <2>3 DEF Recent, DecisionsAreRecent
<1>9. CASE logout
  <2>1. Call("logout", {}, FALSE) \in Calls /\ Call("logout", {}, FALSE).answer = {}
    BY NewCall DEF Call
  <2> QED
    BY <1>5, <1>9, <2>1 DEF logout, Recent, DecisionsAreRecent
<1>10. CASE Elsewhere
  BY <1>10 DEF Elsewhere, Recent, DecisionsAreRecent
<1>11. CASE Tick
  <2>1. ASSUME NEW i \in DOMAIN calls' PROVE Young(calls'[i])
    <3> DEFINE t == [calls[i] EXCEPT
                      !.elapsed = IF calls[i].stage = "waiting" THEN 0 ELSE @ + 1,
                      !.answer = IF calls[i].op = "check" THEN {Aged(d) : d \in @} ELSE @]
    <3>1. i \in DOMAIN calls /\ calls'[i] = t
      BY <1>11 DEF Tick
    <3>2. calls[i] \in Calls /\ Answered(calls[i]) /\ Young(calls[i])
      BY <1>1, <3>1
    <3>3. /\ t.op = calls[i].op
          /\ t.elapsed = IF calls[i].stage = "waiting" THEN 0 ELSE calls[i].elapsed + 1
          /\ calls[i].op = "check" => t.answer = {Aged(d) : d \in calls[i].answer}
      BY <3>2 DEF Calls
    <3> HIDE DEF t
    <3>4. ASSUME calls[i].op = "check", NEW d \in calls[i].answer
          PROVE  Aged(d).age <= t.elapsed
      <4>1. calls[i].stage # "waiting" /\ d \in Decisions /\ d.age <= calls[i].elapsed
        BY <3>2, <3>4 DEF Answered, Young
      <4>2. Aged(d).age = Older(d.age) /\ d.age \in 0..Old
        BY <4>1 DEF Aged, Decisions
      <4>3. Older(d.age) <= d.age + 1 /\ Older(d.age) \in 0..Old
        BY <1>3, <4>2
      <4>4. calls[i].elapsed \in 0..timeoutMs /\ t.elapsed = calls[i].elapsed + 1
        BY <3>2, <3>3, <4>1 DEF Calls
      <4> QED
        BY <1>2, <4>1, <4>2, <4>3, <4>4
    <3> QED
      BY <3>1, <3>3, <3>4 DEF Young
  <2>2. ASSUME NEW s \in Subjects, NEW e \in cache'[s] PROVE e.age <= e.stored + timeoutMs
    <3>1. cache'[s] = {[Aged(f) EXCEPT !.stored = Older(@)] : f \in cache[s]}
      BY <1>11 DEF Tick
    <3>2. PICK f \in cache[s] : e = [Aged(f) EXCEPT !.stored = Older(@)]
      BY <2>2, <3>1
    <3>3. f \in Entries /\ f.age <= f.stored + timeoutMs
      BY <3>2 DEF Types, Recent
    <3>4. e.age = Older(f.age) /\ e.stored = Older(f.stored) /\ f.age \in 0..Old
          /\ f.stored \in 0..Old
      BY <3>2, <3>3 DEF Aged, Entries
    <3>5. Older(f.age) \in 0..Old /\ Older(f.age) <= f.age + 1
      BY <1>3, <3>4
    <3>6. CASE f.stored < Old
      BY <1>2, <1>3, <3>3, <3>4, <3>5, <3>6
    <3>7. CASE ~(f.stored < Old)
      BY <1>2, <1>3, <3>4, <3>5, <3>7
    <3> QED
      BY <3>6, <3>7
  <2>3. DecisionsAreRecent'
    BY <1>11 DEF Tick, DecisionsAreRecent
  <2> QED
    BY <2>1, <2>2, <2>3 DEF Recent
<1>12. ASSUME NEW i \in DOMAIN calls, Attempt(i) PROVE Recent'
  <2>1. ASSUME NEW j \in DOMAIN calls' PROVE Young(calls'[j])
    <3>1. j \in DOMAIN calls /\ calls[i] \in Calls /\ calls[j] \in Calls
      BY <1>1, <1>12 DEF Attempt
    <3>2. CASE j = i
      <4>1. calls[i].answer = {}
        BY <1>1, <1>12 DEF Attempt, Answered
      <4>2. calls'[i].answer = calls[i].answer
        BY <1>1, <1>12, <3>1 DEF Attempt, Calls
      <4> QED
        BY <3>2, <4>1, <4>2 DEF Young
    <3>3. CASE j # i
      BY <1>1, <1>12, <3>1, <3>3 DEF Attempt
    <3> QED
      BY <3>2, <3>3
  <2> QED
    BY <1>12, <2>1 DEF Attempt, Recent, DecisionsAreRecent
<1>13. ASSUME NEW i \in DOMAIN calls, Serve(i) PROVE Recent'
  <2>1. ASSUME NEW j \in DOMAIN calls' PROVE Young(calls'[j])
    <3>1. j \in DOMAIN calls /\ calls[i] \in Calls /\ calls[j] \in Calls
      BY <1>1, <1>13 DEF Serve
    <3>2. CASE j = i
      <4>1. calls'[i].answer = Says(calls[i]) /\ calls'[i].elapsed = calls[i].elapsed
            /\ calls'[i].op = calls[i].op
        BY <1>1, <1>13, <3>1 DEF Serve, Calls
      <4>2. calls[i].op = "check" => \A d \in Says(calls[i]) : d.age = 0
        BY DEF Says
      <4>3. calls[i].elapsed \in 0..timeoutMs
        BY <3>1 DEF Calls
      <4> QED
        BY <1>2, <3>2, <4>1, <4>2, <4>3 DEF Young
    <3>3. CASE j # i
      BY <1>1, <1>13, <3>1, <3>3 DEF Serve
    <3> QED
      BY <3>2, <3>3
  <2> QED
    BY <1>13, <2>1 DEF Serve, Recent, DecisionsAreRecent
<1>14. ASSUME NEW i \in DOMAIN calls, Receive(i) PROVE Recent'
  <2>1. calls[i] \in Calls /\ Answered(calls[i]) /\ Young(calls[i])
    BY <1>1
  <2>2. CASE Session(i)
    <3>1. \A j \in DOMAIN calls' : Young(calls'[j])
      BY <1>4, <2>2 DEF Session
    <3> QED
      BY <2>2, <3>1 DEF Session, Recent, DecisionsAreRecent
  <2>3. CASE Decision(i)
    <3> DEFINE s0 == CHOOSE s \in calls[i].of : TRUE
    <3>1. PICK d \in calls[i].answer :
            /\ cache' = [cache EXCEPT ![s0] =
                           {[allowed |-> d.allowed, age |-> d.age, stored |-> 0]}]
            /\ HandOut(calls[i].of, calls[i].hooked, d)
      BY <2>3 DEF Decision
    <3>2. d \in Decisions /\ d.age <= calls[i].elapsed
      BY <2>1, <2>3, <3>1 DEF Decision, Answered, Young
    <3>3. calls[i].elapsed \in 0..timeoutMs /\ d.age \in 0..Old
      BY <2>1, <3>2 DEF Calls, Decisions
    <3>4. d.age <= timeoutMs /\ d.age <= timeoutMs + cacheTtlMs
      BY <1>2, <3>2, <3>3
    <3> HIDE DEF s0
    <3>5. ASSUME NEW s \in Subjects, NEW e \in cache'[s] PROVE e.age <= e.stored + timeoutMs
      <4>1. CASE s = s0
        <5>1. e.age = d.age /\ e.stored = 0
          BY <3>1, <3>5, <4>1 DEF Types
        <5> QED
          BY <1>2, <3>3, <3>4, <5>1
      <4>2. CASE s # s0
        <5>1. e \in cache[s]
          BY <3>1, <3>5, <4>2 DEF Types
        <5> QED
          BY <5>1 DEF Recent
      <4> QED
        BY <4>1, <4>2
    <3>6. DecisionsAreRecent'
      BY <3>1, <3>4 DEF HandOut, DecisionsAreRecent
    <3>7. \A j \in DOMAIN calls' : Young(calls'[j])
      BY <1>4, <2>3 DEF Decision
    <3> QED
      BY <3>5, <3>6, <3>7 DEF Recent
  <2>4. CASE /\ calls[i].op \in {"write", "logout"}
             /\ calls' = RemoveAt(calls, i)
             /\ UNCHANGED <<cache, provider, hook, returned>>
    BY <1>4, <2>4 DEF Recent, DecisionsAreRecent
  <2> QED
    BY <1>14, <2>2, <2>3, <2>4 DEF Receive
<1>15. ASSUME NEW i \in DOMAIN calls, Fail(i) PROVE Recent'
  <2>1. UNCHANGED cache
    BY <1>15 DEF Fail
  <2>2. CASE Again(i) /\ UNCHANGED returned
    <3>1. ASSUME NEW j \in DOMAIN calls' PROVE Young(calls'[j])
      <4>1. j \in DOMAIN calls /\ calls[i] \in Calls
        BY <1>1, <2>2 DEF Again
      <4>2. CASE j = i
        <5>1. calls'[i].answer = {}
          BY <1>1, <2>2, <4>1 DEF Again, Calls
        <5> QED
          BY <4>2, <5>1 DEF Young
      <4>3. CASE j # i
        BY <1>1, <2>2, <4>1, <4>3 DEF Again
      <4> QED
        BY <4>2, <4>3
    <3> QED
      BY <2>1, <2>2, <3>1 DEF Recent, DecisionsAreRecent
  <2>3. CASE Failed(i)
    <3>1. \A j \in DOMAIN calls' : Young(calls'[j])
      BY <1>4, <2>3 DEF Failed
    <3>2. NoAnswer.age <= timeoutMs + cacheTtlMs
      BY <1>2 DEF NoAnswer
    <3>3. DecisionsAreRecent'
      <4>1. CASE HandOut(calls[i].of, calls[i].hooked, NoAnswer)
        BY <3>2, <4>1 DEF HandOut, DecisionsAreRecent
      <4>2. CASE UNCHANGED returned
        BY <4>2 DEF Recent, DecisionsAreRecent
      <4> QED
        BY <2>3, <4>1, <4>2 DEF Failed
    <3> QED
      BY <2>1, <3>1, <3>3 DEF Recent
  <2> QED
    BY <1>15, <2>2, <2>3 DEF Fail
<1>16. CASE usePermission
  <2>1. (\A i \in DOMAIN calls' : Young(calls'[i])) /\ DecisionsAreRecent'
    BY <1>16, HookRecent
  <2> QED
    BY <1>16, <2>1 DEF usePermission, Recent
<1>17. CASE UNCHANGED vars
  BY <1>17 DEF vars, Recent, DecisionsAreRecent
<1> QED
  BY <1>6, <1>7, <1>8, <1>9, <1>10, <1>11, <1>12, <1>13, <1>14, <1>15, <1>16, <1>17 DEF Next

-----------------------------------------------------------------------------
\* The effect of the hook asks about the session it runs for, and from then on
\* ignores what was asked before.
LEMMA HookHeeded ==
  Types /\ usePermission =>
    (\A i \in DOMAIN calls' : Awaited(calls'[i], hook'.session)) /\ Heeds(hook')
<1> SUFFICES ASSUME Types, usePermission
             PROVE  (\A i \in DOMAIN calls' : Awaited(calls'[i], hook'.session)) /\ Heeds(hook')
  OBVIOUS
<1>1. /\ Unhooked(calls) \in Seq(Calls)
      /\ \A i \in DOMAIN Unhooked(calls) : ~Unhooked(calls)[i].hooked
  BY UnhookedType DEF Types
<1>2. CASE /\ calls' = Unhooked(calls)
           /\ hook' = [hook EXCEPT !.allowed = FALSE, !.checking = FALSE, !.session = {}]
  <2>1. ~hook'.allowed
    BY <1>2 DEF Types, Hooks
  <2> QED
    BY <1>1, <1>2, <2>1 DEF Awaited, Heeds
<1>3. ASSUME NEW s \in provider.session,
             check(s, TRUE, Unhooked(calls), [hook EXCEPT !.checking = TRUE, !.session = {s}])
      PROVE  (\A i \in DOMAIN calls' : Awaited(calls'[i], hook'.session)) /\ Heeds(hook')
  <2> DEFINE h == [hook EXCEPT !.checking = TRUE, !.session = {s}]
  <2>1. check(s, TRUE, Unhooked(calls), h)
    BY <1>3
  <2>2. s \in Subjects
    BY <1>3 DEF Sessions, Types
  <2>3. h \in Hooks /\ h.checking /\ h.session = {s}
    BY <2>2, Asking
  <2> HIDE DEF h
  <2>4. ASSUME NEW e \in Cached(s), hook' = Told(h, {s}, e), calls' = Unhooked(calls)
        PROVE  (\A i \in DOMAIN calls' : Awaited(calls'[i], hook'.session)) /\ Heeds(hook')
    <3>1. hook'.of = {s} /\ hook'.session = {s}
      BY <2>3, <2>4 DEF Told, Hooks
    <3> QED
      BY <1>1, <2>4, <3>1 DEF Awaited, Heeds
  <2>5. CASE calls' = Append(Unhooked(calls), Call("check", {s}, TRUE)) /\ hook' = h
    <3> DEFINE c == Call("check", {s}, TRUE)
    <3>1. c \in Calls /\ Awaited(c, {s}) /\ calls' = Append(Unhooked(calls), c)
      BY <2>2, <2>5, NewCall DEF Call, Awaited
    <3> HIDE DEF c
    <3>2. \A i \in DOMAIN calls' : Awaited(calls'[i], {s})
      BY <1>1, <3>1 DEF Awaited
    <3> QED
      BY <2>3, <2>5, <3>2 DEF Heeds
  <2> QED
    BY <2>1, <2>4, <2>5 DEF check
<1> QED
  BY <1>2, <1>3 DEF usePermission

\* The hook only takes what was decided about the session its effect ran for.
LEMMA HeedStep == Types /\ Heeded /\ [Next]_vars => Heeded'
<1> SUFFICES ASSUME Types, Heeded, [Next]_vars PROVE Heeded'
  OBVIOUS
<1>1. /\ calls \in Seq(Calls) /\ Len(calls) \in Nat /\ DOMAIN calls = 1..Len(calls)
      /\ \A i \in DOMAIN calls :
           calls[i] \in Calls /\ Answered(calls[i]) /\ Awaited(calls[i], hook.session)
  BY LenProperties, ElementOfSeq DEF Types, Heeded
<1>2. ASSUME NEW i \in DOMAIN calls
      PROVE  /\ RemoveAt(calls, i) \in Seq(Calls)
             /\ \A j \in DOMAIN RemoveAt(calls, i) :
                  Awaited(RemoveAt(calls, i)[j], hook.session)
  <2>1. RemoveAt(calls, i) \in Seq(Calls)
    BY <1>1, Removed
  <2>2. ASSUME NEW j \in DOMAIN RemoveAt(calls, i)
        PROVE  Awaited(RemoveAt(calls, i)[j], hook.session)
    <3>1. PICK k \in DOMAIN calls : RemoveAt(calls, i)[j] = calls[k]
      BY <1>1, Kept
    <3> QED
      BY <1>1, <3>1
  <2> QED
    BY <2>1, <2>2
<1>3. \A c \in Calls : ~c.hooked =>
        \A i \in DOMAIN Append(calls, c) : Awaited(Append(calls, c)[i], hook.session)
  BY <1>1 DEF Awaited
<1>4. CASE refreshSession
  <2>1. Call("whoami", {}, FALSE) \in Calls /\ ~Call("whoami", {}, FALSE).hooked
    BY NewCall DEF Call
  <2>2. UNCHANGED hook
        /\ calls' = Append(calls, Call("whoami", {}, FALSE))
    BY <1>4 DEF refreshSession
  <2> QED
    BY <1>3, <2>1, <2>2 DEF Heeded
<1>5. CASE Check
  <2>1. PICK s \in Subjects : check(s, FALSE, calls, hook)
    BY <1>5 DEF Check
  <2>2. Call("check", {s}, FALSE) \in Calls /\ ~Call("check", {s}, FALSE).hooked
    BY NewCall DEF Call
  <2>3. (calls' = calls \/ calls' = Append(calls, Call("check", {s}, FALSE))) /\ hook' = hook
    BY <2>1 DEF check
  <2> QED
    BY <1>1, <1>3, <2>2, <2>3 DEF Heeded
<1>6. CASE Write
  <2> DEFINE c == Call("write", {Len(engine.writes) + 1}, FALSE)
  <2>1. Len(engine.writes) + 1 \in Nat
    BY LenProperties DEF Types
  <2>2. c \in Calls /\ ~c.hooked
    BY <2>1, NewCall DEF Call
  <2>3. calls' = Append(calls, c) /\ UNCHANGED hook
    BY <1>6 DEF Write
  <2> HIDE DEF c
  <2> QED
    BY <1>3, <2>2, <2>3 DEF Heeded
<1>7. CASE logout
  <2>1. Call("logout", {}, FALSE) \in Calls /\ ~Call("logout", {}, FALSE).hooked
    BY NewCall DEF Call
  <2> QED
    BY <1>3, <1>7, <2>1 DEF logout, Heeded
<1>8. CASE Elsewhere
  BY <1>8 DEF Elsewhere, Heeded
<1>9. ASSUME UNCHANGED hook, DOMAIN calls' = DOMAIN calls,
             \A i \in DOMAIN calls : /\ calls'[i].hooked = calls[i].hooked
                                     /\ calls'[i].op = calls[i].op /\ calls'[i].of = calls[i].of
      PROVE  Heeded'
  BY <1>1, <1>9 DEF Awaited, Heeded
<1>10. CASE Tick
  BY <1>1, <1>9, <1>10 DEF Tick, Calls
<1>11. ASSUME NEW i \in DOMAIN calls, Attempt(i) PROVE Heeded'
  BY <1>1, <1>9, <1>11 DEF Attempt, Calls
<1>12. ASSUME NEW i \in DOMAIN calls, Serve(i) PROVE Heeded'
  BY <1>1, <1>9, <1>12 DEF Serve, Calls
<1>13. ASSUME NEW i \in DOMAIN calls, Receive(i) PROVE Heeded'
  <2>1. calls[i] \in Calls /\ Answered(calls[i]) /\ Awaited(calls[i], hook.session)
    BY <1>1
  <2>2. CASE Session(i)
    BY <1>2, <2>2 DEF Session, Heeded
  <2>3. CASE Decision(i)
    <3>1. calls' = RemoveAt(calls, i)
      BY <2>3 DEF Decision
    <3>2. CASE calls[i].hooked
      <4>1. hook'.of = calls[i].of /\ hook'.session = hook.session
        BY <2>3, <3>2 DEF Decision, HandOut, Told, Types, Hooks
      <4> QED
        BY <1>2, <2>1, <3>1, <3>2, <4>1 DEF Awaited, Heeded, Heeds
    <3>3. CASE ~calls[i].hooked
      <4>1. UNCHANGED hook
        BY <2>3, <3>3 DEF Decision, HandOut
      <4> QED
        BY <1>2, <3>1, <4>1 DEF Heeded
    <3> QED
      BY <3>2, <3>3
  <2>4. CASE /\ calls' = RemoveAt(calls, i)
             /\ UNCHANGED <<cache, provider, hook, returned>>
    BY <1>2, <2>4 DEF Heeded
  <2> QED
    BY <1>13, <2>2, <2>3, <2>4 DEF Receive
<1>14. ASSUME NEW i \in DOMAIN calls, Fail(i) PROVE Heeded'
  <2>1. CASE Again(i) /\ UNCHANGED hook
    BY <1>1, <1>9, <2>1 DEF Again, Calls
  <2>2. CASE Failed(i)
    <3>1. calls' = RemoveAt(calls, i)
      BY <2>2 DEF Failed
    <3>2. UNCHANGED hook \/ (~hook'.allowed /\ hook'.session = hook.session)
      BY <2>2 DEF Failed, HandOut, Told, NoAnswer, Types, Hooks
    <3> QED
      BY <1>2, <3>1, <3>2 DEF Heeded, Heeds
  <2> QED
    BY <1>14, <2>1, <2>2 DEF Fail
<1>15. CASE usePermission
  BY <1>15, HookHeeded DEF Heeded
<1>16. CASE UNCHANGED vars
  BY <1>16 DEF vars, Heeded
<1> QED
  BY <1>4, <1>5, <1>6, <1>7, <1>8, <1>10, <1>11, <1>12, <1>13, <1>14, <1>15, <1>16 DEF Next

-----------------------------------------------------------------------------
\* No two calls are about the same write when one is removed, or another kind of
\* call is made.
LEMMA SingleRemoved ==
  ASSUME NEW cs \in Seq(Calls), Single(cs), NEW i \in DOMAIN cs
  PROVE  Single(RemoveAt(cs, i))
<1> DEFINE r == RemoveAt(cs, i)
           f(j) == IF j < i THEN j ELSE j + 1
<1>1. Len(cs) \in Nat /\ DOMAIN cs = 1..Len(cs) /\ i \in 1..Len(cs)
  BY LenProperties
<1>2. DOMAIN r = 1..(Len(cs) - 1) /\ \A j \in 1..(Len(cs) - 1) : r[j] = cs[f(j)]
  BY Removed
<1> HIDE DEF r
<1>3. SUFFICES ASSUME NEW j \in DOMAIN r, NEW k \in DOMAIN r, Writes(r[j]), Writes(r[k]),
                      r[j].of = r[k].of
               PROVE  j = k
  BY DEF Single, r
<1>4. f(j) \in DOMAIN cs /\ f(k) \in DOMAIN cs /\ r[j] = cs[f(j)] /\ r[k] = cs[f(k)]
  BY <1>1, <1>2
<1>5. f(j) = f(k)
  BY <1>3, <1>4 DEF Single
<1> QED
  BY <1>1, <1>2, <1>5

\* A call that writes nothing leaves every write in flight once.
LEMMA SingleAppend ==
  ASSUME NEW cs \in Seq(Calls), Single(cs), NEW c \in Calls, ~Writes(c)
  PROVE  Single(Append(cs, c))
BY LenProperties DEF Single

\* The writes in flight after a step are among those before it.
From(cs, ds) ==
  \A j \in DOMAIN cs : Writes(cs[j]) =>
    \E k \in DOMAIN ds :
      /\ ds[k].op = cs[j].op /\ ds[k].of = cs[j].of /\ ds[k].retry = cs[j].retry
      /\ ds[k].stage = cs[j].stage

\* Removing a call adds no write.
LEMMA FromRemoved ==
  ASSUME NEW cs \in Seq(Calls), NEW i \in DOMAIN cs
  PROVE  From(RemoveAt(cs, i), cs)
BY Kept DEF From

\* What check() and the hook do to the calls in flight is not about writes.
LEMMA CheckOnce ==
  \A s \in Subjects, hooked \in BOOLEAN, others \in Seq(Calls), h \in Hooks :
    check(s, hooked, others, h) /\ Single(others) => Single(calls') /\ From(calls', others)
<1> SUFFICES ASSUME NEW s \in Subjects, NEW hooked \in BOOLEAN, NEW others \in Seq(Calls),
                    NEW h \in Hooks, check(s, hooked, others, h), Single(others)
             PROVE  Single(calls') /\ From(calls', others)
  OBVIOUS
<1> DEFINE c == Call("check", {s}, hooked)
<1>1. c \in Calls /\ ~Writes(c)
  BY NewCall DEF Call, Writes
<1>2. calls' = others \/ calls' = Append(others, c)
  BY DEF check
<1> HIDE DEF c
<1>3. CASE calls' = others
  BY <1>3 DEF From
<1>4. CASE calls' = Append(others, c)
  <2>1. Single(calls')
    BY <1>1, <1>4, SingleAppend
  <2>2. From(calls', others)
    BY <1>1, <1>4 DEF From
  <2> QED
    BY <2>1, <2>2
<1> QED
  BY <1>2, <1>3, <1>4

\* The effect of the hook sends no write a second time (usePermission).
LEMMA HookOnce ==
  Types /\ Single(calls) /\ usePermission => Single(calls') /\ From(calls', calls)
<1> SUFFICES ASSUME Types, Single(calls), usePermission
             PROVE  Single(calls') /\ From(calls', calls)
  OBVIOUS
<1>1. /\ Unhooked(calls) \in Seq(Calls) /\ Single(Unhooked(calls))
      /\ From(Unhooked(calls), calls)
  BY UnhookedType DEF Single, From, Writes, Types
<1>2. CASE calls' = Unhooked(calls)
  BY <1>1, <1>2
<1>3. ASSUME NEW s \in provider.session,
             check(s, TRUE, Unhooked(calls), [hook EXCEPT !.checking = TRUE, !.session = {s}])
      PROVE  Single(calls') /\ From(calls', calls)
  <2>1. s \in Subjects
    BY <1>3 DEF Sessions, Types
  <2>2. Single(calls') /\ From(calls', Unhooked(calls))
    BY <1>1, <1>3, <2>1, Asking, CheckOnce
  <2> QED
    BY <1>1, <2>2 DEF From, Writes
<1> QED
  BY <1>2, <1>3 DEF usePermission

\* A write that may have been done has no attempt left.
LEMMA OnceStep == Types /\ Once /\ [Next]_vars => Once'
<1> SUFFICES ASSUME Types, Once, [Next]_vars PROVE Once'
  OBVIOUS
<1>1. /\ calls \in Seq(Calls) /\ Len(calls) \in Nat /\ DOMAIN calls = 1..Len(calls)
      /\ \A i \in DOMAIN calls : calls[i] \in Calls /\ Answered(calls[i])
      /\ \A i \in DOMAIN calls : Writes(calls[i]) => Undone(calls[i], engine.writes)
      /\ Single(calls)
  BY LenProperties, ElementOfSeq DEF Types, Once
<1>2. /\ engine.writes \in Seq(Nat) /\ Len(engine.writes) \in Nat
      /\ DOMAIN engine.writes = 1..Len(engine.writes)
      /\ \A w \in DOMAIN engine.writes : engine.writes[w] \in Nat /\ engine.writes[w] <= 1
  BY LenProperties, ElementOfSeq DEF Types, Once, WritesAreDoneOnce
<1>3. ASSUME engine'.writes = engine.writes, Single(calls'), From(calls', calls) PROVE Once'
  BY <1>1, <1>3 DEF From, Writes, Undone, Once, WritesAreDoneOnce
<1>4. ASSUME NEW i \in DOMAIN calls
      PROVE  /\ RemoveAt(calls, i) \in Seq(Calls) /\ Single(RemoveAt(calls, i))
             /\ From(RemoveAt(calls, i), calls)
  BY <1>1, Removed, SingleRemoved, FromRemoved
<1>5. ASSUME NEW c \in Calls, ~Writes(c)
      PROVE  Single(Append(calls, c)) /\ From(Append(calls, c), calls)
  <2>1. From(Append(calls, c), calls)
    BY <1>1, <1>5 DEF From
  <2> QED
    BY <1>1, <1>5, <2>1, SingleAppend
<1>6. CASE refreshSession
  <2>1. Call("whoami", {}, FALSE) \in Calls /\ ~Writes(Call("whoami", {}, FALSE))
    BY NewCall DEF Call, Writes
  <2> QED
    BY <1>3, <1>5, <1>6, <2>1 DEF refreshSession
<1>7. CASE Check
  <2>1. PICK s \in Subjects : check(s, FALSE, calls, hook)
    BY <1>7 DEF Check
  <2>2. Single(calls') /\ From(calls', calls)
    BY <1>1, <2>1, CheckOnce DEF Types
  <2> QED
    BY <1>3, <1>7, <2>2 DEF Check
<1>8. CASE Write
  <2> DEFINE n == Len(engine.writes) + 1
             c == Call("write", {n}, FALSE)
  <2>1. n \in Nat /\ n \notin DOMAIN engine.writes
    BY <1>2
  <2>2. c \in Calls /\ c.of = {n} /\ ~c.retry
    BY <2>1, NewCall DEF Call
  <2>3. calls' = Append(calls, c) /\ engine'.writes = Append(engine.writes, 0)
    BY <1>8 DEF Write, Types
  <2>4. /\ DOMAIN engine'.writes = 1..n /\ engine'.writes[n] = 0
        /\ \A w \in DOMAIN engine.writes : engine'.writes[w] = engine.writes[w]
    BY <1>2, <2>3
  <2> HIDE DEF c
  <2>5. ASSUME NEW i \in DOMAIN calls, Writes(calls[i])
        PROVE  calls[i].of # {n} /\ Undone(calls[i], engine'.writes)
    <3>1. PICK w \in DOMAIN engine.writes :
            calls[i].of = {w} /\ (calls[i].stage # "served" => engine.writes[w] = 0)
      BY <1>1, <2>5 DEF Undone
    <3>2. w # n /\ w \in DOMAIN engine'.writes /\ engine'.writes[w] = engine.writes[w]
      BY <1>2, <2>1, <2>4, <3>1
    <3>3. calls[i].of # {n}
      BY <3>1, <3>2
    <3> QED
      BY <1>1, <2>5, <3>1, <3>2, <3>3 DEF Undone
  <2>6. Undone(c, engine'.writes)
    BY <2>1, <2>2, <2>4 DEF Undone
  <2>7. \A i \in DOMAIN calls' : \/ i \in DOMAIN calls /\ calls'[i] = calls[i]
                                 \/ i = Len(calls) + 1 /\ calls'[i] = c
    BY <1>1, <2>2, <2>3
  <2>8. Single(calls')
    BY <1>1, <2>2, <2>5, <2>7 DEF Single
  <2>9. WritesAreDoneOnce'
    BY <1>2, <2>1, <2>4 DEF WritesAreDoneOnce
  <2> QED
    BY <2>5, <2>6, <2>7, <2>8, <2>9 DEF Once
<1>9. CASE logout
  <2>1. Call("logout", {}, FALSE) \in Calls /\ ~Writes(Call("logout", {}, FALSE))
    BY NewCall DEF Call, Writes
  <2> QED
    BY <1>3, <1>5, <1>9, <2>1 DEF logout
<1>10. CASE Elsewhere
  <2>1. engine'.writes = engine.writes /\ calls' = calls
    BY <1>10 DEF Elsewhere, Types
  <2> QED
    BY <1>1, <1>3, <2>1 DEF From
<1>11. ASSUME engine'.writes = engine.writes, DOMAIN calls' = DOMAIN calls,
              \A i \in DOMAIN calls :
                /\ calls'[i].op = calls[i].op /\ calls'[i].of = calls[i].of
                /\ calls'[i].retry = calls[i].retry
                /\ Writes(calls[i]) /\ calls'[i].stage # "served" => calls[i].stage # "served"
       PROVE  Once'
  <2>1. Single(calls')
    BY <1>1, <1>11 DEF Single, Writes
  <2>2. \A i \in DOMAIN calls' : Writes(calls'[i]) => Undone(calls'[i], engine'.writes)
    BY <1>1, <1>11 DEF Undone, Writes
  <2> QED
    BY <1>11, <2>1, <2>2 DEF Once, WritesAreDoneOnce
<1>12. CASE Tick
  BY <1>1, <1>11, <1>12 DEF Tick, Calls
<1>13. ASSUME NEW i \in DOMAIN calls, Attempt(i) PROVE Once'
  BY <1>1, <1>11, <1>13 DEF Attempt, Calls
<1>14. ASSUME NEW i \in DOMAIN calls, calls[i].stage = "sent"
       PROVE  /\ \A j \in DOMAIN calls : j # i /\ Writes(calls[j]) =>
                   Undone(calls[j], Done(calls[i]).writes)
              /\ DOMAIN Done(calls[i]).writes = DOMAIN engine.writes
              /\ \A w \in DOMAIN engine.writes : Done(calls[i]).writes[w] <= 1
  <2>1. CASE ~Writes(calls[i])
    <3>1. Done(calls[i]).writes = engine.writes
      BY <2>1 DEF Done, Writes, Types
    <3> QED
      BY <1>1, <1>2, <3>1
  <2>2. CASE Writes(calls[i])
    <3>1. PICK w0 \in DOMAIN engine.writes : calls[i].of = {w0} /\ engine.writes[w0] = 0
      BY <1>1, <1>14, <2>2 DEF Undone
    <3>2. Done(calls[i]).writes = [w \in DOMAIN engine.writes |->
            IF w = w0 THEN engine.writes[w] + 1 ELSE engine.writes[w]]
      BY <2>2, <3>1 DEF Done, Writes, Types
    <3>3. ASSUME NEW j \in DOMAIN calls, j # i, Writes(calls[j])
          PROVE  Undone(calls[j], Done(calls[i]).writes)
      <4>1. PICK w1 \in DOMAIN engine.writes :
              calls[j].of = {w1} /\ (calls[j].stage # "served" => engine.writes[w1] = 0)
        BY <1>1, <3>3 DEF Undone
      <4>2. w1 # w0
        BY <1>1, <2>2, <3>1, <3>3, <4>1 DEF Single
      <4> QED
        BY <1>1, <3>2, <3>3, <4>1, <4>2 DEF Undone
    <3> QED
      BY <1>2, <3>1, <3>2, <3>3
  <2> QED
    BY <2>1, <2>2
<1>15. ASSUME NEW i \in DOMAIN calls, Serve(i) PROVE Once'
  <2>1. /\ engine' = Done(calls[i]) /\ calls[i].stage = "sent" /\ DOMAIN calls' = DOMAIN calls
        /\ calls'[i].stage = "served" /\ calls'[i].op = calls[i].op
        /\ calls'[i].of = calls[i].of /\ calls'[i].retry = calls[i].retry
        /\ \A j \in DOMAIN calls : j # i => calls'[j] = calls[j]
    BY <1>1, <1>15 DEF Serve, Calls
  <2>2. Single(calls')
    BY <1>1, <2>1 DEF Single, Writes
  <2>3. ASSUME NEW j \in DOMAIN calls', Writes(calls'[j]) PROVE Undone(calls'[j], engine'.writes)
    <3>1. CASE j = i
      BY <1>1, <1>14, <2>1, <2>3, <3>1 DEF Undone, Writes
    <3>2. CASE j # i
      BY <1>14, <2>1, <2>3, <3>2
    <3> QED
      BY <3>1, <3>2
  <2>4. WritesAreDoneOnce'
    BY <1>14, <2>1 DEF WritesAreDoneOnce
  <2> QED
    BY <2>2, <2>3, <2>4 DEF Once
<1>16. ASSUME NEW i \in DOMAIN calls, Receive(i) PROVE Once'
  <2>1. engine' = engine /\ calls' = RemoveAt(calls, i)
    BY <1>16 DEF Receive, Session, Decision
  <2> QED
    BY <1>3, <1>4, <2>1
<1>17. ASSUME NEW i \in DOMAIN calls, Fail(i) PROVE Once'
  <2>1. CASE Writes(calls[i]) \/ Failed(i)
    <3>1. calls' = RemoveAt(calls, i)
      BY <1>1, <1>17, <2>1 DEF Fail, Failed, Undone
    <3>2. engine' = engine \/ (calls[i].stage = "sent" /\ engine' = Done(calls[i]))
      BY <1>17 DEF Fail
    <3>3. CASE engine' = engine
      BY <1>3, <1>4, <3>1, <3>3
    <3>4. CASE calls[i].stage = "sent" /\ engine' = Done(calls[i])
      <4>1. ASSUME NEW j \in DOMAIN calls', Writes(calls'[j])
            PROVE  Undone(calls'[j], engine'.writes)
        <5>1. PICK k \in DOMAIN calls : k # i /\ calls'[j] = calls[k]
          BY <1>1, <3>1, <4>1, Kept
        <5> QED
          BY <1>14, <3>4, <4>1, <5>1
      <4>2. WritesAreDoneOnce'
        BY <1>14, <3>4 DEF WritesAreDoneOnce
      <4> QED
        BY <1>4, <3>1, <4>1, <4>2 DEF Once
    <3> QED
      BY <3>2, <3>3, <3>4
  <2>2. CASE ~Writes(calls[i]) /\ Again(i)
    <3>1. engine'.writes = engine.writes
      BY <1>17, <2>2 DEF Fail, Done, Writes, Types
    <3> QED
      BY <1>1, <1>11, <2>2, <3>1 DEF Again, Calls
  <2> QED
    BY <1>17, <2>1, <2>2 DEF Fail
<1>18. CASE usePermission
  <2>1. engine' = engine
    BY <1>18 DEF usePermission
  <2> QED
    BY <1>1, <1>3, <1>18, <2>1, HookOnce
<1>19. CASE UNCHANGED vars
  BY <1>1, <1>3, <1>19 DEF vars, From
<1> QED
  BY <1>6, <1>7, <1>8, <1>9, <1>10, <1>12, <1>13, <1>15, <1>16, <1>17, <1>18, <1>19 DEF Next

-----------------------------------------------------------------------------
\* The client starts in its invariant.
LEMMA Start == Init => Types /\ Recent /\ Heeded /\ Once
<1> SUFFICES ASSUME Init PROVE Types /\ Recent /\ Heeded /\ Once
  OBVIOUS
<1> DEFINE c == Call("whoami", {}, FALSE)
<1>1. /\ c \in Calls /\ Answered(c) /\ c.answer = {} /\ ~c.hooked /\ ~Writes(c)
      /\ calls = <<c>>
  BY NewCall DEF Call, Writes, Init
<1> HIDE DEF c
<1>2. /\ calls \in Seq(Calls) /\ DOMAIN calls = {1} /\ Answered(calls[1])
      /\ calls[1].answer = {} /\ ~calls[1].hooked /\ ~Writes(calls[1])
  <2>1. calls \in Seq(Calls) /\ Len(calls) = 1 /\ calls[1] = c
    BY <1>1
  <2> QED
    BY <1>1, <2>1, LenProperties
<1>3. Types
  <2>1. engine \in [session : Sessions, allowed : [Subjects -> BOOLEAN], writes : Seq(Nat)]
    BY DEF Init, Sessions
  <2> QED
    BY <1>2, <2>1 DEF Init, Types, Hooks, Sessions
<1>4. Recent
  BY <1>2 DEF Init, Recent, Young, DecisionsAreRecent
<1>5. Heeded
  BY <1>2 DEF Init, Heeded, Heeds, Awaited
<1>6. Once
  <2>1. engine.writes = <<>>
    BY DEF Init
  <2> QED
    BY <1>2, <2>1 DEF Once, Single, WritesAreDoneOnce
<1> QED
  BY <1>3, <1>4, <1>5, <1>6

\* The types of the SDK's state and the three invariants about its calls in flight
\* hold of every behaviour of the client, the provider and the hook.
THEOREM Invariance == Spec => [](Types /\ Recent /\ Heeded /\ Once)
<1>1. Types /\ Recent /\ Heeded /\ Once /\ [Next]_vars => (Types /\ Recent /\ Heeded /\ Once)'
  BY TypeStep, RecentStep, HeedStep, OnceStep
<1> QED
  BY Start, <1>1, PTL DEF Spec

\* request() does not send again a call that may have been carried out: a write is
\* done at most once, whatever fails and whenever a timer fires.
THEOREM WritesOnce == Spec => []WritesAreDoneOnce
<1>1. Once => WritesAreDoneOnce
  BY DEF Once
<1> QED
  BY Invariance, <1>1, PTL

\* A decision that check() hands out is at most a timeout and a lifetime of the
\* cache old, for any values of the two.
THEOREM RecentDecisions == Spec => []DecisionsAreRecent
<1>1. Recent => DecisionsAreRecent
  BY DEF Recent
<1> QED
  BY Invariance, <1>1, PTL

\* Once the effect of usePermission has run for the provider's session and the hook
\* is not checking, what it allows was decided about that subject: a late answer
\* about another is ignored.  In the render between setSession and the effect the
\* hook still returns what it allowed before; the theorem says nothing of it.
THEOREM PermissionOfTheSession == Spec => []AllowedIsOfTheSession
<1>1. Heeded => AllowedIsOfTheSession
  BY DEF Heeded, Heeds, AllowedIsOfTheSession
<1> QED
  BY Invariance, <1>1, PTL
=============================================================================
