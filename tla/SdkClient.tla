----------------------------- MODULE SdkClient -----------------------------
(***************************************************************************)
(* The TypeScript SDK: the client with its retries, timeouts and cache of  *)
(* decisions, and the React provider and permission hook on top of it, in  *)
(* front of an Ego that knows who is signed in and a Nexus that decides.   *)
(*                                                                         *)
(* Time passes in ticks; only ages are kept, up to Old.  The timer of an   *)
(* attempt fires on time.  A request that fails or times out may have been *)
(* carried out.                                                            *)
(***************************************************************************)
EXTENDS Integers, Sequences, SequencesExt

CONSTANTS
  Subjects,      \* identities, each with one decision of Nexus about it
  timeoutMs,     \* ticks an attempt may take
  cacheTtlMs,    \* ticks a decision is cached
  maxRetries,    \* attempts after the first one
  MaxCalls,      \* calls the application makes
  MaxChanges     \* changes at Ego and Nexus

ASSUME SdkAssumption ==
  /\ timeoutMs \in Nat \ {0} /\ cacheTtlMs \in Nat \ {0}
  /\ maxRetries \in Nat /\ MaxCalls \in Nat /\ MaxChanges \in Nat

VARIABLES
  engine,     \* who is signed in, what Nexus decides, how often a write was done
  cache,      \* the decision cached about a subject, if any
  calls,      \* the calls of the client that have not been answered
  provider,   \* the state of AutorixProvider
  hook,       \* the state of usePermission, and the session its effect ran for
  returned,   \* the decision that was last handed out, with its age
  left        \* calls and changes that may still come

vars == <<engine, cache, calls, provider, hook, returned, left>>

Old == timeoutMs + cacheTtlMs + 1
Older(age) == IF age < Old THEN age + 1 ELSE Old

-----------------------------------------------------------------------------
\* A call that is retried whatever it does.
CallRetried(op, of, hooked) ==
  [op |-> op, of |-> of, hooked |-> hooked, retry |-> TRUE,
   attempt |-> 0, stage |-> "waiting", elapsed |-> 0, answer |-> {}]

\* A call before its first attempt: by default what only reads is retried.
Call(op, of, hooked) ==
  [op |-> op, of |-> of, hooked |-> hooked, retry |-> op = "whoami",
   attempt |-> 0, stage |-> "waiting", elapsed |-> 0, answer |-> {}]

\* What a check that failed says.
NoAnswer == [allowed |-> FALSE, age |-> 0]

\* The same for a hook without its flag.
StillHooked(cs) == cs

\* The cleanup of the hook's effect: an answer to the question asked for the old
\* subject will be ignored.
Unhooked(cs) == [i \in DOMAIN cs |-> [cs[i] EXCEPT !.hooked = FALSE]]

\* The cached decision about a subject, whether it has expired or not.
CachedEver(s) == cache[s]

\* The cached decision about a subject, unless it has expired.
Cached(s) == {e \in cache[s] : e.stored < cacheTtlMs}

Init ==
  /\ \E S \in {{}} \cup {{s} : s \in Subjects} :
       engine = [session |-> S, allowed |-> [s \in Subjects |-> TRUE], writes |-> <<>>]
  /\ cache = [s \in Subjects |-> {}]
  /\ calls = <<Call("whoami", {}, FALSE)>>
  /\ provider = [session |-> {}, loading |-> TRUE]
  /\ hook = [allowed |-> FALSE, checking |-> FALSE, of |-> {}, session |-> {}]
  /\ returned = {}
  /\ left = [calls |-> MaxCalls, changes |-> MaxChanges]

-----------------------------------------------------------------------------
\* The hook h is told a decision about of.
Told(h, of, d) == [h EXCEPT !.allowed = d.allowed, !.checking = FALSE, !.of = of]

\* A decision is handed to the application, or to the hook if it still waits.
HandOut(of, hooked, d) ==
  /\ returned' = {d}
  /\ hook' = IF hooked THEN Told(hook, of, d) ELSE hook

\* check(): from the cache, or by a call.
check(s, hooked, others, h) ==
  \/ \E e \in Cached(s) :
       /\ returned' = {[allowed |-> e.allowed, age |-> e.age]}
       /\ hook' = IF hooked THEN Told(h, {s}, e) ELSE h
       /\ calls' = others
  \/ /\ Cached(s) = {}
     /\ calls' = Append(others, Call("check", {s}, hooked))
     /\ hook' = h
     /\ UNCHANGED returned

\* The passive effect of the hook, after a commit with another subject: cleanup of
\* the last run, then setAllowed(false), or setChecking(true) and check().
usePermission ==
  /\ hook.session # provider.session
  /\ \/ /\ provider.session = {}
        /\ calls' = Unhooked(calls)
        /\ hook' = [hook EXCEPT !.allowed = FALSE, !.checking = FALSE, !.session = {}]
        /\ UNCHANGED returned
     \/ \E s \in provider.session :
          check(s, TRUE, Unhooked(calls), [hook EXCEPT !.checking = TRUE, !.session = {s}])
  /\ UNCHANGED <<engine, cache, provider, left>>

Calling == left.calls > 0 /\ left' = [left EXCEPT !.calls = @ - 1]

refreshSession ==
  /\ Calling
  /\ provider' = [provider EXCEPT !.loading = TRUE]
  /\ calls' = Append(calls, Call("whoami", {}, FALSE))
  /\ UNCHANGED <<engine, cache, hook, returned>>

Check ==
  /\ Calling
  /\ \E s \in Subjects : check(s, FALSE, calls, hook)
  /\ UNCHANGED <<engine, cache, provider>>

\* Writes of every kind: tuples, policies, keys.
Write ==
  /\ Calling
  /\ calls' = Append(calls, Call("write", {Len(engine.writes) + 1}, FALSE))
  /\ engine' = [engine EXCEPT !.writes = Append(@, 0)]
  /\ UNCHANGED <<cache, provider, hook, returned>>

logout ==
  /\ Calling
  /\ calls' = Append(calls, Call("logout", {}, FALSE))
  /\ UNCHANGED <<engine, cache, provider, hook, returned>>

-----------------------------------------------------------------------------
\* One attempt of request(): it is sent, after a delay that grows.
Attempt(i) ==
  /\ calls[i].stage = "waiting"
  /\ calls' = [calls EXCEPT ![i].stage = "sent", ![i].elapsed = 0]
  /\ UNCHANGED <<engine, cache, provider, hook, returned, left>>

\* The request is carried out.
Done(c) ==
  CASE c.op = "write" -> [engine EXCEPT !.writes = [w \in DOMAIN @ |->
                            IF w \in c.of THEN @[w] + 1 ELSE @[w]]]
    [] c.op = "logout" -> [engine EXCEPT !.session = {}]
    [] OTHER -> engine

Says(c) ==
  CASE c.op = "check" -> {[allowed |-> \A s \in c.of : engine.allowed[s], age |-> 0]}
    [] c.op = "whoami" -> engine.session
    [] OTHER -> {}

Serve(i) ==
  /\ calls[i].stage = "sent"
  /\ engine' = Done(calls[i])
  /\ calls' = [calls EXCEPT ![i].stage = "served", ![i].answer = Says(calls[i])]
  /\ UNCHANGED <<cache, provider, hook, returned, left>>

\* The answer of whoami is a session or none: both end the loading.  setSession
\* is committed; the effect of the hook runs after that, and may see only the last
\* of several sessions.
Session(i) ==
  /\ calls[i].op = "whoami"
  /\ provider' = [session |-> calls[i].answer, loading |-> FALSE]
  /\ calls' = RemoveAt(calls, i)
  /\ UNCHANGED <<cache, hook, returned>>

Decision(i) ==
  /\ calls[i].op = "check"
  /\ \E d \in calls[i].answer :
       /\ cache' = [cache EXCEPT ![CHOOSE s \in calls[i].of : TRUE] =
                      {[allowed |-> d.allowed, age |-> d.age, stored |-> 0]}]
       /\ HandOut(calls[i].of, calls[i].hooked, d)
  /\ calls' = RemoveAt(calls, i)
  /\ UNCHANGED provider

Receive(i) ==
  /\ calls[i].stage = "served"
  /\ \/ Session(i)
     \/ Decision(i)
     \/ /\ calls[i].op \in {"write", "logout"}
        /\ calls' = RemoveAt(calls, i)
        /\ UNCHANGED <<cache, provider, hook, returned>>
  /\ UNCHANGED <<engine, left>>

\* The retry that does not count.
AgainUncounted(i) ==
  calls' = [calls EXCEPT ![i].stage = "waiting", ![i].answer = {}]

\* The call has failed for good.  A check is denied, and nothing is cached.  An
\* error of whoami is not caught: the provider is loading for ever.
Failed(i) ==
  /\ calls' = RemoveAt(calls, i)
  /\ IF calls[i].op = "check" THEN HandOut(calls[i].of, calls[i].hooked, NoAnswer)
     ELSE UNCHANGED <<hook, returned>>

Again(i) ==
  calls' = [calls EXCEPT ![i].stage = "waiting", ![i].attempt = @ + 1, ![i].answer = {}]

\* The attempt fails: by the timer, in the network, or with a status that is
\* retried or is not.  The engine may have carried it out.
Fail(i) ==
  LET c == calls[i] IN
  /\ c.stage \in {"sent", "served"}
  /\ engine' \in IF c.stage = "sent" THEN {engine, Done(c)} ELSE {engine}
  /\ \/ c.retry /\ c.attempt < maxRetries /\ Again(i) /\ UNCHANGED <<hook, returned>>
     \/ ~(c.retry /\ c.attempt < maxRetries) /\ Failed(i)
     \/ c.stage = "sent" /\ c.elapsed < timeoutMs /\ Failed(i)
  /\ UNCHANGED <<cache, provider, left>>

-----------------------------------------------------------------------------
\* Somebody signs in or out at Ego, or Nexus comes to another decision.
Elsewhere ==
  /\ left.changes > 0
  /\ left' = [left EXCEPT !.changes = @ - 1]
  /\ \/ \E S \in {{}} \cup {{s} : s \in Subjects} :
          S # engine.session /\ engine' = [engine EXCEPT !.session = S]
     \/ \E s \in Subjects : engine' = [engine EXCEPT !.allowed[s] = ~@]
  /\ UNCHANGED <<cache, calls, provider, hook, returned>>

Aged(d) == [d EXCEPT !.age = Older(@)]

Tick ==
  /\ \A i \in DOMAIN calls : calls[i].stage # "waiting" => calls[i].elapsed < timeoutMs
  /\ cache' = [s \in Subjects |-> {[Aged(e) EXCEPT !.stored = Older(@)] : e \in cache[s]}]
  /\ calls' = [i \in DOMAIN calls |->
       LET c == calls[i] IN
       [c EXCEPT !.elapsed = IF c.stage = "waiting" THEN 0 ELSE @ + 1,
                 !.answer = IF c.op = "check" THEN {Aged(d) : d \in @} ELSE @]]
  /\ returned' = {}
  /\ UNCHANGED <<engine, provider, hook, left>>

Next ==
  \/ refreshSession \/ Check \/ Write \/ logout \/ Elsewhere \/ Tick \/ usePermission
  \/ \E i \in DOMAIN calls : Attempt(i) \/ Serve(i) \/ Receive(i) \/ Fail(i)

\* The event loop runs: delays end, timers fire, effects run after a commit.
Fairness ==
  /\ WF_vars(Tick)
  /\ WF_vars(usePermission)
  /\ WF_vars(\E i \in DOMAIN calls : Attempt(i))
  /\ WF_vars(\E i \in DOMAIN calls : calls[i].elapsed = timeoutMs /\ Fail(i))

Spec == Init /\ [][Next]_vars /\ Fairness

-----------------------------------------------------------------------------
\* A write is carried out at most once for each call, whatever becomes of the
\* responses: request() does not send again what may have been done.
WritesAreDoneOnce == \A w \in DOMAIN engine.writes : engine.writes[w] <= 1

\* A decision that is handed out was Nexus's at most a lifetime of the cache and a
\* timeout ago: entries expire, and a response is not awaited longer than that.
DecisionsAreRecent == \A d \in returned : d.age <= timeoutMs + cacheTtlMs

\* Once the effect of the hook has run for who is signed in and the hook is not
\* checking, what it allows was decided about that subject: the answer about an
\* earlier session is ignored, however late.  Until the effect has run (the render
\* that setSession commits) the hook still returns what it allowed the subject
\* before, with checking false, and takes an answer about that subject.
AllowedIsOfTheSession ==
  hook.session = provider.session /\ ~hook.checking /\ hook.allowed =>
    hook.of = provider.session

\* Every call comes to an end: attempts time out, and there are only so many.  So
\* does what the hook does about a session: it does not stay checking.
EveryCallSettles ==
  <>[](calls = <<>> /\ ~hook.checking /\ hook.session = provider.session)
=============================================================================
