-------------------------- MODULE RateLimitSemaphore --------------------------
(***************************************************************************)
(* open-sse/services/rateLimitSemaphore.ts for one key: the per-model       *)
(* concurrency limiter of round-robin combos, also behind the quota-share   *)
(* and nvidia gates.                                                        *)
(*                                                                          *)
(* A gate object can outlive its entry in the gates map: the timers of      *)
(* markRateLimited close over the object, while drainQueue looks the key up *)
(* again.  So gate objects have an identity here, and registered names the  *)
(* one the map holds.  Every function runs to completion without an await:  *)
(* one call is one action.                                                  *)
(***************************************************************************)
EXTENDS Integers, FiniteSets, SequencesExt

CONSTANTS
  Requests,    \* callers: acquire, run, release, again
  GateIds,     \* gate objects; one more than MaxTimers is always enough
  Cap,         \* the maxConcurrency every caller of this key passes
  DefaultCap,  \* the default of getGate, 3
  QueueDepth,  \* maxQueueSize
  Cooldowns,   \* the cooldownMs a failing request may mark, in ticks
  Grace,       \* the 50 ms added to the drain timer, in ticks
  MaxTimers    \* bound on pending drain timers

\* rateLimitedUntil = null.
NoPause == -1
\* The key is not in the gates map.
NoGate == "none"

ASSUME SemaphoreAssumption ==
  /\ IsFiniteSet(Requests) /\ NoGate \notin GateIds
  /\ Cap \in Nat \ {0} /\ DefaultCap \in Nat \ {0}
  /\ QueueDepth \in Nat /\ Grace \in Nat \ {0} /\ MaxTimers \in Nat
  /\ Cooldowns \subseteq Nat \ {0}

VARIABLES
  gates,       \* gate object -> running, max, queue, pause (ticks left; 0: elapsed, not yet noticed)
  registered,  \* the gate object in the map, or NoGate
  req,         \* request -> "idle" | "waiting" | "running"
  timers,      \* pending drain timers of markRateLimited
  cooldown     \* history: ticks left of the cooldown marked last

vars == <<gates, registered, req, timers, cooldown>>

GateRecords ==
  [running : 0..Cardinality(Requests), max : {Cap, DefaultCap}, queue : Seq(Requests),
   pause : Nat \union {NoPause}]

\* Types of the variables.
TypeOK ==
  /\ gates \in [GateIds -> GateRecords]
  /\ registered \in GateIds \union {NoGate}
  /\ req \in [Requests -> {"idle", "waiting", "running"}]
  /\ timers \subseteq [gate : GateIds, left : Nat]
  /\ cooldown \in Nat

NewGate == [running |-> 0, max |-> Cap, queue |-> <<>>, pause |-> NoPause]

Init ==
  /\ gates = [g \in GateIds |-> NewGate]
  /\ registered = NoGate
  /\ req = [r \in Requests |-> "idle"]
  /\ timers = {}
  /\ cooldown = 0

-----------------------------------------------------------------------------
(* Gates.                                                                   *)

Limited(gate) == gate.pause > 0

\* isRateLimited forgets a pause that has elapsed.
Noticed(gate) == [gate EXCEPT !.pause = IF @ = 0 THEN NoPause ELSE @]

Idle(gate) == gate.running = 0 /\ gate.queue = <<>>

\* getGate(key, cap) hands out object g: the registered one, or a new one (an
\* object no timer refers to).  Its max is overwritten with cap.
Hands(g) == registered = g \/ (registered = NoGate /\ \A t \in timers : t.gate # g)
GetGate(g, cap) == [(IF registered = g THEN gates[g] ELSE NewGate) EXCEPT !.max = cap]

\* How many waiters drainQueue admits from gate.
Admissible(gate) ==
  IF Limited(gate) THEN 0 ELSE Max({0, Min({Len(gate.queue), gate.max - gate.running})})

\* Mutant of Admit: drainQueue without gate.running++.
AdmitUncounted(gate, n) == [gate EXCEPT !.queue = SubSeq(@, n + 1, Len(@))]

\* The gate after its first n waiters have been admitted.
Admit(gate, n) ==
  IF n = 0 THEN gate
  ELSE [Noticed(gate) EXCEPT !.running = @ + n, !.queue = SubSeq(@, n + 1, Len(@))]

\* The gates after object g of gs has become gate: it is dropped from the map if
\* nobody uses it (its timers keep the object).
Store(gs, g, gate) ==
  IF Idle(gate)
  THEN gates' = [gs EXCEPT ![g] = [NewGate EXCEPT !.pause = gate.pause]] /\ registered' = NoGate
  ELSE gates' = [gs EXCEPT ![g] = gate] /\ registered' = g

\* The same without the check.
Keep(g, gate) == gates' = [gates EXCEPT ![g] = gate] /\ registered' = g

\* drainQueue(key), starting from gates gs and requests rq.
Drain(gs, rq) ==
  LET gate == gs[registered]
      n == Admissible(gate)
      woken == {gate.queue[i] : i \in 1..n}
  IN  /\ Store(gs, registered, Admit(gate, n))
      /\ req' = [q \in Requests |-> IF q \in woken THEN "running" ELSE rq[q]]

-----------------------------------------------------------------------------
(* acquire().                                                               *)

\* A slot is free and the key is not paused: admitted at once, past any queue.
AcquireFast(r, g) ==
  LET gate == GetGate(g, Cap) IN
  /\ req[r] = "idle" /\ Hands(g)
  /\ gate.running < gate.max /\ ~Limited(gate)
  /\ Keep(g, [Noticed(gate) EXCEPT !.running = @ + 1])
  /\ req' = [req EXCEPT ![r] = "running"]
  /\ UNCHANGED <<timers, cooldown>>

MustWait(gate) == gate.running >= gate.max \/ Limited(gate)

\* SEMAPHORE_QUEUE_FULL; an idle gate is dropped.
AcquireFull(r, g) ==
  LET gate == GetGate(g, Cap) IN
  /\ req[r] = "idle" /\ Hands(g)
  /\ MustWait(gate) /\ Len(gate.queue) >= QueueDepth
  /\ Store(gates, g, gate)
  /\ UNCHANGED <<req, timers, cooldown>>

AcquireQueues(r, g) ==
  LET gate == GetGate(g, Cap) IN
  /\ req[r] = "idle" /\ Hands(g)
  /\ MustWait(gate) /\ Len(gate.queue) < QueueDepth
  /\ Keep(g, [gate EXCEPT !.queue = Append(@, r)])
  /\ req' = [req EXCEPT ![r] = "waiting"]
  /\ UNCHANGED <<timers, cooldown>>

\* Mutant of Timeout: the waiter is rejected but stays in the queue.
TimeoutKeepsPlace(r) ==
  /\ req[r] = "waiting"
  /\ req' = [req EXCEPT ![r] = "idle"]
  /\ UNCHANGED <<gates, registered, timers, cooldown>>

\* SEMAPHORE_TIMEOUT: the waiter leaves the queue.
Timeout(r) ==
  /\ req[r] = "waiting"
  /\ gates' = [gates EXCEPT ![registered].queue = RemoveFirst(@, r)]
  /\ req' = [req EXCEPT ![r] = "idle"]
  /\ UNCHANGED <<registered, timers, cooldown>>

-----------------------------------------------------------------------------
(* A running request.                                                       *)

\* Mutant of MarkRateLimited: the drain timer is not scheduled.
MarkWithoutTimer(r, d) ==
  /\ req[r] = "running"
  /\ gates' = [gates EXCEPT ![registered].pause = d, ![registered].max = DefaultCap]
  /\ cooldown' = d
  /\ UNCHANGED <<registered, req, timers>>

\* markRateLimited after a transient upstream error, while the slot is still held:
\* getGate(key) is called without a cap.
MarkRateLimited(r, d) ==
  /\ req[r] = "running"
  /\ Cardinality(timers) < MaxTimers
  /\ gates' = [gates EXCEPT ![registered].pause = d, ![registered].max = DefaultCap]
  /\ timers' = timers \union {[gate |-> registered, left |-> d + Grace]}
  /\ cooldown' = d
  /\ UNCHANGED <<registered, req>>

\* Mutant of Release: the release function without its released flag and its
\* running > 0 check, called twice.
ReleaseTwice(r) ==
  /\ req[r] = "running"
  /\ Drain([gates EXCEPT ![registered].running = @ - 2], [req EXCEPT ![r] = "idle"])
  /\ UNCHANGED <<timers, cooldown>>

\* The release function (idempotent: the request holds it once).
Release(r) ==
  /\ req[r] = "running"
  /\ Drain([gates EXCEPT ![registered].running = @ - 1], [req EXCEPT ![r] = "idle"])
  /\ UNCHANGED <<timers, cooldown>>

-----------------------------------------------------------------------------
(* The timers of markRateLimited.  They may fire late.                      *)

\* The callback finds its gate's pause elapsed: it clears it, and drains the queue
\* of the gate now in the map.
TimerDrains(t) ==
  LET seen == [gates EXCEPT ![t.gate].pause = NoPause] IN
  /\ t.left = 0 /\ gates[t.gate].pause = 0
  /\ IF registered = NoGate THEN gates' = seen /\ UNCHANGED <<registered, req>> ELSE Drain(seen, req)
  /\ timers' = timers \ {t}
  /\ UNCHANGED cooldown

\* The callback finds no pause, or a later one.
TimerExpires(t) ==
  /\ t.left = 0 /\ gates[t.gate].pause # 0
  /\ timers' = timers \ {t}
  /\ UNCHANGED <<gates, registered, req, cooldown>>

Decremented(n) == IF n > 0 THEN n - 1 ELSE n

Tick ==
  /\ gates' = [g \in GateIds |-> [gates[g] EXCEPT !.pause = Decremented(@)]]
  /\ timers' = {[t EXCEPT !.left = Decremented(@)] : t \in timers}
  /\ cooldown' = Decremented(cooldown)
  /\ UNCHANGED <<registered, req>>

-----------------------------------------------------------------------------
Acquire(r) == \E g \in GateIds : AcquireFast(r, g) \/ AcquireFull(r, g) \/ AcquireQueues(r, g)

Next ==
  \/ \E r \in Requests : Acquire(r) \/ Timeout(r) \/ Release(r)
  \/ \E r \in Requests, d \in Cooldowns : MarkRateLimited(r, d)
  \/ \E t \in timers : TimerDrains(t) \/ TimerExpires(t)
  \/ Tick

Spec == Init /\ [][Next]_vars

-----------------------------------------------------------------------------
(* Safety.                                                                  *)

Running == {r \in Requests : req[r] = "running"}
Waiting == {r \in Requests : req[r] = "waiting"}

\* Every permit is accounted for by the gate in the map, whatever was deleted and
\* recreated meanwhile: its running count is the number of requests that will call
\* release, so none is lost and none is given back twice.
PermitsAccounted ==
  IF registered = NoGate THEN Running = {} ELSE gates[registered].running = Cardinality(Running)

\* Nobody waits in a queue that is no longer in the map: the waiters are exactly the
\* queue of the registered gate, each once.
WaitersReachable ==
  IF registered = NoGate THEN Waiting = {}
  ELSE LET queue == gates[registered].queue IN
       Waiting = {queue[i] : i \in DOMAIN queue} /\ Len(queue) = Cardinality(Waiting)

\* A queue with nobody running to drain it is drained later: "After expiry, the queue
\* drains automatically" - the pause is still on record and a timer of this very gate
\* fires no earlier than its end.
WakeupPending ==
  registered # NoGate /\ gates[registered].queue # <<>> /\ gates[registered].running = 0 =>
    /\ gates[registered].pause # NoPause
    /\ \E t \in timers : t.gate = registered /\ t.left >= gates[registered].pause

\* markRateLimited: "new acquisitions are blocked until the cooldown expires".
PauseHolds ==
  [][\A r \in Requests : req[r] # "running" /\ req'[r] = "running" => cooldown = 0]_vars

=============================================================================
