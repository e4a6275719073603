--------------------------- MODULE AccountSemaphore ---------------------------
(***************************************************************************)
(* open-sse/services/accountSemaphore.ts: one request is admitted by every  *)
(* gate it needs (global, provider, account) at once, or waits in the queue *)
(* of each of them without holding any.                                     *)
(*                                                                          *)
(* Every function runs to completion without an await: one call, one timer  *)
(* or one abort is one action.  queuedRequests, a Set in insertion order,   *)
(* is the sequence waiting.  blockedUntil is the ticks left of the block;   *)
(* clearing one that has elapsed is not observable.                         *)
(***************************************************************************)
EXTENDS Integers, FiniteSets, SequencesExt, Subsequences

CONSTANTS
  Requests,   \* callers of acquireMany: admitted, then release, again
  KeyOrder,   \* the gate keys, in the order of sort()
  KeySets,    \* the sets of enabled keys a request may need
  Limits,     \* key -> the values its maxConcurrency may be configured to
  Accounts,   \* the keys markBlocked is called with
  QueueDepth, \* maxQueueSize (0: unbounded)
  Blocks      \* durations markBlocked may be given, in ticks

Keys == Range(KeyOrder)
MaxBlock == Max(Blocks \union {0})

ASSUME AccountAssumption ==
  /\ IsFiniteSet(Requests)
  /\ IsInjective(KeyOrder)
  /\ KeySets \subseteq (SUBSET Keys) \ {{}}
  /\ \A k \in Keys : Limits[k] \subseteq Nat \ {0} /\ IsFiniteSet(Limits[k]) /\ Limits[k] # {}
  /\ Accounts \subseteq Keys
  /\ QueueDepth \in Nat
  /\ IsFiniteSet(Blocks) /\ Blocks \subseteq Nat \ {0}

VARIABLES
  gates,     \* key -> its gate; open = FALSE when the map has none
  waiting,   \* queuedRequests
  needs,     \* request -> the keys it waits for or holds; {} when it does neither
  held,      \* requests whose release function has not been called yet
  stale,     \* history: request -> keys it holds of a gate that was reset since
  robbed,    \* history: keys whose gate took back a permit another gate had given
  unnoticed  \* history: keys that gained room since the last drainQueues

vars == <<gates, waiting, needs, held, stale, robbed, unnoticed>>

\* Types of the variables.
TypeOK ==
  /\ gates \in [Keys -> [open : BOOLEAN, running : 0..Cardinality(Requests), max : Nat,
                         queue : Seq(Requests), blocked : 0..MaxBlock, cleanup : BOOLEAN]]
  /\ waiting \in Seq(Requests)
  /\ needs \in [Requests -> KeySets \union {{}}]
  /\ held \subseteq Requests
  /\ stale \in [Requests -> SUBSET Keys]
  /\ robbed \subseteq Keys /\ unnoticed \subseteq Keys

NoGate == [open |-> FALSE, running |-> 0, max |-> 0, queue |-> <<>>, blocked |-> 0, cleanup |-> FALSE]

Init ==
  /\ gates = [k \in Keys |-> NoGate]
  /\ waiting = <<>>
  /\ needs = [r \in Requests |-> {}]
  /\ held = {}
  /\ stale = [r \in Requests |-> {}]
  /\ robbed = {} /\ unnoticed = {}

-----------------------------------------------------------------------------
(* Gates.                                                                   *)

\* ensureGate.
Ensured(gate, max) ==
  IF gate.open THEN [gate EXCEPT !.max = max] ELSE [NoGate EXCEPT !.open = TRUE, !.max = max]

HasRoom(gate) == gate.open /\ gate.blocked = 0 /\ gate.running < gate.max

\* Mutant of CanAcquire: without the check that r heads every queue.
CanAcquireOutOfTurn(gs, nd, r) == \A k \in nd[r] : HasRoom(gs[k])

\* canAcquire, r needing the keys nd[r].
CanAcquire(gs, nd, r) ==
  \A k \in nd[r] : HasRoom(gs[k]) /\ gs[k].queue # <<>> /\ Head(gs[k].queue) = r

\* scheduleCleanup, for a gate nobody uses.
Idle(gate) == gate.open /\ gate.running = 0 /\ gate.queue = <<>>
CleanedSoon(gate) == [gate EXCEPT !.cleanup = @ \/ Idle(gate)]

\* s without r.
Without(s, r) == Kept(s, Requests \ {r})

\* Mutant of Removed: r stays in the queues of the gates that are running.
RemovedWhereIdle(gs, K, r) ==
  [k \in Keys |-> IF k \in K /\ gs[k].running = 0
                  THEN CleanedSoon([gs[k] EXCEPT !.queue = Without(@, r)]) ELSE gs[k]]

\* removeRequest: r leaves the queues of its keys K.
Removed(gs, K, r) ==
  [k \in Keys |-> IF k \in K THEN CleanedSoon([gs[k] EXCEPT !.queue = Without(@, r)]) ELSE gs[k]]

\* running++ on every key of K.
Entered(gs, K) == [k \in Keys |-> IF k \in K THEN [gs[k] EXCEPT !.running = @ + 1] ELSE gs[k]]

\* Mutant of AdmitFirst: an admitted request stays in queuedRequests.
AdmitKeepsQueued(s, nd) ==
  LET able == {i \in DOMAIN s.queued : CanAcquire(s.gates, nd, s.queued[i])} IN
  IF able = {} THEN s
  ELSE LET r == s.queued[Min(able)] IN
       [gates |-> Entered(Removed(s.gates, nd[r], r), nd[r]), queued |-> s.queued,
        admitted |-> s.admitted \union {r}]

\* One round of drainQueues on s, a record of the gates, the queued requests and the
\* requests admitted so far: the first queued request that can acquire is admitted.
AdmitFirst(s, nd) ==
  LET able == {i \in DOMAIN s.queued : CanAcquire(s.gates, nd, s.queued[i])} IN
  IF able = {} THEN s
  ELSE LET r == s.queued[Min(able)] IN
       [gates |-> Entered(Removed(s.gates, nd[r], r), nd[r]),
        queued |-> Without(s.queued, r),
        admitted |-> s.admitted \union {r}]

\* Mutant of Drained: a single round.
DrainedOnce(gs, queued, nd) == AdmitFirst([gates |-> gs, queued |-> queued, admitted |-> {}], nd)

\* drainQueues: rounds until one makes no progress; each admits one queued request.
Drained(gs, queued, nd) ==
  LET round[i \in 0..Len(queued)] ==
        IF i = 0 THEN [gates |-> gs, queued |-> queued, admitted |-> {}]
        ELSE AdmitFirst(round[i - 1], nd)
  IN round[Len(queued)]

\* The step calls drainQueues with gates gs, queuedRequests queued (needing nd) and
\* permits held by holders, and then schedules the cleanup of those of K that nobody uses.
Drain(gs, queued, nd, holders, K) ==
  LET s == Drained(gs, queued, nd) IN
  /\ gates' = [k \in Keys |-> IF k \in K THEN CleanedSoon(s.gates[k]) ELSE s.gates[k]]
  /\ waiting' = s.queued
  /\ held' = holders \union s.admitted
  /\ needs' = nd
  /\ unnoticed' = {}

-----------------------------------------------------------------------------
(* acquireMany().                                                           *)

Full(k) == QueueDepth > 0 /\ Len(gates[k].queue) >= QueueDepth

\* The gates after the loop over keys has ensured those of T, with limits lim.
Touched(T, lim) ==
  [k \in Keys |-> IF k \in T THEN [Ensured(gates[k], lim[k]) EXCEPT !.cleanup = FALSE] ELSE gates[k]]

\* The keys of K up to and including k, in the order of the loop.
UpTo(K, k) == {KeyOrder[i] : i \in 1..(CHOOSE i \in DOMAIN KeyOrder : KeyOrder[i] = k)} \intersect K

\* SEMAPHORE_QUEUE_FULL at key f: the gates before it are created, or take their new
\* limit, all the same.
AcquireFull(r, K, lim) ==
  /\ needs[r] = {}
  /\ \E f \in K :
       /\ Full(f) /\ \A k \in UpTo(K, f) \ {f} : ~Full(k)
       /\ gates' = Touched(UpTo(K, f), lim)
       /\ unnoticed' = unnoticed \union {k \in UpTo(K, f) : gates[k].open /\ lim[k] > gates[k].max}
  /\ UNCHANGED <<waiting, needs, held, stale, robbed>>

\* Every gate has room and no queue: admitted at once.
AcquireNow(r, K, lim) ==
  LET gs == Touched(K, lim) IN
  /\ needs[r] = {}
  /\ \A k \in K : ~Full(k) /\ gs[k].queue = <<>> /\ HasRoom(gs[k])
  /\ gates' = Entered(gs, K)
  /\ needs' = [needs EXCEPT ![r] = K]
  /\ held' = held \union {r}
  /\ UNCHANGED <<waiting, stale, robbed, unnoticed>>

\* Otherwise r joins the queue of each of its gates.
AcquireWaits(r, K, lim) ==
  LET gs == Touched(K, lim)
      queued == [k \in Keys |-> IF k \in K THEN [gs[k] EXCEPT !.queue = Append(@, r)] ELSE gs[k]]
  IN
  /\ needs[r] = {}
  /\ \A k \in K : ~Full(k)
  /\ \E k \in K : gs[k].queue # <<>> \/ ~HasRoom(gs[k])
  /\ Drain(queued, Append(waiting, r), [needs EXCEPT ![r] = K], held, {})
  /\ UNCHANGED <<stale, robbed>>

\* A waiting request times out or is aborted.
GivesUp(r) ==
  /\ r \in Range(waiting)
  /\ Drain(Removed(gates, needs[r], r), Without(waiting, r), [needs EXCEPT ![r] = {}], held, {})
  /\ UNCHANGED <<stale, robbed>>

-----------------------------------------------------------------------------
(* The release function: it looks its keys up again, whatever gate they have now. *)

\* Mutant of GivenBack: only the keys with one permit out are decremented.
GivenBackPartly(r) ==
  [k \in Keys |-> IF k \in needs[r] /\ gates[k].running = 1
                  THEN [gates[k] EXCEPT !.running = @ - 1] ELSE gates[k]]

\* Mutant of GivenBack: without the running > 0 check.
GivenBackUnguarded(r) ==
  [k \in Keys |-> IF k \in needs[r] THEN [gates[k] EXCEPT !.running = @ - 1] ELSE gates[k]]

\* Each key's gate, if it is still there, takes one permit back.
GivenBack(r) ==
  [k \in Keys |-> IF k \in needs[r] /\ gates[k].running > 0
                  THEN [gates[k] EXCEPT !.running = @ - 1] ELSE gates[k]]

Release(r) ==
  /\ r \in held
  /\ Drain(GivenBack(r), waiting, [needs EXCEPT ![r] = {}], held \ {r}, needs[r])
  /\ stale' = [stale EXCEPT ![r] = {}]
  /\ robbed' = robbed \union {k \in stale[r] : gates[k].running > 0}

-----------------------------------------------------------------------------
(* Blocks, resets, cleanup.                                                 *)

\* Quota exhaustion blocks an account.  Nothing drains the queues when it ends.
MarkBlocked(k, d) ==
  /\ gates' = [gates EXCEPT ![k] = [Ensured(@, IF @.open THEN @.max ELSE 1)
                                      EXCEPT !.blocked = d, !.cleanup = FALSE]]
  /\ UNCHANGED <<waiting, needs, held, stale, robbed, unnoticed>>

\* The gates of K are deleted: the permits out are no longer its business.
Forgotten(K) == stale' = [r \in Requests |-> IF r \in held THEN stale[r] \union (needs[r] \intersect K)
                                             ELSE {}]

\* reset(key): the waiters of that key are rejected, the gate is deleted.
Reset(k) ==
  LET out == {r \in Range(waiting) : k \in needs[r]}
      left == [j \in Keys |->
                 IF j = k THEN NoGate
                 ELSE IF \E r \in out : j \in needs[r]
                 THEN CleanedSoon([gates[j] EXCEPT !.queue = Kept(@, Requests \ out)])
                 ELSE gates[j]]
  IN
  /\ gates[k].open
  /\ Drain(left, Kept(waiting, Requests \ out),
           [r \in Requests |-> IF r \in out THEN {} ELSE needs[r]], held, {})
  /\ Forgotten({k})
  /\ robbed' = robbed \ {k}

\* resetAll(): the operator's POST /api/admin/concurrency?action=reset-semaphores.
ResetAll ==
  /\ \E k \in Keys : gates[k].open
  /\ gates' = [k \in Keys |-> NoGate]
  /\ waiting' = <<>>
  /\ needs' = [r \in Requests |-> IF r \in held THEN needs[r] ELSE {}]
  /\ Forgotten(Keys)
  /\ robbed' = {} /\ unnoticed' = {}
  /\ UNCHANGED held

\* unblock(key): drained, then deleted if idle.
Unblock(k) ==
  /\ gates[k].open
  /\ LET s == Drained([gates EXCEPT ![k].blocked = 0], waiting, needs) IN
     /\ gates' = IF Idle(s.gates[k]) THEN [s.gates EXCEPT ![k] = NoGate] ELSE s.gates
     /\ waiting' = s.queued
     /\ held' = held \union s.admitted
     /\ IF Idle(s.gates[k]) THEN Forgotten({k}) /\ robbed' = robbed \ {k}
        ELSE UNCHANGED <<stale, robbed>>
  /\ unnoticed' = {}
  /\ UNCHANGED needs

\* The callback of a scheduled cleanup.  On a blocked gate it only clears itself.
CleanupFires(k) ==
  LET gone == Idle(gates[k]) /\ gates[k].blocked = 0 IN
  /\ gates[k].cleanup
  /\ gates' = [gates EXCEPT ![k] = IF gone THEN NoGate ELSE [@ EXCEPT !.cleanup = FALSE]]
  /\ IF gone THEN Forgotten({k}) /\ robbed' = robbed \ {k} ELSE UNCHANGED <<stale, robbed>>
  /\ UNCHANGED <<waiting, needs, held, unnoticed>>

Tick ==
  /\ gates' = [k \in Keys |-> [gates[k] EXCEPT !.blocked = IF @ = 0 THEN 0 ELSE @ - 1]]
  /\ unnoticed' = unnoticed \union {k \in Keys : gates[k].blocked = 1}
  /\ UNCHANGED <<waiting, needs, held, stale, robbed>>

-----------------------------------------------------------------------------
Configured == {lim \in [Keys -> UNION {Limits[k] : k \in Keys}] : \A k \in Keys : lim[k] \in Limits[k]}

AcquireMany(r) ==
  \E K \in KeySets, lim \in Configured :
    AcquireFull(r, K, lim) \/ AcquireNow(r, K, lim) \/ AcquireWaits(r, K, lim)

Next ==
  \/ \E r \in Requests : AcquireMany(r) \/ GivesUp(r) \/ Release(r)
  \/ \E k \in Accounts, d \in Blocks : MarkBlocked(k, d)
  \/ \E k \in Keys : Reset(k) \/ Unblock(k) \/ CleanupFires(k)
  \/ ResetAll \/ Tick

Spec == Init /\ [][Next]_vars

-----------------------------------------------------------------------------
(* Safety.                                                                  *)

\* The requests a gate of key k admitted, not counting those of a gate reset since.
Admitted(k) == {r \in held : k \in needs[r] \ stale[r]}

\* The queues of the gates are the queued requests, in one common order: each waiter is
\* in the queue of every gate it needs and in no other, so the oldest waiter heads all
\* its queues and the queues cannot block each other in a circle.
QueuesAgree ==
  \A k \in Keys : gates[k].queue = Kept(waiting, {r \in Requests : k \in needs[r]})

\* A waiter holds nothing, and whoever is neither waiting nor holding has no keys.
WaitersHoldNothing ==
  /\ Range(waiting) \intersect held = {}
  /\ \A r \in Requests : needs[r] # {} <=> r \in held \union Range(waiting)

\* A gate counts exactly the permits it gave, across limit changes, cleanups, blocks and
\* resets, until a request admitted by an earlier gate releases into it.
PermitsAccounted ==
  \A k \in Keys :
    IF k \in robbed THEN gates[k].running <= Cardinality(Admitted(k))
    ELSE gates[k].running = Cardinality(Admitted(k))

\* Nobody waits while all its gates have room and it heads their queues, but for room
\* that came without an event: a block that ran out, a limit raised by a rejected call.
NoIdleCapacity ==
  \A r \in Range(waiting) : CanAcquire(gates, needs, r) => needs[r] \intersect unnoticed # {}

\* No step admits a request past one that has waited longer for a gate they share.
NoOvertaking ==
  [][\A r \in held' \ held, q \in Range(waiting) \intersect Range(waiting') :
       LET place(x) == CHOOSE i \in DOMAIN waiting : waiting[i] = x IN
       (r \in Range(waiting) => place(q) < place(r)) => needs'[r] \intersect needs[q] = {}]_vars
=============================================================================
