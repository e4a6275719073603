--------------------------- MODULE ProviderBreaker ---------------------------
(***************************************************************************)
(* One provider's circuit breaker and the requests that share it: the gate *)
(* and the dispatch of src/sse/handlers/chatHelpers.ts, the accounting of   *)
(* the outcome in src/sse/handlers/chat.ts (single-model requests) and in   *)
(* open-sse/services/accountFallback.ts (combo targets), persistence,       *)
(* manual reset and process restart.                                        *)
(*                                                                          *)
(* JavaScript runs each handler to its next await without interruption, so  *)
(* an action is the code between two awaits.  A request is                  *)
(*    idle -> gated -> inflight -> failed -> idle                           *)
(* and a combo target                                                       *)
(*    idle -> screened -> gated -> inflight -> failed | returned -> idle    *)
(* with awaits (credential selection, the upstream call, the marking of the *)
(* account) between those points, where other requests, the clock, an       *)
(* operator's reset or a crash interleave.                                  *)
(***************************************************************************)
EXTENDS CircuitBreaker

CONSTANTS
  Requests,     \* request slots: at most this many requests at once
  Modes,        \* the ways a request is routed, a subset of AllModes
  MaxAttempts,  \* re-dispatches of one request (next account, same-account retry)
  DedupWindow   \* CONNECTION_FAILURE_DEDUP_MS, in ticks

\* "single" and "combo" requests go through breaker.execute(); the pinned ones
\* (a forced connection) bypass gate and execute() but not the accounting.
AllModes == {"single", "combo", "pinned", "pinnedCombo"}
Combo  == {"combo", "pinnedCombo"}
Pinned == {"pinned", "pinnedCombo"}

ASSUME RequestAssumption ==
  /\ Modes \subseteq AllModes /\ Modes # {}
  /\ IsFiniteSet(Requests)
  /\ MaxAttempts \in Nat /\ DedupWindow \in Nat

VARIABLES
  breaker,   \* the registered CircuitBreaker instance
  row,       \* its row in domain_circuit_breakers
  req,       \* request -> where it is, how it is routed, re-dispatches so far
  dedup,     \* ticks left of the connection's failure-dedup window
  probes,    \* history: dispatches holding a slot of the current HALF_OPEN episode
  rejected   \* history: failed requests whose 503 the breaker produced itself

vars == <<breaker, row, req, dedup, probes, rejected>>

\* "failed": chat.ts holds a failed result; "returned": the combo loop holds the
\* response of a target that never got past the gate or the account selection.
Points == {"idle", "screened", "gated", "inflight", "failed", "returned"}

RequestStates == [pc : Points, mode : Modes \union {"none"}, attempts : 0..MaxAttempts]

\* Types of the variables.
TypeOK ==
  /\ breaker \in Breakers
  /\ row \in Rows
  /\ req \in [Requests -> RequestStates]
  /\ dedup \in 0..DedupWindow
  /\ probes \subseteq Requests
  /\ rejected \subseteq Requests

\* A free request slot.
Idle == [pc |-> "idle", mode |-> "none", attempts |-> 0]
AllIdle == [r \in Requests |-> Idle]

Init ==
  /\ breaker = Fresh
  /\ row = Row(Fresh)
  /\ req = AllIdle
  /\ dedup = 0
  /\ probes = {}
  /\ rejected = {}

At(r, p) == req[r].pc = p
Goto(r, p) == req' = [req EXCEPT ![r].pc = p]
Done(r) == req' = [req EXCEPT ![r] = Idle]

\* The breaker becomes b; a HALF_OPEN episode that begins here has no probe yet.
Become(b) ==
  /\ breaker' = b
  /\ probes' = IF breaker.state # "HALF_OPEN" /\ b.state = "HALF_OPEN" THEN {} ELSE probes

\* The same, when request r ends its dispatch with this step.
BecomeAfter(r, b) == breaker' = b /\ probes' = probes \ {r}

Persist(b) == row' = Row(b)
\* Mutant of PersistIfChanged: _refreshOpenState without _persistToDb.
Unsaved(b) == row' = row
PersistIfChanged(b) == row' = IF b = breaker THEN row ELSE Row(b)

-----------------------------------------------------------------------------
(* Readers: getStatus, canExecute and getRetryAfterMs from combo ordering,  *)
(* dashboards and health checks refresh an expired OPEN.                    *)

Poll ==
  /\ Refresh(breaker) # breaker
  /\ Become(Refresh(breaker))
  /\ Persist(Refresh(breaker))
  /\ UNCHANGED <<req, dedup, rejected>>

-----------------------------------------------------------------------------
(* Admission.                                                               *)

\* The combo loop skips a target whose breaker reads OPEN.
ScreenTarget(r, m) ==
  LET b == Refresh(breaker) IN
  /\ At(r, "idle") /\ m \in Combo
  /\ b.state # "OPEN"
  /\ Become(b)
  /\ PersistIfChanged(b)
  /\ req' = [req EXCEPT ![r] = [pc |-> "screened", mode |-> m, attempts |-> 0]]
  /\ UNCHANGED <<dedup, rejected>>

\* A request of mode m reaches checkPipelineGates.
AtGate(r, m) ==
  \/ m \notin Combo /\ At(r, "idle")
  \/ m \in Combo /\ At(r, "screened") /\ req[r].mode = m

\* Mutant of GateAdmits: checkPipelineGates without the canExecute() check.
GateIgnoresBreaker(r, m) ==
  /\ AtGate(r, m)
  /\ Become(Refresh(breaker))
  /\ Persist(Refresh(breaker))
  /\ req' = [req EXCEPT ![r].pc = "gated", ![r].mode = m]
  /\ UNCHANGED <<dedup, rejected>>

\* checkPipelineGates lets it through: getCircuitBreaker applies the options and
\* persists, canExecute refreshes; a pinned request ignores the answer.
GateAdmits(r, m) ==
  LET b == Refresh(breaker) IN
  /\ AtGate(r, m)
  /\ Admits(b) \/ m \in Pinned
  /\ Become(b)
  /\ Persist(b)
  /\ req' = [req EXCEPT ![r].pc = "gated", ![r].mode = m]
  /\ UNCHANGED <<dedup, rejected>>

\* The gate answers 503 provider_circuit_open.  A client is done; a combo reads
\* the 503 as the target's failure.
GateRejects(r, m) ==
  LET b == Refresh(breaker) IN
  /\ AtGate(r, m)
  /\ ~Admits(b) /\ m \notin Pinned
  /\ Become(b)
  /\ Persist(b)
  /\ IF m \in Combo
     THEN Goto(r, "returned") /\ rejected' = rejected \union {r}
     ELSE UNCHANGED <<req, rejected>>
  /\ UNCHANGED dedup

\* A gated request returns before any dispatch (no credentials, bad input).
BailOut(r) ==
  /\ At(r, "gated")
  /\ Done(r)
  /\ UNCHANGED <<breaker, row, dedup, probes, rejected>>

\* Every account is cooling down and the last error on record is a provider
\* status: chat.ts counts a failure with no upstream call.
AllAccountsLimited(r) ==
  LET b == OnFailure(breaker, NoKind) IN
  /\ At(r, "gated")
  /\ Become(b)
  /\ Persist(b)
  /\ IF req[r].mode \in Combo THEN Goto(r, "returned") ELSE Done(r)
  /\ UNCHANGED <<dedup, rejected>>

\* breaker.execute(): refresh, then take a slot if half-open, then call upstream.
Execute(r) ==
  LET b == Refresh(breaker) IN
  /\ At(r, "gated") /\ req[r].mode \notin Pinned
  /\ Admits(b)
  /\ breaker' = TakeSlot(b)
  /\ probes' = CASE b.state = "HALF_OPEN" /\ breaker.state = "HALF_OPEN" -> probes \union {r}
                 [] b.state = "HALF_OPEN" /\ breaker.state # "HALF_OPEN" -> {r}
                 [] OTHER -> probes
  /\ PersistIfChanged(b)
  /\ Goto(r, "inflight")
  /\ UNCHANGED <<dedup, rejected>>

\* execute() throws CircuitBreakerOpenError: the circuit opened, or the last slot
\* went, since the gate.  executeChatWithBreaker turns it into a failed 503 result.
ExecuteRejects(r) ==
  LET b == Refresh(breaker) IN
  /\ At(r, "gated") /\ req[r].mode \notin Pinned
  /\ ~Admits(b)
  /\ Become(b)
  /\ PersistIfChanged(b)
  /\ Goto(r, "failed")
  /\ rejected' = rejected \union {r}
  /\ UNCHANGED dedup

\* bypassCircuitBreaker: the upstream call without execute().
DispatchPinned(r) ==
  /\ At(r, "gated") /\ req[r].mode \in Pinned
  /\ Goto(r, "inflight")
  /\ UNCHANGED <<breaker, row, dedup, probes, rejected>>

-----------------------------------------------------------------------------
(* The upstream answers.                                                    *)

\* A single-model success: breaker._onSuccess() in whatever state it is now.
SingleSucceeds(r) ==
  LET b == OnSuccess(breaker) IN
  /\ At(r, "inflight") /\ req[r].mode \notin Combo
  /\ BecomeAfter(r, b)
  /\ Persist(b)
  /\ Done(r)
  /\ UNCHANGED <<dedup, rejected>>

\* recordProviderSuccess: refreshed by getStatus, ignored while still OPEN; it
\* ends the dedup window of its connection.
ComboSucceeds(r) ==
  LET b == Refresh(breaker)
      after == IF b.state = "OPEN" THEN b ELSE OnSuccess(b)
  IN
  /\ At(r, "inflight") /\ req[r].mode \in Combo
  /\ BecomeAfter(r, after)
  /\ IF b.state = "OPEN" THEN UNCHANGED <<row, dedup>> ELSE Persist(after) /\ dedup' = 0
  /\ Done(r)
  /\ UNCHANGED rejected

\* An outcome nobody accounts for: 429, 401, a request-scoped error, a client
\* abort, a stream-readiness timeout (classifyResult "ignore" in execute()).
OutcomeIgnored(r) ==
  /\ At(r, "inflight")
  /\ probes' = probes \ {r}
  /\ Done(r)
  /\ UNCHANGED <<breaker, row, dedup, rejected>>

\* A result with a provider status (408/5xx), still to be classified.
UpstreamFails(r) ==
  /\ At(r, "inflight")
  /\ probes' = probes \ {r}
  /\ Goto(r, "failed")
  /\ UNCHANGED <<breaker, row, dedup, rejected>>

\* execute() sees fn throw a countable error and counts it.  The error then
\* reaches the client (single-model), or comes back as a failed 5xx result:
\* "proxy unreachable" through executeChatWithBreaker's catch, anything else
\* through the combo runner's.
ExecuteThrows(r, kind) ==
  LET b == OnFailure(breaker, kind) IN
  /\ At(r, "inflight") /\ req[r].mode \notin Pinned
  /\ BecomeAfter(r, b)
  /\ IF KindTripped(b) THEN UNCHANGED row ELSE Persist(b)
  /\ \/ Goto(r, "failed")
     \/ req[r].mode \notin Combo /\ Done(r)
  /\ UNCHANGED <<dedup, rejected>>

-----------------------------------------------------------------------------
(* A failed result, after the awaits of the account bookkeeping.            *)

\* chat.ts goes round its loop: next account, or one same-account retry.  The
\* gate is not consulted again.
TryAgain(r) ==
  /\ At(r, "failed") /\ req[r].mode \notin Pinned
  /\ req[r].attempts < MaxAttempts
  /\ req' = [req EXCEPT ![r].pc = "gated", ![r].attempts = @ + 1]
  /\ rejected' = rejected \ {r}
  /\ UNCHANGED <<breaker, row, dedup, probes>>

\* Single-model: breaker._onFailure() with no look at the breaker's state.
SingleCounted(r) ==
  LET b == OnFailure(breaker, NoKind) IN
  /\ At(r, "failed") /\ req[r].mode \notin Combo
  /\ Become(b)
  /\ Persist(b)
  /\ Done(r)
  /\ rejected' = rejected \ {r}
  /\ UNCHANGED dedup

\* The combo loop has a failed response of r's target: it moves on, or retries the
\* same target, which goes to the gate again without another screening.
TargetFailed(r) == (At(r, "failed") \/ At(r, "returned")) /\ req[r].mode \in Combo

MoveOnOrRetry(r) ==
  /\ \/ Done(r)
     \/ /\ req[r].attempts < MaxAttempts
        /\ req' = [req EXCEPT ![r].pc = "screened", ![r].attempts = @ + 1]
  /\ rejected' = rejected \ {r}

\* The connection's dedup window is over, and starts again; a response from before
\* the account selection may name no connection, and then there is no window.
OncePerWindow(r) ==
  \/ dedup = 0 /\ dedup' = DedupWindow
  \/ At(r, "returned") /\ UNCHANGED dedup

\* Mutant of ComboRecorded: without "if (!breaker.canExecute()) return".
ComboRecordedWhileOpen(r) ==
  LET b == OnFailure(Refresh(breaker), NoKind) IN
  /\ TargetFailed(r)
  /\ OncePerWindow(r)
  /\ Become(b)
  /\ Persist(b)
  /\ MoveOnOrRetry(r)

\* recordProviderFailure: one failure per connection and dedup window, and none
\* while the breaker does not admit requests.
ComboRecorded(r) ==
  LET b == Refresh(breaker)
      after == IF Admits(b) THEN OnFailure(b, NoKind) ELSE b
  IN
  /\ TargetFailed(r)
  /\ OncePerWindow(r)
  /\ Become(after)
  /\ Persist(after)
  /\ MoveOnOrRetry(r)

\* The failure is not recorded: inside the dedup window, or exempt (the next
\* target has the same provider, a stream-readiness failure, a request-scoped one).
ComboDropped(r) ==
  /\ TargetFailed(r)
  /\ MoveOnOrRetry(r)
  /\ UNCHANGED <<breaker, row, dedup, probes>>

-----------------------------------------------------------------------------
(* The environment.                                                         *)

\* An operator's reset, in place.
ManualReset ==
  /\ Become(Reset(breaker))
  /\ Persist(Reset(breaker))
  /\ UNCHANGED <<req, dedup, rejected>>

\* The process dies and comes back: requests in flight are gone, the breaker is
\* rebuilt from its row, the dedup map is empty.
Restart ==
  /\ breaker' = Restore(row)
  /\ req' = AllIdle
  /\ dedup' = 0
  /\ probes' = {}
  /\ rejected' = {}
  /\ UNCHANGED row

Tick ==
  /\ breaker' = [breaker EXCEPT !.age = Older(@)]
  /\ row' = [row EXCEPT !.age = Older(@)]
  /\ dedup' = IF dedup = 0 THEN 0 ELSE dedup - 1
  /\ UNCHANGED <<req, probes, rejected>>

-----------------------------------------------------------------------------
Arrive(r) ==
  \E m \in Modes : ScreenTarget(r, m) \/ GateAdmits(r, m) \/ GateRejects(r, m)

Dispatch(r) ==
  BailOut(r) \/ AllAccountsLimited(r) \/ Execute(r) \/ ExecuteRejects(r) \/ DispatchPinned(r)

Answer(r) ==
  \/ SingleSucceeds(r) \/ ComboSucceeds(r) \/ OutcomeIgnored(r) \/ UpstreamFails(r)
  \/ \E k \in Kinds \union {NoKind} : ExecuteThrows(r, k)

Settle(r) == TryAgain(r) \/ SingleCounted(r) \/ ComboRecorded(r) \/ ComboDropped(r)

Step(r) == Dispatch(r) \/ Answer(r) \/ Settle(r)

Next ==
  \/ \E r \in Requests : Arrive(r) \/ Step(r)
  \/ Poll \/ ManualReset \/ Restart \/ Tick

Spec == Init /\ [][Next]_vars

\* The clock runs, traffic keeps arriving in every request slot (every recovery
\* is lazy: a caller drives it), and an admitted request comes to its end: each
\* await of the handler is bounded by a timeout.  Resets and crashes are nobody's duty.
Fairness ==
  /\ WF_vars(Tick)
  /\ \A r \in Requests : WF_vars(Arrive(r)) /\ WF_vars(Step(r))

FairSpec == Spec /\ Fairness

-----------------------------------------------------------------------------
(* Safety.                                                                  *)

\* b's state agrees with its failure count.
Banded(b) ==
  /\ b.state = "CLOSED" =>
       b.failureCount <= DegradationThreshold /\ b.failureCount < FailureThreshold
  /\ b.state = "DEGRADED" =>
       DegradationThreshold <= b.failureCount /\ b.failureCount < FailureThreshold

\* The state and the failure count agree across every path that changes one of
\* them (success, failure, probe, reset, restart): a CLOSED breaker is at most at
\* the degradation threshold and below the failure threshold, a DEGRADED one
\* between the two.  So one more failure always has its documented effect.
ThresholdBands == Banded(breaker)

\* The probes of the current HALF_OPEN episode still in flight and the slots left
\* never exceed halfOpenRequests, whatever late answers of earlier episodes,
\* polls, resets and restarts do in between.
ProbeBound ==
  breaker.state = "HALF_OPEN" =>
    breaker.halfOpenAllowed + Cardinality(probes) <= HalfOpenRequests

\* A crash at any await restores the breaker it killed: the row in
\* domain_circuit_breakers is the breaker's, unless _onFailure opened it on a
\* per-kind threshold (it returns before _persistToDb) and nobody saved it since.
DurableStateAgrees == row # Row(breaker) => KindTripped(breaker)

\* A tripped circuit closes only on evidence: some request in flight came back at
\* this very step, or an operator reset it.  Time, polling, rejected traffic,
\* failures of other requests and restarts never close it.
ClosesOnEvidence ==
  [][breaker.state \in {"OPEN", "HALF_OPEN"} /\ breaker'.state \in {"CLOSED", "DEGRADED"} =>
       \/ \E r \in Requests : At(r, "inflight") /\ req'[r] = Idle
       \/ breaker' = Reset(breaker)
       \/ KindTripped(breaker) /\ row # Row(breaker)]_vars

\* The backoff of a flapping provider is forgotten only when its circuit closes:
\* no poll, no late answer and no restart shortens the cooldown of a provider
\* that keeps failing its probes.
EscalationForgottenOnlyByClose ==
  [][breaker'.openCycleCount < breaker.openCycleCount => breaker'.state = "CLOSED"]_vars

\* recordProviderFailure: "If the breaker is already OPEN (in cooldown), we skip
\* recording the failure to prevent resetting the cooldown timer" - a combo target
\* that ends in failure never moves the running cooldown of an open circuit (the
\* row is for a restart that ends it: it restores what was saved).
ComboFailureKeepsCooldown ==
  [][\A r \in Requests :
       /\ TargetFailed(r) /\ req'[r].pc \in {"idle", "screened"}
       /\ breaker.state = "OPEN" /\ ~ShouldAttemptReset(breaker)
       => Row(breaker') \in {Row(breaker), row}]_vars

\* A 503 the breaker itself produced is "an OmniRoute resilience signal", not an
\* upstream failure (comboPredicates.ts), and nothing the provider never saw counts
\* against it (accountFallback.ts): settling such a request leaves failureCount alone.
OwnRejectionNotCounted ==
  [][\A r \in rejected :
       r \notin rejected' => breaker'.failureCount <= breaker.failureCount]_vars

-----------------------------------------------------------------------------
(* Liveness.                                                                *)

\* An open circuit is not open for ever: once traffic pinned to a connection, which
\* bypasses the gate, has stopped, the failures of the traffic it rejects do not
\* keep pushing its cooldown away.
OpenCools ==
  <>[](\A r \in Requests : req[r].mode \notin {"pinned", "pinnedCombo"})
    => (breaker.state = "OPEN") ~> (breaker.state # "OPEN")

\* RESILIENCE_GUIDE: HALF_OPEN means "probe request allowed", and recovery is lazy,
\* "no background timer needed": a HALF_OPEN breaker whose probes have all come back
\* leaves that state, or admits another probe.
SpentProbesRecover ==
  (breaker.state = "HALF_OPEN" /\ breaker.halfOpenAllowed = 0 /\ probes = {}) ~>
    (breaker.state # "HALF_OPEN" \/ breaker.halfOpenAllowed > 0)

=============================================================================
