--------------------------- MODULE CircuitBreaker ---------------------------
(***************************************************************************)
(* The CircuitBreaker class of src/shared/utils/circuitBreaker.ts, as       *)
(* operators from one breaker value to the next.  A breaker is a record of  *)
(* the fields of the class that decide its behaviour; the transition        *)
(* history and the onStateChange callback (logging) are left out.           *)
(*                                                                          *)
(* Time is relative: the code compares Date.now() - lastFailureTime with a  *)
(* cooldown and reads the clock for nothing else, so a breaker carries the  *)
(* age of its last failure, saturating at AgeCap.  The counters the code    *)
(* only compares with a threshold saturate as well (failureCount at         *)
(* CountCap, openCycleCount at CycleCap, a kind's count at its threshold);  *)
(* BreakerAssumption keeps every cap at or above the values compared.       *)
(***************************************************************************)
EXTENDS Integers, FiniteSets

CONSTANTS
  FailureThreshold,        \* failures that open the circuit
  DegradationThreshold,    \* failures that mark it DEGRADED
  HalfOpenRequests,        \* probes admitted per HALF_OPEN episode
  ResetTimeout,            \* base cooldown, in ticks
  MaxBackoffMultiplier,    \* cap of the exponential escalation
  BackoffEscalationCount,  \* cycles before the escalation starts
  Kinds,                   \* failure kinds classifyError may return
  CooldownByKind,          \* kind -> cooldown override, for the kinds that have one
  KindThreshold,           \* kind -> its own threshold; 0 where none is configured
  CountCap,                \* bound on failureCount
  CycleCap,                \* bound on openCycleCount
  AgeCap                   \* bound on the age of the last failure

\* The kind of a failure nobody classified (null in the code).
NoKind == "none"
\* The age of the last failure when there has been none (lastFailureTime = null).
NeverFailed == -1

ASSUME BreakerAssumption ==
  /\ FailureThreshold \in Nat \ {0} /\ DegradationThreshold \in Nat
  /\ HalfOpenRequests \in Nat \ {0} /\ ResetTimeout \in Nat \ {0}
  /\ MaxBackoffMultiplier \in Nat \ {0} /\ BackoffEscalationCount \in Nat
  /\ NoKind \notin Kinds
  /\ KindThreshold \in [Kinds -> Nat]
  /\ DOMAIN CooldownByKind \subseteq Kinds
  /\ \A k \in DOMAIN CooldownByKind : CooldownByKind[k] \in 0..AgeCap
  /\ CountCap \in Nat /\ FailureThreshold <= CountCap
  /\ \A k \in Kinds : KindThreshold[k] <= CountCap
  /\ CycleCap \in Nat /\ CycleCap > BackoffEscalationCount
  /\ 2^(CycleCap - BackoffEscalationCount) >= MaxBackoffMultiplier
  /\ AgeCap \in Nat /\ ResetTimeout * MaxBackoffMultiplier <= AgeCap

States == {"CLOSED", "DEGRADED", "OPEN", "HALF_OPEN"}

Breakers ==
  [state : States, failureCount : 0..CountCap, age : (0..AgeCap) \union {NeverFailed},
   halfOpenAllowed : 0..HalfOpenRequests, lastFailureKind : Kinds \union {NoKind},
   openCycleCount : 0..CycleCap, kindFailureCounts : [Kinds -> 0..CountCap]]

\* A row of domain_circuit_breakers: every field but the probe slots.
Rows ==
  [state : States, failureCount : 0..CountCap, age : (0..AgeCap) \union {NeverFailed},
   lastFailureKind : Kinds \union {NoKind}, openCycleCount : 0..CycleCap,
   kindFailureCounts : [Kinds -> 0..CountCap]]

Capped(n, cap) == IF n > cap THEN cap ELSE n

NoKindFailures == [k \in Kinds |-> 0]

Fresh ==
  [state |-> "CLOSED", failureCount |-> 0, age |-> NeverFailed, halfOpenAllowed |-> 0,
   lastFailureKind |-> NoKind, openCycleCount |-> 0, kindFailureCounts |-> NoKindFailures]

-----------------------------------------------------------------------------
(* The clock.                                                               *)

Older(a) == IF a = NeverFailed THEN NeverFailed ELSE Capped(a + 1, AgeCap)

EffectiveResetTimeout(b) ==
  IF b.openCycleCount <= BackoffEscalationCount
  THEN ResetTimeout
  ELSE Capped(ResetTimeout * 2^(b.openCycleCount - BackoffEscalationCount),
              ResetTimeout * MaxBackoffMultiplier)

EffectiveCooldown(b) ==
  IF b.lastFailureKind \in DOMAIN CooldownByKind
  THEN CooldownByKind[b.lastFailureKind]
  ELSE EffectiveResetTimeout(b)

ShouldAttemptReset(b) == b.age = NeverFailed \/ b.age >= EffectiveCooldown(b)

-----------------------------------------------------------------------------
(* State changes.                                                           *)

Transition(b, s) ==
  [b EXCEPT !.state = s,
            !.halfOpenAllowed = IF s = "HALF_OPEN" THEN HalfOpenRequests ELSE @]

\* Mutants of Refresh: an expired OPEN closes without a probe; an exhausted
\* HALF_OPEN whose cooldown is over is given new slots.
RefreshCloses(b) ==
  IF b.state = "OPEN" /\ ShouldAttemptReset(b) THEN Transition(b, "CLOSED") ELSE b
RefreshRefills(b) ==
  IF b.state \in {"OPEN", "HALF_OPEN"} /\ ShouldAttemptReset(b)
  THEN Transition(b, "HALF_OPEN") ELSE b

\* _refreshOpenState: the lazy OPEN -> HALF_OPEN every reader performs first.
Refresh(b) ==
  IF b.state = "OPEN" /\ ShouldAttemptReset(b) THEN Transition(b, "HALF_OPEN") ELSE b

\* Mutant of Admits: execute() without the probe-slot check.
NotOpen(b) == b.state # "OPEN"

\* What canExecute answers once it has refreshed the state.
Admits(b) ==
  \/ b.state \in {"CLOSED", "DEGRADED"}
  \/ b.state = "HALF_OPEN" /\ b.halfOpenAllowed > 0

CanExecute(b) == Admits(Refresh(b))

\* The slot execute() takes from an admitting, refreshed breaker.
TakeSlot(b) ==
  IF b.state = "HALF_OPEN" THEN [b EXCEPT !.halfOpenAllowed = @ - 1] ELSE b

\* b with the counters a closing success clears.
Cleared(b) ==
  [state |-> b.state, failureCount |-> 0, age |-> b.age,
   halfOpenAllowed |-> b.halfOpenAllowed, lastFailureKind |-> NoKind,
   openCycleCount |-> 0, kindFailureCounts |-> NoKindFailures]

\* Mutant of OnSuccess: a probe's success that does not clear the counters.
OnSuccessKeepsCount(b) ==
  IF b.state \in {"OPEN", "HALF_OPEN"} THEN Transition(b, "CLOSED")
  ELSE [b EXCEPT !.failureCount = IF @ = 0 THEN 0 ELSE @ - 1]

\* _onSuccess.
OnSuccess(b) ==
  LET decayed == [b EXCEPT !.failureCount = IF @ = 0 THEN 0 ELSE @ - 1]
  IN  CASE b.state = "OPEN" ->
             [Cleared(Transition(b, "CLOSED")) EXCEPT !.age = NeverFailed]
        [] b.state = "HALF_OPEN" -> Cleared(Transition(b, "CLOSED"))
        [] b.state = "DEGRADED" /\ decayed.failureCount <= DegradationThreshold ->
             Transition(decayed, "CLOSED")
        [] OTHER -> decayed

\* The failure _onFailure(kind) adds to the counters, before any transition.
Counted(b, kind) ==
  [b EXCEPT !.failureCount = Capped(@ + 1, CountCap),
            !.age = 0,
            !.lastFailureKind = kind,
            !.kindFailureCounts =
              [k \in Kinds |-> IF k = kind THEN Capped(@[k] + 1, KindThreshold[k]) ELSE @[k]]]

\* A configured per-kind threshold is reached: the circuit opens at once, and
\* _onFailure returns before it persists.
KindTripped(b) ==
  \E k \in Kinds : /\ b.lastFailureKind = k
                   /\ KindThreshold[k] > 0
                   /\ b.kindFailureCounts[k] >= KindThreshold[k]

OnFailure(b, kind) ==
  LET c == Counted(b, kind)
  IN  CASE KindTripped(c) -> Transition(c, "OPEN")
        [] ~KindTripped(c) /\ c.state = "OPEN" -> c
        [] ~KindTripped(c) /\ c.state = "HALF_OPEN" ->
             Transition([c EXCEPT !.openCycleCount = Capped(@ + 1, CycleCap)], "OPEN")
        [] ~KindTripped(c) /\ c.state = "DEGRADED" ->
             IF c.failureCount >= FailureThreshold THEN Transition(c, "OPEN") ELSE c
        [] OTHER ->
             IF c.failureCount >= FailureThreshold THEN Transition(c, "OPEN")
             ELSE IF c.failureCount >= DegradationThreshold THEN Transition(c, "DEGRADED")
             ELSE c

\* reset(): everything back to the constructor's values but the probe slots,
\* which mean nothing while CLOSED.
Reset(b) == [Fresh EXCEPT !.halfOpenAllowed = b.halfOpenAllowed]

-----------------------------------------------------------------------------
(* Persistence (domain_circuit_breakers).                                   *)

\* The row _persistToDb writes.
Row(b) ==
  [state |-> b.state, failureCount |-> b.failureCount, age |-> b.age,
   lastFailureKind |-> b.lastFailureKind, openCycleCount |-> b.openCycleCount,
   kindFailureCounts |-> b.kindFailureCounts]

\* Mutant of Restore: options.openCycleCount is not read back.
RestoreForgetsCycles(r) ==
  [state |-> r.state, failureCount |-> r.failureCount, age |-> r.age,
   halfOpenAllowed |-> IF r.state = "HALF_OPEN" THEN HalfOpenRequests ELSE 0,
   lastFailureKind |-> r.lastFailureKind, openCycleCount |-> 0,
   kindFailureCounts |-> r.kindFailureCounts]

\* _restoreFromDb in the constructor.  A missing row restores like Row(Fresh).
Restore(r) ==
  [state |-> r.state, failureCount |-> r.failureCount, age |-> r.age,
   halfOpenAllowed |-> IF r.state = "HALF_OPEN" THEN HalfOpenRequests ELSE 0,
   lastFailureKind |-> r.lastFailureKind, openCycleCount |-> r.openCycleCount,
   kindFailureCounts |-> r.kindFailureCounts]

=============================================================================
