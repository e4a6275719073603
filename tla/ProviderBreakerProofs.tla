------------------------ MODULE ProviderBreakerProofs ------------------------
(***************************************************************************)
(* Proofs about ProviderBreaker, for every value of its constants.          *)
(***************************************************************************)
EXTENDS ProviderBreaker, FiniteSetTheorems, TLAPS

-----------------------------------------------------------------------------
(* What the operators of the CircuitBreaker class preserve.                 *)

\* Saturation keeps a counter within its cap (every counter of the model).
LEMMA CappedInRange ==
  ASSUME NEW n \in Nat, NEW cap \in Nat
  PROVE  /\ Capped(n, cap) \in 0..cap
         /\ n <= cap => Capped(n, cap) = n
BY DEF Capped

\* What BreakerAssumption says of the constants, without the exponential.
LEMMA BoundTypes ==
  /\ FailureThreshold \in Nat \ {0} /\ DegradationThreshold \in Nat
  /\ HalfOpenRequests \in Nat \ {0} /\ FailureThreshold <= CountCap
  /\ CountCap \in Nat /\ CycleCap \in Nat /\ AgeCap \in Nat
  /\ KindThreshold \in [Kinds -> Nat]
  /\ \A k \in Kinds : KindThreshold[k] <= CountCap
  /\ NoKind \notin Kinds
BY BreakerAssumption

\* _transition keeps the fields in their ranges.
LEMMA TransitionType ==
  ASSUME NEW b \in Breakers, NEW s \in States
  PROVE  /\ Transition(b, s) \in Breakers
         /\ Transition(b, s).state = s
         /\ Transition(b, s).failureCount = b.failureCount
<1> DEFINE slots == IF s = "HALF_OPEN" THEN HalfOpenRequests ELSE b.halfOpenAllowed
<1>1. slots \in 0..HalfOpenRequests
  BY BoundTypes DEF Breakers
<1> HIDE DEF slots
<1>2. Transition(b, s) = [b EXCEPT !.state = s, !.halfOpenAllowed = slots]
  BY DEF Transition, slots
<1> QED BY <1>1, <1>2 DEF Breakers

\* _refreshOpenState changes nothing but OPEN to HALF_OPEN.
LEMMA RefreshType ==
  ASSUME NEW b \in Breakers
  PROVE  /\ Refresh(b) \in Breakers
         /\ Banded(b) => Banded(Refresh(b))
BY TransitionType DEF Refresh, Banded, States

\* An operator's reset gives a breaker in the CLOSED band.
LEMMA ResetType ==
  ASSUME NEW b \in Breakers
  PROVE  Reset(b) \in Breakers /\ Banded(Reset(b))
BY BreakerAssumption DEF Reset, Fresh, Breakers, Banded, States, NoKindFailures, NeverFailed

\* execute() takes a slot only where there is one.
LEMMA TakeSlotType ==
  ASSUME NEW b \in Breakers, Admits(b)
  PROVE  /\ TakeSlot(b) \in Breakers
         /\ Banded(b) => Banded(TakeSlot(b))
BY BreakerAssumption DEF TakeSlot, Admits, Breakers, Banded, States

\* _onSuccess leaves a breaker in the band of its new state.
LEMMA OnSuccessType ==
  ASSUME NEW b \in Breakers, Banded(b)
  PROVE  OnSuccess(b) \in Breakers /\ Banded(OnSuccess(b))
<1> DEFINE d == [b EXCEPT !.failureCount = IF @ = 0 THEN 0 ELSE @ - 1]
<1>1. NoKindFailures \in [Kinds -> 0..CountCap]
  BY BoundTypes DEF NoKindFailures
<1>2. Transition(b, "CLOSED") \in Breakers /\ Transition(b, "CLOSED").state = "CLOSED"
  BY TransitionType DEF States
<1>3. ASSUME NEW c \in Breakers, c.state = "CLOSED"
      PROVE  Cleared(c) \in Breakers /\ Cleared(c).state = "CLOSED" /\ Cleared(c).failureCount = 0
  BY <1>1, <1>3, BoundTypes DEF Cleared, Breakers, States
<1>4. ASSUME NEW c \in Breakers, c.state = "CLOSED", c.failureCount = 0
      PROVE  /\ Banded(c)
             /\ [c EXCEPT !.age = NeverFailed] \in Breakers
             /\ Banded([c EXCEPT !.age = NeverFailed])
  BY <1>4, BoundTypes DEF Banded, Breakers
<1>5. /\ d \in Breakers /\ d.state = b.state
      /\ d.failureCount = IF b.failureCount = 0 THEN 0 ELSE b.failureCount - 1
  BY BoundTypes DEF Breakers
<1>6. b.failureCount \in Nat
  BY DEF Breakers
<1> DEFINE e == Cleared(Transition(b, "CLOSED"))
<1>7. e \in Breakers /\ e.state = "CLOSED" /\ e.failureCount = 0
  BY <1>2, <1>3
<1>8. CASE b.state = "OPEN"
  <2>1. OnSuccess(b) = [e EXCEPT !.age = NeverFailed]
    BY <1>8 DEF OnSuccess
  <2> HIDE DEF e
  <2> QED BY <2>1, <1>7, <1>4
<1>9. CASE b.state = "HALF_OPEN"
  <2>1. OnSuccess(b) = e
    BY <1>9 DEF OnSuccess
  <2> HIDE DEF e
  <2> QED BY <2>1, <1>7, <1>4
<1> HIDE DEF d
<1>10. CASE b.state = "DEGRADED"
  <2>1. OnSuccess(b) =
          IF d.failureCount <= DegradationThreshold THEN Transition(d, "CLOSED") ELSE d
    BY <1>10 DEF OnSuccess, d
  <2>2. d.failureCount \in Nat /\ d.failureCount < FailureThreshold
    BY <1>5, <1>6, <1>10, BoundTypes DEF Banded
  <2>3. d.failureCount > DegradationThreshold => Banded(d)
    BY <2>2, <1>5, <1>10, BoundTypes DEF Banded
  <2>4. d.failureCount <= DegradationThreshold => Banded(Transition(d, "CLOSED"))
    BY <2>2, <1>5, TransitionType DEF Banded, States
  <2>5. Transition(d, "CLOSED") \in Breakers
    BY <1>5, TransitionType DEF States
  <2> QED BY <2>1, <2>2, <2>3, <2>4, <2>5, <1>5, BoundTypes
<1>11. CASE b.state = "CLOSED"
  <2>1. OnSuccess(b) = d
    BY <1>11 DEF OnSuccess, d
  <2> QED BY <2>1, <1>5, <1>6, <1>11, BoundTypes DEF Banded
<1> QED BY <1>8, <1>9, <1>10, <1>11 DEF Breakers, States

\* The counting part of _onFailure keeps the fields in their ranges.
LEMMA CountedType ==
  ASSUME NEW b \in Breakers, NEW kind \in Kinds \union {NoKind}
  PROVE  /\ Counted(b, kind) \in Breakers
         /\ Counted(b, kind).state = b.state
         /\ Counted(b, kind).failureCount = Capped(b.failureCount + 1, CountCap)
<1> DEFINE kfc == [k \in Kinds |-> IF k = kind
                                   THEN Capped(b.kindFailureCounts[k] + 1, KindThreshold[k])
                                   ELSE b.kindFailureCounts[k]]
           n == Capped(b.failureCount + 1, CountCap)
<1>1. ASSUME NEW k \in Kinds
      PROVE  kfc[k] \in 0..CountCap
  <2>1. b.kindFailureCounts[k] \in 0..CountCap
    BY DEF Breakers
  <2>2. Capped(b.kindFailureCounts[k] + 1, KindThreshold[k]) \in 0..CountCap
    BY <2>1, BoundTypes DEF Capped
  <2> QED BY <2>1, <2>2
<1>2. kfc \in [Kinds -> 0..CountCap]
  BY <1>1
<1>3. n \in 0..CountCap
  BY BoundTypes DEF Capped, Breakers
<1>4. Counted(b, kind) = [b EXCEPT !.failureCount = n, !.age = 0, !.lastFailureKind = kind,
                                   !.kindFailureCounts = kfc]
  BY DEF Counted
<1> HIDE DEF kfc
<1>5. Counted(b, kind) =
        [state |-> b.state, failureCount |-> n, age |-> 0,
         halfOpenAllowed |-> b.halfOpenAllowed, lastFailureKind |-> kind,
         openCycleCount |-> b.openCycleCount, kindFailureCounts |-> kfc]
  BY <1>4 DEF Breakers
<1> QED BY <1>2, <1>3, <1>5, BoundTypes DEF Breakers

\* _onFailure leaves a breaker in the band of its new state.
LEMMA OnFailureType ==
  ASSUME NEW b \in Breakers, NEW kind \in Kinds \union {NoKind}, Banded(b)
  PROVE  OnFailure(b, kind) \in Breakers /\ Banded(OnFailure(b, kind))
<1> DEFINE c == Counted(b, kind)
           d == [c EXCEPT !.openCycleCount = Capped(@ + 1, CycleCap)]
<1>1. c \in Breakers /\ c.state = b.state /\ c.failureCount = Capped(b.failureCount + 1, CountCap)
  BY CountedType
<1>2. d \in Breakers
  BY <1>1, BreakerAssumption DEF Breakers, Capped
<1>3. Transition(c, "OPEN") \in Breakers /\ Banded(Transition(c, "OPEN"))
  BY <1>1, TransitionType DEF Banded, States
<1>4. Transition(d, "OPEN") \in Breakers /\ Banded(Transition(d, "OPEN"))
  BY <1>2, TransitionType DEF Banded, States
<1>5. ASSUME c.failureCount < FailureThreshold, DegradationThreshold <= c.failureCount
      PROVE  Transition(c, "DEGRADED") \in Breakers /\ Banded(Transition(c, "DEGRADED"))
  BY <1>1, <1>5, TransitionType DEF Banded, States
<1>6. b.failureCount \in Nat /\ c.failureCount \in Nat
  BY <1>1 DEF Breakers
<1>7. c.failureCount < FailureThreshold => c.failureCount = b.failureCount + 1
  BY <1>1, <1>6, BreakerAssumption DEF Capped
<1> HIDE DEF c, d
<1>8. CASE KindTripped(c)
  BY <1>3, <1>8 DEF OnFailure, c
<1>9. CASE ~KindTripped(c)
  <2>1. CASE c.state = "OPEN"
    <3>1. OnFailure(b, kind) = c
      BY <1>9, <2>1 DEF OnFailure, c
    <3> QED BY <3>1, <1>1, <2>1 DEF Banded
  <2>2. CASE c.state = "HALF_OPEN"
    <3>1. OnFailure(b, kind) = Transition(d, "OPEN")
      BY <1>9, <2>2 DEF OnFailure, c, d
    <3> QED BY <3>1, <1>4
  <2>3. CASE c.state = "DEGRADED"
    <3>1. OnFailure(b, kind) =
            IF c.failureCount >= FailureThreshold THEN Transition(c, "OPEN") ELSE c
      BY <1>9, <2>3 DEF OnFailure, c
    <3>2. c.failureCount < FailureThreshold => Banded(c)
      BY <1>1, <1>6, <1>7, <2>3, BreakerAssumption DEF Banded
    <3> QED BY <3>1, <3>2, <1>1, <1>3, <1>6, BreakerAssumption
  <2>4. CASE c.state = "CLOSED"
    <3>1. OnFailure(b, kind) =
            IF c.failureCount >= FailureThreshold THEN Transition(c, "OPEN")
            ELSE IF c.failureCount >= DegradationThreshold THEN Transition(c, "DEGRADED")
            ELSE c
      BY <1>9, <2>4 DEF OnFailure, c
    <3>2. c.failureCount < DegradationThreshold /\ c.failureCount < FailureThreshold => Banded(c)
      BY <2>4, <1>6, BreakerAssumption DEF Banded
    <3> QED BY <3>1, <3>2, <1>1, <1>3, <1>5, <1>6, BreakerAssumption
  <2> QED BY <1>1, <2>1, <2>2, <2>3, <2>4 DEF Breakers, States
<1> QED BY <1>8, <1>9

-----------------------------------------------------------------------------
(* Shape facts used by several steps.                                       *)

\* _refreshOpenState either does nothing or opens a new HALF_OPEN episode.
LEMMA RefreshShape ==
  ASSUME NEW b \in Breakers
  PROVE  /\ \/ Refresh(b) = b
            \/ b.state = "OPEN" /\ Refresh(b).state = "HALF_OPEN" /\ ShouldAttemptReset(b)
         /\ Refresh(b).openCycleCount = b.openCycleCount
BY DEF Refresh, Transition, Breakers

\* _onSuccess never leaves a breaker HALF_OPEN, and lowers openCycleCount only by closing it.
LEMMA OnSuccessShape ==
  ASSUME NEW b \in Breakers
  PROVE  /\ OnSuccess(b).state # "HALF_OPEN"
         /\ OnSuccess(b).openCycleCount < b.openCycleCount => OnSuccess(b).state = "CLOSED"
         /\ b.state \notin {"OPEN", "HALF_OPEN"} => OnSuccess(b).openCycleCount = b.openCycleCount
BY DEF OnSuccess, Transition, Cleared, Breakers, States

\* _onFailure never leaves a breaker HALF_OPEN, never closes a tripped one and
\* never lowers openCycleCount.
LEMMA OnFailureShape ==
  ASSUME NEW b \in Breakers, NEW kind \in Kinds \union {NoKind}
  PROVE  /\ OnFailure(b, kind).state # "HALF_OPEN"
         /\ b.state \in {"OPEN", "HALF_OPEN"} => OnFailure(b, kind).state = "OPEN"
         /\ OnFailure(b, kind).openCycleCount >= b.openCycleCount
<1> DEFINE c == Counted(b, kind)
<1>1. c \in Breakers /\ c.state = b.state
  BY CountedType
<1>2. c.openCycleCount = b.openCycleCount
  BY DEF Counted, Breakers
<1>3. b.openCycleCount \in 0..CycleCap /\ CycleCap \in Nat
  BY BoundTypes DEF Breakers
<1>4. \A d \in Breakers, s \in States :
        Transition(d, s).state = s /\ Transition(d, s).openCycleCount = d.openCycleCount
  BY DEF Transition, Breakers
<1> DEFINE d == [c EXCEPT !.openCycleCount = Capped(@ + 1, CycleCap)]
<1>5. d \in Breakers /\ d.openCycleCount >= b.openCycleCount
  BY <1>1, <1>2, <1>3 DEF Capped, Breakers
<1>6. \/ OnFailure(b, kind) = Transition(c, "OPEN")
      \/ OnFailure(b, kind) = Transition(d, "OPEN")
      \/ /\ OnFailure(b, kind) = Transition(c, "DEGRADED")
         /\ c.state \notin {"OPEN", "HALF_OPEN"}
      \/ OnFailure(b, kind) = c /\ c.state # "HALF_OPEN"
  <2> HIDE DEF c
  <2>1. CASE KindTripped(c)
    BY <2>1 DEF OnFailure, c
  <2>2. CASE ~KindTripped(c)
    BY <2>2 DEF OnFailure, c
  <2> QED BY <2>1, <2>2
<1> HIDE DEF c, d
<1> QED BY <1>1, <1>2, <1>3, <1>4, <1>5, <1>6 DEF States

\* Opening on a per-kind threshold skips the openCycleCount increment.
LEMMA KindTripKeepsCycles ==
  ASSUME NEW b \in Breakers, NEW kind \in Kinds \union {NoKind}, KindTripped(OnFailure(b, kind))
  PROVE  OnFailure(b, kind).openCycleCount = b.openCycleCount
<1> DEFINE c == Counted(b, kind)
           d == [c EXCEPT !.openCycleCount = Capped(@ + 1, CycleCap)]
<1>1. c \in Breakers /\ c.openCycleCount = b.openCycleCount
  <2>1. c \in Breakers
    BY CountedType
  <2>2. c.openCycleCount = b.openCycleCount
    BY DEF Counted, Breakers
  <2> QED BY <2>1, <2>2
<1>2. \A e \in Breakers, s \in States :
        /\ KindTripped(Transition(e, s)) <=> KindTripped(e)
        /\ Transition(e, s).openCycleCount = e.openCycleCount
  BY DEF Transition, KindTripped, Breakers
<1>3. d \in Breakers /\ (KindTripped(d) <=> KindTripped(c))
  BY <1>1, BoundTypes DEF KindTripped, Capped, Breakers
<1>4. \/ OnFailure(b, kind) \in {c, Transition(c, "OPEN"), Transition(c, "DEGRADED")}
      \/ OnFailure(b, kind) = Transition(d, "OPEN") /\ ~KindTripped(c)
  <2> HIDE DEF c
  <2>1. CASE KindTripped(c)
    BY <2>1 DEF OnFailure, c
  <2>2. CASE ~KindTripped(c)
    BY <2>2 DEF OnFailure, c
  <2> QED BY <2>1, <2>2
<1> HIDE DEF c, d
<1> QED BY <1>1, <1>2, <1>3, <1>4 DEF States

\* The row _persistToDb writes has the fields it was given.
LEMMA RowType ==
  ASSUME NEW b \in Breakers
  PROVE  /\ Row(b) \in Rows
         /\ Banded(Row(b)) <=> Banded(b)
         /\ Row(b).openCycleCount = b.openCycleCount
         /\ Row(b).state = b.state
BY DEF Row, Rows, Breakers, Banded

\* _restoreFromDb brings back exactly the row, with fresh probe slots if HALF_OPEN.
LEMMA RestoreType ==
  ASSUME NEW r \in Rows
  PROVE  /\ Restore(r) \in Breakers
         /\ Banded(Restore(r)) <=> Banded(r)
         /\ Row(Restore(r)) = r
         /\ Restore(r).openCycleCount = r.openCycleCount
         /\ Restore(r).state = r.state
BY BoundTypes DEF Row, Restore, Rows, Breakers, Banded

\* execute() takes a slot and changes nothing that is persisted.
LEMMA TakeSlotShape ==
  ASSUME NEW b \in Breakers
  PROVE  /\ Row(TakeSlot(b)) = Row(b)
         /\ KindTripped(TakeSlot(b)) <=> KindTripped(b)
         /\ TakeSlot(b).state = b.state
         /\ TakeSlot(b).openCycleCount = b.openCycleCount
         /\ b.state = "HALF_OPEN" => TakeSlot(b).halfOpenAllowed = b.halfOpenAllowed - 1
BY DEF TakeSlot, Row, KindTripped, Breakers

-----------------------------------------------------------------------------
(* The inductive invariant.                                                 *)

\* Alone the three invariants are not inductive: a restart copies the row into the
\* breaker, so the row has to be in the bands too, and it has to carry the backoff
\* level of the breaker even when it is older.
IInv ==
  /\ TypeOK
  /\ ThresholdBands
  /\ Banded(row)
  /\ ProbeBound
  /\ DurableStateAgrees
  /\ row.openCycleCount = breaker.openCycleCount

\* The part of IInv about the breaker and its probes, and the part about its row.
BreakerInv == breaker \in Breakers /\ Banded(breaker) /\ probes \subseteq Requests /\ ProbeBound
RowInv ==
  /\ row \in Rows /\ Banded(row)
  /\ DurableStateAgrees
  /\ row.openCycleCount = breaker.openCycleCount

\* Moving one request keeps the type of req.
LEMMA RequestType ==
  ASSUME NEW r \in Requests, req \in [Requests -> RequestStates]
  PROVE  /\ \A p \in Points : Goto(r, p) => req' \in [Requests -> RequestStates]
         /\ Done(r) => req' \in [Requests -> RequestStates]
BY RequestAssumption DEF Goto, Done, Idle, RequestStates, Points

\* A row just written is the breaker's.
LEMMA PersistInv ==
  ASSUME breaker' \in Breakers, Banded(breaker'), row' = Row(breaker')
  PROVE  RowInv'
BY RowType DEF RowInv, DurableStateAgrees

\* Become(b) keeps the probe bound if b has the slots of the episode that goes on.
LEMMA BecomeInv ==
  ASSUME BreakerInv, NEW b \in Breakers, Banded(b), Become(b),
         breaker.state = "HALF_OPEN" /\ b.state = "HALF_OPEN"
           => b.halfOpenAllowed = breaker.halfOpenAllowed
  PROVE  BreakerInv' /\ breaker' = b
<1>1. breaker' = b /\ probes' \subseteq Requests
  BY DEF Become, BreakerInv
<1>2. CASE breaker.state = "HALF_OPEN" /\ b.state = "HALF_OPEN"
  BY <1>1, <1>2 DEF Become, BreakerInv, ProbeBound
<1>3. CASE breaker.state # "HALF_OPEN" /\ b.state = "HALF_OPEN"
  <2>1. probes' = {} /\ Cardinality(probes') = 0
    BY <1>3, FS_EmptySet DEF Become
  <2>2. b.halfOpenAllowed \in 0..HalfOpenRequests /\ HalfOpenRequests \in Nat
    BY BoundTypes DEF Breakers
  <2> QED BY <1>1, <2>1, <2>2 DEF BreakerInv, ProbeBound
<1>4. CASE b.state # "HALF_OPEN"
  BY <1>1, <1>4 DEF BreakerInv, ProbeBound
<1> QED BY <1>2, <1>3, <1>4

\* A refreshed breaker is such a b.
LEMMA BecomeRefreshed ==
  ASSUME BreakerInv, Become(Refresh(breaker))
  PROVE  BreakerInv' /\ breaker' = Refresh(breaker)
<1>1. breaker \in Breakers /\ Banded(breaker)
  BY DEF BreakerInv
<1>2. Refresh(breaker) \in Breakers /\ Banded(Refresh(breaker))
  BY <1>1, RefreshType
<1>3. breaker.state = "HALF_OPEN" => Refresh(breaker) = breaker
  BY <1>1, RefreshShape
<1> QED BY <1>2, <1>3, BecomeInv

\* So is one that just failed.
LEMMA BecomeFailed ==
  ASSUME BreakerInv, NEW b \in Breakers, Banded(b), NEW kind \in Kinds \union {NoKind},
         Become(OnFailure(b, kind))
  PROVE  BreakerInv' /\ breaker' = OnFailure(b, kind)
BY OnFailureType, OnFailureShape, BecomeInv

\* An outcome that leaves the breaker out of HALF_OPEN keeps the probe bound.
LEMMA BecomeAfterInv ==
  ASSUME BreakerInv, NEW r, NEW b \in Breakers, Banded(b), b.state # "HALF_OPEN", BecomeAfter(r, b)
  PROVE  BreakerInv' /\ breaker' = b
BY DEF BecomeAfter, BreakerInv, ProbeBound

\* A probe that comes back uncounted only leaves fewer in flight.
LEMMA ProbeReturns ==
  ASSUME BreakerInv, NEW r, UNCHANGED breaker, probes' = probes \ {r}
  PROVE  BreakerInv'
<1>1. IsFiniteSet(probes)
  BY RequestAssumption, FS_Subset DEF BreakerInv
<1>2. /\ Cardinality(probes') <= Cardinality(probes)
      /\ Cardinality(probes') \in Nat /\ Cardinality(probes) \in Nat
  <2>1. probes' \subseteq probes
    OBVIOUS
  <2> QED BY <1>1, <2>1, FS_Subset, FS_CardinalityType
<1>3. breaker.halfOpenAllowed \in Nat /\ HalfOpenRequests \in Nat
  BY BoundTypes DEF BreakerInv, Breakers
<1> QED BY <1>2, <1>3 DEF BreakerInv, ProbeBound

\* What PersistIfChanged leaves behind when the breaker becomes b.
LEMMA PersistIfChangedInv ==
  ASSUME RowInv, breaker \in Breakers, NEW b \in Breakers, Banded(b), PersistIfChanged(b),
         b = breaker \/ b = Refresh(breaker), breaker' \in Breakers, Banded(breaker'),
         Row(breaker') = Row(b), KindTripped(breaker') <=> KindTripped(b),
         breaker'.openCycleCount = b.openCycleCount
  PROVE  RowInv'
<1>1. CASE b = breaker
  BY <1>1 DEF PersistIfChanged, RowInv, DurableStateAgrees
<1>2. CASE b # breaker
  BY <1>2, PersistInv DEF PersistIfChanged
<1> QED BY <1>1, <1>2

-----------------------------------------------------------------------------
(* Every action preserves IInv.                                             *)

\* The part of IInv about the requests.
RestInv ==
  req \in [Requests -> RequestStates] /\ dedup \in 0..DedupWindow /\ rejected \subseteq Requests

\* The three parts IInv is proved in.
LEMMA IInvParts ==
  /\ IInv <=> BreakerInv /\ RowInv /\ RestInv
  /\ IInv' <=> BreakerInv' /\ RowInv' /\ RestInv'
BY DEF IInv, TypeOK, BreakerInv, RowInv, RestInv, ThresholdBands

\* The initial state satisfies IInv.
LEMMA InitIInv == Init => IInv
<1> SUFFICES ASSUME Init PROVE IInv
  OBVIOUS
<1>1. Fresh \in Breakers /\ Banded(Fresh) /\ Fresh.state = "CLOSED"
  BY BoundTypes DEF Fresh, Breakers, Banded, States, NoKindFailures, NeverFailed
<1>2. breaker \in Breakers /\ Banded(breaker) /\ row = Row(breaker) /\ breaker.state = "CLOSED"
  BY <1>1 DEF Init
<1>3. RowInv
  BY <1>2, RowType DEF RowInv, DurableStateAgrees
<1>4. BreakerInv
  BY <1>2 DEF BreakerInv, ProbeBound, Init
<1>5. req \in [Requests -> RequestStates]
  BY RequestAssumption DEF Init, AllIdle, Idle, RequestStates, Points
<1> QED BY <1>3, <1>4, <1>5, IInvParts, RequestAssumption DEF Init, RestInv

\* Admission: the screening, the gate and execute() keep IInv.
LEMMA AdmissionKeeps ==
  ASSUME IInv, NEW r \in Requests, NEW m \in Modes,
         ScreenTarget(r, m) \/ GateAdmits(r, m) \/ GateRejects(r, m)
           \/ Execute(r) \/ ExecuteRejects(r) \/ DispatchPinned(r)
  PROVE  IInv'
<1> DEFINE b == Refresh(breaker)
<1>1. /\ BreakerInv /\ RowInv /\ rejected \subseteq Requests /\ dedup \in 0..DedupWindow
      /\ req \in [Requests -> RequestStates]
  BY IInvParts DEF RestInv
<1>2. breaker \in Breakers /\ Banded(breaker)
  BY <1>1 DEF BreakerInv
<1>3. b \in Breakers /\ Banded(b)
  BY <1>2, RefreshType
<1>4. ASSUME Become(b), Persist(b)
      PROVE  BreakerInv' /\ RowInv'
  BY <1>1, <1>2, <1>3, <1>4, BecomeRefreshed, PersistInv DEF Persist
<1>5. ASSUME Become(b), PersistIfChanged(b)
      PROVE  BreakerInv' /\ RowInv'
  <2>1. BreakerInv' /\ breaker' = b
    BY <1>1, <1>5, BecomeRefreshed
  <2> QED BY <2>1, <1>1, <1>2, <1>3, <1>5, PersistIfChangedInv
<1> HIDE DEF b
<1>6. CASE ScreenTarget(r, m)
  <2>1. req' \in [Requests -> RequestStates]
    BY <1>1, <1>6, RequestAssumption DEF ScreenTarget, RequestStates, Points
  <2>2. Become(b) /\ PersistIfChanged(b) /\ dedup' = dedup /\ rejected' = rejected
    BY <1>6 DEF ScreenTarget, b
  <2> QED BY <2>1, <2>2, <1>1, <1>5, IInvParts DEF RestInv
<1>7. CASE GateAdmits(r, m)
  <2>1. req' \in [Requests -> RequestStates]
    BY <1>1, <1>7 DEF GateAdmits, RequestStates, Points
  <2>2. Become(b) /\ Persist(b) /\ dedup' = dedup /\ rejected' = rejected
    BY <1>7 DEF GateAdmits, b
  <2> QED BY <2>1, <2>2, <1>1, <1>4, IInvParts DEF RestInv
<1>8. CASE GateRejects(r, m)
  <2>1. req' \in [Requests -> RequestStates] /\ rejected' \subseteq Requests
    BY <1>1, <1>8, RequestType DEF GateRejects, Points
  <2>2. Become(b) /\ Persist(b) /\ dedup' = dedup
    BY <1>8 DEF GateRejects, b
  <2> QED BY <2>1, <2>2, <1>1, <1>4, IInvParts DEF RestInv
<1>9. CASE ExecuteRejects(r)
  <2>1. req' \in [Requests -> RequestStates] /\ rejected' \subseteq Requests
    BY <1>1, <1>9, RequestType DEF ExecuteRejects, Points
  <2>2. Become(b) /\ PersistIfChanged(b) /\ dedup' = dedup
    BY <1>9 DEF ExecuteRejects, b
  <2> QED BY <2>1, <2>2, <1>1, <1>5, IInvParts DEF RestInv
<1>10. CASE DispatchPinned(r)
  <2>1. req' \in [Requests -> RequestStates]
    BY <1>1, <1>10, RequestType DEF DispatchPinned, Points
  <2>2. UNCHANGED <<breaker, row, dedup, probes, rejected>>
    BY <1>10 DEF DispatchPinned
  <2> QED BY <2>1, <2>2, <1>1, IInvParts
          DEF RestInv, BreakerInv, RowInv, ProbeBound, DurableStateAgrees
<1>11. CASE Execute(r)
  <2>1. req' \in [Requests -> RequestStates] /\ dedup' = dedup /\ rejected' = rejected
    BY <1>1, <1>11, RequestType DEF Execute, Points
  <2>2. /\ Admits(b) /\ breaker' = TakeSlot(b) /\ PersistIfChanged(b)
        /\ probes' = CASE b.state = "HALF_OPEN" /\ breaker.state = "HALF_OPEN" -> probes \union {r}
                       [] b.state = "HALF_OPEN" /\ breaker.state # "HALF_OPEN" -> {r}
                       [] OTHER -> probes
    BY <1>11 DEF Execute, b
  <2>3. breaker' \in Breakers /\ Banded(breaker')
    BY <2>2, <1>3, TakeSlotType
  <2>4. RowInv'
    BY <2>2, <2>3, <1>1, <1>2, <1>3, TakeSlotShape, PersistIfChangedInv DEF b
  <2>5. probes \subseteq Requests /\ probes' \subseteq Requests
    BY <2>2, <1>1 DEF BreakerInv
  <2>6. IsFiniteSet(probes) /\ Cardinality(probes) \in Nat
    BY <2>5, RequestAssumption, FS_Subset, FS_CardinalityType
  <2>7. ProbeBound'
    <3>1. CASE b.state = "HALF_OPEN" /\ breaker.state = "HALF_OPEN"
      <4>1. b = breaker
        BY <3>1, <1>2, RefreshShape DEF b
      <4>2. probes' = probes \union {r} /\ breaker'.halfOpenAllowed = breaker.halfOpenAllowed - 1
        BY <3>1, <4>1, <2>2, <1>2, TakeSlotShape
      <4>3. Cardinality(probes') \in Nat /\ Cardinality(probes') <= Cardinality(probes) + 1
        <5>1. Cardinality(probes \union {r}) =
                IF r \in probes THEN Cardinality(probes) ELSE Cardinality(probes) + 1
          BY <2>6, FS_AddElement
        <5> QED BY <4>2, <2>6, <5>1
      <4>4. breaker.halfOpenAllowed \in Nat /\ HalfOpenRequests \in Nat
        BY <1>2, BoundTypes DEF Breakers
      <4>5. breaker.halfOpenAllowed + Cardinality(probes) <= HalfOpenRequests
        BY <3>1, <1>1 DEF BreakerInv, ProbeBound
      <4> QED BY <4>2, <4>3, <4>4, <4>5, <2>6 DEF ProbeBound
    <3>2. CASE b.state = "HALF_OPEN" /\ breaker.state # "HALF_OPEN"
      <4>1. probes' = {r}
        BY <3>2, <2>2
      <4>2. Cardinality({r}) = 1
        BY FS_Singleton
      <4>3. Cardinality(probes') = 1
        BY <4>1, <4>2
      <4>4. breaker'.halfOpenAllowed = b.halfOpenAllowed - 1
        BY <3>2, <2>2, <1>3, TakeSlotShape
      <4>5. b.halfOpenAllowed \in 0..HalfOpenRequests /\ HalfOpenRequests \in Nat
        BY <1>3, BoundTypes DEF Breakers
      <4> QED BY <4>3, <4>4, <4>5 DEF ProbeBound
    <3>3. CASE b.state # "HALF_OPEN"
      BY <3>3, <2>2, <1>3, TakeSlotShape DEF ProbeBound
    <3> QED BY <3>1, <3>2, <3>3
  <2> QED BY <2>1, <2>3, <2>4, <2>5, <2>7, <1>1, IInvParts DEF RestInv, BreakerInv
<1> QED BY <1>6, <1>7, <1>8, <1>9, <1>10, <1>11

\* Answers: every outcome of an upstream call keeps IInv.
LEMMA AnswerKeeps ==
  ASSUME IInv, NEW r \in Requests, Answer(r)
  PROVE  IInv'
<1>1. /\ BreakerInv /\ RowInv /\ RestInv
      /\ breaker \in Breakers /\ Banded(breaker)
  BY IInvParts DEF BreakerInv
<1>2. CASE SingleSucceeds(r)
  <2>1. BreakerInv' /\ breaker' = OnSuccess(breaker)
    BY <1>1, <1>2, OnSuccessType, OnSuccessShape, BecomeAfterInv DEF SingleSucceeds
  <2>2. RowInv'
    BY <1>2, <2>1, PersistInv DEF SingleSucceeds, Persist, BreakerInv
  <2>3. RestInv'
    BY <1>1, <1>2, RequestType DEF SingleSucceeds, RestInv
  <2> QED BY <2>1, <2>2, <2>3, IInvParts
<1>3. CASE ComboSucceeds(r)
  <2> DEFINE b == Refresh(breaker)
             after == IF b.state = "OPEN" THEN b ELSE OnSuccess(b)
  <2>1. b \in Breakers /\ Banded(b) /\ (b.state = "OPEN" => b = breaker)
    BY <1>1, RefreshType, RefreshShape
  <2>2. /\ BecomeAfter(r, after) /\ Done(r) /\ rejected' = rejected
        /\ IF b.state = "OPEN" THEN UNCHANGED <<row, dedup>> ELSE Persist(after) /\ dedup' = 0
    BY <1>3 DEF ComboSucceeds
  <2> HIDE DEF b
  <2>3. after \in Breakers /\ Banded(after) /\ after.state # "HALF_OPEN"
    BY <2>1, OnSuccessType, OnSuccessShape
  <2>4. BreakerInv' /\ breaker' = after
    BY <1>1, <2>2, <2>3, BecomeAfterInv
  <2>5. RowInv'
    <3>1. CASE b.state = "OPEN"
      BY <3>1, <1>1, <2>1, <2>2, <2>4 DEF RowInv, DurableStateAgrees
    <3>2. CASE b.state # "OPEN"
      BY <3>2, <2>2, <2>4, PersistInv DEF Persist, BreakerInv
    <3> QED BY <3>1, <3>2
  <2>6. RestInv'
    BY <1>1, <2>2, RequestType, RequestAssumption DEF RestInv
  <2> QED BY <2>4, <2>5, <2>6, IInvParts
<1>4. ASSUME UNCHANGED <<breaker, row, dedup, rejected>>, probes' = probes \ {r},
             Done(r) \/ Goto(r, "failed")
      PROVE  IInv'
  <2>1. BreakerInv'
    BY <1>1, <1>4, ProbeReturns
  <2>2. RowInv'
    BY <1>1, <1>4 DEF RowInv, DurableStateAgrees
  <2>3. RestInv'
    BY <1>1, <1>4, RequestType DEF RestInv, Points
  <2> QED BY <2>1, <2>2, <2>3, IInvParts
<1>5. CASE OutcomeIgnored(r)
  BY <1>4, <1>5 DEF OutcomeIgnored
<1>6. CASE UpstreamFails(r)
  BY <1>4, <1>6 DEF UpstreamFails
<1>7. ASSUME NEW k \in Kinds \union {NoKind}, ExecuteThrows(r, k)
      PROVE  IInv'
  <2> DEFINE b == OnFailure(breaker, k)
  <2>1. b \in Breakers /\ Banded(b) /\ b.state # "HALF_OPEN"
    BY <1>1, OnFailureType, OnFailureShape
  <2>2. /\ BecomeAfter(r, b) /\ (Goto(r, "failed") \/ Done(r)) /\ dedup' = dedup /\ rejected' = rejected
        /\ IF KindTripped(b) THEN UNCHANGED row ELSE Persist(b)
    BY <1>7 DEF ExecuteThrows
  <2>3. KindTripped(b) => b.openCycleCount = breaker.openCycleCount
    BY <1>1, KindTripKeepsCycles
  <2> HIDE DEF b
  <2>4. BreakerInv' /\ breaker' = b
    BY <1>1, <2>1, <2>2, BecomeAfterInv
  <2>5. RowInv'
    <3>1. CASE KindTripped(b)
      BY <3>1, <1>1, <2>2, <2>3, <2>4 DEF RowInv, DurableStateAgrees
    <3>2. CASE ~KindTripped(b)
      BY <3>2, <2>1, <2>2, <2>4, PersistInv DEF Persist
    <3> QED BY <3>1, <3>2
  <2>6. RestInv'
    BY <1>1, <2>2, RequestType DEF RestInv, Points
  <2> QED BY <2>4, <2>5, <2>6, IInvParts
<1> QED BY <1>2, <1>3, <1>5, <1>6, <1>7 DEF Answer

\* Settling a failed request, giving up before dispatch, and an all-accounts-limited
\* request keep IInv.
LEMMA SettleKeeps ==
  ASSUME IInv, NEW r \in Requests, Settle(r) \/ BailOut(r) \/ AllAccountsLimited(r)
  PROVE  IInv'
<1>1. /\ BreakerInv /\ RowInv /\ RestInv
      /\ breaker \in Breakers /\ Banded(breaker)
  BY IInvParts DEF BreakerInv
<1>2. ASSUME UNCHANGED <<breaker, row, probes>>
      PROVE  BreakerInv' /\ RowInv'
  BY <1>1, <1>2 DEF BreakerInv, RowInv, ProbeBound, DurableStateAgrees
<1>3. NoKind \in Kinds \union {NoKind}
  OBVIOUS
<1>4. ASSUME NEW b \in Breakers, Banded(b), Become(OnFailure(b, NoKind)), Persist(OnFailure(b, NoKind))
      PROVE  BreakerInv' /\ RowInv'
  <2>1. BreakerInv' /\ breaker' = OnFailure(b, NoKind)
    BY <1>1, <1>3, <1>4, BecomeFailed
  <2> QED BY <2>1, <1>4, PersistInv DEF Persist, BreakerInv
<1>5. CASE TryAgain(r)
  <2>1. RestInv'
    BY <1>1, <1>5, RequestAssumption DEF TryAgain, RestInv, RequestStates, Points
  <2> QED BY <1>2, <1>5, <2>1, IInvParts DEF TryAgain
<1>6. CASE SingleCounted(r)
  <2>1. RestInv'
    BY <1>1, <1>6, RequestType DEF SingleCounted, RestInv
  <2> QED BY <1>1, <1>4, <1>6, <2>1, IInvParts DEF SingleCounted
<1>7. MoveOnOrRetry(r) => req' \in [Requests -> RequestStates] /\ rejected' \subseteq Requests
  <2>1. ASSUME req[r].attempts < MaxAttempts,
               req' = [req EXCEPT ![r].pc = "screened", ![r].attempts = @ + 1]
        PROVE  req' \in [Requests -> RequestStates]
    BY <1>1, <2>1, RequestAssumption DEF RestInv, RequestStates, Points
  <2> QED BY <1>1, <2>1, RequestType DEF MoveOnOrRetry, RestInv
<1>8. CASE ComboRecorded(r)
  <2> DEFINE b == Refresh(breaker)
  <2>1. b \in Breakers /\ Banded(b)
    BY <1>1, RefreshType
  <2>2. /\ Become(IF Admits(b) THEN OnFailure(b, NoKind) ELSE b)
        /\ Persist(IF Admits(b) THEN OnFailure(b, NoKind) ELSE b)
        /\ MoveOnOrRetry(r) /\ dedup' \in {dedup, DedupWindow}
    BY <1>8 DEF ComboRecorded, OncePerWindow
  <2>3. CASE Admits(b)
    <3> HIDE DEF b
    <3>1. Become(OnFailure(b, NoKind)) /\ Persist(OnFailure(b, NoKind))
      BY <2>2, <2>3
    <3> QED BY <3>1, <1>1, <1>4, <1>7, <2>1, <2>2, IInvParts, RequestAssumption DEF RestInv
  <2>4. CASE ~Admits(b)
    <3>1. Become(b) /\ Persist(b)
      BY <2>2, <2>4
    <3>2. BreakerInv' /\ breaker' = b
      BY <1>1, <3>1, BecomeRefreshed
    <3>3. RowInv'
      BY <3>1, <3>2, PersistInv DEF Persist, BreakerInv
    <3> QED BY <3>2, <3>3, <1>1, <1>7, <2>2, IInvParts, RequestAssumption DEF RestInv
  <2> QED BY <2>3, <2>4
<1>9. CASE ComboDropped(r)
  BY <1>1, <1>2, <1>7, <1>9, IInvParts DEF ComboDropped, RestInv
<1>10. CASE BailOut(r)
  <2>1. RestInv'
    BY <1>1, <1>10, RequestType DEF BailOut, RestInv
  <2> QED BY <1>2, <1>10, <2>1, IInvParts DEF BailOut
<1>11. CASE AllAccountsLimited(r)
  <2>1. RestInv'
    BY <1>1, <1>11, RequestType DEF AllAccountsLimited, RestInv, Points
  <2> QED BY <1>1, <1>4, <1>11, <2>1, IInvParts DEF AllAccountsLimited
<1> QED BY <1>5, <1>6, <1>8, <1>9, <1>10, <1>11 DEF Settle

\* Polls, resets, restarts and the clock keep IInv.
LEMMA EnvironmentKeeps ==
  ASSUME IInv, Poll \/ ManualReset \/ Restart \/ Tick
  PROVE  IInv'
<1>1. /\ BreakerInv /\ RowInv /\ RestInv
      /\ breaker \in Breakers /\ Banded(breaker) /\ row \in Rows /\ Banded(row)
  BY IInvParts DEF BreakerInv, RowInv
<1>2. ASSUME UNCHANGED <<req, dedup, rejected>>
      PROVE  RestInv'
  BY <1>1, <1>2 DEF RestInv
<1>3. CASE Poll
  <2>1. BreakerInv' /\ breaker' = Refresh(breaker)
    BY <1>1, <1>3, BecomeRefreshed DEF Poll
  <2>2. RowInv'
    BY <1>3, <2>1, PersistInv DEF Poll, Persist, BreakerInv
  <2> QED BY <1>2, <1>3, <2>1, <2>2, IInvParts DEF Poll
<1>4. CASE ManualReset
  <2>1. Reset(breaker).state # "HALF_OPEN"
    BY DEF Reset, Fresh
  <2>2. BreakerInv' /\ breaker' = Reset(breaker)
    BY <1>1, <1>4, <2>1, ResetType, BecomeInv DEF ManualReset
  <2>3. RowInv'
    BY <1>4, <2>2, PersistInv DEF ManualReset, Persist, BreakerInv
  <2> QED BY <1>2, <1>4, <2>2, <2>3, IInvParts DEF ManualReset
<1>5. CASE Restart
  <2>1. breaker' = Restore(row) /\ row' = row
    BY <1>5 DEF Restart
  <2>2. breaker' \in Breakers /\ Banded(breaker') /\ row' = Row(breaker')
    BY <1>1, <2>1, RestoreType
  <2>3. RowInv'
    BY <2>2, PersistInv
  <2>4. ProbeBound'
    <3>1. probes' = {} /\ Cardinality(probes') = 0
      BY <1>5, FS_EmptySet DEF Restart
    <3>2. breaker'.halfOpenAllowed \in 0..HalfOpenRequests /\ HalfOpenRequests \in Nat
      BY <2>2, BoundTypes DEF Breakers
    <3> QED BY <3>1, <3>2 DEF ProbeBound
  <2>5. BreakerInv'
    BY <1>5, <2>2, <2>4 DEF BreakerInv, Restart
  <2>6. RestInv'
    BY <1>5, RequestAssumption DEF Restart, RestInv, AllIdle, Idle, RequestStates, Points
  <2> QED BY <2>3, <2>5, <2>6, IInvParts
<1>6. CASE Tick
  <2>1. \A a \in (0..AgeCap) \union {NeverFailed} : Older(a) \in (0..AgeCap) \union {NeverFailed}
    BY BoundTypes DEF Older, Capped, NeverFailed
  <2>2. /\ breaker' = [breaker EXCEPT !.age = Older(@)] /\ row' = [row EXCEPT !.age = Older(@)]
        /\ probes' = probes
    BY <1>6 DEF Tick
  <2>3. /\ breaker' \in Breakers /\ Banded(breaker')
        /\ breaker'.state = breaker.state /\ breaker'.halfOpenAllowed = breaker.halfOpenAllowed
        /\ breaker'.openCycleCount = breaker.openCycleCount
        /\ KindTripped(breaker') <=> KindTripped(breaker)
    BY <1>1, <2>1, <2>2 DEF Breakers, Banded, KindTripped
  <2>4. BreakerInv'
    BY <1>1, <2>2, <2>3 DEF BreakerInv, ProbeBound
  <2>5. row' \in Rows /\ Banded(row') /\ row'.openCycleCount = row.openCycleCount
    BY <1>1, <2>1, <2>2 DEF Rows, Banded
  <2>6. row = Row(breaker) => row' = Row(breaker')
    BY <1>1, <2>2 DEF Row, Breakers
  <2>7. RowInv'
    BY <1>1, <2>3, <2>5, <2>6 DEF RowInv, DurableStateAgrees
  <2>8. RestInv'
    BY <1>1, <1>6, RequestAssumption DEF Tick, RestInv
  <2> QED BY <2>4, <2>7, <2>8, IInvParts
<1> QED BY <1>3, <1>4, <1>5, <1>6

\* IInv is inductive.
LEMMA NextIInv == IInv /\ [Next]_vars => IInv'
<1> SUFFICES ASSUME IInv, [Next]_vars PROVE IInv'
  OBVIOUS
<1>1. CASE UNCHANGED vars
  BY <1>1 DEF vars, IInv, TypeOK, ThresholdBands, ProbeBound, DurableStateAgrees
<1>2. ASSUME NEW r \in Requests, Arrive(r) PROVE IInv'
  BY <1>2, AdmissionKeeps DEF Arrive
<1>3. ASSUME NEW r \in Requests, Dispatch(r) PROVE IInv'
  BY <1>3, AdmissionKeeps, SettleKeeps, RequestAssumption DEF Dispatch
<1>4. ASSUME NEW r \in Requests, Answer(r) PROVE IInv'
  BY <1>4, AnswerKeeps
<1>5. ASSUME NEW r \in Requests, Settle(r) PROVE IInv'
  BY <1>5, SettleKeeps
<1>6. CASE Poll \/ ManualReset \/ Restart \/ Tick
  BY <1>6, EnvironmentKeeps
<1> QED BY <1>1, <1>2, <1>3, <1>4, <1>5, <1>6 DEF Next, Step

\* IInv holds in every reachable state.
THEOREM IInvHolds == Spec => []IInv
<1>1. Init => IInv
  BY InitIInv
<1>2. IInv /\ [Next]_vars => IInv'
  BY NextIInv
<1> QED BY <1>1, <1>2, PTL DEF Spec

\* The variables keep their types, for every threshold, cap and set of requests.
THEOREM TypeCorrect == Spec => []TypeOK
<1>1. IInv => TypeOK
  BY DEF IInv
<1> QED BY <1>1, IInvHolds, PTL

\* State and failure count agree in every reachable state (checkThresholds of _onFailure,
\* the decay of _onSuccess, reset and _restoreFromDb together).
THEOREM BandsHold == Spec => []ThresholdBands
<1>1. IInv => ThresholdBands
  BY DEF IInv
<1> QED BY <1>1, IInvHolds, PTL

\* HALF_OPEN never admits more than halfOpenRequests probes (execute's slot accounting).
THEOREM ProbesBounded == Spec => []ProbeBound
<1>1. IInv => ProbeBound
  BY DEF IInv
<1> QED BY <1>1, IInvHolds, PTL

\* Killing the process at any point loses nothing of the breaker but an unsaved
\* per-kind trip (_persistToDb and _restoreFromDb).
THEOREM StateIsDurable == Spec => []DurableStateAgrees
<1>1. IInv => DurableStateAgrees
  BY DEF IInv
<1> QED BY <1>1, IInvHolds, PTL

-----------------------------------------------------------------------------
(* What no step may do.                                                     *)

\* How one step can change the breaker: it refreshes, takes a slot, counts a success
\* or a failure of the (refreshed) breaker, is reset, restarts from its row, or ages.
BreakerMoves ==
  LET b == Refresh(breaker) IN
  \/ breaker' \in {breaker, b}
  \/ breaker' = TakeSlot(b) /\ Admits(b)
  \/ /\ breaker' \in {OnSuccess(breaker), OnSuccess(b)}
     /\ \E r \in Requests : At(r, "inflight") /\ req'[r] = Idle
  \/ \E k \in Kinds \union {NoKind} :
        \/ breaker' = OnFailure(breaker, k)
        \/ Admits(b) /\ breaker' = OnFailure(b, k)
  \/ breaker' = Reset(breaker)
  \/ breaker' = Restore(row)
  \/ breaker' = [breaker EXCEPT !.age = Older(@)]

\* No step changes the breaker in any other way.
LEMMA StepMoves ==
  ASSUME IInv, [Next]_vars
  PROVE  BreakerMoves
<1>1. NoKind \in Kinds \union {NoKind}
  OBVIOUS
<1>2. ASSUME NEW r \in Requests, Done(r)
      PROVE  req'[r] = Idle
  BY <1>2 DEF Done, IInv, TypeOK
<1>3. CASE UNCHANGED vars
  BY <1>3 DEF vars, BreakerMoves
<1>4. ASSUME NEW r \in Requests, Arrive(r) PROVE BreakerMoves
  BY <1>4 DEF Arrive, ScreenTarget, GateAdmits, GateRejects, Become, BreakerMoves
<1>5. ASSUME NEW r \in Requests, Dispatch(r) PROVE BreakerMoves
  <2>1. CASE BailOut(r) \/ DispatchPinned(r)
    BY <2>1 DEF BailOut, DispatchPinned, BreakerMoves
  <2>2. CASE AllAccountsLimited(r)
    BY <2>2, <1>1 DEF AllAccountsLimited, Become, BreakerMoves
  <2>3. CASE Execute(r)
    BY <2>3 DEF Execute, BreakerMoves
  <2>4. CASE ExecuteRejects(r)
    BY <2>4 DEF ExecuteRejects, Become, BreakerMoves
  <2> QED BY <1>5, <2>1, <2>2, <2>3, <2>4 DEF Dispatch
<1>6. ASSUME NEW r \in Requests, Answer(r) PROVE BreakerMoves
  <2>1. CASE SingleSucceeds(r)
    BY <2>1, <1>2 DEF SingleSucceeds, BecomeAfter, BreakerMoves
  <2>2. CASE ComboSucceeds(r)
    BY <2>2, <1>2 DEF ComboSucceeds, BecomeAfter, BreakerMoves
  <2>3. CASE OutcomeIgnored(r) \/ UpstreamFails(r)
    BY <2>3 DEF OutcomeIgnored, UpstreamFails, BreakerMoves
  <2>4. ASSUME NEW k \in Kinds \union {NoKind}, ExecuteThrows(r, k) PROVE BreakerMoves
    BY <2>4 DEF ExecuteThrows, BecomeAfter, BreakerMoves
  <2> QED BY <1>6, <2>1, <2>2, <2>3, <2>4 DEF Answer
<1>7. ASSUME NEW r \in Requests, Settle(r) PROVE BreakerMoves
  <2>1. CASE TryAgain(r) \/ ComboDropped(r)
    BY <2>1 DEF TryAgain, ComboDropped, BreakerMoves
  <2>2. CASE SingleCounted(r)
    BY <2>2, <1>1 DEF SingleCounted, Become, BreakerMoves
  <2>3. CASE ComboRecorded(r)
    BY <2>3, <1>1 DEF ComboRecorded, Become, BreakerMoves
  <2> QED BY <1>7, <2>1, <2>2, <2>3 DEF Settle
<1>8. CASE Poll \/ ManualReset \/ Restart \/ Tick
  BY <1>8 DEF Poll, ManualReset, Restart, Tick, Become, BreakerMoves
<1> QED BY <1>3, <1>4, <1>5, <1>6, <1>7, <1>8 DEF Next, Step

\* A tripped circuit closes only on an answer, a reset, or a restart that lost an
\* unsaved per-kind trip (_onSuccess, reset, _restoreFromDb).
THEOREM ClosingNeedsEvidence == Spec => ClosesOnEvidence
<1>1. ASSUME IInv, [Next]_vars,
             breaker.state \in {"OPEN", "HALF_OPEN"}, breaker'.state \in {"CLOSED", "DEGRADED"}
      PROVE  \/ \E r \in Requests : At(r, "inflight") /\ req'[r] = Idle
             \/ breaker' = Reset(breaker)
             \/ KindTripped(breaker) /\ row # Row(breaker)
  <2> DEFINE b == Refresh(breaker)
  <2>1. breaker \in Breakers /\ row \in Rows /\ DurableStateAgrees
    BY <1>1 DEF IInv, TypeOK
  <2>2. b \in Breakers /\ b.state \in {"OPEN", "HALF_OPEN"}
    BY <1>1, <2>1, RefreshType, RefreshShape
  <2>3. BreakerMoves
    BY <1>1, StepMoves
  <2>4. ASSUME NEW k \in Kinds \union {NoKind}
        PROVE  breaker' # OnFailure(breaker, k) /\ breaker' # OnFailure(b, k)
    BY <1>1, <2>1, <2>2, OnFailureShape
  <2>5. breaker' # TakeSlot(b)
    BY <1>1, <2>2, TakeSlotShape
  <2>6. breaker' = Restore(row) => row # Row(breaker)
    BY <1>1, <2>1, RestoreType, RowType
  <2>7. breaker' # [breaker EXCEPT !.age = Older(@)]
    BY <1>1, <2>1 DEF Breakers
  <2> HIDE DEF b
  <2> QED BY <1>1, <2>1, <2>2, <2>3, <2>4, <2>5, <2>6, <2>7
          DEF BreakerMoves, DurableStateAgrees, b
<1>2. IInv /\ [Next]_vars =>
        [breaker.state \in {"OPEN", "HALF_OPEN"} /\ breaker'.state \in {"CLOSED", "DEGRADED"} =>
           \/ \E r \in Requests : At(r, "inflight") /\ req'[r] = Idle
           \/ breaker' = Reset(breaker)
           \/ KindTripped(breaker) /\ row # Row(breaker)]_vars
  BY <1>1
<1> QED BY <1>2, IInvHolds, PTL DEF Spec, ClosesOnEvidence

\* openCycleCount, hence the backoff, is lowered only by closing the circuit
\* (_onSuccess and reset; _restoreFromDb reads it back).
THEOREM EscalationKept == Spec => EscalationForgottenOnlyByClose
<1>1. ASSUME IInv, [Next]_vars, breaker'.openCycleCount < breaker.openCycleCount
      PROVE  breaker'.state = "CLOSED"
  <2> DEFINE b == Refresh(breaker)
  <2>1. /\ breaker \in Breakers /\ row \in Rows
        /\ row.openCycleCount = breaker.openCycleCount /\ breaker.openCycleCount \in Int
    BY <1>1 DEF IInv, TypeOK, Breakers
  <2>2. b \in Breakers /\ b.openCycleCount = breaker.openCycleCount
    BY <2>1, RefreshType, RefreshShape
  <2>3. BreakerMoves
    BY <1>1, StepMoves
  <2>4. ASSUME NEW k \in Kinds \union {NoKind}
        PROVE  breaker' # OnFailure(breaker, k) /\ breaker' # OnFailure(b, k)
    <3>1. /\ OnFailure(breaker, k).openCycleCount >= breaker.openCycleCount
          /\ OnFailure(b, k).openCycleCount >= breaker.openCycleCount
      BY <2>1, <2>2, OnFailureShape
    <3>2. /\ OnFailure(breaker, k).openCycleCount \in Int
          /\ OnFailure(b, k).openCycleCount \in Int
      BY <1>1, <2>1, <2>2, OnFailureType, RefreshType DEF IInv, ThresholdBands, Breakers
    <3> QED BY <1>1, <2>1, <3>1, <3>2
  <2>5. breaker' # TakeSlot(b) /\ breaker' # Restore(row)
    BY <1>1, <2>1, <2>2, TakeSlotShape, RestoreType
  <2>6. breaker' # [breaker EXCEPT !.age = Older(@)]
    BY <1>1, <2>1 DEF Breakers
  <2>7. breaker' \in {OnSuccess(breaker), OnSuccess(b)} => breaker'.state = "CLOSED"
    BY <1>1, <2>1, <2>2, OnSuccessShape
  <2>8. breaker' = Reset(breaker) => breaker'.state = "CLOSED"
    BY DEF Reset, Fresh
  <2> HIDE DEF b
  <2>9. breaker' \notin {breaker, b}
    BY <1>1, <2>1, <2>2
  <2> QED BY <2>3, <2>4, <2>5, <2>6, <2>7, <2>8, <2>9 DEF BreakerMoves, b
<1>2. IInv /\ [Next]_vars =>
        [breaker'.openCycleCount < breaker.openCycleCount => breaker'.state = "CLOSED"]_vars
  BY <1>1
<1> QED BY <1>2, IInvHolds, PTL DEF Spec, EscalationForgottenOnlyByClose

\* A request's step moves no other request.
LEMMA OneRequestMoves ==
  ASSUME IInv, NEW q \in Requests, Arrive(q) \/ Step(q), NEW r \in Requests, r # q
  PROVE  req'[r] = req[r]
<1> USE DEF Goto, Done
<1>1. req \in [Requests -> RequestStates]
  BY DEF IInv, TypeOK
<1>2. CASE Arrive(q)
  BY <1>1, <1>2 DEF Arrive, ScreenTarget, GateAdmits, GateRejects
<1>3. CASE Dispatch(q)
  BY <1>1, <1>3 DEF Dispatch, BailOut, AllAccountsLimited, Execute, ExecuteRejects, DispatchPinned
<1>4. CASE Answer(q)
  BY <1>1, <1>4 DEF Answer, SingleSucceeds, ComboSucceeds, OutcomeIgnored, UpstreamFails, ExecuteThrows
<1>5. CASE Settle(q)
  BY <1>1, <1>5 DEF Settle, TryAgain, SingleCounted, ComboRecorded, ComboDropped, MoveOnOrRetry
<1> QED BY <1>2, <1>3, <1>4, <1>5 DEF Step

\* A failed combo target never moves the running cooldown of an open circuit
\* (the canExecute guard of recordProviderFailure).
THEOREM ComboKeepsCooldown == Spec => ComboFailureKeepsCooldown
<1> DEFINE Ends(r) == /\ TargetFailed(r) /\ req'[r].pc \in {"idle", "screened"}
                      /\ breaker.state = "OPEN" /\ ~ShouldAttemptReset(breaker)
<1>1. ASSUME IInv, [Next]_vars, NEW r \in Requests, Ends(r)
      PROVE  Row(breaker') \in {Row(breaker), row}
  <2>1. /\ breaker \in Breakers /\ row \in Rows /\ req \in [Requests -> RequestStates]
        /\ req[r].pc \in {"failed", "returned"} /\ req[r].mode \in Combo
    BY <1>1 DEF IInv, TypeOK, TargetFailed, At
  <2>2. req' # req /\ req'[r] # req[r]
    BY <1>1, <2>1
  <2>3. CASE Restart
    BY <2>1, <2>3, RestoreType DEF Restart
  <2>4. Poll \/ ManualReset \/ Tick \/ UNCHANGED vars => FALSE
    BY <2>2 DEF Poll, ManualReset, Tick, vars
  <2>5. ASSUME NEW q \in Requests, Arrive(q) \/ Step(q)
        PROVE  breaker' = breaker
    <3>1. q = r
      BY <1>1, <2>2, <2>5, OneRequestMoves
    <3>2. ~Arrive(r)
      BY <2>1 DEF Arrive, ScreenTarget, GateAdmits, GateRejects, AtGate, At
    <3>3. ~Dispatch(r)
      BY <2>1 DEF Dispatch, BailOut, AllAccountsLimited, Execute, ExecuteRejects, DispatchPinned, At
    <3>4. ~Answer(r)
      BY <2>1 DEF Answer, SingleSucceeds, ComboSucceeds, OutcomeIgnored, UpstreamFails, ExecuteThrows, At
    <3>5. ~TryAgain(r) /\ ~SingleCounted(r)
      BY <1>1, <2>1 DEF TryAgain, SingleCounted, RequestStates
    <3>6. CASE ComboRecorded(r)
      <4>1. Refresh(breaker) = breaker /\ ~Admits(breaker)
        BY <1>1 DEF Refresh, Admits
      <4> QED BY <3>6, <4>1 DEF ComboRecorded, Become
    <3>7. CASE ComboDropped(r)
      BY <3>7 DEF ComboDropped
    <3> QED BY <2>5, <3>1, <3>2, <3>3, <3>4, <3>5, <3>6, <3>7 DEF Step, Settle
  <2> QED BY <1>1, <2>3, <2>4, <2>5 DEF Next
<1>2. IInv /\ [Next]_vars =>
        [\A r \in Requests :
           /\ TargetFailed(r) /\ req'[r].pc \in {"idle", "screened"}
           /\ breaker.state = "OPEN" /\ ~ShouldAttemptReset(breaker)
           => Row(breaker') \in {Row(breaker), row}]_vars
  BY <1>1
<1> QED BY <1>2, IInvHolds, PTL DEF Spec, ComboFailureKeepsCooldown

=============================================================================
