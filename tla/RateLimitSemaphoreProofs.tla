----------------------- MODULE RateLimitSemaphoreProofs -----------------------
(***************************************************************************)
(* The permits, waiters and drain timers of one key of the rate-limit       *)
(* semaphore, for any requests, gate objects, caps, queue depth and         *)
(* cooldowns.                                                               *)
(*                                                                          *)
(* A key without a gate behaves as one with a fresh gate, so the invariant  *)
(* is stated of Current, the gate a caller would be handed.  It must know   *)
(* more than the checked properties: the queue holds no request twice (else *)
(* an admission could not be counted), and every pause on record, also one  *)
(* of an object no longer in the map, has a timer that outlasts it (else    *)
(* the last release could leave a queue nobody drains).                     *)
(***************************************************************************)
EXTENDS RateLimitSemaphore, FiniteSetTheorems, TLAPS

Gate ==
  [running : Nat, max : {Cap, DefaultCap}, queue : Seq(Requests), pause : Nat \union {NoPause}]

Statuses == [Requests -> {"idle", "waiting", "running"}]

Current == IF registered = NoGate THEN NewGate ELSE gates[registered]

RunningIn(rq) == {r \in Requests : rq[r] = "running"}

\* gate's count and queue are those of the requests rq.
Counted(gate, rq) == gate.running = Cardinality(RunningIn(rq))

Queued(gate, rq) ==
  /\ \A i, j \in 1..Len(gate.queue) : gate.queue[i] = gate.queue[j] => i = j
  /\ \A r \in Requests : rq[r] = "waiting" <=> \E i \in 1..Len(gate.queue) : gate.queue[i] = r

Covered(gate) == gate.queue # <<>> /\ gate.running = 0 => gate.pause # NoPause

Fits(gate, rq) == Counted(gate, rq) /\ Queued(gate, rq) /\ Covered(gate)

\* Every pause on record has a timer that outlasts it.
Timed(gs, ts) ==
  \A g \in GateIds : gs[g].pause # NoPause => \E t \in ts : t.gate = g /\ t.left >= gs[g].pause

Inv == TypeOK /\ Fits(Current, req) /\ Timed(gates, timers)

-----------------------------------------------------------------------------
(* The operators.                                                           *)

LEMMA RunningFinite ==
  ASSUME NEW rq
  PROVE  /\ IsFiniteSet(RunningIn(rq))
         /\ Cardinality(RunningIn(rq)) \in 0..Cardinality(Requests)
<1>1. RunningIn(rq) \in SUBSET Requests /\ IsFiniteSet(Requests)
  BY SemaphoreAssumption DEF RunningIn
<1> QED BY <1>1, FS_Subset, FS_CardinalityType

LEMMA AdmissibleBounds ==
  ASSUME NEW gate \in Gate
  PROVE  /\ Admissible(gate) \in 0..Len(gate.queue)
         /\ Limited(gate) => Admissible(gate) = 0
         /\ ~Limited(gate) =>
              Admissible(gate) = Len(gate.queue) \/ gate.running + Admissible(gate) >= gate.max
<1>1. \A a, b \in Int : Min({a, b}) = IF a <= b THEN a ELSE b
  BY DEF Min
<1>2. \A a \in Int : Max({0, a}) = IF a <= 0 THEN 0 ELSE a
  BY DEF Max
<1>3. Len(gate.queue) \in Nat /\ gate.max \in Int /\ gate.running \in Int
  BY SemaphoreAssumption DEF Gate
<1>4. Min({Len(gate.queue), gate.max - gate.running})
        = IF Len(gate.queue) <= gate.max - gate.running
          THEN Len(gate.queue) ELSE gate.max - gate.running
  BY <1>1, <1>3
<1>5. ~Limited(gate) =>
        Admissible(gate) = IF Min({Len(gate.queue), gate.max - gate.running}) <= 0
                           THEN 0 ELSE Min({Len(gate.queue), gate.max - gate.running})
  <2>1. Min({Len(gate.queue), gate.max - gate.running}) \in Int
    BY <1>3, <1>4
  <2> QED BY <1>2, <2>1 DEF Admissible
<1>6. Limited(gate) => Admissible(gate) = 0
  BY DEF Admissible
<1> QED BY <1>3, <1>4, <1>5, <1>6

\* The first n waiters of an injective queue are n requests.
LEMMA FirstOfQueue ==
  ASSUME NEW q \in Seq(Requests), NEW n \in 0..Len(q),
         \A i, j \in 1..Len(q) : q[i] = q[j] => i = j
  PROVE  /\ IsFiniteSet({q[i] : i \in 1..n})
         /\ Cardinality({q[i] : i \in 1..n}) = n
<1> DEFINE S == {q[i] : i \in 1..n}
           f == [i \in 1..n |-> q[i]]
<1>1. n \in Nat /\ Len(q) \in Nat /\ 1..n \subseteq 1..Len(q)
  OBVIOUS
<1>2. f \in Injection(1..n, S) /\ f \in Surjection(1..n, S)
  BY <1>1 DEF Injection, IsInjective, Surjection
<1>3. ExistsBijection(1..n, S)
  BY <1>2 DEF ExistsBijection, Bijection
<1>4. IsFiniteSet(1..n) /\ Cardinality(1..n) = n
  BY <1>1, FS_Interval
<1> HIDE DEF S, f
<1>5. IsFiniteSet(S) /\ Cardinality(S) = n
  BY <1>3, <1>4, FS_Bijection
<1> QED BY <1>5 DEF S

\* Admitting the first n waiters and waking them keeps the count and the queue.
LEMMA AdmitFits ==
  ASSUME NEW gate \in Gate, NEW rq \in Statuses, NEW n \in 0..Len(gate.queue),
         Counted(gate, rq), Queued(gate, rq),
         NEW rq2 \in Statuses,
         \A r \in Requests :
           rq2[r] = IF r \in {gate.queue[i] : i \in 1..n} THEN "running" ELSE rq[r]
  PROVE  /\ Admit(gate, n) \in Gate
         /\ Counted(Admit(gate, n), rq2) /\ Queued(Admit(gate, n), rq2)
         /\ Admit(gate, n).pause \in {gate.pause, NoPause}
<1> DEFINE q == gate.queue
           woken == {q[i] : i \in 1..n}
           after == Admit(gate, n)
<1>1. q \in Seq(Requests) /\ Len(q) \in Nat /\ n \in Nat /\ n <= Len(q)
  BY DEF Gate
<1>2. CASE n = 0
  <2>1. after = gate
    BY <1>2 DEF Admit
  <2>2. woken = {}
    BY <1>2
  <2>3. \A r \in Requests : rq2[r] = rq[r]
    BY <2>2
  <2>4. rq2 = rq
    BY <2>3 DEF Statuses
  <2> QED BY <2>1, <2>4
<1>3. CASE n > 0
  <2>1. /\ after \in Gate
        /\ after.running = gate.running + n
        /\ after.queue = SubSeq(q, n + 1, Len(q))
        /\ after.pause \in {gate.pause, NoPause}
    <3>1. /\ Noticed(gate) \in Gate /\ Noticed(gate).running = gate.running
          /\ Noticed(gate).queue = q /\ Noticed(gate).pause \in {gate.pause, NoPause}
      BY DEF Noticed, Gate, NoPause
    <3>2. after = [Noticed(gate) EXCEPT !.running = gate.running + n,
                                        !.queue = SubSeq(q, n + 1, Len(q))]
      BY <1>3, <3>1 DEF Admit
    <3>4. gate.running + n \in Nat
      BY <1>1 DEF Gate
    <3>3. SubSeq(q, n + 1, Len(q)) \in Seq(Requests)
      BY <1>1
    <3> QED BY <3>1, <3>2, <3>3, <3>4 DEF Gate
  <2>2. woken \subseteq Requests /\ \A r \in woken : rq[r] = "waiting"
    BY <1>1 DEF Queued
  <2>3. RunningIn(rq2) = RunningIn(rq) \union woken /\ RunningIn(rq) \intersect woken = {}
    BY <2>2 DEF RunningIn
  <2>4. IsFiniteSet(woken) /\ Cardinality(woken) = n
    BY <1>1, FirstOfQueue DEF Queued
  <2>5. Counted(after, rq2)
    <3> HIDE DEF woken, after
    <3>1. /\ Cardinality(RunningIn(rq2)) = Cardinality(RunningIn(rq)) + Cardinality(woken)
                                             - Cardinality(RunningIn(rq) \intersect woken)
          /\ Cardinality(RunningIn(rq)) \in Nat
      BY <2>3, <2>4, RunningFinite, FS_Union, FS_CardinalityType
    <3>2. Cardinality(RunningIn(rq) \intersect woken) = 0
      BY <2>3, FS_EmptySet
    <3> QED BY <2>1, <2>4, <3>1, <3>2 DEF Counted
  <2>6. /\ Len(after.queue) = Len(q) - n
        /\ \A i \in 1..(Len(q) - n) : after.queue[i] = q[n + i]
    BY <1>1, <2>1
  <2>7. \A i, j \in 1..Len(after.queue) : after.queue[i] = after.queue[j] => i = j
    BY <1>1, <2>6 DEF Queued
  <2>8. ASSUME NEW r \in Requests
        PROVE  rq2[r] = "waiting" <=> \E i \in 1..Len(after.queue) : after.queue[i] = r
    <3>1. (\E i \in 1..Len(after.queue) : after.queue[i] = r)
            <=> \E k \in (n + 1)..Len(q) : q[k] = r
      <4>1. ASSUME NEW k \in (n + 1)..Len(q), q[k] = r
            PROVE  \E i \in 1..Len(after.queue) : after.queue[i] = r
        <5>1. k - n \in 1..(Len(q) - n) /\ n + (k - n) = k
          BY <1>1
        <5> QED BY <2>6, <4>1, <5>1
      <4>2. ASSUME NEW i \in 1..Len(after.queue), after.queue[i] = r
            PROVE  \E k \in (n + 1)..Len(q) : q[k] = r
        <5>1. n + i \in (n + 1)..Len(q)
          BY <1>1, <2>6
        <5> QED BY <2>6, <4>2, <5>1
      <4> QED BY <4>1, <4>2
    <3>2. r \in woken => ~\E k \in (n + 1)..Len(q) : q[k] = r
      BY <1>1 DEF Queued
    <3>3. r \notin woken => (rq[r] = "waiting" <=> \E k \in (n + 1)..Len(q) : q[k] = r)
      BY <1>1 DEF Queued
    <3> QED BY <3>1, <3>2, <3>3
  <2> QED BY <2>1, <2>5, <2>7, <2>8 DEF Queued
<1> QED BY <1>1, <1>2, <1>3

\* Taking r out of an injective queue leaves the others, each once.
LEMMA RemoveFirstShape ==
  ASSUME NEW q \in Seq(Requests), NEW r \in Requests,
         \A i, j \in 1..Len(q) : q[i] = q[j] => i = j
  PROVE  LET s == RemoveFirst(q, r) IN
         /\ s \in Seq(Requests)
         /\ \A i, j \in 1..Len(s) : s[i] = s[j] => i = j
         /\ \A x \in Requests :
              (\E i \in 1..Len(s) : s[i] = x) <=> x # r /\ \E i \in 1..Len(q) : q[i] = x
<1> DEFINE s == RemoveFirst(q, r)
<1>1. CASE ~\E i \in 1..Len(q) : q[i] = r
  BY <1>1 DEF RemoveFirst
<1>2. ASSUME NEW k \in 1..Len(q), q[k] = r
      PROVE  /\ s \in Seq(Requests)
             /\ \A i, j \in 1..Len(s) : s[i] = s[j] => i = j
             /\ \A x \in Requests :
                  (\E i \in 1..Len(s) : s[i] = x) <=> x # r /\ \E i \in 1..Len(q) : q[i] = x
  <2>1. {i \in 1..Len(q) : q[i] = r} = {k} /\ Min({k}) = k
    BY <1>2 DEF Min
  <2>2. s = SubSeq(q, 1, k - 1) \o SubSeq(q, k + 1, Len(q))
    BY <1>2, <2>1 DEF RemoveFirst, RemoveAt, SelectInSeq
  <2>3. Len(q) \in Nat /\ k \in Nat /\ 1 <= k /\ k <= Len(q)
    BY <1>2
  <2>4. /\ SubSeq(q, 1, k - 1) \in Seq(Requests) /\ Len(SubSeq(q, 1, k - 1)) = k - 1
        /\ \A i \in 1..(k - 1) : SubSeq(q, 1, k - 1)[i] = q[i]
    BY <2>3
  <2>5. /\ SubSeq(q, k + 1, Len(q)) \in Seq(Requests)
        /\ Len(SubSeq(q, k + 1, Len(q))) = Len(q) - k
        /\ \A i \in 1..(Len(q) - k) : SubSeq(q, k + 1, Len(q))[i] = q[k + i]
    BY <2>3
  <2>6. /\ s \in Seq(Requests) /\ Len(s) = Len(q) - 1
        /\ \A i \in 1..(Len(q) - 1) : s[i] = IF i < k THEN q[i] ELSE q[i + 1]
    <3> DEFINE a == SubSeq(q, 1, k - 1)
               b == SubSeq(q, k + 1, Len(q))
    <3> HIDE DEF a, b
    <3>1. s = a \o b /\ a \in Seq(Requests) /\ b \in Seq(Requests)
          /\ Len(a) = k - 1 /\ Len(b) = Len(q) - k
      BY <2>2, <2>4, <2>5 DEF a, b
    <3>2. s \in Seq(Requests) /\ Len(s) = Len(q) - 1
      BY <2>3, <3>1
    <3>3. ASSUME NEW i \in 1..(Len(q) - 1)
          PROVE  s[i] = IF i < k THEN q[i] ELSE q[i + 1]
      <4>1. CASE i < k
        <5>1. i \in 1..Len(a) /\ s[i] = a[i]
          BY <2>3, <3>1, <4>1
        <5> QED BY <2>3, <2>4, <4>1, <5>1 DEF a
      <4>2. CASE i >= k
        <5>1. s[i] = b[i - (k - 1)]
          BY <2>3, <3>1, <4>2
        <5>2. i - (k - 1) \in 1..(Len(q) - k) /\ k + (i - (k - 1)) = i + 1
          BY <2>3, <4>2
        <5> QED BY <2>3, <2>5, <4>2, <5>1, <5>2 DEF b
      <4> QED BY <2>3, <4>1, <4>2
    <3> QED BY <3>2, <3>3
  <2> HIDE DEF s
  <2>7. \A i, j \in 1..Len(s) : s[i] = s[j] => i = j
    BY <2>3, <2>6
  <2>8. ASSUME NEW x \in Requests
        PROVE  (\E i \in 1..Len(s) : s[i] = x) <=> x # r /\ \E i \in 1..Len(q) : q[i] = x
    <3>1. ASSUME NEW i \in 1..Len(s), s[i] = x
          PROVE  x # r /\ \E j \in 1..Len(q) : q[j] = x
      BY <1>2, <2>3, <2>6, <3>1
    <3>2. ASSUME x # r, NEW j \in 1..Len(q), q[j] = x
          PROVE  \E i \in 1..Len(s) : s[i] = x
      <4>1. CASE j < k
        BY <2>3, <2>6, <3>2, <4>1
      <4>2. CASE j > k
        <5>1. j - 1 \in 1..(Len(q) - 1) /\ ~(j - 1 < k) /\ (j - 1) + 1 = j
          BY <2>3, <4>2
        <5> QED BY <2>6, <3>2, <5>1
      <4> QED BY <1>2, <2>3, <3>2, <4>1, <4>2
    <3> QED BY <3>1, <3>2
  <2> QED BY <2>6, <2>7, <2>8
<1> QED BY <1>1, <1>2

-----------------------------------------------------------------------------
(* One step of the semaphore.                                               *)

\* A gate that fits the requests becomes g, registered unless nobody uses it.
LEMMA Installed ==
  ASSUME NEW gs \in [GateIds -> GateRecords], NEW g \in GateIds, NEW gate \in Gate,
         req' \in Statuses, timers' \subseteq [gate : GateIds, left : Nat], cooldown' \in Nat,
         Fits(gate, req'), Timed([gs EXCEPT ![g] = gate], timers'),
         \/ Store(gs, g, gate)
         \/ gates' = [gs EXCEPT ![g] = gate] /\ registered' = g
  PROVE  Inv'
<1> DEFINE bare == [NewGate EXCEPT !.pause = gate.pause]
<1>1. gate \in GateRecords
  <2>1. gate.running \in 0..Cardinality(Requests)
    BY RunningFinite DEF Fits, Counted
  <2> QED BY <2>1 DEF Gate, GateRecords
<1>2. bare \in GateRecords /\ bare.pause = gate.pause
  <2>1. 0 \in 0..Cardinality(Requests)
    BY FS_CardinalityType, SemaphoreAssumption
  <2>2. NewGate \in GateRecords /\ gate.pause \in Nat \union {NoPause}
    BY <2>1 DEF NewGate, Gate, GateRecords
  <2> QED BY <2>2 DEF GateRecords
<1>3. g # NoGate
  BY SemaphoreAssumption
<1>4. CASE gates' = [gs EXCEPT ![g] = gate] /\ registered' = g
  <2>1. TypeOK'
    BY <1>1, <1>4 DEF TypeOK, Statuses
  <2>2. Current' = gate
    BY <1>3, <1>4 DEF Current
  <2> QED BY <1>4, <2>1, <2>2 DEF Inv
<1>5. CASE Store(gs, g, gate) /\ Idle(gate)
  <2>1. gates' = [gs EXCEPT ![g] = bare] /\ registered' = NoGate
    BY <1>5 DEF Store
  <2>2. TypeOK'
    BY <1>2, <2>1 DEF TypeOK, Statuses
  <2>3. Current' = NewGate
    BY <2>1 DEF Current
  <2>4. Fits(NewGate, req')
    BY <1>5 DEF Fits, Counted, Queued, Covered, NewGate, Idle
  <2>5. Timed(gates', timers')
    BY <1>2, <2>1 DEF Timed
  <2> QED BY <2>2, <2>3, <2>4, <2>5 DEF Inv
<1>6. CASE Store(gs, g, gate) /\ ~Idle(gate)
  BY <1>4, <1>6 DEF Store
<1> QED BY <1>4, <1>5, <1>6

\* The gate acquire() is handed fits, whether it is the registered one or new.
LEMMA GateHanded ==
  ASSUME Inv, NEW g \in GateIds, Hands(g)
  PROVE  LET gate == GetGate(g, Cap) IN
         /\ gate \in Gate /\ gate.max = Cap
         /\ Fits(gate, req)
         /\ Timed([gates EXCEPT ![g] = gate], timers)
         /\ gate = [Current EXCEPT !.max = Cap]
<1> DEFINE gate == GetGate(g, Cap)
<1>0. gates \in [GateIds -> GateRecords] /\ g # NoGate
  BY SemaphoreAssumption DEF Inv, TypeOK
<1>1. gate = [Current EXCEPT !.max = Cap]
  BY <1>0 DEF GetGate, Hands, Current
<1>2. Current \in Gate
  <2>1. NewGate \in Gate
    BY DEF NewGate, Gate
  <2>2. GateRecords \subseteq Gate
    BY DEF GateRecords, Gate
  <2> QED BY <1>0, <2>1, <2>2 DEF Current, Inv, TypeOK
<1>3. /\ gate \in Gate /\ gate.max = Cap /\ gate.running = Current.running
      /\ gate.queue = Current.queue /\ gate.pause = Current.pause
  BY <1>1, <1>2 DEF Gate
<1>4. Fits(gate, req)
  BY <1>3 DEF Inv, Fits, Counted, Queued, Covered
<1>5. Timed([gates EXCEPT ![g] = gate], timers)
  <2>1. CASE registered = g
    BY <1>0, <1>3, <2>1 DEF Current, Inv, Timed
  <2>2. CASE registered = NoGate
    <3>1. gate.pause = NoPause
      BY <1>3, <2>2 DEF Current, NewGate
    <3> QED BY <1>0, <3>1 DEF Inv, Timed
  <2> QED BY <2>1, <2>2 DEF Hands
<1> QED BY <1>1, <1>3, <1>4, <1>5

\* Whoever runs or waits has a registered gate, which fits.
LEMMA GateInUse ==
  ASSUME Inv, NEW r \in Requests, req[r] # "idle"
  PROVE  registered \in GateIds /\ gates[registered] \in Gate /\ Current = gates[registered]
<1>1. registered # NoGate
  <2>1. SUFFICES ASSUME registered = NoGate PROVE FALSE
    OBVIOUS
  <2>2. Cardinality(RunningIn(req)) = 0 /\ Current.queue = <<>>
    BY <2>1 DEF Inv, Fits, Counted, Current, NewGate
  <2>3. RunningIn(req) = {}
    BY <2>2, RunningFinite, FS_EmptySet
  <2>4. req[r] = "waiting"
    BY <2>3 DEF RunningIn, Inv, TypeOK
  <2> QED BY <2>2, <2>4 DEF Inv, Fits, Queued
<1> QED BY <1>1 DEF Inv, TypeOK, Current, GateRecords, Gate

\* drainQueue keeps the invariant if its gate is counted and its pauses timed.
LEMMA DrainKeeps ==
  ASSUME NEW gs \in [GateIds -> GateRecords], NEW rq \in Statuses, registered \in GateIds,
         timers' \subseteq [gate : GateIds, left : Nat], cooldown' \in Nat,
         Counted(gs[registered], rq), Queued(gs[registered], rq), Timed(gs, timers'),
         Drain(gs, rq)
  PROVE  Inv'
<1> DEFINE gate == gs[registered]
           n == Admissible(gate)
           after == Admit(gate, n)
<1>1. gate \in Gate
  BY DEF GateRecords, Gate
<1>2. /\ n \in 0..Len(gate.queue)
      /\ Limited(gate) => n = 0
      /\ ~Limited(gate) => n = Len(gate.queue) \/ gate.running + n >= gate.max
  BY <1>1, AdmissibleBounds
<1>3. /\ Store(gs, registered, after)
      /\ req' = [q \in Requests |->
                   IF q \in {gate.queue[i] : i \in 1..n} THEN "running" ELSE rq[q]]
  BY DEF Drain
<1> HIDE DEF n
<1>4. req' \in Statuses
  BY <1>3 DEF Statuses
<1>5. /\ after \in Gate /\ Counted(after, req') /\ Queued(after, req')
      /\ after.pause \in {gate.pause, NoPause}
  BY <1>1, <1>2, <1>3, <1>4, AdmitFits
<1>6. Covered(after)
  <2>1. CASE n = 0
    <3>1. after = gate /\ gate.max > 0 /\ Len(gate.queue) \in Nat
      BY <1>1, <2>1, SemaphoreAssumption DEF Admit, Gate
    <3>2. Limited(gate) => gate.pause # NoPause
      BY <1>1 DEF Limited, Gate, NoPause
    <3>3. Len(gate.queue) = 0 => gate.queue = <<>>
      BY <1>1 DEF Gate
    <3>4. ~Limited(gate) => Len(gate.queue) = 0 \/ gate.running >= gate.max
      BY <1>1, <1>2, <2>1 DEF Gate
    <3>5. gate.max \in Nat
      BY <1>1, SemaphoreAssumption DEF Gate
    <3>6. Covered(gate)
      BY <3>1, <3>2, <3>3, <3>4, <3>5 DEF Covered
    <3> QED BY <3>1, <3>6
  <2>2. CASE n # 0
    BY <1>1, <1>2, <2>2 DEF Covered, Admit, Noticed, Gate
  <2> QED BY <2>1, <2>2
<1>7. Timed([gs EXCEPT ![registered] = after], timers')
  BY <1>5 DEF Timed
<1> QED BY <1>3, <1>4, <1>5, <1>6, <1>7, Installed DEF Fits

-----------------------------------------------------------------------------
(* The actions.                                                             *)

LEMMA AcquireFastKeeps ==
  ASSUME Inv, NEW r \in Requests, NEW g \in GateIds, AcquireFast(r, g)
  PROVE  Inv'
<1> DEFINE gate == GetGate(g, Cap)
           after == [Noticed(gate) EXCEPT !.running = @ + 1]
<1>1. /\ gate \in Gate /\ Fits(gate, req) /\ Timed([gates EXCEPT ![g] = gate], timers)
  BY GateHanded DEF AcquireFast
<1>2. /\ gates' = [gates EXCEPT ![g] = after] /\ registered' = g
      /\ req[r] = "idle" /\ req' = [req EXCEPT ![r] = "running"]
      /\ timers' = timers /\ cooldown' = cooldown
  BY DEF AcquireFast, Keep
<1> HIDE DEF gate
<1>3. gates \in [GateIds -> GateRecords] /\ req \in Statuses /\ req' \in Statuses
  BY <1>2 DEF Inv, TypeOK, Statuses
<1>4. /\ after \in Gate /\ after.running = gate.running + 1 /\ after.queue = gate.queue
      /\ after.pause \in {gate.pause, NoPause}
  <2>1. /\ Noticed(gate) \in Gate /\ Noticed(gate).running = gate.running
        /\ Noticed(gate).queue = gate.queue /\ Noticed(gate).pause \in {gate.pause, NoPause}
    BY <1>1 DEF Noticed, Gate, NoPause
  <2> QED BY <2>1 DEF Gate
<1>5. Counted(after, req')
  <2>1. RunningIn(req') = RunningIn(req) \union {r} /\ r \notin RunningIn(req)
    BY <1>2, <1>3 DEF RunningIn, Statuses
  <2> QED BY <1>1, <1>4, <2>1, RunningFinite, FS_AddElement DEF Counted, Fits
<1>6. Queued(after, req')
  BY <1>1, <1>2, <1>3, <1>4 DEF Fits, Queued, Statuses
<1>7. Covered(after)
  BY <1>1, <1>4 DEF Covered, Gate
<1>8. Timed([gates EXCEPT ![g] = after], timers')
  BY <1>1, <1>2, <1>3, <1>4 DEF Timed
<1>9. timers' \subseteq [gate : GateIds, left : Nat] /\ cooldown' \in Nat
  BY <1>2 DEF Inv, TypeOK
<1> QED BY <1>2, <1>3, <1>4, <1>5, <1>6, <1>7, <1>8, <1>9, Installed DEF Fits

LEMMA AcquireFullKeeps ==
  ASSUME Inv, NEW r \in Requests, NEW g \in GateIds, AcquireFull(r, g)
  PROVE  Inv'
<1> DEFINE gate == GetGate(g, Cap)
<1>1. /\ gate \in Gate /\ Fits(gate, req) /\ Timed([gates EXCEPT ![g] = gate], timers)
  BY GateHanded DEF AcquireFull
<1>2. /\ Store(gates, g, gate)
      /\ req' = req /\ timers' = timers /\ cooldown' = cooldown
  BY DEF AcquireFull
<1> HIDE DEF gate
<1>3. /\ gates \in [GateIds -> GateRecords] /\ req' \in Statuses
      /\ timers' \subseteq [gate : GateIds, left : Nat] /\ cooldown' \in Nat
  BY <1>2 DEF Inv, TypeOK, Statuses
<1> QED BY <1>1, <1>2, <1>3, Installed

LEMMA AcquireQueuesKeeps ==
  ASSUME Inv, NEW r \in Requests, NEW g \in GateIds, AcquireQueues(r, g)
  PROVE  Inv'
<1> DEFINE gate == GetGate(g, Cap)
           after == [gate EXCEPT !.queue = Append(@, r)]
<1>1. /\ gate \in Gate /\ gate.max = Cap
      /\ Fits(gate, req) /\ Timed([gates EXCEPT ![g] = gate], timers)
  BY GateHanded DEF AcquireQueues
<1>2. /\ gates' = [gates EXCEPT ![g] = after] /\ registered' = g
      /\ MustWait(gate)
      /\ req[r] = "idle" /\ req' = [req EXCEPT ![r] = "waiting"]
      /\ timers' = timers /\ cooldown' = cooldown
  BY DEF AcquireQueues, Keep
<1> HIDE DEF gate
<1>3. gates \in [GateIds -> GateRecords] /\ req \in Statuses /\ req' \in Statuses
  BY <1>2 DEF Inv, TypeOK, Statuses
<1>4. /\ after \in Gate /\ after.running = gate.running
      /\ after.queue = Append(gate.queue, r) /\ after.pause = gate.pause
  <2>1. Append(gate.queue, r) \in Seq(Requests)
    BY <1>1 DEF Gate
  <2> QED BY <1>1, <2>1 DEF Gate
<1>5. Counted(after, req')
  <2>1. RunningIn(req') = RunningIn(req)
    BY <1>2, <1>3 DEF RunningIn, Statuses
  <2> QED BY <1>1, <1>4, <2>1 DEF Counted, Fits
<1>6. Queued(after, req')
  <2> DEFINE q == gate.queue
             s == after.queue
  <2>1. /\ q \in Seq(Requests) /\ Len(q) \in Nat /\ Len(s) = Len(q) + 1
        /\ \A i \in 1..Len(q) : s[i] = q[i] /\ q[i] # r
        /\ s[Len(q) + 1] = r
    BY <1>1, <1>2, <1>4 DEF Gate, Fits, Queued
  <2>2. ASSUME NEW i \in 1..Len(s), NEW j \in 1..Len(s), s[i] = s[j]
        PROVE  i = j
    BY <1>1, <2>1, <2>2 DEF Fits, Queued
  <2>3. ASSUME NEW x \in Requests
        PROVE  req'[x] = "waiting" <=> \E i \in 1..Len(s) : s[i] = x
    <3>1. CASE x = r
      BY <1>2, <1>3, <2>1, <3>1 DEF Statuses
    <3>2. CASE x # r
      <4>1. req'[x] = req[x]
        BY <1>2, <1>3, <3>2 DEF Statuses
      <4>2. (\E i \in 1..Len(s) : s[i] = x) <=> \E i \in 1..Len(q) : q[i] = x
        BY <2>1, <3>2
      <4> QED BY <1>1, <4>1, <4>2 DEF Fits, Queued
    <3> QED BY <3>1, <3>2
  <2> QED BY <2>2, <2>3 DEF Queued
<1>7. Covered(after)
  <2>1. gate.running = 0 => Limited(gate)
    BY <1>1, <1>2, SemaphoreAssumption DEF MustWait
  <2>2. Limited(gate) => gate.pause # NoPause
    BY <1>1 DEF Limited, Gate, NoPause
  <2> QED BY <1>4, <2>1, <2>2 DEF Covered
<1>8. Timed([gates EXCEPT ![g] = after], timers')
  BY <1>1, <1>2, <1>3, <1>4 DEF Timed
<1>9. timers' \subseteq [gate : GateIds, left : Nat] /\ cooldown' \in Nat
  BY <1>2 DEF Inv, TypeOK
<1> QED BY <1>2, <1>3, <1>4, <1>5, <1>6, <1>7, <1>8, <1>9, Installed DEF Fits

LEMMA TimeoutKeeps ==
  ASSUME Inv, NEW r \in Requests, Timeout(r)
  PROVE  Inv'
<1> DEFINE gate == gates[registered]
           after == [gate EXCEPT !.queue = RemoveFirst(@, r)]
<1>1. /\ req[r] = "waiting" /\ req' = [req EXCEPT ![r] = "idle"]
      /\ UNCHANGED <<registered, timers, cooldown>>
  BY DEF Timeout
<1>2. registered \in GateIds /\ gate \in Gate /\ Current = gate
  BY <1>1, GateInUse
<1>3. gates \in [GateIds -> GateRecords] /\ req \in Statuses /\ req' \in Statuses
  BY <1>1 DEF Inv, TypeOK, Statuses
<1>4. gates' = [gates EXCEPT ![registered] = after]
  BY <1>2, <1>3 DEF Timeout
<1>5. Fits(gate, req)
  BY <1>2 DEF Inv
<1> HIDE DEF gate
<1>6. /\ RemoveFirst(gate.queue, r) \in Seq(Requests)
      /\ \A i, j \in 1..Len(RemoveFirst(gate.queue, r)) :
           RemoveFirst(gate.queue, r)[i] = RemoveFirst(gate.queue, r)[j] => i = j
      /\ \A x \in Requests :
           (\E i \in 1..Len(RemoveFirst(gate.queue, r)) : RemoveFirst(gate.queue, r)[i] = x)
             <=> x # r /\ \E i \in 1..Len(gate.queue) : gate.queue[i] = x
  BY <1>2, <1>5, RemoveFirstShape DEF Gate, Fits, Queued
<1>7. /\ after \in Gate /\ after.running = gate.running /\ after.pause = gate.pause
      /\ after.queue = RemoveFirst(gate.queue, r)
  BY <1>2, <1>6 DEF Gate
<1>8. Counted(after, req')
  <2>1. RunningIn(req') = RunningIn(req)
    BY <1>1, <1>3 DEF RunningIn, Statuses
  <2> QED BY <1>5, <1>7, <2>1 DEF Counted, Fits
<1>9. Queued(after, req')
  <2>1. \A x \in Requests : req'[x] = "waiting" <=> x # r /\ req[x] = "waiting"
    BY <1>1, <1>3 DEF Statuses
  <2> QED BY <1>5, <1>6, <1>7, <2>1 DEF Queued, Fits
<1>10. Covered(after)
  <2>1. gate.queue # <<>>
    BY <1>1, <1>2, <1>5 DEF Fits, Queued, Gate
  <2> QED BY <1>5, <1>7, <2>1 DEF Fits, Covered
<1>11. Timed([gates EXCEPT ![registered] = after], timers')
  BY <1>1, <1>2, <1>3, <1>7 DEF Inv, Timed, gate
<1>12. timers' \subseteq [gate : GateIds, left : Nat] /\ cooldown' \in Nat
  BY <1>1 DEF Inv, TypeOK
<1> QED BY <1>1, <1>2, <1>3, <1>4, <1>7, <1>8, <1>9, <1>10, <1>11, <1>12, Installed DEF Fits

LEMMA MarkKeeps ==
  ASSUME Inv, NEW r \in Requests, NEW d \in Cooldowns, MarkRateLimited(r, d)
  PROVE  Inv'
<1> DEFINE gate == gates[registered]
           after == [gate EXCEPT !.pause = d, !.max = DefaultCap]
           timer == [gate |-> registered, left |-> d + Grace]
<1>1. /\ req[r] = "running" /\ UNCHANGED <<registered, req>>
      /\ timers' = timers \union {timer} /\ cooldown' = d
  BY DEF MarkRateLimited
<1>2. registered \in GateIds /\ gate \in Gate /\ Current = gate /\ registered # NoGate
  BY <1>1, GateInUse, SemaphoreAssumption
<1>3. d \in Nat /\ Grace \in Nat /\ timer \in [gate : GateIds, left : Nat]
  BY <1>2, SemaphoreAssumption
<1>4. gates \in [GateIds -> GateRecords] /\ req' \in Statuses
      /\ timers' \subseteq [gate : GateIds, left : Nat] /\ cooldown' \in Nat
  BY <1>1, <1>3 DEF Inv, TypeOK, Statuses
<1>5. gates' = [gates EXCEPT ![registered] = after]
  BY <1>2, <1>4 DEF MarkRateLimited
<1>6. Fits(gate, req)
  BY <1>2 DEF Inv
<1>7. Timed(gates, timers)
  BY DEF Inv
<1> HIDE DEF gate
<1>8. /\ after \in Gate /\ after.running = gate.running /\ after.queue = gate.queue
      /\ after.pause = d
  BY <1>2, <1>3 DEF Gate
<1>9. Fits(after, req')
  BY <1>1, <1>3, <1>6, <1>8 DEF Fits, Counted, Queued, Covered, NoPause
<1>10. Timed([gates EXCEPT ![registered] = after], timers')
  <2>1. timer \in timers' /\ timer.gate = registered /\ timer.left >= after.pause
    BY <1>1, <1>3, <1>8, SemaphoreAssumption
  <2> QED BY <1>1, <1>2, <1>4, <1>7, <2>1 DEF Timed
<1> QED BY <1>1, <1>2, <1>4, <1>5, <1>8, <1>9, <1>10, Installed

LEMMA ReleaseKeeps ==
  ASSUME Inv, NEW r \in Requests, Release(r)
  PROVE  Inv'
<1> DEFINE gate == gates[registered]
           before == [gates EXCEPT ![registered].running = @ - 1]
           rq == [req EXCEPT ![r] = "idle"]
<1>1. req[r] = "running" /\ Drain(before, rq) /\ UNCHANGED <<timers, cooldown>>
  BY DEF Release
<1>2. registered \in GateIds /\ gate \in Gate /\ Current = gate
  BY <1>1, GateInUse
<1>3. gates \in [GateIds -> GateRecords] /\ req \in Statuses /\ rq \in Statuses
  BY <1>1 DEF Inv, TypeOK, Statuses
<1>4. RunningIn(rq) = RunningIn(req) \ {r} /\ r \in RunningIn(req)
  BY <1>1, <1>3 DEF RunningIn, Statuses
<1>5. Cardinality(RunningIn(rq)) = Cardinality(RunningIn(req)) - 1
  BY <1>4, RunningFinite, FS_RemoveElement
<1>6. gate.running = Cardinality(RunningIn(req)) /\ Queued(gate, req)
  BY <1>2 DEF Inv, Fits, Counted
<1>7. gate.running - 1 \in 0..Cardinality(Requests) /\ gate \in GateRecords
  BY <1>2, <1>3, <1>5, <1>6, RunningFinite
<1>8. /\ before \in [GateIds -> GateRecords]
      /\ before[registered].running = gate.running - 1
      /\ before[registered].queue = gate.queue
      /\ \A g \in GateIds : before[g].pause = gates[g].pause
  BY <1>2, <1>3, <1>7 DEF GateRecords
<1> HIDE DEF before, rq
<1>9. Counted(before[registered], rq)
  BY <1>5, <1>6, <1>8 DEF Counted
<1>10. Queued(before[registered], rq)
  <2>1. \A x \in Requests : rq[x] = "waiting" <=> req[x] = "waiting"
    BY <1>1, <1>3 DEF rq, Statuses
  <2> QED BY <1>6, <1>8, <2>1 DEF Queued
<1>11. Timed(before, timers')
  BY <1>1, <1>8 DEF Inv, Timed
<1>12. timers' \subseteq [gate : GateIds, left : Nat] /\ cooldown' \in Nat
  BY <1>1 DEF Inv, TypeOK
<1> QED BY <1>1, <1>2, <1>3, <1>8, <1>9, <1>10, <1>11, <1>12, DrainKeeps

LEMMA TimerDrainsKeeps ==
  ASSUME Inv, NEW t \in timers, TimerDrains(t)
  PROVE  Inv'
<1> DEFINE seen == [gates EXCEPT ![t.gate].pause = NoPause]
<1>1. /\ timers' = timers \ {t} /\ cooldown' = cooldown
      /\ gates[t.gate].pause = 0 /\ t.gate \in GateIds
      /\ gates \in [GateIds -> GateRecords] /\ req \in Statuses /\ Timed(gates, timers)
  BY DEF TimerDrains, Inv, TypeOK, Statuses
<1>2. /\ seen \in [GateIds -> GateRecords]
      /\ \A g \in GateIds :
           /\ seen[g].running = gates[g].running /\ seen[g].queue = gates[g].queue
           /\ g # t.gate => seen[g] = gates[g]
      /\ seen[t.gate].pause = NoPause
  BY <1>1 DEF GateRecords
<1> HIDE DEF seen
<1>3. Timed(seen, timers')
  BY <1>1, <1>2 DEF Timed
<1>4. timers' \subseteq [gate : GateIds, left : Nat] /\ cooldown' \in Nat
  BY <1>1 DEF Inv, TypeOK
<1>5. CASE registered = NoGate
  <2>1. gates' = seen /\ UNCHANGED <<registered, req>>
    BY <1>5 DEF TimerDrains, seen
  <2>2. TypeOK'
    BY <1>2, <1>4, <2>1 DEF Inv, TypeOK
  <2>3. Fits(Current, req)'
    BY <1>5, <2>1 DEF Inv, Fits, Counted, Queued, Covered, RunningIn, Current
  <2> QED BY <1>3, <2>1, <2>2, <2>3 DEF Inv
<1>6. CASE registered # NoGate
  <2>1. registered \in GateIds /\ Fits(gates[registered], req)
    BY <1>6 DEF Inv, TypeOK, Current
  <2>2. Counted(seen[registered], req) /\ Queued(seen[registered], req)
    BY <1>2, <2>1 DEF Fits, Counted, Queued
  <2>3. Drain(seen, req)
    BY <1>6 DEF TimerDrains, seen
  <2> QED BY <1>1, <1>2, <1>3, <1>4, <2>1, <2>2, <2>3, DrainKeeps
<1> QED BY <1>5, <1>6

LEMMA TimerExpiresKeeps ==
  ASSUME Inv, NEW t \in timers, TimerExpires(t)
  PROVE  Inv'
<1>1. /\ timers' = timers \ {t} /\ UNCHANGED <<gates, registered, req, cooldown>>
      /\ t.left = 0 /\ gates[t.gate].pause # 0
  BY DEF TimerExpires
<1>2. gates \in [GateIds -> GateRecords] /\ timers \subseteq [gate : GateIds, left : Nat]
  BY DEF Inv, TypeOK
<1>3. TypeOK'
  BY <1>1 DEF Inv, TypeOK
<1>4. Fits(Current, req)'
  BY <1>1 DEF Inv, Fits, Counted, Queued, Covered, RunningIn, Current
<1>5. ASSUME NEW g \in GateIds, gates'[g].pause # NoPause
      PROVE  \E u \in timers' : u.gate = g /\ u.left >= gates'[g].pause
  <2>1. gates[g].pause \in Nat
    BY <1>1, <1>2, <1>5 DEF GateRecords
  <2>2. PICK u \in timers : u.gate = g /\ u.left >= gates[g].pause
    BY <1>1, <1>5 DEF Inv, Timed
  <2>3. u # t
    BY <1>1, <1>2, <2>1, <2>2
  <2> QED BY <1>1, <2>2, <2>3
<1> QED BY <1>3, <1>4, <1>5 DEF Inv, Timed

LEMMA TickKeeps ==
  ASSUME Inv, Tick
  PROVE  Inv'
<1>1. /\ gates' = [g \in GateIds |-> [gates[g] EXCEPT !.pause = Decremented(@)]]
      /\ timers' = {[t EXCEPT !.left = Decremented(@)] : t \in timers}
      /\ cooldown' = Decremented(cooldown) /\ UNCHANGED <<registered, req>>
  BY DEF Tick
<1>2. gates \in [GateIds -> GateRecords] /\ timers \subseteq [gate : GateIds, left : Nat]
  BY DEF Inv, TypeOK
<1>3. \A n \in Nat : Decremented(n) \in Nat
  BY DEF Decremented
<1>4. Decremented(NoPause) = NoPause
  BY DEF Decremented, NoPause
<1>5. \A g \in GateIds :
        /\ gates'[g] \in GateRecords
        /\ gates'[g].running = gates[g].running /\ gates'[g].queue = gates[g].queue
        /\ gates'[g].pause = Decremented(gates[g].pause)
        /\ gates[g].pause \in Nat \union {NoPause}
  BY <1>1, <1>2, <1>3, <1>4 DEF GateRecords
<1>6. \A t \in timers : /\ t.left \in Nat
                        /\ [t EXCEPT !.left = Decremented(@)].gate = t.gate
                        /\ [t EXCEPT !.left = Decremented(@)].left = Decremented(t.left)
                        /\ [t EXCEPT !.left = Decremented(@)] \in [gate : GateIds, left : Nat]
  BY <1>2, <1>3
<1>7. TypeOK'
  <2>1. gates' \in [GateIds -> GateRecords]
    BY <1>1, <1>5
  <2>2. timers' \subseteq [gate : GateIds, left : Nat]
    BY <1>1, <1>6
  <2> QED BY <1>1, <1>3, <2>1, <2>2 DEF Inv, TypeOK
<1>8. Fits(Current, req)'
  <2>1. CASE registered = NoGate
    BY <1>1, <2>1 DEF Inv, Fits, Counted, Queued, Covered, RunningIn, Current
  <2>2. CASE registered # NoGate
    <3>1. registered \in GateIds /\ Fits(gates[registered], req)
      BY <2>2 DEF Inv, TypeOK, Current
    <3>2. Counted(gates'[registered], req') /\ Queued(gates'[registered], req')
      BY <1>1, <1>5, <3>1 DEF Fits, Counted, Queued, RunningIn
    <3>3. gates'[registered].pause = NoPause => gates[registered].pause = NoPause
      BY <1>3, <1>5, <3>1 DEF NoPause
    <3>4. Covered(gates'[registered])
      BY <1>5, <3>1, <3>3 DEF Fits, Covered
    <3> QED BY <1>1, <2>2, <3>2, <3>4 DEF Current, Fits
  <2> QED BY <2>1, <2>2
<1>9. ASSUME NEW g \in GateIds, gates'[g].pause # NoPause
      PROVE  \E u \in timers' : u.gate = g /\ u.left >= gates'[g].pause
  <2>1. gates[g].pause \in Nat
    BY <1>4, <1>5, <1>9
  <2>2. PICK t \in timers : t.gate = g /\ t.left >= gates[g].pause
    BY <2>1 DEF Inv, Timed, NoPause
  <2>3. \A m, n \in Nat : m >= n => Decremented(m) >= Decremented(n)
    BY DEF Decremented
  <2>4. Decremented(t.left) >= Decremented(gates[g].pause)
    BY <1>6, <2>1, <2>2, <2>3
  <2>5. [t EXCEPT !.left = Decremented(@)] \in timers'
    BY <1>1
  <2> QED BY <1>5, <1>6, <2>2, <2>4, <2>5
<1> QED BY <1>7, <1>8, <1>9 DEF Inv, Timed

-----------------------------------------------------------------------------
(* The theorems.                                                            *)

LEMMA InitInv == Init => Inv
<1> SUFFICES ASSUME Init PROVE Inv
  OBVIOUS
<1>1. 0 \in 0..Cardinality(Requests)
  BY FS_CardinalityType, SemaphoreAssumption
<1>2. TypeOK
  BY <1>1 DEF Init, TypeOK, NewGate, GateRecords
<1>3. RunningIn(req) = {}
  BY DEF Init, RunningIn
<1>4. Fits(Current, req)
  <2>1. Counted(NewGate, req)
    BY <1>3, FS_EmptySet DEF Counted, NewGate
  <2>2. Queued(NewGate, req) /\ Covered(NewGate)
    BY DEF Init, Queued, Covered, NewGate
  <2> QED BY <2>1, <2>2 DEF Init, Current, Fits
<1>5. Timed(gates, timers)
  BY DEF Init, Timed, NewGate
<1> QED BY <1>2, <1>4, <1>5 DEF Inv

LEMMA NextKeeps == Inv /\ [Next]_vars => Inv'
<1> SUFFICES ASSUME Inv, [Next]_vars PROVE Inv'
  OBVIOUS
<1>1. ASSUME NEW r \in Requests, Acquire(r) PROVE Inv'
  BY <1>1, AcquireFastKeeps, AcquireFullKeeps, AcquireQueuesKeeps DEF Acquire
<1>2. ASSUME NEW r \in Requests, Timeout(r) PROVE Inv'
  BY <1>2, TimeoutKeeps
<1>3. ASSUME NEW r \in Requests, Release(r) PROVE Inv'
  BY <1>3, ReleaseKeeps
<1>4. ASSUME NEW r \in Requests, NEW d \in Cooldowns, MarkRateLimited(r, d) PROVE Inv'
  BY <1>4, MarkKeeps
<1>5. ASSUME NEW t \in timers, TimerDrains(t) \/ TimerExpires(t) PROVE Inv'
  BY <1>5, TimerDrainsKeeps, TimerExpiresKeeps
<1>6. CASE Tick
  BY <1>6, TickKeeps
<1>7. CASE UNCHANGED vars
  BY <1>7
     DEF vars, Inv, TypeOK, Fits, Counted, Queued, Covered, Timed, RunningIn, Current
<1> QED BY <1>1, <1>2, <1>3, <1>4, <1>5, <1>6, <1>7 DEF Next

\* The inductive invariant holds in every state.
THEOREM Invariant == Spec => []Inv
<1>1. Init => Inv
  BY InitInv
<1>2. Inv /\ [Next]_vars => Inv'
  BY NextKeeps
<1> QED BY <1>1, <1>2, PTL DEF Spec

\* The variables keep their types: a running count never leaves 0..|Requests|, through
\* every release, timeout, deletion and drain.
THEOREM TypeCorrect == Spec => []TypeOK
<1>1. Inv => TypeOK
  BY DEF Inv
<1> QED BY <1>1, Invariant, PTL

\* The release functions handed out are exactly what the gate in the map counts,
\* whatever was deleted and recreated meanwhile.
THEOREM PermitsKept == Spec => []PermitsAccounted
<1>1. Inv => PermitsAccounted
  <2> SUFFICES ASSUME Inv PROVE PermitsAccounted
    OBVIOUS
  <2>1. Running = RunningIn(req) /\ Current.running = Cardinality(RunningIn(req))
    BY DEF Running, RunningIn, Inv, Fits, Counted
  <2>2. CASE registered = NoGate
    BY <2>1, <2>2, RunningFinite, FS_EmptySet DEF Current, NewGate, PermitsAccounted
  <2>3. CASE registered # NoGate
    BY <2>1, <2>3 DEF Current, PermitsAccounted
  <2> QED BY <2>2, <2>3
<1> QED BY <1>1, Invariant, PTL

\* Nobody waits in the queue of a gate that is no longer in the map, and nobody waits
\* in the registered one twice.
THEOREM WaitersReached == Spec => []WaitersReachable
<1>1. Inv => WaitersReachable
  <2> SUFFICES ASSUME Inv PROVE WaitersReachable
    OBVIOUS
  <2>1. Queued(Current, req)
    BY DEF Inv, Fits
  <2>2. CASE registered = NoGate
    BY <2>1, <2>2 DEF Current, NewGate, Queued, Waiting, WaitersReachable
  <2>3. CASE registered # NoGate
    <3> DEFINE q == gates[registered].queue
    <3>1. Current = gates[registered] /\ q \in Seq(Requests)
      BY <2>3 DEF Current, Inv, TypeOK, GateRecords
    <3>2. DOMAIN q = 1..Len(q) /\ Len(q) \in 0..Len(q)
      BY <3>1
    <3>3. Waiting = {q[i] : i \in 1..Len(q)}
      BY <2>1, <3>1 DEF Queued, Waiting
    <3>4. Cardinality({q[i] : i \in 1..Len(q)}) = Len(q)
      <4>1. \A i, j \in 1..Len(q) : q[i] = q[j] => i = j
        BY <2>1, <3>1 DEF Queued
      <4> HIDE DEF q
      <4> QED BY <3>1, <3>2, <4>1, FirstOfQueue
    <3> QED BY <2>3, <3>2, <3>3, <3>4 DEF WaitersReachable
  <2> QED BY <2>2, <2>3
<1> QED BY <1>1, Invariant, PTL

\* A queue with nobody running to drain it has a drain timer of its own gate that fires
\* no earlier than the end of the pause it waits for.
THEOREM WakeupKept == Spec => []WakeupPending
<1>1. Inv => WakeupPending
  BY DEF Inv, TypeOK, Fits, Covered, Timed, Current, WakeupPending
<1> QED BY <1>1, Invariant, PTL

=============================================================================
