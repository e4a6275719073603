----------------------- MODULE AccountSemaphoreProofs -----------------------
(***************************************************************************)
(* The account semaphore keeps its promises for every number of requests,   *)
(* keys and limits.                                                         *)
(*                                                                          *)
(* The invariant makes queuedRequests the one queue there is: the queue of  *)
(* a gate is what queuedRequests keeps of those that need its key, so the   *)
(* same waiter heads all its queues as soon as nobody before it shares a    *)
(* key.  A gate's count is the number of holders charged to it.  The core   *)
(* is drainQueues: each round keeps both (AdmitKeeps), passes nobody        *)
(* (HeadIsFirst) and shortens queuedRequests or finds nobody able to        *)
(* acquire (RoundKeeps), so after as many rounds as there are waiters       *)
(* nobody is able to (DrainedKeeps).  Every operation prepares consistent   *)
(* gates and drains, or gives no room to anybody.                           *)
(***************************************************************************)
EXTENDS AccountSemaphore, SubsequenceProofs, FiniteSetTheorems

-----------------------------------------------------------------------------
(* The invariant.                                                           *)

\* A gate, before its count is bounded by the number of requests.
Gate == [open : BOOLEAN, running : Nat, max : Nat, queue : Seq(Requests), blocked : 0..MaxBlock,
         cleanup : BOOLEAN]

\* The requests that wait for, or hold, key k.
Needing(nd, k) == {r \in Requests : k \in nd[r]}

\* The holders of H a gate of key k admitted.
Charged(H, nd, st, k) == {r \in H : k \in nd[r] \ st[r]}

\* Who waits, who holds, and what for.
PeopleOK(q, H, nd, st) ==
  /\ q \in Seq(Requests) /\ NoRepeat(q)
  /\ H \subseteq Requests /\ Range(q) \intersect H = {}
  /\ nd \in [Requests -> KeySets \union {{}}]
  /\ \A r \in Requests : nd[r] # {} <=> r \in H \union Range(q)
  /\ st \in [Requests -> SUBSET Keys]
  /\ \A r \in Requests \ H : st[r] = {}

\* One gate, for the queue q and the holders H.
GateOK(gate, k, q, H, nd, st, rb) ==
  /\ gate \in Gate
  /\ ~gate.open => gate.running = 0 /\ gate.queue = <<>>
  /\ gate.queue = Kept(q, Needing(nd, k))
  /\ IF k \in rb THEN gate.running <= Cardinality(Charged(H, nd, st, k))
     ELSE gate.running = Cardinality(Charged(H, nd, st, k))

\* People and gates agree.
Consistent(gs, q, H, nd, st, rb) ==
  /\ PeopleOK(q, H, nd, st)
  /\ gs \in [Keys -> Gate]
  /\ \A k \in Keys : GateOK(gs[k], k, q, H, nd, st, rb)

\* The inductive invariant.
IInv ==
  /\ Consistent(gates, waiting, held, needs, stale, robbed)
  /\ robbed \subseteq Keys /\ unnoticed \subseteq Keys
  /\ NoIdleCapacity

-----------------------------------------------------------------------------
(* Arithmetic of the constants.                                             *)

\* A finite, non-empty set of naturals has a greatest element.
LEMMA FiniteHasMax ==
  ASSUME NEW S \in SUBSET Nat, IsFiniteSet(S), S # {}
  PROVE  \E m \in S : \A n \in S : n <= m
<1> DEFINE HasMax(X) == \E m \in X : \A n \in X : n <= m
           T == {c \in Nat : \A X \in SUBSET Nat :
                   IsFiniteSet(X) /\ Cardinality(X) = c /\ X # {} => HasMax(X)}
<1>1. 0 \in T
  BY FS_EmptySet
<1>2. ASSUME NEW c \in Nat, c \in T PROVE c + 1 \in T
  <2> SUFFICES ASSUME NEW X \in SUBSET Nat, IsFiniteSet(X), Cardinality(X) = c + 1, X # {}
               PROVE  HasMax(X)
    OBVIOUS
  <2>1. PICK x \in X : TRUE
    OBVIOUS
  <2>2. IsFiniteSet(X \ {x}) /\ Cardinality(X \ {x}) = c
    <3>1. IsFiniteSet(X \ {x}) /\ Cardinality(X \ {x}) = Cardinality(X) - 1
      BY <2>1, FS_RemoveElement, Zenon
    <3> QED BY <3>1
  <2>3. CASE X \ {x} = {}
    BY <2>1, <2>3
  <2>4. CASE X \ {x} # {}
    <3>1. PICK m \in X \ {x} : \A n \in X \ {x} : n <= m
      BY <1>2, <2>2, <2>4
    <3>2. CASE x <= m
      BY <2>1, <3>1, <3>2
    <3>3. CASE m < x
      BY <2>1, <3>1, <3>3
    <3> QED BY <2>1, <3>1, <3>2, <3>3
  <2> QED BY <2>3, <2>4
<1>3. Nat \subseteq T
  <2> HIDE DEF T
  <2> QED BY <1>1, <1>2, NatSetInduction
<1>4. Cardinality(S) \in T
  BY <1>3, FS_CardinalityType
<1> QED BY <1>4

\* MaxBlock bounds the duration of every block.
LEMMA MaxBlockBounds == MaxBlock \in Nat /\ \A d \in Blocks : d \in 1..MaxBlock
<1> DEFINE B == Blocks \union {0}
<1>1. B \in SUBSET Nat /\ B # {} /\ IsFiniteSet(B)
  BY AccountAssumption, FS_AddElement
<1>2. PICK m \in B : \A n \in B : n <= m
  <2> HIDE DEF B
  <2> QED BY <1>1, FiniteHasMax
<1>3. MaxBlock = Max(B)
  BY DEF MaxBlock
<1>4. MaxBlock \in B /\ \A n \in B : MaxBlock >= n
  BY <1>1, <1>2, <1>3 DEF Max
<1> QED BY <1>1, <1>4, AccountAssumption

-----------------------------------------------------------------------------
(* drainQueues.                                                             *)

\* Two gates that differ in their limit, block or cleanup only.
SameUse(g, h) == g.open = h.open /\ g.running = h.running /\ g.queue = h.queue

\* Scheduling a cleanup changes nothing else of a gate.
LEMMA CleanedSoonShape ==
  ASSUME NEW g \in Gate
  PROVE  /\ CleanedSoon(g) \in Gate /\ SameUse(CleanedSoon(g), g)
         /\ CleanedSoon(g).max = g.max /\ CleanedSoon(g).blocked = g.blocked
BY DEF CleanedSoon, Idle, Gate, SameUse

\* Requests need keys.
LEMMA NeedingShape ==
  ASSUME NEW nd \in [Requests -> KeySets \union {{}}]
  PROVE  \A r \in Requests : nd[r] \subseteq Keys
BY AccountAssumption

\* Leaving the queues of r's keys takes r out of queue q, as far as they know it.
LEMMA RemovedQueue ==
  ASSUME NEW q \in Seq(Requests), NEW nd, NEW r \in Requests, NEW k
  PROVE  /\ Without(q, r) \in Seq(Requests)
         /\ Range(Without(q, r)) = Range(q) \ {r}
         /\ Without(Kept(q, Needing(nd, k)), r) = Kept(Without(q, r), Needing(nd, k))
         /\ k \notin nd[r] => Kept(Without(q, r), Needing(nd, k)) = Kept(q, Needing(nd, k))
<1>1. /\ Range(Without(q, r)) = Range(q) \intersect (Requests \ {r})
      /\ Range(q) \subseteq Requests
  BY KeptRange, RangeOfSeq DEF Without
<1>2. /\ Without(Kept(q, Needing(nd, k)), r) = Kept(q, Needing(nd, k) \intersect (Requests \ {r}))
      /\ Kept(Without(q, r), Needing(nd, k)) = Kept(q, (Requests \ {r}) \intersect Needing(nd, k))
  BY KeptTwice DEF Without
<1>3. Needing(nd, k) \intersect (Requests \ {r}) = (Requests \ {r}) \intersect Needing(nd, k)
  OBVIOUS
<1>4. k \notin nd[r] => (Requests \ {r}) \intersect Needing(nd, k) = Needing(nd, k)
  BY DEF Needing
<1>5. Without(q, r) \in Seq(Requests)
  BY KeptType DEF Without
<1> QED BY <1>1, <1>2, <1>3, <1>4, <1>5

\* A gate is charged at most one permit per request.
LEMMA ChargedFinite ==
  ASSUME NEW H \in SUBSET Requests, NEW nd, NEW st, NEW k
  PROVE  /\ IsFiniteSet(Charged(H, nd, st, k))
         /\ Cardinality(Charged(H, nd, st, k)) \in 0..Cardinality(Requests)
         /\ Cardinality(Requests) \in Nat
<1>1. Charged(H, nd, st, k) \subseteq Requests
  BY DEF Charged
<1> QED BY <1>1, AccountAssumption, FS_Subset, FS_CardinalityType

\* A queued request that can acquire is admitted: the gates stay consistent.
LEMMA AdmitKeeps ==
  ASSUME NEW gs, NEW q, NEW H, NEW nd, NEW st, NEW rb, Consistent(gs, q, H, nd, st, rb),
         NEW r \in Range(q), CanAcquire(gs, nd, r)
  PROVE  Consistent(Entered(Removed(gs, nd[r], r), nd[r]), Without(q, r), H \union {r}, nd, st, rb)
<1> DEFINE left == Without(q, r)
           G == H \union {r}
           after == Entered(Removed(gs, nd[r], r), nd[r])
<1>1. /\ q \in Seq(Requests) /\ r \in Requests /\ r \notin H /\ H \subseteq Requests
      /\ nd \in [Requests -> KeySets \union {{}}] /\ st[r] = {}
  BY RangeOfSeq DEF Consistent, PeopleOK
<1>2. /\ left \in Seq(Requests) /\ Range(left) = Range(q) \ {r}
      /\ \A k \in Keys :
            /\ Without(Kept(q, Needing(nd, k)), r) = Kept(left, Needing(nd, k))
            /\ k \notin nd[r] => Kept(left, Needing(nd, k)) = Kept(q, Needing(nd, k))
  BY <1>1, RemovedQueue
<1>3. PeopleOK(left, G, nd, st)
  <2>1. NoRepeat(left)
    BY <1>1, KeptNoRepeat DEF Without, Consistent, PeopleOK
  <2> QED BY <1>1, <1>2, <2>1 DEF Consistent, PeopleOK
<1>4. ASSUME NEW k \in Keys PROVE GateOK(after[k], k, left, G, nd, st, rb)
  <2>1. gs[k] \in Gate /\ GateOK(gs[k], k, q, H, nd, st, rb)
    BY DEF Consistent, GateOK
  <2>2. CASE k \in nd[r]
    <3> DEFINE cut == [gs[k] EXCEPT !.queue = Without(@, r)]
    <3>1. HasRoom(gs[k]) /\ gs[k].open
      BY <2>2 DEF CanAcquire, HasRoom
    <3>a. Without(gs[k].queue, r) = Kept(left, Needing(nd, k))
      BY <1>2, <2>1, Zenon DEF GateOK
    <3>b. Kept(left, Needing(nd, k)) \in Seq(Requests)
      BY <1>2, KeptType
    <3>2. cut \in Gate /\ cut.queue = Kept(left, Needing(nd, k))
          /\ cut.running = gs[k].running /\ cut.open
      <4> HIDE DEF left
      <4> QED BY <2>1, <3>1, <3>a, <3>b DEF Gate
    <3>3. /\ CleanedSoon(cut) \in Gate /\ CleanedSoon(cut).open
          /\ CleanedSoon(cut).running = gs[k].running
          /\ CleanedSoon(cut).queue = Kept(left, Needing(nd, k))
      <4> HIDE DEF cut
      <4> QED BY <3>2, CleanedSoonShape DEF SameUse
    <3>4. after[k] = [CleanedSoon(cut) EXCEPT !.running = @ + 1]
      BY <2>2 DEF Entered, Removed
    <3>5. /\ after[k] \in Gate /\ after[k].open /\ after[k].running = gs[k].running + 1
          /\ after[k].queue = Kept(left, Needing(nd, k))
      <4> HIDE DEF after, cut
      <4> QED BY <3>3, <3>4 DEF Gate
    <3>6. Charged(G, nd, st, k) = Charged(H, nd, st, k) \union {r}
          /\ r \notin Charged(H, nd, st, k)
      BY <1>1, <2>2 DEF Charged
    <3>7. Cardinality(Charged(G, nd, st, k)) = Cardinality(Charged(H, nd, st, k)) + 1
          /\ Cardinality(Charged(H, nd, st, k)) \in Nat
      <4>1. IsFiniteSet(Charged(H, nd, st, k)) /\ Cardinality(Charged(H, nd, st, k)) \in Nat
        BY <1>1, ChargedFinite
      <4> QED BY <3>6, <4>1, FS_AddElement, Zenon
    <3> HIDE DEF after, cut, left, G
    <3>8. gs[k].running \in Nat
      BY <2>1 DEF Gate
    <3> QED BY <2>1, <3>5, <3>7, <3>8 DEF GateOK
  <2>3. CASE k \notin nd[r]
    <3>1. after[k] = gs[k]
      BY <2>3 DEF Entered, Removed
    <3>2. Charged(G, nd, st, k) = Charged(H, nd, st, k)
      BY <2>3 DEF Charged
    <3> HIDE DEF after, left, G
    <3>3. Kept(left, Needing(nd, k)) = Kept(q, Needing(nd, k))
      BY <1>2, <2>3, Zenon
    <3> QED BY <2>1, <3>1, <3>2, <3>3 DEF GateOK
  <2> QED BY <2>2, <2>3
<1>5. after \in [Keys -> Gate]
  <2>1. \A k \in Keys : after[k] \in Gate
    BY <1>4 DEF GateOK
  <2>2. after = [k \in Keys |-> after[k]]
    BY DEF Entered
  <2> HIDE DEF after
  <2> QED BY <2>1, <2>2
<1> QED BY <1>3, <1>4, <1>5 DEF Consistent

\* What round i of drainQueues leaves, f being the rounds before it.
Round(f, gs, q, nd, i) ==
  IF i = 0 THEN [gates |-> gs, queued |-> q, admitted |-> {}] ELSE AdmitFirst(f[i - 1], nd)

\* f is the recursion of drainQueues up to round n.
Rounds(f, gs, q, nd, n) == f = [i \in 0..n |-> Round(f, gs, q, nd, i)]

\* The recursion of drainQueues has a solution up to every round.
LEMMA RoundsExist ==
  ASSUME NEW gs, NEW q, NEW nd, NEW m \in Nat
  PROVE  \E f : Rounds(f, gs, q, nd, m)
<1> DEFINE T == {n \in Nat : \E f : Rounds(f, gs, q, nd, n)}
<1>1. 0 \in T
  <2> DEFINE f == [i \in 0..0 |-> [gates |-> gs, queued |-> q, admitted |-> {}]]
  <2>1. Rounds(f, gs, q, nd, 0)
    BY DEF Rounds, Round
  <2> QED BY <2>1
<1>2. ASSUME NEW n \in Nat, n \in T PROVE n + 1 \in T
  <2>1. PICK f : Rounds(f, gs, q, nd, n)
    BY <1>2
  <2> DEFINE g == [i \in 0..n + 1 |-> IF i = n + 1 THEN Round(f, gs, q, nd, i) ELSE f[i]]
  <2>2. ASSUME NEW i \in 0..n + 1 PROVE g[i] = Round(g, gs, q, nd, i)
    <3>1. CASE i = n + 1
      BY <3>1 DEF Round
    <3>2. CASE i \in 0..n
      <4>1. f[i] = Round(f, gs, q, nd, i)
        BY <2>1, <3>2 DEF Rounds
      <4>2. g[i] = f[i] /\ (i # 0 => g[i - 1] = f[i - 1])
        BY <3>2
      <4> QED BY <4>1, <4>2 DEF Round
    <3> QED BY <3>1, <3>2
  <2>3. g = [i \in 0..n + 1 |-> g[i]]
    OBVIOUS
  <2>4. Rounds(g, gs, q, nd, n + 1)
    <3> HIDE DEF g
    <3> QED BY <2>2, <2>3 DEF Rounds
  <2> QED BY <2>4
<1>3. Nat \subseteq T
  <2> HIDE DEF T
  <2> QED BY <1>1, <1>2, NatSetInduction
<1> QED BY <1>3

\* drainQueues returns what its last round leaves.
LEMMA DrainedUnfolds ==
  ASSUME NEW gs, NEW q, NEW nd, Len(q) \in Nat
  PROVE  \E f : Rounds(f, gs, q, nd, Len(q)) /\ Drained(gs, q, nd) = f[Len(q)]
<1> DEFINE g == CHOOSE f : Rounds(f, gs, q, nd, Len(q))
<1>1. Rounds(g, gs, q, nd, Len(q))
  BY RoundsExist
<1>2. Drained(gs, q, nd) = g[Len(q)]
  BY DEF Drained, Rounds, Round
<1> QED BY <1>1, <1>2

\* Nobody queued can acquire.
Stuck(s, nd) == \A r \in Range(s.queued) : ~CanAcquire(s.gates, nd, r)

\* What drainQueues has done to q and the gates after some rounds, H holding before.
Draining(s, q, H, nd, st, rb) ==
  /\ Consistent(s.gates, s.queued, H \union s.admitted, nd, st, rb)
  /\ s.admitted \subseteq Range(q) /\ s.queued = Kept(q, Requests \ s.admitted)
  /\ \A a \in s.admitted : \A k \in nd[a] : s.gates[k].running > 0
  /\ \A a \in s.admitted, w \in Range(s.queued) : Before(q, w, a) => nd[a] \intersect nd[w] = {}

\* The head of a queue is before the others that need its key.
LEMMA HeadIsFirst ==
  ASSUME NEW q \in Seq(Requests), NoRepeat(q), NEW S, NEW r, NEW w \in S,
         Kept(q, S) # <<>>, Head(Kept(q, S)) = r
  PROVE  ~Before(q, w, r)
<1>1. PICK i \in 1..Len(q) : q[i] = r /\ \A j \in 1..i - 1 : q[j] \notin S
  BY KeptHead
<1> SUFFICES ASSUME Before(q, w, r) PROVE FALSE
  OBVIOUS
<1>2. PICK a, b \in 1..Len(q) : a < b /\ q[a] = w /\ q[b] = r
  BY LenProperties DEF Before
<1>3. b = i
  BY <1>1, <1>2, LenProperties DEF NoRepeat
<1>4. a \in 1..i - 1
  BY <1>2, <1>3
<1> QED BY <1>1, <1>2, <1>4

\* A round of drainQueues keeps what the rounds before it achieved; it shortens
\* queuedRequests if somebody could acquire, and changes nothing otherwise.
LEMMA RoundKeeps ==
  ASSUME NEW s, NEW q \in Seq(Requests), NEW H, NEW nd, NEW st, NEW rb,
         NoRepeat(q), Draining(s, q, H, nd, st, rb)
  PROVE  /\ Draining(AdmitFirst(s, nd), q, H, nd, st, rb)
         /\ Stuck(s, nd) => AdmitFirst(s, nd) = s
         /\ ~Stuck(s, nd) => Len(AdmitFirst(s, nd).queued) < Len(s.queued)
<1> DEFINE able == {i \in DOMAIN s.queued : CanAcquire(s.gates, nd, s.queued[i])}
<1>1. /\ s.queued \in Seq(Requests) /\ DOMAIN s.queued = 1..Len(s.queued)
      /\ Len(s.queued) \in Nat /\ NoRepeat(s.queued)
  BY LenProperties DEF Draining, Consistent, PeopleOK
<1>2. Stuck(s, nd) <=> able = {}
  BY DEF Stuck, Range
<1>3. CASE able = {}
  BY <1>2, <1>3 DEF AdmitFirst
<1>4. CASE able # {}
  <2> DEFINE r == s.queued[Min(able)]
             t == AdmitFirst(s, nd)
  <2>1. able \in SUBSET Nat
    BY <1>1
  <2>2. Min(able) \in able
    <3>1. PICK m \in able : \A n \in able : m <= n
      <4> HIDE DEF able
      <4> QED BY <1>4, <2>1, LeastNat
    <3> HIDE DEF able
    <3> QED BY <3>1 DEF Min
  <2>3. r \in Range(s.queued) /\ r \in Requests /\ CanAcquire(s.gates, nd, r)
    <3>1. PICK m \in able : m = Min(able)
      BY <2>2
    <3>2. r = s.queued[m] /\ m \in 1..Len(s.queued) /\ CanAcquire(s.gates, nd, s.queued[m])
      BY <1>1, <3>1
    <3> QED BY <1>1, <3>2, ElementOfSeq DEF Range
  <2>4. /\ t.gates = Entered(Removed(s.gates, nd[r], r), nd[r])
        /\ t.queued = Without(s.queued, r)
        /\ t.admitted = s.admitted \union {r}
    BY <1>4 DEF AdmitFirst
  <2> HIDE DEF r, t
  <2>5. Consistent(t.gates, t.queued, H \union t.admitted, nd, st, rb)
    <3>1. Consistent(Entered(Removed(s.gates, nd[r], r), nd[r]), Without(s.queued, r),
                     (H \union s.admitted) \union {r}, nd, st, rb)
      BY <2>3, AdmitKeeps DEF Draining
    <3>2. H \union t.admitted = (H \union s.admitted) \union {r}
      BY <2>4
    <3> QED BY <2>4, <3>1, <3>2
  <2>6. t.queued = Kept(q, Requests \ t.admitted)
    <3>1. t.queued = Kept(Kept(q, Requests \ s.admitted), Requests \ {r})
      BY <2>4 DEF Draining, Without
    <3>2. (Requests \ s.admitted) \intersect (Requests \ {r}) = Requests \ t.admitted
      BY <2>4
    <3> QED BY <3>1, <3>2, KeptTwice
  <2>7. r \in Range(q) /\ t.admitted \subseteq Range(q)
    <3>1. Range(s.queued) \subseteq Range(q)
      BY KeptRange DEF Draining
    <3> QED BY <2>3, <2>4, <3>1 DEF Draining
  <2>8. Range(t.queued) = Range(s.queued) \ {r}
    BY <1>1, <2>3, <2>4, RemovedQueue
  <2>9. ASSUME NEW k \in Keys PROVE t.gates[k].running
          = IF k \in nd[r] THEN s.gates[k].running + 1 ELSE s.gates[k].running
    <3>1. s.gates[k] \in Gate
      BY DEF Draining, Consistent
    <3> DEFINE cut == [s.gates[k] EXCEPT !.queue = Without(@, r)]
    <3>2. CleanedSoon(cut).running = s.gates[k].running /\ CleanedSoon(cut) = [cut EXCEPT !.cleanup = @ \/ Idle(cut)]
      BY <3>1 DEF CleanedSoon, Gate
    <3>3. t.gates[k] = IF k \in nd[r] THEN [CleanedSoon(cut) EXCEPT !.running = @ + 1] ELSE s.gates[k]
      BY <2>4 DEF Entered, Removed
    <3>4. [CleanedSoon(cut) EXCEPT !.running = @ + 1].running = CleanedSoon(cut).running + 1
      BY <3>1 DEF CleanedSoon, Gate
    <3> QED BY <3>2, <3>3, <3>4
  <2>10. ASSUME NEW a \in t.admitted, NEW k \in nd[a] PROVE t.gates[k].running > 0
    <3>1. a \in Requests /\ k \in Keys
      BY <2>3, <2>4, <2>7, RangeOfSeq, NeedingShape DEF Draining, Consistent, PeopleOK
    <3>2. s.gates[k].running \in Nat
      BY <3>1 DEF Draining, Consistent, Gate
    <3>3. CASE a = r
      BY <2>9, <3>1, <3>2, <3>3
    <3>4. CASE a \in s.admitted
      <4>1. s.gates[k].running > 0
        BY <3>4 DEF Draining
      <4> QED BY <2>9, <3>1, <3>2, <4>1
    <3> QED BY <2>4, <3>3, <3>4
  <2>11. ASSUME NEW a \in t.admitted, NEW w \in Range(t.queued), Before(q, w, a)
         PROVE  nd[a] \intersect nd[w] = {}
    <3>1. w \in Range(s.queued) /\ w # r
      BY <2>8
    <3>2. CASE a \in s.admitted
      BY <2>11, <3>1, <3>2 DEF Draining
    <3>3. CASE a = r
      <4> SUFFICES ASSUME NEW k \in nd[r], k \in nd[w] PROVE FALSE
        BY <3>3
      <4>1. w \in Requests /\ k \in Keys
        BY <1>1, <2>3, <3>1, RangeOfSeq, NeedingShape DEF Draining, Consistent, PeopleOK
      <4>2. s.gates[k].queue = Kept(s.queued, Needing(nd, k))
        BY <4>1 DEF Draining, Consistent, GateOK
      <4>3. s.gates[k].queue # <<>> /\ Head(s.gates[k].queue) = r
        BY <2>3 DEF CanAcquire
      <4>4. w \in Needing(nd, k)
        BY <4>1 DEF Needing
      <4>5. ~Before(s.queued, w, r)
        BY <1>1, <4>2, <4>3, <4>4, HeadIsFirst
      <4>6. w \in Requests \ s.admitted /\ r \in Requests \ s.admitted
        BY <2>3, <3>1, KeptRange DEF Draining
      <4>7. Before(Kept(q, Requests \ s.admitted), w, r)
        BY <2>11, <3>3, <4>6, KeptOrder
      <4> QED BY <4>5, <4>7 DEF Draining
    <3> QED BY <2>4, <3>2, <3>3
  <2>12. Len(t.queued) < Len(s.queued)
    BY <1>1, <2>3, <2>4, KeptShorter DEF Without
  <2> QED BY <1>2, <1>4, <2>5, <2>6, <2>7, <2>10, <2>11, <2>12 DEF Draining, t
<1> QED BY <1>3, <1>4

\* drainQueues keeps the gates consistent, leaves nobody who could acquire, and admits
\* nobody past a waiter of one of its gates.
LEMMA DrainedKeeps ==
  ASSUME NEW gs, NEW q, NEW H, NEW nd, NEW st, NEW rb, Consistent(gs, q, H, nd, st, rb)
  PROVE  /\ Draining(Drained(gs, q, nd), q, H, nd, st, rb)
         /\ Stuck(Drained(gs, q, nd), nd)
<1>1. q \in Seq(Requests) /\ NoRepeat(q) /\ Len(q) \in Nat
  BY LenProperties DEF Consistent, PeopleOK
<1>2. PICK f : Rounds(f, gs, q, nd, Len(q)) /\ Drained(gs, q, nd) = f[Len(q)]
  BY <1>1, DrainedUnfolds
<1> DEFINE Good(n) == /\ Draining(f[n], q, H, nd, st, rb)
                      /\ Stuck(f[n], nd) \/ Len(f[n].queued) + n <= Len(q)
           T == {n \in Nat : n <= Len(q) => Good(n)}
<1>3. 0 \in T
  <2>1. f[0] = [gates |-> gs, queued |-> q, admitted |-> {}]
    BY <1>1, <1>2 DEF Rounds, Round
  <2>2. Kept(q, Requests \ {}) = q
    BY <1>1, KeptAll, RangeOfSeq
  <2>3. f[0].gates = gs /\ f[0].queued = q /\ f[0].admitted = {} /\ H \union f[0].admitted = H
    BY <2>1
  <2>4. Draining(f[0], q, H, nd, st, rb)
    BY <2>2, <2>3 DEF Draining
  <2>5. Good(0)
    BY <1>1, <2>3, <2>4
  <2> QED BY <2>5
<1> HIDE DEF Good
<1>4. ASSUME NEW n \in Nat, n \in T PROVE n + 1 \in T
  <2> SUFFICES ASSUME n + 1 <= Len(q) PROVE Good(n + 1)
    OBVIOUS
  <2>1. /\ Draining(f[n], q, H, nd, st, rb)
        /\ Stuck(f[n], nd) \/ Len(f[n].queued) + n <= Len(q)
        /\ n + 1 \in 0..Len(q) /\ (n + 1) - 1 = n /\ n + 1 # 0
    BY <1>1, <1>4 DEF Good
  <2>2. f[n + 1] = AdmitFirst(f[n], nd)
    BY <1>2, <2>1 DEF Rounds, Round
  <2>3. /\ Draining(f[n + 1], q, H, nd, st, rb)
        /\ Stuck(f[n], nd) => f[n + 1] = f[n]
        /\ ~Stuck(f[n], nd) => Len(f[n + 1].queued) < Len(f[n].queued)
    BY <1>1, <2>1, <2>2, RoundKeeps
  <2>4. Len(f[n].queued) \in Nat /\ Len(f[n + 1].queued) \in Nat
    BY <2>1, <2>3, LenProperties DEF Draining, Consistent, PeopleOK
  <2>5. Stuck(f[n + 1], nd) \/ Len(f[n + 1].queued) + (n + 1) <= Len(q)
    <3>1. CASE Stuck(f[n], nd)
      <4>1. f[n + 1] = f[n]
        BY <2>3, <3>1
      <4> QED BY <3>1, <4>1
    <3>2. CASE ~Stuck(f[n], nd)
      <4>1. Len(f[n + 1].queued) < Len(f[n].queued)
        BY <2>3, <3>2
      <4>2. Len(f[n].queued) + n <= Len(q)
        BY <2>1, <3>2
      <4>3. \A a, b, c \in Nat : b < a /\ a + n <= c => b + (n + 1) <= c
        OBVIOUS
      <4> QED BY <1>1, <2>4, <4>1, <4>2, <4>3
    <3> QED BY <3>1, <3>2
  <2> QED BY <2>3, <2>5 DEF Good
<1>5. Nat \subseteq T
  <2> HIDE DEF T
  <2> QED BY <1>3, <1>4, NatSetInduction
<1>6. Good(Len(q))
  BY <1>1, <1>5
<1>7. Len(f[Len(q)].queued) + Len(q) <= Len(q) => Stuck(f[Len(q)], nd)
  <2>1. f[Len(q)].queued \in Seq(Requests)
    BY <1>6 DEF Good, Draining, Consistent, PeopleOK
  <2>2. DOMAIN f[Len(q)].queued = 1..Len(f[Len(q)].queued) /\ Len(f[Len(q)].queued) \in Nat
    BY <2>1, LenProperties
  <2> QED BY <1>1, <2>2 DEF Stuck, Range
<1> QED BY <1>2, <1>6, <1>7 DEF Good

-----------------------------------------------------------------------------
(* Steps that change no queue, or drain.                                    *)

\* Limits, blocks and cleanups do not enter into the consistency of the gates.
LEMMA SameUseKeeps ==
  ASSUME NEW gs, NEW hs \in [Keys -> Gate], NEW q, NEW H, NEW nd, NEW st, NEW rb,
         Consistent(gs, q, H, nd, st, rb), \A k \in Keys : SameUse(hs[k], gs[k])
  PROVE  Consistent(hs, q, H, nd, st, rb)
<1>1. ASSUME NEW k \in Keys PROVE GateOK(hs[k], k, q, H, nd, st, rb)
  BY DEF Consistent, GateOK, SameUse
<1> QED BY <1>1 DEF Consistent

\* After a drain nobody is left who could acquire, and nobody was passed.
LEMMA DrainKeeps ==
  ASSUME NEW gs, NEW q, NEW nd, NEW H, NEW K,
         Consistent(gs, q, H, nd, stale', robbed'), robbed' \subseteq Keys,
         Drain(gs, q, nd, H, K)
  PROVE  /\ IInv'
         /\ Range(waiting') \subseteq Range(q) /\ needs' = nd
         /\ \A a \in held' \ H : a \in Range(q)
         /\ \A a \in held' \ H, w \in Range(waiting') :
               Before(q, w, a) => nd[a] \intersect nd[w] = {}
<1> DEFINE s == Drained(gs, q, nd)
<1>1. Draining(s, q, H, nd, stale', robbed') /\ Stuck(s, nd)
  BY DrainedKeeps
<1>2. /\ gates' = [k \in Keys |-> IF k \in K THEN CleanedSoon(s.gates[k]) ELSE s.gates[k]]
      /\ waiting' = s.queued /\ held' = H \union s.admitted /\ needs' = nd /\ unnoticed' = {}
  BY DEF Drain
<1> HIDE DEF s
<1>3. Consistent(s.gates, waiting', held', needs', stale', robbed')
  BY <1>1, <1>2 DEF Draining
<1>4. s.gates \in [Keys -> Gate] /\ waiting' \in Seq(Requests)
      /\ needs' \in [Requests -> KeySets \union {{}}]
  BY <1>3 DEF Consistent, PeopleOK
<1>5. ASSUME NEW k \in Keys
      PROVE  /\ gates'[k] \in Gate /\ SameUse(gates'[k], s.gates[k])
             /\ gates'[k].max = s.gates[k].max /\ gates'[k].blocked = s.gates[k].blocked
  <2>1. s.gates[k] \in Gate
    BY <1>4
  <2>2. gates'[k] = IF k \in K THEN CleanedSoon(s.gates[k]) ELSE s.gates[k]
    BY <1>2
  <2> QED BY <2>1, <2>2, CleanedSoonShape DEF SameUse
<1>6. gates' \in [Keys -> Gate]
  BY <1>2, <1>5
<1>7. Consistent(gates', waiting', held', needs', stale', robbed')
  BY <1>3, <1>5, <1>6, SameUseKeeps
<1>8. NoIdleCapacity'
  <2> SUFFICES ASSUME NEW r \in Range(waiting'), CanAcquire(gates', needs', r) PROVE FALSE
    BY DEF NoIdleCapacity
  <2>1. needs'[r] \subseteq Keys
    BY <1>4, RangeOfSeq, NeedingShape
  <2>2. CanAcquire(s.gates, needs', r)
    BY <1>5, <2>1 DEF CanAcquire, HasRoom, SameUse
  <2> QED BY <1>1, <1>2, <2>2 DEF Stuck
<1>9. IInv'
  BY <1>2, <1>7, <1>8 DEF IInv
<1>10. Range(waiting') \subseteq Range(q)
  <2>1. q \in Seq(Requests)
    BY DEF Consistent, PeopleOK
  <2> QED BY <1>1, <1>2, <2>1, KeptRange DEF Draining
<1> QED BY <1>1, <1>2, <1>9, <1>10 DEF Draining

\* Where x stands in queuedRequests.
Place(x) == CHOOSE i \in DOMAIN waiting : waiting[i] = x

\* A step that admits nobody past a waiter with a key in common.
FairStep ==
  \A a \in held' \ held, w \in Range(waiting) \intersect Range(waiting') :
    (a \in Range(waiting) => Place(w) < Place(a)) => needs'[a] \intersect needs[w] = {}

\* A smaller place is an earlier place.
LEMMA PlaceBefore ==
  ASSUME waiting \in Seq(Requests), NEW w \in Range(waiting), NEW a \in Range(waiting),
         Place(w) < Place(a)
  PROVE  Before(waiting, w, a)
<1>1. (\E i \in DOMAIN waiting : waiting[i] = w) /\ (\E i \in DOMAIN waiting : waiting[i] = a)
  BY DEF Range
<1>2. /\ Place(w) \in DOMAIN waiting /\ waiting[Place(w)] = w
      /\ Place(a) \in DOMAIN waiting /\ waiting[Place(a)] = a
  BY <1>1 DEF Place
<1> QED BY <1>2 DEF Before

\* Draining a subsequence of the waiters is fair to those that stay.
LEMMA DrainIsFair ==
  ASSUME waiting \in Seq(Requests), NEW S,
         Range(waiting') \subseteq Range(Kept(waiting, S)),
         \A a \in held' \ held : a \in Range(Kept(waiting, S)),
         \A a \in held' \ held, w \in Range(waiting') :
            Before(Kept(waiting, S), w, a) => needs'[a] \intersect needs'[w] = {},
         \A w \in Range(waiting') : needs'[w] = needs[w]
  PROVE  FairStep
<1> SUFFICES ASSUME NEW a \in held' \ held, NEW w \in Range(waiting) \intersect Range(waiting'),
                    a \in Range(waiting) => Place(w) < Place(a)
             PROVE  needs'[a] \intersect needs[w] = {}
  BY DEF FairStep
<1>1. a \in Range(waiting) /\ a \in S /\ w \in S
  BY KeptRange
<1>2. Before(waiting, w, a)
  BY <1>1, PlaceBefore
<1>3. Before(Kept(waiting, S), w, a)
  BY <1>1, <1>2, KeptOrder
<1> QED BY <1>3

\* ensureGate sets the limit and keeps the permits, the queue and the block.
LEMMA TouchedShape ==
  ASSUME IInv, NEW T, NEW lim \in Configured, NEW k \in Keys
  PROVE  /\ Touched(T, lim)[k] \in Gate
         /\ Touched(T, lim)[k].running = gates[k].running
         /\ Touched(T, lim)[k].queue = gates[k].queue
         /\ gates[k].open => Touched(T, lim)[k].open /\ Touched(T, lim)[k].blocked = gates[k].blocked
         /\ k \in T => Touched(T, lim)[k].open /\ Touched(T, lim)[k].max = lim[k]
         /\ k \notin T => Touched(T, lim)[k] = gates[k]
<1>1. gates[k] \in Gate /\ (~gates[k].open => gates[k].running = 0 /\ gates[k].queue = <<>>)
  BY DEF IInv, Consistent, GateOK
<1>2. lim[k] \in Nat
  BY AccountAssumption DEF Configured
<1>3. Touched(T, lim)[k]
        = IF k \in T THEN [Ensured(gates[k], lim[k]) EXCEPT !.cleanup = FALSE] ELSE gates[k]
  BY DEF Touched
<1>4. CASE k \notin T
  BY <1>1, <1>3, <1>4
<1>5. CASE k \in T /\ gates[k].open
  <2>1. Touched(T, lim)[k] = [[gates[k] EXCEPT !.max = lim[k]] EXCEPT !.cleanup = FALSE]
    BY <1>3, <1>5 DEF Ensured
  <2> QED BY <1>1, <1>2, <1>5, <2>1 DEF Gate
<1>6. CASE k \in T /\ ~gates[k].open
  <2>1. Touched(T, lim)[k] = [open |-> TRUE, running |-> 0, max |-> lim[k], queue |-> <<>>,
                              blocked |-> 0, cleanup |-> FALSE]
    BY <1>3, <1>6 DEF Ensured, NoGate
  <2>2. <<>> \in Seq(Requests) /\ 0 \in 0..MaxBlock
    BY EmptySeq, MaxBlockBounds
  <2> QED BY <1>1, <1>2, <1>6, <2>1, <2>2 DEF Gate
<1> QED BY <1>4, <1>5, <1>6

\* Creating gates, and new limits, keep the gates consistent.
LEMMA TouchedKeeps ==
  ASSUME IInv, NEW T, NEW lim \in Configured
  PROVE  Consistent(Touched(T, lim), waiting, held, needs, stale, robbed)
<1>1. ASSUME NEW k \in Keys
      PROVE  GateOK(Touched(T, lim)[k], k, waiting, held, needs, stale, robbed)
  <2>1. GateOK(gates[k], k, waiting, held, needs, stale, robbed)
    BY DEF IInv, Consistent
  <2> QED BY <2>1, TouchedShape DEF GateOK
<1>2. Touched(T, lim) \in [Keys -> Gate]
  <2>1. Touched(T, lim) = [k \in Keys |-> Touched(T, lim)[k]]
    BY DEF Touched
  <2>2. \A k \in Keys : Touched(T, lim)[k] \in Gate
    BY TouchedShape
  <2> QED BY <2>1, <2>2
<1> QED BY <1>1, <1>2 DEF Consistent, IInv

\* A rejected acquireMany may raise limits: the room it makes is unnoticed.
LEMMA AcquireFullKeeps ==
  ASSUME IInv, NEW r \in Requests, NEW K \in KeySets, NEW lim \in Configured,
         AcquireFull(r, K, lim)
  PROVE  IInv' /\ FairStep
<1>1. PICK f \in K :
        /\ gates' = Touched(UpTo(K, f), lim)
        /\ unnoticed' = unnoticed \union {k \in UpTo(K, f) : gates[k].open /\ lim[k] > gates[k].max}
  BY DEF AcquireFull
<1>2. UNCHANGED <<waiting, needs, held, stale, robbed>>
  BY DEF AcquireFull
<1>3. UpTo(K, f) \subseteq K /\ K \subseteq Keys
  BY AccountAssumption DEF UpTo
<1> DEFINE T == UpTo(K, f)
<1> HIDE DEF T
<1>4. Consistent(gates', waiting', held', needs', stale', robbed')
  BY <1>1, <1>2, TouchedKeeps DEF T
<1>5. NoIdleCapacity'
  <2> SUFFICES ASSUME NEW w \in Range(waiting), CanAcquire(gates', needs, w)
               PROVE  needs[w] \intersect unnoticed' # {}
    BY <1>2 DEF NoIdleCapacity
  <2>1. CASE CanAcquire(gates, needs, w)
    BY <1>1, <2>1 DEF IInv, NoIdleCapacity
  <2>2. CASE ~CanAcquire(gates, needs, w)
    <3>1. PICK k \in needs[w] :
            ~(HasRoom(gates[k]) /\ gates[k].queue # <<>> /\ Head(gates[k].queue) = w)
      BY <2>2 DEF CanAcquire
    <3>2. k \in Keys
      BY <3>1, RangeOfSeq, NeedingShape DEF IInv, Consistent, PeopleOK
    <3>3. HasRoom(gates'[k]) /\ gates'[k].queue # <<>> /\ Head(gates'[k].queue) = w
      BY <3>1 DEF CanAcquire
    <3>4. gates'[k].queue = gates[k].queue /\ gates[k].queue # <<>> /\ gates[k].open
      BY <1>1, <3>2, <3>3, TouchedShape DEF IInv, Consistent, GateOK
    <3>5. k \in T /\ lim[k] > gates[k].max
      <4>1. gates'[k].blocked = gates[k].blocked /\ gates'[k].running = gates[k].running
            /\ (k \in T => gates'[k].max = lim[k]) /\ (k \notin T => gates'[k] = gates[k])
        BY <1>1, <3>2, <3>4, TouchedShape DEF T
      <4>2. ~HasRoom(gates[k])
        BY <3>1, <3>3, <3>4
      <4>3. gates[k].running \in Nat /\ gates[k].max \in Nat
        BY <3>2 DEF IInv, Consistent, Gate
      <4>4. lim[k] \in Nat
        BY <3>2, AccountAssumption DEF Configured
      <4> QED BY <3>3, <3>4, <4>1, <4>2, <4>3, <4>4 DEF HasRoom
    <3> QED BY <1>1, <3>1, <3>4, <3>5 DEF T
  <2> QED BY <2>1, <2>2
<1>6. unnoticed' \subseteq Keys /\ robbed' \subseteq Keys
  BY <1>1, <1>2, <1>3 DEF IInv
<1>7. FairStep
  BY <1>2 DEF FairStep
<1> QED BY <1>4, <1>5, <1>6, <1>7 DEF IInv

\* The queues do not depend on what requests outside them need.
LEMMA SameNeeds ==
  ASSUME NEW q \in Seq(Requests), NEW nd, NEW md, \A e \in Range(q) : nd[e] = md[e], NEW k
  PROVE  Kept(q, Needing(nd, k)) = Kept(q, Needing(md, k))
<1>1. \A e \in Range(q) : e \in Needing(nd, k) <=> e \in Needing(md, k)
  BY RangeOfSeq DEF Needing
<1> QED BY <1>1, KeptSame

\* An immediate admission: none of the gates has a waiter to be passed.
LEMMA AcquireNowKeeps ==
  ASSUME IInv, NEW r \in Requests, NEW K \in KeySets, NEW lim \in Configured,
         AcquireNow(r, K, lim)
  PROVE  IInv' /\ FairStep
<1> DEFINE gs == Touched(K, lim)
<1>1. /\ needs[r] = {} /\ \A k \in K : gs[k].queue = <<>> /\ HasRoom(gs[k])
      /\ gates' = Entered(gs, K)
      /\ needs' = [needs EXCEPT ![r] = K] /\ held' = held \union {r}
      /\ UNCHANGED <<waiting, stale, robbed, unnoticed>>
  BY DEF AcquireNow
<1>2. Consistent(gs, waiting, held, needs, stale, robbed)
  BY TouchedKeeps
<1>3. \A k \in Keys : k \notin K => gs[k] = gates[k]
  BY TouchedShape
<1> HIDE DEF gs
<1>4. K \subseteq Keys /\ K # {} /\ K \in KeySets \union {{}}
  BY AccountAssumption
<1>5. /\ r \notin held /\ r \notin Range(waiting) /\ stale[r] = {}
      /\ waiting \in Seq(Requests) /\ held \subseteq Requests
      /\ needs \in [Requests -> KeySets \union {{}}] /\ Range(waiting) \subseteq Requests
  BY <1>1, RangeOfSeq DEF IInv, Consistent, PeopleOK
<1>6. PeopleOK(waiting, held', needs', stale)
  BY <1>1, <1>4, <1>5 DEF IInv, Consistent, PeopleOK
<1>7. ASSUME NEW k \in Keys PROVE GateOK(gates'[k], k, waiting, held', needs', stale, robbed)
  <2>1. gs[k] \in Gate /\ GateOK(gs[k], k, waiting, held, needs, stale, robbed)
    BY <1>2 DEF Consistent, GateOK
  <2>2. Kept(waiting, Needing(needs', k)) = Kept(waiting, Needing(needs, k))
    <3>1. \A e \in Range(waiting) : needs'[e] = needs[e]
      BY <1>1, <1>5
    <3>2. waiting \in Seq(Requests)
      BY <1>5
    <3> QED BY <3>1, <3>2, SameNeeds
  <2>3. CASE k \in K
    <3>1. gates'[k] = [gs[k] EXCEPT !.running = @ + 1]
      BY <1>1, <2>3 DEF Entered
    <3>2. Charged(held', needs', stale, k) = Charged(held, needs, stale, k) \union {r}
          /\ r \notin Charged(held, needs, stale, k)
      BY <1>1, <1>5, <2>3 DEF Charged
    <3>3. IsFiniteSet(Charged(held, needs, stale, k)) /\ Cardinality(Charged(held, needs, stale, k)) \in Nat
      BY <1>5, ChargedFinite
    <3>4. Cardinality(Charged(held', needs', stale, k)) = Cardinality(Charged(held, needs, stale, k)) + 1
      BY <3>2, <3>3, FS_AddElement, Zenon
    <3>5. gs[k].open
      BY <1>1, <2>3 DEF HasRoom
    <3>6. /\ gates'[k] \in Gate /\ gates'[k].open /\ gates'[k].running = gs[k].running + 1
          /\ gates'[k].queue = gs[k].queue /\ gs[k].running \in Nat
      BY <2>1, <3>1, <3>5 DEF Gate
    <3> QED BY <2>1, <2>2, <3>3, <3>4, <3>6 DEF GateOK
  <2>4. CASE k \notin K
    <3>1. gates'[k] = gs[k]
      BY <1>1, <2>4 DEF Entered
    <3>2. Charged(held', needs', stale, k) = Charged(held, needs, stale, k)
      BY <1>1, <1>5, <2>4 DEF Charged
    <3> QED BY <2>1, <2>2, <3>1, <3>2 DEF GateOK
  <2> QED BY <2>3, <2>4
<1>8. gates' \in [Keys -> Gate]
  <2>1. gates' = [k \in Keys |-> gates'[k]]
    BY <1>1 DEF Entered
  <2>2. \A k \in Keys : gates'[k] \in Gate
    BY <1>7 DEF GateOK
  <2> QED BY <2>1, <2>2
<1>9. ASSUME NEW w \in Range(waiting), NEW k \in needs[w] PROVE k \notin K
  <2>1. w \in Requests /\ k \in Keys
    BY <1>5, NeedingShape
  <2>2. w \in Range(Kept(waiting, Needing(needs, k)))
    BY <1>5, <2>1, KeptRange DEF Needing
  <2>3. gs[k].queue = Kept(waiting, Needing(needs, k))
    BY <1>2, <2>1 DEF Consistent, GateOK
  <2>4. Range(<<>>) = {}
    BY DEF Range
  <2> QED BY <1>1, <2>2, <2>3, <2>4
<1>10. NoIdleCapacity'
  <2> SUFFICES ASSUME NEW w \in Range(waiting), CanAcquire(gates', needs', w)
               PROVE  needs'[w] \intersect unnoticed # {}
    BY <1>1 DEF NoIdleCapacity
  <2>1. w \in Requests /\ w # r /\ needs'[w] = needs[w]
    BY <1>1, <1>5
  <2>2. \A k \in needs[w] : gates'[k] = gates[k]
    BY <1>1, <1>3, <1>5, <1>9, <2>1, NeedingShape DEF Entered
  <2>3. CanAcquire(gates, needs, w)
    BY <2>1, <2>2 DEF CanAcquire
  <2> QED BY <2>1, <2>3 DEF IInv, NoIdleCapacity
<1>11. FairStep
  <2> SUFFICES ASSUME NEW w \in Range(waiting) PROVE needs'[r] \intersect needs[w] = {}
    BY <1>1 DEF FairStep
  <2> QED BY <1>1, <1>5, <1>9
<1> QED BY <1>1, <1>6, <1>7, <1>8, <1>10, <1>11 DEF IInv, Consistent

\* A request joins the end of queuedRequests and of its gates' queues.
LEMMA AcquireWaitsKeeps ==
  ASSUME IInv, NEW r \in Requests, NEW K \in KeySets, NEW lim \in Configured,
         AcquireWaits(r, K, lim)
  PROVE  IInv' /\ FairStep
<1> DEFINE gs == Touched(K, lim)
           queued == [k \in Keys |-> IF k \in K THEN [gs[k] EXCEPT !.queue = Append(@, r)] ELSE gs[k]]
           q == Append(waiting, r)
           nd == [needs EXCEPT ![r] = K]
<1>1. /\ needs[r] = {} /\ stale' = stale /\ robbed' = robbed /\ robbed \subseteq Keys
      /\ Drain(queued, q, nd, held, {})
  BY DEF AcquireWaits, IInv
<1>2. Consistent(gs, waiting, held, needs, stale, robbed)
  BY TouchedKeeps
<1>3. \A k \in K : gs[k].open
  BY TouchedShape, AccountAssumption
<1> HIDE DEF gs
<1>4. K \subseteq Keys /\ K # {} /\ K \in KeySets \union {{}}
  BY AccountAssumption
<1>5. /\ r \notin held /\ r \notin Range(waiting)
      /\ waiting \in Seq(Requests) /\ held \subseteq Requests
      /\ needs \in [Requests -> KeySets \union {{}}] /\ Range(waiting) \subseteq Requests
  BY <1>1, RangeOfSeq DEF IInv, Consistent, PeopleOK
<1>6. /\ q \in Seq(Requests) /\ NoRepeat(q) /\ Range(q) = Range(waiting) \union {r}
      /\ nd \in [Requests -> KeySets \union {{}}] /\ nd[r] = K
      /\ \A w \in Requests : w # r => nd[w] = needs[w]
  BY <1>4, <1>5, AppendProperties, NoRepeatOfAppend, RangeOfAppend DEF IInv, Consistent, PeopleOK
<1> HIDE DEF nd
<1>7. PeopleOK(q, held, nd, stale)
  <2> HIDE DEF q
  <2> QED BY <1>4, <1>5, <1>6 DEF IInv, Consistent, PeopleOK
<1>8. ASSUME NEW k \in Keys PROVE GateOK(queued[k], k, q, held, nd, stale, robbed)
  <2>1. gs[k] \in Gate /\ GateOK(gs[k], k, waiting, held, needs, stale, robbed)
    BY <1>2 DEF Consistent, GateOK
  <2>2. Kept(waiting, Needing(nd, k)) = Kept(waiting, Needing(needs, k))
    <3>1. \A e \in Range(waiting) : nd[e] = needs[e]
      BY <1>5, <1>6
    <3>2. waiting \in Seq(Requests)
      BY <1>5
    <3> QED BY <3>1, <3>2, SameNeeds
  <2>3. r \in Needing(nd, k) <=> k \in K
    BY <1>6 DEF Needing
  <2>4. Kept(q, Needing(nd, k)) = IF k \in K THEN Append(gs[k].queue, r) ELSE gs[k].queue
    BY <1>5, <2>1, <2>2, <2>3, KeptOfAppend DEF GateOK
  <2>5. Charged(held, nd, stale, k) = Charged(held, needs, stale, k)
    BY <1>5, <1>6 DEF Charged
  <2> HIDE DEF q
  <2>6. CASE k \in K
    <3>1. queued[k] = [gs[k] EXCEPT !.queue = Append(@, r)]
      BY <2>6
    <3>2. gs[k].queue \in Seq(Requests)
      BY <2>1 DEF Gate
    <3>3. Append(gs[k].queue, r) \in Seq(Requests)
      BY <3>2, AppendProperties
    <3>4. /\ queued[k] \in Gate /\ queued[k].open /\ queued[k].running = gs[k].running
          /\ queued[k].queue = Append(gs[k].queue, r)
      <4> HIDE DEF queued
      <4> QED BY <1>3, <2>1, <2>6, <3>1, <3>3 DEF Gate
    <3> HIDE DEF queued
    <3> QED BY <2>1, <2>4, <2>5, <2>6, <3>4 DEF GateOK
  <2>7. CASE k \notin K
    <3>1. queued[k] = gs[k]
      BY <2>7
    <3> HIDE DEF queued
    <3> QED BY <2>1, <2>4, <2>5, <2>7, <3>1 DEF GateOK
  <2> QED BY <2>6, <2>7
<1>9. queued \in [Keys -> Gate]
  <2>1. queued = [k \in Keys |-> queued[k]]
    OBVIOUS
  <2> HIDE DEF queued
  <2> QED BY <1>8, <2>1 DEF GateOK
<1> HIDE DEF queued, q
<1>10. Consistent(queued, q, held, nd, stale', robbed')
  BY <1>1, <1>7, <1>8, <1>9 DEF Consistent
<1>11. /\ IInv' /\ Range(waiting') \subseteq Range(q) /\ needs' = nd
       /\ \A a \in held' \ held : a \in Range(q)
       /\ \A a \in held' \ held, w \in Range(waiting') :
             Before(q, w, a) => nd[a] \intersect nd[w] = {}
  BY <1>1, <1>10, DrainKeeps
<1>12. FairStep
  <2> SUFFICES ASSUME NEW a \in held' \ held, NEW w \in Range(waiting) \intersect Range(waiting'),
                      a \in Range(waiting) => Place(w) < Place(a)
               PROVE  needs'[a] \intersect needs[w] = {}
    BY DEF FairStep
  <2>1. a \in Range(waiting) \/ a = r
    BY <1>6, <1>11
  <2>2. a \in Range(waiting) => Before(waiting, w, a)
    BY <1>5, PlaceBefore
  <2>3. Before(q, w, a)
    BY <1>5, <2>1, <2>2, BeforeInAppend DEF q
  <2>4. w \in Requests /\ w # r
    BY <1>5
  <2> QED BY <1>6, <1>11, <2>3, <2>4
<1> QED BY <1>11, <1>12

\* A timeout or an abort takes a waiter out of every queue it was in, and drains.
LEMMA GivesUpKeeps ==
  ASSUME IInv, NEW r \in Requests, GivesUp(r)
  PROVE  IInv' /\ FairStep
<1> DEFINE left == Removed(gates, needs[r], r)
           q == Without(waiting, r)
           nd == [needs EXCEPT ![r] = {}]
<1>1. /\ r \in Range(waiting) /\ stale' = stale /\ robbed' = robbed /\ robbed \subseteq Keys
      /\ Drain(left, q, nd, held, {})
  BY DEF GivesUp, IInv
<1>2. /\ r \notin held /\ waiting \in Seq(Requests) /\ NoRepeat(waiting)
      /\ needs \in [Requests -> KeySets \union {{}}]
  BY <1>1 DEF IInv, Consistent, PeopleOK
<1>3. /\ q \in Seq(Requests) /\ NoRepeat(q) /\ Range(q) = Range(waiting) \ {r}
      /\ nd \in [Requests -> KeySets \union {{}}] /\ nd[r] = {}
      /\ \A w \in Requests : w # r => nd[w] = needs[w]
  BY <1>2, RemovedQueue, KeptNoRepeat DEF Without
<1> HIDE DEF nd
<1>4. PeopleOK(q, held, nd, stale)
  <2> HIDE DEF q
  <2> QED BY <1>2, <1>3 DEF IInv, Consistent, PeopleOK
<1>5. ASSUME NEW k \in Keys PROVE GateOK(left[k], k, q, held, nd, stale, robbed)
  <2>1. gates[k] \in Gate /\ GateOK(gates[k], k, waiting, held, needs, stale, robbed)
    BY DEF IInv, Consistent, GateOK
  <2>2. Kept(q, Needing(nd, k)) = Kept(q, Needing(needs, k))
    <3> HIDE DEF q
    <3>1. Range(q) \subseteq Requests
      BY <1>3, RangeOfSeq
    <3>2. \A e \in Range(q) : nd[e] = needs[e]
      BY <1>3, <3>1
    <3> QED BY <1>3, <3>2, SameNeeds
  <2>3. Charged(held, nd, stale, k) = Charged(held, needs, stale, k)
    BY <1>2, <1>3 DEF Charged, IInv, Consistent, PeopleOK
  <2>4. CASE k \in needs[r]
    <3> DEFINE cut == [gates[k] EXCEPT !.queue = Without(@, r)]
    <3>1. left[k] = CleanedSoon(cut)
      BY <2>4 DEF Removed
    <3>2. Without(gates[k].queue, r) = Kept(q, Needing(needs, k))
      BY <1>2, <2>1, RemovedQueue DEF GateOK
    <3>3. Kept(q, Needing(needs, k)) \in Seq(Requests)
      BY <1>3, KeptType
    <3>4. /\ cut \in Gate /\ cut.open = gates[k].open /\ cut.running = gates[k].running
          /\ cut.queue = Kept(q, Needing(needs, k))
      <4> HIDE DEF q
      <4> QED BY <2>1, <3>2, <3>3 DEF Gate
    <3>5. ~gates[k].open => Kept(q, Needing(needs, k)) = <<>>
      BY <2>1, <3>2, KeptOfEmpty DEF GateOK, Without
    <3> HIDE DEF cut, left, q
    <3>6. /\ left[k] \in Gate /\ left[k].open = gates[k].open /\ left[k].running = gates[k].running
          /\ left[k].queue = Kept(q, Needing(needs, k))
      BY <3>1, <3>4, CleanedSoonShape DEF SameUse
    <3> QED BY <2>1, <2>2, <2>3, <3>5, <3>6 DEF GateOK
  <2>5. CASE k \notin needs[r]
    <3>1. left[k] = gates[k]
      BY <2>5 DEF Removed
    <3>2. Kept(q, Needing(needs, k)) = Kept(waiting, Needing(needs, k))
      BY <1>2, <2>5, RemovedQueue
    <3> HIDE DEF left, q
    <3> QED BY <2>1, <2>2, <2>3, <3>1, <3>2 DEF GateOK
  <2> QED BY <2>4, <2>5
<1>6. left \in [Keys -> Gate]
  <2>1. left = [k \in Keys |-> left[k]]
    BY DEF Removed
  <2> HIDE DEF left
  <2> QED BY <1>5, <2>1 DEF GateOK
<1>7. Consistent(left, q, held, nd, stale', robbed')
  <2> HIDE DEF left, q
  <2> QED BY <1>1, <1>4, <1>5, <1>6 DEF Consistent
<1>8. /\ IInv' /\ Range(waiting') \subseteq Range(q) /\ needs' = nd
      /\ \A a \in held' \ held : a \in Range(q)
      /\ \A a \in held' \ held, w \in Range(waiting') :
            Before(q, w, a) => nd[a] \intersect nd[w] = {}
  <2> HIDE DEF left, q
  <2> QED BY <1>1, <1>7, DrainKeeps
<1>9. \A w \in Range(waiting') : needs'[w] = needs[w]
  <2> HIDE DEF q
  <2>1. Range(q) \subseteq Requests
    BY <1>3, RangeOfSeq
  <2> QED BY <1>3, <1>8, <2>1
<1>10. FairStep
  BY <1>2, <1>8, <1>9, DrainIsFair DEF Without
<1> QED BY <1>8, <1>10

\* The release function gives back one permit per key: one that this gate gave, or,
\* after a reset, one that it did not, and then the gate is robbed.
LEMMA ReleaseKeeps ==
  ASSUME IInv, NEW r \in Requests, Release(r)
  PROVE  IInv' /\ FairStep
<1> DEFINE back == GivenBack(r)
           nd == [needs EXCEPT ![r] = {}]
           H == held \ {r}
<1>1. /\ r \in held /\ Drain(back, waiting, nd, H, needs[r])
      /\ stale' = [stale EXCEPT ![r] = {}]
      /\ robbed' = robbed \union {k \in stale[r] : gates[k].running > 0}
  BY DEF Release
<1>2. /\ r \notin Range(waiting) /\ waiting \in Seq(Requests) /\ Range(waiting) \subseteq Requests
      /\ needs \in [Requests -> KeySets \union {{}}] /\ held \subseteq Requests
      /\ stale \in [Requests -> SUBSET Keys] /\ robbed \subseteq Keys
  BY <1>1, RangeOfSeq DEF IInv, Consistent, PeopleOK
<1>3. /\ nd \in [Requests -> KeySets \union {{}}] /\ nd[r] = {}
      /\ \A w \in Requests : w # r => nd[w] = needs[w]
      /\ stale' \in [Requests -> SUBSET Keys] /\ stale'[r] = {}
      /\ \A w \in Requests : w # r => stale'[w] = stale[w]
      /\ robbed' \subseteq Keys
  BY <1>1, <1>2
<1> HIDE DEF nd
<1>4. PeopleOK(waiting, H, nd, stale')
  BY <1>1, <1>2, <1>3 DEF IInv, Consistent, PeopleOK
<1>5. ASSUME NEW k \in Keys PROVE GateOK(back[k], k, waiting, H, nd, stale', robbed')
  <2>1. gates[k] \in Gate /\ GateOK(gates[k], k, waiting, held, needs, stale, robbed)
    BY DEF IInv, Consistent, GateOK
  <2>2. Kept(waiting, Needing(nd, k)) = Kept(waiting, Needing(needs, k))
    <3>1. \A e \in Range(waiting) : nd[e] = needs[e]
      BY <1>2, <1>3
    <3> QED BY <1>2, <3>1, SameNeeds
  <2> DEFINE before == Charged(held, needs, stale, k)
             after == Charged(H, nd, stale', k)
  <2>3. after = before \ {r}
    BY <1>1, <1>2, <1>3 DEF Charged
  <2>4. r \in before <=> k \in needs[r] /\ k \notin stale[r]
    BY <1>1 DEF Charged
  <2>5. IsFiniteSet(before) /\ Cardinality(before) \in Nat
    BY <1>2, ChargedFinite
  <2> HIDE DEF before, after
  <2>6. Cardinality(after) = IF r \in before THEN Cardinality(before) - 1 ELSE Cardinality(before)
    BY <2>3, <2>5, FS_RemoveElement, Zenon
  <2>7. r \in before => Cardinality(before) > 0
    BY <2>5, FS_EmptySet, FS_CardinalityType
  <2>8. /\ gates[k].running \in Nat
        /\ IF k \in robbed THEN gates[k].running <= Cardinality(before)
           ELSE gates[k].running = Cardinality(before)
    BY <2>1 DEF GateOK, Gate, before
  <2>9. k \in robbed' <=> k \in robbed \/ (k \in stale[r] /\ gates[k].running > 0)
    BY <1>1
  <2>10. back[k] = IF k \in needs[r] /\ gates[k].running > 0
                   THEN [gates[k] EXCEPT !.running = @ - 1] ELSE gates[k]
    BY DEF GivenBack
  <2> HIDE DEF back
  <2>11. /\ back[k] \in Gate /\ back[k].open = gates[k].open /\ back[k].queue = gates[k].queue
         /\ back[k].running = IF k \in needs[r] /\ gates[k].running > 0
                              THEN gates[k].running - 1 ELSE gates[k].running
    BY <2>1, <2>10 DEF Gate
  <2>12. IF k \in robbed' THEN back[k].running <= Cardinality(after)
         ELSE back[k].running = Cardinality(after)
    BY <2>4, <2>5, <2>6, <2>7, <2>8, <2>9, <2>11
  <2>13. ~back[k].open => back[k].running = 0 /\ back[k].queue = <<>>
    BY <2>1, <2>11 DEF GateOK
  <2> QED BY <2>1, <2>2, <2>11, <2>12, <2>13 DEF GateOK, after
<1>6. back \in [Keys -> Gate]
  <2>1. back = [k \in Keys |-> back[k]]
    BY DEF GivenBack
  <2> HIDE DEF back
  <2> QED BY <1>5, <2>1 DEF GateOK
<1> HIDE DEF back
<1>7. Consistent(back, waiting, H, nd, stale', robbed')
  BY <1>4, <1>5, <1>6 DEF Consistent
<1>8. /\ IInv' /\ Range(waiting') \subseteq Range(waiting) /\ needs' = nd
      /\ \A a \in held' \ H : a \in Range(waiting)
      /\ \A a \in held' \ H, w \in Range(waiting') :
            Before(waiting, w, a) => nd[a] \intersect nd[w] = {}
  BY <1>1, <1>3, <1>7, DrainKeeps
<1>9. waiting = Kept(waiting, Requests)
  BY <1>2, KeptAll
<1>10. \A w \in Range(waiting') : needs'[w] = needs[w]
  BY <1>2, <1>3, <1>8
<1>11. held' \ held \subseteq held' \ H
  OBVIOUS
<1>12. FairStep
  BY <1>2, <1>8, <1>9, <1>10, <1>11, DrainIsFair
<1> QED BY <1>8, <1>12

\* A block takes room from a gate and gives none.
LEMMA MarkBlockedKeeps ==
  ASSUME IInv, NEW k \in Accounts, NEW d \in Blocks, MarkBlocked(k, d)
  PROVE  IInv' /\ FairStep
<1>1. UNCHANGED <<waiting, needs, held, stale, robbed, unnoticed>>
  BY DEF MarkBlocked
<1>2. k \in Keys /\ d \in 1..MaxBlock /\ MaxBlock \in Nat
  BY AccountAssumption, MaxBlockBounds
<1>3. gates \in [Keys -> Gate]
  BY DEF IInv, Consistent
<1> DEFINE new == [Ensured(gates[k], IF gates[k].open THEN gates[k].max ELSE 1)
                     EXCEPT !.blocked = d, !.cleanup = FALSE]
<1>4. /\ new \in Gate /\ new.open /\ new.blocked = d
      /\ new.running = gates[k].running /\ new.queue = gates[k].queue
  <2>1. gates[k] \in Gate /\ (~gates[k].open => gates[k].running = 0 /\ gates[k].queue = <<>>)
    BY <1>2 DEF IInv, Consistent, GateOK
  <2>2. CASE gates[k].open
    <3>1. new = [[gates[k] EXCEPT !.max = gates[k].max] EXCEPT !.blocked = d, !.cleanup = FALSE]
      BY <2>2 DEF Ensured
    <3>2. [gates[k] EXCEPT !.max = gates[k].max] = gates[k]
      BY <2>1 DEF Gate
    <3>3. new = [gates[k] EXCEPT !.blocked = d, !.cleanup = FALSE]
      BY <3>1, <3>2
    <3>4. d \in 0..MaxBlock
      BY <1>2
    <3> HIDE DEF new
    <3> QED BY <2>1, <2>2, <3>3, <3>4 DEF Gate
  <2>3. CASE ~gates[k].open
    <3> DEFINE fresh == [open |-> TRUE, running |-> 0, max |-> 1, queue |-> <<>>, blocked |-> 0,
                         cleanup |-> FALSE]
    <3>1. new = [Ensured(gates[k], 1) EXCEPT !.blocked = d, !.cleanup = FALSE]
      BY <2>3
    <3>2. Ensured(gates[k], 1) = fresh
      BY <2>3 DEF Ensured, NoGate
    <3>3. new = [fresh EXCEPT !.blocked = d, !.cleanup = FALSE]
      BY <3>1, <3>2
    <3>4. d \in 0..MaxBlock /\ <<>> \in Seq(Requests)
      BY <1>2, EmptySeq
    <3> HIDE DEF new
    <3> QED BY <2>1, <2>3, <3>3, <3>4 DEF Gate
  <2> QED BY <2>2, <2>3
<1>5. gates' = [gates EXCEPT ![k] = new]
  BY DEF MarkBlocked
<1> HIDE DEF new
<1>6. gates' \in [Keys -> Gate] /\ gates'[k] = new /\ \A j \in Keys : j # k => gates'[j] = gates[j]
  BY <1>2, <1>3, <1>4, <1>5
<1>7. ASSUME NEW j \in Keys PROVE GateOK(gates'[j], j, waiting, held, needs, stale, robbed)
  <2>1. GateOK(gates[j], j, waiting, held, needs, stale, robbed)
    BY DEF IInv, Consistent
  <2>2. CASE j = k
    BY <1>4, <1>6, <2>1, <2>2 DEF GateOK
  <2>3. CASE j # k
    BY <1>6, <2>1, <2>3
  <2> QED BY <2>2, <2>3
<1>8. NoIdleCapacity'
  <2> SUFFICES ASSUME NEW w \in Range(waiting), CanAcquire(gates', needs, w)
               PROVE  needs[w] \intersect unnoticed # {}
    BY <1>1 DEF NoIdleCapacity
  <2>1. needs[w] \subseteq Keys
    BY RangeOfSeq, NeedingShape DEF IInv, Consistent, PeopleOK
  <2>2. k \notin needs[w]
    BY <1>2, <1>4, <1>6 DEF CanAcquire, HasRoom
  <2>3. CanAcquire(gates, needs, w)
    BY <1>6, <2>1, <2>2 DEF CanAcquire
  <2> QED BY <2>3 DEF IInv, NoIdleCapacity
<1>9. FairStep
  BY <1>1 DEF FairStep
<1> QED BY <1>1, <1>6, <1>7, <1>8, <1>9 DEF IInv, Consistent

\* A block that runs out gives room nobody notices.
LEMMA TickKeeps ==
  ASSUME IInv, Tick
  PROVE  IInv' /\ FairStep
<1>1. /\ gates' = [k \in Keys |-> [gates[k] EXCEPT !.blocked = IF @ = 0 THEN 0 ELSE @ - 1]]
      /\ unnoticed' = unnoticed \union {k \in Keys : gates[k].blocked = 1}
      /\ UNCHANGED <<waiting, needs, held, stale, robbed>>
  BY DEF Tick
<1>2. ASSUME NEW k \in Keys
      PROVE  /\ gates'[k] \in Gate /\ SameUse(gates'[k], gates[k]) /\ gates'[k].max = gates[k].max
             /\ gates[k].blocked \in Nat
             /\ gates'[k].blocked = IF gates[k].blocked = 0 THEN 0 ELSE gates[k].blocked - 1
  <2>1. gates[k] \in Gate /\ gates[k].blocked \in 0..MaxBlock
    BY DEF IInv, Consistent, Gate
  <2>2. gates'[k] = [gates[k] EXCEPT !.blocked = IF @ = 0 THEN 0 ELSE @ - 1]
    BY <1>1
  <2> QED BY <2>1, <2>2, MaxBlockBounds DEF Gate, SameUse
<1>3. gates' \in [Keys -> Gate]
  BY <1>1, <1>2
<1>4. Consistent(gates', waiting, held, needs, stale, robbed)
  BY <1>2, <1>3, SameUseKeeps DEF IInv
<1>5. NoIdleCapacity'
  <2> SUFFICES ASSUME NEW w \in Range(waiting), CanAcquire(gates', needs, w),
                      needs[w] \intersect unnoticed' = {}
               PROVE  FALSE
    BY <1>1 DEF NoIdleCapacity
  <2>1. needs[w] \subseteq Keys
    BY RangeOfSeq, NeedingShape DEF IInv, Consistent, PeopleOK
  <2>2. ASSUME NEW k \in needs[w]
        PROVE  HasRoom(gates[k]) /\ gates[k].queue # <<>> /\ Head(gates[k].queue) = w
    <3>1. HasRoom(gates'[k]) /\ gates'[k].queue # <<>> /\ Head(gates'[k].queue) = w
      BY DEF CanAcquire
    <3>2. gates[k].blocked # 1
      BY <1>1, <2>1
    <3> QED BY <1>2, <2>1, <3>1, <3>2 DEF HasRoom, SameUse
  <2>3. CanAcquire(gates, needs, w)
    BY <2>2 DEF CanAcquire
  <2> QED BY <1>1, <2>3 DEF IInv, NoIdleCapacity
<1>6. FairStep
  BY <1>1 DEF FairStep
<1> QED BY <1>1, <1>4, <1>5, <1>6 DEF IInv

\* The absent gate is a gate.
LEMMA NoGateType == NoGate \in Gate
BY EmptySeq, MaxBlockBounds DEF NoGate, Gate

\* A gate nobody uses may be deleted: nobody it admitted holds a permit of it.
LEMMA ForgetKeeps ==
  ASSUME NEW gs, NEW q, NEW H, NEW nd, NEW st, NEW rb, Consistent(gs, q, H, nd, st, rb),
         NEW k \in Keys, gs[k].queue = <<>>,
         NEW su \in [Requests -> SUBSET Keys], \A r \in Requests \ H : su[r] = {},
         \A r \in H : su[r] \subseteq st[r] \union {k} /\ st[r] \subseteq su[r],
         \A r \in H : k \in nd[r] => k \in su[r]
  PROVE  Consistent([gs EXCEPT ![k] = NoGate], q, H, nd, su, rb \ {k})
<1> DEFINE hs == [gs EXCEPT ![k] = NoGate]
<1>1. gs \in [Keys -> Gate] /\ hs \in [Keys -> Gate]
  BY NoGateType DEF Consistent
<1>2. PeopleOK(q, H, nd, su)
  BY DEF Consistent, PeopleOK
<1>3. ASSUME NEW j \in Keys PROVE GateOK(hs[j], j, q, H, nd, su, rb \ {k})
  <2>1. GateOK(gs[j], j, q, H, nd, st, rb)
    BY DEF Consistent
  <2>2. CASE j = k
    <3>1. hs[j] = NoGate
      BY <1>1, <2>2
    <3>2. Charged(H, nd, su, j) = {}
      BY <2>2 DEF Charged
    <3>3. Kept(q, Needing(nd, j)) = <<>>
      BY <2>1, <2>2 DEF GateOK
    <3> HIDE DEF hs
    <3>4. /\ hs[j] \in Gate /\ ~hs[j].open /\ hs[j].running = 0 /\ hs[j].queue = <<>>
      BY <3>1, NoGateType DEF NoGate
    <3> QED BY <2>2, <3>2, <3>3, <3>4, FS_EmptySet DEF GateOK
  <2>3. CASE j # k
    <3>1. hs[j] = gs[j]
      BY <1>1, <2>3
    <3>2. Charged(H, nd, su, j) = Charged(H, nd, st, j)
      BY <2>3 DEF Charged
    <3> HIDE DEF hs
    <3> QED BY <2>1, <2>3, <3>1, <3>2 DEF GateOK
  <2> QED BY <2>2, <2>3
<1> QED BY <1>1, <1>2, <1>3 DEF Consistent

\* The cleanup callback deletes a gate only when nobody uses it.
LEMMA CleanupKeeps ==
  ASSUME IInv, NEW k \in Keys, CleanupFires(k)
  PROVE  IInv' /\ FairStep
<1> DEFINE gone == Idle(gates[k]) /\ gates[k].blocked = 0
<1>1. /\ gates' = [gates EXCEPT ![k] = IF gone THEN NoGate ELSE [@ EXCEPT !.cleanup = FALSE]]
      /\ IF gone THEN Forgotten({k}) /\ robbed' = robbed \ {k} ELSE UNCHANGED <<stale, robbed>>
      /\ UNCHANGED <<waiting, needs, held, unnoticed>>
  BY DEF CleanupFires
<1>2. /\ gates \in [Keys -> Gate] /\ waiting \in Seq(Requests)
      /\ needs \in [Requests -> KeySets \union {{}}] /\ Range(waiting) \subseteq Requests
      /\ stale \in [Requests -> SUBSET Keys] /\ held \subseteq Requests
  BY RangeOfSeq DEF IInv, Consistent, PeopleOK
<1>3. ASSUME NEW j \in Keys
      PROVE  /\ j # k \/ ~gone => gates'[j].max = gates[j].max /\ SameUse(gates'[j], gates[j])
                                 /\ gates'[j].blocked = gates[j].blocked
             /\ gates'[j] \in Gate
             /\ j = k /\ gone => gates'[j] = NoGate
  <2>1. gates[j] \in Gate
    BY <1>2
  <2>2. gates'[j] = IF j # k THEN gates[j] ELSE IF gone THEN NoGate
                    ELSE [gates[j] EXCEPT !.cleanup = FALSE]
    BY <1>1, <1>2
  <2> HIDE DEF gone
  <2> QED BY <2>1, <2>2, NoGateType DEF Gate, SameUse
<1>4. gates' \in [Keys -> Gate]
  <2>1. gates' = [j \in Keys |-> gates'[j]]
    BY <1>1, <1>2
  <2> QED BY <1>3, <2>1
<1>5. Consistent(gates', waiting, held, needs, stale', robbed')
  <2>1. CASE ~gone
    <3>1. \A j \in Keys : SameUse(gates'[j], gates[j])
      BY <1>3, <2>1
    <3>2. stale' = stale /\ robbed' = robbed
      BY <1>1, <2>1
    <3> QED BY <1>4, <3>1, <3>2, SameUseKeeps DEF IInv
  <2>2. CASE gone
    <3>1. gates[k].queue = <<>>
      BY <2>2 DEF Idle
    <3>2. stale' = [r \in Requests |-> IF r \in held THEN stale[r] \union (needs[r] \intersect {k}) ELSE {}]
      BY <1>1, <2>2 DEF Forgotten
    <3>3. /\ stale' \in [Requests -> SUBSET Keys] /\ \A r \in Requests \ held : stale'[r] = {}
          /\ \A r \in held : stale'[r] \subseteq stale[r] \union {k} /\ stale[r] \subseteq stale'[r]
          /\ \A r \in held : k \in needs[r] => k \in stale'[r]
      BY <1>2, <3>2
    <3>4. Consistent([gates EXCEPT ![k] = NoGate], waiting, held, needs, stale', robbed \ {k})
      BY <3>1, <3>3, ForgetKeeps DEF IInv
    <3>5. gates' = [gates EXCEPT ![k] = NoGate] /\ robbed' = robbed \ {k}
      BY <1>1, <2>2
    <3> QED BY <3>4, <3>5
  <2> QED BY <2>1, <2>2
<1>6. NoIdleCapacity'
  <2> SUFFICES ASSUME NEW w \in Range(waiting), CanAcquire(gates', needs, w)
               PROVE  needs[w] \intersect unnoticed # {}
    BY <1>1 DEF NoIdleCapacity
  <2>1. needs[w] \subseteq Keys
    BY <1>2, NeedingShape
  <2>2. \A j \in needs[w] : j # k \/ ~gone
    BY <1>3, <2>1 DEF CanAcquire, HasRoom, NoGate
  <2>3. CanAcquire(gates, needs, w)
    <3> HIDE DEF gone
    <3> QED BY <1>3, <2>1, <2>2 DEF CanAcquire, HasRoom, SameUse
  <2> QED BY <2>3 DEF IInv, NoIdleCapacity
<1>7. robbed' \subseteq Keys
  BY <1>1 DEF IInv
<1>8. FairStep
  BY <1>1 DEF FairStep
<1> QED BY <1>1, <1>5, <1>6, <1>7, <1>8 DEF IInv

\* unblock(key) drains and deletes a gate left without a user.
LEMMA UnblockKeeps ==
  ASSUME IInv, NEW k \in Keys, Unblock(k)
  PROVE  IInv' /\ FairStep
<1> DEFINE gs == [gates EXCEPT ![k].blocked = 0]
           s == Drained(gs, waiting, needs)
<1>1. /\ gates' = IF Idle(s.gates[k]) THEN [s.gates EXCEPT ![k] = NoGate] ELSE s.gates
      /\ waiting' = s.queued /\ held' = held \union s.admitted
      /\ IF Idle(s.gates[k]) THEN Forgotten({k}) /\ robbed' = robbed \ {k}
         ELSE UNCHANGED <<stale, robbed>>
      /\ unnoticed' = {} /\ needs' = needs
  BY DEF Unblock
<1>2. /\ gates \in [Keys -> Gate] /\ waiting \in Seq(Requests) /\ Range(waiting) \subseteq Requests
      /\ needs \in [Requests -> KeySets \union {{}}] /\ Range(waiting) \intersect held = {}
      /\ stale \in [Requests -> SUBSET Keys] /\ \A r \in Requests \ held : stale[r] = {}
      /\ robbed \subseteq Keys /\ held \subseteq Requests
  BY RangeOfSeq DEF IInv, Consistent, PeopleOK
<1>3. Consistent(gs, waiting, held, needs, stale, robbed)
  <2>1. ASSUME NEW j \in Keys PROVE gs[j] \in Gate /\ SameUse(gs[j], gates[j])
    <3>1. gates[j] \in Gate /\ gs[j] = IF j = k THEN [gates[j] EXCEPT !.blocked = 0] ELSE gates[j]
      BY <1>2
    <3> HIDE DEF gs
    <3> QED BY <3>1, MaxBlockBounds DEF Gate, SameUse
  <2>2. gs \in [Keys -> Gate]
    <3>1. gs = [j \in Keys |-> gs[j]]
      BY <1>2
    <3> HIDE DEF gs
    <3> QED BY <2>1, <3>1
  <2> HIDE DEF gs
  <2> QED BY <2>1, <2>2, SameUseKeeps DEF IInv
<1> HIDE DEF gs
<1>4. Draining(s, waiting, held, needs, stale, robbed) /\ Stuck(s, needs)
  BY <1>3, DrainedKeeps
<1> HIDE DEF s
<1>5. /\ Consistent(s.gates, waiting', held', needs', stale, robbed)
      /\ s.gates \in [Keys -> Gate] /\ waiting' \in Seq(Requests) /\ held' \subseteq Requests
  BY <1>1, <1>4 DEF Draining, Consistent, PeopleOK
<1>6. Consistent(gates', waiting', held', needs', stale', robbed')
  <2>1. CASE ~Idle(s.gates[k])
    BY <1>1, <1>5, <2>1
  <2>2. CASE Idle(s.gates[k])
    <3>1. s.gates[k].queue = <<>> /\ s.gates[k].running = 0
      BY <2>2 DEF Idle
    <3>2. stale' = [r \in Requests |-> IF r \in held THEN stale[r] \union (needs[r] \intersect {k}) ELSE {}]
      BY <1>1, <2>2 DEF Forgotten
    <3>3. s.admitted \intersect held = {}
      BY <1>2, <1>4 DEF Draining
    <3>4. \A a \in s.admitted : k \notin needs[a]
      BY <1>4, <3>1 DEF Draining
    <3>5. \A r \in s.admitted : stale[r] = {}
      BY <1>1, <1>2, <1>5, <3>3
    <3>6. /\ stale' \in [Requests -> SUBSET Keys] /\ \A r \in Requests \ held' : stale'[r] = {}
          /\ \A r \in held' : stale'[r] \subseteq stale[r] \union {k} /\ stale[r] \subseteq stale'[r]
          /\ \A r \in held' : k \in needs'[r] => k \in stale'[r]
      BY <1>1, <1>2, <1>5, <3>2, <3>4, <3>5
    <3>7. Consistent([s.gates EXCEPT ![k] = NoGate], waiting', held', needs', stale', robbed \ {k})
      BY <1>5, <3>1, <3>6, ForgetKeeps
    <3> QED BY <1>1, <2>2, <3>7
  <2> QED BY <2>1, <2>2
<1>7. NoIdleCapacity'
  <2> SUFFICES ASSUME NEW w \in Range(waiting'), CanAcquire(gates', needs, w) PROVE FALSE
    BY <1>1 DEF NoIdleCapacity
  <2>1. needs[w] \subseteq Keys
    BY <1>2, <1>5, RangeOfSeq, NeedingShape
  <2>2. \A j \in needs[w] : gates'[j] = s.gates[j]
    <3>1. \A j \in Keys : gates'[j] = IF j = k /\ Idle(s.gates[k]) THEN NoGate ELSE s.gates[j]
      BY <1>1, <1>5
    <3> QED BY <2>1, <3>1 DEF CanAcquire, HasRoom, NoGate
  <2>3. CanAcquire(s.gates, needs, w)
    BY <2>2 DEF CanAcquire
  <2> QED BY <1>1, <1>4, <2>3 DEF Stuck
<1>8. IInv'
  BY <1>1, <1>2, <1>6, <1>7 DEF IInv
<1>9. waiting = Kept(waiting, Requests)
  BY <1>2, KeptAll
<1>10. FairStep
  <2>1. Range(waiting') \subseteq Range(waiting)
    BY <1>1, <1>2, <1>4, KeptRange DEF Draining
  <2>2. \A a \in held' \ held : a \in s.admitted
    BY <1>1
  <2>3. \A a \in held' \ held : a \in Range(waiting)
    BY <1>4, <2>2 DEF Draining
  <2>4. \A a \in held' \ held, w \in Range(waiting') :
          Before(waiting, w, a) => needs'[a] \intersect needs'[w] = {}
    BY <1>1, <1>4, <2>2 DEF Draining
  <2> QED BY <1>1, <1>2, <1>9, <2>1, <2>3, <2>4, DrainIsFair
<1> QED BY <1>8, <1>10

\* The only sequence without elements is the empty one.
LEMMA NoElements ==
  ASSUME NEW s \in Seq(Requests), Range(s) = {}
  PROVE  s = <<>>
<1>1. DOMAIN s = 1..Len(s) /\ Len(s) \in Nat
  BY LenProperties
<1>2. Len(s) = 0
  <2>1. CASE 1 \in DOMAIN s
    BY <2>1 DEF Range
  <2>2. CASE 1 \notin DOMAIN s
    BY <1>1, <2>2
  <2> QED BY <2>1, <2>2
<1> QED BY <1>2, EmptySeq

\* reset(key) rejects the waiters of the key and drains: the queues of their other keys
\* lose them too, in the same order, and the gate of the key is gone.
LEMMA ResetKeeps ==
  ASSUME IInv, NEW k \in Keys, Reset(k)
  PROVE  IInv' /\ FairStep
<1> DEFINE out == {r \in Range(waiting) : k \in needs[r]}
           S == Requests \ out
           q == Kept(waiting, S)
           nd == [r \in Requests |-> IF r \in out THEN {} ELSE needs[r]]
           left == [j \in Keys |->
                      IF j = k THEN NoGate
                      ELSE IF \E r \in out : j \in needs[r]
                      THEN CleanedSoon([gates[j] EXCEPT !.queue = Kept(@, S)])
                      ELSE gates[j]]
<1>1. /\ Drain(left, q, nd, held, {}) /\ robbed' = robbed \ {k}
      /\ stale' = [r \in Requests |-> IF r \in held THEN stale[r] \union (needs[r] \intersect {k})
                                      ELSE {}]
  BY DEF Reset, Forgotten
<1>2. /\ waiting \in Seq(Requests) /\ NoRepeat(waiting) /\ Range(waiting) \subseteq Requests
      /\ needs \in [Requests -> KeySets \union {{}}] /\ held \subseteq Requests
      /\ stale \in [Requests -> SUBSET Keys] /\ \A r \in Requests \ held : stale[r] = {}
      /\ robbed \subseteq Keys /\ Range(waiting) \intersect held = {}
      /\ \A r \in Requests : needs[r] # {} <=> r \in held \union Range(waiting)
  BY RangeOfSeq DEF IInv, Consistent, PeopleOK
<1>3. /\ q \in Seq(Requests) /\ NoRepeat(q) /\ Range(q) = Range(waiting) \intersect S
  BY <1>2, KeptType, KeptNoRepeat, KeptRange
<1>4. /\ nd \in [Requests -> KeySets \union {{}}] /\ \A r \in out : nd[r] = {}
      /\ \A r \in S : nd[r] = needs[r]
      /\ out \subseteq Requests /\ out \intersect held = {}
  BY <1>2
<1>5. /\ stale' \in [Requests -> SUBSET Keys] /\ \A r \in Requests \ held : stale'[r] = {}
      /\ \A r \in held : stale'[r] = stale[r] \union (needs[r] \intersect {k})
  BY <1>1, <1>2
<1>6. PeopleOK(q, held, nd, stale')
  <2>1. \A r \in Requests : nd[r] # {} <=> r \in held \union Range(q)
    <3> HIDE DEF nd, q
    <3> QED BY <1>2, <1>3, <1>4
  <2> HIDE DEF nd, q, S, out
  <2> QED BY <1>2, <1>3, <1>4, <1>5, <2>1 DEF PeopleOK
<1>7. ASSUME NEW j \in Keys PROVE GateOK(left[j], j, q, held, nd, stale', robbed')
  <2> DEFINE N == Needing(needs, j) \ out
  <2>1. gates[j] \in Gate /\ GateOK(gates[j], j, waiting, held, needs, stale, robbed)
    BY DEF IInv, Consistent, GateOK
  <2>2. Kept(q, Needing(nd, j)) = Kept(waiting, N)
    <3>1. Kept(q, Needing(nd, j)) = Kept(waiting, S \intersect Needing(nd, j))
      BY <1>2, KeptTwice
    <3>2. S \intersect Needing(nd, j) = N
      <4> HIDE DEF nd, out
      <4> QED BY <1>4 DEF Needing
    <3> QED BY <3>1, <3>2
  <2> HIDE DEF nd, q
  <2>3. CASE j = k
    <3>1. left[j] = NoGate
      BY <2>3
    <3>2. Charged(held, nd, stale', j) = {}
      <4>1. \A r \in held : nd[r] = needs[r] /\ stale'[r] = stale[r] \union (needs[r] \intersect {k})
        BY <1>2, <1>4, <1>5
      <4> HIDE DEF left
      <4> QED BY <2>3, <4>1 DEF Charged
    <3>3. Kept(waiting, N) = <<>>
      <4>1. Range(Kept(waiting, N)) = {} /\ Kept(waiting, N) \in Seq(Requests)
        BY <1>2, <2>3, KeptRange, KeptType DEF Needing
      <4> QED BY <4>1, NoElements
    <3> HIDE DEF left, N
    <3>4. /\ left[j] \in Gate /\ ~left[j].open /\ left[j].running = 0 /\ left[j].queue = <<>>
      BY <3>1, NoGateType DEF NoGate
    <3> QED BY <1>1, <2>2, <2>3, <3>2, <3>3, <3>4, FS_EmptySet DEF GateOK
  <2>4. ASSUME j # k PROVE Charged(held, nd, stale', j) = Charged(held, needs, stale, j)
    BY <1>2, <1>4, <1>5, <2>4 DEF Charged
  <2>5. CASE j # k /\ \E r \in out : j \in needs[r]
    <3> DEFINE cut == [gates[j] EXCEPT !.queue = Kept(@, S)]
    <3>1. left[j] = CleanedSoon(cut)
      BY <2>5
    <3>2. Kept(gates[j].queue, S) = Kept(waiting, N)
      <4>1. gates[j].queue = Kept(waiting, Needing(needs, j))
        BY <2>1 DEF GateOK
      <4>2. Kept(gates[j].queue, S) = Kept(waiting, Needing(needs, j) \intersect S)
        BY <1>2, <4>1, KeptTwice
      <4>3. Needing(needs, j) \intersect S = N
        BY DEF Needing
      <4> QED BY <4>2, <4>3
    <3>3. Kept(waiting, N) \in Seq(Requests)
      BY <1>2, KeptType
    <3>4. ~gates[j].open => Kept(waiting, N) = <<>>
      BY <2>1, <3>2, KeptOfEmpty DEF GateOK
    <3> HIDE DEF left, N, S
    <3>5. /\ cut \in Gate /\ cut.open = gates[j].open /\ cut.running = gates[j].running
          /\ cut.queue = Kept(waiting, N)
      BY <2>1, <3>2, <3>3 DEF Gate
    <3> HIDE DEF cut
    <3>6. /\ left[j] \in Gate /\ left[j].open = gates[j].open /\ left[j].running = gates[j].running
          /\ left[j].queue = Kept(waiting, N)
      BY <3>1, <3>5, CleanedSoonShape DEF SameUse
    <3>7. j \in robbed' <=> j \in robbed
      BY <1>1, <2>5
    <3>8. Charged(held, nd, stale', j) = Charged(held, needs, stale, j)
      BY <2>4, <2>5
    <3> QED BY <2>1, <2>2, <3>4, <3>6, <3>7, <3>8 DEF GateOK
  <2>6. CASE j # k /\ ~\E r \in out : j \in needs[r]
    <3>1. left[j] = gates[j]
      BY <2>6
    <3>2. N = Needing(needs, j)
      BY <2>6 DEF Needing
    <3>3. j \in robbed' <=> j \in robbed
      BY <1>1, <2>6
    <3>4. Charged(held, nd, stale', j) = Charged(held, needs, stale, j)
      BY <2>4, <2>6
    <3> HIDE DEF left, N
    <3> QED BY <2>1, <2>2, <3>1, <3>2, <3>3, <3>4 DEF GateOK
  <2> QED BY <2>3, <2>5, <2>6
<1>8. left \in [Keys -> Gate]
  <2>1. left = [j \in Keys |-> left[j]]
    OBVIOUS
  <2> HIDE DEF left
  <2> QED BY <1>7, <2>1 DEF GateOK
<1> HIDE DEF left, nd
<1>9. Consistent(left, q, held, nd, stale', robbed')
  BY <1>6, <1>7, <1>8 DEF Consistent
<1>10. /\ IInv' /\ Range(waiting') \subseteq Range(q) /\ needs' = nd
       /\ \A a \in held' \ held : a \in Range(q)
       /\ \A a \in held' \ held, w \in Range(waiting') :
             Before(q, w, a) => nd[a] \intersect nd[w] = {}
  <2> HIDE DEF q
  <2>1. robbed' \subseteq Keys
    BY <1>1, <1>2
  <2> QED BY <1>1, <1>9, <2>1, DrainKeeps
<1>11. \A w \in Range(waiting') : needs'[w] = needs[w]
  BY <1>3, <1>4, <1>10
<1>12. FairStep
  <2> HIDE DEF S
  <2> QED BY <1>2, <1>10, <1>11, DrainIsFair
<1> QED BY <1>10, <1>12

\* resetAll() forgets every gate and rejects every waiter.
LEMMA ResetAllKeeps ==
  ASSUME IInv, ResetAll
  PROVE  IInv' /\ FairStep
<1>1. /\ gates' = [k \in Keys |-> NoGate] /\ waiting' = <<>>
      /\ needs' = [r \in Requests |-> IF r \in held THEN needs[r] ELSE {}]
      /\ stale' = [r \in Requests |-> IF r \in held THEN stale[r] \union (needs[r] \intersect Keys)
                                      ELSE {}]
      /\ robbed' = {} /\ unnoticed' = {} /\ held' = held
  BY DEF ResetAll, Forgotten
<1>2. /\ needs \in [Requests -> KeySets \union {{}}] /\ held \subseteq Requests
      /\ stale \in [Requests -> SUBSET Keys]
      /\ \A r \in Requests : needs[r] # {} <=> r \in held \union Range(waiting)
  BY DEF IInv, Consistent, PeopleOK
<1>3. waiting' \in Seq(Requests) /\ NoRepeat(waiting') /\ Range(waiting') = {}
  BY <1>1, EmptySeq DEF NoRepeat, Range
<1>4. PeopleOK(waiting', held', needs', stale')
  BY <1>1, <1>2, <1>3 DEF PeopleOK
<1>5. ASSUME NEW k \in Keys
      PROVE  GateOK(gates'[k], k, waiting', held', needs', stale', robbed')
  <2>1. gates'[k] = NoGate
    BY <1>1
  <2>2. /\ gates'[k] \in Gate /\ ~gates'[k].open /\ gates'[k].running = 0
        /\ gates'[k].queue = <<>>
    BY <2>1, NoGateType DEF NoGate
  <2>3. Charged(held', needs', stale', k) = {}
    BY <1>1, <1>2 DEF Charged
  <2>4. Kept(waiting', Needing(needs', k)) = <<>>
    BY <1>1, KeptOfEmpty
  <2> QED BY <1>1, <2>2, <2>3, <2>4, FS_EmptySet DEF GateOK
<1>6. gates' \in [Keys -> Gate]
  BY <1>1, NoGateType
<1>7. NoIdleCapacity' /\ FairStep
  BY <1>1, <1>3 DEF NoIdleCapacity, FairStep
<1> QED BY <1>1, <1>4, <1>5, <1>6, <1>7 DEF IInv, Consistent

-----------------------------------------------------------------------------
(* The invariant of the specification.                                      *)

\* The invariant holds of the empty semaphore.
LEMMA InitKeeps == Init => IInv
<1> SUFFICES ASSUME Init PROVE IInv
  OBVIOUS
<1>1. /\ gates = [k \in Keys |-> NoGate] /\ waiting = <<>> /\ held = {}
      /\ needs = [r \in Requests |-> {}] /\ stale = [r \in Requests |-> {}]
      /\ robbed = {} /\ unnoticed = {}
  BY DEF Init
<1>2. waiting \in Seq(Requests) /\ NoRepeat(waiting) /\ Range(waiting) = {}
  BY <1>1, EmptySeq DEF NoRepeat, Range
<1>3. PeopleOK(waiting, held, needs, stale)
  BY <1>1, <1>2 DEF PeopleOK
<1>4. ASSUME NEW k \in Keys PROVE GateOK(gates[k], k, waiting, held, needs, stale, robbed)
  <2>1. gates[k] = NoGate
    BY <1>1
  <2>2. gates[k] \in Gate /\ ~gates[k].open /\ gates[k].running = 0 /\ gates[k].queue = <<>>
    BY <2>1, NoGateType DEF NoGate
  <2>3. Charged(held, needs, stale, k) = {} /\ Kept(waiting, Needing(needs, k)) = <<>>
    BY <1>1, KeptOfEmpty DEF Charged
  <2> QED BY <1>1, <2>2, <2>3, FS_EmptySet DEF GateOK
<1>5. gates \in [Keys -> Gate]
  BY <1>1, NoGateType
<1> QED BY <1>1, <1>2, <1>3, <1>4, <1>5 DEF IInv, Consistent, NoIdleCapacity

\* Every step keeps the invariant and overtakes nobody.
LEMMA NextKeeps == IInv /\ [Next]_vars => IInv' /\ FairStep
<1> SUFFICES ASSUME IInv, [Next]_vars PROVE IInv' /\ FairStep
  OBVIOUS
<1>1. ASSUME NEW r \in Requests, AcquireMany(r) PROVE IInv' /\ FairStep
  <2>1. PICK K \in KeySets, lim \in Configured :
          AcquireFull(r, K, lim) \/ AcquireNow(r, K, lim) \/ AcquireWaits(r, K, lim)
    BY <1>1 DEF AcquireMany
  <2> QED BY <2>1, AcquireFullKeeps, AcquireNowKeeps, AcquireWaitsKeeps
<1>2. ASSUME NEW r \in Requests, GivesUp(r) PROVE IInv' /\ FairStep
  BY <1>2, GivesUpKeeps
<1>3. ASSUME NEW r \in Requests, Release(r) PROVE IInv' /\ FairStep
  BY <1>3, ReleaseKeeps
<1>4. ASSUME NEW k \in Accounts, NEW d \in Blocks, MarkBlocked(k, d) PROVE IInv' /\ FairStep
  BY <1>4, MarkBlockedKeeps
<1>5. ASSUME NEW k \in Keys, Reset(k) PROVE IInv' /\ FairStep
  BY <1>5, ResetKeeps
<1>6. ASSUME NEW k \in Keys, Unblock(k) PROVE IInv' /\ FairStep
  BY <1>6, UnblockKeeps
<1>7. ASSUME NEW k \in Keys, CleanupFires(k) PROVE IInv' /\ FairStep
  BY <1>7, CleanupKeeps
<1>8. CASE ResetAll
  BY <1>8, ResetAllKeeps
<1>9. CASE Tick
  BY <1>9, TickKeeps
<1>10. CASE UNCHANGED vars
  BY <1>10 DEF vars, IInv, NoIdleCapacity, FairStep
<1> QED BY <1>1, <1>2, <1>3, <1>4, <1>5, <1>6, <1>7, <1>8, <1>9, <1>10 DEF Next

\* The inductive invariant holds of every behaviour.
LEMMA Invariant == Spec => []IInv
<1>1. Init => IInv
  BY InitKeeps
<1>2. IInv /\ [Next]_vars => IInv'
  BY NextKeeps
<1> QED BY <1>1, <1>2, PTL DEF Spec

-----------------------------------------------------------------------------
(* What the invariant gives.                                                *)

\* The holders of key k a gate of k admitted, as the property counts them.
LEMMA ChargedIsAdmitted == \A k \in Keys : Admitted(k) = Charged(held, needs, stale, k)
BY DEF Admitted, Charged

\* Whatever the limits, blocks and key sets, every variable keeps its type: in particular
\* a gate never counts less than no permit or more than there are callers.
THEOREM TypeCorrect == Spec => []TypeOK
<1>1. IInv => TypeOK
  <2> SUFFICES ASSUME IInv PROVE TypeOK
    OBVIOUS
  <2>1. /\ waiting \in Seq(Requests) /\ needs \in [Requests -> KeySets \union {{}}]
        /\ held \subseteq Requests /\ stale \in [Requests -> SUBSET Keys]
        /\ robbed \subseteq Keys /\ unnoticed \subseteq Keys /\ gates \in [Keys -> Gate]
    BY DEF IInv, Consistent, PeopleOK
  <2>2. ASSUME NEW k \in Keys PROVE gates[k].running \in 0..Cardinality(Requests)
    <3>1. GateOK(gates[k], k, waiting, held, needs, stale, robbed) /\ gates[k].running \in Nat
      BY <2>1 DEF IInv, Consistent, Gate
    <3>2. Cardinality(Charged(held, needs, stale, k)) \in 0..Cardinality(Requests)
          /\ Cardinality(Requests) \in Nat
      BY <2>1, ChargedFinite
    <3> QED BY <3>1, <3>2 DEF GateOK
  <2>3. \A k \in Keys :
          gates[k] \in [open : BOOLEAN, running : 0..Cardinality(Requests), max : Nat,
                        queue : Seq(Requests), blocked : 0..MaxBlock, cleanup : BOOLEAN]
    BY <2>1, <2>2 DEF Gate
  <2> QED BY <2>1, <2>3 DEF TypeOK
<1> QED BY <1>1, Invariant, PTL

\* The queues of the gates are always one queue, seen by the needers of each key: waiters
\* cannot block each other in a circle.
THEOREM QueuesHold == Spec => []QueuesAgree
<1>1. IInv => QueuesAgree
  BY DEF IInv, Consistent, GateOK, QueuesAgree, Needing
<1> QED BY <1>1, Invariant, PTL

\* Nobody holds a permit while it waits for another, through every timeout and reset.
THEOREM WaitersEmptyHanded == Spec => []WaitersHoldNothing
<1>1. IInv => WaitersHoldNothing
  BY DEF IInv, Consistent, PeopleOK, WaitersHoldNothing
<1> QED BY <1>1, Invariant, PTL

\* A gate counts the permits it gave, and no more than those once another gate's
\* permit has been released into it.
THEOREM PermitsKept == Spec => []PermitsAccounted
<1>1. IInv => PermitsAccounted
  <2> SUFFICES ASSUME IInv PROVE PermitsAccounted
    OBVIOUS
  <2>1. \A k \in Keys : GateOK(gates[k], k, waiting, held, needs, stale, robbed)
    BY DEF IInv, Consistent
  <2> QED BY <2>1, ChargedIsAdmitted DEF GateOK, PermitsAccounted
<1> QED BY <1>1, Invariant, PTL

\* drainQueues runs often enough: nobody that could be admitted waits, except for room
\* that came without an event.
THEOREM CapacityUsed == Spec => []NoIdleCapacity
<1>1. IInv => NoIdleCapacity
  BY DEF IInv
<1> QED BY <1>1, Invariant, PTL

\* No call admits a request past a waiter it shares a gate with, drains and resets
\* included.
THEOREM NobodyOvertaken == Spec => NoOvertaking
<1>1. IInv /\ [Next]_vars =>
        [\A r \in held' \ held, q \in Range(waiting) \intersect Range(waiting') :
           LET place(x) == CHOOSE i \in DOMAIN waiting : waiting[i] = x IN
           (r \in Range(waiting) => place(q) < place(r)) => needs'[r] \intersect needs[q] = {}]_vars
  BY NextKeeps DEF FairStep, Place
<1> QED BY <1>1, Invariant, PTL DEF Spec, NoOvertaking

=============================================================================
