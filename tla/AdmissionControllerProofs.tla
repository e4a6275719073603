---------------------- MODULE AdmissionControllerProofs ----------------------
(***************************************************************************)
(* The admission controller keeps its promises for every number of tenants  *)
(* and requests, all costs, limits, caps and times, with and without lanes. *)
(*                                                                          *)
(* The invariant says that queue and lanes are sound (Sound: each tenant    *)
(* with work named once, the cursor in range, only heads served past) and   *)
(* that a dispatch would serve nobody (Stuck).  Sound is kept by what       *)
(* changes the queue: TakeKeeps, RemoveByIdKeeps, EnqueueKeeps.  Stuck is   *)
(* the work of dispatch: a round serves one entry or finds nobody to serve  *)
(* (ServeNextKeeps), so after as many rounds as there are entries it is     *)
(* stuck (DispatchKeeps).                                                   *)
(*                                                                          *)
(* The action properties follow serving through the whole of an operation:  *)
(* Follows(c, d) says that d comes of c by serving, and that while a head   *)
(* reserved the room nobody was served past it.  It holds of a round and of *)
(* a lane's turn, and composes (FollowsOn).  Each operation frees room, or  *)
(* adds an entry at a tail, and then serves.                                *)
(***************************************************************************)
EXTENDS AdmissionController, SubsequenceProofs, FiniteSetTheorems

-----------------------------------------------------------------------------
(* The queue.                                                               *)

\* The order names each tenant with waiting work once, a bucket holds its tenant's
\* requests once, the cursor points into the order, and only heads were served past.
QueueOK(q) ==
  /\ q \in Queues
  /\ NoRepeat(q.order)
  /\ Range(q.order) = {t \in Tenants : q.bucket[t] # <<>>}
  /\ \A t \in Tenants :
       /\ NoRepeat(q.bucket[t])
       /\ \A r \in Range(q.bucket[t]) : TenantOf[r] = t
  /\ \/ q.cursor < Len(q.order)
     \/ q.order = <<>> /\ q.cursor = 0
  /\ \A r \in Requests :
       q.skips[r] > 0 => /\ q.bucket[TenantOf[r]] # <<>>
                         /\ r = Head(q.bucket[TenantOf[r]])

\* A remainder is less than its divisor.
LEMMA ModBound == ASSUME NEW n \in Nat, n > 0, NEW a \in Nat PROVE a % n \in 0..n - 1
OBVIOUS

\* A number less than twice the divisor loses it at most once.
LEMMA ModOnce ==
  ASSUME NEW n \in Nat, NEW a \in 0..n - 1
  PROVE  a % n = a /\ (n + a) % n = a
OBVIOUS

\* A sequence without repetition is one shorter without one of its elements.
LEMMA KeptOneLess ==
  ASSUME NEW R, NEW s \in Seq(R), NEW e \in Range(s), NoRepeat(s)
  PROVE  Len(Kept(s, R \ {e})) = Len(s) - 1
<1> DEFINE P == {t \in Seq(R) : NoRepeat(t) /\ e \in Range(t) => Len(Kept(t, R \ {e})) = Len(t) - 1}
<1>1. <<>> \in P
  BY EmptySeq DEF Range
<1>2. ASSUME NEW t \in Seq(R), NEW x \in R, t \in P PROVE Append(t, x) \in P
  <2>1. Range(Append(t, x)) = Range(t) \union {x}
    BY RangeOfAppend
  <2>2. /\ Append(t, x) \in Seq(R) /\ Len(Append(t, x)) = Len(t) + 1
        /\ Kept(t, R \ {e}) \in Seq(R)
    BY AppendProperties, KeptType
  <2>3. Len(Kept(t, R \ {e})) \in Nat /\ Len(t) \in Nat
    BY <2>2, LenProperties
  <2>4. Kept(Append(t, x), R \ {e})
          = IF x \in R \ {e} THEN Append(Kept(t, R \ {e}), x) ELSE Kept(t, R \ {e})
    BY KeptOfAppend
  <2>5. NoRepeat(Append(t, x)) <=> NoRepeat(t) /\ x \notin Range(t)
    BY NoRepeatOfAppend
  <2>6. CASE x = e
    <3>1. ASSUME NoRepeat(Append(t, x)) PROVE Kept(t, R \ {e}) = t
      <4>1. Range(t) \subseteq R
        BY LenProperties DEF Range
      <4>2. Range(t) \subseteq R \ {e}
        BY <2>5, <2>6, <3>1, <4>1
      <4> QED BY <4>2, KeptAll
    <3> QED BY <2>2, <2>3, <2>4, <2>6, <3>1
  <2>7. CASE x # e
    <3>1. Len(Append(Kept(t, R \ {e}), x)) = Len(Kept(t, R \ {e})) + 1
      BY <2>2, AppendProperties
    <3> QED BY <1>2, <2>1, <2>2, <2>3, <2>4, <2>5, <2>7, <3>1
  <2> QED BY <2>6, <2>7
<1>3. Seq(R) \subseteq P
  <2> HIDE DEF P
  <2> QED BY <1>1, <1>2, SeqSetInduction
<1> QED BY <1>3

\* A head that is kept stays the head.
LEMMA KeptKeepsHead ==
  ASSUME NEW R, NEW s \in Seq(R), s # <<>>, NEW S, Head(s) \in S
  PROVE  Kept(s, S) # <<>> /\ Head(Kept(s, S)) = Head(s)
<1>1. Len(s) \in Nat /\ Len(s) # 0 /\ Head(s) = s[1] /\ DOMAIN s = 1..Len(s)
  BY EmptySeq, LenProperties
<1>2. Head(s) \in Range(Kept(s, S))
  BY <1>1, KeptRange DEF Range
<1>3. Kept(s, S) # <<>>
  BY <1>2 DEF Range
<1>4. PICK i \in 1..Len(s) : s[i] = Head(Kept(s, S)) /\ \A j \in 1..i - 1 : s[j] \notin S
  BY <1>3, KeptHead
<1>5. i = 1
  BY <1>1, <1>4
<1> QED BY <1>1, <1>3, <1>4, <1>5

\* The tail of a sequence without repetition has every element but the head.
LEMMA TailRange ==
  ASSUME NEW R, NEW s \in Seq(R), s # <<>>, NoRepeat(s)
  PROVE  /\ Tail(s) \in Seq(R) /\ NoRepeat(Tail(s)) /\ Head(s) \in Range(s)
         /\ Range(Tail(s)) = Range(s) \ {Head(s)}
<1>1. /\ Tail(s) \in Seq(R) /\ Len(Tail(s)) = Len(s) - 1 /\ Len(s) \in Nat /\ Len(s) # 0
      /\ \A i \in 1..Len(s) - 1 : Tail(s)[i] = s[i + 1]
      /\ Head(s) = s[1] /\ DOMAIN s = 1..Len(s) /\ DOMAIN Tail(s) = 1..Len(s) - 1
  <2>1. Tail(s) \in Seq(R) /\ Len(Tail(s)) = Len(s) - 1
        /\ \A i \in 1..Len(Tail(s)) : Tail(s)[i] = s[i + 1]
    BY HeadTailProperties
  <2> QED BY <2>1, EmptySeq, LenProperties
<1>2. NoRepeat(Tail(s))
  BY <1>1 DEF NoRepeat
<1>3. Range(Tail(s)) \subseteq Range(s) \ {Head(s)}
  <2> SUFFICES ASSUME NEW i \in 1..Len(s) - 1 PROVE Tail(s)[i] \in Range(s) \ {Head(s)}
    BY <1>1 DEF Range
  <2>1. Tail(s)[i] = s[i + 1] /\ i + 1 \in 1..Len(s) /\ i + 1 # 1 /\ 1 \in 1..Len(s)
    BY <1>1
  <2>2. s[i + 1] # s[1]
    BY <1>1, <2>1 DEF NoRepeat
  <2> QED BY <1>1, <2>1, <2>2 DEF Range
<1>4. ASSUME NEW e \in Range(s), e # Head(s) PROVE e \in Range(Tail(s))
  <2>1. PICK i \in 1..Len(s) : s[i] = e
    BY <1>1 DEF Range
  <2>2. i - 1 \in 1..Len(s) - 1 /\ Tail(s)[i - 1] = e
    BY <1>1, <1>4, <2>1
  <2> QED BY <1>1, <2>2 DEF Range
<1>5. Head(s) \in Range(s)
  BY <1>1 DEF Range
<1> QED BY <1>1, <1>2, <1>3, <1>4, <1>5

\* A head of the queue is a waiting request of the tenant it is found at.
LEMMA PlaceOf ==
  ASSUME NEW q, QueueOK(q), NEW i \in Places(q)
  PROVE  /\ Index(q, i) \in 0..Len(q.order) - 1
         /\ TenantAt(q, i) \in Tenants /\ q.bucket[TenantAt(q, i)] # <<>>
         /\ HeadAt(q, i) \in Requests /\ TenantOf[HeadAt(q, i)] = TenantAt(q, i)
         /\ HeadAt(q, i) \in Range(q.bucket[TenantAt(q, i)])
         /\ HeadAt(q, i) \in Entries(q)
<1>1. /\ Len(q.order) \in Nat /\ Len(q.order) > 0 /\ q.cursor \in Nat /\ i \in Nat
      /\ DOMAIN q.order = 1..Len(q.order) /\ q.order \in Seq(Tenants)
  BY LenProperties DEF QueueOK, Queues, Places
<1>2. Index(q, i) \in 0..Len(q.order) - 1
  <2>1. q.cursor + i \in Nat
    BY <1>1
  <2> QED BY <1>1, <2>1 DEF Index
<1>3. TenantAt(q, i) \in Range(q.order)
  BY <1>1, <1>2 DEF TenantAt, Range
<1>4. TenantAt(q, i) \in Tenants /\ q.bucket[TenantAt(q, i)] # <<>>
      /\ q.bucket[TenantAt(q, i)] \in Seq(Requests) /\ NoRepeat(q.bucket[TenantAt(q, i)])
  BY <1>3 DEF QueueOK, Queues
<1>5. HeadAt(q, i) \in Range(q.bucket[TenantAt(q, i)]) /\ HeadAt(q, i) \in Requests
  BY <1>4, TailRange, HeadTailProperties DEF HeadAt
<1>6. TenantOf[HeadAt(q, i)] = TenantAt(q, i)
  BY <1>4, <1>5 DEF QueueOK
<1> QED BY <1>2, <1>4, <1>5, <1>6 DEF Entries

\* The order and the buckets once rest is left in the bucket of t.
OrderWith(q, t, rest) == IF rest = <<>> THEN Kept(q.order, Tenants \ {t}) ELSE q.order
BucketWith(q, t, rest) == [q.bucket EXCEPT ![t] = rest]

\* The order and the buckets o, b are what removing r from q leaves.
Without(o, b, q, r) ==
  /\ o \in Seq(Tenants) /\ NoRepeat(o)
  /\ Range(o) = {u \in Tenants : b[u] # <<>>}
  /\ b \in [Tenants -> Seq(Requests)]
  /\ \A u \in Tenants : NoRepeat(b[u]) /\ \A x \in Range(b[u]) : TenantOf[x] = u
  /\ UNION {Range(b[u]) : u \in Tenants} = Entries(q) \ {r}

\* Taking request r out of its bucket: the bucket may become empty and leaves the order.
LEMMA BucketShrinks ==
  ASSUME NEW q, QueueOK(q), NEW t \in Tenants, NEW r \in Range(q.bucket[t]),
         NEW rest \in Seq(Requests), NoRepeat(rest), Range(rest) = Range(q.bucket[t]) \ {r}
  PROVE  /\ Without(OrderWith(q, t, rest), BucketWith(q, t, rest), q, r)
         /\ Len(OrderWith(q, t, rest)) = IF rest = <<>> THEN Len(q.order) - 1 ELSE Len(q.order)
<1> DEFINE o == OrderWith(q, t, rest)
           b == BucketWith(q, t, rest)
<1>0. o = (IF rest = <<>> THEN Kept(q.order, Tenants \ {t}) ELSE q.order)
      /\ b = [q.bucket EXCEPT ![t] = rest]
  BY DEF OrderWith, BucketWith
<1> HIDE DEF o, b
<1>1. /\ q.order \in Seq(Tenants) /\ NoRepeat(q.order) /\ q.bucket \in [Tenants -> Seq(Requests)]
      /\ Range(q.order) = {u \in Tenants : q.bucket[u] # <<>>}
      /\ \A u \in Tenants : NoRepeat(q.bucket[u]) /\ \A x \in Range(q.bucket[u]) : TenantOf[x] = u
  BY DEF QueueOK, Queues
<1>2. b \in [Tenants -> Seq(Requests)] /\ b[t] = rest /\ \A u \in Tenants \ {t} : b[u] = q.bucket[u]
  BY <1>0, <1>1
<1>3. q.bucket[t] # <<>> /\ t \in Range(q.order)
  BY <1>1 DEF Range
<1>4. o \in Seq(Tenants) /\ NoRepeat(o)
  BY <1>0, <1>1, KeptType, KeptNoRepeat
<1>5. Range(o) = {u \in Tenants : b[u] # <<>>}
  <2>1. rest = <<>> => Range(o) = Range(q.order) \intersect (Tenants \ {t})
    BY <1>0, <1>1, KeptRange
  <2> QED BY <1>0, <1>1, <1>2, <1>3, <2>1
<1>6. Len(o) = IF rest = <<>> THEN Len(q.order) - 1 ELSE Len(q.order)
  BY <1>0, <1>1, <1>3, KeptOneLess
<1>7. \A u \in Tenants : NoRepeat(b[u]) /\ \A x \in Range(b[u]) : TenantOf[x] = u
  BY <1>1, <1>2
<1>8. UNION {Range(b[u]) : u \in Tenants} = Entries(q) \ {r}
  <2>1. TenantOf[r] = t
    BY <1>1
  <2>2. \A u \in Tenants : Range(b[u]) = Range(q.bucket[u]) \ {r}
    BY <1>1, <1>2, <2>1
  <2>3. ASSUME NEW x PROVE x \in UNION {Range(b[u]) : u \in Tenants} <=> x \in Entries(q) \ {r}
    <3>1. x \in UNION {Range(b[u]) : u \in Tenants} <=> \E u \in Tenants : x \in Range(b[u])
      OBVIOUS
    <3>2. x \in Entries(q) <=> \E u \in Tenants : x \in Range(q.bucket[u])
      BY DEF Entries
    <3> QED BY <2>2, <3>1, <3>2
  <2> QED BY <2>3
<1>9. Without(o, b, q, r)
  BY <1>2, <1>4, <1>5, <1>7, <1>8 DEF Without
<1> QED BY <1>6, <1>9 DEF o, b

\* A queue's entries are requests, and every entry is in its tenant's bucket.
LEMMA EntryInBucket ==
  ASSUME NEW q, QueueOK(q)
  PROVE  /\ Entries(q) \subseteq Requests
         /\ \A r \in Entries(q) : r \in Range(q.bucket[TenantOf[r]])
         /\ \A r \in Requests : q.skips[r] > 0 => r \in Entries(q)
         /\ q.order = <<>> <=> Entries(q) = {}
<1>1. \A t \in Tenants : /\ q.bucket[t] \in Seq(Requests) /\ NoRepeat(q.bucket[t])
                         /\ \A r \in Range(q.bucket[t]) : TenantOf[r] = t
  BY DEF QueueOK, Queues
<1>2. \A t \in Tenants : Range(q.bucket[t]) \subseteq Requests
  BY <1>1, LenProperties DEF Range
<1>3. \A t \in Tenants : q.bucket[t] # <<>> => Head(q.bucket[t]) \in Range(q.bucket[t])
  BY <1>1, TailRange
<1>4. \A r \in Requests : q.skips[r] > 0 => r \in Entries(q)
  BY <1>3, QueueAssumption DEF QueueOK, Entries
<1>5. q.order = <<>> <=> Range(q.order) = {}
  <2>1. q.order \in Seq(Tenants)
    BY DEF QueueOK, Queues
  <2>2. q.order # <<>> => 1 \in DOMAIN q.order
    BY <2>1, EmptySeq, LenProperties
  <2>3. q.order # <<>> => q.order[1] \in Range(q.order)
    BY <2>2 DEF Range
  <2>4. Range(<<>>) = {}
    BY DEF Range
  <2> QED BY <2>3, <2>4
<1>6. Range(q.order) = {} <=> Entries(q) = {}
  <2>1. \A t \in Tenants : q.bucket[t] = <<>> => Range(q.bucket[t]) = {}
    BY DEF Range
  <2>2. Range(q.order) = {t \in Tenants : q.bucket[t] # <<>>}
    BY DEF QueueOK
  <2>3. ASSUME Range(q.order) = {} PROVE Entries(q) = {}
    <3>1. \A t \in Tenants : Range(q.bucket[t]) = {}
      BY <2>1, <2>2, <2>3
    <3> QED BY <3>1 DEF Entries
  <2>4. ASSUME NEW t \in Range(q.order) PROVE Entries(q) # {}
    BY <1>3, <2>2 DEF Entries
  <2> QED BY <2>3, <2>4
<1>7. Entries(q) \subseteq Requests
  BY <1>2 DEF Entries
<1>8. \A r \in Entries(q) : r \in Range(q.bucket[TenantOf[r]])
  BY <1>1 DEF Entries
<1> QED BY <1>4, <1>5, <1>6, <1>7, <1>8

\* A head that others were served past is found at a place.
LEMMA HeadHasPlace ==
  ASSUME NEW q, QueueOK(q), NEW r \in Requests, q.skips[r] > 0
  PROVE  \E i \in Places(q) : HeadAt(q, i) = r
<1> DEFINE t == TenantOf[r]
           n == Len(q.order)
<1>1. t \in Tenants /\ q.bucket[t] # <<>> /\ r = Head(q.bucket[t])
  BY QueueAssumption DEF QueueOK
<1>2. t \in Range(q.order) /\ DOMAIN q.order = 1..n /\ n \in Nat /\ q.cursor \in Nat
  BY <1>1, LenProperties DEF QueueOK, Queues
<1>3. PICK j \in 1..n : q.order[j] = t
  BY <1>2 DEF Range
<1>4. q.cursor \in 0..n - 1
  <2>1. q.order # <<>>
    BY <1>2 DEF Range
  <2> QED BY <1>2, <2>1 DEF QueueOK
<1> DEFINE i == IF j - 1 >= q.cursor THEN j - 1 - q.cursor ELSE n + j - 1 - q.cursor
<1>5. i \in 0..n - 1 /\ (q.cursor + i = j - 1 \/ q.cursor + i = n + (j - 1))
  BY <1>2, <1>3, <1>4
<1>6. (q.cursor + i) % n = j - 1
  <2> HIDE DEF i, n
  <2> QED BY <1>2, <1>3, <1>5, ModOnce
<1>7. i \in Places(q) /\ HeadAt(q, i) = r
  <2> HIDE DEF i
  <2> QED BY <1>1, <1>3, <1>5, <1>6 DEF Places, HeadAt, TenantAt, Index
<1> QED BY <1>7

\* Serving a place takes its head out of the queue; if no head reserved the room, those
\* passed were not served past too often to be counted.
LEMMA TakeKeeps ==
  ASSUME NEW q, QueueOK(q), NEW i \in Places(q)
  PROVE  /\ QueueOK(Take(q, i))
         /\ Entries(Take(q, i)) = Entries(q) \ {HeadAt(q, i)}
         /\ Reserved(q) # {} => \A r \in Requests \ {HeadAt(q, i)} : Take(q, i).skips[r] = q.skips[r]
<1> DEFINE t == TenantAt(q, i)
           h == HeadAt(q, i)
           rest == Tail(q.bucket[t])
           p == Take(q, i)
           index == Index(q, i)
<1>1. /\ index \in 0..Len(q.order) - 1 /\ t \in Tenants /\ q.bucket[t] # <<>>
      /\ h \in Requests /\ TenantOf[h] = t /\ h \in Range(q.bucket[t])
  BY PlaceOf
<1>2. /\ q.order \in Seq(Tenants) /\ Len(q.order) \in Nat
      /\ q.bucket \in [Tenants -> Seq(Requests)] /\ q.skips \in [Requests -> 0..2]
      /\ NoRepeat(q.bucket[t]) /\ q.bucket[t] \in Seq(Requests) /\ h = Head(q.bucket[t])
  BY <1>1, LenProperties DEF QueueOK, Queues, HeadAt, MaxUnfittableSkips
<1>3. rest \in Seq(Requests) /\ NoRepeat(rest) /\ Range(rest) = Range(q.bucket[t]) \ {h}
  BY <1>1, <1>2, TailRange
<1>4. /\ p.order = OrderWith(q, t, rest) /\ p.bucket = BucketWith(q, t, rest)
      /\ p.cursor = CASE rest # <<>> -> (index + 1) % Len(q.order)
                      [] rest = <<>> /\ Len(q.order) - 1 = 0 -> 0
                      [] rest = <<>> /\ Len(q.order) - 1 # 0 -> index % (Len(q.order) - 1)
      /\ DOMAIN p = {"order", "bucket", "cursor", "skips"}
      /\ p = [order |-> p.order, bucket |-> p.bucket, cursor |-> p.cursor, skips |-> p.skips]
  BY DEF Take, OrderWith, BucketWith
<1>5. /\ Without(p.order, p.bucket, q, h)
      /\ Len(p.order) = IF rest = <<>> THEN Len(q.order) - 1 ELSE Len(q.order)
  <2> HIDE DEF t, h, rest, p
  <2> QED BY <1>1, <1>3, <1>4, BucketShrinks
<1>6. p.cursor \in Nat /\ (p.cursor < Len(p.order) \/ (p.order = <<>> /\ p.cursor = 0))
  <2> DEFINE n == Len(q.order)
             m == Len(p.order)
  <2>1. /\ n \in Nat /\ index \in Nat /\ n > 0 /\ m = IF rest = <<>> THEN n - 1 ELSE n
        /\ p.cursor = CASE rest # <<>> -> (index + 1) % n
                        [] rest = <<>> /\ n - 1 = 0 -> 0
                        [] rest = <<>> /\ n - 1 # 0 -> index % (n - 1)
    <3> HIDE DEF t, h, rest, p, index
    <3>1. n \in Nat /\ index \in Nat /\ n > 0
      BY <1>1, <1>2
    <3> QED BY <1>4, <1>5, <3>1
  <2>2. m = 0 => p.order = <<>>
    BY <1>5, EmptySeq DEF Without
  <2> HIDE DEF t, h, rest, p, index, n, m
  <2>3. CASE rest # <<>>
    <3>1. (index + 1) % n \in 0..n - 1
      BY <2>1, ModBound
    <3> QED BY <2>1, <2>3, <3>1 DEF m
  <2>4. CASE rest = <<>> /\ n - 1 = 0
    BY <2>1, <2>2, <2>4
  <2>5. CASE rest = <<>> /\ n - 1 # 0
    <3>1. n - 1 \in Nat /\ n - 1 > 0
      BY <2>1, <2>5
    <3>2. index % (n - 1) \in 0..n - 1 - 1
      BY <2>1, <3>1, ModBound
    <3> QED BY <2>1, <2>5, <3>2 DEF m
  <2> QED BY <2>3, <2>4, <2>5
<1>7. \A j \in Places(q) : Reserved(q) = {} => q.skips[HeadAt(q, j)] < 2
  <2> SUFFICES ASSUME NEW j \in Places(q), Reserved(q) = {} PROVE q.skips[HeadAt(q, j)] < 2
    OBVIOUS
  <2>1. HeadAt(q, j) \in Requests
    BY PlaceOf
  <2> QED BY <1>2, <2>1 DEF Reserved, MaxUnfittableSkips
<1>8. /\ p.skips \in [Requests -> 0..2] /\ p.skips[h] = 0
      /\ \A r \in Requests \ {h} : IF r \in Bypassed(q, i) THEN p.skips[r] = q.skips[r] + 1
                                  ELSE p.skips[r] = q.skips[r]
  <2> DEFINE skipped == [r \in Requests |->
               IF r \in Bypassed(q, i) THEN q.skips[r] + 1 ELSE q.skips[r]]
  <2>1. p.skips = [skipped EXCEPT ![h] = 0]
    BY DEF Take
  <2>2. \A r \in Bypassed(q, i) : q.skips[r] < 2
    BY <1>7 DEF Bypassed, Places
  <2>3. skipped \in [Requests -> 0..2]
    BY <1>2, <2>2
  <2> QED BY <1>1, <2>1, <2>3
<1>9. \A r \in Bypassed(q, i) : r \in Requests /\ q.bucket[TenantOf[r]] # <<>>
                                /\ r = Head(q.bucket[TenantOf[r]])
  <2> SUFFICES ASSUME NEW j \in 0..i - 1
               PROVE  LET r == HeadAt(q, j) IN /\ r \in Requests /\ q.bucket[TenantOf[r]] # <<>>
                                               /\ r = Head(q.bucket[TenantOf[r]])
    BY DEF Bypassed
  <2>1. j \in Places(q)
    BY <1>2 DEF Places
  <2> QED BY <2>1, PlaceOf DEF HeadAt
<1>10. ASSUME NEW r \in Requests, p.skips[r] > 0
       PROVE  p.bucket[TenantOf[r]] # <<>> /\ r = Head(p.bucket[TenantOf[r]])
  <2>1. r # h
    BY <1>8, <1>10
  <2>2. q.bucket[TenantOf[r]] # <<>> /\ r = Head(q.bucket[TenantOf[r]])
    <3>1. CASE r \in Bypassed(q, i)
      BY <1>9, <3>1
    <3>2. CASE r \notin Bypassed(q, i)
      BY <1>8, <1>10, <2>1, <3>2 DEF QueueOK
    <3> QED BY <3>1, <3>2
  <2>3. TenantOf[r] # t /\ TenantOf[r] \in Tenants
    BY <1>2, <2>1, <2>2, QueueAssumption
  <2>4. p.bucket[TenantOf[r]] = q.bucket[TenantOf[r]]
    BY <1>2, <1>4, <2>3 DEF BucketWith
  <2> QED BY <2>2, <2>4
<1>11. QueueOK(p)
  <2>1. p \in Queues
    <3> HIDE DEF p
    <3> QED BY <1>4, <1>5, <1>6, <1>8 DEF Queues, MaxUnfittableSkips, Without
  <2> HIDE DEF p, h, t
  <2> QED BY <1>5, <1>6, <1>10, <2>1 DEF QueueOK, Without
<1>12. Reserved(q) # {} => \A r \in Requests \ {h} : p.skips[r] = q.skips[r]
  BY <1>8 DEF Bypassed
<1> QED BY <1>5, <1>11, <1>12 DEF Entries, Without

\* removeById takes the request out of the queue and counts nobody served past.
LEMMA RemoveByIdKeeps ==
  ASSUME NEW q, QueueOK(q), NEW r \in Entries(q)
  PROVE  /\ QueueOK(RemoveById(q, r))
         /\ Entries(RemoveById(q, r)) = Entries(q) \ {r}
         /\ RemoveById(q, r).skips = [q.skips EXCEPT ![r] = 0]
<1> DEFINE t == TenantOf[r]
           rest == Kept(q.bucket[t], Requests \ {r})
           p == RemoveById(q, r)
           before == \E i \in 1..q.cursor : q.order[i] = t
<1>1. r \in Requests /\ t \in Tenants /\ r \in Range(q.bucket[t])
  BY EntryInBucket, QueueAssumption
<1>2. /\ q.order \in Seq(Tenants) /\ Len(q.order) \in Nat /\ q.cursor \in Nat
      /\ q.bucket \in [Tenants -> Seq(Requests)] /\ q.skips \in [Requests -> 0..2]
      /\ NoRepeat(q.bucket[t]) /\ q.bucket[t] \in Seq(Requests)
  BY <1>1, LenProperties DEF QueueOK, Queues, MaxUnfittableSkips
<1>3. rest \in Seq(Requests) /\ NoRepeat(rest) /\ Range(rest) = Range(q.bucket[t]) \ {r}
  <2>1. rest \in Seq(Requests) /\ NoRepeat(rest)
    BY <1>2, KeptType, KeptNoRepeat
  <2>2. Range(rest) = Range(q.bucket[t]) \intersect (Requests \ {r})
    BY <1>2, KeptRange
  <2>3. Range(q.bucket[t]) \subseteq Requests
    BY <1>2, LenProperties DEF Range
  <2> QED BY <2>1, <2>2, <2>3
<1>4. /\ p.order = OrderWith(q, t, rest) /\ p.bucket = BucketWith(q, t, rest)
      /\ p.cursor = CASE rest = <<>> /\ before -> q.cursor - 1
                      [] rest = <<>> /\ ~before /\ q.cursor >= Len(q.order) - 1 -> 0
                      [] OTHER -> q.cursor
      /\ p.skips = [q.skips EXCEPT ![r] = 0]
      /\ p = [order |-> p.order, bucket |-> p.bucket, cursor |-> p.cursor, skips |-> p.skips]
  BY DEF RemoveById, OrderWith, BucketWith
<1>5. /\ Without(p.order, p.bucket, q, r)
      /\ Len(p.order) = IF rest = <<>> THEN Len(q.order) - 1 ELSE Len(q.order)
  <2> HIDE DEF t, rest, p
  <2> QED BY <1>1, <1>3, <1>4, BucketShrinks
<1>6. p.cursor \in Nat /\ (p.cursor < Len(p.order) \/ (p.order = <<>> /\ p.cursor = 0))
  <2> DEFINE n == Len(q.order)
             m == Len(p.order)
  <2> HIDE DEF t, rest, p, before
  <2>1. n \in Nat /\ n > 0 /\ q.cursor < n /\ m = IF rest = <<>> THEN n - 1 ELSE n
    <3>1. q.order # <<>>
      BY EntryInBucket
    <3> QED BY <1>2, <1>5, <3>1, EmptySeq DEF QueueOK
  <2>2. m = 0 => p.order = <<>>
    BY <1>5, EmptySeq DEF Without
  <2> HIDE DEF n, m
  <2>3. CASE rest = <<>> /\ before
    <3>1. p.cursor = q.cursor - 1
      BY <1>4, <2>3
    <3>2. q.cursor > 0
      BY <1>2, <2>3 DEF before
    <3> QED BY <1>2, <2>1, <2>3, <3>1, <3>2 DEF m
  <2>4. CASE rest = <<>> /\ ~before /\ q.cursor >= n - 1
    <3>1. p.cursor = 0
      BY <1>4, <2>4 DEF n
    <3> QED BY <1>2, <2>1, <2>2, <2>4, <3>1 DEF m
  <2>5. CASE rest # <<>> \/ (~before /\ q.cursor < n - 1)
    <3>1. p.cursor = q.cursor
      BY <1>2, <1>4, <2>1, <2>5 DEF n
    <3> QED BY <1>2, <2>1, <2>5, <3>1 DEF m
  <2> QED BY <1>2, <2>1, <2>3, <2>4, <2>5
<1>7. p.skips \in [Requests -> 0..2]
  BY <1>1, <1>2, <1>4
<1>8. ASSUME NEW x \in Requests, p.skips[x] > 0
      PROVE  p.bucket[TenantOf[x]] # <<>> /\ x = Head(p.bucket[TenantOf[x]])
  <2>1. x # r /\ q.skips[x] > 0
    BY <1>1, <1>2, <1>4, <1>8
  <2>2. q.bucket[TenantOf[x]] # <<>> /\ x = Head(q.bucket[TenantOf[x]]) /\ TenantOf[x] \in Tenants
    BY <2>1, QueueAssumption DEF QueueOK
  <2>3. CASE TenantOf[x] = t
    <3>1. p.bucket[t] = rest
      BY <1>1, <1>2, <1>4 DEF BucketWith
    <3>2. Head(q.bucket[t]) \in Requests \ {r}
      BY <2>1, <2>2, <2>3
    <3>3. rest # <<>> /\ Head(rest) = Head(q.bucket[t])
      BY <1>2, <2>2, <2>3, <3>2, KeptKeepsHead
    <3> QED BY <2>2, <2>3, <3>1, <3>3
  <2>4. CASE TenantOf[x] # t
    <3>1. p.bucket[TenantOf[x]] = q.bucket[TenantOf[x]]
      BY <1>2, <1>4, <2>2, <2>4 DEF BucketWith
    <3> QED BY <2>2, <3>1
  <2> QED BY <2>3, <2>4
<1>9. QueueOK(p)
  <2>1. p \in Queues
    <3> HIDE DEF p
    <3> QED BY <1>4, <1>5, <1>6, <1>7 DEF Queues, MaxUnfittableSkips, Without
  <2> HIDE DEF p, t
  <2> QED BY <1>5, <1>6, <1>8, <2>1 DEF QueueOK, Without
<1> QED BY <1>4, <1>5, <1>9 DEF Entries, Without

\* enqueue adds the request at the tail of its tenant's bucket.
LEMMA EnqueueKeeps ==
  ASSUME NEW q, QueueOK(q), NEW r \in Requests \ Entries(q)
  PROVE  /\ QueueOK(Enqueue(q, r))
         /\ Entries(Enqueue(q, r)) = Entries(q) \union {r}
         /\ Enqueue(q, r).skips = q.skips
<1> DEFINE t == TenantOf[r]
           p == Enqueue(q, r)
<1>1. r \in Requests /\ t \in Tenants /\ r \notin Range(q.bucket[t])
  BY QueueAssumption DEF Entries
<1>2. /\ q.order \in Seq(Tenants) /\ Len(q.order) \in Nat /\ q.cursor \in Nat
      /\ q.bucket \in [Tenants -> Seq(Requests)] /\ q.skips \in [Requests -> 0..2]
      /\ NoRepeat(q.bucket[t]) /\ q.bucket[t] \in Seq(Requests)
      /\ q = [order |-> q.order, bucket |-> q.bucket, cursor |-> q.cursor, skips |-> q.skips]
  BY <1>1, LenProperties DEF QueueOK, Queues, MaxUnfittableSkips
<1>3. /\ p.order = (IF q.bucket[t] = <<>> THEN Append(q.order, t) ELSE q.order)
      /\ p.bucket = [q.bucket EXCEPT ![t] = Append(q.bucket[t], r)]
      /\ p.cursor = q.cursor /\ p.skips = q.skips
      /\ p = [order |-> p.order, bucket |-> p.bucket, cursor |-> p.cursor, skips |-> p.skips]
  <2> DEFINE o == IF q.bucket[t] = <<>> THEN Append(q.order, t) ELSE q.order
             b == [q.bucket EXCEPT ![t] = Append(q.bucket[t], r)]
  <2>1. p = [[q EXCEPT !.bucket = b] EXCEPT !.order = o]
    BY <1>2 DEF Enqueue
  <2> HIDE DEF b, o, p
  <2>2. p = [order |-> o, bucket |-> b, cursor |-> q.cursor, skips |-> q.skips]
    BY <1>2, <2>1
  <2> QED BY <2>2 DEF b, o
<1> HIDE DEF p, t
<1>4. /\ Append(q.bucket[t], r) \in Seq(Requests) /\ Append(q.bucket[t], r) # <<>>
      /\ Range(Append(q.bucket[t], r)) = Range(q.bucket[t]) \union {r}
      /\ NoRepeat(Append(q.bucket[t], r))
      /\ q.bucket[t] # <<>> => Head(Append(q.bucket[t], r)) = Head(q.bucket[t])
  <2>1. /\ Append(q.bucket[t], r) \in Seq(Requests) /\ Append(q.bucket[t], r) # <<>>
        /\ \A i \in 1..Len(q.bucket[t]) : Append(q.bucket[t], r)[i] = q.bucket[t][i]
    BY <1>1, <1>2, AppendProperties
  <2>2. /\ Range(Append(q.bucket[t], r)) = Range(q.bucket[t]) \union {r}
        /\ NoRepeat(Append(q.bucket[t], r))
    BY <1>1, <1>2, RangeOfAppend, NoRepeatOfAppend
  <2>3. q.bucket[t] # <<>> => Head(Append(q.bucket[t], r)) = Head(q.bucket[t])
    <3>1. q.bucket[t] # <<>> => 1 \in 1..Len(q.bucket[t])
      BY <1>2, EmptySeq, LenProperties
    <3> QED BY <2>1, <3>1
  <2> QED BY <2>1, <2>2, <2>3
<1>5. /\ p.bucket \in [Tenants -> Seq(Requests)] /\ p.bucket[t] = Append(q.bucket[t], r)
      /\ \A u \in Tenants \ {t} : p.bucket[u] = q.bucket[u]
  BY <1>1, <1>2, <1>3, <1>4
<1>6. Range(q.order) = {u \in Tenants : q.bucket[u] # <<>>} /\ NoRepeat(q.order)
  BY DEF QueueOK
<1>7. /\ p.order \in Seq(Tenants) /\ NoRepeat(p.order) /\ Len(q.order) <= Len(p.order)
      /\ Range(p.order) = Range(q.order) \union {t}
      /\ q.order = <<>> => Len(p.order) > 0
  <2>1. CASE q.bucket[t] = <<>>
    <3>1. Range(Append(q.order, t)) = Range(q.order) \union {t} /\ t \notin Range(q.order)
      BY <1>1, <1>2, <1>6, <2>1, RangeOfAppend
    <3>2. Append(q.order, t) \in Seq(Tenants) /\ Len(Append(q.order, t)) = Len(q.order) + 1
      BY <1>1, <1>2, AppendProperties
    <3>3. NoRepeat(Append(q.order, t))
      BY <1>1, <1>2, <1>6, <3>1, NoRepeatOfAppend
    <3> QED BY <1>2, <1>3, <2>1, <3>1, <3>2, <3>3
  <2>2. CASE q.bucket[t] # <<>>
    <3>1. t \in Range(q.order)
      BY <1>1, <1>6, <2>2
    <3>2. q.order # <<>>
      BY <3>1 DEF Range
    <3> QED BY <1>2, <1>3, <1>6, <2>2, <3>1, <3>2
  <2> QED BY <2>1, <2>2
<1>8. Range(p.order) = {u \in Tenants : p.bucket[u] # <<>>}
  BY <1>1, <1>4, <1>5, <1>6, <1>7
<1>9. p.cursor < Len(p.order) \/ (p.order = <<>> /\ p.cursor = 0)
  <2>1. Len(p.order) \in Nat
    BY <1>7, LenProperties
  <2>2. q.cursor < Len(q.order) \/ (q.order = <<>> /\ q.cursor = 0)
    BY DEF QueueOK
  <2> QED BY <1>2, <1>3, <1>7, <2>1, <2>2
<1>10. \A u \in Tenants : NoRepeat(p.bucket[u]) /\ \A x \in Range(p.bucket[u]) : TenantOf[x] = u
  <2>1. \A u \in Tenants : NoRepeat(q.bucket[u]) /\ \A x \in Range(q.bucket[u]) : TenantOf[x] = u
    BY DEF QueueOK
  <2> QED BY <1>1, <1>4, <1>5, <2>1 DEF t
<1>11. ASSUME NEW x \in Requests, p.skips[x] > 0
       PROVE  p.bucket[TenantOf[x]] # <<>> /\ x = Head(p.bucket[TenantOf[x]])
  <2>1. q.bucket[TenantOf[x]] # <<>> /\ x = Head(q.bucket[TenantOf[x]]) /\ TenantOf[x] \in Tenants
    BY <1>3, <1>11, QueueAssumption DEF QueueOK
  <2> QED BY <1>4, <1>5, <2>1
<1>12. Entries(p) = Entries(q) \union {r}
  <2>1. ASSUME NEW x PROVE x \in Entries(p) <=> x \in Entries(q) \union {r}
    <3>1. x \in Entries(p) <=> \E u \in Tenants : x \in Range(p.bucket[u])
      BY DEF Entries
    <3>2. x \in Entries(q) <=> \E u \in Tenants : x \in Range(q.bucket[u])
      BY DEF Entries
    <3> QED BY <1>1, <1>4, <1>5, <3>1, <3>2
  <2> QED BY <2>1
<1>13. p \in Queues
  BY <1>2, <1>3, <1>5, <1>7 DEF Queues, MaxUnfittableSkips
<1>14. QueueOK(p)
  BY <1>7, <1>8, <1>9, <1>10, <1>11, <1>13 DEF QueueOK
<1> QED BY <1>3, <1>12, <1>14 DEF p

-----------------------------------------------------------------------------
(* Who is served next.                                                      *)

\* The least and the greatest of two.
LEMMA MinOfTwo == ASSUME NEW a \in Int, NEW b \in Int PROVE Min({a, b}) = IF a <= b THEN a ELSE b
<1>1. \E x \in {a, b} : \A y \in {a, b} : x <= y
  OBVIOUS
<1>2. Min({a, b}) \in {a, b} /\ \A y \in {a, b} : Min({a, b}) <= y
  BY <1>1 DEF Min
<1> QED BY <1>2

\* Of two the greater is the greatest.
LEMMA MaxOfTwo == ASSUME NEW a \in Int, NEW b \in Int PROVE Max({a, b}) = IF a <= b THEN b ELSE a
<1>1. \E x \in {a, b} : \A y \in {a, b} : x >= y
  OBVIOUS
<1>2. Max({a, b}) \in {a, b} /\ \A y \in {a, b} : Max({a, b}) >= y
  BY <1>1 DEF Max
<1> QED BY <1>2

\* The arithmetic of the constants.
LEMMA ConstantBounds ==
  /\ AgeCap \in Nat /\ AgeCap >= MaxWait /\ AgeCap >= LaneTtl
  /\ \A x \in Int : Clamped(x) \in MinLimit..MaxLimit
  /\ RecoveryCeiling \in MinLimit..MaxLimit
<1>1. /\ MinLimit \in Nat /\ MaxLimit \in Nat /\ InitialLimit \in Nat /\ MinLimit <= MaxLimit
      /\ MaxWait \in Nat /\ LaneTtl \in Nat
  BY AdmissionAssumption
<1>2. ASSUME NEW x \in Int PROVE Clamped(x) \in MinLimit..MaxLimit
  <2>1. Max({MinLimit, x}) = IF MinLimit <= x THEN x ELSE MinLimit
    BY <1>1, MaxOfTwo
  <2>2. Min({MaxLimit, Max({MinLimit, x})})
          = IF MaxLimit <= Max({MinLimit, x}) THEN MaxLimit ELSE Max({MinLimit, x})
    BY <1>1, <2>1, MinOfTwo
  <2> QED BY <1>1, <2>1, <2>2 DEF Clamped
<1>3. AgeCap = IF MaxWait <= LaneTtl THEN LaneTtl ELSE MaxWait
  BY <1>1, MaxOfTwo DEF AgeCap
<1> QED BY <1>1, <1>2, <1>3 DEF RecoveryCeiling

\* The types of the times waited.
Ages == [Requests -> 0..AgeCap]

\* Place i is the oldest of the heads in S, and among equals the nearest.
IsOldest(q, age, S, i) ==
  /\ i \in S
  /\ \A j \in S :
       \/ age[HeadAt(q, i)] > age[HeadAt(q, j)]
       \/ age[HeadAt(q, i)] = age[HeadAt(q, j)] /\ i <= j

\* There is exactly one oldest head, and Oldest is its place.
LEMMA OldestIs ==
  ASSUME NEW q, QueueOK(q), NEW age \in Ages, NEW S \in SUBSET Places(q), S # {}
  PROVE  /\ IsOldest(q, age, S, Oldest(q, age, S))
         /\ \A i : IsOldest(q, age, S, i) => i = Oldest(q, age, S)
<1> DEFINE a(i) == age[HeadAt(q, i)]
           T == {AgeCap - a(i) : i \in S}
<1>1. \A i \in S : i \in Nat /\ a(i) \in Nat /\ a(i) <= AgeCap /\ AgeCap \in Nat
  <2> SUFFICES ASSUME NEW i \in S PROVE i \in Nat /\ a(i) \in 0..AgeCap /\ AgeCap \in Nat
    OBVIOUS
  <2>1. HeadAt(q, i) \in Requests
    BY PlaceOf
  <2> QED BY <2>1, ConstantBounds DEF Ages, Places
<1> HIDE DEF a
<1>2. PICK m \in T : \A n \in T : m <= n
  <2>1. T \in SUBSET Nat /\ T # {}
    BY <1>1
  <2> HIDE DEF T
  <2> QED BY <2>1, LeastNat
<1>3. PICK k \in S : AgeCap - a(k) = m
  OBVIOUS
<1>4. \A j \in S : a(k) >= a(j)
  BY <1>1, <1>2, <1>3
<1> DEFINE U == {i \in S : a(i) = a(k)}
<1>5. PICK i \in U : \A n \in U : i <= n
  <2>1. U \in SUBSET Nat /\ U # {}
    BY <1>1, <1>3
  <2> HIDE DEF U
  <2> QED BY <2>1, LeastNat
<1>6. i \in S /\ \A j \in S : a(i) > a(j) \/ (a(i) = a(j) /\ i <= j)
  BY <1>1, <1>4, <1>5
<1> DEFINE o == Oldest(q, age, S)
<1>7. o \in S /\ \A j \in S : a(o) > a(j) \/ (a(o) = a(j) /\ o <= j)
  BY <1>6 DEF Oldest, a
<1>8. IsOldest(q, age, S, o)
  <2> HIDE DEF o
  <2> QED BY <1>7 DEF IsOldest, a
<1>9. ASSUME NEW x, IsOldest(q, age, S, x) PROVE x = o
  <2>1. x \in S /\ \A j \in S : a(x) > a(j) \/ (a(x) = a(j) /\ x <= j)
    BY <1>9 DEF IsOldest, a
  <2> HIDE DEF o
  <2> QED BY <1>1, <1>7, <2>1
<1> QED BY <1>8, <1>9

\* Nobody of the queue can be served.
Blocked(q, age, room) ==
  IF Reserved(q) = {} THEN Fitting(q, room) = {}
  ELSE \E i \in Reserved(q) : IsOldest(q, age, Reserved(q), i) /\ CostOf[HeadAt(q, i)] > room

\* The place that is served next has a head that fits; while a head reserves the room it
\* is the oldest of those.
LEMMA NextPlaceIs ==
  ASSUME NEW q, QueueOK(q), NEW age \in Ages, NEW room \in Int
  PROVE  /\ NextPlace(q, age, room) = Nowhere <=> Blocked(q, age, room)
         /\ NextPlace(q, age, room) # Nowhere =>
              /\ NextPlace(q, age, room) \in Places(q)
              /\ CostOf[HeadAt(q, NextPlace(q, age, room))] <= room
              /\ Reserved(q) # {} => IsOldest(q, age, Reserved(q), NextPlace(q, age, room))
<1> DEFINE n == NextPlace(q, age, room)
           fitting == Fitting(q, room)
           o == Oldest(q, age, Reserved(q))
<1>1. fitting \subseteq Places(q) /\ Reserved(q) \subseteq Places(q) /\ Nowhere \notin Places(q)
  BY DEF Fitting, Reserved, Nowhere, Places
<1>2. Places(q) \subseteq Nat
  BY DEF Places
<1>3. \A i \in Places(q) : CostOf[HeadAt(q, i)] \in Int /\ (i \in fitting <=> CostOf[HeadAt(q, i)] <= room)
  <2> SUFFICES ASSUME NEW i \in Places(q)
               PROVE  CostOf[HeadAt(q, i)] \in Int /\ (i \in fitting <=> CostOf[HeadAt(q, i)] <= room)
    OBVIOUS
  <2>1. HeadAt(q, i) \in Requests
    BY PlaceOf
  <2>2. CostOf[HeadAt(q, i)] \in Nat
    BY <2>1, QueueAssumption
  <2> QED BY <2>2 DEF Fitting
<1>4. n = CASE Reserved(q) = {} /\ fitting # {} -> Min(fitting)
            [] Reserved(q) # {} /\ o \in fitting -> o
            [] OTHER -> Nowhere
  BY DEF NextPlace
<1>5. fitting # {} => Min(fitting) \in fitting
  <2> HIDE DEF fitting
  <2> SUFFICES ASSUME fitting # {} PROVE Min(fitting) \in fitting
    OBVIOUS
  <2>1. \E m \in fitting : \A x \in fitting : m <= x
    BY <1>1, <1>2, LeastNat
  <2> QED BY <2>1 DEF Min
<1>6. Reserved(q) # {} => /\ IsOldest(q, age, Reserved(q), o)
                         /\ \A i : IsOldest(q, age, Reserved(q), i) => i = o
  BY <1>1, OldestIs
<1>7. CASE Reserved(q) = {}
  <2> HIDE DEF fitting, o, n
  <2>1. fitting # {} => n = Min(fitting)
    BY <1>4, <1>7
  <2>2. fitting = {} => n = Nowhere
    BY <1>4, <1>7
  <2> QED BY <1>1, <1>3, <1>5, <1>7, <2>1, <2>2 DEF Blocked, fitting, n
<1>8. CASE Reserved(q) # {}
  <2>1. o \in Reserved(q) /\ o \in Places(q)
    BY <1>1, <1>6, <1>8 DEF IsOldest
  <2> HIDE DEF fitting, o, n
  <2>2. o \in fitting => n = o
    BY <1>4, <1>8
  <2>3. o \notin fitting => n = Nowhere
    BY <1>4, <1>8
  <2>4. Blocked(q, age, room) <=> CostOf[HeadAt(q, o)] > room
    BY <1>6, <1>8, <2>1 DEF Blocked
  <2> QED BY <1>1, <1>3, <1>6, <1>8, <2>1, <2>2, <2>3, <2>4 DEF n
<1> QED BY <1>7, <1>8

-----------------------------------------------------------------------------
(* The cost of a set of requests.                                           *)

Picked(S) == CHOOSE r \in S : TRUE
CostStep(f, S) == IF S = {} THEN 0 ELSE CostOf[Picked(S)] + f[S \ {Picked(S)}]

\* f is the recursion of TotalCost on the sets D.
CostRun(f, D) == f = [S \in D |-> CostStep(f, S)]

\* Subsets of Requests are finite, and one smaller without the element picked.
LEMMA RequestSets ==
  ASSUME NEW S \in SUBSET Requests
  PROVE  /\ IsFiniteSet(S) /\ Cardinality(S) \in Nat /\ Cardinality(S) <= Cardinality(Requests)
         /\ Cardinality(S) = 0 <=> S = {}
         /\ \A x \in S : Cardinality(S \ {x}) = Cardinality(S) - 1
         /\ S # {} => Picked(S) \in S
<1>1. IsFiniteSet(S) /\ Cardinality(S) <= Cardinality(Requests)
  BY QueueAssumption, FS_Subset
<1>2. Cardinality(S) \in Nat
  BY <1>1, FS_CardinalityType
<1>3. Cardinality(S) = 0 <=> S = {}
  BY <1>1, FS_EmptySet
<1>4. ASSUME NEW x \in S PROVE Cardinality(S \ {x}) = Cardinality(S) - 1
  <2>1. Cardinality(S \ {x}) = IF x \in S THEN Cardinality(S) - 1 ELSE Cardinality(S)
    BY <1>1, FS_RemoveElement, Zenon
  <2> QED BY <2>1
<1>5. S # {} => Picked(S) \in S
  BY DEF Picked
<1> QED BY <1>1, <1>2, <1>3, <1>4, <1>5

\* The recursion of TotalCost has a solution.
LEMMA TotalCostUnfolds == CostRun(TotalCost, SUBSET Requests)
<1> DEFINE D(n) == {S \in SUBSET Requests : Cardinality(S) <= n}
           T == {n \in Nat : \E f : CostRun(f, D(n))}
<1>1. 0 \in T
  <2> DEFINE f == [S \in D(0) |-> 0]
  <2>1. \A S \in D(0) : S = {}
    BY RequestSets
  <2>2. CostRun(f, D(0))
    BY <2>1 DEF CostRun, CostStep
  <2> QED BY <2>2
<1>2. ASSUME NEW n \in Nat, n \in T PROVE n + 1 \in T
  <2>1. PICK f : CostRun(f, D(n))
    BY <1>2
  <2> DEFINE g == [S \in D(n + 1) |-> IF S \in D(n) THEN f[S] ELSE CostStep(f, S)]
  <2>2. ASSUME NEW S \in D(n + 1) PROVE g[S] = CostStep(g, S)
    <3>1. S # {} => S \ {Picked(S)} \in D(n)
      BY RequestSets
    <3>2. D(n) \subseteq D(n + 1)
      <4> SUFFICES ASSUME NEW X \in SUBSET Requests, Cardinality(X) <= n PROVE Cardinality(X) <= n + 1
        OBVIOUS
      <4> QED BY RequestSets
    <3>3. S # {} => g[S \ {Picked(S)}] = f[S \ {Picked(S)}]
      BY <3>1, <3>2
    <3>4. CostStep(g, S) = CostStep(f, S)
      <4> HIDE DEF g, D
      <4> QED BY <3>3 DEF CostStep
    <3>5. S \in D(n) => f[S] = CostStep(f, S)
      BY <2>1 DEF CostRun
    <3>6. g[S] = IF S \in D(n) THEN f[S] ELSE CostStep(f, S)
      OBVIOUS
    <3> HIDE DEF g, D
    <3> QED BY <3>4, <3>5, <3>6
  <2>3. g = [S \in D(n + 1) |-> g[S]]
    OBVIOUS
  <2>4. CostRun(g, D(n + 1))
    <3> HIDE DEF g, D
    <3> QED BY <2>2, <2>3 DEF CostRun
  <2> HIDE DEF g, D
  <2> QED BY <2>4
<1>3. Nat \subseteq T
  <2> HIDE DEF T
  <2> QED BY <1>1, <1>2, NatSetInduction
<1>4. Cardinality(Requests) \in Nat /\ D(Cardinality(Requests)) = SUBSET Requests
  BY RequestSets
<1>5. \E f : CostRun(f, SUBSET Requests)
  BY <1>3, <1>4
<1>6. TotalCost = CHOOSE f : CostRun(f, SUBSET Requests)
  BY DEF TotalCost, CostRun, CostStep, Picked
<1> QED BY <1>5, <1>6

\* The cost of a set grows by the cost of each request added.
LEMMA TotalCostAdds ==
  /\ TotalCost[{}] = 0
  /\ \A S \in SUBSET Requests :
       /\ TotalCost[S] \in Nat
       /\ \A r \in Requests \ S : TotalCost[S \union {r}] = TotalCost[S] + CostOf[r]
<1>1. \A S \in SUBSET Requests : TotalCost[S] = CostStep(TotalCost, S)
  BY TotalCostUnfolds DEF CostRun
<1>2. TotalCost[{}] = 0
  BY <1>1 DEF CostStep
<1>3. ASSUME NEW S \in SUBSET Requests, S # {}
      PROVE  /\ Picked(S) \in S /\ TotalCost[S] = CostOf[Picked(S)] + TotalCost[S \ {Picked(S)}]
             /\ CostOf[Picked(S)] \in Nat
  BY <1>1, <1>3, RequestSets, QueueAssumption DEF CostStep
<1> DEFINE Adds(S) == /\ TotalCost[S] \in Nat
                      /\ \A r \in Requests \ S : TotalCost[S \union {r}] = TotalCost[S] + CostOf[r]
           T == {n \in Nat : \A S \in SUBSET Requests : Cardinality(S) = n => Adds(S)}
<1>4. ASSUME NEW n \in Nat, \A S \in SUBSET Requests : Cardinality(S) = n - 1 => Adds(S),
             NEW S \in SUBSET Requests, Cardinality(S) = n
      PROVE  Adds(S)
  <2>1. ASSUME NEW x \in S PROVE Adds(S \ {x})
    BY <1>4, RequestSets
  <2>2. TotalCost[S] \in Nat
    <3>1. CASE S = {}
      BY <1>2, <3>1
    <3>2. CASE S # {}
      <4>1. /\ Picked(S) \in S /\ TotalCost[S] = CostOf[Picked(S)] + TotalCost[S \ {Picked(S)}]
            /\ CostOf[Picked(S)] \in Nat
        BY <1>3, <3>2
      <4>2. TotalCost[S \ {Picked(S)}] \in Nat
        BY <2>1, <4>1
      <4> QED BY <4>1, <4>2
    <3> QED BY <3>1, <3>2
  <2>3. ASSUME NEW r \in Requests \ S PROVE TotalCost[S \union {r}] = TotalCost[S] + CostOf[r]
    <3> DEFINE U == S \union {r}
               x == Picked(U)
    <3>1. U \in SUBSET Requests /\ U # {} /\ CostOf[r] \in Nat
      BY QueueAssumption
    <3>2. x \in U /\ TotalCost[U] = CostOf[x] + TotalCost[U \ {x}] /\ CostOf[x] \in Nat
      <4> HIDE DEF U
      <4> QED BY <1>3, <3>1
    <3>3. CASE x = r
      <4>1. U \ {x} = S
        BY <3>3
      <4>2. TotalCost[U] = CostOf[r] + TotalCost[S]
        <5> HIDE DEF U, x
        <5> QED BY <3>2, <3>3, <4>1
      <4> QED BY <2>2, <3>1, <4>2
    <3>4. CASE x # r
      <4>1. x \in S
        BY <3>2, <3>4
      <4>2. Adds(S \ {x})
        BY <2>1, <4>1
      <4> HIDE DEF x
      <4>3. U \ {x} = (S \ {x}) \union {r} /\ r \in Requests \ (S \ {x})
        BY <3>4
      <4>4. S = (S \ {x}) \union {x} /\ x \in Requests \ (S \ {x})
        BY <4>1
      <4>5. TotalCost[U \ {x}] = TotalCost[S \ {x}] + CostOf[r]
        BY <4>2, <4>3
      <4>6. TotalCost[S] = TotalCost[S \ {x}] + CostOf[x]
        BY <4>2, <4>4
      <4> QED BY <3>1, <3>2, <4>2, <4>5, <4>6
    <3> QED BY <3>3, <3>4
  <2> QED BY <2>2, <2>3
<1>5. 0 \in T
  <2>1. \A S \in SUBSET Requests : Cardinality(S) # 0 - 1
    BY RequestSets
  <2> HIDE DEF Adds
  <2> QED BY <1>4, <2>1
<1>6. ASSUME NEW n \in Nat, n \in T PROVE n + 1 \in T
  <2> HIDE DEF Adds
  <2>1. \A S \in SUBSET Requests : Cardinality(S) = (n + 1) - 1 => Adds(S)
    BY <1>6
  <2> QED BY <1>4, <2>1
<1>7. Nat \subseteq T
  <2> HIDE DEF T
  <2> QED BY <1>5, <1>6, NatSetInduction
<1>8. \A S \in SUBSET Requests : Adds(S)
  <2> HIDE DEF Adds
  <2> QED BY <1>7, RequestSets
<1> QED BY <1>2, <1>8

-----------------------------------------------------------------------------
(* The invariant of the controller, and what dispatching does to it.        *)

\* The invariant while the lanes have their turns: an empty lane may still be listed.
Loose(c) ==
  /\ c \in Controllers /\ QueueOK(c.queue)
  /\ NoRepeat(c.lanes)
  /\ {t \in Tenants : c.lane[t] # <<>>} \subseteq Range(c.lanes)
  /\ \A t \in Tenants : \A r \in Range(c.lane[t]) : TenantOf[r] = t
  /\ Entries(c.queue) \intersect InLanes(c) = {}
  /\ c.active \intersect Waiting(c) = {}

\* Between operations every listed lane has entries.
Sound(c) == Loose(c) /\ Range(c.lanes) \subseteq {t \in Tenants : c.lane[t] # <<>>}

\* A dispatch would serve nobody of the queue.
Stuck(c) == Blocked(c.queue, c.age, Room(c))

\* Whoever is active or waits.
Present(c) == c.active \union Waiting(c)

\* From c to d nobody was served past the reserved head s: the skips and ages of those
\* who wait stayed, and whoever became active had reserved the room too and is as old.
Undisturbed(c, d, s) ==
  /\ \A x \in Entries(d.queue) : d.queue.skips[x] = c.queue.skips[x] /\ d.age[x] = c.age[x]
  /\ \A x \in d.active \ c.active : c.queue.skips[x] >= 2 /\ c.age[x] >= c.age[s]

\* d comes of c by serving: nobody new, within the limit, past no reserved head.
Follows(c, d) ==
  /\ Present(d) \subseteq Present(c)
  /\ Entries(d.queue) \subseteq Entries(c.queue)
  /\ c.active \subseteq d.active
  /\ d.active # c.active => TotalCost[d.active] <= d.limit
  /\ \A s \in Entries(d.queue) : c.queue.skips[s] >= 2 => Undisturbed(c, d, s)

\* The same, under an unchanged limit.
Later(c, d) == d.limit = c.limit /\ Follows(c, d)

\* The types a sound controller's parts have.
LEMMA Parts ==
  ASSUME NEW c, Loose(c)
  PROVE  /\ c.queue \in Queues /\ c.lanes \in Seq(Tenants) /\ c.lane \in [Tenants -> Seq(Requests)]
         /\ c.age \in Ages /\ c.active \in SUBSET Requests /\ c.limit \in MinLimit..MaxLimit
         /\ c.limit \in Nat /\ TotalCost[c.active] \in Nat /\ Room(c) \in Int
         /\ Entries(c.queue) \subseteq Requests /\ InLanes(c) \subseteq Requests
         /\ Waiting(c) \subseteq Requests /\ Present(c) \subseteq Requests
<1>1. /\ c.queue \in Queues /\ c.lanes \in Seq(Tenants) /\ c.lane \in [Tenants -> Seq(Requests)]
      /\ c.age \in Ages /\ c.active \in SUBSET Requests /\ c.limit \in MinLimit..MaxLimit
  BY DEF Loose, Controllers, Ages
<1>2. c.limit \in Nat /\ TotalCost[c.active] \in Nat
  BY <1>1, TotalCostAdds, AdmissionAssumption
<1>3. Entries(c.queue) \subseteq Requests
  BY EntryInBucket DEF Loose
<1>4. InLanes(c) \subseteq Requests
  <2>1. ASSUME NEW t \in Tenants PROVE Range(c.lane[t]) \subseteq Requests
    <3>1. c.lane[t] \in Seq(Requests)
      BY <1>1
    <3> QED BY <3>1, LenProperties DEF Range
  <2> QED BY <2>1 DEF InLanes
<1> QED BY <1>1, <1>2, <1>3, <1>4 DEF Room, Waiting, Present

\* Serving nobody is serving.
LEMMA LaterItself == ASSUME NEW c PROVE Later(c, c)
BY DEF Later, Follows, Undisturbed

\* Serving goes on.
LEMMA FollowsOn ==
  ASSUME NEW c, NEW d, NEW e, Loose(d), Loose(e), Follows(c, d), Later(d, e)
  PROVE  Follows(c, e)
<1>1. e.active # c.active => TotalCost[e.active] <= e.limit
  <2>1. CASE e.active # d.active
    BY <2>1 DEF Later, Follows
  <2>2. CASE e.active = d.active
    BY <2>2 DEF Later, Follows
  <2> QED BY <2>1, <2>2
<1>2. ASSUME NEW s \in Entries(e.queue), c.queue.skips[s] >= 2 PROVE Undisturbed(c, e, s)
  <2>1. s \in Entries(d.queue) /\ Entries(e.queue) \subseteq Entries(d.queue)
    BY DEF Later, Follows
  <2>2. Undisturbed(c, d, s)
    BY <1>2, <2>1 DEF Later, Follows
  <2>3. Undisturbed(d, e, s)
    BY <1>2, <2>1, <2>2 DEF Later, Follows, Undisturbed
  <2>4. ASSUME NEW x \in e.active \ c.active PROVE c.queue.skips[x] >= 2 /\ c.age[x] >= c.age[s]
    <3>1. CASE x \in d.active
      BY <2>2, <2>4, <3>1 DEF Undisturbed
    <3>2. CASE x \notin d.active
      <4>1. d.queue.skips[x] >= 2 /\ d.age[x] >= d.age[s]
        BY <2>3, <2>4, <3>2 DEF Undisturbed
      <4>2. x \in Requests /\ QueueOK(d.queue) /\ d.queue.skips[x] \in Nat
        <5>1. e.active \in SUBSET Requests /\ d.queue \in Queues
          BY Parts
        <5>2. d.queue.skips \in [Requests -> 0..2]
          BY <5>1 DEF Queues, MaxUnfittableSkips
        <5>3. x \in Requests
          BY <2>4, <5>1
        <5> QED BY <5>2, <5>3 DEF Loose
      <4>3. x \in Entries(d.queue)
        BY <4>1, <4>2, EntryInBucket
      <4> QED BY <2>1, <2>2, <4>1, <4>3 DEF Undisturbed
    <3> QED BY <3>1, <3>2
  <2> QED BY <2>1, <2>2, <2>3, <2>4 DEF Undisturbed
<1> QED BY <1>1, <1>2 DEF Later, Follows

\* Serving under one limit goes on.
LEMMA LaterOn ==
  ASSUME NEW c, NEW d, NEW e, Loose(d), Loose(e), Later(c, d), Later(d, e)
  PROVE  Later(c, e)
BY FollowsOn DEF Later

\* What a round of the queue makes of the controller.
LEMMA ServeShape ==
  ASSUME NEW c \in Controllers, NEW q \in Queues, NEW r \in Requests
  PROVE  LET d == Serve([c EXCEPT !.queue = q], r) IN
         /\ d \in Controllers
         /\ d.queue = q /\ d.age = [c.age EXCEPT ![r] = 0]
         /\ d.active = IF Overdue(c, r) THEN c.active ELSE c.active \union {r}
         /\ d.lane = c.lane /\ d.lanes = c.lanes /\ d.limit = c.limit
<1>1. 0 \in 0..AgeCap
  BY ConstantBounds
<1> QED BY <1>1 DEF Controllers, Serve, Admit, Overdue

\* Admitting what fits stays within the limit.
LEMMA AdmittedFits ==
  ASSUME NEW c, Loose(c), NEW r \in Requests \ c.active, CostOf[r] <= Room(c)
  PROVE  TotalCost[c.active \union {r}] <= c.limit
<1>1. /\ TotalCost[c.active] \in Nat /\ c.limit \in Nat /\ CostOf[r] \in Nat
      /\ c.active \in SUBSET Requests
  BY Parts, QueueAssumption
<1>2. TotalCost[c.active \union {r}] = TotalCost[c.active] + CostOf[r]
  BY <1>1, TotalCostAdds
<1> QED BY <1>1, <1>2 DEF Room

\* A round serves one entry, or nobody could be served.
LEMMA ServeNextKeeps ==
  ASSUME NEW c, Sound(c)
  PROVE  /\ Sound(ServeNext(c)) /\ Later(c, ServeNext(c))
         /\ Stuck(c) => ServeNext(c) = c
         /\ ~Stuck(c) => \E h \in Entries(c.queue) : Entries(ServeNext(c).queue) = Entries(c.queue) \ {h}
<1> DEFINE place == NextPlace(c.queue, c.age, Room(c))
           h == HeadAt(c.queue, place)
           d == ServeNext(c)
<1>1. Loose(c) /\ QueueOK(c.queue) /\ c \in Controllers
  BY DEF Sound, Loose
<1>2. /\ c.queue \in Queues /\ c.age \in Ages /\ Room(c) \in Int /\ c.active \in SUBSET Requests
      /\ Entries(c.queue) \subseteq Requests
  BY <1>1, Parts
<1>3. /\ place = Nowhere <=> Stuck(c)
      /\ place # Nowhere =>
           /\ place \in Places(c.queue) /\ CostOf[h] <= Room(c)
           /\ Reserved(c.queue) # {} => IsOldest(c.queue, c.age, Reserved(c.queue), place)
  BY <1>1, <1>2, NextPlaceIs DEF Stuck
<1>4. CASE place = Nowhere
  <2>1. d = c
    BY <1>4 DEF ServeNext
  <2> QED BY <1>3, <1>4, <2>1, LaterItself
<1>5. CASE place # Nowhere
  <2>1. place \in Places(c.queue) /\ CostOf[h] <= Room(c)
    BY <1>3, <1>5
  <2>2. h \in Requests /\ h \in Entries(c.queue)
    BY <1>1, <2>1, PlaceOf
  <2> DEFINE q == Take(c.queue, place)
  <2>3. /\ QueueOK(q) /\ Entries(q) = Entries(c.queue) \ {h}
        /\ Reserved(c.queue) # {} => \A r \in Requests \ {h} : q.skips[r] = c.queue.skips[r]
    BY <1>1, <2>1, TakeKeeps
  <2>4. d = Serve([c EXCEPT !.queue = q], h)
    BY <1>1, <1>5 DEF ServeNext, Controllers
  <2> HIDE DEF d, q, h
  <2>5. /\ d \in Controllers
        /\ d.queue = q /\ d.age = [c.age EXCEPT ![h] = 0]
        /\ d.active = IF Overdue(c, h) THEN c.active ELSE c.active \union {h}
        /\ d.lane = c.lane /\ d.lanes = c.lanes /\ d.limit = c.limit
    <3>1. q \in Queues
      BY <2>3 DEF QueueOK
    <3> QED BY <1>1, <2>2, <2>4, <3>1, ServeShape
  <2>6. h \notin c.active /\ h \notin InLanes(c) /\ InLanes(d) = InLanes(c)
    BY <1>1, <2>2, <2>5 DEF Loose, Waiting, InLanes
  <2>7. Sound(d)
    BY <1>1, <2>3, <2>5, <2>6 DEF Sound, Loose, Waiting
  <2>8. d.active # c.active => TotalCost[d.active] <= d.limit
    BY <1>1, <2>1, <2>2, <2>5, <2>6, AdmittedFits
  <2>9. ASSUME NEW s \in Entries(d.queue), c.queue.skips[s] >= 2 PROVE Undisturbed(c, d, s)
    <3>1. s \in Entries(c.queue) /\ s # h /\ s \in Requests
      BY <1>2, <2>3, <2>5, <2>9
    <3>2. PICK i \in Places(c.queue) : HeadAt(c.queue, i) = s
      <4>1. c.queue.skips[s] > 0
        BY <1>2, <2>9, <3>1 DEF Queues, MaxUnfittableSkips
      <4> QED BY <1>1, <3>1, <4>1, HeadHasPlace
    <3>3. i \in Reserved(c.queue)
      BY <2>9, <3>2 DEF Reserved, MaxUnfittableSkips
    <3>4. IsOldest(c.queue, c.age, Reserved(c.queue), place)
      BY <1>3, <1>5, <3>3
    <3>5. c.queue.skips[h] >= 2 /\ c.age[h] >= c.age[s]
      <4>1. c.age[h] \in Nat /\ c.age[s] \in Nat
        BY <1>2, <2>2, <3>1, ConstantBounds DEF Ages
      <4> QED BY <3>2, <3>3, <3>4, <4>1 DEF IsOldest, Reserved, MaxUnfittableSkips, h
    <3>6. ASSUME NEW x \in Entries(d.queue)
          PROVE  d.queue.skips[x] = c.queue.skips[x] /\ d.age[x] = c.age[x]
      <4>1. x \in Requests \ {h}
        BY <1>2, <2>3, <2>5
      <4> QED BY <1>2, <2>3, <2>5, <3>3, <4>1 DEF Ages
    <3> QED BY <2>5, <3>5, <3>6 DEF Undisturbed
  <2>10. Later(c, d)
    BY <2>2, <2>3, <2>5, <2>6, <2>8, <2>9 DEF Later, Follows, Present, Waiting
  <2> QED BY <1>3, <1>5, <2>2, <2>3, <2>5, <2>7, <2>10 DEF d, h
<1> QED BY <1>4, <1>5

\* What remains of a controller but its lanes.
SameButLanes(c, d) ==
  /\ d.queue = c.queue /\ d.age = c.age /\ d.active = c.active /\ d.limit = c.limit
  /\ d.lane = c.lane /\ d.pressure = c.pressure

\* Removing the empty lanes makes a loose controller sound.
LEMMA PrunedKeeps ==
  ASSUME NEW c, Loose(c)
  PROVE  Sound(Pruned(c)) /\ SameButLanes(c, Pruned(c))
<1> DEFINE d == Pruned(c)
           busy == {t \in Tenants : c.lane[t] # <<>>}
           kept == Kept(c.lanes, busy)
<1>1. c.lanes \in Seq(Tenants) /\ NoRepeat(c.lanes) /\ busy \subseteq Range(c.lanes) /\ c \in Controllers
  BY DEF Loose, Controllers
<1>2. kept \in Seq(Tenants) /\ NoRepeat(kept) /\ Range(kept) = busy
  <2>1. Range(kept) = Range(c.lanes) \intersect busy
    BY <1>1, KeptRange
  <2> QED BY <1>1, <2>1, KeptType, KeptNoRepeat
<1>3. d \in Controllers /\ d.lanes = kept /\ SameButLanes(c, d)
  <2>1. d = [c EXCEPT !.lanes = kept]
    BY DEF Pruned
  <2> HIDE DEF d, kept
  <2> QED BY <1>1, <1>2, <2>1 DEF Controllers, SameButLanes
<1>4. InLanes(d) = InLanes(c)
  BY <1>3 DEF InLanes, SameButLanes
<1> HIDE DEF d, kept
<1> QED BY <1>2, <1>3, <1>4 DEF Sound, Loose, SameButLanes, Waiting, d

\* What a lane's turn makes of the controller.
LEMMA ServeLaneShape ==
  ASSUME NEW c, Loose(c), NEW t \in Tenants
  PROVE  \E gone \in SUBSET Range(c.lane[t]), admitted \in SUBSET Range(c.lane[t]) :
           /\ ServeLane(c, t) \in Controllers
           /\ ServeLane(c, t).queue = c.queue
           /\ ServeLane(c, t).lanes = c.lanes
           /\ ServeLane(c, t).limit = c.limit
           /\ ServeLane(c, t).active = c.active \union admitted
           /\ ServeLane(c, t).lane = [c.lane EXCEPT ![t] = Kept(c.lane[t], Requests \ gone)]
           /\ admitted \subseteq gone
           /\ \/ admitted = {}
              \/ \E a \in admitted : admitted = {a} /\ CostOf[a] <= Room(c)
<1> DEFINE entry == c.lane[t]
           fits == {i \in DOMAIN entry : CostOf[entry[i]] <= Room(c)}
           late == {i \in DOMAIN entry : Overdue(c, entry[i])}
           U == {i \in 1..Len(entry) + 1 : i \notin fits \intersect late}
           stop == Min(U)
           dropped == {entry[i] : i \in 1..stop - 1}
           admitted == {entry[i] : i \in {stop} \intersect fits}
           gone == dropped \union admitted
<1>1. entry \in Seq(Requests) /\ Len(entry) \in Nat /\ DOMAIN entry = 1..Len(entry) /\ c \in Controllers
  BY Parts, LenProperties DEF Loose
<1>2. stop \in 1..Len(entry) + 1
  <2>1. U \in SUBSET Nat /\ U # {} /\ U \subseteq 1..Len(entry) + 1
    <3>1. Len(entry) + 1 \in U
      BY <1>1
    <3> QED BY <1>1, <3>1
  <2> HIDE DEF U
  <2>2. \E m \in U : \A n \in U : m <= n
    BY <2>1, LeastNat
  <2>3. Min(U) \in U
    BY <2>2 DEF Min
  <2> QED BY <2>1, <2>3
<1>3. dropped \subseteq Range(entry)
  <2> HIDE DEF stop, entry
  <2>1. 1..stop - 1 \subseteq DOMAIN entry
    BY <1>1, <1>2
  <2> QED BY <2>1 DEF Range
<1>4. /\ admitted \subseteq Range(entry)
      /\ admitted = {} \/ \E a \in admitted : admitted = {a} /\ CostOf[a] <= Room(c)
  <2> HIDE DEF stop, entry
  <2>1. CASE stop \in fits
    <3>1. admitted = {entry[stop]} /\ CostOf[entry[stop]] <= Room(c) /\ stop \in DOMAIN entry
      BY <2>1
    <3> HIDE DEF admitted
    <3> QED BY <3>1 DEF Range
  <2>2. CASE stop \notin fits
    BY <2>2
  <2> QED BY <2>1, <2>2
<1>5. /\ ServeLane(c, t) =
           [c EXCEPT !.lane[t] = Kept(@, Requests \ gone),
                     !.age = [r \in Requests |-> IF r \in gone THEN 0 ELSE @[r]],
                     !.active = @ \union admitted,
                     !.busy = @ \/ admitted # {}]
  BY DEF ServeLane
<1> HIDE DEF gone, admitted
<1>6. gone \subseteq Range(entry) /\ admitted \subseteq gone
  BY <1>3, <1>4 DEF gone
<1> DEFINE age == [r \in Requests |-> IF r \in gone THEN 0 ELSE c.age[r]]
           lane == [c.lane EXCEPT ![t] = Kept(c.lane[t], Requests \ gone)]
           b == c.busy \/ admitted # {}
<1>7. ServeLane(c, t) = [c EXCEPT !.lane = lane, !.age = age,
                                  !.active = c.active \union admitted, !.busy = b]
  BY <1>1, <1>5 DEF Controllers
<1>8. age \in [Requests -> 0..AgeCap] /\ lane \in [Tenants -> Seq(Requests)] /\ b \in BOOLEAN
      /\ admitted \in SUBSET Requests
  <2>1. age \in [Requests -> 0..AgeCap]
    BY Parts, ConstantBounds DEF Ages
  <2>2. lane \in [Tenants -> Seq(Requests)]
    <3>1. Kept(c.lane[t], Requests \ gone) \in Seq(Requests)
      BY <1>1, KeptType
    <3> QED BY <3>1, Parts
  <2>3. admitted \in SUBSET Requests
    BY <1>1, <1>4 DEF Range
  <2> QED BY <2>1, <2>2, <2>3
<1> HIDE DEF age, lane, b, entry
<1>9. /\ ServeLane(c, t) \in Controllers /\ ServeLane(c, t).queue = c.queue
      /\ ServeLane(c, t).lanes = c.lanes /\ ServeLane(c, t).limit = c.limit
      /\ ServeLane(c, t).active = c.active \union admitted /\ ServeLane(c, t).lane = lane
  BY <1>1, <1>7, <1>8 DEF Controllers
<1> QED BY <1>4, <1>6, <1>9 DEF entry, lane

\* A lane's turn admits within the limit.
LEMMA ServeLaneKeeps ==
  ASSUME NEW c, Loose(c), NEW t \in Tenants, Entries(c.queue) = {}
  PROVE  /\ Loose(ServeLane(c, t)) /\ Later(c, ServeLane(c, t))
         /\ ServeLane(c, t).queue = c.queue /\ ServeLane(c, t).lanes = c.lanes
<1> DEFINE d == ServeLane(c, t)
<1>1. PICK gone \in SUBSET Range(c.lane[t]), admitted \in SUBSET Range(c.lane[t]) :
        /\ d \in Controllers /\ d.queue = c.queue /\ d.lanes = c.lanes /\ d.limit = c.limit
        /\ d.active = c.active \union admitted
        /\ d.lane = [c.lane EXCEPT ![t] = Kept(c.lane[t], Requests \ gone)]
        /\ admitted \subseteq gone
        /\ admitted = {} \/ \E a \in admitted : admitted = {a} /\ CostOf[a] <= Room(c)
  BY ServeLaneShape
<1> HIDE DEF d
<1>2. /\ c.lane \in [Tenants -> Seq(Requests)] /\ Waiting(c) \subseteq Requests
      /\ \A u \in Tenants : \A r \in Range(c.lane[u]) : TenantOf[r] = u
      /\ c.active \intersect Waiting(c) = {} /\ c.active \in SUBSET Requests
  BY Parts DEF Loose
<1>3. /\ Range(d.lane[t]) = Range(c.lane[t]) \ gone
      /\ \A u \in Tenants \ {t} : d.lane[u] = c.lane[u]
      /\ c.lane[t] = <<>> => d.lane[t] = <<>>
  <2>1. d.lane[t] = Kept(c.lane[t], Requests \ gone) /\ c.lane[t] \in Seq(Requests)
    BY <1>1, <1>2
  <2>2. Range(d.lane[t]) = Range(c.lane[t]) \intersect (Requests \ gone)
    BY <2>1, KeptRange
  <2>3. Range(c.lane[t]) \subseteq Requests
    BY <2>1, LenProperties DEF Range
  <2>4. \A u \in Tenants \ {t} : d.lane[u] = c.lane[u]
    BY <1>1, <1>2
  <2>5. c.lane[t] = <<>> => d.lane[t] = <<>>
    BY <2>1, KeptOfEmpty
  <2> QED BY <2>2, <2>3, <2>4, <2>5
<1>4. \A u \in Tenants : Range(d.lane[u]) = Range(c.lane[u]) \ gone
  <2> SUFFICES ASSUME NEW u \in Tenants PROVE Range(d.lane[u]) = Range(c.lane[u]) \ gone
    OBVIOUS
  <2>1. CASE u = t
    BY <1>3, <2>1
  <2>2. CASE u # t
    <3>1. \A r \in Range(c.lane[u]) : TenantOf[r] # t
      BY <1>2, <2>2
    <3>2. \A r \in gone : TenantOf[r] = t
      BY <1>2
    <3>3. gone \intersect Range(c.lane[u]) = {}
      BY <3>1, <3>2
    <3> QED BY <1>3, <2>2, <3>3
  <2> QED BY <2>1, <2>2
<1>5. InLanes(d) = InLanes(c) \ gone
  <2>1. ASSUME NEW x PROVE x \in InLanes(d) <=> x \in InLanes(c) \ gone
    <3>1. x \in InLanes(d) <=> \E u \in Tenants : x \in Range(d.lane[u])
      BY DEF InLanes
    <3>2. x \in InLanes(c) <=> \E u \in Tenants : x \in Range(c.lane[u])
      BY DEF InLanes
    <3> QED BY <1>4, <3>1, <3>2
  <2> QED BY <2>1
<1>6. admitted \subseteq InLanes(c)
  BY DEF InLanes
<1>7. Loose(d)
  <2>1. {u \in Tenants : d.lane[u] # <<>>} \subseteq Range(d.lanes)
    BY <1>1, <1>3 DEF Loose
  <2>2. d.active \intersect Waiting(d) = {}
    BY <1>1, <1>2, <1>5 DEF Waiting
  <2>3. \A u \in Tenants : \A r \in Range(d.lane[u]) : TenantOf[r] = u
    BY <1>2, <1>4
  <2> QED BY <1>1, <1>5, <2>1, <2>2, <2>3 DEF Loose
<1>8. d.active # c.active => TotalCost[d.active] <= d.limit
  <2> SUFFICES ASSUME d.active # c.active PROVE TotalCost[d.active] <= d.limit
    OBVIOUS
  <2>1. PICK a \in admitted : admitted = {a} /\ CostOf[a] <= Room(c)
    BY <1>1
  <2>2. a \in Requests \ c.active
    BY <1>2, <1>6 DEF Waiting
  <2> QED BY <1>1, <2>1, <2>2, AdmittedFits
<1>9. Later(c, d)
  BY <1>1, <1>5, <1>6, <1>8 DEF Later, Follows, Present, Waiting
<1> QED BY <1>1, <1>7, <1>9 DEF d

\* What turn i of dispatchLanes leaves, f being the turns before it; and the turns up to n.
Turn(f, c, i) == IF i = 0 THEN c ELSE ServeLane(f[i - 1], c.lanes[i])
Turns(f, c, n) == f = [i \in 0..n |-> Turn(f, c, i)]

\* The recursion of dispatchLanes has a solution.
LEMMA TurnsExist ==
  ASSUME NEW c, NEW m \in Nat
  PROVE  \E f : Turns(f, c, m)
<1> DEFINE T == {n \in Nat : \E f : Turns(f, c, n)}
<1>1. 0 \in T
  <2> DEFINE f == [i \in 0..0 |-> c]
  <2>1. Turns(f, c, 0)
    BY DEF Turns, Turn
  <2> QED BY <2>1
<1>2. ASSUME NEW n \in Nat, n \in T PROVE n + 1 \in T
  <2>1. PICK f : Turns(f, c, n)
    BY <1>2
  <2> DEFINE g == [i \in 0..n + 1 |-> IF i = n + 1 THEN Turn(f, c, i) ELSE f[i]]
  <2>2. ASSUME NEW i \in 0..n + 1 PROVE g[i] = Turn(g, c, i)
    <3>1. CASE i = n + 1
      BY <3>1 DEF Turn
    <3>2. CASE i \in 0..n
      <4>1. f[i] = Turn(f, c, i)
        BY <2>1, <3>2 DEF Turns
      <4>2. g[i] = f[i] /\ (i # 0 => g[i - 1] = f[i - 1])
        BY <3>2
      <4> QED BY <4>1, <4>2 DEF Turn
    <3> QED BY <3>1, <3>2
  <2>3. g = [i \in 0..n + 1 |-> g[i]]
    OBVIOUS
  <2>4. Turns(g, c, n + 1)
    <3> HIDE DEF g
    <3> QED BY <2>2, <2>3 DEF Turns
  <2> QED BY <2>4
<1>3. Nat \subseteq T
  <2> HIDE DEF T
  <2> QED BY <1>1, <1>2, NatSetInduction
<1> QED BY <1>3

\* What round i of dispatch leaves, f being the rounds before it; and the rounds up to n.
Round(f, c, i) == IF i = 0 THEN c ELSE ServeNext(f[i - 1])
Rounds(f, c, n) == f = [i \in 0..n |-> Round(f, c, i)]

\* The recursion of dispatch has a solution.
LEMMA RoundsExist ==
  ASSUME NEW c, NEW m \in Nat
  PROVE  \E f : Rounds(f, c, m)
<1> DEFINE T == {n \in Nat : \E f : Rounds(f, c, n)}
<1>1. 0 \in T
  <2> DEFINE f == [i \in 0..0 |-> c]
  <2>1. Rounds(f, c, 0)
    BY DEF Rounds, Round
  <2> QED BY <2>1
<1>2. ASSUME NEW n \in Nat, n \in T PROVE n + 1 \in T
  <2>1. PICK f : Rounds(f, c, n)
    BY <1>2
  <2> DEFINE g == [i \in 0..n + 1 |-> IF i = n + 1 THEN Round(f, c, i) ELSE f[i]]
  <2>2. ASSUME NEW i \in 0..n + 1 PROVE g[i] = Round(g, c, i)
    <3>1. CASE i = n + 1
      BY <3>1 DEF Round
    <3>2. CASE i \in 0..n
      <4>1. f[i] = Round(f, c, i)
        BY <2>1, <3>2 DEF Rounds
      <4>2. g[i] = f[i] /\ (i # 0 => g[i - 1] = f[i - 1])
        BY <3>2
      <4> QED BY <4>1, <4>2 DEF Round
    <3> QED BY <3>1, <3>2
  <2>3. g = [i \in 0..n + 1 |-> g[i]]
    OBVIOUS
  <2>4. Rounds(g, c, n + 1)
    <3> HIDE DEF g
    <3> QED BY <2>2, <2>3 DEF Rounds
  <2> QED BY <2>4
<1>3. Nat \subseteq T
  <2> HIDE DEF T
  <2> QED BY <1>1, <1>2, NatSetInduction
<1> QED BY <1>3

\* Serving the lanes keeps the controller sound and leaves the queue alone.
LEMMA DispatchLanesKeeps ==
  ASSUME NEW c, Sound(c), Entries(c.queue) = {}
  PROVE  /\ Sound(DispatchLanes(c)) /\ Later(c, DispatchLanes(c))
         /\ DispatchLanes(c).queue = c.queue
<1> DEFINE n == Len(c.lanes)
           f == CHOOSE g : Turns(g, c, n)
<1>1. Loose(c) /\ c.lanes \in Seq(Tenants) /\ n \in Nat /\ DOMAIN c.lanes = 1..n
  BY Parts, LenProperties DEF Sound
<1>2. Turns(f, c, n)
  BY <1>1, TurnsExist
<1>3. DispatchLanes(c) = Pruned(f[n])
  BY DEF DispatchLanes, Turns, Turn
<1> HIDE DEF f
<1> DEFINE Served(d) == Loose(d) /\ Later(c, d) /\ d.queue = c.queue
           T == {i \in Nat : i <= n => Served(f[i])}
<1>4. 0 \in T
  <2>1. f[0] = c
    BY <1>1, <1>2 DEF Turns, Turn
  <2> QED BY <1>1, <2>1, LaterItself
<1>5. ASSUME NEW i \in Nat, i \in T PROVE i + 1 \in T
  <2> SUFFICES ASSUME i + 1 <= n PROVE Served(f[i + 1])
    OBVIOUS
  <2>1. Served(f[i])
    BY <1>1, <1>5
  <2>2. f[i + 1] = ServeLane(f[i], c.lanes[i + 1])
    BY <1>1, <1>2 DEF Turns, Turn
  <2>3. c.lanes[i + 1] \in Tenants
    BY <1>1
  <2>4. /\ Loose(f[i + 1]) /\ Later(f[i], f[i + 1]) /\ f[i + 1].queue = f[i].queue
    BY <2>1, <2>2, <2>3, ServeLaneKeeps
  <2> QED BY <2>1, <2>4, LaterOn
<1>6. Served(f[n])
  <2>1. Nat \subseteq T
    <3> HIDE DEF T
    <3> QED BY <1>4, <1>5, NatSetInduction
  <2> QED BY <1>1, <2>1
<1>7. Sound(Pruned(f[n])) /\ SameButLanes(f[n], Pruned(f[n]))
  BY <1>6, PrunedKeeps
<1>8. Later(f[n], Pruned(f[n]))
  <2>1. InLanes(Pruned(f[n])) = InLanes(f[n])
    BY <1>7 DEF InLanes, SameButLanes
  <2> QED BY <1>7, <2>1 DEF SameButLanes, Later, Follows, Undisturbed, Present, Waiting
<1>9. Later(c, Pruned(f[n]))
  BY <1>6, <1>7, <1>8, LaterOn DEF Sound
<1> QED BY <1>3, <1>6, <1>7, <1>9 DEF SameButLanes

\* An empty queue has nobody to serve.
LEMMA EmptyStuck ==
  ASSUME NEW c, QueueOK(c.queue), Entries(c.queue) = {}
  PROVE  Stuck(c)
<1>1. Len(c.queue.order) = 0
  BY EntryInBucket, EmptySeq
<1>2. Places(c.queue) = {}
  BY <1>1 DEF Places
<1> QED BY <1>2 DEF Stuck, Blocked, Reserved, Fitting

\* dispatch serves until it is stuck.
LEMMA DispatchKeeps ==
  ASSUME NEW c, Sound(c)
  PROVE  Sound(Dispatch(c)) /\ Later(c, Dispatch(c)) /\ Stuck(Dispatch(c))
<1> DEFINE left(d) == Cardinality(Entries(d.queue))
           n == left(c)
           f == CHOOSE g : Rounds(g, c, n)
<1>1. \A d : Sound(d) => /\ Entries(d.queue) \in SUBSET Requests /\ left(d) \in Nat
                         /\ QueueOK(d.queue)
  <2> SUFFICES ASSUME NEW d, Sound(d)
               PROVE  Entries(d.queue) \in SUBSET Requests /\ left(d) \in Nat /\ QueueOK(d.queue)
    OBVIOUS
  <2>1. Entries(d.queue) \in SUBSET Requests
    BY Parts DEF Sound
  <2> QED BY <2>1, RequestSets DEF Sound, Loose
<1>2. n \in Nat
  BY <1>1
<1>3. Rounds(f, c, n)
  BY <1>2, RoundsExist
<1>4. Dispatch(c) = IF f[n].queue.order = <<>> THEN DispatchLanes(f[n]) ELSE f[n]
  BY DEF Dispatch, Rounds, Round
<1> HIDE DEF f
<1> DEFINE Served(d, i) == Sound(d) /\ Later(c, d) /\ (Stuck(d) \/ left(d) <= n - i)
           T == {i \in Nat : i <= n => Served(f[i], i)}
<1>5. 0 \in T
  <2>1. f[0] = c
    BY <1>2, <1>3 DEF Rounds, Round
  <2> QED BY <1>2, <2>1, LaterItself
<1>6. ASSUME NEW i \in Nat, i \in T PROVE i + 1 \in T
  <2> SUFFICES ASSUME i + 1 <= n PROVE Served(f[i + 1], i + 1)
    OBVIOUS
  <2>1. Served(f[i], i)
    BY <1>2, <1>6
  <2>2. f[i + 1] = ServeNext(f[i])
    BY <1>2, <1>3 DEF Rounds, Round
  <2>3. Sound(f[i + 1]) /\ Later(f[i], f[i + 1])
    BY <2>1, <2>2, ServeNextKeeps
  <2>4. Later(c, f[i + 1])
    BY <2>1, <2>3, LaterOn DEF Sound
  <2>5. Stuck(f[i + 1]) \/ left(f[i + 1]) <= n - (i + 1)
    <3>1. CASE Stuck(f[i])
      BY <2>1, <2>2, <3>1, ServeNextKeeps
    <3>2. CASE ~Stuck(f[i])
      <4>1. PICK h \in Entries(f[i].queue) : Entries(f[i + 1].queue) = Entries(f[i].queue) \ {h}
        BY <2>1, <2>2, <3>2, ServeNextKeeps
      <4>2. left(f[i + 1]) = left(f[i]) - 1
        BY <1>1, <2>1, <4>1, RequestSets
      <4>3. left(f[i]) \in Nat
        BY <1>1, <2>1
      <4> HIDE DEF left, n
      <4> QED BY <1>2, <2>1, <3>2, <4>2, <4>3
    <3> QED BY <3>1, <3>2
  <2> QED BY <2>3, <2>4, <2>5
<1>7. Served(f[n], n)
  <2>1. Nat \subseteq T
    <3> HIDE DEF T
    <3> QED BY <1>5, <1>6, NatSetInduction
  <2> QED BY <1>2, <2>1
<1>8. Stuck(f[n])
  <2>1. CASE left(f[n]) <= n - n
    <3>1. left(f[n]) = 0
      BY <1>1, <1>2, <1>7, <2>1
    <3>2. Entries(f[n].queue) = {}
      BY <1>1, <1>7, <3>1, RequestSets
    <3> QED BY <1>1, <1>7, <3>2, EmptyStuck
  <2> QED BY <1>7, <2>1
<1>9. CASE f[n].queue.order = <<>>
  <2>1. Entries(f[n].queue) = {}
    BY <1>1, <1>7, <1>9, EntryInBucket
  <2>2. /\ Sound(DispatchLanes(f[n])) /\ Later(f[n], DispatchLanes(f[n]))
        /\ DispatchLanes(f[n]).queue = f[n].queue
    BY <1>7, <2>1, DispatchLanesKeeps
  <2>3. Stuck(DispatchLanes(f[n]))
    BY <1>1, <2>1, <2>2, EmptyStuck
  <2> QED BY <1>4, <1>7, <1>9, <2>2, <2>3, LaterOn DEF Sound
<1>10. CASE f[n].queue.order # <<>>
  BY <1>4, <1>7, <1>8, <1>10
<1> QED BY <1>9, <1>10

-----------------------------------------------------------------------------
(* The methods.                                                             *)

\* What a step may do to the active requests: the two action properties.
WithinLimit(c, d) ==
  d.active \ c.active # {} =>
    \/ TotalCost[d.active] <= d.limit
    \/ Cardinality(d.active) = 1 /\ TotalCost[d.active] <= MaxLimit

\* Nobody is served past a head that reserved the room and still waits.
NotPassed(c, d) ==
  \A s \in Entries(c.queue) \intersect Entries(d.queue) : c.queue.skips[s] >= 2 =>
    \A x \in d.active \ c.active : c.queue.skips[x] >= 2 /\ c.age[x] >= c.age[s]

\* What an operation achieves.
StepOK(c, d) == Sound(d) /\ Stuck(d) /\ WithinLimit(c, d) /\ NotPassed(c, d)

\* The queue, the lanes and the active requests decide whether a controller is sound.
LEMMA SameSound ==
  ASSUME NEW c, Sound(c), NEW d \in Controllers, d.queue = c.queue, d.lane = c.lane,
         d.lanes = c.lanes, d.active = c.active
  PROVE  Sound(d) /\ Present(d) = Present(c)
<1>1. InLanes(d) = InLanes(c)
  BY DEF InLanes
<1> QED BY <1>1 DEF Sound, Loose, Waiting, Present

\* A queue that is stuck stays so while its entries grow older together.
LEMMA StuckShift ==
  ASSUME NEW c, Sound(c), Stuck(c), NEW d, d.queue = c.queue, Room(d) = Room(c), NEW k \in Nat,
         \A x \in Entries(c.queue) : d.age[x] = c.age[x] + k
  PROVE  Stuck(d)
<1>1. QueueOK(c.queue) /\ Reserved(c.queue) \subseteq Places(c.queue)
  BY DEF Sound, Loose, Reserved
<1>2. \A i \in Places(c.queue) : /\ d.age[HeadAt(c.queue, i)] = c.age[HeadAt(c.queue, i)] + k
                               /\ c.age[HeadAt(c.queue, i)] \in Nat
  <2> SUFFICES ASSUME NEW i \in Places(c.queue)
               PROVE  /\ d.age[HeadAt(c.queue, i)] = c.age[HeadAt(c.queue, i)] + k
                      /\ c.age[HeadAt(c.queue, i)] \in Nat
    OBVIOUS
  <2>1. HeadAt(c.queue, i) \in Entries(c.queue) /\ HeadAt(c.queue, i) \in Requests
    BY <1>1, PlaceOf
  <2>2. c.age \in Ages
    BY Parts DEF Sound
  <2> QED BY <2>1, <2>2, ConstantBounds DEF Ages
<1>3. ASSUME NEW i, IsOldest(c.queue, c.age, Reserved(c.queue), i)
      PROVE  IsOldest(c.queue, d.age, Reserved(c.queue), i)
  BY <1>1, <1>2, <1>3 DEF IsOldest
<1> QED BY <1>3 DEF Stuck, Blocked

\* observePressure serves within the new limit, if it dispatches.
LEMMA ObserveKeeps ==
  ASSUME NEW c, Sound(c), Stuck(c), NEW p \in Pressures
  PROVE  LET d == ObservePressure(c, p) IN Sound(d) /\ Stuck(d) /\ Follows(c, d)
<1> DEFINE raised == [c EXCEPT !.pressure = IF Severity[p] > Severity[@] THEN p ELSE @]
           b == [raised EXCEPT !.limit = Max({MinLimit, @ \div 2}), !.consumed = TRUE]
<1>1. c \in Controllers /\ c.limit \in Nat /\ c.limit \in MinLimit..MaxLimit
  BY Parts DEF Sound, Loose
<1>2. /\ raised \in Controllers /\ raised.queue = c.queue /\ raised.lane = c.lane
      /\ raised.lanes = c.lanes /\ raised.active = c.active /\ raised.age = c.age
      /\ raised.limit = c.limit
  BY <1>1 DEF Controllers
<1>3. Max({MinLimit, c.limit \div 2}) \in MinLimit..MaxLimit
  <2>1. MinLimit \in Nat /\ MaxLimit \in Nat /\ MinLimit <= MaxLimit
    BY AdmissionAssumption
  <2>2. c.limit \div 2 \in Nat /\ c.limit \div 2 <= c.limit
    BY <1>1
  <2>3. Max({MinLimit, c.limit \div 2}) = IF MinLimit <= c.limit \div 2 THEN c.limit \div 2 ELSE MinLimit
    BY <2>1, <2>2, MaxOfTwo
  <2> QED BY <1>1, <2>1, <2>2, <2>3
<1> HIDE DEF raised
<1>4. /\ b \in Controllers /\ b.queue = c.queue /\ b.lane = c.lane
      /\ b.lanes = c.lanes /\ b.active = c.active /\ b.age = c.age
  BY <1>2, <1>3 DEF Controllers
<1>5. CASE p = "critical" /\ ~c.consumed
  <2> DEFINE d == Dispatch(b)
  <2>1. Sound(b) /\ Present(b) = Present(c)
    BY <1>4, SameSound
  <2>2. Sound(d) /\ Later(b, d) /\ Stuck(d)
    BY <2>1, DispatchKeeps
  <2>3. ObservePressure(c, p) = d
    BY <1>5 DEF ObservePressure, raised
  <2> HIDE DEF b, d
  <2>4. Follows(c, d)
    BY <1>4, <2>1, <2>2 DEF Later, Follows, Undisturbed
  <2> QED BY <2>2, <2>3, <2>4
<1>6. CASE ~(p = "critical" /\ ~c.consumed)
  <2>1. ObservePressure(c, p) = raised
    BY <1>6 DEF ObservePressure, raised
  <2>2. Sound(raised) /\ Present(raised) = Present(c)
    BY <1>2, SameSound
  <2>3. Stuck(raised)
    BY <1>2 DEF Stuck, Room
  <2>4. Follows(c, raised)
    BY <1>2, <2>2 DEF Follows, Undisturbed
  <2> QED BY <2>1, <2>2, <2>3, <2>4
<1> QED BY <1>5, <1>6

\* From c to b nobody came, and those who wait kept their skips and ages.
Leaves(c, b) ==
  /\ b.active \subseteq c.active
  /\ Entries(b.queue) \subseteq Entries(c.queue)
  /\ \A x \in Entries(b.queue) : b.queue.skips[x] = c.queue.skips[x] /\ b.age[x] = c.age[x]

\* Serving after somebody left respects the limit and the reserved heads.
LEMMA LeavesThenServes ==
  ASSUME NEW c, Sound(c), NEW b, Sound(b), Leaves(c, b)
  PROVE  StepOK(c, Dispatch(b))
<1> DEFINE d == Dispatch(b)
<1>1. Sound(d) /\ Later(b, d) /\ Stuck(d)
  BY DispatchKeeps
<1> HIDE DEF d
<1>2. WithinLimit(c, d)
  BY <1>1 DEF WithinLimit, Later, Follows, Leaves
<1>3. ASSUME NEW s \in Entries(c.queue) \intersect Entries(d.queue), c.queue.skips[s] >= 2,
             NEW x \in d.active \ c.active
      PROVE  c.queue.skips[x] >= 2 /\ c.age[x] >= c.age[s]
  <2>1. s \in Entries(b.queue) /\ b.queue.skips[s] >= 2 /\ x \in d.active \ b.active
    BY <1>1, <1>3 DEF Later, Follows, Leaves
  <2>2. b.queue.skips[x] >= 2 /\ b.age[x] >= b.age[s]
    BY <1>1, <2>1 DEF Later, Follows, Undisturbed
  <2>3. x \in Requests /\ QueueOK(b.queue) /\ b.queue.skips[x] \in Nat
    <3>1. d.active \in SUBSET Requests /\ b.queue \in Queues
      BY <1>1, Parts DEF Sound
    <3>2. b.queue.skips \in [Requests -> 0..2]
      BY <3>1 DEF Queues, MaxUnfittableSkips
    <3>3. x \in Requests
      BY <1>3, <3>1
    <3> QED BY <3>2, <3>3 DEF Sound, Loose
  <2>4. x \in Entries(b.queue)
    BY <2>2, <2>3, EntryInBucket
  <2> QED BY <2>1, <2>2, <2>4 DEF Leaves
<1> QED BY <1>1, <1>2, <1>3 DEF StepOK, NotPassed, d

\* A newcomer joins the queue or its lane.
LEMMA QueuedKeeps ==
  ASSUME NEW c, Sound(c), NEW r \in Requests \ Present(c), NEW v \in BOOLEAN, v = virtualLanes
  PROVE  LET b == Queued(c, r) IN
         /\ Sound(b) /\ b.active = c.active /\ b.limit = c.limit /\ b.age = c.age
         /\ Entries(b.queue) \subseteq Entries(c.queue) \union {r}
         /\ b.queue.skips = c.queue.skips
<1> DEFINE t == TenantOf[r]
           b == Queued(c, r)
<1>1. /\ Loose(c) /\ c \in Controllers /\ QueueOK(c.queue) /\ t \in Tenants /\ r \in Requests
      /\ r \notin Entries(c.queue) /\ r \notin InLanes(c) /\ r \notin c.active
      /\ c.lanes \in Seq(Tenants) /\ c.lane \in [Tenants -> Seq(Requests)]
  BY Parts, QueueAssumption DEF Sound, Loose, Present, Waiting
<1>2. CASE ~virtualLanes
  <2> DEFINE q == Enqueue(c.queue, r)
  <2>1. QueueOK(q) /\ Entries(q) = Entries(c.queue) \union {r} /\ q.skips = c.queue.skips
    BY <1>1, EnqueueKeeps
  <2>2. b = [c EXCEPT !.queue = q]
    BY <1>1, <1>2 DEF Queued, Controllers
  <2> HIDE DEF q, b
  <2>3. /\ b \in Controllers /\ b.queue = q /\ b.active = c.active /\ b.limit = c.limit
        /\ b.age = c.age /\ b.lane = c.lane /\ b.lanes = c.lanes
    BY <1>1, <2>1, <2>2 DEF Controllers, QueueOK
  <2>4. InLanes(b) = InLanes(c)
    BY <2>3 DEF InLanes
  <2>5. Sound(b)
    BY <1>1, <2>1, <2>3, <2>4 DEF Sound, Loose, Waiting
  <2> QED BY <2>1, <2>3, <2>5 DEF b
<1>3. CASE virtualLanes
  <2> DEFINE own == Append(c.lane[t], r)
             lane == [c.lane EXCEPT ![t] = own]
             lanes == IF c.lane[t] = <<>> THEN Append(c.lanes, t) ELSE c.lanes
  <2>1. b = [c EXCEPT !.lane = lane, !.lanes = lanes]
    BY <1>1, <1>3 DEF Queued, Controllers
  <2>2. own \in Seq(Requests) /\ own # <<>> /\ Range(own) = Range(c.lane[t]) \union {r}
    BY <1>1, AppendProperties, RangeOfAppend
  <2>3. lane \in [Tenants -> Seq(Requests)] /\ lane[t] = own /\ \A u \in Tenants \ {t} : lane[u] = c.lane[u]
    BY <1>1, <2>2
  <2>4. /\ Range(c.lanes) = {u \in Tenants : c.lane[u] # <<>>} /\ NoRepeat(c.lanes)
        /\ \A u \in Tenants : \A x \in Range(c.lane[u]) : TenantOf[x] = u
    BY DEF Sound, Loose
  <2>5. lanes \in Seq(Tenants) /\ NoRepeat(lanes) /\ Range(lanes) = Range(c.lanes) \union {t}
    <3>1. CASE c.lane[t] = <<>>
      <4>1. t \notin Range(c.lanes)
        BY <2>4, <3>1
      <4> QED BY <1>1, <2>4, <3>1, <4>1, AppendProperties, RangeOfAppend, NoRepeatOfAppend
    <3>2. CASE c.lane[t] # <<>>
      BY <1>1, <2>4, <3>2
    <3> QED BY <3>1, <3>2
  <2> HIDE DEF own, lane, lanes, b
  <2>6. /\ b \in Controllers /\ b.queue = c.queue /\ b.active = c.active /\ b.limit = c.limit
        /\ b.age = c.age /\ b.lane = lane /\ b.lanes = lanes
    BY <1>1, <2>1, <2>3, <2>5 DEF Controllers
  <2>7. InLanes(b) = InLanes(c) \union {r}
    <3>1. ASSUME NEW x PROVE x \in InLanes(b) <=> x \in InLanes(c) \union {r}
      <4>1. x \in InLanes(b) <=> \E u \in Tenants : x \in Range(lane[u])
        BY <2>6 DEF InLanes
      <4>2. x \in InLanes(c) <=> \E u \in Tenants : x \in Range(c.lane[u])
        BY DEF InLanes
      <4> QED BY <1>1, <2>2, <2>3, <4>1, <4>2
    <3> QED BY <3>1
  <2>8. Range(b.lanes) = {u \in Tenants : b.lane[u] # <<>>}
    BY <1>1, <2>2, <2>3, <2>4, <2>5, <2>6
  <2>9. \A u \in Tenants : \A x \in Range(b.lane[u]) : TenantOf[x] = u
    BY <1>1, <2>2, <2>3, <2>4, <2>6 DEF t
  <2>10. Sound(b)
    BY <1>1, <2>5, <2>6, <2>7, <2>8, <2>9 DEF Sound, Loose, Waiting
  <2> QED BY <2>6, <2>10 DEF b
<1> QED BY <1>2, <1>3

\* Whoever leaves a lane leaves the other lanes and the queue as they were.
LEMMA SmallerLanes ==
  ASSUME NEW c, Sound(c), NEW b \in Controllers, b.queue = c.queue, b.lanes = c.lanes,
         b.active = c.active, \A t \in Tenants : Range(b.lane[t]) \subseteq Range(c.lane[t])
  PROVE  Loose(b)
<1>1. /\ c.lane \in [Tenants -> Seq(Requests)] /\ b.lane \in [Tenants -> Seq(Requests)]
  BY Parts DEF Sound, Controllers
<1>2. ASSUME NEW t \in Tenants, b.lane[t] # <<>> PROVE c.lane[t] # <<>>
  <2>1. Head(b.lane[t]) \in Range(b.lane[t])
    <3>1. b.lane[t] \in Seq(Requests)
      BY <1>1
    <3>2. 1 \in DOMAIN b.lane[t] /\ Head(b.lane[t]) = b.lane[t][1]
      BY <1>2, <3>1, EmptySeq, LenProperties
    <3> QED BY <3>2 DEF Range
  <2>2. Range(c.lane[t]) # {}
    BY <2>1
  <2> QED BY <2>2 DEF Range
<1>3. InLanes(b) \subseteq InLanes(c)
  BY DEF InLanes
<1>4. {t \in Tenants : b.lane[t] # <<>>} \subseteq Range(b.lanes)
  BY <1>2 DEF Sound, Loose
<1>5. \A t \in Tenants : \A r \in Range(b.lane[t]) : TenantOf[r] = t
  BY DEF Sound, Loose
<1> QED BY <1>3, <1>4, <1>5 DEF Sound, Loose, Waiting

\* removeById takes one entry out of the queue or the lanes.
LEMMA RemovedKeeps ==
  ASSUME NEW c, Sound(c), NEW r \in Waiting(c)
  PROVE  Sound(Removed(c, r)) /\ Leaves(c, Removed(c, r))
<1> DEFINE t == TenantOf[r]
           d == Removed(c, r)
           age == [c.age EXCEPT ![r] = 0]
<1>1. /\ c \in Controllers /\ QueueOK(c.queue) /\ c.age \in Ages /\ c.lane \in [Tenants -> Seq(Requests)]
      /\ r \in Requests /\ t \in Tenants /\ Entries(c.queue) \subseteq Requests
      /\ Entries(c.queue) \intersect InLanes(c) = {}
  BY Parts, QueueAssumption DEF Sound, Loose
<1>2. age \in [Requests -> 0..AgeCap] /\ \A x \in Requests \ {r} : age[x] = c.age[x]
  <2>1. 0 \in 0..AgeCap
    BY ConstantBounds
  <2>2. c.age \in [Requests -> 0..AgeCap]
    BY <1>1 DEF Ages
  <2> QED BY <2>1, <2>2
<1>3. CASE r \in Entries(c.queue)
  <2> DEFINE q == RemoveById(c.queue, r)
  <2>1. QueueOK(q) /\ Entries(q) = Entries(c.queue) \ {r} /\ q.skips = [c.queue.skips EXCEPT ![r] = 0]
    BY <1>1, <1>3, RemoveByIdKeeps
  <2>2. d = [c EXCEPT !.queue = q, !.age = age]
    BY <1>1, <1>3 DEF Removed, Controllers
  <2> HIDE DEF q, d, age
  <2>3. /\ d \in Controllers /\ d.queue = q /\ d.active = c.active /\ d.age = age
        /\ d.lane = c.lane /\ d.lanes = c.lanes
    BY <1>1, <1>2, <2>1, <2>2 DEF Controllers, QueueOK
  <2>4. InLanes(d) = InLanes(c)
    BY <2>3 DEF InLanes
  <2>5. Sound(d)
    BY <1>1, <2>1, <2>3, <2>4 DEF Sound, Loose, Waiting
  <2>6. Leaves(c, d)
    <3>1. ASSUME NEW x \in Entries(d.queue)
          PROVE  d.queue.skips[x] = c.queue.skips[x] /\ d.age[x] = c.age[x]
      <4>1. x \in Requests \ {r}
        BY <1>1, <2>1, <2>3
      <4>2. c.queue.skips \in [Requests -> 0..2]
        BY <1>1 DEF QueueOK, Queues, MaxUnfittableSkips
      <4> QED BY <1>2, <2>1, <2>3, <4>1, <4>2
    <3> QED BY <2>1, <2>3, <3>1 DEF Leaves
  <2> QED BY <2>5, <2>6 DEF d
<1>4. CASE r \notin Entries(c.queue)
  <2> DEFINE rest == Kept(c.lane[t], Requests \ {r})
             lane == [c.lane EXCEPT ![t] = rest]
             b == [c EXCEPT !.lane = lane, !.age = age]
  <2>1. d = Pruned(b)
    BY <1>1, <1>4 DEF Removed, Controllers
  <2>2. rest \in Seq(Requests) /\ Range(rest) \subseteq Range(c.lane[t])
    <3>1. c.lane[t] \in Seq(Requests)
      BY <1>1
    <3> QED BY <3>1, KeptType, KeptRange
  <2>3. lane \in [Tenants -> Seq(Requests)] /\ \A u \in Tenants : Range(lane[u]) \subseteq Range(c.lane[u])
    BY <1>1, <2>2
  <2> HIDE DEF lane, age, d
  <2>4. /\ b \in Controllers /\ b.queue = c.queue /\ b.active = c.active /\ b.age = age
        /\ b.lane = lane /\ b.lanes = c.lanes
    BY <1>1, <1>2, <2>3 DEF Controllers
  <2> HIDE DEF b
  <2>5. Loose(b)
    BY <2>3, <2>4, SmallerLanes
  <2>6. Sound(d) /\ SameButLanes(b, d)
    BY <2>1, <2>5, PrunedKeeps
  <2>7. Leaves(c, d)
    BY <1>1, <1>2, <1>4, <2>4, <2>6 DEF Leaves, SameButLanes
  <2> QED BY <2>6, <2>7 DEF d
<1> QED BY <1>3, <1>4

\* evictIdleLanes takes out the entries of some lanes.
LEMMA EvictedKeeps ==
  ASSUME NEW c, Sound(c), NEW S
  PROVE  LET b == Evicted(c, S) IN
         /\ Sound(b) /\ Leaves(c, b) /\ b.queue = c.queue /\ b.limit = c.limit /\ b.active = c.active
         /\ \A x \in Entries(c.queue) : b.age[x] = c.age[x]
<1> DEFINE lane == [t \in Tenants |-> IF t \in S THEN <<>> ELSE c.lane[t]]
           age == [r \in Requests |-> IF r \in InLanes(c) /\ TenantOf[r] \in S THEN 0 ELSE c.age[r]]
           b == [c EXCEPT !.lane = lane, !.age = age]
           d == Evicted(c, S)
<1>1. /\ c \in Controllers /\ c.age \in Ages /\ c.lane \in [Tenants -> Seq(Requests)]
      /\ Entries(c.queue) \subseteq Requests /\ Entries(c.queue) \intersect InLanes(c) = {}
  BY Parts DEF Sound, Loose
<1>2. d = Pruned(b)
  BY <1>1 DEF Evicted, Controllers
<1>3. age \in [Requests -> 0..AgeCap] /\ \A x \in Entries(c.queue) : age[x] = c.age[x]
  <2>1. \A r \in Requests : c.age[r] \in 0..AgeCap /\ 0 \in 0..AgeCap
    BY <1>1, ConstantBounds DEF Ages
  <2>2. age \in [Requests -> 0..AgeCap]
    BY <2>1
  <2>3. \A x \in Entries(c.queue) : x \in Requests /\ x \notin InLanes(c)
    BY <1>1
  <2> QED BY <2>2, <2>3
<1>4. lane \in [Tenants -> Seq(Requests)] /\ \A u \in Tenants : Range(lane[u]) \subseteq Range(c.lane[u])
  <2>1. <<>> \in Seq(Requests) /\ Range(<<>>) = {}
    BY EmptySeq DEF Range
  <2> QED BY <1>1, <2>1
<1> HIDE DEF lane, age, d
<1>5. /\ b \in Controllers /\ b.queue = c.queue /\ b.active = c.active /\ b.age = age
      /\ b.lane = lane /\ b.lanes = c.lanes /\ b.limit = c.limit
  BY <1>1, <1>3, <1>4 DEF Controllers
<1> HIDE DEF b
<1>6. Loose(b)
  BY <1>4, <1>5, SmallerLanes
<1>7. Sound(d) /\ SameButLanes(b, d)
  BY <1>2, <1>6, PrunedKeeps
<1>8. Leaves(c, d)
  BY <1>3, <1>5, <1>7 DEF Leaves, SameButLanes
<1> QED BY <1>3, <1>5, <1>7, <1>8 DEF SameButLanes, d

\* closeAdaptationWindow leaves everything but the limit and the window's notes.
LEMMA ClosedKeeps ==
  ASSUME NEW c, Sound(c), NEW util, NEW steep
  PROVE  LET b == Closed(c, util, steep) IN Sound(b) /\ Leaves(c, b)
<1> DEFINE adapted == Adapted(c, util, steep)
           recovered == Recovered(c, util, adapted)
           b == Closed(c, util, steep)
<1>1. c \in Controllers /\ c.limit \in Nat
  BY Parts DEF Sound, Loose
<1>2. adapted \in Int
  <2>1. /\ c.limit \div 2 \in Int /\ (4 * c.limit) \div 5 \in Int /\ c.limit + 1 \in Int
    BY <1>1
  <2> QED BY <1>1, <2>1 DEF Adapted
<1> HIDE DEF adapted
<1>3. recovered \in Int
  <2>1. RecoveryCeiling \in Int
    BY ConstantBounds, AdmissionAssumption
  <2>2. Min({RecoveryCeiling, adapted + 1})
          = IF RecoveryCeiling <= adapted + 1 THEN RecoveryCeiling ELSE adapted + 1
    BY <1>2, <2>1, MinOfTwo
  <2>3. Min({RecoveryCeiling, adapted + 1}) \in Int
    BY <1>2, <2>1, <2>2
  <2> QED BY <1>2, <2>3 DEF Recovered
<1> HIDE DEF recovered
<1>4. Clamped(recovered) \in MinLimit..MaxLimit
  BY <1>3, ConstantBounds
<1>5. b = [c EXCEPT !.limit = Clamped(recovered), !.pressure = "normal", !.consumed = FALSE,
                    !.frozen = FALSE, !.completed = FALSE, !.busy = c.active # {}]
  BY DEF Closed, recovered, adapted
<1>6. "normal" \in Pressures
  BY DEF Pressures
<1> HIDE DEF b
<1>7. /\ b \in Controllers /\ b.queue = c.queue /\ b.active = c.active /\ b.age = c.age
      /\ b.lane = c.lane /\ b.lanes = c.lanes
  BY <1>1, <1>4, <1>5, <1>6 DEF Controllers
<1>8. Sound(b)
  BY <1>7, SameSound
<1> QED BY <1>7, <1>8 DEF Leaves, b

-----------------------------------------------------------------------------
(* The steps.                                                               *)

\* The inductive invariant.
IInv == Sound(ctl) /\ Stuck(ctl) /\ virtualLanes \in BOOLEAN

\* What every step of the controller achieves.
Progress == StepOK(ctl, ctl') /\ virtualLanes' = virtualLanes

\* An arrival that is admitted at once finds nobody waiting.
LEMMA AcquireAdmitsKeeps ==
  ASSUME IInv, NEW r \in Requests, NEW p \in Pressures, AcquireAdmits(r, p)
  PROVE  Progress
<1> DEFINE c == ObservePressure(ctl, p)
           d == Admit(c, r)
<1>1. /\ Idle(r) /\ ctl' = d /\ virtualLanes' = virtualLanes
      /\ (CostOf[r] > c.limit /\ MaySolo(c, r)) \/ (~(CostOf[r] > c.limit) /\ FitsNow(c, r))
  BY DEF AcquireAdmits, Become
<1>2. Sound(c) /\ Stuck(c) /\ Follows(ctl, c)
  BY ObserveKeeps DEF IInv
<1> HIDE DEF c
<1>3. r \notin c.active /\ r \notin Waiting(c)
  BY <1>1, <1>2 DEF Idle, Follows, Present
<1>4. /\ c \in Controllers /\ QueueOK(c.queue) /\ Loose(c) /\ c.active \in SUBSET Requests
      /\ Entries(c.queue) \subseteq Waiting(c)
  BY <1>2, Parts DEF Sound, Loose, Waiting
<1>5. Entries(c.queue) = {}
  BY <1>1, <1>4, EntryInBucket DEF MaySolo, FitsNow
<1>6. /\ d \in Controllers /\ d.queue = c.queue /\ d.active = c.active \union {r}
      /\ d.lane = c.lane /\ d.lanes = c.lanes /\ d.limit = c.limit
  <2>1. 0 \in 0..AgeCap /\ c.active \union {r} \in SUBSET Requests
    BY <1>4, ConstantBounds
  <2> QED BY <1>4, <2>1 DEF Admit, Controllers
<1> HIDE DEF d
<1>7. InLanes(d) = InLanes(c)
  BY <1>6 DEF InLanes
<1>8. Sound(d)
  BY <1>2, <1>3, <1>6, <1>7 DEF Sound, Loose, Waiting
<1>9. Stuck(d)
  BY <1>4, <1>5, <1>6, EmptyStuck
<1>10. WithinLimit(ctl, d)
  <2>1. CASE MaySolo(c, r)
    <3>1. d.active = {r} /\ CostOf[r] <= MaxLimit
      BY <1>6, <2>1 DEF MaySolo
    <3>2. TotalCost[{} \union {r}] = TotalCost[{}] + CostOf[r] /\ CostOf[r] \in Nat /\ TotalCost[{}] = 0
      BY TotalCostAdds, QueueAssumption
    <3>3. {} \union {r} = {r}
      OBVIOUS
    <3>4. TotalCost[{r}] = CostOf[r]
      BY <3>2, <3>3
    <3>5. Cardinality({r}) = 1
      BY FS_Singleton
    <3>6. Cardinality(d.active) = 1 /\ TotalCost[d.active] <= MaxLimit
      BY <3>1, <3>4, <3>5
    <3> QED BY <3>6 DEF WithinLimit
  <2>2. CASE FitsNow(c, r)
    BY <1>3, <1>4, <1>6, <2>2, AdmittedFits DEF WithinLimit, FitsNow
  <2> QED BY <1>1, <2>1, <2>2
<1>11. NotPassed(ctl, d)
  BY <1>5, <1>6 DEF NotPassed
<1> QED BY <1>1, <1>8, <1>9, <1>10, <1>11 DEF Progress, StepOK

\* An arrival that queues is served after those before it.
LEMMA AcquireQueuesKeeps ==
  ASSUME IInv, NEW r \in Requests, NEW p \in Pressures, AcquireQueues(r, p)
  PROVE  Progress
<1> DEFINE c == ObservePressure(ctl, p)
           b == Queued(c, r)
           d == Dispatch(b)
           e == Dispatch(d)
<1>1. Idle(r) /\ ctl' = e /\ virtualLanes' = virtualLanes
  BY DEF AcquireQueues, Become
<1>2. Sound(c) /\ Stuck(c) /\ Follows(ctl, c)
  BY ObserveKeeps DEF IInv
<1> HIDE DEF c
<1>3. r \in Requests \ Present(c) /\ r \notin Entries(ctl.queue)
  BY <1>1, <1>2 DEF Idle, Follows, Present, Waiting
<1>4. /\ Sound(b) /\ b.active = c.active /\ b.limit = c.limit /\ b.age = c.age
      /\ Entries(b.queue) \subseteq Entries(c.queue) \union {r}
      /\ b.queue.skips = c.queue.skips
  BY <1>2, <1>3, QueuedKeeps DEF IInv
<1> HIDE DEF b
<1>5. Sound(d) /\ Later(b, d)
  BY <1>4, DispatchKeeps
<1> HIDE DEF d
<1>6. Sound(e) /\ Stuck(e) /\ Later(d, e)
  BY <1>5, DispatchKeeps
<1> HIDE DEF e
<1>7. Later(b, e)
  BY <1>4, <1>5, <1>6, LaterOn DEF Sound
<1>8. WithinLimit(ctl, e)
  <2> SUFFICES ASSUME e.active \ ctl.active # {} PROVE TotalCost[e.active] <= e.limit
    BY DEF WithinLimit
  <2>1. CASE e.active # b.active
    BY <1>7, <2>1 DEF Later, Follows
  <2>2. CASE e.active = b.active
    <3>1. c.active # ctl.active /\ e.active = c.active /\ e.limit = c.limit
      BY <1>4, <1>7, <2>2 DEF Later
    <3> QED BY <1>2, <3>1 DEF Follows
  <2> QED BY <2>1, <2>2
<1>9. ASSUME NEW s \in Entries(ctl.queue) \intersect Entries(e.queue), ctl.queue.skips[s] >= 2,
             NEW x \in e.active \ ctl.active
      PROVE  ctl.queue.skips[x] >= 2 /\ ctl.age[x] >= ctl.age[s]
  <2>1. s \in Entries(c.queue) /\ s \in Entries(e.queue)
    BY <1>3, <1>4, <1>7, <1>9 DEF Later, Follows
  <2>2. Undisturbed(ctl, c, s)
    BY <1>2, <1>9, <2>1 DEF Follows
  <2>3. CASE x \in c.active
    BY <1>9, <2>2, <2>3 DEF Undisturbed
  <2>4. CASE x \notin c.active
    <3>1. b.queue.skips[s] >= 2 /\ x \in e.active \ b.active
      BY <1>4, <1>9, <2>1, <2>2, <2>4 DEF Undisturbed
    <3>2. b.queue.skips[x] >= 2 /\ b.age[x] >= b.age[s]
      BY <1>7, <2>1, <3>1 DEF Later, Follows, Undisturbed
    <3>3. x \in Requests /\ QueueOK(c.queue) /\ c.queue.skips[x] \in Nat
      <4>1. e.active \in SUBSET Requests /\ c.queue \in Queues
        BY <1>2, <1>6, Parts DEF Sound
      <4> QED BY <1>2, <1>9, <4>1 DEF Sound, Loose, Queues, MaxUnfittableSkips
    <3>4. x \in Entries(c.queue)
      BY <1>4, <3>2, <3>3, EntryInBucket
    <3> QED BY <1>4, <2>1, <2>2, <3>2, <3>4 DEF Undisturbed
  <2> QED BY <2>3, <2>4
<1>10. NotPassed(ctl, e)
  BY <1>9 DEF NotPassed
<1> QED BY <1>1, <1>6, <1>8, <1>10 DEF Progress, StepOK

\* An arrival that is refused has at most lowered the limit.
LEMMA AcquireRejectsKeeps ==
  ASSUME IInv, NEW p \in Pressures, AcquireRejects(p)
  PROVE  Progress
<1> DEFINE c == ObservePressure(ctl, p)
<1>1. ctl' = c /\ virtualLanes' = virtualLanes
  BY DEF AcquireRejects, Become
<1>2. Sound(c) /\ Stuck(c) /\ Follows(ctl, c)
  BY ObserveKeeps DEF IInv
<1> HIDE DEF c
<1>3. WithinLimit(ctl, c)
  BY <1>2 DEF WithinLimit, Follows
<1>4. NotPassed(ctl, c)
  BY <1>2 DEF NotPassed, Follows, Undisturbed
<1> QED BY <1>1, <1>2, <1>3, <1>4 DEF Progress, StepOK

\* Whoever releases a lease makes room.
LEMMA ReleaseKeeps ==
  ASSUME IInv, NEW r \in Requests, NEW o \in Outcomes, Release(r, o)
  PROVE  Progress
<1> DEFINE b == [ctl EXCEPT !.active = @ \ {r}, !.completed = TRUE,
                            !.frozen = @ \/ o = "upstream_error"]
<1>1. ctl' = Dispatch(b) /\ virtualLanes' = virtualLanes
  BY DEF Release, ReleaseLease, Become
<1>2. ctl \in Controllers
  BY DEF IInv, Sound, Loose
<1>3. /\ b \in Controllers /\ b.queue = ctl.queue /\ b.active = ctl.active \ {r} /\ b.age = ctl.age
      /\ b.lane = ctl.lane /\ b.lanes = ctl.lanes
  BY <1>2 DEF Controllers
<1> HIDE DEF b
<1>4. InLanes(b) = InLanes(ctl)
  BY <1>3 DEF InLanes
<1>5. Sound(b)
  BY <1>3, <1>4 DEF IInv, Sound, Loose, Waiting
<1>6. Leaves(ctl, b)
  BY <1>3 DEF Leaves
<1> QED BY <1>1, <1>5, <1>6, LeavesThenServes DEF Progress, IInv

\* Whoever gives up waiting wakes its successors.
LEMMA ExpireKeeps ==
  ASSUME IInv, NEW r \in Waiting(ctl), ctl' = ExpireEntry(ctl, r), virtualLanes' = virtualLanes
  PROVE  Progress
<1>1. Sound(Removed(ctl, r)) /\ Leaves(ctl, Removed(ctl, r))
  BY RemovedKeeps DEF IInv
<1> QED BY <1>1, LeavesThenServes DEF ExpireEntry, Progress, IInv

\* The end of a window moves the limit and serves whoever fits it.
LEMMA WindowTickKeeps ==
  ASSUME IInv, WindowTick
  PROVE  Progress
<1>1. PICK S \in SUBSET IdleLanes(ctl), util \in Utilizations(ctl), steep \in Gradients(ctl) :
        ctl' = Dispatch(Closed(Evicted(ctl, S), util, steep)) /\ virtualLanes' = virtualLanes
  BY DEF WindowTick, WindowOutcomes, Become
<1> DEFINE a == Evicted(ctl, S)
           b == Closed(a, util, steep)
<1>2. Sound(a) /\ Leaves(ctl, a)
  BY EvictedKeeps DEF IInv
<1> HIDE DEF a
<1>3. Sound(b) /\ Leaves(a, b)
  BY <1>2, ClosedKeeps
<1> HIDE DEF b
<1>4. Leaves(ctl, b)
  BY <1>2, <1>3 DEF Leaves
<1>5. StepOK(ctl, Dispatch(b))
  BY <1>3, <1>4, LeavesThenServes DEF IInv
<1> QED BY <1>1, <1>5 DEF Progress, a, b

\* The eviction of lanes leaves the shared queue alone.
LEMMA LaneEvictionKeeps ==
  ASSUME IInv, LaneEviction
  PROVE  Progress
<1>1. PICK S : ctl' = Evicted(ctl, S) /\ virtualLanes' = virtualLanes
  BY DEF LaneEviction, Become
<1> DEFINE b == Evicted(ctl, S)
<1>2. /\ Sound(b) /\ b.queue = ctl.queue /\ b.limit = ctl.limit /\ b.active = ctl.active
      /\ \A x \in Entries(ctl.queue) : b.age[x] = ctl.age[x]
  BY EvictedKeeps DEF IInv
<1> HIDE DEF b
<1>3. Stuck(b)
  <2>1. Room(b) = Room(ctl)
    BY <1>2 DEF Room
  <2>2. \A x \in Entries(ctl.queue) : ctl.age[x] \in Nat
    <3>1. ctl.age \in Ages /\ Entries(ctl.queue) \subseteq Requests
      BY Parts DEF IInv, Sound
    <3> QED BY <3>1, ConstantBounds DEF Ages
  <2>3. \A x \in Entries(ctl.queue) : b.age[x] = ctl.age[x] + 0
    BY <1>2, <2>2
  <2> QED BY <1>2, <2>1, <2>3, StuckShift DEF IInv
<1>4. WithinLimit(ctl, b) /\ NotPassed(ctl, b)
  BY <1>2 DEF WithinLimit, NotPassed
<1> QED BY <1>1, <1>2, <1>3, <1>4 DEF Progress, StepOK, b

\* Everyone who waits grows older together.
LEMMA ClockTickKeeps ==
  ASSUME IInv, ClockTick
  PROVE  Progress
<1> DEFINE age == [r \in Requests |-> IF r \in Waiting(ctl) THEN ctl.age[r] + 1 ELSE ctl.age[r]]
           b == [ctl EXCEPT !.age = age]
<1>1. ctl \in Controllers /\ ctl.age \in Ages /\ Entries(ctl.queue) \subseteq Requests
  BY Parts DEF IInv, Sound, Loose
<1>2. ctl' = b /\ virtualLanes' = virtualLanes /\ \A r \in Waiting(ctl) : ctl.age[r] < AgeCap
  BY <1>1 DEF ClockTick, Become, Controllers
<1>3. age \in [Requests -> 0..AgeCap]
  <2>1. \A r \in Requests : ctl.age[r] \in 0..AgeCap /\ AgeCap \in Nat
    BY <1>1, ConstantBounds DEF Ages
  <2> QED BY <1>2, <2>1
<1>4. \A x \in Entries(ctl.queue) : age[x] = ctl.age[x] + 1
  BY <1>1 DEF Waiting
<1> HIDE DEF age
<1>5. /\ b \in Controllers /\ b.queue = ctl.queue /\ b.active = ctl.active /\ b.limit = ctl.limit
      /\ b.lane = ctl.lane /\ b.lanes = ctl.lanes /\ b.age = age
  BY <1>1, <1>3 DEF Controllers
<1> HIDE DEF b
<1>6. Sound(b)
  BY <1>5, SameSound DEF IInv
<1>7. Stuck(b)
  <2>1. Room(b) = Room(ctl)
    BY <1>5 DEF Room
  <2> QED BY <1>4, <1>5, <2>1, StuckShift DEF IInv
<1>8. WithinLimit(ctl, b) /\ NotPassed(ctl, b)
  BY <1>5 DEF WithinLimit, NotPassed
<1> QED BY <1>2, <1>6, <1>7, <1>8 DEF Progress, StepOK

\* The new controller is sound.
LEMMA InitKeeps == Init => IInv
<1> SUFFICES ASSUME Init PROVE IInv
  OBVIOUS
<1>1. ctl = NewController /\ virtualLanes \in BOOLEAN
  BY AdmissionAssumption DEF Init
<1>2. <<>> \in Seq(Tenants) /\ <<>> \in Seq(Requests) /\ Range(<<>>) = {} /\ NoRepeat(<<>>)
  BY EmptySeq DEF Range, NoRepeat
<1>3. QueueOK(NewQueue) /\ Entries(NewQueue) = {}
  BY <1>2, QueueAssumption DEF QueueOK, NewQueue, Queues, Entries, MaxUnfittableSkips
<1>4. ctl \in Controllers
  <2>1. NewQueue \in Queues
    BY <1>3 DEF QueueOK
  <2> QED BY <1>1, <1>2, <2>1, ConstantBounds DEF NewController, Controllers, Pressures
<1>5. ctl.queue = NewQueue /\ ctl.lanes = <<>> /\ ctl.lane = [t \in Tenants |-> <<>>] /\ ctl.active = {}
  BY <1>1 DEF NewController
<1>6. InLanes(ctl) = {}
  BY <1>2, <1>5 DEF InLanes
<1>7. Sound(ctl)
  BY <1>2, <1>3, <1>4, <1>5, <1>6 DEF Sound, Loose
<1>8. Stuck(ctl)
  BY <1>3, <1>5, EmptyStuck
<1> QED BY <1>1, <1>7, <1>8 DEF IInv

\* Every step keeps the invariant, the limit and the reserved heads.
LEMMA NextKeeps == IInv /\ [Next]_vars => IInv' /\ StepOK(ctl, ctl')
<1> SUFFICES ASSUME IInv, [Next]_vars PROVE IInv' /\ StepOK(ctl, ctl')
  OBVIOUS
<1>1. Progress => IInv' /\ StepOK(ctl, ctl')
  BY DEF Progress, StepOK, IInv, Stuck, Room
<1>2. CASE \E r \in Requests, p \in Pressures : AcquireAdmits(r, p) \/ AcquireQueues(r, p)
  BY <1>1, <1>2, AcquireAdmitsKeeps, AcquireQueuesKeeps
<1>3. CASE \E p \in Pressures : AcquireRejects(p)
  BY <1>1, <1>3, AcquireRejectsKeeps
<1>4. ASSUME NEW r \in Requests, Deadline(r) \/ Abort(r) PROVE Progress
  BY <1>4, ExpireKeeps DEF Deadline, Abort, Become
<1>5. ASSUME NEW r \in Requests, NEW o \in Outcomes, Release(r, o) PROVE Progress
  BY <1>5, ReleaseKeeps
<1>6. CASE WindowTick
  BY <1>1, <1>6, WindowTickKeeps
<1>7. CASE LaneEviction
  BY <1>1, <1>7, LaneEvictionKeeps
<1>8. CASE ClockTick
  BY <1>1, <1>8, ClockTickKeeps
<1>9. CASE UNCHANGED vars
  <2>1. ctl' = ctl /\ virtualLanes' = virtualLanes
    BY <1>9 DEF vars
  <2>2. WithinLimit(ctl, ctl') /\ NotPassed(ctl, ctl')
    BY <2>1 DEF WithinLimit, NotPassed
  <2> QED BY <1>1, <2>1, <2>2 DEF Progress, StepOK, IInv
<1> QED BY <1>1, <1>2, <1>3, <1>4, <1>5, <1>6, <1>7, <1>8, <1>9 DEF Next

\* The inductive invariant holds of every behaviour.
LEMMA Invariant == Spec => []IInv
<1>1. Init => IInv
  BY InitKeeps
<1>2. IInv /\ [Next]_vars => IInv'
  BY NextKeeps
<1> QED BY <1>1, <1>2, PTL DEF Spec

-----------------------------------------------------------------------------
(* What the invariant gives.                                                *)

\* Every variable keeps its type: in particular the limit stays between MinLimit and
\* MaxLimit through every adaptation, and no head is served past more than twice.
THEOREM TypeCorrect == Spec => []TypeOK
<1>1. IInv => TypeOK
  BY DEF IInv, Sound, Loose, TypeOK
<1> QED BY <1>1, Invariant, PTL

\* The rotation of the queue and the map of the lanes name whoever has work, once, and
\* the cursor points into the rotation, through every removal.
THEOREM RotationHolds == Spec => []RotationSound
<1>1. IInv => RotationSound
  <2> SUFFICES ASSUME IInv PROVE RotationSound
    OBVIOUS
  <2>1. /\ Loose(ctl) /\ QueueOK(ctl.queue) /\ ctl.lanes \in Seq(Tenants) /\ ctl.queue.order \in Seq(Tenants)
        /\ ctl.queue.skips \in [Requests -> 0..2]
    BY Parts DEF IInv, Sound, Loose, Queues, MaxUnfittableSkips
  <2>2. IsInjective(ctl.queue.order) /\ IsInjective(ctl.lanes)
    BY <2>1 DEF IsInjective, NoRepeat, QueueOK, Loose
  <2>3. \A r \in Requests \ Entries(ctl.queue) : ctl.queue.skips[r] = 0
    BY <2>1, EntryInBucket
  <2>4. Range(ctl.lanes) = {t \in Tenants : ctl.lane[t] # <<>>}
    BY DEF IInv, Sound, Loose
  <2> QED BY <2>1, <2>2, <2>3, <2>4 DEF RotationSound, QueueOK, Loose
<1> QED BY <1>1, Invariant, PTL

\* No wake-up is lost: after every operation nobody is left whom a dispatch would admit.
THEOREM RoomUsed == Spec => []NoRoomWasted
<1>1. IInv => NoRoomWasted
  <2> SUFFICES ASSUME IInv PROVE NoRoomWasted
    OBVIOUS
  <2>1. QueueOK(ctl.queue) /\ ctl.age \in Ages /\ Room(ctl) \in Int
    BY Parts DEF IInv, Sound, Loose
  <2> QED BY <2>1, NextPlaceIs DEF IInv, Stuck, NoRoomWasted
<1> QED BY <1>1, Invariant, PTL

\* Whoever is admitted leaves the admitted cost within the limit of that moment, or runs
\* alone.
THEOREM LimitRespected == Spec => AdmitsWithinLimit
<1>1. IInv /\ [Next]_vars =>
        [ctl'.active \ ctl.active # {} =>
           \/ TotalCost[ctl'.active] <= ctl'.limit
           \/ Cardinality(ctl'.active) = 1 /\ TotalCost[ctl'.active] <= MaxLimit]_vars
  BY NextKeeps DEF StepOK, WithinLimit
<1> QED BY <1>1, Invariant, PTL DEF Spec, AdmitsWithinLimit

\* What ReservedNotPassed says of one step.
Respected ==
  \A t \in Tenants :
    ReservedHead(ctl, t) /\ KeepsHead(ctl, ctl', t) =>
      \A r \in ctl'.active \ ctl.active :
        /\ r \in HeadOf(ctl, TenantOf[r]) /\ ReservedHead(ctl, TenantOf[r])
        /\ \A s \in HeadOf(ctl, t) : ctl.age[r] >= ctl.age[s]

\* A head that reserved the room is passed by nobody but by heads like it that are as old.
THEOREM HeavyNotStarved == Spec => ReservedNotPassed
<1>1. ASSUME IInv, IInv', StepOK(ctl, ctl') PROVE Respected
  <2> SUFFICES ASSUME NEW t \in Tenants, ReservedHead(ctl, t), KeepsHead(ctl, ctl', t),
                      NEW r \in ctl'.active \ ctl.active
               PROVE  /\ r \in HeadOf(ctl, TenantOf[r]) /\ ReservedHead(ctl, TenantOf[r])
                      /\ \A s \in HeadOf(ctl, t) : ctl.age[r] >= ctl.age[s]
    BY DEF Respected
  <2> DEFINE s == Head(ctl.queue.bucket[t])
  <2>1. /\ Sound(ctl) /\ Sound(ctl') /\ QueueOK(ctl.queue) /\ QueueOK(ctl'.queue)
        /\ ctl.queue.skips \in [Requests -> 0..2] /\ ctl'.active \in SUBSET Requests
        /\ ctl.queue.bucket \in [Tenants -> Seq(Requests)]
        /\ ctl'.queue.bucket \in [Tenants -> Seq(Requests)]
    <3>1. Sound(ctl) /\ Sound(ctl')
      BY <1>1 DEF StepOK, IInv
    <3>2. QueueOK(ctl.queue) /\ QueueOK(ctl'.queue) /\ ctl.queue \in Queues /\ ctl'.queue \in Queues
          /\ ctl'.active \in SUBSET Requests
      BY <3>1, Parts DEF Sound, Loose
    <3> QED BY <3>1, <3>2 DEF Queues, MaxUnfittableSkips
  <2>2. HeadOf(ctl, t) = {s} /\ HeadOf(ctl', t) = {s} /\ ctl.queue.skips[s] >= 2
    BY DEF KeepsHead, ReservedHead, HeadOf, MaxUnfittableSkips
  <2>3. s \in Entries(ctl.queue)
    <3>1. ctl.queue.bucket[t] # <<>>
      BY <2>2 DEF HeadOf
    <3>2. s \in Range(ctl.queue.bucket[t])
      BY <2>1, <3>1, TailRange DEF QueueOK
    <3> QED BY <3>2 DEF Entries
  <2>4. s \in Entries(ctl'.queue)
    <3>1. ctl'.queue.bucket[t] # <<>> /\ s = Head(ctl'.queue.bucket[t])
      BY <2>2 DEF HeadOf
    <3>2. s \in Range(ctl'.queue.bucket[t])
      BY <2>1, <3>1, TailRange DEF QueueOK
    <3> QED BY <3>2 DEF Entries
  <2> HIDE DEF s
  <2>5. ctl.queue.skips[r] >= 2 /\ ctl.age[r] >= ctl.age[s]
    BY <1>1, <2>2, <2>3, <2>4 DEF StepOK, NotPassed
  <2>6. r \in Requests /\ ctl.queue.skips[r] > 0
    <3>1. r \in Requests
      BY <2>1
    <3>2. ctl.queue.skips[r] \in 0..2
      BY <2>1, <3>1
    <3> QED BY <2>5, <3>1, <3>2
  <2>7. HeadOf(ctl, TenantOf[r]) = {r}
    BY <2>1, <2>6 DEF QueueOK, HeadOf
  <2> QED BY <2>2, <2>5, <2>7 DEF ReservedHead, MaxUnfittableSkips
<1>2. IInv /\ [Next]_vars => [Respected]_vars
  BY <1>1, NextKeeps
<1> QED BY <1>2, Invariant, PTL DEF Spec, ReservedNotPassed, Respected

=============================================================================
