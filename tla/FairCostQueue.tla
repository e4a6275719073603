---------------------------- MODULE FairCostQueue ----------------------------
(***************************************************************************)
(* The bounded multi-tenant queue of the admission controller               *)
(* (open-sse/services/admission/queue.ts), as operators from one queue      *)
(* value to the next.                                                       *)
(*                                                                         *)
(* A queue serves its tenants' buckets in the order of a cursor, from the   *)
(* first head that fits the room there is.  A head that others were served  *)
(* past MaxUnfittableSkips times reserves the room: nobody is served before *)
(* it.  Places count from the cursor: place 0 is the tenant it points at.   *)
(***************************************************************************)
EXTENDS Integers, FiniteSets, SequencesExt, Subsequences

CONSTANTS
  Tenants,
  Requests,
  TenantOf,         \* request -> its tenant
  CostOf,           \* request -> its cost
  MaxQueueCount,
  MaxQueueCost

ASSUME QueueAssumption ==
  /\ IsFiniteSet(Requests)
  /\ TenantOf \in [Requests -> Tenants]
  /\ CostOf \in [Requests -> Nat \ {0}]
  /\ MaxQueueCount \in Nat \ {0}
  /\ MaxQueueCost \in Nat \ {0}

MaxUnfittableSkips == 2
Nowhere == -1

Queues ==
  [order : Seq(Tenants), bucket : [Tenants -> Seq(Requests)], cursor : Nat,
   skips : [Requests -> 0 .. MaxUnfittableSkips]]

NewQueue ==
  [order |-> <<>>, bucket |-> [t \in Tenants |-> <<>>], cursor |-> 0,
   skips |-> [r \in Requests |-> 0]]

Entries(q) == UNION {Range(q.bucket[t]) : t \in Tenants}

\* The cost of all requests of S.
TotalCost[S \in SUBSET Requests] ==
  IF S = {} THEN 0
  ELSE LET r == CHOOSE r \in S : TRUE IN CostOf[r] + TotalCost[S \ {r}]

\* canAccept, of a queue that holds the requests S.
CanAccept(S, r) ==
  /\ Cardinality(S) < MaxQueueCount
  /\ CostOf[r] <= MaxQueueCost - TotalCost[S]

Enqueue(q, r) ==
  LET t == TenantOf[r]
  IN [q EXCEPT !.bucket[t] = Append(@, r),
               !.order = IF q.bucket[t] = <<>> THEN Append(@, t) ELSE @]

-----------------------------------------------------------------------------
(* dequeue.                                                                 *)

Places(q) == 0 .. Len(q.order) - 1
Index(q, place) == (q.cursor + place) % Len(q.order)
TenantAt(q, place) == q.order[Index(q, place) + 1]
HeadAt(q, place) == Head(q.bucket[TenantAt(q, place)])

Fitting(q, room) == {i \in Places(q) : CostOf[HeadAt(q, i)] <= room}
Reserved(q) == {i \in Places(q) : q.skips[HeadAt(q, i)] >= MaxUnfittableSkips}

\* The oldest of the heads in S, and among equals the nearest to the cursor.
Oldest(q, age, S) ==
  CHOOSE i \in S : \A j \in S :
    \/ age[HeadAt(q, i)] > age[HeadAt(q, j)]
    \/ age[HeadAt(q, i)] = age[HeadAt(q, j)] /\ i <= j

\* The place that is served next: a reserved head, or the first that fits.
NextPlace(q, age, room) ==
  LET fitting == Fitting(q, room)
      reserved == Oldest(q, age, Reserved(q))
  IN CASE Reserved(q) = {} /\ fitting # {} -> Min(fitting)
       [] Reserved(q) # {} /\ reserved \in fitting -> reserved
       [] OTHER -> Nowhere

\* The heads served past: they are nearer to the cursor and did not fit.
Bypassed(q, place) ==
  IF Reserved(q) # {} THEN {} ELSE {HeadAt(q, i) : i \in 0 .. place - 1}

\* takeAt: the bucket loses its head, an empty bucket its place in the order.
Take(q, place) ==
  LET t == TenantAt(q, place)
      rest == Tail(q.bucket[t])
      left == Len(q.order) - 1
      index == Index(q, place)
      skipped == [r \in Requests |->
        IF r \in Bypassed(q, place) THEN q.skips[r] + 1 ELSE q.skips[r]]
  IN [order |-> IF rest = <<>> THEN Kept(q.order, Tenants \ {t}) ELSE q.order,
      bucket |-> [q.bucket EXCEPT ![t] = rest],
      cursor |-> CASE rest # <<>> -> (index + 1) % Len(q.order)
                   [] rest = <<>> /\ left = 0 -> 0
                   [] rest = <<>> /\ left # 0 -> index % left,
      skips |-> [skipped EXCEPT ![HeadAt(q, place)] = 0]]

-----------------------------------------------------------------------------
(* removeById.                                                              *)

\* Mutant of RemoveById: the cursor keeps its index when a bucket before it goes.
RemoveByIdKeepsCursor(q, r) ==
  LET t == TenantOf[r]
      rest == Kept(q.bucket[t], Requests \ {r})
  IN [order |-> IF rest = <<>> THEN Kept(q.order, Tenants \ {t}) ELSE q.order,
      bucket |-> [q.bucket EXCEPT ![t] = rest],
      cursor |-> q.cursor,
      skips |-> [q.skips EXCEPT ![r] = 0]]

\* The cursor stays at the tenant it points at, or goes on to its successor.
RemoveById(q, r) ==
  LET t == TenantOf[r]
      rest == Kept(q.bucket[t], Requests \ {r})
      left == Len(q.order) - 1
      before == \E i \in 1 .. q.cursor : q.order[i] = t
  IN [order |-> IF rest = <<>> THEN Kept(q.order, Tenants \ {t}) ELSE q.order,
      bucket |-> [q.bucket EXCEPT ![t] = rest],
      cursor |-> CASE rest = <<>> /\ before -> q.cursor - 1
                   [] rest = <<>> /\ ~before /\ q.cursor >= left -> 0
                   [] OTHER -> q.cursor,
      skips |-> [q.skips EXCEPT ![r] = 0]]
=============================================================================
