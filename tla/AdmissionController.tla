------------------------- MODULE AdmissionController -------------------------
(***************************************************************************)
(* The adaptive admission controller in mode "enforce"                      *)
(* (open-sse/services/admission/controller.ts, adaptation.ts), as the       *)
(* runtime and the chat wrapper use it.                                     *)
(*                                                                         *)
(* A request is admitted while the cost of all admitted requests stays      *)
(* within a limit that follows latency and memory pressure; otherwise it    *)
(* waits in one shared FairCostQueue or, with virtual lanes on, in a lane   *)
(* of its tenant.  Every method runs without an await, so it is one step.   *)
(* The state of the controller is one record, and the methods are operators *)
(* from one record to the next.                                             *)
(***************************************************************************)
EXTENDS FairCostQueue

CONSTANTS
  MinLimit, InitialLimit, MaxLimit,
  MaxWait,        \* ticks of the clock until an entry's deadline
  LaneTtl,        \* ticks until an idle lane is evicted
  LaneModes       \* the values of OMNIROUTE_CHAT_VIRTUAL_LANES to consider

ASSUME AdmissionAssumption ==
  /\ MinLimit \in Nat \ {0} /\ InitialLimit \in Nat \ {0} /\ MaxLimit \in Nat \ {0}
  /\ MinLimit <= MaxLimit
  /\ MaxWait \in Nat \ {0} /\ LaneTtl \in Nat \ {0}
  /\ LaneModes \in SUBSET BOOLEAN

VARIABLES
  ctl,            \* the controller
  virtualLanes    \* config.virtualLanes

vars == <<ctl, virtualLanes>>

Pressures == {"normal", "high", "critical"}
Severity == [normal |-> 0, high |-> 1, critical |-> 2]
AgeCap == Max({MaxWait, LaneTtl})

\* clampLimit; the recovery ceiling is the clamped initial limit.
Clamped(limit) == Min({MaxLimit, Max({MinLimit, limit})})
RecoveryCeiling == Clamped(InitialLimit)

\* lanes is the key order of the map virtualLanes; age the time an entry has waited.
Controllers ==
  [queue : Queues, lanes : Seq(Tenants), lane : [Tenants -> Seq(Requests)],
   age : [Requests -> 0 .. AgeCap], active : SUBSET Requests,
   limit : MinLimit .. MaxLimit, pressure : Pressures, consumed : BOOLEAN,
   frozen : BOOLEAN, completed : BOOLEAN, busy : BOOLEAN]

NewController ==
  [queue |-> NewQueue, lanes |-> <<>>, lane |-> [t \in Tenants |-> <<>>],
   age |-> [r \in Requests |-> 0], active |-> {},
   limit |-> RecoveryCeiling, pressure |-> "normal", consumed |-> FALSE,
   frozen |-> FALSE, completed |-> FALSE, busy |-> FALSE]

InLanes(c) == UNION {Range(c.lane[t]) : t \in Tenants}
Waiting(c) == Entries(c.queue) \union InLanes(c)
Room(c) == c.limit - TotalCost[c.active]
Overdue(c, r) == c.age[r] >= MaxWait

Init ==
  /\ ctl = NewController
  /\ virtualLanes \in LaneModes

-----------------------------------------------------------------------------
(* Dispatch.                                                                *)

\* The integral of the window's active cost grows from now on.
Admit(c, r) == [c EXCEPT !.active = @ \union {r}, !.age[r] = 0, !.busy = TRUE]

\* An overdue entry is rejected when its turn comes, whether its timer fired or not.
Serve(c, r) == IF Overdue(c, r) THEN [c EXCEPT !.age[r] = 0] ELSE Admit(c, r)

\* removeEmptyLane, of every lane.
Pruned(c) == [c EXCEPT !.lanes = Kept(@, {t \in Tenants : c.lane[t] # <<>>})]

\* A lane's turn: overdue entries that fit are dropped up to the first entry that is
\* not both, which is admitted if it fits.
ServeLane(c, t) ==
  LET entry == c.lane[t]
      room == Room(c)
      fits == {i \in DOMAIN entry : CostOf[entry[i]] <= room}
      late == {i \in DOMAIN entry : Overdue(c, entry[i])}
      stop == Min({i \in 1 .. Len(entry) + 1 : i \notin fits \intersect late})
      dropped == {entry[i] : i \in 1 .. stop - 1}
      admitted == {entry[i] : i \in {stop} \intersect fits}
  IN [c EXCEPT !.lane[t] = Kept(@, Requests \ (dropped \union admitted)),
               !.age = [r \in Requests |-> IF r \in dropped \union admitted THEN 0 ELSE @[r]],
               !.active = @ \union admitted,
               !.busy = @ \/ admitted # {}]

\* dispatchLanes: each lane has a turn.
DispatchLanes(c) ==
  LET turn[i \in 0 .. Len(c.lanes)] ==
        IF i = 0 THEN c ELSE ServeLane(turn[i - 1], c.lanes[i])
  IN Pruned(turn[Len(c.lanes)])

\* A round of dispatch: the shared queue serves an entry, if one fits.
ServeNext(c) ==
  LET place == NextPlace(c.queue, c.age, Room(c))
  IN IF place = Nowhere THEN c
     ELSE Serve([c EXCEPT !.queue = Take(@, place)], HeadAt(c.queue, place))

\* dispatch: rounds until none makes progress; each serves one entry of the shared
\* queue.  The lanes follow only once it is empty.
Dispatch(c) ==
  LET size == Cardinality(Entries(c.queue))
      round[i \in 0 .. size] == IF i = 0 THEN c ELSE ServeNext(round[i - 1])
      served == round[size]
  IN IF served.queue.order = <<>> THEN DispatchLanes(served) ELSE served

-----------------------------------------------------------------------------
(* The methods.                                                             *)

\* observePressure, with what a fresh sample of memory pressure says.
ObservePressure(c, p) ==
  LET raised == [c EXCEPT !.pressure = IF Severity[p] > Severity[@] THEN p ELSE @]
  IN IF p = "critical" /\ ~c.consumed
     THEN Dispatch([raised EXCEPT !.limit = Max({MinLimit, @ \div 2}), !.consumed = TRUE])
     ELSE raised

\* Mutant of MaySolo: a request above the limit runs whatever else is running.
MaySoloAmongOthers(c, r) ==
  CostOf[r] <= MaxLimit /\ Waiting(c) = {} /\ c.pressure = "normal"

\* shouldAdmitSolo: a request above a collapsed limit may run alone.
MaySolo(c, r) ==
  /\ CostOf[r] <= MaxLimit
  /\ c.active = {} /\ Waiting(c) = {}
  /\ c.pressure = "normal"

\* Mutant of FitsNow: an arrival takes the room without looking at the queue.
FitsNowDespiteQueue(c, r) == CostOf[r] <= Room(c)

\* Nobody waits in the shared queue and there is room.
FitsNow(c, r) == c.queue.order = <<>> /\ CostOf[r] <= Room(c)

MayJoin(c, r) ==
  /\ CostOf[r] <= c.limit
  /\ CanAccept(Entries(c.queue), r)
  /\ virtualLanes => CanAccept(Range(c.lane[TenantOf[r]]), r)

\* The tail of the queue, or of the lane of the tenant.
Queued(c, r) ==
  LET t == TenantOf[r]
  IN IF virtualLanes
     THEN [c EXCEPT !.lane[t] = Append(@, r),
                    !.lanes = IF c.lane[t] = <<>> THEN Append(@, t) ELSE @]
     ELSE [c EXCEPT !.queue = Enqueue(@, r)]

\* removeById, in the shared queue and then in the lanes.
Removed(c, r) ==
  LET without == [c EXCEPT !.lane[TenantOf[r]] = Kept(@, Requests \ {r}),
                           !.age[r] = 0]
  IN IF r \in Entries(c.queue)
     THEN [c EXCEPT !.queue = RemoveById(@, r), !.age[r] = 0]
     ELSE Pruned(without)

\* Mutant of ExpireEntry: entries of the lanes are not looked for.
ExpireEntryOfQueue(c, r) ==
  IF r \in Entries(c.queue) THEN Dispatch(Removed(c, r)) ELSE c

\* Mutant of ExpireEntry: the successors are not dispatched.
ExpireEntrySilently(c, r) == Removed(c, r)

ExpireEntry(c, r) == Dispatch(Removed(c, r))

\* releaseLease.  An upstream error freezes the growth of this window and a timeout does
\* the same; a local rejection and a cancellation are to the controller like a success.
ReleaseLease(c, r, outcome) ==
  Dispatch([c EXCEPT !.active = @ \ {r}, !.completed = TRUE,
                     !.frozen = @ \/ outcome = "upstream_error"])

\* A lane whose entries have all waited its time to live may have been idle as long.
IdleLanes(c) == {t \in Range(c.lanes) : c.age[Last(c.lane[t])] >= LaneTtl}

\* evictIdleLanes, of the lanes in S.
Evicted(c, S) ==
  Pruned([c EXCEPT !.lane = [t \in Tenants |-> IF t \in S THEN <<>> ELSE @[t]],
                   !.age = [r \in Requests |-> IF r \in InLanes(c) /\ TenantOf[r] \in S
                                               THEN 0 ELSE @[r]]])

-----------------------------------------------------------------------------
(* closeAdaptationWindow.                                                   *)

\* Mutant of Recovered: a collapsed limit waits for completed work to grow.
RecoveredByWork(c, util, next) == next

\* applyIdleRecovery, of an idle window.
Recovered(c, util, next) ==
  IF /\ util = "low" /\ c.pressure # "critical" /\ ~c.frozen /\ ~c.completed
     /\ c.limit < RecoveryCeiling
  THEN Min({RecoveryCeiling, next + 1})
  ELSE next

\* The default factors and step; steep is a latency gradient over its threshold.
Adapted(c, util, steep) ==
  CASE c.pressure = "critical" -> IF c.consumed THEN c.limit ELSE c.limit \div 2
    [] c.pressure = "high" -> (4 * c.limit) \div 5
    [] c.pressure = "normal" /\ steep -> (4 * c.limit) \div 5
    [] c.pressure = "normal" /\ ~steep /\ ~c.frozen /\ util = "high" /\ c.completed ->
         c.limit + 1
    [] OTHER -> c.limit

\* Utilization is that of a window in which something was active; latency samples
\* come with completed requests.
Utilizations(c) == IF c.busy THEN {"low", "middle", "high"} ELSE {"low"}
Gradients(c) == IF c.completed THEN BOOLEAN ELSE {FALSE}

\* Mutant of Closed: the new limit is not clamped.
ClosedUnclamped(c, util, steep) ==
  [c EXCEPT !.limit = Recovered(c, util, Adapted(c, util, steep)),
            !.pressure = "normal", !.consumed = FALSE, !.frozen = FALSE,
            !.completed = FALSE, !.busy = c.active # {}]

Closed(c, util, steep) ==
  [c EXCEPT !.limit = Clamped(Recovered(c, util, Adapted(c, util, steep))),
            !.pressure = "normal", !.consumed = FALSE, !.frozen = FALSE,
            !.completed = FALSE, !.busy = c.active # {}]

-----------------------------------------------------------------------------
(* The actions.                                                             *)

Become(c) == ctl' = c /\ UNCHANGED virtualLanes

Idle(r) == r \notin ctl.active \union Waiting(ctl)

\* acquire.  The runtime feeds a fresh pressure sample to the controller first.
AcquireAdmits(r, p) ==
  LET c == ObservePressure(ctl, p)
  IN /\ Idle(r)
     /\ CASE CostOf[r] > c.limit -> MaySolo(c, r)
          [] OTHER -> FitsNow(c, r)
     /\ Become(Admit(c, r))

AcquireQueues(r, p) ==
  LET c == ObservePressure(ctl, p)
  IN /\ Idle(r)
     /\ ~FitsNow(c, r) /\ MayJoin(c, r)
     /\ Become(Dispatch(Dispatch(Queued(c, r))))

\* Oversized, full, aborted before, refused by the pressure guard, or a fan-out probe
\* that would have to wait: its maxWaitMs of 0 makes enqueue throw before it queues.
AcquireRejects(p) == Become(ObservePressure(ctl, p))

Release(r, outcome) ==
  /\ r \in ctl.active
  /\ Become(ReleaseLease(ctl, r, outcome))

Deadline(r) ==
  /\ r \in Waiting(ctl) /\ Overdue(ctl, r)
  /\ Become(ExpireEntry(ctl, r))

Abort(r) ==
  /\ r \in Waiting(ctl)
  /\ Become(ExpireEntry(ctl, r))

\* What the end of the window may make of the controller.
WindowOutcomes ==
  {Dispatch(c) : c \in
     {Closed(Evicted(ctl, S), util, steep) :
        S \in SUBSET IdleLanes(ctl), util \in Utilizations(ctl), steep \in Gradients(ctl)}}

WindowTick == \E d \in WindowOutcomes : Become(d)

LaneEviction ==
  \E S \in (SUBSET IdleLanes(ctl)) \ {{}} : Become(Evicted(ctl, S))

\* Time stops at AgeCap until the entry that is overdue has been answered, so the entries
\* of a queue keep the order of their times of arrival.
ClockTick ==
  /\ Waiting(ctl) # {} /\ \A r \in Waiting(ctl) : ctl.age[r] < AgeCap
  /\ Become([ctl EXCEPT !.age = [r \in Requests |->
       IF r \in Waiting(ctl) THEN @[r] + 1 ELSE @[r]]])

Outcomes == {"success", "upstream_error"}

Next ==
  \/ \E r \in Requests, p \in Pressures : AcquireAdmits(r, p) \/ AcquireQueues(r, p)
  \/ \E p \in Pressures : AcquireRejects(p)
  \/ \E r \in Requests : Deadline(r) \/ Abort(r) \/ \E o \in Outcomes : Release(r, o)
  \/ WindowTick
  \/ LaneEviction
  \/ ClockTick

Spec == Init /\ [][Next]_vars

\* Timers fire: the clock's, the window's and the deadlines of entries.  Nothing is
\* assumed of releases, which wait for upstreams and clients.  Each conjunct is the weak
\* fairness of its action, with the condition under which the action changes something
\* written out.
TimersFire ==
  /\ \/ []<>(Waiting(ctl) = {} \/ \E r \in Waiting(ctl) : ctl.age[r] = AgeCap)
     \/ []<><<ClockTick>>_vars
  /\ []<>(WindowOutcomes = {ctl}) \/ []<><<WindowTick>>_vars
  /\ \A r \in Requests :
       \/ []<>~(r \in Waiting(ctl) /\ Overdue(ctl, r) /\ ExpireEntry(ctl, r) # ctl)
       \/ []<><<Deadline(r)>>_vars

FairSpec == Spec /\ TimersFire

-----------------------------------------------------------------------------
(* Properties.                                                              *)

TypeOK ==
  /\ ctl \in Controllers
  /\ virtualLanes \in BOOLEAN

\* Through every dequeue, abort, deadline and eviction the rotation of the shared queue
\* names each tenant with waiting work once and no other, its cursor points into it,
\* the lane map does the same for the lanes, and nobody waits twice or while active
\* (queue.ts removeById's "leave cursor so it now points at the logical successor").
RotationSound ==
  LET q == ctl.queue
  IN /\ IsInjective(q.order) /\ IsInjective(ctl.lanes)
     /\ Range(q.order) = {t \in Tenants : q.bucket[t] # <<>>}
     /\ Range(ctl.lanes) = {t \in Tenants : ctl.lane[t] # <<>>}
     /\ \/ q.cursor < Len(q.order)
        \/ q.order = <<>> /\ q.cursor = 0
     /\ Entries(q) \intersect InLanes(ctl) = {}
     /\ ctl.active \intersect Waiting(ctl) = {}
     /\ \A r \in Requests \ Entries(q) : q.skips[r] = 0

\* No wake-up is lost: whatever frees room or removes the head that reserved it
\* (release, abort, deadline, a grown limit), nobody is left in the shared queue whom
\* a dispatch would admit (controller.ts expireEntry: "so a now-fitting successor is
\* not stranded until unrelated activity").
NoRoomWasted == NextPlace(ctl.queue, ctl.age, Room(ctl)) = Nowhere

\* Whoever is admitted, by arrival or dispatch, while limit and pressure move, leaves
\* the admitted cost within the limit of that moment, or runs alone (#10111: "a single
\* bounded solo request").
AdmitsWithinLimit ==
  [][ctl'.active \ ctl.active # {} =>
       \/ TotalCost[ctl'.active] <= ctl'.limit
       \/ Cardinality(ctl'.active) = 1 /\ TotalCost[ctl'.active] <= MaxLimit]_vars

HeadOf(c, t) == IF c.queue.bucket[t] = <<>> THEN {} ELSE {Head(c.queue.bucket[t])}
KeepsHead(c, d, t) == HeadOf(c, t) # {} /\ HeadOf(d, t) = HeadOf(c, t)

ReservedHead(c, t) == \E r \in HeadOf(c, t) : c.queue.skips[r] >= MaxUnfittableSkips

\* A head that others were served past often enough is not passed any more, neither by
\* the queue nor by new arrivals, but for another such head that is as old
\* (controller.ts acquire: "prevents direct arrivals from indefinitely jumping an older
\* reserved weighted request").
ReservedNotPassed ==
  [][\A t \in Tenants :
       ReservedHead(ctl, t) /\ KeepsHead(ctl, ctl', t) =>
         \A r \in ctl'.active \ ctl.active :
           /\ r \in HeadOf(ctl, TenantOf[r]) /\ ReservedHead(ctl, TenantOf[r])
           /\ \A s \in HeadOf(ctl, t) : ctl.age[r] >= ctl.age[s]]_vars

\* Everyone who waits, in the queue or in a lane, is admitted or told no.
WaitersAnswered == \A r \in Requests : r \in Waiting(ctl) ~> r \notin Waiting(ctl)

\* A collapsed limit does not stay collapsed: with nothing active and no pressure the
\* windows bring it back to its healthy start (#10111 idle recovery).
IdleRecovers ==
  <>[](ctl.active = {} /\ ctl.pressure = "normal") => <>[](ctl.limit >= RecoveryCeiling)
=============================================================================
