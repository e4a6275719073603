----------------------------- MODULE RefreshLane -----------------------------
(***************************************************************************)
(* serializeRefresh (open-sse/services/refreshSerializer.ts): the lane in   *)
(* which the OAuth refreshes of one rotation group run one after another.   *)
(*                                                                         *)
(* groupTail holds, per group, the promise of the last refresh chained in   *)
(* it.  A promise is named here by the caller that resolves it; the promise *)
(* `prevTail.then(() => mine)` of a caller resolves when that caller calls  *)
(* releaseMine(), since it has by then waited for its own prevTail.  A      *)
(* caller of a provider outside ROTATION_LOCK_GROUP runs at once.           *)
(***************************************************************************)
EXTENDS Naturals

CONSTANTS
  Callers,        \* concurrent calls of getAccessToken
  Groups,         \* rotation groups, the values of ROTATION_LOCK_GROUP
  NoGroup,        \* rotationGroupFor's null
  NoCaller,       \* no promise: an empty map entry, a resolved predecessor
  Spacing         \* getRefreshSpacingMs() > 0

ASSUME LaneAssumption ==
  /\ NoGroup \notin Groups
  /\ NoCaller \notin Callers
  /\ Spacing \in BOOLEAN

VARIABLES
  groupTail,      \* group -> the caller whose promise is the tail, or NoCaller
  prevTail,       \* caller -> the caller it waits for, or NoCaller once resolved
  phase,          \* caller -> where it is in serializeRefresh
  lane            \* caller -> the group it is in

laneVars == <<groupTail, prevTail, phase, lane>>

Phases == {"outside", "chained", "running", "settling"}

LaneTypeOK ==
  /\ groupTail \in [Groups -> Callers \union {NoCaller}]
  /\ prevTail \in [Callers -> Callers \union {NoCaller}]
  /\ phase \in [Callers -> Phases]
  /\ lane \in [Callers -> Groups \union {NoGroup}]

LaneInit ==
  /\ groupTail = [g \in Groups |-> NoCaller]
  /\ prevTail = [p \in Callers |-> NoCaller]
  /\ phase = [p \in Callers |-> "outside"]
  /\ lane = [p \in Callers |-> NoGroup]

\* The call: a caller with a group chains itself behind the tail, any other runs
\* fn() in the same step.
Enter(p, g) ==
  /\ phase[p] = "outside"
  /\ lane' = [lane EXCEPT ![p] = g]
  /\ IF g = NoGroup
     THEN /\ phase' = [phase EXCEPT ![p] = "running"]
          /\ UNCHANGED <<groupTail, prevTail>>
     ELSE /\ phase' = [phase EXCEPT ![p] = "chained"]
          /\ prevTail' = [prevTail EXCEPT ![p] = groupTail[g]]
          /\ groupTail' = [groupTail EXCEPT ![g] = p]

\* `await prevTail` continues, and fn() posts to the token endpoint.
StartRefresh(p) ==
  /\ phase[p] = "chained"
  /\ prevTail[p] = NoCaller
  /\ phase' = [phase EXCEPT ![p] = "running"]
  /\ UNCHANGED <<groupTail, prevTail, lane>>

HasSuccessor(p) == groupTail[lane[p]] # p

\* Mutant of ReleaseLane: the lane is dropped by whoever leaves it.
ReleaseDropsLane(p) ==
  /\ prevTail' = [q \in Callers |-> IF prevTail[q] = p THEN NoCaller ELSE prevTail[q]]
  /\ groupTail' = [g \in Groups |-> IF g = lane[p] THEN NoCaller ELSE groupTail[g]]
  /\ phase' = [phase EXCEPT ![p] = "outside"]
  /\ lane' = [lane EXCEPT ![p] = NoGroup]

\* Mutant of ReleaseLane: releaseMine() is forgotten.
ReleaseUnheard(p) ==
  /\ groupTail' = [g \in Groups |->
       IF g = lane[p] /\ groupTail[g] = p THEN NoCaller ELSE groupTail[g]]
  /\ phase' = [phase EXCEPT ![p] = "outside"]
  /\ lane' = [lane EXCEPT ![p] = NoGroup]
  /\ UNCHANGED prevTail

\* releaseMine(), and the lane is dropped when nobody chained behind p.
ReleaseLane(p) ==
  /\ prevTail' = [q \in Callers |-> IF prevTail[q] = p THEN NoCaller ELSE prevTail[q]]
  /\ groupTail' = [g \in Groups |->
       IF g = lane[p] /\ groupTail[g] = p THEN NoCaller ELSE groupTail[g]]
  /\ phase' = [phase EXCEPT ![p] = "outside"]
  /\ lane' = [lane EXCEPT ![p] = NoGroup]

\* fn() has settled, well or badly: the settle gap is paid only when a sibling is
\* already chained behind.
EndRefresh(p) ==
  /\ phase[p] = "running"
  /\ IF lane[p] \in Groups /\ HasSuccessor(p) /\ Spacing
     THEN /\ phase' = [phase EXCEPT ![p] = "settling"]
          /\ UNCHANGED <<groupTail, prevTail, lane>>
     ELSE ReleaseLane(p)

\* The gap is over.
LeaveLane(p) ==
  /\ phase[p] = "settling"
  /\ ReleaseLane(p)

LaneStep(p) ==
  \/ \E g \in Groups \union {NoGroup} : Enter(p, g)
  \/ StartRefresh(p)
  \/ EndRefresh(p)
  \/ LeaveLane(p)

LaneNext == \E p \in Callers : LaneStep(p)

LaneSpec == LaneInit /\ [][LaneNext]_laneVars

-----------------------------------------------------------------------------
\* Of those who go through serializeRefresh, no two of one group are past its await at
\* the same time, the settle gap included (refreshSerializer.ts: "concurrency=1 across
\* every connection in a rotation group").
OneRefreshPerGroup ==
  \A p, q \in Callers :
    (/\ phase[p] \in {"running", "settling"} /\ phase[q] \in {"running", "settling"}
     /\ lane[p] = lane[q] /\ lane[p] \in Groups)
      => p = q
=============================================================================
