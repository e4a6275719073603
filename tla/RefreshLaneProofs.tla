------------------------- MODULE RefreshLaneProofs -------------------------
(***************************************************************************)
(* One refresh at a time in a rotation lane, for any callers and groups.    *)
(*                                                                         *)
(* The promises of a lane form a chain: every caller in it but one, the     *)
(* head, waits for another, no two wait for the same, and nobody waits for  *)
(* the tail.  So a new caller never waits for someone already waited for,   *)
(* and the caller that leaves makes at most one other the head.             *)
(***************************************************************************)
EXTENDS RefreshLane, TLAPS

InLane(p) == lane[p] \in Groups
Head(p) == InLane(p) /\ prevTail[p] = NoCaller

\* A caller is in a lane while it is in serializeRefresh, and waits only while chained.
PhasesAgree ==
  \A p \in Callers :
    /\ phase[p] = "outside" => lane[p] = NoGroup
    /\ phase[p] = "chained" => InLane(p)
    /\ prevTail[p] # NoCaller => phase[p] = "chained"

OneHead == \A p, q \in Callers : Head(p) /\ Head(q) /\ lane[p] = lane[q] => p = q

HeadedLaneHasTail == \A p \in Callers : Head(p) => groupTail[lane[p]] # NoCaller

TailInLane ==
  \A g \in Groups : groupTail[g] # NoCaller => lane[groupTail[g]] = g

\* Who waits, waits for a caller of its lane that is not the tail, and for no one
\* another waits for.
Chained ==
  \A p \in Callers :
    prevTail[p] # NoCaller =>
      /\ lane[prevTail[p]] = lane[p]
      /\ groupTail[lane[p]] # prevTail[p]
      /\ \A q \in Callers : prevTail[q] = prevTail[p] => q = p

LaneInv ==
  /\ LaneTypeOK /\ PhasesAgree /\ OneHead /\ HeadedLaneHasTail /\ TailInLane /\ Chained

LEMMA LaneInitInv == LaneInit => LaneInv
BY LaneAssumption
   DEF LaneInit, LaneInv, LaneTypeOK, Phases, PhasesAgree, OneHead, HeadedLaneHasTail,
       TailInLane, Chained, Head, InLane

LEMMA EnterInv ==
  ASSUME LaneInv, NEW p \in Callers, NEW g \in Groups \union {NoGroup}, Enter(p, g)
  PROVE  LaneInv'
<1>0. LaneTypeOK'
  BY DEF LaneInv, LaneTypeOK, Enter, Phases
<1>1. CASE g = NoGroup
  <2>1. /\ lane' = lane /\ UNCHANGED <<groupTail, prevTail>>
        /\ phase' = [phase EXCEPT ![p] = "running"] /\ phase[p] = "outside"
    BY <1>1 DEF LaneInv, LaneTypeOK, PhasesAgree, Enter
  <2>2. PhasesAgree'
    BY <2>1 DEF LaneInv, LaneTypeOK, PhasesAgree, InLane
  <2> QED
    BY <1>0, <2>1, <2>2
       DEF LaneInv, OneHead, HeadedLaneHasTail, TailInLane, Chained, Head, InLane
<1>2. CASE g \in Groups
  <2> DEFINE t == groupTail[g]
  <2>0. g # NoGroup
    BY <1>2, LaneAssumption
  <2>1. /\ phase[p] = "outside" /\ lane[p] = NoGroup /\ prevTail[p] = NoCaller
        /\ t \in Callers \union {NoCaller} /\ t # p
    BY <1>2, <2>0, LaneAssumption DEF LaneInv, LaneTypeOK, PhasesAgree, TailInLane, Enter
  <2>2. /\ lane'[p] = g /\ prevTail'[p] = t /\ phase'[p] = "chained" /\ groupTail'[g] = p
        /\ \A q \in Callers \ {p} :
             lane'[q] = lane[q] /\ prevTail'[q] = prevTail[q] /\ phase'[q] = phase[q]
        /\ \A h \in Groups \ {g} : groupTail'[h] = groupTail[h]
    BY <1>2, <2>0 DEF LaneInv, LaneTypeOK, Enter
  <2>3. \A q \in Callers : prevTail[q] # NoCaller =>
          /\ prevTail[q] \in Callers /\ prevTail[q] # p /\ lane[q] \in Groups
    BY <2>1, LaneAssumption DEF LaneInv, LaneTypeOK, PhasesAgree, Chained, InLane
  <2>4. PhasesAgree'
    BY <1>2, <2>1, <2>2 DEF LaneInv, PhasesAgree, InLane
  <2>5. OneHead'
    BY <1>2, <2>1, <2>2 DEF LaneInv, OneHead, HeadedLaneHasTail, Head, InLane
  <2>6. HeadedLaneHasTail'
    BY <1>2, <2>1, <2>2, LaneAssumption
       DEF LaneInv, HeadedLaneHasTail, Head, InLane
  <2>7. TailInLane'
    BY <1>2, <2>1, <2>2, LaneAssumption DEF LaneInv, LaneTypeOK, TailInLane
  <2>8. Chained'
    <3>1. ASSUME t # NoCaller PROVE \A q \in Callers : prevTail[q] # t
      BY <1>2, <3>1 DEF LaneInv, Chained, TailInLane
    <3>2. /\ t # NoCaller => t \in Callers /\ lane[t] = g
      BY <1>2, <2>1 DEF LaneInv, TailInLane
    <3>3. SUFFICES ASSUME NEW q \in Callers, prevTail'[q] # NoCaller
                   PROVE  /\ lane'[prevTail'[q]] = lane'[q]
                          /\ groupTail'[lane'[q]] # prevTail'[q]
                          /\ \A r \in Callers : prevTail'[r] = prevTail'[q] => r = q
      BY DEF Chained
    <3>4. CASE q = p
      BY <2>1, <2>2, <3>1, <3>2, <3>3, <3>4
    <3>5. CASE q # p
      BY <2>1, <2>2, <2>3, <3>1, <3>3, <3>5 DEF LaneInv, Chained
    <3> QED BY <3>4, <3>5
  <2> QED BY <1>0, <2>4, <2>5, <2>6, <2>7, <2>8 DEF LaneInv
<1> QED BY <1>1, <1>2

LEMMA StartInv ==
  ASSUME LaneInv, NEW p \in Callers, StartRefresh(p)
  PROVE  LaneInv'
BY DEF LaneInv, LaneTypeOK, Phases, PhasesAgree, OneHead, HeadedLaneHasTail, TailInLane,
       Chained, Head, InLane, StartRefresh

LEMMA ReleaseInv ==
  ASSUME LaneInv, NEW p \in Callers, phase[p] \in {"running", "settling"}, ReleaseLane(p)
  PROVE  LaneInv'
<1>0. LaneTypeOK'
  BY DEF LaneInv, LaneTypeOK, ReleaseLane, Phases
<1>1. prevTail[p] = NoCaller /\ phase'[p] = "outside" /\ lane'[p] = NoGroup
  BY DEF LaneInv, LaneTypeOK, PhasesAgree, ReleaseLane
<1>2. \A q \in Callers \ {p} : lane'[q] = lane[q] /\ phase'[q] = phase[q]
  BY DEF LaneInv, LaneTypeOK, ReleaseLane
<1>3. \A q \in Callers :
        prevTail'[q] = IF prevTail[q] = p THEN NoCaller ELSE prevTail[q]
  BY DEF ReleaseLane
<1>4. \A g \in Groups :
        groupTail'[g] = IF g = lane[p] /\ groupTail[g] = p THEN NoCaller ELSE groupTail[g]
  BY DEF ReleaseLane
<1>5. PhasesAgree'
  BY <1>1, <1>2, <1>3 DEF LaneInv, PhasesAgree, InLane
<1>6. OneHead'
  <2>1. SUFFICES ASSUME NEW q \in Callers, NEW r \in Callers,
                        Head(q)', Head(r)', lane'[q] = lane'[r]
                 PROVE  q = r
    BY DEF OneHead
  <2>2. q # p /\ r # p /\ lane[q] = lane[r] /\ lane[q] \in Groups
    BY <1>1, <1>2, <2>1, LaneAssumption DEF Head, InLane
  <2>3. prevTail[q] \in {NoCaller, p} /\ prevTail[r] \in {NoCaller, p}
    BY <1>3, <2>1 DEF Head
  <2>4. prevTail[q] = p => lane[q] = lane[p] /\ \A s \in Callers : prevTail[s] = p => s = q
    BY LaneAssumption DEF LaneInv, Chained
  <2>5. prevTail[r] = p => lane[r] = lane[p]
    BY LaneAssumption DEF LaneInv, Chained
  <2> QED
    BY <1>1, <2>2, <2>3, <2>4, <2>5 DEF LaneInv, OneHead, Head, InLane
<1>7. HeadedLaneHasTail'
  <2>1. SUFFICES ASSUME NEW q \in Callers, Head(q)'
                 PROVE  groupTail'[lane'[q]] # NoCaller
    BY DEF HeadedLaneHasTail
  <2>2. q # p /\ lane'[q] = lane[q] /\ lane[q] \in Groups /\ prevTail[q] \in {NoCaller, p}
    BY <1>1, <1>2, <1>3, <2>1, LaneAssumption DEF Head, InLane
  <2>3. CASE prevTail[q] = p
    <3>1. lane[q] = lane[p] /\ groupTail[lane[p]] # p
      BY <2>3, LaneAssumption DEF LaneInv, Chained
    <3> QED BY <1>1, <1>4, <2>2, <3>1 DEF LaneInv, HeadedLaneHasTail, Head, InLane
  <2>4. CASE prevTail[q] = NoCaller
    <3>1. lane[q] # lane[p]
      BY <1>1, <2>2, <2>4 DEF LaneInv, OneHead, Head, InLane
    <3> QED BY <1>4, <2>2, <2>4, <3>1 DEF LaneInv, HeadedLaneHasTail, Head, InLane
  <2> QED BY <2>2, <2>3, <2>4
<1>8. TailInLane'
  <2>1. SUFFICES ASSUME NEW g \in Groups, groupTail'[g] # NoCaller
                 PROVE  lane'[groupTail'[g]] = g
    BY DEF TailInLane
  <2>2. groupTail'[g] = groupTail[g] /\ groupTail[g] \in Callers /\ lane[groupTail[g]] = g
    BY <1>4, <2>1 DEF LaneInv, LaneTypeOK, TailInLane
  <2>3. groupTail[g] # p
    BY <1>4, <2>1, <2>2
  <2> QED BY <1>2, <2>2, <2>3
<1>9. Chained'
  <2>1. SUFFICES ASSUME NEW q \in Callers, prevTail'[q] # NoCaller
                 PROVE  /\ lane'[prevTail'[q]] = lane'[q]
                        /\ groupTail'[lane'[q]] # prevTail'[q]
                        /\ \A r \in Callers : prevTail'[r] = prevTail'[q] => r = q
    BY DEF Chained
  <2>2. prevTail'[q] = prevTail[q] /\ prevTail[q] # NoCaller /\ prevTail[q] # p /\ q # p
    BY <1>1, <1>3, <2>1
  <2>3. prevTail[q] \in Callers /\ lane[q] \in Groups
    BY <2>2 DEF LaneInv, LaneTypeOK, PhasesAgree, InLane
  <2>4. lane'[prevTail[q]] = lane[prevTail[q]] /\ lane'[q] = lane[q]
    BY <1>2, <2>2, <2>3
  <2> QED BY <1>3, <1>4, <2>1, <2>2, <2>3, <2>4 DEF LaneInv, Chained
<1> QED BY <1>0, <1>5, <1>6, <1>7, <1>8, <1>9 DEF LaneInv

LEMMA EndInv ==
  ASSUME LaneInv, NEW p \in Callers, EndRefresh(p)
  PROVE  LaneInv'
<1>1. CASE lane[p] \in Groups /\ HasSuccessor(p) /\ Spacing
  BY <1>1 DEF LaneInv, LaneTypeOK, Phases, PhasesAgree, OneHead, HeadedLaneHasTail,
              TailInLane, Chained, Head, InLane, EndRefresh
<1>2. CASE ~(lane[p] \in Groups /\ HasSuccessor(p) /\ Spacing)
  BY <1>2, ReleaseInv DEF EndRefresh
<1> QED BY <1>1, <1>2

LEMMA LaneStepInv == LaneInv /\ [LaneNext]_laneVars => LaneInv'
<1> SUFFICES ASSUME LaneInv, [LaneNext]_laneVars PROVE LaneInv'
  OBVIOUS
<1>1. CASE UNCHANGED laneVars
  BY <1>1 DEF laneVars, LaneInv, LaneTypeOK, PhasesAgree, OneHead, HeadedLaneHasTail,
              TailInLane, Chained, Head, InLane
<1>2. ASSUME NEW p \in Callers, LaneStep(p) PROVE LaneInv'
  <2>1. CASE \E g \in Groups \union {NoGroup} : Enter(p, g)
    BY <2>1, EnterInv
  <2>2. CASE StartRefresh(p)
    BY <2>2, StartInv
  <2>3. CASE EndRefresh(p)
    BY <2>3, EndInv
  <2>4. CASE LeaveLane(p)
    BY <2>4, ReleaseInv DEF LeaveLane
  <2> QED BY <1>2, <2>1, <2>2, <2>3, <2>4 DEF LaneStep
<1> QED BY <1>1, <1>2 DEF LaneNext

LEMMA LaneInvImplies == LaneInv => OneRefreshPerGroup
BY DEF LaneInv, LaneTypeOK, PhasesAgree, OneHead, Head, InLane, OneRefreshPerGroup

\* serializeRefresh lets one caller of a group post at a time, settle gap included:
\* the promise chain is a lock, and dropping the lane never opens it.
THEOREM LaneExclusive == LaneSpec => []OneRefreshPerGroup
<1>1. LaneSpec => []LaneInv
  BY LaneInitInv, LaneStepInv, PTL DEF LaneSpec
<1> QED BY <1>1, LaneInvImplies, PTL
=============================================================================
