---------------------------- MODULE QuotaRefresh ----------------------------
(***************************************************************************)
(* refreshAndUpdateCredentialsWithResolver (providerLimits/                 *)
(* credentialRefresh.ts), the refresh of the quota page and of the warm-up, *)
(* over the rotation lanes of RefreshLane.                                  *)
(*                                                                         *)
(* It runs executor.refreshCredentials inside serializeRefresh.  Where the  *)
(* executor goes through getAccessToken, as those of codex, openai and      *)
(* claude do, the same provider's lane is entered once more from inside     *)
(* it: the inner call is a caller of its own here.                          *)
(***************************************************************************)
EXTENDS RefreshLane

CONSTANTS
  Quota,          \* the callers that refresh for the quota page
  InnerOf,        \* caller in Quota -> the call its executor makes
  GroupOf         \* caller -> rotation group of its provider, or NoGroup

VARIABLE
  nested          \* caller in Quota -> what has become of the inner call

vars == <<laneVars, nested>>

Inner == {InnerOf[p] : p \in Quota}

Init ==
  /\ LaneInit
  /\ nested = [p \in Quota |-> "none"]

\* serializeRefresh is called, from getAccessToken or from the quota page.
Ask(p) ==
  /\ p \notin Inner
  /\ Enter(p, GroupOf[p])
  /\ UNCHANGED nested

\* The turn has come, and fn() starts.
Run(p) == StartRefresh(p) /\ UNCHANGED nested

\* fn() of the quota page: the executor's getAccessToken ends in the rotation map or at
\* a fresh row, or goes to the lane.
RefreshCredentials(p) ==
  /\ p \in Quota
  /\ phase[p] = "running" /\ nested[p] = "none"
  /\ \/ /\ Enter(InnerOf[p], GroupOf[p])
        /\ nested' = [nested EXCEPT ![p] = "asked"]
     \/ /\ nested' = [nested EXCEPT ![p] = "answered"]
        /\ UNCHANGED laneVars

\* Whoever leaves the lane answers the caller around it, and may ask again.
Left(p) ==
  nested' = [q \in Quota |->
    IF phase'[p] # "outside" THEN nested[q]
    ELSE IF q = p THEN "none"
    ELSE IF InnerOf[q] = p THEN "answered"
    ELSE nested[q]]

\* fn() has settled; that of the quota page only when its executor has answered.
Finish(p) ==
  /\ p \in Quota => nested[p] = "answered"
  /\ EndRefresh(p)
  /\ Left(p)

EndGap(p) == LeaveLane(p) /\ Left(p)

Advance(p) == Run(p) \/ RefreshCredentials(p) \/ Finish(p) \/ EndGap(p)

Next == \E p \in Callers : Ask(p) \/ Advance(p)

\* Every promise whose turn has come is run, and every fetch ends.
FairSpec == Init /\ [][Next]_vars /\ \A p \in Callers : WF_vars(Advance(p))

-----------------------------------------------------------------------------
\* Whoever waits in a lane gets its turn (refreshSerializer.ts: "its `finally` still
\* releases the lane, so the queue keeps flowing even after a failed refresh").
LaneFlows == \A p \in Callers : phase[p] = "chained" ~> phase[p] # "chained"
=============================================================================
