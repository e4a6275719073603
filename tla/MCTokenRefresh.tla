--------------------------- MODULE MCTokenRefresh ---------------------------
(***************************************************************************)
(* Instances of TokenRefresh for TLC.                                       *)
(***************************************************************************)
EXTENDS TokenRefresh, TLC

CONSTANTS p1, p2, acct1, acct2, group

\* Two sibling accounts in one lane.
MCSiblings == [c \in Connections |-> group]

\* One sibling is refreshed by two requests after a 401, under the guard and with
\* give-ups; the other by the sweep, in the lane, and beside it by an executor of the
\* kind kiro has, past the lane, and edited.  In a real group all executors are of one
\* kind; here each sibling meets the other's.
MCKinds ==
  [p \in Callers |-> [c \in Connections |->
     IF c = acct1 THEN {"reactive"} ELSE IF p = p1 THEN {"sweep"} ELSE {"executor", "edit"}]]
MCFaults == [c \in Connections |-> AllFaults]

\* The chat path alone, in a quiet environment.
MCReactive == [p \in Callers |-> [c \in Connections |-> {"reactive"}]]
MCNoFaults == [c \in Connections |-> {}]
=============================================================================
