--------------------------- MODULE MCQuotaRefresh ---------------------------
(***************************************************************************)
(* An instance of QuotaRefresh for TLC: the quota page of one account of a  *)
(* group, and a request's refresh of a sibling.                             *)
(***************************************************************************)
EXTENDS QuotaRefresh

CONSTANTS page, inner, request, group

MCInnerOf == [p \in {page} |-> inner]
MCGroupOf == [p \in Callers |-> group]
=============================================================================
