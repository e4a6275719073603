------------------------ MODULE MCAdmissionController ------------------------
(***************************************************************************)
(* Instances of AdmissionController for TLC.                                *)
(***************************************************************************)
EXTENDS AdmissionController

CONSTANTS tA, tB, heavy, light, small1, small2

\* A tenant with a heavy request and a light one behind it, and one with light ones.
MCTenantOf == [r \in Requests |-> IF r \in {heavy, light} THEN tA ELSE tB]
MCCostOf == [r \in Requests |-> IF r = heavy THEN 2 ELSE 1]
=============================================================================
