------------------------ MODULE MCRateLimitSemaphore ------------------------
(***************************************************************************)
(* Instances of RateLimitSemaphore for TLC.                                 *)
(***************************************************************************)
EXTENDS RateLimitSemaphore, TLC

MCSymmetry == Permutations(Requests) \union Permutations(GateIds)
=============================================================================
