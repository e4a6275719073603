-------------------------- MODULE MCProviderBreaker --------------------------
(***************************************************************************)
(* Instances of ProviderBreaker for TLC, and the properties they check.     *)
(***************************************************************************)
EXTENDS ProviderBreaker, TLC

MCRequestSymmetry == Permutations(Requests)

\* The hints profile: a rate_limit failure cools for its own time.
MCKinds == {"rate_limit"}
MCCooldownByKind == [k \in MCKinds |-> 3]
\* Production callers configure no per-kind threshold.
MCNoKindThreshold == [k \in MCKinds |-> 0]
\* Without the hints no failure has a kind.
MCNoKinds == {}
MCNoKindCooldown == [k \in MCNoKinds |-> 0]
=============================================================================
