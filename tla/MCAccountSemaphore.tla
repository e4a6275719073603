------------------------- MODULE MCAccountSemaphore -------------------------
(***************************************************************************)
(* An instance of AccountSemaphore for TLC: two accounts behind a provider. *)
(***************************************************************************)
EXTENDS AccountSemaphore, TLC

MCSymmetry == Permutations(Requests)

MCAccounts == {"acct:a", "acct:b"}
MCKeyOrder == <<"acct:a", "acct:b", "provider">>
\* A request is for one account; the provider gate may be disabled.
MCKeySets == {{"acct:a", "provider"}, {"acct:b", "provider"}, {"acct:a"}}
\* The operator may change the provider limit between calls.
MCLimits == [k \in {"acct:a", "acct:b", "provider"} |-> IF k = "provider" THEN {1, 2} ELSE {1}]
=============================================================================
