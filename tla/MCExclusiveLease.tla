-------------------------- MODULE MCExclusiveLease --------------------------
(* Small instances of ExclusiveLease.  Requests, owners and connections are *)
(* interchangeable.                                                         *)
EXTENDS ExclusiveLease, TLC

MCSymmetry ==
    Permutations(Requests) \cup Permutations(Owners) \cup Permutations(Connections)
    \cup Permutations(Keys)
=============================================================================
