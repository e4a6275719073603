---------------------------- MODULE Subsequences ----------------------------
(***************************************************************************)
(* The filter of an array, in a form the proofs can unfold: Kept(s, S) is   *)
(* SelectSeq(s, LAMBDA e : e \in S).                                        *)
(***************************************************************************)
EXTENDS Naturals, Sequences

\* The elements of s that are in S, in their order.
Kept(s, S) ==
  LET kept[i \in 0..Len(s)] ==
        IF i = 0 THEN <<>>
        ELSE IF s[i] \in S THEN Append(kept[i - 1], s[i]) ELSE kept[i - 1]
  IN kept[Len(s)]

=============================================================================
