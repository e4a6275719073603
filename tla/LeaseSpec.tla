----------------------------- MODULE LeaseSpec -----------------------------
(***************************************************************************)
(* What exclusive managed leases promise, without rows, clocks, requests   *)
(* or an order of checks: every owner is bound to at most one connection   *)
(* and every connection to at most one owner; a binding is granted under a *)
(* generation the owner never had before, may move to a free connection    *)
(* under the same generation, and ends.                                    *)
(***************************************************************************)
EXTENDS Naturals

CONSTANTS Owners, Connections,
          Unbound    \* not a connection

VARIABLES binding,      \* the connection each owner holds, or Unbound
          generation    \* the last generation granted to each owner

leaseVars == <<binding, generation>>

Free(c) == \A o \in Owners : binding[o] # c

Init ==
    /\ binding = [o \in Owners |-> Unbound]
    /\ generation = [o \in Owners |-> 0]

Grant(o, c) ==
    /\ binding[o] = Unbound
    /\ Free(c)
    /\ binding' = [binding EXCEPT ![o] = c]
    /\ generation' = [generation EXCEPT ![o] = @ + 1]

Move(o, c) ==
    /\ binding[o] # Unbound
    /\ Free(c)
    /\ binding' = [binding EXCEPT ![o] = c]
    /\ UNCHANGED generation

End(S) ==
    /\ binding' = [o \in Owners |-> IF o \in S THEN Unbound ELSE binding[o]]
    /\ UNCHANGED generation

Next ==
    \/ \E S \in SUBSET Owners : End(S)
    \/ \E o \in Owners, c \in Connections : Grant(o, c) \/ Move(o, c)

Spec == Init /\ [][Next]_leaseVars
=============================================================================
