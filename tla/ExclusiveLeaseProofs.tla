------------------------ MODULE ExclusiveLeaseProofs ------------------------
(***************************************************************************)
(* Proofs about ExclusiveLease for every set of owners, keys, connections  *)
(* and requests, every lease duration and every bound.                     *)
(*                                                                         *)
(* Every operation of the store works on the table expire() leaves, so the *)
(* invariant is stated of a table (TableOK) and each operator on tables    *)
(* has a lemma saying that it keeps it.                                    *)
(***************************************************************************)
EXTENDS ExclusiveLease, TLAPS

\* What is true of every table a transaction reads or leaves.
TableOK(t, gen) ==
    /\ t \in [Owners -> [Generations -> Row]]
    /\ \A o \in Owners : \A g \in Generations :
          /\ Active(t, o, g) => g = gen[o] /\ t[o][g].conn \in Connections
          /\ t[o][g].state = "NONE" <=> g > gen[o]
    /\ \A o, p \in Owners : \A g, h \in Generations :
          Active(t, o, g) /\ Active(t, p, h) /\ o # p => t[o][g].conn # t[p][h].conn

\* A request past its arrival knows its owner and key, a selected one its connection.
RequestOK(q) ==
    /\ q \in Request
    /\ q.pc # "idle" => q.owner \in Owners /\ q.key \in Keys /\ q.gen \in Generations
    /\ q.pc = "selected" => q.conn \in Connections

IInv ==
    /\ TableOK(rows, generation)
    /\ generation \in [Owners -> 0 .. MaxGeneration]
    /\ req \in [Requests -> Request]
    /\ \A r \in Requests : RequestOK(req[r])

-----------------------------------------------------------------------------
(* Tables                                                                  *)

\* Rows that were ended, granted or renewed are rows.
LEMMA RowTypes ==
    /\ NoRow \in Row
    /\ \A how \in EndStates : Ended(how) \in Row /\ Ended(how).state = how
    /\ \A k \in Keys, c \in Connections :
          /\ Granted(k, c) \in Row
          /\ Granted(k, c).state = "ACTIVE" /\ Granted(k, c).conn = c
          /\ Granted(k, c).key = k /\ Granted(k, c).left = Ttl
BY LeaseAssumption DEF NoRow, Ended, Granted, Row, EndStates

\* expire() ends the active rows without time left and touches no other row.
LEMMA ExpireShape ==
    ASSUME NEW t \in [Owners -> [Generations -> Row]]
    PROVE  /\ Expire(t) \in [Owners -> [Generations -> Row]]
           /\ \A o \in Owners : \A g \in Generations :
                 /\ Active(Expire(t), o, g) <=> Active(t, o, g) /\ t[o][g].left > 0
                 /\ Active(Expire(t), o, g) => Expire(t)[o][g] = t[o][g]
                 /\ ~Active(t, o, g) => Expire(t)[o][g] = t[o][g]
                 /\ Active(t, o, g) /\ ~Active(Expire(t), o, g)
                       => Expire(t)[o][g] = Ended("EXPIRED")
<1>1. \A o \in Owners : \A g \in Generations : t[o][g] \in Row
  OBVIOUS
<1>2. ASSUME NEW o \in Owners, NEW g \in Generations
      PROVE  Expire(t)[o][g] = IF t[o][g].state = "ACTIVE" /\ t[o][g].left = 0
                               THEN Ended("EXPIRED") ELSE t[o][g]
  BY DEF Expire
<1>3. Expire(t) \in [Owners -> [Generations -> Row]]
  BY <1>1, RowTypes DEF Expire, EndStates
<1>4. ASSUME NEW o \in Owners, NEW g \in Generations
      PROVE  t[o][g].left \in Nat
  BY <1>1, LeaseAssumption DEF Row
<1> QED BY <1>2, <1>3, <1>4, RowTypes DEF Active, EndStates

\* So it keeps what is true of tables.
LEMMA ExpireKeeps ==
    ASSUME NEW t, NEW gen, TableOK(t, gen)
    PROVE  TableOK(Expire(t), gen)
<1>1. t \in [Owners -> [Generations -> Row]]
  BY DEF TableOK
<1>2. \A o \in Owners : \A g \in Generations :
          Expire(t)[o][g].state = "NONE" <=> t[o][g].state = "NONE"
  BY <1>1, ExpireShape, RowTypes DEF Active, EndStates
<1> QED BY <1>1, <1>2, ExpireShape DEF TableOK

\* Rows that are as active as before or less, on the connections they had, stay that way.
LEMMA FewerActiveKeeps ==
    ASSUME NEW t, NEW gen, TableOK(t, gen),
           NEW u \in [Owners -> [Generations -> Row]],
           \A p \in Owners : \A h \in Generations :
              /\ Active(u, p, h) => Active(t, p, h) /\ u[p][h].conn = t[p][h].conn
              /\ u[p][h].state = "NONE" <=> t[p][h].state = "NONE"
    PROVE  TableOK(u, gen)
<1>1. ASSUME NEW p \in Owners, NEW h \in Generations
      PROVE  /\ Active(u, p, h) => h = gen[p] /\ u[p][h].conn \in Connections
             /\ u[p][h].state = "NONE" <=> h > gen[p]
  BY DEF TableOK
<1>2. ASSUME NEW p \in Owners, NEW q \in Owners, NEW h \in Generations, NEW i \in Generations,
             Active(u, p, h), Active(u, q, i), p # q
      PROVE  u[p][h].conn # u[q][i].conn
  <2>1. Active(t, p, h) /\ Active(t, q, i)
    BY <1>2
  <2>2. t[p][h].conn # t[q][i].conn
    BY <2>1, <1>2 DEF TableOK
  <2> QED BY <2>2, <1>2
<1>3. TableOK(u, gen)
  BY <1>1, <1>2 DEF TableOK
<1> QED BY <1>3

\* Ending, renewing or leaving alone the row of one generation keeps what is true of tables.
LEMMA SameConnectionKeeps ==
    ASSUME NEW t, NEW gen, TableOK(t, gen),
           NEW o \in Owners, NEW g \in Generations, NEW row \in Row,
           Active(t, o, g), row.state # "NONE",
           row.state = "ACTIVE" => row.conn = t[o][g].conn
    PROVE  TableOK(With(t, o, g, row), gen)
<1> DEFINE u == With(t, o, g, row)
<1>1. t \in [Owners -> [Generations -> Row]]
  BY DEF TableOK
<1>2. u \in [Owners -> [Generations -> Row]]
  BY <1>1 DEF With
<1>3. \A p \in Owners : \A h \in Generations :
          u[p][h] = IF p = o /\ h = g THEN row ELSE t[p][h]
  BY <1>1 DEF With
<1> HIDE DEF u
<1>4. \A p \in Owners : \A h \in Generations :
          Active(u, p, h) => Active(t, p, h) /\ u[p][h].conn = t[p][h].conn
  BY <1>3 DEF Active
<1>5. \A p \in Owners : \A h \in Generations : u[p][h].state = "NONE" <=> t[p][h].state = "NONE"
  BY <1>3 DEF Active
<1>6. TableOK(u, gen)
  BY <1>2, <1>4, <1>5, FewerActiveKeeps
<1> QED BY <1>6 DEF u

\* An update that ends a row does.
LEMMA EndKeeps ==
    ASSUME NEW t, NEW gen, TableOK(t, gen), NEW o \in Owners, NEW k, NEW g,
           NEW how \in EndStates
    PROVE  TableOK(EndIfFenced(t, o, k, g, how), gen)
<1>1. CASE Fenced(t, o, k, g)
  <2>1. g \in Generations /\ Active(t, o, g)
    BY <1>1 DEF Fenced
  <2>2. Ended(how) \in Row /\ Ended(how).state # "NONE" /\ Ended(how).state # "ACTIVE"
    BY RowTypes DEF EndStates
  <2> QED BY <1>1, <2>1, <2>2, SameConnectionKeeps DEF EndIfFenced
<1>2. CASE ~Fenced(t, o, k, g)
  BY <1>2 DEF EndIfFenced
<1> QED BY <1>1, <1>2

\* A grant of a free connection under a new generation, or a move to one, does.
LEMMA GrantKeeps ==
    ASSUME NEW t, NEW gen \in [Owners -> 0 .. MaxGeneration], TableOK(t, gen),
           NEW o \in Owners, NEW g \in Generations, NEW k \in Keys, NEW c \in Connections,
           ~Occupied(t, c),
           NEW gen2, gen2 = [gen EXCEPT ![o] = g],
           \/ Active(t, o, g)
           \/ g = gen[o] + 1 /\ ~HasLease(t, o)
    PROVE  TableOK(With(t, o, g, Granted(k, c)), gen2)
<1> DEFINE u == With(t, o, g, Granted(k, c))
<1>1. t \in [Owners -> [Generations -> Row]] /\ Granted(k, c) \in Row
  BY RowTypes DEF TableOK
<1>2. u \in [Owners -> [Generations -> Row]]
  BY <1>1 DEF With
<1>3. \A p \in Owners : \A h \in Generations :
          u[p][h] = IF p = o /\ h = g THEN Granted(k, c) ELSE t[p][h]
  BY <1>1 DEF With
<1> HIDE DEF u
<1>4. \A p \in Owners : gen2[p] = IF p = o THEN g ELSE gen[p]
  OBVIOUS
<1>5. \A h \in Generations : Active(t, o, h) => h = g
  <2>1. CASE Active(t, o, g)
    BY <2>1 DEF TableOK
  <2>2. CASE ~HasLease(t, o)
    BY <2>2 DEF HasLease
  <2> QED BY <2>1, <2>2
<1>6. ASSUME NEW p \in Owners, NEW h \in Generations
      PROVE  /\ Active(u, p, h) => h = gen2[p] /\ u[p][h].conn \in Connections
             /\ u[p][h].state = "NONE" <=> h > gen2[p]
  <2>1. CASE p # o
    BY <2>1, <1>3, <1>4 DEF TableOK, Active
  <2>2. CASE p = o /\ h = g
    BY <2>2, <1>3, <1>4, RowTypes DEF Active, Generations
  <2>3. CASE p = o /\ h # g
    <3>1. u[p][h] = t[p][h] /\ ~Active(u, p, h)
      BY <2>3, <1>3, <1>5 DEF Active
    <3>2. g = gen[o] \/ g = gen[o] + 1
      BY DEF TableOK
    <3>3. t[p][h].state = "NONE" <=> h > gen[o]
      BY <2>3 DEF TableOK
    <3>4. h > gen[o] <=> h > g
      BY <2>3, <3>2, <3>3, <1>1, LeaseAssumption DEF Generations, TableOK
    <3> QED BY <2>3, <3>1, <3>3, <3>4, <1>4
  <2> QED BY <2>1, <2>2, <2>3
<1>7. ASSUME NEW p \in Owners, NEW q \in Owners, NEW h \in Generations, NEW i \in Generations,
             Active(u, p, h), Active(u, q, i), p # q
      PROVE  u[p][h].conn # u[q][i].conn
  <2>1. \A x \in Owners : \A y \in Generations : Active(t, x, y) => t[x][y].conn # c
    BY DEF Occupied, HeldBy
  <2>2. CASE p # o /\ q # o
    BY <1>7, <2>2, <1>3 DEF TableOK, Active
  <2>3. CASE p = o
    <3>1. h = g
      BY <1>7, <2>3, <1>3, <1>5 DEF Active
    <3>2. u[p][h].conn = c /\ u[q][i] = t[q][i]
      BY <3>1, <2>3, <1>7, <1>3, RowTypes
    <3> QED BY <3>2, <2>1, <1>7 DEF Active
  <2>4. CASE q = o
    <3>1. i = g
      BY <1>7, <2>4, <1>3, <1>5 DEF Active
    <3>2. u[q][i].conn = c /\ u[p][h] = t[p][h]
      BY <3>1, <2>4, <1>7, <1>3, RowTypes
    <3> QED BY <3>2, <2>1, <1>7 DEF Active
  <2> QED BY <2>2, <2>3, <2>4
<1>8. TableOK(u, gen2)
  <2>1. \A p \in Owners : \A h \in Generations :
           /\ Active(u, p, h) => h = gen2[p] /\ u[p][h].conn \in Connections
           /\ u[p][h].state = "NONE" <=> h > gen2[p]
    BY <1>6
  <2>2. \A p, q \in Owners : \A h, i \in Generations :
           Active(u, p, h) /\ Active(u, q, i) /\ p # q => u[p][h].conn # u[q][i].conn
    BY <1>7
  <2> QED BY <1>2, <2>1, <2>2, Zenon DEF TableOK
<1> QED BY <1>8 DEF u

\* A renewal does.
LEMMA RenewKeeps ==
    ASSUME NEW t, NEW gen, TableOK(t, gen), NEW o \in Owners, NEW g \in Generations,
           Active(t, o, g)
    PROVE  TableOK(With(t, o, g, Renewed(t[o][g])), gen)
<1> DEFINE row == Renewed(t[o][g])
<1>1. t[o][g] \in Row
  BY DEF TableOK
<1>2. row \in Row /\ row.state = "ACTIVE" /\ row.conn = t[o][g].conn
  BY <1>1, LeaseAssumption DEF Row, Active, Renewed
<1> HIDE DEF row
<1>3. row.state # "NONE"
  BY <1>2
<1>4. TableOK(With(t, o, g, row), gen)
  BY <1>2, <1>3, SameConnectionKeeps
<1> QED BY <1>4 DEF row

\* So does the clock.
LEMMA TickKeeps ==
    ASSUME NEW t, NEW gen, TableOK(t, gen)
    PROVE  TableOK([o \in Owners |-> [g \in Generations |-> Aged(t[o][g])]], gen)
<1> DEFINE u == [o \in Owners |-> [g \in Generations |-> Aged(t[o][g])]]
<1>1. \A o \in Owners : \A g \in Generations : t[o][g] \in Row
  BY DEF TableOK
<1>2. ASSUME NEW row \in Row
      PROVE  Aged(row) \in Row /\ Aged(row).state = row.state /\ Aged(row).conn = row.conn
  BY LeaseAssumption DEF Row, Aged
<1>3. /\ u \in [Owners -> [Generations -> Row]]
      /\ \A o \in Owners : \A g \in Generations :
            u[o][g].state = t[o][g].state /\ u[o][g].conn = t[o][g].conn
  BY <1>1, <1>2
<1> HIDE DEF u
<1>4. TableOK(u, gen)
  BY <1>3, FewerActiveKeeps DEF Active
<1> QED BY <1>4 DEF u
-----------------------------------------------------------------------------
(* Steps.  What a step does to the store is one of six things.             *)

Reconciled == Expire(rows)

LeavesRows ==
    /\ rows' \in {rows, Reconciled, [o \in Owners |-> [g \in Generations |-> Aged(rows[o][g])]]}
    /\ generation' = generation

EndsRow ==
    \E o \in Owners, g \in Generations, how \in EndStates :
        /\ Active(Reconciled, o, g)
        /\ rows' = With(Reconciled, o, g, Ended(how))
        /\ generation' = generation

RenewsRow ==
    \E o \in Owners, g \in Generations :
        /\ Active(Reconciled, o, g)
        /\ rows' = With(Reconciled, o, g, Renewed(Reconciled[o][g]))
        /\ generation' = generation

MovesRow(r, p) ==
    /\ req[r].pc = "selected" /\ req'[r] # req[r]
    /\ Fenced(Reconciled, req[r].owner, req[r].key, p)
    /\ req[r].mode = "request" => p = req[r].gen
    /\ ~Occupied(Reconciled, req[r].conn)
    /\ rows' = With(Reconciled, req[r].owner, p, Granted(req[r].key, req[r].conn))
    /\ generation' = generation

GrantsRow(r, next) ==
    /\ req[r].pc = "selected"
    /\ next = generation[req[r].owner] + 1
    /\ ~HasLease(Reconciled, req[r].owner)
    /\ ~Occupied(Reconciled, req[r].conn)
    /\ rows' = With(Reconciled, req[r].owner, next, Granted(req[r].key, req[r].conn))
    /\ generation' = [generation EXCEPT ![req[r].owner] = next]

StoreStep ==
    \/ LeavesRows
    \/ EndsRow
    \/ RenewsRow
    \/ \E r \in Requests, g \in Generations : MovesRow(r, g) \/ GrantsRow(r, g)

\* An update that ends a row ends an active one or leaves the table.
LEMMA EndShape ==
    ASSUME NEW o \in Owners, NEW k, NEW g, NEW how \in EndStates,
           rows' = EndIfFenced(Reconciled, o, k, g, how), generation' = generation
    PROVE  LeavesRows \/ EndsRow
BY DEF EndIfFenced, Fenced, LeavesRows, EndsRow

\* A selecting request knows its owner, key and generation.
LEMMA SelectingOK ==
    ASSUME IInv, NEW r \in Requests, NEW q \in Selecting(r)
    PROVE  /\ q \in Request /\ q.owner \in Owners /\ q.key \in Keys /\ q.gen \in Generations
           /\ q.executions \in 0 .. MaxExecutions
<1>1. CASE req[r].pc = "idle"
  <2>1. q \in Arrivals
    BY <1>1 DEF Selecting
  <2> QED BY <2>1, LeaseAssumption DEF Arrivals, Request, Generations
<1>2. CASE req[r].pc = "selecting"
  <2>1. q = req[r]
    BY <1>2 DEF Selecting
  <2> QED BY <2>1, <1>2 DEF IInv, RequestOK, Request
<1>3. CASE req[r].pc \notin {"idle", "selecting"}
  BY <1>3 DEF Selecting
<1> QED BY <1>1, <1>2, <1>3

\* Selecting a connection leaves fewer of them untried.
Chosen(q, c) == [q EXCEPT !.pc = "selected", !.conn = c, !.untried = q.untried \ {c}]

\* A chosen connection makes a proper request of it.
LEMMA ChosenOK ==
    ASSUME NEW q \in Request, NEW c \in Connections,
           q.owner \in Owners, q.key \in Keys, q.gen \in Generations
    PROVE  /\ Chosen(q, c) \in Request /\ RequestOK(Chosen(q, c))
           /\ Chosen(q, c).executions = q.executions
BY DEF Chosen, Request, RequestOK

\* Selecting a connection ends the binding at most, and leaves requests as they should be.
LEMMA SelectionStep ==
    ASSUME IInv, NEW r \in Requests, Selection(r)
    PROVE  /\ LeavesRows \/ EndsRow
           /\ req' \in [Requests -> Request]
           /\ \A s \in Requests : RequestOK(req'[s])
<1>1. PICK q \in Selecting(r) :
         \/ SelectNone(r, q)
         \/ SelectRefused(r, q)
         \/ \E eligible \in SUBSET Connections :
               \/ SelectWaits(r, q, eligible)
               \/ \E c \in Connections : Select(r, q, eligible, c)
  BY DEF Selection
<1>2. /\ q \in Request /\ q.owner \in Owners /\ q.key \in Keys /\ q.gen \in Generations
  BY SelectingOK
<1>3. Idle \in Request /\ RequestOK(Idle)
  BY LeaseAssumption DEF Idle, Request, RequestOK
<1>4. req \in [Requests -> Request] /\ \A s \in Requests : RequestOK(req[s])
  BY DEF IInv
<1>5. Answer(r) => req' \in [Requests -> Request] /\ \A s \in Requests : RequestOK(req'[s])
  BY <1>3, <1>4 DEF Answer
<1>6. CASE SelectNone(r, q)
  <2>1. \/ rows' = Reconciled
        \/ rows' = EndIfFenced(Reconciled, q.owner, q.key, q.gen, "INVALIDATED")
    BY <1>6 DEF SelectNone, Reconciled
  <2>2. LeavesRows \/ EndsRow
    BY <2>1, <1>2, <1>6, EndShape DEF SelectNone, EndStates, LeavesRows
  <2> QED BY <2>2, <1>5, <1>6 DEF SelectNone
<1>7. CASE SelectRefused(r, q)
  BY <1>5, <1>7 DEF SelectRefused, LeavesRows, Reconciled
<1>8. ASSUME NEW eligible \in SUBSET Connections, SelectWaits(r, q, eligible)
      PROVE  /\ LeavesRows \/ EndsRow
             /\ req' \in [Requests -> Request]
             /\ \A s \in Requests : RequestOK(req'[s])
  <2>1. \/ rows' = Reconciled
        \/ rows' = EndIfFenced(Reconciled, q.owner, q.key, q.gen, "INVALIDATED")
    BY <1>8 DEF SelectWaits, Reconciled
  <2>2. LeavesRows \/ EndsRow
    BY <2>1, <1>2, <1>8, EndShape DEF SelectWaits, EndStates, LeavesRows
  <2> QED BY <2>2, <1>5, <1>8 DEF SelectWaits
<1>9. ASSUME NEW eligible \in SUBSET Connections, NEW c \in Connections,
             Select(r, q, eligible, c)
      PROVE  /\ LeavesRows \/ EndsRow
             /\ req' \in [Requests -> Request]
             /\ \A s \in Requests : RequestOK(req'[s])
  <2>1. req' = [req EXCEPT ![r] = Chosen(q, c)]
    BY <1>9 DEF Select, Chosen
  <2>2. Chosen(q, c) \in Request /\ RequestOK(Chosen(q, c))
    BY <1>2, ChosenOK
  <2> QED BY <1>4, <1>9, <2>1, <2>2 DEF Select, LeavesRows, Reconciled
<1> QED BY <1>1, <1>6, <1>7, <1>8, <1>9

\* Claiming the selected connection leaves, moves or grants one row.
LEMMA TransitionStep ==
    ASSUME IInv, NEW r \in Requests, NEW g \in Generations, req[r].pc = "selected",
           Transition(r, Reconciled, g), generation' = generation
    PROVE  /\ LeavesRows \/ \E p \in Generations : MovesRow(r, p)
           /\ req' \in [Requests -> Request]
           /\ \A s \in Requests : RequestOK(req'[s])
<1> DEFINE q == req[r]
           p == IF q.mode = "acquire" THEN g ELSE q.gen
<1>1. /\ q \in Request /\ q.owner \in Owners /\ q.key \in Keys /\ q.gen \in Generations
      /\ q.conn \in Connections
  BY DEF IInv, RequestOK
<1>2. p \in Generations
  BY <1>1
<1>3. Idle \in Request /\ RequestOK(Idle)
  BY LeaseAssumption DEF Idle, Request, RequestOK
<1>4. req \in [Requests -> Request] /\ \A s \in Requests : RequestOK(req[s])
  BY DEF IInv
<1>5. Claimed(q) \in Request /\ RequestOK(Claimed(q)) /\ Claimed(q).pc # "selected"
  BY <1>1, <1>3 DEF Claimed, Request, RequestOK, Idle
<1>6. Reselect(q) \in Request /\ RequestOK(Reselect(q))
  BY <1>1, LeaseAssumption DEF Reselect, Request, RequestOK
<1>7. \E n \in {Idle, Claimed(q), Reselect(q)} : req' = [req EXCEPT ![r] = n]
  BY DEF Transition, Answer
<1>8. req' \in [Requests -> Request] /\ \A s \in Requests : RequestOK(req'[s])
  BY <1>3, <1>4, <1>5, <1>6, <1>7
<1>9. CASE rows' = Reconciled
  BY <1>8, <1>9 DEF LeavesRows
<1>10. CASE /\ Fenced(Reconciled, q.owner, q.key, p)
            /\ ~Occupied(Reconciled, q.conn)
            /\ req' = [req EXCEPT ![r] = Claimed(@)]
            /\ rows' = With(Reconciled, q.owner, p, Granted(q.key, q.conn))
  <2>1. req'[r] # req[r]
    BY <1>10, <1>4, <1>5
  <2>2. q.mode = "request" => p = q.gen
    OBVIOUS
  <2>3. MovesRow(r, p)
    BY <1>10, <2>1, <2>2 DEF MovesRow
  <2> QED BY <1>2, <1>8, <2>3
<1> QED BY <1>9, <1>10 DEF Transition

\* Every step of a request is one of the steps of the store.
LEMMA RequestStepShape ==
    ASSUME IInv, NEW r \in Requests, RequestStep(r)
    PROVE  /\ StoreStep
           /\ req' \in [Requests -> Request]
           /\ \A s \in Requests : RequestOK(req'[s])
<1> DEFINE q == req[r]
<1>1. Idle \in Request /\ RequestOK(Idle)
  BY LeaseAssumption DEF Idle, Request, RequestOK
<1>2. req \in [Requests -> Request] /\ \A s \in Requests : RequestOK(req[s])
  BY DEF IInv
<1>3. Answer(r) => req' \in [Requests -> Request] /\ \A s \in Requests : RequestOK(req'[s])
  BY <1>1, <1>2 DEF Answer
<1>4. q \in Request /\ RequestOK(q)
  BY <1>2
<1>5. q.pc = "selected" => /\ Claimed(q) \in Request /\ RequestOK(Claimed(q))
                           /\ Reselect(q) \in Request /\ RequestOK(Reselect(q))
  BY <1>1, <1>4, LeaseAssumption DEF Claimed, Reselect, Request, RequestOK
<1>6. CASE Selection(r)
  BY <1>6, SelectionStep DEF StoreStep
<1>7. CASE CommitActive(r)
  <2>1. PICK g \in Generations : Transition(r, Reconciled, g)
    BY <1>7 DEF CommitActive, Reconciled
  <2>2. req[r].pc = "selected" /\ generation' = generation
    BY <1>7 DEF CommitActive
  <2> QED BY <2>1, <2>2, TransitionStep DEF StoreStep
<1>8. CASE CommitAcquire(r)
  <2> DEFINE next == generation[q.owner] + 1
  <2>1. next \in Generations /\ GrantsRow(r, next)
    BY <1>8 DEF CommitAcquire, GrantsRow, Reconciled
  <2>2. req' = [req EXCEPT ![r] = Claimed(q)] /\ q.pc = "selected"
    BY <1>8 DEF CommitAcquire
  <2> QED BY <2>1, <2>2, <1>2, <1>5 DEF StoreStep
<1>9. CASE CommitLost(r)
  <2>1. req' = [req EXCEPT ![r] = Reselect(q)] /\ q.pc = "selected"
    BY <1>9 DEF CommitLost
  <2> QED BY <2>1, <1>2, <1>5, <1>9 DEF CommitLost, StoreStep, LeavesRows, Reconciled
<1>10. CASE PreflightBlocks(r)
  <2>1. req' = [req EXCEPT ![r] = Reselect(q)] /\ q.pc = "selected"
    BY <1>10 DEF PreflightBlocks
  <2> QED BY <2>1, <1>2, <1>5, <1>10 DEF PreflightBlocks, StoreStep, LeavesRows
<1>11. CASE Execute(r)
  <2>1. /\ req' = [req EXCEPT ![r] = Executing(q)]
        /\ q.pc \in {"claimed", "fetching"} /\ q.executions < MaxExecutions
    BY <1>11 DEF Execute, BetweenExecutions
  <2>2. q.executions + 1 \in 0 .. MaxExecutions
    BY <2>1, <1>4, LeaseAssumption DEF Request
  <2>3. Executing(q) = [q EXCEPT !.pc = "executing", !.executions = q.executions + 1]
    BY DEF Executing
  <2>4. Executing(q) \in Request /\ Executing(q).pc = "executing"
    BY <2>2, <2>3, <1>4 DEF Request
  <2>5. Executing(q).owner = q.owner /\ Executing(q).key = q.key /\ Executing(q).gen = q.gen
    BY <2>3, <1>4 DEF Request
  <2>6. RequestOK(Executing(q))
    BY <2>1, <2>4, <2>5, <1>4 DEF RequestOK
  <2> QED BY <2>1, <2>4, <2>6, <1>2, <1>11 DEF Execute, StoreStep, LeavesRows, Reconciled
<1>12. CASE FenceRejects(r)
  BY <1>3, <1>12 DEF FenceRejects, StoreStep, LeavesRows, Reconciled
<1>13. CASE Finish(r)
  BY <1>3, <1>13 DEF Finish, StoreStep, LeavesRows
<1>14. ASSUME Fetch(r) \/ Refetch(r)
       PROVE  /\ StoreStep
              /\ req' \in [Requests -> Request]
              /\ \A s \in Requests : RequestOK(req'[s])
  <2>1. PICK pc \in {"executing", "fetching"} :
           req' = [req EXCEPT ![r] = [q EXCEPT !.pc = pc]] /\ q.pc # "idle"
    BY <1>14 DEF Fetch, Refetch
  <2>2. [q EXCEPT !.pc = pc] \in Request /\ RequestOK([q EXCEPT !.pc = pc])
    BY <2>1, <1>4 DEF Request, RequestOK
  <2> QED BY <2>1, <2>2, <1>2, <1>14 DEF Fetch, Refetch, StoreStep, LeavesRows
<1> QED BY <1>6, <1>7, <1>8, <1>9, <1>10, <1>11, <1>12, <1>13, <1>14 DEF RequestStep

\* So is every step of the system.
LEMMA NextShape ==
    ASSUME IInv, [Next]_vars
    PROVE  /\ StoreStep
           /\ req' \in [Requests -> Request]
           /\ \A s \in Requests : RequestOK(req'[s])
<1>1. req \in [Requests -> Request] /\ \A s \in Requests : RequestOK(req[s])
  BY DEF IInv
<1>2. ASSUME NEW r \in Requests, RequestStep(r)
      PROVE  /\ StoreStep
             /\ req' \in [Requests -> Request]
             /\ \A s \in Requests : RequestOK(req'[s])
  BY <1>2, RequestStepShape
<1>3. ASSUME NEW o \in Owners, NEW k \in Keys, NEW g \in Generations, Renew(o, k, g)
      PROVE  StoreStep
  BY <1>3 DEF Renew, Fenced, Reconciled, StoreStep, RenewsRow
<1>4. ASSUME NEW o \in Owners, NEW k \in Keys, NEW g \in Generations, Release(o, k, g)
      PROVE  StoreStep
  BY <1>4 DEF Release, Fenced, Reconciled, EndStates, StoreStep, EndsRow
<1>5. CASE ClientStep
  <2>1. req' = req /\ StoreStep
    BY <1>3, <1>4, <1>5 DEF ClientStep, Renew, Release
  <2> QED BY <1>1, <2>1
<1>6. CASE Reconcile \/ Tick
  BY <1>1, <1>6 DEF Reconcile, Tick, StoreStep, LeavesRows, Reconciled
<1>7. CASE Restart
  <2>1. Idle \in Request /\ RequestOK(Idle)
    BY LeaseAssumption DEF Idle, Request, RequestOK
  <2> QED BY <1>7, <2>1 DEF Restart, StoreStep, LeavesRows
<1>8. CASE UNCHANGED vars
  BY <1>1, <1>8 DEF vars, StoreStep, LeavesRows
<1> QED BY <1>2, <1>5, <1>6, <1>7, <1>8 DEF Next

-----------------------------------------------------------------------------
(* The inductive invariant                                                 *)

\* A step of the store keeps what is true of tables, and the generations in their range.
LEMMA StoreStepKeeps ==
    ASSUME IInv, StoreStep
    PROVE  TableOK(rows', generation') /\ generation' \in [Owners -> 0 .. MaxGeneration]
<1>1. TableOK(rows, generation) /\ TableOK(Reconciled, generation)
  BY ExpireKeeps DEF IInv, Reconciled
<1>2. generation \in [Owners -> 0 .. MaxGeneration]
  BY DEF IInv
<1>3. CASE LeavesRows
  BY <1>1, <1>2, <1>3, TickKeeps DEF LeavesRows
<1>4. CASE EndsRow
  <2>1. PICK o \in Owners, g \in Generations, how \in EndStates :
           Active(Reconciled, o, g) /\ rows' = With(Reconciled, o, g, Ended(how))
    BY <1>4 DEF EndsRow
  <2>2. Ended(how) \in Row /\ Ended(how).state # "NONE" /\ Ended(how).state # "ACTIVE"
    BY RowTypes DEF EndStates
  <2>3. generation' = generation
    BY <1>4 DEF EndsRow
  <2> QED BY <1>1, <1>2, <2>1, <2>2, <2>3, SameConnectionKeeps
<1>5. CASE RenewsRow
  BY <1>1, <1>2, <1>5, RenewKeeps DEF RenewsRow
<1>6. ASSUME NEW r \in Requests, NEW g \in Generations, MovesRow(r, g)
      PROVE  TableOK(rows', generation') /\ generation' \in [Owners -> 0 .. MaxGeneration]
  <2>1. req[r].owner \in Owners /\ req[r].key \in Keys /\ req[r].conn \in Connections
    BY <1>6 DEF IInv, RequestOK, MovesRow
  <2>2. Active(Reconciled, req[r].owner, g)
    BY <1>6 DEF MovesRow, Fenced
  <2>3. generation = [generation EXCEPT ![req[r].owner] = g]
    BY <1>1, <1>2, <2>1, <2>2 DEF TableOK
  <2>4. TableOK(With(Reconciled, req[r].owner, g, Granted(req[r].key, req[r].conn)), generation)
    BY <1>1, <1>2, <1>6, <2>1, <2>2, <2>3, GrantKeeps DEF MovesRow
  <2> QED BY <1>2, <1>6, <2>4 DEF MovesRow
<1>7. ASSUME NEW r \in Requests, NEW g \in Generations, GrantsRow(r, g)
      PROVE  TableOK(rows', generation') /\ generation' \in [Owners -> 0 .. MaxGeneration]
  <2>1. req[r].owner \in Owners /\ req[r].key \in Keys /\ req[r].conn \in Connections
    BY <1>7 DEF IInv, RequestOK, GrantsRow
  <2>2. TableOK(With(Reconciled, req[r].owner, g, Granted(req[r].key, req[r].conn)), generation')
    BY <1>1, <1>2, <1>7, <2>1, GrantKeeps DEF GrantsRow
  <2>3. generation' = [generation EXCEPT ![req[r].owner] = g] /\ g \in 0 .. MaxGeneration
    BY <1>7, LeaseAssumption DEF GrantsRow, Generations
  <2>4. generation' \in [Owners -> 0 .. MaxGeneration]
    BY <1>2, <2>1, <2>3
  <2> QED BY <1>7, <2>2, <2>4 DEF GrantsRow
<1> QED BY <1>3, <1>4, <1>5, <1>6, <1>7 DEF StoreStep

\* The invariant holds in every state.
THEOREM IInvHolds == Spec => []IInv
<1>1. Init => IInv
  <2> SUFFICES ASSUME Init PROVE IInv
    OBVIOUS
  <2>1. TableOK(rows, generation)
    BY RowTypes, LeaseAssumption DEF Init, TableOK, Active, NoRow, Generations
  <2>2. generation \in [Owners -> 0 .. MaxGeneration]
    BY LeaseAssumption DEF Init
  <2>3. Idle \in Request /\ RequestOK(Idle)
    BY LeaseAssumption DEF Idle, Request, RequestOK
  <2> QED BY <2>1, <2>2, <2>3 DEF Init, IInv
<1>2. IInv /\ [Next]_vars => IInv'
  <2> SUFFICES ASSUME IInv, [Next]_vars PROVE IInv'
    OBVIOUS
  <2>1. /\ StoreStep
        /\ req' \in [Requests -> Request]
        /\ \A s \in Requests : RequestOK(req'[s])
    BY NextShape
  <2>2. TableOK(rows', generation') /\ generation' \in [Owners -> 0 .. MaxGeneration]
    BY <2>1, StoreStepKeeps
  <2>3. TableOK(rows, generation)'
    BY <2>2 DEF TableOK, Active
  <2>4. (\A s \in Requests : RequestOK(req[s]))'
    BY <2>1
  <2> QED BY <2>1, <2>2, <2>3, <2>4 DEF IInv
<1> QED BY <1>1, <1>2, PTL DEF Spec

-----------------------------------------------------------------------------
(* What follows from it                                                    *)

\* The store and the requests always have their types.
THEOREM TypeCorrect == Spec => []TypeOK
<1>1. IInv => TypeOK
  BY DEF IInv, TableOK, TypeOK
<1> QED BY <1>1, IInvHolds, PTL

\* No owner has two active leases and no connection two owners.
THEOREM BindingsExclusive == Spec => []ExclusiveBindings
<1>1. IInv => ExclusiveBindings
  BY DEF IInv, TableOK, ExclusiveBindings
<1> QED BY <1>1, IInvHolds, PTL

\* Only the newest generation of an owner is active.
THEOREM NewestIsActive == Spec => []OnlyNewestActive
<1>1. IInv => OnlyNewestActive
  BY DEF IInv, TableOK, OnlyNewestActive
<1> QED BY <1>1, IInvHolds, PTL

\* A lease that ended is never rewritten.
THEOREM EndedLeasesStay == Spec => EndedStaysEnded
<1>1. ASSUME IInv, [Next]_vars, NEW o \in Owners, NEW g \in Generations,
             rows[o][g].state \in EndStates
      PROVE  rows'[o][g] = rows[o][g]
  <2>1. StoreStep
    BY <1>1, NextShape
  <2>2. rows \in [Owners -> [Generations -> Row]]
    BY <1>1 DEF IInv, TableOK
  <2>3. ~Active(rows, o, g)
    BY <1>1 DEF Active, EndStates
  <2>4. /\ Reconciled \in [Owners -> [Generations -> Row]]
        /\ Reconciled[o][g] = rows[o][g] /\ ~Active(Reconciled, o, g)
    BY <2>2, <2>3, ExpireShape DEF Reconciled
  <2>5. CASE LeavesRows
    BY <2>2, <2>3, <2>4, <2>5 DEF LeavesRows, Aged, Active
  <2>6. CASE EndsRow
    BY <2>4, <2>6 DEF EndsRow, With
  <2>7. CASE RenewsRow
    BY <2>4, <2>7 DEF RenewsRow, With
  <2>8. ASSUME NEW r \in Requests, NEW p \in Generations, MovesRow(r, p)
        PROVE  rows'[o][g] = rows[o][g]
    <3>1. req[r].owner \in Owners /\ Active(Reconciled, req[r].owner, p)
      BY <1>1, <2>8 DEF MovesRow, Fenced, IInv, RequestOK
    <3> QED BY <2>4, <2>8, <3>1 DEF MovesRow, With
  <2>9. ASSUME NEW r \in Requests, NEW p \in Generations, GrantsRow(r, p)
        PROVE  rows'[o][g] = rows[o][g]
    <3>1. req[r].owner \in Owners /\ p = generation[req[r].owner] + 1
      BY <1>1, <2>9 DEF GrantsRow, IInv, RequestOK
    <3>2. rows[req[r].owner][p].state = "NONE"
      BY <1>1, <3>1, LeaseAssumption DEF IInv, TableOK, Generations
    <3>3. ~(req[r].owner = o /\ p = g)
      BY <1>1, <3>2 DEF EndStates
    <3> QED BY <2>4, <2>9, <3>1, <3>3 DEF GrantsRow, With
  <2> QED BY <2>1, <2>5, <2>6, <2>7, <2>8, <2>9 DEF StoreStep
<1>2. IInv /\ [Next]_vars =>
        [\A o \in Owners : \A g \in Generations :
            rows[o][g].state \in EndStates => rows'[o][g] = rows[o][g]]_vars
  BY <1>1
<1> QED BY <1>2, IInvHolds, PTL DEF Spec, EndedStaysEnded

\* A lease moves only for a request of its owner that presents its key and generation.
THEOREM HolderMoves == Spec => OnlyHolderMoves
<1>1. ASSUME IInv, [Next]_vars, NEW o \in Owners, NEW g \in Generations,
             Active(rows, o, g), Active(rows', o, g), rows'[o][g].conn # rows[o][g].conn
      PROVE  \E r \in Requests :
                /\ req'[r] # req[r]
                /\ req[r].owner = o /\ req[r].key = rows[o][g].key
                /\ req[r].mode = "request" => req[r].gen = g
  <2>1. StoreStep
    BY <1>1, NextShape
  <2>2. rows \in [Owners -> [Generations -> Row]]
    BY <1>1 DEF IInv, TableOK
  <2>3. /\ Reconciled \in [Owners -> [Generations -> Row]]
        /\ Active(Reconciled, o, g) => Reconciled[o][g] = rows[o][g]
    BY <2>2, ExpireShape DEF Reconciled
  <2>4. ~LeavesRows
    <3>1. rows[o][g] \in Row
      BY <2>2
    <3>2. Aged(rows[o][g]).conn = rows[o][g].conn
      BY <3>1 DEF Aged, Row
    <3>3. CASE rows' = [p \in Owners |-> [h \in Generations |-> Aged(rows[p][h])]]
      BY <1>1, <3>2, <3>3
    <3> QED BY <1>1, <2>3, <3>3 DEF LeavesRows, Active
  <2>5. ~EndsRow
    <3> SUFFICES ASSUME NEW p \in Owners, NEW h \in Generations, NEW how \in EndStates,
                        rows' = With(Reconciled, p, h, Ended(how))
                 PROVE  FALSE
      BY DEF EndsRow
    <3>1. Ended(how).state # "ACTIVE"
      BY RowTypes DEF EndStates
    <3>2. rows'[o][g] = IF p = o /\ h = g THEN Ended(how) ELSE Reconciled[o][g]
      BY <2>3 DEF With
    <3> QED BY <1>1, <2>3, <3>1, <3>2 DEF Active
  <2>6. ~RenewsRow
    <3> SUFFICES ASSUME NEW p \in Owners, NEW h \in Generations, Active(Reconciled, p, h),
                        rows' = With(Reconciled, p, h, Renewed(Reconciled[p][h]))
                 PROVE  FALSE
      BY DEF RenewsRow
    <3>1. rows'[o][g] = IF p = o /\ h = g THEN Renewed(Reconciled[o][g]) ELSE Reconciled[o][g]
      BY <2>3 DEF With
    <3>2. Reconciled[o][g] \in Row
      BY <2>3
    <3>3. Renewed(Reconciled[o][g]).conn = Reconciled[o][g].conn
      BY <3>2 DEF Renewed, Row
    <3> QED BY <1>1, <2>3, <3>1, <3>3 DEF Active
  <2>7. ASSUME NEW r \in Requests, NEW p \in Generations, GrantsRow(r, p)
        PROVE  FALSE
    <3>1. req[r].owner \in Owners /\ p = generation[req[r].owner] + 1
      BY <1>1, <2>7 DEF GrantsRow, IInv, RequestOK
    <3>2. ~Active(rows, req[r].owner, p)
      BY <1>1, <3>1, LeaseAssumption DEF IInv, TableOK, Generations, Active
    <3>3. ~(req[r].owner = o /\ p = g)
      BY <1>1, <3>2
    <3>4. rows'[o][g] = Reconciled[o][g]
      BY <2>3, <2>7, <3>1, <3>3 DEF GrantsRow, With
    <3> QED BY <1>1, <2>3, <3>4 DEF Active
  <2>8. PICK r \in Requests, p \in Generations : MovesRow(r, p)
    BY <2>1, <2>4, <2>5, <2>6, <2>7 DEF StoreStep
  <2>9. req[r].owner \in Owners
    BY <1>1, <2>8 DEF MovesRow, IInv, RequestOK
  <2>10. req[r].owner = o /\ p = g
    <3>1. CASE ~(req[r].owner = o /\ p = g)
      <4>1. rows'[o][g] = Reconciled[o][g]
        BY <2>3, <2>8, <2>9, <3>1 DEF MovesRow, With
      <4> QED BY <1>1, <2>3, <4>1 DEF Active
    <3> QED BY <3>1
  <2>11. req[r].key = rows[o][g].key
    BY <2>3, <2>8, <2>10 DEF MovesRow, Fenced
  <2> QED BY <2>8, <2>10, <2>11 DEF MovesRow
<1>2. IInv /\ [Next]_vars =>
        [\A o \in Owners : \A g \in Generations :
          /\ Active(rows, o, g)
          /\ Active(rows', o, g) /\ rows'[o][g].conn # rows[o][g].conn
          => \E r \in Requests :
                /\ req'[r] # req[r]
                /\ req[r].owner = o /\ req[r].key = rows[o][g].key
                /\ req[r].mode = "request" => req[r].gen = g]_vars
  BY <1>1
<1> QED BY <1>2, IInvHolds, PTL DEF Spec, OnlyHolderMoves

\* Only the fence check that passes starts an execution.
LEMMA OnlyExecuteStarts ==
    ASSUME IInv, [Next]_vars, NEW r \in Requests, req'[r].executions > req[r].executions
    PROVE  Execute(r)
<1>1. req[r] \in Request /\ req[r].executions \in Nat /\ req \in [Requests -> Request]
  BY LeaseAssumption DEF IInv, Request
<1>2. Idle.executions = 0
  BY DEF Idle
<1>3. ~(0 > req[r].executions) /\ ~(req[r].executions > req[r].executions)
  BY <1>1
<1>4. req' # req /\ ~Answer(r) /\ ~Restart
  BY <1>1, <1>2, <1>3 DEF Answer, Restart
<1>5. /\ Claimed(req[r]).executions \in {0, req[r].executions}
      /\ Reselect(req[r]).executions = req[r].executions
  BY <1>1, <1>2 DEF Claimed, Reselect, Request
<1>6. ASSUME NEW s \in Requests, RequestStep(s), s # r
      PROVE  FALSE
  <2>1. req'[r] = req[r]
    BY <1>1, <1>6 DEF RequestStep, Selection, SelectNone, SelectRefused, SelectWaits, Select,
         Answer, CommitActive, Transition, CommitAcquire, CommitLost, PreflightBlocks, Execute,
         FenceRejects, Fetch, Refetch, Finish
  <2> QED BY <2>1, <1>3
<1>7. ASSUME Selection(r)
      PROVE  FALSE
  <2>1. PICK q \in Selecting(r), c \in Connections : req' = [req EXCEPT ![r] = Chosen(q, c)]
    BY <1>4, <1>7 DEF Selection, SelectNone, SelectRefused, SelectWaits, Select, Chosen
  <2>2. q \in Request /\ Chosen(q, c).executions = q.executions
    BY SelectingOK, ChosenOK
  <2>3. q.executions \in {0, req[r].executions}
    BY DEF Selecting, Arrivals
  <2>4. req'[r].executions = q.executions
    BY <1>1, <2>1, <2>2
  <2> QED BY <1>3, <2>3, <2>4
<1>8. ASSUME RequestStep(r), ~Execute(r)
      PROVE  FALSE
  <2>1. ~(FenceRejects(r) \/ Finish(r))
    BY <1>4 DEF FenceRejects, Finish
  <2>2. ~(Fetch(r) \/ Refetch(r))
    BY <1>1, <1>3 DEF Fetch, Refetch, Request
  <2>3. req'[r] \in {Claimed(req[r]), Reselect(req[r])}
    BY <1>1, <1>4, <1>7, <1>8, <2>1, <2>2 DEF RequestStep, CommitActive, Transition,
       CommitAcquire, CommitLost, PreflightBlocks
  <2> QED BY <1>3, <1>5, <2>3
<1>9. ~(ClientStep \/ Reconcile \/ Tick)
  BY <1>4 DEF ClientStep, Renew, Release, Reconcile, Tick
<1> QED BY <1>4, <1>6, <1>8, <1>9 DEF Next, vars

\* No execution of the upstream call starts while another owner holds the connection.
THEOREM ExecutionsExclusive == Spec => ExecutionsAreExclusive
<1>1. ASSUME IInv, [Next]_vars, NEW r \in Requests, req'[r].executions > req[r].executions,
             NEW o \in Owners \ {req[r].owner}, NEW g \in Generations
      PROVE  ~(Active(rows', o, g) /\ rows'[o][g].conn = req[r].conn)
  <2>1. Execute(r)
    BY <1>1, OnlyExecuteStarts
  <2>2. /\ rows' = Reconciled /\ req[r].gen \in Generations
        /\ Active(Reconciled, req[r].owner, req[r].gen)
        /\ Reconciled[req[r].owner][req[r].gen].conn = req[r].conn
    BY <2>1 DEF Execute, Fenced, Reconciled
  <2>3. req[r].owner \in Owners
    BY <1>1, <2>1 DEF Execute, BetweenExecutions, IInv, RequestOK
  <2>4. TableOK(Reconciled, generation)
    BY <1>1, ExpireKeeps DEF IInv, Reconciled
  <2> QED BY <2>2, <2>3, <2>4 DEF TableOK
<1>2. IInv /\ [Next]_vars =>
        [\A r \in Requests :
          req'[r].executions > req[r].executions =>
              \A o \in Owners \ {req[r].owner} : \A g \in Generations :
                  ~(Active(rows', o, g) /\ rows'[o][g].conn = req[r].conn)]_vars
  BY <1>1
<1> QED BY <1>2, IInvHolds, PTL DEF Spec, ExecutionsAreExclusive

-----------------------------------------------------------------------------
(* The store implements LeaseSpec                                          *)

\* The binding of an owner, read from a table and its generations.
BoundIn(t, gen, o) ==
    IF \E g \in Generations : Active(t, o, g) /\ t[o][g].left > 0 THEN t[o][gen[o]].conn ELSE NoOne

LEMMA BoundIs ==
    ASSUME NEW t, NEW gen, TableOK(t, gen), NEW o \in Owners, NEW g \in Generations
    PROVE  /\ Active(t, o, g) /\ t[o][g].left > 0
                 => BoundIn(t, gen, o) = t[o][g].conn /\ BoundIn(t, gen, o) # NoOne
           /\ g = gen[o] /\ ~(Active(t, o, g) /\ t[o][g].left > 0) => BoundIn(t, gen, o) = NoOne
BY LeaseAssumption DEF TableOK, BoundIn

LEMMA BoundRow ==
    ASSUME NEW t, NEW gen, TableOK(t, gen), NEW o \in Owners, BoundIn(t, gen, o) # NoOne
    PROVE  \E g \in Generations :
              Active(t, o, g) /\ t[o][g].left > 0 /\ BoundIn(t, gen, o) = t[o][g].conn
BY DEF TableOK, BoundIn

\* Owners whose rows stay, age or end stay bound where they were, or are unbound.
LEMMA OnlyEnds ==
    ASSUME NEW t, NEW u, NEW gen, TableOK(t, gen), TableOK(u, gen),
           \A o \in Owners : \A g \in Generations :
              Active(u, o, g) /\ u[o][g].left > 0
                 => Active(t, o, g) /\ t[o][g].left > 0 /\ u[o][g].conn = t[o][g].conn
    PROVE  \A o \in Owners : BoundIn(u, gen, o) \in {NoOne, BoundIn(t, gen, o)}
<1> SUFFICES ASSUME NEW o \in Owners, BoundIn(u, gen, o) # NoOne
             PROVE  BoundIn(u, gen, o) = BoundIn(t, gen, o)
  OBVIOUS
<1>1. PICK g \in Generations :
         Active(u, o, g) /\ u[o][g].left > 0 /\ BoundIn(u, gen, o) = u[o][g].conn
  BY BoundRow
<1> QED BY <1>1, BoundIs

\* A row granted on a connection binds its owner to it and nobody else to anything else.
LEMMA OnlyBinds ==
    ASSUME NEW t, NEW u, NEW gen, NEW gen2,
           NEW o \in Owners, NEW g \in Generations, NEW k \in Keys, NEW c \in Connections,
           TableOK(t, gen), TableOK(u, gen2),
           u = With(t, o, g, Granted(k, c)), \A p \in Owners \ {o} : gen2[p] = gen[p]
    PROVE  /\ BoundIn(u, gen2, o) = c
           /\ \A p \in Owners \ {o} : BoundIn(u, gen2, p) = BoundIn(t, gen, p)
<1>1. t \in [Owners -> [Generations -> Row]]
  BY DEF TableOK
<1>2. \A p \in Owners : \A h \in Generations :
          u[p][h] = IF p = o /\ h = g THEN Granted(k, c) ELSE t[p][h]
  BY <1>1 DEF With
<1>3. \A p \in Owners : p # o => u[p] = t[p] /\ gen2[p] = gen[p]
  BY <1>1 DEF With
<1>5. Active(u, o, g) /\ u[o][g].left > 0 /\ u[o][g].conn = c
  BY <1>2, RowTypes, LeaseAssumption DEF Active
<1>6. BoundIn(u, gen2, o) = c
  BY <1>5, BoundIs
<1>7. \A p \in Owners : p # o => BoundIn(u, gen2, p) = BoundIn(t, gen, p)
  BY <1>3 DEF BoundIn, Active
<1> QED BY <1>6, <1>7

\* Expiry unbinds nobody: a row without time left binds nobody already.
LEMMA ExpireBinds ==
    ASSUME NEW t, NEW gen, TableOK(t, gen)
    PROVE  \A o \in Owners : BoundIn(Expire(t), gen, o) = BoundIn(t, gen, o)
<1> SUFFICES ASSUME NEW o \in Owners PROVE BoundIn(Expire(t), gen, o) = BoundIn(t, gen, o)
  OBVIOUS
<1>0. t \in [Owners -> [Generations -> Row]]
  BY DEF TableOK
<1>1. t \in [Owners -> [Generations -> Row]] /\ TableOK(Expire(t), gen)
  BY <1>0, ExpireKeeps
<1>2. \A g \in Generations :
         Active(t, o, g) /\ t[o][g].left > 0
            <=> Active(Expire(t), o, g) /\ Expire(t)[o][g].left > 0
  BY <1>1, ExpireShape
<1>3. \A g \in Generations : Active(Expire(t), o, g) => Expire(t)[o][g] = t[o][g]
  BY <1>1, ExpireShape
<1>4. CASE \E g \in Generations : Active(t, o, g) /\ t[o][g].left > 0
  <2>1. PICK g \in Generations : Active(t, o, g) /\ t[o][g].left > 0
    BY <1>4
  <2>2. Active(Expire(t), o, g) /\ Expire(t)[o][g].left > 0 /\ Expire(t)[o][g] = t[o][g]
    BY <2>1, <1>2, <1>3
  <2>3. BoundIn(t, gen, o) = t[o][g].conn
    BY <2>1, BoundIs
  <2>4. BoundIn(Expire(t), gen, o) = Expire(t)[o][g].conn
    BY <2>2, <1>1, BoundIs
  <2> QED BY <2>2, <2>3, <2>4
<1>5. CASE ~\E g \in Generations : Active(t, o, g) /\ t[o][g].left > 0
  BY <1>2, <1>5 DEF BoundIn
<1> QED BY <1>4, <1>5

\* Every step of the store is a grant, a move, an end, or no step of the abstract lease.
LEMMA StoreRefines ==
    ASSUME IInv, StoreStep, IInv'
    PROVE  [Lease!Next]_(Lease!leaseVars)
<1> DEFINE B == [o \in Owners |-> BoundIn(rows, generation, o)]
           C == [o \in Owners |-> BoundIn(rows', generation', o)]
<1>1. /\ B = [o \in Owners |-> Bound(o)]
      /\ C = [o \in Owners |-> Bound(o)]'
  BY DEF Bound, BoundIn, Live, Active
<1>2. /\ TableOK(rows, generation) /\ TableOK(Reconciled, generation)
      /\ generation \in [Owners -> 0 .. MaxGeneration]
  BY ExpireKeeps DEF IInv, Reconciled
<1>3. TableOK(rows', generation')
  BY DEF IInv, TableOK, Active
<1>4. \A o \in Owners : BoundIn(Reconciled, generation, o) = BoundIn(rows, generation, o)
  BY <1>2, ExpireBinds DEF Reconciled
<1>5. rows \in [Owners -> [Generations -> Row]] /\ Reconciled \in [Owners -> [Generations -> Row]]
  BY <1>2 DEF TableOK
<1>6. \A o \in Owners : \A g \in Generations :
         Active(Reconciled, o, g) => Active(rows, o, g) /\ rows[o][g].left > 0
                                     /\ Reconciled[o][g] = rows[o][g]
  BY <1>5, ExpireShape DEF Reconciled
<1>7. ASSUME generation' = generation,
             \A o \in Owners : \A g \in Generations :
                Active(rows', o, g) /\ rows'[o][g].left > 0
                   => Active(rows, o, g) /\ rows[o][g].left > 0
                      /\ rows'[o][g].conn = rows[o][g].conn
      PROVE  [Lease!Next]_(Lease!leaseVars)
  <2>1. \A o \in Owners : BoundIn(rows', generation, o) \in {NoOne, BoundIn(rows, generation, o)}
    BY <1>2, <1>3, <1>7, OnlyEnds
  <2> DEFINE S == {o \in Owners : C[o] = NoOne}
  <2>2. S \in SUBSET Owners /\ C = [o \in Owners |-> IF o \in S THEN NoOne ELSE B[o]]
    BY <1>7, <2>1
  <2> HIDE DEF B, C, S
  <2>3. Lease!End(S)
    BY <1>1, <1>7, <2>2 DEF Lease!End
  <2> QED BY <2>2, <2>3 DEF Lease!Next
<1>8. CASE LeavesRows
  <2>1. ASSUME NEW o \in Owners, NEW g \in Generations, Active(rows', o, g), rows'[o][g].left > 0
        PROVE  Active(rows, o, g) /\ rows[o][g].left > 0 /\ rows'[o][g].conn = rows[o][g].conn
    <3>1. rows[o][g] \in Row
      BY <1>5
    <3>2. /\ Aged(rows[o][g]).state = rows[o][g].state
          /\ Aged(rows[o][g]).conn = rows[o][g].conn
          /\ Aged(rows[o][g]).left > 0 => rows[o][g].left > 0
      BY <3>1, LeaseAssumption DEF Aged, Row
    <3>3. CASE rows' = [p \in Owners |-> [h \in Generations |-> Aged(rows[p][h])]]
      BY <2>1, <3>2, <3>3 DEF Active
    <3> QED BY <1>8, <2>1, <1>6, <3>3 DEF LeavesRows
  <2> QED BY <1>7, <1>8, <2>1 DEF LeavesRows
<1>9. CASE EndsRow
  <2>1. PICK p \in Owners, h \in Generations, how \in EndStates :
           rows' = With(Reconciled, p, h, Ended(how))
    BY <1>9 DEF EndsRow
  <2>2. Ended(how).state # "ACTIVE"
    BY RowTypes DEF EndStates
  <2>3. \A o \in Owners : \A g \in Generations :
           rows'[o][g] = IF p = o /\ h = g THEN Ended(how) ELSE Reconciled[o][g]
    BY <1>5, <2>1 DEF With
  <2>4. \A o \in Owners : \A g \in Generations :
           Active(rows', o, g) => Active(Reconciled, o, g) /\ rows'[o][g] = Reconciled[o][g]
    BY <2>2, <2>3 DEF Active
  <2> QED BY <1>6, <1>7, <1>9, <2>4 DEF EndsRow
<1>10. CASE RenewsRow
  <2>1. PICK p \in Owners, h \in Generations :
           Active(Reconciled, p, h) /\ rows' = With(Reconciled, p, h, Renewed(Reconciled[p][h]))
    BY <1>10 DEF RenewsRow
  <2>2. \A o \in Owners : \A g \in Generations :
           rows'[o][g] = IF p = o /\ h = g THEN Renewed(Reconciled[p][h]) ELSE Reconciled[o][g]
    BY <1>5, <2>1 DEF With
  <2>3. Renewed(Reconciled[p][h]).conn = Reconciled[p][h].conn
    BY <1>5 DEF Renewed, Row
  <2>4. \A o \in Owners : \A g \in Generations :
           Active(rows', o, g) => Active(Reconciled, o, g)
                                  /\ rows'[o][g].conn = Reconciled[o][g].conn
    BY <2>1, <2>2, <2>3 DEF Active
  <2> QED BY <1>6, <1>7, <1>10, <2>4 DEF RenewsRow
<1>11. ASSUME NEW r \in Requests, NEW g \in Generations, MovesRow(r, g) \/ GrantsRow(r, g)
       PROVE  [Lease!Next]_(Lease!leaseVars)
  <2>1. PICK o \in Owners, k \in Keys, c \in Connections :
           o = req[r].owner /\ k = req[r].key /\ c = req[r].conn
    BY <1>11 DEF MovesRow, GrantsRow, IInv, RequestOK
  <2>2. rows' = With(Reconciled, o, g, Granted(k, c)) /\ ~Occupied(Reconciled, c)
    BY <1>11, <2>1 DEF MovesRow, GrantsRow
  <2>3. generation' = [generation EXCEPT ![o] = g]
    <3>1. CASE MovesRow(r, g)
      BY <1>2, <2>1, <3>1 DEF MovesRow, Fenced, TableOK
    <3>2. CASE GrantsRow(r, g)
      BY <2>1, <3>2 DEF GrantsRow
    <3> QED BY <1>11, <3>1, <3>2
  <2>4. /\ BoundIn(rows', generation', o) = c
        /\ \A p \in Owners \ {o} :
              BoundIn(rows', generation', p) = BoundIn(Reconciled, generation, p)
    <3>1. TableOK(Reconciled, generation) /\ TableOK(rows', generation')
      BY <1>2, <1>3
    <3>2. \A p \in Owners \ {o} : generation'[p] = generation[p]
      BY <1>2, <2>3
    <3> QED BY <1>2, <2>1, <2>2, <3>1, <3>2, OnlyBinds
  <2>5. C = [B EXCEPT ![o] = c]
    BY <1>4, <2>1, <2>4
  <2>6. \A p \in Owners : B[p] # c
    <3> SUFFICES ASSUME NEW p \in Owners, BoundIn(Reconciled, generation, p) = c
                 PROVE  FALSE
      BY <1>4
    <3>1. BoundIn(Reconciled, generation, p) # NoOne
      BY <2>1, LeaseAssumption
    <3>2. \E h \in Generations : Active(Reconciled, p, h) /\ Reconciled[p][h].conn = c
      BY <1>2, <3>1, BoundRow
    <3> QED BY <2>2, <3>2 DEF Occupied, HeldBy
  <2>7. CASE MovesRow(r, g)
    <3>1. generation' = generation /\ Active(Reconciled, o, g)
      BY <2>1, <2>7 DEF MovesRow, Fenced
    <3>2. Active(rows, o, g) /\ rows[o][g].left > 0
      BY <1>6, <2>1, <3>1
    <3>3. BoundIn(rows, generation, o) # NoOne
      BY <1>2, <2>1, <3>2, BoundIs
    <3>4. B[o] # NoOne
      BY <2>1, <3>3
    <3> HIDE DEF B, C
    <3>5. Lease!Move(o, c)
      BY <1>1, <2>5, <2>6, <3>1, <3>4 DEF Lease!Move, Lease!Free
    <3> QED BY <2>1, <3>5 DEF Lease!Next
  <2>8. CASE GrantsRow(r, g)
    <3>1. ~HasLease(Reconciled, o) /\ generation' = [generation EXCEPT ![o] = generation[o] + 1]
      BY <2>1, <2>8 DEF GrantsRow
    <3>2. BoundIn(Reconciled, generation, o) = NoOne
      BY <3>1 DEF HasLease, BoundIn
    <3>3. B[o] = NoOne
      BY <1>4, <2>1, <3>2
    <3> HIDE DEF B, C
    <3>4. Lease!Grant(o, c)
      BY <1>1, <2>5, <2>6, <3>1, <3>3 DEF Lease!Grant, Lease!Free
    <3> QED BY <2>1, <3>4 DEF Lease!Next
  <2> QED BY <1>11, <2>7, <2>8
<1> QED BY <1>8, <1>9, <1>10, <1>11 DEF StoreStep

\* The rows, their clock, the endpoint and the managed requests implement exclusive
\* bindings that are granted, moved and ended.
THEOREM ImplementsLease == Spec => Implements
<1>1. Init => Lease!Init
  <2> SUFFICES ASSUME Init PROVE Lease!Init
    OBVIOUS
  <2>1. \A o \in Owners : Bound(o) = NoOne
    BY DEF Init, Bound, Live, Active, NoRow
  <2> QED BY <2>1 DEF Init, Lease!Init
<1>2. IInv /\ IInv' /\ [Next]_vars => [Lease!Next]_(Lease!leaseVars)
  BY NextShape, StoreRefines
<1> QED BY <1>1, <1>2, IInvHolds, PTL DEF Spec, Implements, Lease!Spec
=============================================================================
