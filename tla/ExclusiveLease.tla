--------------------------- MODULE ExclusiveLease ---------------------------
(***************************************************************************)
(* Exclusive managed connection leases: the rows of                        *)
(* exclusive_connection_leases (src/src/lib/db/exclusiveConnectionLeases), *)
(* the lifecycle endpoint, and the managed requests that select, claim and *)
(* are fenced (exclusiveConnectionLeasePolicy, auth, chatCore).            *)
(*                                                                         *)
(* Every function of the store runs in one immediate transaction, so it is *)
(* one step.  A request yields between selecting a connection, claiming it *)
(* (after the quota preflight), the fence check that starts an execution   *)
(* of the upstream call, and each fetch of that execution: the executor    *)
(* refreshes tokens, backs off, retries and tries further URLs without     *)
(* asking the fence again.                                                 *)
(* A row carries the time it has left, a row that ended only how.          *)
(* A row that was moved to another connection is not kept beside the row   *)
(* that replaces it: the code reads only the newest row of a generation.   *)
(***************************************************************************)
EXTENDS Naturals

CONSTANTS
    Owners, Keys, Connections,
    Requests,       \* slots for managed requests and acquire calls in flight
    MaxGeneration,  \* bound on the generations of one owner
    Ttl,            \* ticks a lease lives after it is granted or renewed
    MaxExecutions,  \* bound on the executions of the upstream call of one request
    NoOne           \* the value of a field that is not set

ASSUME LeaseAssumption ==
    /\ MaxGeneration \in Nat \ {0}
    /\ Ttl \in Nat \ {0}
    /\ MaxExecutions \in Nat \ {0}
    /\ NoOne \notin Connections
    /\ NoOne \notin Owners

VARIABLES
    rows,        \* per owner and generation, its newest row
    generation,  \* per owner, MAX(generation) over its rows
    req          \* the requests in flight

vars == <<rows, generation, req>>

Generations == 1 .. MaxGeneration
EndStates == {"RELEASED", "EXPIRED", "INVALIDATED"}

NoRow == [state |-> "NONE", key |-> NoOne, conn |-> NoOne, left |-> 0]
\* Mutant of Renewed: the renewal extends the lease from its expiry, not from now.
RenewedFromExpiry(row) == [row EXCEPT !.left = @ + Ttl]

Renewed(row) == [row EXCEPT !.left = Ttl]
Aged(row) == IF row.state = "ACTIVE" /\ row.left > 0 THEN [row EXCEPT !.left = @ - 1] ELSE row
Granted(k, c) == [state |-> "ACTIVE", key |-> k, conn |-> c, left |-> Ttl]

Idle == [pc |-> "idle", mode |-> "request", owner |-> NoOne, key |-> NoOne, gen |-> 0,
         conn |-> NoOne, untried |-> {}, executions |-> 0]

Row == [state : {"NONE", "ACTIVE"} \cup EndStates, key : Keys \cup {NoOne},
        conn : Connections \cup {NoOne}, left : 0 .. Ttl]
Request == [pc : {"idle", "selecting", "selected", "claimed", "executing", "fetching"},
            mode : {"request", "acquire"}, owner : Owners \cup {NoOne},
            key : Keys \cup {NoOne}, gen : 0 .. MaxGeneration,
            conn : Connections \cup {NoOne}, untried : SUBSET Connections,
            executions : 0 .. MaxExecutions]

-----------------------------------------------------------------------------
(* The store.  A table is a value of rows; operations read the table that  *)
(* expire() leaves.                                                        *)

Ended(how) == [NoRow EXCEPT !.state = how]

Expire(table) ==
    [o \in Owners |-> [g \in Generations |->
        IF table[o][g].state = "ACTIVE" /\ table[o][g].left = 0
        THEN Ended("EXPIRED")
        ELSE table[o][g]]]

Active(table, o, g) == table[o][g].state = "ACTIVE"
HasLease(table, o) == \E g \in Generations : Active(table, o, g)
HeldBy(table, o, c) == \E g \in Generations : Active(table, o, g) /\ table[o][g].conn = c
\* Mutant of Occupied: a lease about to expire no longer occupies its connection.
OccupiedForLonger(table, c) ==
    \E o \in Owners, g \in Generations :
        Active(table, o, g) /\ table[o][g].conn = c /\ table[o][g].left > 1

Occupied(table, c) == \E o \in Owners : HeldBy(table, o, c)

\* The owner's active row is exactly this generation's, under this key.
Fenced(table, o, k, g) == g \in Generations /\ Active(table, o, g) /\ table[o][g].key = k

\* An UPDATE of the row of one generation, or the INSERT of a new one.
With(table, o, g, row) == [table EXCEPT ![o] = [@ EXCEPT ![g] = row]]

\* An update that ends a row: nothing happens unless it is fenced.
EndIfFenced(table, o, k, g, how) ==
    IF Fenced(table, o, k, g)
    THEN With(table, o, g, Ended(how))
    ELSE table

Init ==
    /\ rows = [o \in Owners |-> [g \in Generations |-> NoRow]]
    /\ generation = [o \in Owners |-> 0]
    /\ req = [r \in Requests |-> Idle]

-----------------------------------------------------------------------------
(* The lifecycle endpoint, the readers that reconcile, the clock, restart. *)

\* Mutant of Renew: expired leases are not ended first, and the expiry is not compared.
RenewExpired(o, k, g) ==
    /\ Fenced(rows, o, k, g)
    /\ rows' = With(rows, o, g, Renewed(rows[o][g]))
    /\ UNCHANGED <<generation, req>>

\* Both calls expire the table first; one that the fence refuses stops there, and is
\* Reconcile.
Renew(o, k, g) ==
    LET table == Expire(rows) IN
    /\ Fenced(table, o, k, g)
    /\ rows' = With(table, o, g, Renewed(table[o][g]))
    /\ UNCHANGED <<generation, req>>

Release(o, k, g) ==
    LET table == Expire(rows) IN
    /\ Fenced(table, o, k, g)
    /\ rows' = With(table, o, g, Ended("RELEASED"))
    /\ UNCHANGED <<generation, req>>

\* A read, a refused renewal or a refused release: the table is expired, no more.
Reconcile ==
    /\ rows' = Expire(rows)
    /\ UNCHANGED <<generation, req>>

Tick ==
    /\ rows' = [o \in Owners |-> [g \in Generations |-> Aged(rows[o][g])]]
    /\ UNCHANGED <<generation, req>>

Restart ==
    /\ req' = [r \in Requests |-> Idle]
    /\ UNCHANGED <<rows, generation>>

-----------------------------------------------------------------------------
(* A managed request, or an acquire call of the endpoint.                  *)

Answer(r) == req' = [req EXCEPT ![r] = Idle]

\* A managed request carries any generation, an acquire call the placeholder 1.
Arrivals ==
    [pc : {"selecting"}, mode : {"request"}, owner : Owners, key : Keys, gen : Generations,
     conn : {NoOne}, untried : {Connections}, executions : {0}]
    \cup
    [pc : {"selecting"}, mode : {"acquire"}, owner : Owners, key : Keys, gen : {1},
     conn : {NoOne}, untried : {Connections}, executions : {0}]

\* What a slot may be selecting for: a new arrival, or the request that lost its candidate
\* and goes on with the candidates left or, when none is left, with a selection afresh: of
\* any connection it has not tried.
Selecting(r) ==
    CASE req[r].pc = "idle" -> Arrivals
      [] req[r].pc = "selecting" -> {req[r]}
      [] OTHER -> {}

\* A request whose owner has no active lease, or has it under another generation or key.
PolicyError(table, q) ==
    \/ q.mode = "request" /\ ~Fenced(table, q.owner, q.key, q.gen)
    \/ q.mode = "acquire" /\ \E g \in Generations :
           Active(table, q.owner, g) /\ table[q.owner][g].key # q.key

\* No connection is ordinarily eligible.  Most exits invalidate the binding of the
\* generation presented, some only answer.
SelectNone(r, q) ==
    LET table == Expire(rows) IN
    /\ Answer(r)
    /\ rows' \in {table} \cup (IF q.mode = "request"
                  THEN {EndIfFenced(table, q.owner, q.key, q.gen, "INVALIDATED")} ELSE {})
    /\ UNCHANGED generation

\* The policy refuses, or a forced connection is not the one the owner is bound to.
SelectRefused(r, q) ==
    LET table == Expire(rows) IN
    /\ \/ PolicyError(table, q)
       \/ q.mode = "request" /\ \E forced \in Connections : ~HeldBy(table, q.owner, forced)
    /\ Answer(r)
    /\ rows' = table
    /\ UNCHANGED generation

\* Every eligible connection is leased to somebody else.
SelectWaits(r, q, eligible) ==
    LET table == Expire(rows) IN
    /\ eligible # {} /\ eligible \subseteq q.untried
    /\ ~PolicyError(table, q)
    /\ \A c \in eligible : Occupied(table, c) /\ ~HeldBy(table, q.owner, c)
    /\ Answer(r)
    /\ rows' = IF q.mode = "request"
               THEN EndIfFenced(table, q.owner, q.key, q.gen, "INVALIDATED") ELSE table
    /\ UNCHANGED generation

\* The binding is preferred, but for a request the OAuth occupancy comparison may still
\* prefer a peer; without a binding any free candidate may be chosen.
Select(r, q, eligible, c) ==
    LET table == Expire(rows)
        candidates == {d \in eligible : HeldBy(table, q.owner, d) \/ ~Occupied(table, d)}
    IN
    /\ eligible \subseteq q.untried
    /\ ~PolicyError(table, q)
    /\ c \in candidates
    /\ q.mode = "acquire" /\ (\E d \in candidates : HeldBy(table, q.owner, d))
          => HeldBy(table, q.owner, c)
    /\ req' = [req EXCEPT ![r] = [q EXCEPT !.pc = "selected", !.conn = c,
                                           !.untried = @ \ {c}]]
    /\ rows' = table
    /\ UNCHANGED generation

-----------------------------------------------------------------------------
(* commitLease: the active lease is read again and claimed in one step.    *)

Reselect(q) == [q EXCEPT !.pc = "selecting", !.conn = NoOne]

\* A request goes on to its dispatch; an acquire call answers with the lease.
Claimed(q) ==
    IF q.mode = "request" THEN [q EXCEPT !.pc = "claimed", !.untried = {}] ELSE Idle

\* Mutant of Transition: a request presents the generation of the active lease, not its own.
TransitionAnyGeneration(r, table, g) ==
    LET q == req[r] IN
    IF Fenced(table, q.owner, q.key, g) /\ ~Occupied(table, q.conn)
    THEN /\ req' = [req EXCEPT ![r] = Claimed(@)]
         /\ rows' = With(table, q.owner, g, Granted(q.key, q.conn))
    ELSE /\ Answer(r)
         /\ rows' = table

\* Transition of the owner's active lease, presented as generation p.
Transition(r, table, g) ==
    LET q == req[r]
        p == IF q.mode = "acquire" THEN g ELSE q.gen
    IN
    \/ /\ ~Fenced(table, q.owner, q.key, p)
       /\ Answer(r)
       /\ rows' = table
    \/ /\ Fenced(table, q.owner, q.key, p)
       /\ table[q.owner][p].conn = q.conn
       /\ req' = [req EXCEPT ![r] = Claimed(@)]
       /\ rows' = table
    \/ /\ Fenced(table, q.owner, q.key, p)
       /\ table[q.owner][p].conn # q.conn
       /\ Occupied(table, q.conn)
       /\ req' = [req EXCEPT ![r] = Reselect(@)]
       /\ rows' = table
    \/ /\ Fenced(table, q.owner, q.key, p)
       /\ ~Occupied(table, q.conn)
       /\ req' = [req EXCEPT ![r] = Claimed(@)]
       /\ rows' = With(table, q.owner, p, Granted(q.key, q.conn))

CommitActive(r) ==
    LET q == req[r] table == Expire(rows) IN
    /\ q.pc = "selected"
    /\ \E g \in Generations : Active(table, q.owner, g) /\ Transition(r, table, g)
    /\ UNCHANGED generation

\* Mutant of CommitAcquire: the owner's active lease is not looked for again.
CommitAcquireAgain(r) ==
    LET q == req[r] table == Expire(rows) next == generation[q.owner] + 1 IN
    /\ q.pc = "selected"
    /\ ~Occupied(table, q.conn)
    /\ next \in Generations
    /\ req' = [req EXCEPT ![r] = Claimed(@)]
    /\ rows' = With(table, q.owner, next, Granted(q.key, q.conn))
    /\ generation' = [generation EXCEPT ![q.owner] = next]

\* Mutant of CommitAcquire: the next generation is counted over the active rows only.
CommitAcquireFromActive(r) ==
    LET q == req[r] table == Expire(rows) IN
    /\ q.pc = "selected"
    /\ ~HasLease(table, q.owner)
    /\ ~Occupied(table, q.conn)
    /\ req' = [req EXCEPT ![r] = Claimed(@)]
    /\ rows' = With(table, q.owner, 1, Granted(q.key, q.conn))
    /\ generation' = [generation EXCEPT ![q.owner] = 1]

CommitAcquire(r) ==
    LET q == req[r] table == Expire(rows) next == generation[q.owner] + 1 IN
    /\ q.pc = "selected"
    /\ ~HasLease(table, q.owner)
    /\ ~Occupied(table, q.conn)
    /\ next \in Generations
    /\ req' = [req EXCEPT ![r] = Claimed(@)]
    /\ rows' = With(table, q.owner, next, Granted(q.key, q.conn))
    /\ generation' = [generation EXCEPT ![q.owner] = next]

CommitLost(r) ==
    LET q == req[r] table == Expire(rows) IN
    /\ q.pc = "selected"
    /\ ~HasLease(table, q.owner)
    /\ Occupied(table, q.conn)
    /\ req' = [req EXCEPT ![r] = Reselect(@)]
    /\ rows' = table
    /\ UNCHANGED generation

\* The quota preflight rejects the candidate and the next one is selected.
PreflightBlocks(r) ==
    /\ req[r].pc = "selected"
    /\ req' = [req EXCEPT ![r] = Reselect(@)]
    /\ UNCHANGED <<rows, generation>>

-----------------------------------------------------------------------------
(* The upstream call: executor.execute() runs once, is run again by the    *)
(* stream recovery, and once more after a token refresh.                   *)

\* No execution is under way: none yet, or the last one has answered.
BetweenExecutions(q) == q.pc \in {"claimed", "fetching"}

Executing(q) == [q EXCEPT !.pc = "executing", !.executions = @ + 1]

\* Mutant of Execute: only the first execution is fenced.
ExecuteAgainUnfenced(r) ==
    LET q == req[r] table == Expire(rows) IN
    /\ BetweenExecutions(q)
    /\ q.executions < MaxExecutions
    /\ q.pc = "claimed" => Fenced(table, q.owner, q.key, q.gen)
                            /\ table[q.owner][q.gen].conn = q.conn
    /\ req' = [req EXCEPT ![r] = Executing(@)]
    /\ rows' = table
    /\ UNCHANGED generation

\* The fence passes and executor.execute() is called in the same step.
Execute(r) ==
    LET q == req[r] table == Expire(rows) IN
    /\ BetweenExecutions(q)
    /\ q.executions < MaxExecutions
    /\ Fenced(table, q.owner, q.key, q.gen)
    /\ table[q.owner][q.gen].conn = q.conn
    /\ req' = [req EXCEPT ![r] = Executing(@)]
    /\ rows' = table
    /\ UNCHANGED generation

FenceRejects(r) ==
    LET q == req[r] table == Expire(rows) IN
    /\ BetweenExecutions(q)
    /\ ~(Fenced(table, q.owner, q.key, q.gen) /\ table[q.owner][q.gen].conn = q.conn)
    /\ Answer(r)
    /\ rows' = table
    /\ UNCHANGED generation

\* Inside the execution, once its own refresh or backoff is over: no fence is asked.
Fetch(r) ==
    /\ req[r].pc = "executing"
    /\ req' = [req EXCEPT ![r].pc = "fetching"]
    /\ UNCHANGED <<rows, generation>>

\* The executor retries on its own: the same URL after a pause, or the next one.
Refetch(r) ==
    /\ req[r].pc = "fetching"
    /\ req' = [req EXCEPT ![r].pc = "executing"]
    /\ UNCHANGED <<rows, generation>>

Finish(r) ==
    /\ req[r].pc \in {"claimed", "executing", "fetching"}
    /\ Answer(r)
    /\ UNCHANGED <<rows, generation>>

Selection(r) ==
    \E q \in Selecting(r) :
        \/ SelectNone(r, q)
        \/ SelectRefused(r, q)
        \/ \E eligible \in SUBSET Connections :
              \/ SelectWaits(r, q, eligible)
              \/ \E c \in Connections : Select(r, q, eligible, c)

RequestStep(r) ==
    \/ Selection(r)
    \/ CommitActive(r)
    \/ CommitAcquire(r)
    \/ CommitLost(r)
    \/ PreflightBlocks(r)
    \/ Execute(r)
    \/ FenceRejects(r)
    \/ Fetch(r)
    \/ Refetch(r)
    \/ Finish(r)

ClientStep ==
    \E o \in Owners, k \in Keys, g \in Generations : Renew(o, k, g) \/ Release(o, k, g)

Next ==
    \/ \E r \in Requests : RequestStep(r)
    \/ ClientStep
    \/ Reconcile
    \/ Tick
    \/ Restart

Spec == Init /\ [][Next]_vars

-----------------------------------------------------------------------------
(* Properties                                                              *)

\* A lease that is active and has time left, reconciled or not.
Live(o, g) == Active(rows, o, g) /\ rows[o][g].left > 0

\* Every variable has the shape the store and the handlers give it.
TypeOK ==
    /\ rows \in [Owners -> [Generations -> Row]]
    /\ generation \in [Owners -> 0 .. MaxGeneration]
    /\ req \in [Requests -> Request]

\* One active owner holds one connection: no owner has two active rows and no connection
\* is in the active rows of two owners, whatever requests, clients and expiry interleave.
\* The two partial UNIQUE indexes would turn a violation into a failed transaction.
ExclusiveBindings ==
    \A o, p \in Owners : \A g, h \in Generations :
        Active(rows, o, g) /\ Active(rows, p, h) /\ (o # p \/ g # h)
            => o # p /\ rows[o][g].conn # rows[p][h].conn

\* Only the newest generation of an owner is ever active: a client that holds an older
\* one can never pass a fence again.
OnlyNewestActive ==
    \A o \in Owners : \A g \in Generations :
        /\ Active(rows, o, g) => g = generation[o]
        /\ rows[o][g].state = "NONE" <=> g > generation[o]

\* A lease that ended is history: no renewal, transition or claim brings its generation
\* back, and its row is never rewritten.
EndedStaysEnded ==
    [][\A o \in Owners : \A g \in Generations :
          rows[o][g].state \in EndStates => rows'[o][g] = rows[o][g]]_vars

\* Whenever an execution of the upstream call starts, the first one, one of the stream
\* recovery or the one after a token refresh, however long the waits before it took, no
\* other owner holds an unexpired lease of its connection.
ExecutionsAreExclusive ==
    [][\A r \in Requests :
          req'[r].executions > req[r].executions =>
              \A o \in Owners \ {req[r].owner} : \A g \in Generations :
                  ~(Active(rows', o, g) /\ rows'[o][g].conn = req[r].conn)]_vars

\* "The exact owner, generation, active connection, and authenticated API key are fenced
\* immediately before each supported upstream attempt" (API_REFERENCE.md): no fetch, the
\* executor's own retries included, goes to a connection another owner holds by then.
FetchesAreExclusive ==
    [][\A r \in Requests :
          req[r].pc = "executing" /\ req'[r].pc = "fetching" =>
              \A o \in Owners \ {req[r].owner} : \A g \in Generations :
                  ~(Live(o, g) /\ rows[o][g].conn = req[r].conn)]_vars

\* A lease is moved to another connection only by a request of its owner that presents
\* its generation and key, or by an acquire call of its owner with its key, however long
\* ago that request selected its candidate: a stale or replayed request that reaches its
\* claim late leaves the current binding alone.
OnlyHolderMoves ==
    [][\A o \in Owners : \A g \in Generations :
          /\ Active(rows, o, g)
          /\ Active(rows', o, g) /\ rows'[o][g].conn # rows[o][g].conn
          => \E r \in Requests :
                /\ req'[r] # req[r]
                /\ req[r].owner = o /\ req[r].key = rows[o][g].key
                /\ req[r].mode = "request" => req[r].gen = g]_vars

-----------------------------------------------------------------------------
(* The store implements LeaseSpec: an owner is bound while its newest lease *)
(* is active and has time left, reconciled or not.                          *)

Bound(o) == IF \E g \in Generations : Live(o, g)
            THEN rows[o][generation[o]].conn ELSE NoOne

Lease == INSTANCE LeaseSpec WITH Unbound <- NoOne, binding <- [o \in Owners |-> Bound(o)]

Implements == Lease!Spec
=============================================================================
