---------------------------- MODULE TokenRefresh ----------------------------
(***************************************************************************)
(* OAuth token refresh (open-sse/services/tokenRefresh.ts) and its callers, *)
(* over the rotation lanes of RefreshLane.                                  *)
(*                                                                         *)
(* A refresh token is named by its generation: the token endpoint honours   *)
(* only the newest one of a connection, answers it with the next, and takes *)
(* an older one for theft and revokes the whole family.  A call of          *)
(* getAccessToken joins the refresh in flight for its connection or owns    *)
(* it: it asks the rotation map, then the database row, then the endpoint,  *)
(* and writes the row before it lets the next call in.  What the caller     *)
(* does with the answer afterwards depends on its kind.                     *)
(*                                                                         *)
(* Some executors do not call getAccessToken: their refreshCredentials      *)
(* posts the token it was given, past the mutex, the rotation map, the      *)
(* staleness check and the lane.                                            *)
(***************************************************************************)
EXTENDS RefreshLane, Integers

CONSTANTS
  Connections,
  NoConnection,   \* the connection of an idle caller
  GroupOf,        \* connection -> rotation group of its provider, or NoGroup
  MaxRotations,   \* bound: rotations of one family
  Direct,         \* connections whose executor posts its refreshes itself: those of
                  \* kiro, which has a rotation group, and of grok-cli, xai and others
  Kinds,          \* bound: what a caller may call about a connection
  Faults          \* bound: connection -> the faults of its environment

\* request   checkAndRefreshToken before a dispatch
\* executor  BaseExecutor.execute, still before the dispatch
\* reactive  chatCore.ts after a 401 or 403
\* sweep     tokenHealthCheck.ts
\* manual    the refresh route; codexAuthFile.ts, which only reports a rejection
\* export    claudeAuthFile.ts, which passes no onPersist
\* edit      an operator's change of the connection, which calls no refresh
AllKinds == {"request", "executor", "reactive", "sweep", "manual", "export", "edit"}

\* lost      the endpoint rotates a token and its answer does not arrive
\* refused   a refresh fails without rotating anything
\* write     a write of the row fails
\* read      a read of the row fails
AllFaults == {"lost", "refused", "write", "read"}

ASSUME RefreshAssumption ==
  /\ NoConnection \notin Connections
  /\ GroupOf \in [Connections -> Groups \union {NoGroup}]
  /\ MaxRotations \in Nat
  /\ Direct \subseteq Connections
  /\ Kinds \in [Callers -> [Connections -> SUBSET AllKinds]]
  /\ Faults \in [Connections -> SUBSET AllFaults]

Tokens == 0 .. MaxRotations
Null == -1        \* no refresh token; no answer
Invalid == -2     \* the unrecoverable sentinel of isUnrecoverableRefreshError

VARIABLES
  row,            \* connection -> its provider_connections row: refresh token, access
                  \* token valid for a minute, testStatus neither expired nor invalid
  endpoint,       \* connection -> what the token endpoint honours (external)
  rotation,       \* connection -> tokenRotationMap: old token -> its successor
  mutex,          \* connection -> the caller whose promise connectionRefreshMutex holds
  call,           \* caller -> its call
  faulted         \* history: connections whose family is no longer safe

vars == <<laneVars, row, endpoint, rotation, mutex, call, faulted>>

NoCall ==
  [pc |-> "idle", conn |-> NoConnection, kind |-> "none", attempted |-> Null,
   token |-> Null, result |-> Null, persist |-> "none", waiting |-> TRUE,
   fresh |-> TRUE, active |-> TRUE]

\* Past the mutex: the caller's own promise is the one in the map.
OwnerPcs == {"checking", "refreshing", "guarding", "persisting", "settled"}

TypeOK ==
  /\ LaneTypeOK
  /\ row \in [Connections ->
       [token : Tokens \union {Null}, fresh : BOOLEAN, active : BOOLEAN]]
  /\ endpoint \in [Connections -> [live : Tokens, revoked : BOOLEAN]]
  /\ rotation \in [Connections -> [Tokens -> Tokens \union {Null}]]
  /\ mutex \in [Connections -> Callers \union {NoCaller}]
  /\ call \in [Callers ->
       [pc : OwnerPcs \union {"idle", "loaded", "joined", "posting", "returned"},
        conn : Connections \union {NoConnection}, kind : AllKinds \union {"none"},
        attempted : Tokens \union {Null}, token : Tokens \union {Null},
        result : Tokens \union {Null, Invalid},
        persist : {"none", "done", "skipped"}, waiting : BOOLEAN,
        fresh : BOOLEAN, active : BOOLEAN]]
  /\ faulted \in SUBSET Connections

Init ==
  /\ LaneInit
  /\ row \in [Connections -> {[token |-> 0, fresh |-> f, active |-> TRUE] : f \in BOOLEAN}]
  /\ endpoint = [c \in Connections |-> [live |-> 0, revoked |-> FALSE]]
  /\ rotation = [c \in Connections |-> [t \in Tokens |-> Null]]
  /\ mutex = [c \in Connections |-> NoCaller]
  /\ call = [p \in Callers |-> NoCall]
  /\ faulted = {}

-----------------------------------------------------------------------------
(* The callers.                                                             *)

\* Kinds that pass an onPersist, kinds that run under a compare-and-swap guard,
\* and kinds that write the row themselves when their onPersist did not.
Persisting == AllKinds \ {"export", "edit"}
Guarded == {"reactive"}
LateWriting == AllKinds \ {"request", "edit"}

\* Credentials are read from the row long before they are used: they wait in
\* semaphores and queues, or travel with a stream that ends in a 401.  An edit keeps
\* the expiry and the status of the row as well.
Load(p, c, k) ==
  /\ call[p].pc = "idle" /\ phase[p] = "outside"
  /\ row[c].token # Null
  /\ call' = [call EXCEPT ![p] =
       [NoCall EXCEPT !.pc = "loaded", !.conn = c, !.kind = k,
                      !.attempted = row[c].token, !.token = row[c].token,
                      !.fresh = (k = "edit" => row[c].fresh),
                      !.active = (k = "edit" => row[c].active)]]
  /\ UNCHANGED <<laneVars, row, endpoint, rotation, mutex, faulted>>

\* Mutant of AfterAnswer: the rejection sentinel is persisted like a token.
AnyAnswer(k, t) ==
  CASE k \notin Persisting -> "settled"
    [] k \in Guarded -> "guarding"
    [] OTHER -> "persisting"

\* Where an answer leads inside the mutex: to the guard, to onPersist, or out.
AfterAnswer(k, t) ==
  CASE t \notin Tokens \/ k \notin Persisting -> "settled"
    [] t \in Tokens /\ k \in Guarded -> "guarding"
    [] OTHER -> "persisting"

Answered(p, t) ==
  call' = [call EXCEPT ![p].result = t, ![p].pc = AfterAnswer(call[p].kind, t)]

\* executor.refreshCredentials (BaseExecutor.execute, and chatCore.ts after a 401)
\* posts to the endpoint itself.
PostsItself(q) == q.conn \in Direct /\ q.kind \in {"executor", "reactive"}

CallsGetAccessToken(q) == q.pc = "loaded" /\ q.kind # "edit" /\ ~PostsItself(q)

Join(p) ==
  /\ CallsGetAccessToken(call[p])
  /\ mutex[call[p].conn] # NoCaller
  /\ call' = [call EXCEPT ![p].pc = "joined"]
  /\ UNCHANGED <<laneVars, row, endpoint, rotation, mutex, faulted>>

\* Mutant of Own: a second refresh beside the one in flight.
OwnBeside(p) ==
  /\ CallsGetAccessToken(call[p])
  /\ mutex' = [mutex EXCEPT ![call[p].conn] = p]
  /\ call' = [call EXCEPT ![p].pc = "checking"]
  /\ UNCHANGED <<laneVars, row, endpoint, rotation, faulted>>

\* The caller's own promise enters the map; its body runs up to the first await,
\* which comes after the lookup in the rotation map.
Own(p) ==
  LET c == call[p].conn
      rotated == rotation[c][call[p].token]
  IN /\ CallsGetAccessToken(call[p])
     /\ mutex[c] = NoCaller
     /\ mutex' = [mutex EXCEPT ![c] = p]
     /\ IF rotated # Null
        THEN Answered(p, rotated)
        ELSE call' = [call EXCEPT ![p].pc = "checking"]
     /\ UNCHANGED <<laneVars, row, endpoint, rotation, faulted>>

\* The DB staleness check finds another, still valid token and returns it.
RowIsFresh(p) ==
  LET r == row[call[p].conn]
  IN /\ call[p].pc = "checking"
     /\ r.token \notin {Null, call[p].token} /\ r.fresh
     /\ Answered(p, r.token)
     /\ UNCHANGED <<laneVars, row, endpoint, rotation, mutex, faulted>>

\* Mutant of Chain: the token in memory goes to the lane though the row has another.
ChainStale(p) ==
  /\ call[p].pc = "checking"
  /\ row[call[p].conn].token \in {Null, call[p].token} \/ ~row[call[p].conn].fresh
  /\ call' = [call EXCEPT ![p].pc = "refreshing"]
  /\ Enter(p, GroupOf[call[p].conn])
  /\ UNCHANGED <<row, endpoint, rotation, mutex, faulted>>

\* Otherwise the token of the row, if it has one, goes to the lane.
Chain(p) ==
  LET r == row[call[p].conn]
  IN /\ call[p].pc = "checking"
     /\ r.token \in {Null, call[p].token} \/ ~r.fresh
     /\ call' = [call EXCEPT ![p].pc = "refreshing",
                             ![p].token = IF r.token = Null THEN @ ELSE r.token]
     /\ Enter(p, GroupOf[call[p].conn])
     /\ UNCHANGED <<row, endpoint, rotation, mutex, faulted>>

\* The row cannot be read: the token in memory goes to the lane as it is.
ChainUnread(p) ==
  LET c == call[p].conn
  IN /\ call[p].pc = "checking"
     /\ "read" \in Faults[c]
     /\ call' = [call EXCEPT ![p].pc = "refreshing"]
     /\ Enter(p, GroupOf[c])
     /\ faulted' = faulted \union (IF row[c].token # call[p].token THEN {c} ELSE {})
     /\ UNCHANGED <<row, endpoint, rotation, mutex>>

Post(p) ==
  /\ call[p].pc = "refreshing"
  /\ StartRefresh(p)
  /\ UNCHANGED <<row, endpoint, rotation, mutex, call, faulted>>

\* KiroExecutor.refreshCredentials and its like: the token in memory goes to the
\* endpoint as it is, at once.  Nothing makes it the newest one, and nothing keeps
\* others from presenting it too: the family is endangered.
DirectPost(p) ==
  /\ call[p].pc = "loaded" /\ PostsItself(call[p])
  /\ call' = [call EXCEPT ![p].pc = "posting"]
  /\ faulted' = faulted \union {call[p].conn}
  /\ UNCHANGED <<laneVars, row, endpoint, rotation, mutex>>

\* A request of p's is with the token endpoint.
Posting(p) ==
  \/ call[p].pc = "posting"
  \/ call[p].pc = "refreshing" /\ phase[p] = "running"

-----------------------------------------------------------------------------
(* The answer of the token endpoint.                                        *)

\* recordRotation: only an answer that changed the token is kept.
Recorded(p, t) ==
  rotation' = IF t \in Tokens /\ t # call[p].token
              THEN [rotation EXCEPT ![call[p].conn][call[p].token] = t]
              ELSE rotation

\* Something is left to do for the caller once it has the answer.
FollowsUp(q) ==
  \/ q.result \in Tokens /\ q.kind \in LateWriting /\ q.persist # "done"
  \/ q.result = Null /\ q.kind = "reactive"
  \/ q.result = Invalid /\ q.kind \in {"reactive", "sweep", "manual"}

Returned(q) ==
  IF q.waiting /\ FollowsUp(q) THEN [q EXCEPT !.pc = "returned"] ELSE NoCall

\* serializeRefresh returns once the lane is left: at once, or after the gap.
DeliverInLane(p, t) ==
  /\ call[p].pc = "refreshing"
  /\ EndRefresh(p)
  /\ IF phase'[p] = "settling"
     THEN /\ call' = [call EXCEPT ![p].result = t]
          /\ UNCHANGED rotation
     ELSE Recorded(p, t) /\ Answered(p, t)

\* The executor returns the answer to its caller, and nobody else hears of it.
DeliverDirectly(p, t) ==
  /\ call[p].pc = "posting"
  /\ call' = [call EXCEPT ![p] = Returned([call[p] EXCEPT !.result = t])]
  /\ UNCHANGED <<laneVars, rotation>>

Deliver(p, t) ==
  /\ DeliverInLane(p, t) \/ DeliverDirectly(p, t)
  /\ UNCHANGED <<row, mutex>>

Honoured(p) ==
  LET e == endpoint[call[p].conn] IN call[p].token = e.live /\ ~e.revoked

AnswerRotates(p) ==
  LET c == call[p].conn
  IN /\ Honoured(p) /\ endpoint[c].live < MaxRotations
     /\ endpoint' = [endpoint EXCEPT ![c].live = @ + 1]
     /\ Deliver(p, endpoint[c].live + 1)
     /\ UNCHANGED faulted

\* A consumed token: the endpoint revokes the family.
AnswerReused(p) ==
  /\ ~Honoured(p)
  /\ endpoint' = [endpoint EXCEPT ![call[p].conn].revoked = TRUE]
  /\ Deliver(p, Invalid)
  /\ UNCHANGED faulted

\* The request fails and nothing was rotated.
AnswerRefused(p) ==
  /\ "refused" \in Faults[call[p].conn] \/ endpoint[call[p].conn].live = MaxRotations
  /\ Deliver(p, Null)
  /\ UNCHANGED <<endpoint, faulted>>

\* The endpoint rotates the token and its answer is lost.
AnswerLost(p) ==
  LET c == call[p].conn
  IN /\ "lost" \in Faults[c]
     /\ Honoured(p) /\ endpoint[c].live < MaxRotations
     /\ endpoint' = [endpoint EXCEPT ![c].live = @ + 1]
     /\ Deliver(p, Null)
     /\ faulted' = faulted \union {c}

\* What callers do after the answer awaits only settled promises, so the event loop
\* finishes it before it delivers the next answer or timer; refreshWithRetry's own
\* pause is the exception.
ContinuationsDone == \A q \in Callers : call[q].pc = "returned" => call[q].result = Null

Answer(p) ==
  /\ Posting(p)
  /\ ContinuationsDone
  /\ AnswerRotates(p) \/ AnswerReused(p) \/ AnswerRefused(p) \/ AnswerLost(p)

EndGap(p) ==
  /\ call[p].pc = "refreshing"
  /\ ContinuationsDone
  /\ LeaveLane(p)
  /\ Recorded(p, call[p].result)
  /\ Answered(p, call[p].result)
  /\ UNCHANGED <<row, endpoint, mutex, faulted>>

-----------------------------------------------------------------------------
(* Writing the row.                                                         *)

\* updateProviderCredentials and the sweep's onPersist: tokens, expiry, status.
Written(t) == [token |-> t, fresh |-> TRUE, active |-> TRUE]

\* A write that puts an older token back endangers the family.
Write(c, t) ==
  /\ row' = [row EXCEPT ![c] = Written(t)]
  /\ faulted' = faulted \union (IF t < row[c].token THEN {c} ELSE {})

WriteFails(c) ==
  /\ "write" \in Faults[c]
  /\ UNCHANGED <<row, faulted>>

\* casGuardShouldSkipPersist: the row is read again, and onPersist is skipped when
\* its token is not the one the caller set out with.  A failed read writes.
Guard(p) ==
  LET r == row[call[p].conn]
  IN /\ call[p].pc = "guarding"
     /\ call' = IF r.token \notin {Null, call[p].attempted}
                THEN [call EXCEPT ![p].pc = "settled", ![p].persist = "skipped"]
                ELSE [call EXCEPT ![p].pc = "persisting"]
     /\ UNCHANGED <<laneVars, row, endpoint, rotation, mutex, faulted>>

GuardUnread(p) ==
  /\ call[p].pc = "guarding"
  /\ "read" \in Faults[call[p].conn]
  /\ call' = [call EXCEPT ![p].pc = "persisting"]
  /\ UNCHANGED <<laneVars, row, endpoint, rotation, mutex, faulted>>

\* onPersist.  Every kind swallows a failed write, and all but the sweep take the
\* write for done.
Persist(p) ==
  /\ call[p].pc = "persisting"
  /\ \/ /\ Write(call[p].conn, call[p].result)
        /\ call' = [call EXCEPT ![p].pc = "settled", ![p].persist = "done"]
     \/ /\ WriteFails(call[p].conn)
        /\ call' = [call EXCEPT ![p].pc = "settled",
                     ![p].persist = IF call[p].kind = "sweep" THEN "none" ELSE "done"]
  /\ UNCHANGED <<laneVars, endpoint, rotation, mutex>>

\* The promise settles: its entry leaves the map and everyone who waits for it
\* goes on.  A family whose new token is in no row by then is endangered.
Settle(p) ==
  LET c == call[p].conn
      t == call[p].result
  IN /\ call[p].pc = "settled"
     /\ mutex' = [mutex EXCEPT ![c] = NoCaller]
     /\ call' = [q \in Callers |->
          IF q = p THEN Returned(call[p])
          ELSE IF call[q].pc = "joined" /\ call[q].conn = c
               THEN Returned([call[q] EXCEPT !.result = t])
               ELSE call[q]]
     /\ faulted' = faulted \union (IF t \in Tokens /\ row[c].token < t THEN {c} ELSE {})
     /\ UNCHANGED <<laneVars, row, endpoint, rotation>>

-----------------------------------------------------------------------------
(* After the answer, outside the mutex.                                     *)

Return(p) == call' = [call EXCEPT ![p] = NoCall]

\* chatCore.ts, base.ts, the sweep and the routes write what onPersist did not.
LateWrite(p) ==
  /\ call[p].pc = "returned" /\ call[p].result \in Tokens
  /\ Write(call[p].conn, call[p].result) \/ WriteFails(call[p].conn)
  /\ Return(p)
  /\ UNCHANGED <<laneVars, endpoint, rotation, mutex>>

\* refreshWithRetry calls again with the same credentials, or gives up.
Retry(p) ==
  /\ call[p].pc = "returned" /\ call[p].result = Null
  /\ \/ call' = [call EXCEPT ![p].pc = "loaded"]
     \/ Return(p)
  /\ UNCHANGED <<laneVars, row, endpoint, rotation, mutex, faulted>>

\* The row no longer holds the token whose refresh was rejected: wasRefreshTokenRotated
\* in chatCore.ts, credentialsChangedSinceSweep in the sweep.
RowMovedOn(p) ==
  LET r == row[call[p].conn]
  IN IF call[p].kind = "reactive"
     THEN r.token \notin {Null, call[p].attempted}
     ELSE r.token # call[p].attempted

\* The sweep keeps a connection whose access token is valid for five minutes more,
\* and expires any other; the dead token goes with it where tokens rotate, which is in
\* every group and for some providers without one.
SweepRejects(r, g) ==
  {[r EXCEPT !.active = FALSE, !.token = t] :
      t \in {Null} \union (IF g = NoGroup THEN {r.token} ELSE {})}
    \union (IF r.fresh THEN {[r EXCEPT !.active = TRUE]} ELSE {})

\* What the rejection may make of the row, when the row could be read.
Rejected(p) ==
  LET c == call[p].conn
      r == row[c]
  IN CASE call[p].kind = "manual" -> {[r EXCEPT !.active = FALSE]}
       [] call[p].kind # "manual" /\ RowMovedOn(p) -> {r}
       [] call[p].kind = "reactive" /\ ~RowMovedOn(p) -> {[r EXCEPT !.active = FALSE]}
       [] OTHER -> SweepRejects(r, GroupOf[c])

Deactivate(p) ==
  /\ call[p].pc = "returned" /\ call[p].result = Invalid
  /\ \/ \E r \in Rejected(p) : row' = [row EXCEPT ![call[p].conn] = r]
     \/ /\ call[p].kind = "reactive" /\ "read" \in Faults[call[p].conn]
        /\ row' = [row EXCEPT ![call[p].conn].active = FALSE]
  /\ Return(p)
  /\ UNCHANGED <<laneVars, endpoint, rotation, mutex, faulted>>

\* withTimeout of refreshWithRetry: the caller stops waiting, the refresh goes on.
GiveUp(p) ==
  /\ call[p].kind = "reactive" /\ call[p].waiting
  /\ \/ /\ call[p].pc = "joined"
        /\ Return(p)
     \/ /\ call[p].pc \in OwnerPcs \union {"posting"}
        /\ call' = [call EXCEPT ![p].waiting = FALSE]
  /\ UNCHANGED <<laneVars, row, endpoint, rotation, mutex, faulted>>

\* updateProviderConnection reads the whole row, compares a new API key with the
\* management password (bcrypt), and writes the whole row back, tokens, expiry and
\* status included.  Updates that carry no key do not wait in between and are atomic
\* here.
SaveEdit(p) ==
  LET c == call[p].conn
      read == [token |-> call[p].token, fresh |-> call[p].fresh, active |-> call[p].active]
  IN /\ call[p].pc = "loaded" /\ call[p].kind = "edit"
     /\ row' = [row EXCEPT ![c] = read]
     /\ faulted' = faulted \union
          (IF read.token < row[c].token \/ ~read.active THEN {c} ELSE {})
     /\ Return(p)
     /\ UNCHANGED <<laneVars, endpoint, rotation, mutex>>

-----------------------------------------------------------------------------
(* Time.                                                                    *)

\* The access token of the row comes within a minute of its expiry.
AccessExpires(c) ==
  /\ row[c].fresh
  /\ row' = [row EXCEPT ![c].fresh = FALSE]
  /\ UNCHANGED <<laneVars, endpoint, rotation, mutex, call, faulted>>

\* ROTATION_MAP_TTL_MS has passed since the rotation was recorded.
RotationExpires(c, t) ==
  /\ rotation[c][t] # Null
  /\ rotation' = [rotation EXCEPT ![c][t] = Null]
  /\ UNCHANGED <<laneVars, row, endpoint, mutex, call, faulted>>

Advance(p) ==
  \/ Join(p) \/ Own(p) \/ DirectPost(p)
  \/ RowIsFresh(p) \/ Chain(p) \/ ChainUnread(p) \/ Post(p) \/ Answer(p) \/ EndGap(p)
  \/ Guard(p) \/ GuardUnread(p) \/ Persist(p) \/ Settle(p)
  \/ LateWrite(p) \/ Retry(p) \/ Deactivate(p) \/ SaveEdit(p)

Next ==
  \/ \E p \in Callers :
       \/ \E c \in Connections : \E k \in Kinds[p][c] : Load(p, c, k)
       \/ Advance(p) \/ GiveUp(p)
  \/ \E c \in Connections :
       AccessExpires(c) \/ \E t \in Tokens : RotationExpires(c, t)

Spec == Init /\ [][Next]_vars

\* A caller's promise is run by the event loop until it settles, and the endpoint
\* answers or the fetch fails; the loop returns to answers and timers again and again,
\* whatever continuations come in between.
FairSpec ==
  Spec /\ \A p \in Callers :
            WF_vars(Advance(p)) /\ SF_vars(Answer(p) \/ EndGap(p))

-----------------------------------------------------------------------------
(* Properties.                                                              *)

\* Whoever waits for another caller's refresh waits for one that still runs
\* (connectionRefreshMutex is emptied in the promise's own finally), and two requests
\* for one connection are with the endpoint at once only if an executor posted one of
\* them itself, past getAccessToken.
OneRefreshPerConnection ==
  \A p \in Callers :
    /\ call[p].pc \in OwnerPcs => mutex[call[p].conn] = p
    /\ call[p].pc = "joined" => mutex[call[p].conn] # NoCaller
    /\ \A q \in Callers \ {p} :
         Posting(p) /\ Posting(q) /\ call[p].conn = call[q].conn
           => PostsItself(call[p]) \/ PostsItself(call[q])

\* Two accounts of one rotation group are not with the endpoint at once, nor inside the
\* settle gap of one another (refreshSerializer.ts: "two siblings never POST to
\* /oauth/token concurrently"), unless an executor posted for one of them itself:
\* for kiro, which has a rotation group, the sentence does not hold.
SiblingsPostAlone ==
  \A p \in Callers : \A q \in Callers \ {p} :
    (/\ Posting(p) \/ phase[p] = "settling"
     /\ Posting(q) \/ phase[q] = "settling"
     /\ GroupOf[call[p].conn] = GroupOf[call[q].conn]
     /\ GroupOf[call[p].conn] \in Groups)
      => PostsItself(call[p]) \/ PostsItself(call[q])

\* However calls, sweeps, joins, expiries and give-ups interleave, a consumed refresh
\* token reaches the endpoint, and an account is lost to it, only after an answer or
\* a read was lost, a rotated token stayed unwritten when the mutex was released, a
\* write put an older row back, or an executor posted a refresh itself, past the mutex.
AccountsSurvive ==
  \A c \in Connections :
    c \notin faulted => /\ ~endpoint[c].revoked
                        /\ row[c].active /\ row[c].token # Null

\* The compare-and-swap guard skips a persist "so the DB stays at the fresher state"
\* (casGuard.ts): what it skipped does not replace a newer token later either.
SkippedPersistStaysSkipped ==
  [][\A p \in Callers :
       call[p].persist = "skipped" /\ call'[p].pc = "idle"
         => row'[call[p].conn].token >= row[call[p].conn].token]_vars

\* Every call gets its answer, through the mutex of its connection and the lane of its
\* group, if nobody calls from inside that lane (QuotaRefresh is about those who do).
CallsReturn ==
  \A p \in Callers :
    call[p].pc \notin {"idle", "loaded"} ~> call[p].pc \in {"idle", "loaded"}
=============================================================================
