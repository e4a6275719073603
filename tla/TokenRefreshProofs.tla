------------------------- MODULE TokenRefreshProofs -------------------------
(***************************************************************************)
(* Refreshes exclude each other and lose no account, for any callers,       *)
(* connections, groups, kinds and faults.                                   *)
(*                                                                         *)
(* The core is RowCurrent: the row holds the token the endpoint honours,    *)
(* unless the owner of the mutex holds it and has yet to write it.  The     *)
(* owner that goes to the lane has no answer yet, so what it takes along is *)
(* the newest token, and nobody else can rotate that family before it: an   *)
(* executor that posts past the mutex endangers the family first.           *)
(***************************************************************************)
EXTENDS TokenRefresh, RefreshLaneProofs

CallRecords ==
  [pc : OwnerPcs \union {"idle", "loaded", "joined", "posting", "returned"},
   conn : Connections \union {NoConnection}, kind : AllKinds \union {"none"},
   attempted : Tokens \union {Null}, token : Tokens \union {Null},
   result : Tokens \union {Null, Invalid},
   persist : {"none", "done", "skipped"}, waiting : BOOLEAN,
   fresh : BOOLEAN, active : BOOLEAN]

RowRecords == [token : Tokens \union {Null}, fresh : BOOLEAN, active : BOOLEAN]

-----------------------------------------------------------------------------
(* The inductive invariant.                                                 *)

\* What a call holds at each place; ph is its phase in the lane.
CallOK(q, ph) ==
  /\ q.pc # "idle" => q.conn \in Connections /\ q.token \in Tokens
  /\ q.pc \in {"loaded", "joined", "checking"} => q.result = Null
  /\ q.pc = "refreshing" /\ ph # "settling" => q.result = Null
  /\ q.pc \in {"guarding", "persisting"} => q.result \in Tokens

WellFormed == \A p \in Callers : CallOK(call[p], phase[p])

\* The first part of OneRefreshPerConnection.
MutexHeld ==
  \A p \in Callers :
    /\ call[p].pc \in OwnerPcs => mutex[call[p].conn] = p
    /\ call[p].pc = "joined" => mutex[call[p].conn] # NoCaller

\* What a call of a safe connection holds, when the endpoint honours live: nothing newer,
\* no rejection, and in the lane nothing older; and it does not post past the mutex.
CallSafe(q, ph, live) ==
  /\ q.pc # "posting"
  /\ q.token <= live /\ q.result <= live /\ q.result # Invalid
  /\ q.pc = "refreshing" /\ ph # "settling" => q.token = live

CallsSafe ==
  \A p \in Callers :
    call[p].conn \in Connections \ faulted
      => CallSafe(call[p], phase[p], endpoint[call[p].conn].live)

\* Neither the row nor the rotation map is ahead of the endpoint.
RowSafe ==
  \A c \in Connections \ faulted :
    /\ ~endpoint[c].revoked
    /\ row[c].active /\ row[c].token \in Tokens /\ row[c].token <= endpoint[c].live
    /\ \A t \in Tokens : rotation[c][t] <= endpoint[c].live

\* The newest token is in the row, or with the owner of the mutex.
Unwritten(p, c) ==
  call[p].pc \in OwnerPcs /\ call[p].conn = c /\ call[p].result = endpoint[c].live

RowCurrent ==
  \A c \in Connections \ faulted :
    row[c].token = endpoint[c].live \/ \E p \in Callers : Unwritten(p, c)

\* TypeOK, but for the lane's part of it.
Typed ==
  /\ row \in [Connections -> RowRecords]
  /\ endpoint \in [Connections -> [live : Tokens, revoked : BOOLEAN]]
  /\ rotation \in [Connections -> [Tokens -> Tokens \union {Null}]]
  /\ mutex \in [Connections -> Callers \union {NoCaller}]
  /\ call \in [Callers -> CallRecords]
  /\ faulted \in SUBSET Connections

Sound ==
  /\ Typed /\ WellFormed /\ MutexHeld
  /\ CallsSafe /\ RowSafe /\ RowCurrent

\* A caller in serializeRefresh is a call of getAccessToken in the lane of its own
\* connection's group, and only executors that do so by themselves post past it.
Placed ==
  \A p \in Callers :
    /\ phase[p] # "outside"
         => call[p].pc = "refreshing" /\ lane[p] = GroupOf[call[p].conn]
    /\ call[p].pc = "posting" => PostsItself(call[p])

IInv == LaneInv /\ Sound /\ Placed

-----------------------------------------------------------------------------
(* What a step that rewrites one call preserves.                            *)

\* Only p's phase may move.
OthersPhase(p) == \A q \in Callers : q # p => phase'[q] = phase[q]

LEMMA CallTyped ==
  ASSUME call \in [Callers -> CallRecords], NEW p \in Callers, NEW new \in CallRecords,
         call' = [call EXCEPT ![p] = new]
  PROVE  /\ call' \in [Callers -> CallRecords]
         /\ call'[p] = new
         /\ \A q \in Callers : q # p => call'[q] = call[q]
OBVIOUS

LEMMA WellFormedStep ==
  ASSUME WellFormed, NEW p \in Callers, OthersPhase(p),
         \A q \in Callers : q # p => call'[q] = call[q],
         CallOK(call'[p], phase'[p])
  PROVE  WellFormed'
<1> SUFFICES ASSUME NEW q \in Callers PROVE CallOK(call'[q], phase'[q])
  BY DEF WellFormed
<1>1. CASE q = p
  BY <1>1
<1>2. CASE q # p
  BY <1>2 DEF WellFormed, OthersPhase
<1> QED BY <1>1, <1>2

\* A call that stays in the mutex it is in, or leaves it as it was.
LEMMA OwnersStep ==
  ASSUME MutexHeld, NEW p \in Callers, UNCHANGED mutex,
         \A q \in Callers : q # p => call'[q] = call[q],
         call'[p].pc \in OwnerPcs
           => call[p].pc \in OwnerPcs /\ call'[p].conn = call[p].conn,
         call'[p].pc = "joined" => mutex[call'[p].conn] # NoCaller
  PROVE  MutexHeld'
BY DEF MutexHeld

\* The owner of a mutex is alone in it.
LEMMA OwnerAlone ==
  ASSUME MutexHeld, NEW p \in Callers, NEW q \in Callers,
         call[p].pc \in OwnerPcs, call[q].pc \in OwnerPcs, call[p].conn = call[q].conn
  PROVE  p = q
BY DEF MutexHeld

\* Where the endpoint of a connection may move: only for the owner of its mutex, which
\* then holds the new token.
EndpointStep(p) ==
  \A c \in Connections \ faulted' :
    /\ ~endpoint'[c].revoked /\ endpoint'[c].live \in Tokens
    /\ \/ endpoint'[c].live = endpoint[c].live
       \/ /\ endpoint'[c].live > endpoint[c].live
          /\ call[p].pc \in OwnerPcs /\ call[p].conn = c
          /\ call'[p].pc \in OwnerPcs /\ call'[p].conn = c
          /\ call'[p].result = endpoint'[c].live

\* The tokens a step moves: rows and the rotation map stay behind the endpoint, a row
\* that was current stays so, and a newest token p holds is kept or written.
TokensStep(p) ==
  \A c \in Connections \ faulted' :
    /\ row'[c].active /\ row'[c].token \in Tokens /\ row'[c].token <= endpoint'[c].live
    /\ \A t \in Tokens : rotation'[c][t] <= endpoint'[c].live
    /\ endpoint'[c].live = endpoint[c].live =>
         /\ row[c].token = endpoint[c].live => row'[c].token = row[c].token
         /\ Unwritten(p, c) => row'[c].token = endpoint[c].live \/ Unwritten(p, c)'

LEMMA Numbers ==
  ASSUME Typed
  PROVE  /\ Tokens \subseteq Int /\ Null \in Int /\ Invalid \in Int
         /\ Null \notin Tokens /\ Invalid \notin Tokens /\ Null # Invalid
         /\ \A t \in Tokens : Null <= t /\ Invalid <= t
         /\ \A c \in Connections : endpoint[c].live \in Tokens /\ row[c].token \in Int
         /\ \A p \in Callers : call[p].token \in Int /\ call[p].result \in Int
BY RefreshAssumption DEF Typed, CallRecords, RowRecords, Tokens, Null, Invalid

LEMMA SafeStep ==
  ASSUME Typed, MutexHeld, CallsSafe, RowSafe, RowCurrent,
         NEW p \in Callers, OthersPhase(p),
         \A q \in Callers : q # p => call'[q] = call[q],
         faulted \subseteq faulted', EndpointStep(p), TokensStep(p),
         call'[p].conn \in Connections \ faulted'
           => CallSafe(call'[p], phase'[p], endpoint'[call'[p].conn].live)
  PROVE  CallsSafe' /\ RowSafe' /\ RowCurrent'
<1>0. \A c \in Connections \ faulted' :
         endpoint[c].live \in Int /\ endpoint'[c].live \in Int
         /\ endpoint'[c].live >= endpoint[c].live
  BY Numbers DEF EndpointStep, Tokens
<1>1. CallsSafe'
  <2>1. SUFFICES ASSUME NEW q \in Callers, call'[q].conn \in Connections \ faulted', q # p
                 PROVE  CallSafe(call'[q], phase'[q], endpoint'[call'[q].conn].live)
    BY DEF CallsSafe
  <2>2. call'[q] = call[q] /\ phase'[q] = phase[q]
    BY <2>1 DEF OthersPhase
  <2> DEFINE c == call[q].conn
  <2>3. c \in Connections \ faulted /\ c \in Connections \ faulted'
    BY <2>1, <2>2
  <2>4. CallSafe(call[q], phase[q], endpoint[c].live)
    BY <2>3 DEF CallsSafe
  <2>5. call[q].token <= endpoint'[c].live /\ call[q].result <= endpoint'[c].live
    BY <1>0, <2>3, <2>4, Numbers DEF CallSafe
  <2>6. ASSUME call[q].pc = "refreshing", phase[q] # "settling"
        PROVE  call[q].token = endpoint'[c].live
    <3>1. call[q].token = endpoint[c].live
      BY <2>4, <2>6 DEF CallSafe
    <3>2. call[p].pc \in OwnerPcs => call[p].conn # c
      BY <2>1, <2>6, OwnerAlone DEF OwnerPcs
    <3> QED BY <2>3, <3>1, <3>2 DEF EndpointStep
  <2> QED BY <2>2, <2>4, <2>5, <2>6 DEF CallSafe
<1>2. RowSafe'
  BY DEF RowSafe, EndpointStep, TokensStep
<1>3. RowCurrent'
  <2>1. SUFFICES ASSUME NEW c \in Connections \ faulted'
                 PROVE  \/ row'[c].token = endpoint'[c].live
                        \/ \E q \in Callers : Unwritten(q, c)'
    BY DEF RowCurrent
  <2>2. CASE endpoint'[c].live = endpoint[c].live
    <3>1. CASE row[c].token = endpoint[c].live
      BY <2>2, <3>1 DEF TokensStep
    <3>2. CASE Unwritten(p, c)
      BY <2>2, <3>2 DEF TokensStep
    <3>3. ASSUME NEW q \in Callers, Unwritten(q, c), q # p
          PROVE  Unwritten(q, c)'
      BY <2>2, <3>3 DEF Unwritten
    <3> QED BY <3>1, <3>2, <3>3 DEF RowCurrent
  <2>3. CASE endpoint'[c].live # endpoint[c].live
    BY <2>3 DEF EndpointStep, Unwritten
  <2> QED BY <2>2, <2>3
<1> QED BY <1>1, <1>2, <1>3

\* One call changes, and with it what EndpointStep and TokensStep allow.
LEMMA CallStep ==
  ASSUME Sound, NEW p \in Callers, NEW new \in CallRecords,
         call' = [call EXCEPT ![p] = new], OthersPhase(p), CallOK(new, phase'[p]),
         row' \in [Connections -> RowRecords],
         endpoint' \in [Connections -> [live : Tokens, revoked : BOOLEAN]],
         rotation' \in [Connections -> [Tokens -> Tokens \union {Null}]],
         mutex' \in [Connections -> Callers \union {NoCaller}],
         faulted' \in SUBSET Connections, faulted \subseteq faulted',
         MutexHeld', EndpointStep(p), TokensStep(p),
         new.conn \in Connections \ faulted'
           => CallSafe(new, phase'[p], endpoint'[new.conn].live)
  PROVE  Sound'
<1>1. call' \in [Callers -> CallRecords] /\ call'[p] = new
      /\ \A q \in Callers : q # p => call'[q] = call[q]
  BY CallTyped DEF Sound, Typed
<1>2. Typed'
  BY <1>1 DEF Typed
<1>3. WellFormed'
  BY <1>1, WellFormedStep DEF Sound
<1>4. CallsSafe' /\ RowSafe' /\ RowCurrent'
  BY <1>1, SafeStep DEF Sound
<1> QED BY <1>2, <1>3, <1>4 DEF Sound

\* One call changes and nothing else does but its phase in the lane: it may not enter the
\* mutex, and may not leave it, or change its answer, with a token the row has not.
LEMMA QuietStep ==
  ASSUME Sound, NEW p \in Callers, NEW new \in CallRecords,
         call' = [call EXCEPT ![p] = new], OthersPhase(p), CallOK(new, phase'[p]),
         UNCHANGED <<row, endpoint, rotation, mutex, faulted>>,
         new.pc \in OwnerPcs => call[p].pc \in OwnerPcs /\ new.conn = call[p].conn,
         new.pc = "joined" => mutex[new.conn] # NoCaller,
         call[p].pc \in OwnerPcs /\ call[p].result \in Tokens
           => new.pc \in OwnerPcs /\ new.conn = call[p].conn /\ new.result = call[p].result,
         new.conn \in Connections \ faulted
           => CallSafe(new, phase'[p], endpoint[new.conn].live)
  PROVE  Sound'
<1>1. call'[p] = new /\ \A q \in Callers : q # p => call'[q] = call[q]
  BY CallTyped DEF Sound, Typed
<1>2. MutexHeld'
  BY <1>1, OwnersStep DEF Sound
<1>3. EndpointStep(p)
  BY Numbers DEF Sound, EndpointStep, RowSafe
<1>4. TokensStep(p)
  BY <1>1, Numbers DEF Sound, TokensStep, RowSafe, Unwritten
<1> QED BY <1>2, <1>3, <1>4, CallStep DEF Sound, Typed

LEMMA PhaseStep ==
  ASSUME LaneTypeOK, NEW p \in Callers,
         \/ UNCHANGED laneVars
         \/ \E g \in Groups \union {NoGroup} : Enter(p, g)
         \/ StartRefresh(p) \/ EndRefresh(p) \/ LeaveLane(p)
  PROVE  OthersPhase(p)
BY DEF LaneTypeOK, OthersPhase, laneVars, Enter, StartRefresh, EndRefresh, LeaveLane,
       ReleaseLane

LEMMA AfterAnswerPc ==
  ASSUME NEW k, NEW t
  PROVE  /\ AfterAnswer(k, t) \in {"settled", "guarding", "persisting"}
         /\ AfterAnswer(k, t) \in {"guarding", "persisting"} => t \in Tokens
BY DEF AfterAnswer

-----------------------------------------------------------------------------
(* The steps of a caller.                                                   *)

LEMMA LoadKeeps ==
  ASSUME LaneInv, Sound, NEW p \in Callers, NEW c \in Connections, NEW k \in Kinds[p][c],
         Load(p, c, k)
  PROVE  Sound'
<1> DEFINE new == [NoCall EXCEPT !.pc = "loaded", !.conn = c, !.kind = k,
                                 !.attempted = row[c].token, !.token = row[c].token,
                                 !.fresh = (k = "edit" => row[c].fresh),
                                 !.active = (k = "edit" => row[c].active)]
<1>1. /\ new.pc = "loaded" /\ new.conn = c /\ new.token = row[c].token
      /\ new.result = Null
  BY DEF NoCall
<1>2. row[c].token \in Tokens /\ row[c].fresh \in BOOLEAN /\ row[c].active \in BOOLEAN
  BY DEF Load, Sound, Typed, RowRecords
<1>3. new \in CallRecords
  <2>1. Kinds[p][c] \subseteq AllKinds
    BY RefreshAssumption
  <2> QED BY <1>2, <2>1 DEF NoCall, CallRecords, OwnerPcs
<1>4. call' = [call EXCEPT ![p] = new] /\ call[p].pc \notin OwnerPcs /\ UNCHANGED laneVars
  BY DEF Load, OwnerPcs
<1>5. OthersPhase(p)
  BY <1>4, PhaseStep DEF LaneInv
<1>6. c \notin faulted => CallSafe(new, phase'[p], endpoint[c].live)
  BY <1>1, Numbers DEF Sound, RowSafe, CallSafe
<1> HIDE DEF new
<1>7. CallOK(new, phase'[p])
  BY <1>1, <1>2 DEF CallOK
<1>8. UNCHANGED <<row, endpoint, rotation, mutex, faulted>>
  BY DEF Load
<1> QED BY <1>1, <1>3, <1>4, <1>5, <1>6, <1>7, <1>8, QuietStep DEF OwnerPcs

LEMMA JoinKeeps ==
  ASSUME LaneInv, Sound, NEW p \in Callers, Join(p)
  PROVE  Sound'
<1> DEFINE new == [call[p] EXCEPT !.pc = "joined"]
<1>0. call[p] \in CallRecords /\ call[p].pc = "loaded"
  BY DEF Sound, Typed, Join, CallsGetAccessToken
<1>1. /\ new.pc = "joined" /\ new.conn = call[p].conn /\ new.token = call[p].token
      /\ new.result = call[p].result /\ new \in CallRecords
  BY <1>0 DEF CallRecords
<1>2. call' = [call EXCEPT ![p] = new]
  BY DEF Join
<1> HIDE DEF new
<1>3. OthersPhase(p) /\ UNCHANGED <<phase, row, endpoint, rotation, mutex, faulted>>
  BY PhaseStep DEF LaneInv, Join, laneVars
<1>4. CallOK(new, phase'[p])
  BY <1>0, <1>1 DEF Sound, WellFormed, CallOK
<1>5. new.conn \in Connections \ faulted => CallSafe(new, phase'[p], endpoint[new.conn].live)
  BY <1>0, <1>1 DEF Sound, CallsSafe, CallSafe
<1>6. mutex[new.conn] # NoCaller
  BY <1>1 DEF Join
<1> QED BY <1>0, <1>1, <1>2, <1>3, <1>4, <1>5, <1>6, QuietStep DEF OwnerPcs

\* An answer inside the mutex, which the endpoint is not behind.
LEMMA AnsweredRecord ==
  ASSUME Typed, NEW p \in Callers, NEW t \in Tokens \union {Null, Invalid}, Answered(p, t),
         call[p].conn \in Connections, call[p].token \in Tokens
  PROVE  \E new \in CallRecords :
           /\ call' = [call EXCEPT ![p] = new]
           /\ new.conn = call[p].conn /\ new.token = call[p].token /\ new.result = t
           /\ new.pc \in {"settled", "guarding", "persisting"}
           /\ \A ph : CallOK(new, ph)
<1> DEFINE new == [call[p] EXCEPT !.result = t, !.pc = AfterAnswer(call[p].kind, t)]
<1>1. call[p] \in CallRecords /\ AfterAnswer(call[p].kind, t) \in OwnerPcs
  BY AfterAnswerPc DEF Typed, OwnerPcs
<1>2. /\ new.conn = call[p].conn /\ new.token = call[p].token /\ new.result = t
      /\ new.pc = AfterAnswer(call[p].kind, t) /\ new \in CallRecords
  BY <1>1 DEF CallRecords
<1>3. call' = [call EXCEPT ![p] = new]
  BY DEF Answered
<1> HIDE DEF new
<1>4. new.pc \in {"settled", "guarding", "persisting"}
      /\ (new.pc \in {"guarding", "persisting"} => t \in Tokens)
  BY <1>2, AfterAnswerPc
<1>5. \A ph : CallOK(new, ph)
  BY <1>2, <1>4 DEF CallOK
<1> QED BY <1>2, <1>3, <1>4, <1>5

LEMMA OwnKeeps ==
  ASSUME LaneInv, Sound, NEW p \in Callers, Own(p)
  PROVE  Sound'
<1> DEFINE c == call[p].conn
           rotated == rotation[c][call[p].token]
<1>0. /\ call[p] \in CallRecords /\ call[p].pc = "loaded" /\ c \in Connections
      /\ call[p].token \in Tokens /\ call[p].result = Null
  BY DEF Sound, Typed, WellFormed, CallOK, Own, CallsGetAccessToken
<1>1. rotated \in Tokens \union {Null}
  BY <1>0 DEF Sound, Typed
<1>2. \E new \in CallRecords :
        /\ call' = [call EXCEPT ![p] = new]
        /\ new.conn = c /\ new.token = call[p].token
        /\ new.pc \in {"checking", "settled", "guarding", "persisting"}
        /\ new.result \in {rotated, Null} /\ \A ph : CallOK(new, ph)
  <2>1. CASE rotated # Null
    BY <1>0, <1>1, <2>1, AnsweredRecord DEF Own, Sound
  <2>2. CASE rotated = Null
    <3> DEFINE new == [call[p] EXCEPT !.pc = "checking"]
    <3>1. /\ new.pc = "checking" /\ new.conn = c /\ new.token = call[p].token
          /\ new.result = Null /\ new \in CallRecords
      BY <1>0 DEF CallRecords, OwnerPcs
    <3>2. call' = [call EXCEPT ![p] = new]
      BY <2>2 DEF Own
    <3> HIDE DEF new
    <3> QED BY <1>0, <3>1, <3>2 DEF CallOK
  <2> QED BY <2>1, <2>2
<1>3. PICK new \in CallRecords :
        /\ call' = [call EXCEPT ![p] = new]
        /\ new.conn = c /\ new.token = call[p].token
        /\ new.pc \in {"checking", "settled", "guarding", "persisting"}
        /\ new.result \in {rotated, Null} /\ \A ph : CallOK(new, ph)
  BY <1>2
<1>4. call'[p] = new /\ \A q \in Callers : q # p => call'[q] = call[q]
  BY <1>3, CallTyped DEF Sound, Typed
<1>5. /\ OthersPhase(p) /\ UNCHANGED <<phase, row, endpoint, rotation, faulted>>
      /\ mutex[c] = NoCaller /\ mutex' = [mutex EXCEPT ![c] = p]
  BY PhaseStep DEF LaneInv, Own, laneVars
<1>6. /\ mutex' \in [Connections -> Callers \union {NoCaller}] /\ mutex'[c] = p
      /\ \A d \in Connections : d # c => mutex'[d] = mutex[d]
  BY <1>0, <1>5 DEF Sound, Typed
<1>7. MutexHeld'
  <2>1. SUFFICES ASSUME NEW q \in Callers
                 PROVE  /\ call'[q].pc \in OwnerPcs => mutex'[call'[q].conn] = q
                        /\ call'[q].pc = "joined" => mutex'[call'[q].conn] # NoCaller
    BY DEF MutexHeld
  <2>2. CASE q = p
    BY <1>3, <1>4, <1>6, <2>2
  <2>3. CASE q # p
    <3>1. call'[q] = call[q]
      BY <1>4, <2>3
    <3>2. call[q].pc \in OwnerPcs \union {"joined"} => call[q].conn \in Connections
      BY DEF Sound, WellFormed, CallOK, OwnerPcs
    <3>3. call[q].pc \in OwnerPcs \union {"joined"} => mutex[call[q].conn] # NoCaller
      BY LaneAssumption DEF Sound, MutexHeld
    <3>4. call[q].pc \in OwnerPcs \union {"joined"} => mutex'[call[q].conn] = mutex[call[q].conn]
      BY <1>5, <1>6, <3>2, <3>3
    <3> QED BY <3>1, <3>4 DEF Sound, MutexHeld
  <2> QED BY <2>2, <2>3
<1>8. EndpointStep(p)
  BY <1>5, Numbers DEF Sound, EndpointStep, RowSafe
<1>9. TokensStep(p)
  BY <1>0, <1>5, Numbers DEF Sound, TokensStep, RowSafe, Unwritten, OwnerPcs
<1>10. c \notin faulted => CallSafe(new, phase'[p], endpoint[c].live)
  <2>1. SUFFICES ASSUME c \notin faulted PROVE CallSafe(new, phase'[p], endpoint[c].live)
    OBVIOUS
  <2>2. rotated <= endpoint[c].live /\ rotated # Invalid
    BY <1>0, <1>1, <2>1, Numbers DEF Sound, RowSafe
  <2>3. call[p].token <= endpoint[c].live
    BY <1>0, <2>1 DEF Sound, CallsSafe, CallSafe
  <2> QED BY <1>0, <1>3, <2>2, <2>3, Numbers DEF CallSafe, Sound
<1>11. CallOK(new, phase'[p])
  BY <1>3
<1> QED BY <1>3, <1>5, <1>6, <1>7, <1>8, <1>9, <1>10, <1>11, CallStep DEF Sound, Typed

LEMMA RowIsFreshKeeps ==
  ASSUME LaneInv, Sound, NEW p \in Callers, RowIsFresh(p)
  PROVE  Sound'
<1> DEFINE c == call[p].conn
           t == row[c].token
<1>0. /\ call[p] \in CallRecords /\ call[p].pc = "checking" /\ c \in Connections
      /\ call[p].token \in Tokens /\ call[p].result = Null /\ t \in Tokens
  BY DEF Sound, Typed, WellFormed, CallOK, RowIsFresh, RowRecords
<1>1. Answered(p, t) /\ UNCHANGED <<laneVars, row, endpoint, rotation, mutex, faulted>>
  BY DEF RowIsFresh
<1>2. PICK new \in CallRecords :
        /\ call' = [call EXCEPT ![p] = new]
        /\ new.conn = c /\ new.token = call[p].token /\ new.result = t
        /\ new.pc \in {"settled", "guarding", "persisting"}
        /\ \A ph : CallOK(new, ph)
  BY <1>0, <1>1, AnsweredRecord DEF Sound
<1>3. OthersPhase(p)
  BY <1>1, PhaseStep DEF LaneInv
<1>4. c \notin faulted => CallSafe(new, phase'[p], endpoint[c].live)
  BY <1>0, <1>2, Numbers DEF Sound, RowSafe, CallsSafe, CallSafe
<1>5. CallOK(new, phase'[p])
  BY <1>2
<1>6. call[p].result \notin Tokens
  BY <1>0, Numbers DEF Sound
<1> QED BY <1>0, <1>1, <1>2, <1>3, <1>4, <1>5, <1>6, QuietStep DEF OwnerPcs

\* What a caller takes to the lane when nothing endangers its connection is the newest
\* token: while it owns the mutex without an answer, the row is current.
LEMMA RowIsNewest ==
  ASSUME Sound, NEW p \in Callers, call[p].conn \in Connections \ faulted,
         call[p].pc \in OwnerPcs, call[p].result \notin Tokens
  PROVE  row[call[p].conn].token = endpoint[call[p].conn].live
<1>1. ASSUME NEW q \in Callers, Unwritten(q, call[p].conn)
      PROVE  FALSE
  BY <1>1, OwnerAlone, Numbers DEF Sound, Unwritten
<1> QED BY <1>1 DEF Sound, RowCurrent

LEMMA EnterPhase ==
  ASSUME LaneInv, NEW p \in Callers, NEW c \in Connections, Enter(p, GroupOf[c])
  PROVE  OthersPhase(p) /\ phase'[p] \in {"running", "chained"}
<1>1. GroupOf[c] \in Groups \union {NoGroup}
  BY RefreshAssumption
<1>2. OthersPhase(p)
  BY <1>1, PhaseStep DEF LaneInv
<1> QED BY <1>2 DEF Enter, LaneInv, LaneTypeOK

LEMMA ChainKeeps ==
  ASSUME LaneInv, Sound, NEW p \in Callers, Chain(p)
  PROVE  Sound'
<1> DEFINE c == call[p].conn
           r == row[c]
           t == IF r.token = Null THEN call[p].token ELSE r.token
           new == [call[p] EXCEPT !.pc = "refreshing", !.token = t]
<1>0. /\ call[p] \in CallRecords /\ call[p].pc = "checking" /\ c \in Connections
      /\ call[p].token \in Tokens /\ call[p].result = Null
  BY DEF Sound, Typed, WellFormed, CallOK, Chain
<1>1. t \in Tokens
  BY <1>0 DEF Sound, Typed, RowRecords
<1>2. /\ new.pc = "refreshing" /\ new.conn = c /\ new.token = t /\ new.result = Null
      /\ new \in CallRecords
  BY <1>0, <1>1 DEF CallRecords, OwnerPcs
<1>3. call' = [call EXCEPT ![p] = new]
  BY DEF Chain
<1> HIDE DEF new
<1>4. UNCHANGED <<row, endpoint, rotation, mutex, faulted>>
  BY DEF Chain
<1>5. OthersPhase(p) /\ phase'[p] \in {"running", "chained"}
  BY <1>0, EnterPhase DEF Chain
<1>6. call[p].result \notin Tokens
  BY <1>0, Numbers DEF Sound
<1>7. ASSUME c \notin faulted
      PROVE  CallSafe(new, phase'[p], endpoint[c].live)
  <2>1. t = endpoint[c].live
    BY <1>0, <1>6, <1>7, RowIsNewest, Numbers DEF Sound, OwnerPcs
  <2> QED BY <1>0, <1>2, <2>1, Numbers DEF Sound, CallSafe
<1>8. CallOK(new, phase'[p])
  BY <1>0, <1>1, <1>2 DEF CallOK
<1> QED BY <1>0, <1>2, <1>3, <1>4, <1>5, <1>6, <1>7, <1>8, QuietStep DEF OwnerPcs

LEMMA ChainUnreadKeeps ==
  ASSUME LaneInv, Sound, NEW p \in Callers, ChainUnread(p)
  PROVE  Sound'
<1> DEFINE c == call[p].conn
           new == [call[p] EXCEPT !.pc = "refreshing"]
<1>0. /\ call[p] \in CallRecords /\ call[p].pc = "checking" /\ c \in Connections
      /\ call[p].token \in Tokens /\ call[p].result = Null
  BY DEF Sound, Typed, WellFormed, CallOK, ChainUnread
<1>1. /\ new.pc = "refreshing" /\ new.conn = c /\ new.token = call[p].token
      /\ new.result = Null /\ new \in CallRecords
  BY <1>0 DEF CallRecords, OwnerPcs
<1>2. call' = [call EXCEPT ![p] = new]
  BY DEF ChainUnread
<1> HIDE DEF new
<1>3. /\ UNCHANGED <<row, endpoint, rotation, mutex>>
      /\ faulted' = faulted \union (IF row[c].token # call[p].token THEN {c} ELSE {})
  BY DEF ChainUnread
<1>4. OthersPhase(p) /\ phase'[p] \in {"running", "chained"}
  BY <1>0, EnterPhase DEF ChainUnread
<1>5. call[p].result \notin Tokens
  BY <1>0, Numbers DEF Sound
<1>6. ASSUME c \notin faulted'
      PROVE  CallSafe(new, phase'[p], endpoint[c].live)
  <2>1. call[p].token = endpoint[c].live
    BY <1>0, <1>3, <1>5, <1>6, RowIsNewest DEF OwnerPcs
  <2> QED BY <1>0, <1>1, <2>1, Numbers DEF Sound, CallSafe
<1>7. CallOK(new, phase'[p])
  BY <1>0, <1>1 DEF CallOK
<1>8. call'[p] = new /\ \A q \in Callers : q # p => call'[q] = call[q]
  BY <1>1, <1>2, CallTyped DEF Sound, Typed
<1>9. MutexHeld'
  BY <1>0, <1>1, <1>3, <1>8, OwnersStep DEF Sound, OwnerPcs
<1>10. EndpointStep(p) /\ TokensStep(p)
  BY <1>0, <1>3, <1>5, Numbers
     DEF Sound, EndpointStep, TokensStep, RowSafe, Unwritten
<1>11. faulted' \in SUBSET Connections /\ faulted \subseteq faulted'
  BY <1>0, <1>3 DEF Sound, Typed
<1> QED BY <1>1, <1>2, <1>3, <1>4, <1>6, <1>7, <1>9, <1>10, <1>11, CallStep
       DEF Sound, Typed

LEMMA PostKeeps ==
  ASSUME LaneInv, Sound, NEW p \in Callers, Post(p)
  PROVE  Sound'
<1>0. /\ phase[p] = "chained" /\ phase' = [phase EXCEPT ![p] = "running"]
      /\ UNCHANGED <<row, endpoint, rotation, mutex, call, faulted>>
      /\ phase \in [Callers -> Phases]
  BY DEF Post, StartRefresh, LaneInv, LaneTypeOK
<1>1. \A q \in Callers : phase'[q] = "settling" <=> phase[q] = "settling"
  BY <1>0
<1>2. WellFormed' /\ CallsSafe'
  BY <1>0, <1>1 DEF Sound, WellFormed, CallOK, CallsSafe, CallSafe
<1> QED BY <1>0, <1>2 DEF Sound, Typed, MutexHeld, RowSafe, RowCurrent, Unwritten

-----------------------------------------------------------------------------
(* The answer of the endpoint.                                              *)

\* recordRotation adds at most the answer, under the token that was presented.
LEMMA RecordedMap ==
  ASSUME Typed, NEW p \in Callers, NEW t, Recorded(p, t),
         call[p].conn \in Connections, call[p].token \in Tokens
  PROVE  /\ rotation' \in [Connections -> [Tokens -> Tokens \union {Null}]]
         /\ \A c \in Connections : \A u \in Tokens :
              rotation'[c][u] = rotation[c][u] \/ (c = call[p].conn /\ rotation'[c][u] = t)
<1> DEFINE c == call[p].conn
           map == [rotation[c] EXCEPT ![call[p].token] = t]
<1>1. CASE t \in Tokens /\ t # call[p].token
  <2>1. rotation' = [rotation EXCEPT ![c] = map]
    BY <1>1 DEF Recorded
  <2>2. map \in [Tokens -> Tokens \union {Null}]
    BY <1>1 DEF Typed
  <2>3. rotation'[c] = map /\ \A d \in Connections : d # c => rotation'[d] = rotation[d]
    BY <2>1 DEF Typed
  <2>4. \A u \in Tokens : map[u] = rotation[c][u] \/ map[u] = t
    BY DEF Typed
  <2>5. rotation' \in [Connections -> [Tokens -> Tokens \union {Null}]]
    BY <2>1, <2>2 DEF Typed
  <2> QED BY <2>3, <2>4, <2>5
<1>2. CASE ~(t \in Tokens /\ t # call[p].token)
  BY <1>2 DEF Recorded, Typed
<1> QED BY <1>1, <1>2

\* An answer, whether the gap is paid or not, is kept by the owner or recorded as well.
LEMMA DeliverRecord ==
  ASSUME LaneInv, Sound, NEW p \in Callers, NEW t \in Tokens \union {Null, Invalid},
         DeliverInLane(p, t), UNCHANGED <<row, mutex>>
  PROVE  /\ OthersPhase(p)
         /\ rotation' \in [Connections -> [Tokens -> Tokens \union {Null}]]
         /\ \A c \in Connections : \A u \in Tokens :
              rotation'[c][u] = rotation[c][u] \/ (c = call[p].conn /\ rotation'[c][u] = t)
         /\ \E new \in CallRecords :
              /\ call' = [call EXCEPT ![p] = new]
              /\ new.conn = call[p].conn /\ new.token = call[p].token /\ new.result = t
              /\ new.pc \in {"refreshing", "settled", "guarding", "persisting"}
              /\ new.pc = "refreshing" => phase'[p] = "settling"
              /\ CallOK(new, phase'[p])
<1>0. /\ call[p] \in CallRecords /\ call[p].conn \in Connections /\ call[p].token \in Tokens
      /\ call[p].pc = "refreshing"
  BY DEF Sound, Typed, WellFormed, CallOK, DeliverInLane
<1>1. OthersPhase(p)
  BY PhaseStep DEF DeliverInLane, LaneInv
<1>2. CASE phase'[p] = "settling"
  <2> DEFINE new == [call[p] EXCEPT !.result = t]
  <2>1. /\ new.pc = "refreshing" /\ new.conn = call[p].conn /\ new.token = call[p].token
        /\ new.result = t /\ new \in CallRecords
    BY <1>0 DEF CallRecords
  <2>2. call' = [call EXCEPT ![p] = new] /\ UNCHANGED rotation
    BY <1>2 DEF DeliverInLane
  <2> HIDE DEF new
  <2>3. CallOK(new, phase'[p])
    BY <1>0, <1>2, <2>1 DEF CallOK
  <2> QED BY <1>1, <1>2, <2>1, <2>2, <2>3 DEF Sound, Typed
<1>3. CASE phase'[p] # "settling"
  <2>1. Recorded(p, t) /\ Answered(p, t)
    BY <1>3 DEF DeliverInLane
  <2>2. PICK new \in CallRecords :
          /\ call' = [call EXCEPT ![p] = new]
          /\ new.conn = call[p].conn /\ new.token = call[p].token /\ new.result = t
          /\ new.pc \in {"settled", "guarding", "persisting"}
          /\ \A ph : CallOK(new, ph)
    BY <1>0, <2>1, AnsweredRecord DEF Sound
  <2>3. CallOK(new, phase'[p])
    BY <2>2
  <2>4. new.pc # "refreshing"
    BY <2>2
  <2>5. /\ rotation' \in [Connections -> [Tokens -> Tokens \union {Null}]]
        /\ \A c \in Connections : \A u \in Tokens :
             rotation'[c][u] = rotation[c][u] \/ (c = call[p].conn /\ rotation'[c][u] = t)
    BY <1>0, <2>1, RecordedMap DEF Sound
  <2> QED BY <1>1, <2>2, <2>3, <2>4, <2>5
<1> QED BY <1>2, <1>3

\* The answer is no newer than what the endpoint now honours, and it is the newest
\* whenever the endpoint has moved.
LEMMA DeliverKeeps ==
  ASSUME LaneInv, Sound, NEW p \in Callers, NEW t \in Tokens \union {Null, Invalid},
         call[p].pc = "refreshing", phase[p] # "settling", Deliver(p, t),
         endpoint' \in [Connections -> [live : Tokens, revoked : BOOLEAN]],
         faulted' \in SUBSET Connections, faulted \subseteq faulted',
         \A c \in Connections \ faulted' :
           /\ ~endpoint'[c].revoked
           /\ \/ endpoint'[c].live = endpoint[c].live
              \/ /\ endpoint'[c].live > endpoint[c].live
                 /\ call[p].conn = c /\ t = endpoint'[c].live,
         call[p].conn \in Connections \ faulted'
           => t <= endpoint'[call[p].conn].live /\ t # Invalid
  PROVE  Sound'
<1> DEFINE c == call[p].conn
<1>0. c \in Connections /\ call[p].token \in Tokens /\ call[p].result = Null
  BY DEF Sound, WellFormed, CallOK
<1>d. DeliverInLane(p, t) /\ UNCHANGED <<row, mutex>>
  BY DEF Deliver, DeliverDirectly
<1>1. /\ OthersPhase(p) /\ UNCHANGED <<row, mutex>>
      /\ rotation' \in [Connections -> [Tokens -> Tokens \union {Null}]]
      /\ \A d \in Connections : \A u \in Tokens :
           rotation'[d][u] = rotation[d][u] \/ (d = c /\ rotation'[d][u] = t)
  BY <1>d, DeliverRecord
<1>2. PICK new \in CallRecords :
        /\ call' = [call EXCEPT ![p] = new]
        /\ new.conn = c /\ new.token = call[p].token /\ new.result = t
        /\ new.pc \in {"refreshing", "settled", "guarding", "persisting"}
        /\ new.pc = "refreshing" => phase'[p] = "settling"
        /\ CallOK(new, phase'[p])
  BY <1>d, DeliverRecord
<1>3. call'[p] = new /\ \A q \in Callers : q # p => call'[q] = call[q]
  BY <1>2, CallTyped DEF Sound, Typed
<1>4. MutexHeld'
  BY <1>1, <1>2, <1>3, OwnersStep DEF Sound, OwnerPcs
<1>5. \A d \in Connections \ faulted' :
         endpoint[d].live \in Int /\ endpoint'[d].live \in Tokens /\ endpoint'[d].live \in Int
         /\ endpoint'[d].live >= endpoint[d].live
  BY Numbers DEF Sound
<1>6. EndpointStep(p)
  BY <1>2, <1>3, <1>5 DEF EndpointStep, OwnerPcs
<1>7. \A d \in Connections \ faulted' : \A u \in Tokens :
         rotation[d][u] \in Int /\ rotation[d][u] <= endpoint[d].live
  BY Numbers DEF Sound, RowSafe, Typed
<1>8. TokensStep(p)
  <2>1. SUFFICES ASSUME NEW d \in Connections \ faulted'
                 PROVE  /\ row'[d].active /\ row'[d].token \in Tokens
                        /\ row'[d].token <= endpoint'[d].live
                        /\ \A u \in Tokens : rotation'[d][u] <= endpoint'[d].live
                        /\ row'[d].token = row[d].token /\ ~Unwritten(p, d)
    BY DEF TokensStep
  <2>2. /\ row[d].active /\ row[d].token \in Tokens /\ row[d].token <= endpoint[d].live
        /\ row[d].token \in Int
    BY Numbers DEF Sound, RowSafe
  <2>3. ~Unwritten(p, d)
    BY <1>0, <1>5, Numbers DEF Sound, Unwritten
  <2>4. \A u \in Tokens : rotation'[d][u] <= endpoint'[d].live
    BY <1>1, <1>5, <1>7
  <2> QED BY <1>1, <1>5, <2>2, <2>3, <2>4
<1>9. ASSUME c \notin faulted'
      PROVE  CallSafe(new, phase'[p], endpoint'[c].live)
  <2>1. call[p].token <= endpoint[c].live /\ call[p].token \in Int
    BY <1>0, <1>9, Numbers DEF Sound, CallsSafe, CallSafe
  <2> QED BY <1>0, <1>2, <1>5, <1>9, <2>1 DEF CallSafe
<1> QED BY <1>1, <1>2, <1>4, <1>6, <1>8, <1>9, CallStep DEF Sound, Typed

LEMMA AnswerInLaneKeeps ==
  ASSUME LaneInv, Sound, NEW p \in Callers, Answer(p), call[p].pc = "refreshing"
  PROVE  Sound'
<1> DEFINE c == call[p].conn
<1>0. /\ call[p].pc = "refreshing" /\ phase[p] # "settling"
      /\ c \in Connections /\ call[p].token \in Tokens
  BY DEF Answer, Posting, Sound, WellFormed, CallOK
<1>1. /\ endpoint[c] \in [live : Tokens, revoked : BOOLEAN] /\ endpoint[c].live \in Int
      /\ \A d \in Connections \ faulted : ~endpoint[d].revoked
  BY <1>0, Numbers DEF Sound, Typed, RowSafe
<1>2. c \notin faulted => Honoured(p)
  BY <1>0, <1>1 DEF Sound, CallsSafe, CallSafe, Honoured
<1>3. CASE AnswerRotates(p) \/ AnswerLost(p)
  <2> DEFINE e == [endpoint[c] EXCEPT !.live = endpoint[c].live + 1]
  <2>1. endpoint[c].live + 1 \in Tokens /\ endpoint' = [endpoint EXCEPT ![c] = e]
    BY <1>1, <1>3, RefreshAssumption DEF AnswerRotates, AnswerLost, Tokens
  <2>2. /\ e \in [live : Tokens, revoked : BOOLEAN] /\ e.live = endpoint[c].live + 1
        /\ e.revoked = endpoint[c].revoked
    BY <1>1, <2>1
  <2>3. /\ endpoint' \in [Connections -> [live : Tokens, revoked : BOOLEAN]]
        /\ endpoint'[c] = e /\ \A d \in Connections : d # c => endpoint'[d] = endpoint[d]
    BY <1>0, <2>1, <2>2 DEF Sound, Typed
  <2> HIDE DEF e
  <2>4. CASE AnswerRotates(p)
    <3>1. Deliver(p, e.live) /\ UNCHANGED faulted
      BY <2>2, <2>4 DEF AnswerRotates
    <3>2. \A d \in Connections \ faulted' :
            /\ ~endpoint'[d].revoked
            /\ \/ endpoint'[d].live = endpoint[d].live
               \/ endpoint'[d].live > endpoint[d].live /\ c = d /\ e.live = endpoint'[d].live
      BY <1>1, <2>2, <2>3, <3>1
    <3>3. e.live <= endpoint'[c].live /\ e.live # Invalid /\ e.live \in Tokens
      BY <1>1, <2>1, <2>2, <2>3, Numbers DEF Sound
    <3>4. faulted' \in SUBSET Connections /\ faulted \subseteq faulted'
      BY <3>1 DEF Sound, Typed
    <3> QED BY <1>0, <2>3, <3>1, <3>2, <3>3, <3>4, DeliverKeeps
  <2>5. CASE AnswerLost(p)
    <3>1. Deliver(p, Null) /\ faulted' = faulted \union {c}
      BY <2>5 DEF AnswerLost
    <3>2. \A d \in Connections \ faulted' :
            ~endpoint'[d].revoked /\ endpoint'[d].live = endpoint[d].live
      BY <1>1, <2>3, <3>1
    <3>3. c \in faulted' /\ faulted' \in SUBSET Connections /\ faulted \subseteq faulted'
      BY <1>0, <3>1 DEF Sound, Typed
    <3> QED BY <1>0, <2>3, <3>1, <3>2, <3>3, DeliverKeeps
  <2> QED BY <1>3, <2>4, <2>5
<1>4. CASE AnswerReused(p)
  <2>1. c \in faulted /\ Deliver(p, Invalid) /\ UNCHANGED faulted
    BY <1>2, <1>4 DEF AnswerReused
  <2> DEFINE e == [endpoint[c] EXCEPT !.revoked = TRUE]
  <2>2. endpoint' = [endpoint EXCEPT ![c] = e]
    BY <1>4 DEF AnswerReused
  <2>3. e \in [live : Tokens, revoked : BOOLEAN]
    BY <1>1
  <2>4. /\ endpoint' \in [Connections -> [live : Tokens, revoked : BOOLEAN]]
        /\ \A d \in Connections : d # c => endpoint'[d] = endpoint[d]
    BY <1>0, <2>2, <2>3 DEF Sound, Typed
  <2>5. \A d \in Connections \ faulted' :
          ~endpoint'[d].revoked /\ endpoint'[d].live = endpoint[d].live
    BY <1>1, <2>1, <2>4
  <2>6. faulted' \in SUBSET Connections /\ faulted \subseteq faulted'
    BY <2>1 DEF Sound, Typed
  <2> QED BY <1>0, <2>1, <2>4, <2>5, <2>6, DeliverKeeps
<1>5. CASE AnswerRefused(p)
  <2>1. Deliver(p, Null) /\ UNCHANGED <<endpoint, faulted>>
    BY <1>5 DEF AnswerRefused
  <2>2. Null <= endpoint[c].live /\ Null # Invalid
    BY <1>0, Numbers DEF Sound
  <2>3. \A d \in Connections \ faulted' :
          ~endpoint'[d].revoked /\ endpoint'[d].live = endpoint[d].live
    BY <1>1, <2>1
  <2>4. /\ endpoint' \in [Connections -> [live : Tokens, revoked : BOOLEAN]]
        /\ faulted' \in SUBSET Connections /\ faulted \subseteq faulted'
    BY <2>1 DEF Sound, Typed
  <2> QED BY <1>0, <2>1, <2>2, <2>3, <2>4, DeliverKeeps
<1> QED BY <1>3, <1>4, <1>5 DEF Answer

LEMMA EndGapKeeps ==
  ASSUME LaneInv, Sound, NEW p \in Callers, EndGap(p)
  PROVE  Sound'
<1> DEFINE c == call[p].conn
           t == call[p].result
<1>0. /\ call[p] \in CallRecords /\ call[p].pc = "refreshing" /\ c \in Connections
      /\ call[p].token \in Tokens /\ t \in Tokens \union {Null, Invalid}
  BY DEF EndGap, Sound, Typed, WellFormed, CallOK, CallRecords
<1>1. /\ Recorded(p, t) /\ Answered(p, t) /\ LeaveLane(p)
      /\ UNCHANGED <<row, endpoint, mutex, faulted>>
  BY DEF EndGap
<1>2. OthersPhase(p)
  BY <1>1, PhaseStep DEF LaneInv
<1>3. PICK new \in CallRecords :
        /\ call' = [call EXCEPT ![p] = new]
        /\ new.conn = c /\ new.token = call[p].token /\ new.result = t
        /\ new.pc \in {"settled", "guarding", "persisting"}
        /\ \A ph : CallOK(new, ph)
  BY <1>0, <1>1, AnsweredRecord DEF Sound
<1>4. /\ rotation' \in [Connections -> [Tokens -> Tokens \union {Null}]]
      /\ \A d \in Connections : \A u \in Tokens :
           rotation'[d][u] = rotation[d][u] \/ (d = c /\ rotation'[d][u] = t)
  BY <1>0, <1>1, RecordedMap DEF Sound
<1>5. call'[p] = new /\ \A q \in Callers : q # p => call'[q] = call[q]
  BY <1>3, CallTyped DEF Sound, Typed
<1>6. MutexHeld'
  BY <1>0, <1>1, <1>3, <1>5, OwnersStep DEF Sound, OwnerPcs
<1>7. EndpointStep(p)
  BY <1>1, Numbers DEF Sound, EndpointStep, RowSafe
<1>8. c \notin faulted => t <= endpoint[c].live /\ t # Invalid /\ call[p].token <= endpoint[c].live
  BY <1>0 DEF Sound, CallsSafe, CallSafe
<1>9. TokensStep(p)
  <2>1. SUFFICES ASSUME NEW d \in Connections \ faulted
                 PROVE  /\ row[d].active /\ row[d].token \in Tokens
                        /\ row[d].token <= endpoint[d].live
                        /\ \A u \in Tokens : rotation'[d][u] <= endpoint[d].live
                        /\ Unwritten(p, d) => Unwritten(p, d)'
    BY <1>1 DEF TokensStep
  <2>2. \A u \in Tokens : rotation'[d][u] <= endpoint[d].live
    BY <1>4, <1>8 DEF Sound, RowSafe
  <2>3. Unwritten(p, d) => Unwritten(p, d)'
    BY <1>1, <1>3, <1>5 DEF Unwritten, OwnerPcs
  <2> QED BY <2>2, <2>3 DEF Sound, RowSafe
<1>10. c \notin faulted => CallSafe(new, phase'[p], endpoint[c].live)
  BY <1>3, <1>8 DEF CallSafe
<1>11. CallOK(new, phase'[p])
  BY <1>3
<1> QED BY <1>1, <1>2, <1>3, <1>4, <1>6, <1>7, <1>9, <1>10, <1>11, CallStep DEF Sound, Typed

-----------------------------------------------------------------------------
(* Writing the row, and what follows the answer.                            *)

LEMMA GuardKeeps ==
  ASSUME LaneInv, Sound, NEW p \in Callers, Guard(p) \/ GuardUnread(p)
  PROVE  Sound'
<1> DEFINE skipped == [call[p] EXCEPT !.pc = "settled", !.persist = "skipped"]
           passed == [call[p] EXCEPT !.pc = "persisting"]
<1>0. /\ call[p] \in CallRecords /\ call[p].pc = "guarding" /\ call[p].conn \in Connections
      /\ call[p].token \in Tokens /\ call[p].result \in Tokens
  BY DEF Guard, GuardUnread, Sound, Typed, WellFormed, CallOK
<1>1. /\ skipped.pc = "settled" /\ skipped.conn = call[p].conn
      /\ skipped.token = call[p].token /\ skipped.result = call[p].result
      /\ skipped \in CallRecords
  BY <1>0 DEF CallRecords, OwnerPcs
<1>2. /\ passed.pc = "persisting" /\ passed.conn = call[p].conn
      /\ passed.token = call[p].token /\ passed.result = call[p].result
      /\ passed \in CallRecords
  BY <1>0 DEF CallRecords, OwnerPcs
<1>3. call' = [call EXCEPT ![p] = skipped] \/ call' = [call EXCEPT ![p] = passed]
  BY DEF Guard, GuardUnread
<1> HIDE DEF skipped, passed
<1>4. PICK new \in CallRecords :
        /\ call' = [call EXCEPT ![p] = new] /\ new.pc \in {"settled", "persisting"}
        /\ new.conn = call[p].conn /\ new.token = call[p].token
        /\ new.result = call[p].result
  BY <1>1, <1>2, <1>3
<1>5. UNCHANGED <<laneVars, row, endpoint, rotation, mutex, faulted>>
  BY DEF Guard, GuardUnread
<1>6. OthersPhase(p)
  BY <1>5, PhaseStep DEF LaneInv
<1>7. CallOK(new, phase'[p])
  BY <1>0, <1>4 DEF CallOK
<1>8. new.conn \in Connections \ faulted => CallSafe(new, phase'[p], endpoint[new.conn].live)
  BY <1>0, <1>4 DEF Sound, CallsSafe, CallSafe
<1> QED BY <1>0, <1>4, <1>5, <1>6, <1>7, <1>8, QuietStep DEF OwnerPcs

\* A row that is written, or its connection endangered: what p writes is its result or,
\* for an edit, what it read.
LEMMA WriteKeeps ==
  ASSUME LaneInv, Sound, NEW p \in Callers, NEW new \in CallRecords, NEW r \in RowRecords,
         call' = [call EXCEPT ![p] = new], CallOK(new, phase'[p]),
         UNCHANGED <<laneVars, endpoint, rotation, mutex>>,
         call[p].conn \in Connections, row' = [row EXCEPT ![call[p].conn] = r],
         r.token \in {call[p].result, call[p].token}, r.token \in Tokens,
         faulted' = faulted \union
           (IF r.token < row[call[p].conn].token \/ ~r.active THEN {call[p].conn} ELSE {}),
         new.pc \in OwnerPcs => call[p].pc \in OwnerPcs,
         call[p].pc \in OwnerPcs => new.pc \in OwnerPcs \/ r.token = call[p].result,
         new.pc \notin {"refreshing", "joined", "posting"},
         new.conn = call[p].conn \/ (new.conn = NoConnection /\ new.pc = "idle"),
         new.conn = call[p].conn => new.result = call[p].result /\ new.token = call[p].token
  PROVE  Sound'
<1> DEFINE c == call[p].conn
<1>1. OthersPhase(p)
  BY PhaseStep DEF LaneInv
<1>2. call'[p] = new /\ \A q \in Callers : q # p => call'[q] = call[q]
  BY CallTyped DEF Sound, Typed
<1>3. /\ row' \in [Connections -> RowRecords] /\ row'[c] = r
      /\ \A d \in Connections : d # c => row'[d] = row[d]
  BY DEF Sound, Typed
<1>4. faulted \subseteq faulted' /\ faulted' \in SUBSET Connections
  BY DEF Sound, Typed
<1>5. MutexHeld'
  BY <1>2, OwnersStep DEF Sound, OwnerPcs
<1>6. EndpointStep(p)
  BY <1>4, Numbers DEF Sound, EndpointStep, RowSafe
<1>7. ASSUME c \notin faulted'
      PROVE  /\ r.token <= endpoint[c].live /\ row[c].token <= r.token /\ r.active
             /\ row[c].token = endpoint[c].live => r.token = row[c].token
             /\ call[p].result # Invalid /\ call[p].result <= endpoint[c].live
             /\ call[p].token <= endpoint[c].live
  <2>1. /\ call[p].result # Invalid /\ call[p].result <= endpoint[c].live
        /\ call[p].token <= endpoint[c].live
    BY <1>4, <1>7 DEF Sound, CallsSafe, CallSafe, RowSafe
  <2>2. endpoint[c].live \in Int /\ row[c].token \in Int /\ r.token \in Int
    BY Numbers DEF Sound
  <2>3. row[c].token <= r.token /\ r.active
    BY <1>7, <2>2 DEF RowRecords
  <2> QED BY <2>1, <2>2, <2>3
<1>8. TokensStep(p)
  <2>1. SUFFICES ASSUME NEW d \in Connections \ faulted'
                 PROVE  /\ row'[d].active /\ row'[d].token \in Tokens
                        /\ row'[d].token <= endpoint[d].live
                        /\ \A u \in Tokens : rotation[d][u] <= endpoint[d].live
                        /\ row[d].token = endpoint[d].live => row'[d].token = row[d].token
                        /\ Unwritten(p, d)
                             => row'[d].token = endpoint[d].live \/ Unwritten(p, d)'
    BY DEF TokensStep
  <2>2. d \in Connections \ faulted
    BY <1>4
  <2>3. CASE d = c
    <3>1. Unwritten(p, d) => r.token = endpoint[d].live \/ Unwritten(p, d)'
      BY <1>2, <2>3, RefreshAssumption DEF Unwritten, OwnerPcs
    <3>2. row'[d] = r /\ \A u \in Tokens : rotation[d][u] <= endpoint[d].live
      BY <1>3, <2>2, <2>3 DEF Sound, RowSafe
    <3> HIDE DEF c
    <3> QED BY <1>7, <2>3, <3>1, <3>2
  <2>4. CASE d # c
    BY <1>3, <2>2, <2>4 DEF Sound, RowSafe, Unwritten
  <2> QED BY <2>3, <2>4
<1>9. new.conn \in Connections \ faulted'
        => CallSafe(new, phase'[p], endpoint'[new.conn].live)
  BY <1>7, RefreshAssumption DEF CallSafe
<1> QED BY <1>1, <1>3, <1>4, <1>5, <1>6, <1>8, <1>9, CallStep DEF Sound, Typed

LEMMA NoCallFacts ==
  /\ NoCall \in CallRecords /\ NoCall.pc = "idle" /\ NoCall.conn = NoConnection
  /\ NoConnection \notin Connections /\ \A ph : CallOK(NoCall, ph)
BY RefreshAssumption DEF NoCall, CallRecords, CallOK

\* A call that ends without having been in the mutex.
LEMMA ReturnKeeps ==
  ASSUME LaneInv, Sound, NEW p \in Callers, Return(p), call[p].pc \notin OwnerPcs,
         UNCHANGED <<laneVars, row, endpoint, rotation, mutex, faulted>>
  PROVE  Sound'
<1>1. OthersPhase(p)
  BY PhaseStep DEF LaneInv
<1>2. CallOK(NoCall, phase'[p])
  BY NoCallFacts
<1> QED BY <1>1, <1>2, NoCallFacts, QuietStep DEF Return, OwnerPcs

LEMMA PersistKeeps ==
  ASSUME LaneInv, Sound, NEW p \in Callers, Persist(p)
  PROVE  Sound'
<1> DEFINE c == call[p].conn
           t == call[p].result
           how == IF call[p].kind = "sweep" THEN "none" ELSE "done"
           done == [call[p] EXCEPT !.pc = "settled", !.persist = "done"]
           failed == [call[p] EXCEPT !.pc = "settled", !.persist = how]
<1>0. /\ call[p] \in CallRecords /\ call[p].pc = "persisting" /\ c \in Connections
      /\ call[p].token \in Tokens /\ t \in Tokens
  BY DEF Persist, Sound, Typed, WellFormed, CallOK
<1>1. /\ done.pc = "settled" /\ done.conn = c /\ done.token = call[p].token
      /\ done.result = t /\ done \in CallRecords
  BY <1>0 DEF CallRecords, OwnerPcs
<1>2. /\ failed.pc = "settled" /\ failed.conn = c /\ failed.token = call[p].token
      /\ failed.result = t /\ failed \in CallRecords
  BY <1>0 DEF CallRecords, OwnerPcs
<1>3. UNCHANGED <<laneVars, endpoint, rotation, mutex>>
  BY DEF Persist
<1>4. CASE Write(c, t) /\ call' = [call EXCEPT ![p] = done]
  <2>1. /\ row' = [row EXCEPT ![c] = Written(t)]
        /\ faulted' = faulted \union
             (IF Written(t).token < row[c].token \/ ~Written(t).active THEN {c} ELSE {})
        /\ Written(t) \in RowRecords /\ Written(t).token = t /\ Written(t).active
    BY <1>0, <1>4 DEF Write, Written, RowRecords
  <2> HIDE DEF done
  <2>2. CallOK(done, phase'[p])
    BY <1>0, <1>1 DEF CallOK
  <2> QED BY <1>0, <1>1, <1>3, <1>4, <2>1, <2>2, WriteKeeps DEF OwnerPcs
<1>5. CASE WriteFails(c) /\ call' = [call EXCEPT ![p] = failed]
  <2> HIDE DEF failed
  <2>1. OthersPhase(p) /\ UNCHANGED <<row, faulted>>
    BY <1>3, <1>5, PhaseStep DEF LaneInv, WriteFails
  <2>2. CallOK(failed, phase'[p])
    BY <1>0, <1>2 DEF CallOK
  <2>3. failed.conn \in Connections \ faulted
          => CallSafe(failed, phase'[p], endpoint[failed.conn].live)
    BY <1>0, <1>2 DEF Sound, CallsSafe, CallSafe
  <2> QED BY <1>0, <1>2, <1>3, <1>5, <2>1, <2>2, <2>3, QuietStep DEF OwnerPcs
<1>6. \/ Write(c, t) /\ call' = [call EXCEPT ![p] = done]
      \/ WriteFails(c) /\ call' = [call EXCEPT ![p] = failed]
  BY DEF Persist
<1> QED BY <1>4, <1>5, <1>6

LEMMA LateWriteKeeps ==
  ASSUME LaneInv, Sound, NEW p \in Callers, LateWrite(p)
  PROVE  Sound'
<1> DEFINE c == call[p].conn
           t == call[p].result
<1>0. /\ call[p].pc = "returned" /\ c \in Connections /\ t \in Tokens
      /\ Return(p) /\ UNCHANGED <<laneVars, endpoint, rotation, mutex>>
  BY DEF LateWrite, Sound, WellFormed, CallOK
<1>1. CASE Write(c, t)
  <2>1. /\ row' = [row EXCEPT ![c] = Written(t)]
        /\ faulted' = faulted \union
             (IF Written(t).token < row[c].token \/ ~Written(t).active THEN {c} ELSE {})
        /\ Written(t) \in RowRecords /\ Written(t).token = t /\ Written(t).active
    BY <1>0, <1>1 DEF Write, Written, RowRecords
  <2>2. CallOK(NoCall, phase'[p])
    BY NoCallFacts
  <2> QED BY <1>0, <2>1, <2>2, NoCallFacts, WriteKeeps DEF OwnerPcs, Return
<1>2. CASE WriteFails(c)
  BY <1>0, <1>2, ReturnKeeps DEF WriteFails, OwnerPcs
<1> QED BY <1>1, <1>2 DEF LateWrite

LEMMA SaveEditKeeps ==
  ASSUME LaneInv, Sound, NEW p \in Callers, SaveEdit(p)
  PROVE  Sound'
<1> DEFINE c == call[p].conn
           t == call[p].token
           r == [token |-> t, fresh |-> call[p].fresh, active |-> call[p].active]
<1>0. /\ call[p].pc = "loaded" /\ c \in Connections /\ t \in Tokens
      /\ Return(p) /\ UNCHANGED <<laneVars, endpoint, rotation, mutex>>
      /\ call[p] \in CallRecords
  BY DEF SaveEdit, Sound, Typed, WellFormed, CallOK
<1>1. r \in RowRecords /\ r.token = t
  BY <1>0 DEF RowRecords, CallRecords
<1>2. /\ row' = [row EXCEPT ![c] = r]
      /\ faulted' = faulted \union (IF r.token < row[c].token \/ ~r.active THEN {c} ELSE {})
  BY DEF SaveEdit
<1> HIDE DEF r
<1>3. CallOK(NoCall, phase'[p])
  BY NoCallFacts
<1> QED BY <1>0, <1>1, <1>2, <1>3, NoCallFacts, WriteKeeps DEF OwnerPcs, Return

LEMMA RetryKeeps ==
  ASSUME LaneInv, Sound, NEW p \in Callers, Retry(p)
  PROVE  Sound'
<1> DEFINE new == [call[p] EXCEPT !.pc = "loaded"]
<1>0. /\ call[p] \in CallRecords /\ call[p].pc = "returned" /\ call[p].conn \in Connections
      /\ call[p].token \in Tokens /\ call[p].result = Null
      /\ UNCHANGED <<laneVars, row, endpoint, rotation, mutex, faulted>>
  BY DEF Retry, Sound, Typed, WellFormed, CallOK
<1>1. CASE call' = [call EXCEPT ![p] = new]
  <2>1. /\ new.pc = "loaded" /\ new.conn = call[p].conn /\ new.token = call[p].token
        /\ new.result = Null /\ new \in CallRecords
    BY <1>0 DEF CallRecords
  <2> HIDE DEF new
  <2>2. OthersPhase(p)
    BY <1>0, PhaseStep DEF LaneInv
  <2>3. CallOK(new, phase'[p])
    BY <1>0, <2>1 DEF CallOK
  <2>4. new.conn \in Connections \ faulted => CallSafe(new, phase'[p], endpoint[new.conn].live)
    BY <1>0, <2>1 DEF Sound, CallsSafe, CallSafe
  <2> QED BY <1>0, <1>1, <2>1, <2>2, <2>3, <2>4, QuietStep DEF OwnerPcs
<1>2. CASE Return(p)
  BY <1>0, <1>2, ReturnKeeps DEF OwnerPcs
<1>3. call' = [call EXCEPT ![p] = new] \/ Return(p)
  BY DEF Retry
<1> QED BY <1>1, <1>2, <1>3

LEMMA GiveUpKeeps ==
  ASSUME LaneInv, Sound, NEW p \in Callers, GiveUp(p)
  PROVE  Sound'
<1> DEFINE new == [call[p] EXCEPT !.waiting = FALSE]
<1>0. UNCHANGED <<laneVars, row, endpoint, rotation, mutex, faulted>>
  BY DEF GiveUp
<1>1. CASE call[p].pc = "joined" /\ Return(p)
  BY <1>0, <1>1, ReturnKeeps DEF OwnerPcs
<1>2. CASE call[p].pc \in OwnerPcs \union {"posting"} /\ call' = [call EXCEPT ![p] = new]
  <2>1. call[p] \in CallRecords /\ call[p].conn \in Connections
    BY <1>2 DEF Sound, Typed, WellFormed, CallOK, OwnerPcs
  <2>2. /\ new.pc = call[p].pc /\ new.conn = call[p].conn /\ new.token = call[p].token
        /\ new.result = call[p].result /\ new \in CallRecords
    BY <2>1 DEF CallRecords
  <2> HIDE DEF new
  <2>3. OthersPhase(p) /\ UNCHANGED phase
    BY <1>0, PhaseStep DEF LaneInv, laneVars
  <2>4. CallOK(new, phase'[p])
    BY <2>2, <2>3 DEF Sound, WellFormed, CallOK
  <2>5. new.conn \in Connections \ faulted => CallSafe(new, phase'[p], endpoint[new.conn].live)
    BY <2>1, <2>2, <2>3 DEF Sound, CallsSafe, CallSafe
  <2>6. new.pc # "joined"
    BY <1>2, <2>2 DEF OwnerPcs
  <2> QED BY <1>0, <1>2, <2>2, <2>3, <2>4, <2>5, <2>6, QuietStep
<1> QED BY <1>1, <1>2 DEF GiveUp

\* A rejection leaves a row a row.
LEMMA SweepRejectsRows ==
  ASSUME NEW r \in RowRecords, NEW g
  PROVE  SweepRejects(r, g) \subseteq RowRecords
<1>1. \A t \in {Null} \union (IF g = NoGroup THEN {r.token} ELSE {}) :
        [r EXCEPT !.active = FALSE, !.token = t] \in RowRecords
  BY DEF RowRecords
<1>2. [r EXCEPT !.active = TRUE] \in RowRecords
  BY DEF RowRecords
<1> QED BY <1>1, <1>2 DEF SweepRejects

LEMMA DeactivateKeeps ==
  ASSUME LaneInv, Sound, NEW p \in Callers, Deactivate(p)
  PROVE  Sound'
<1> DEFINE c == call[p].conn
<1>0. /\ call[p].pc = "returned" /\ c \in Connections /\ call[p].result = Invalid
      /\ Return(p) /\ UNCHANGED <<laneVars, endpoint, rotation, mutex, faulted>>
      /\ row[c] \in RowRecords
  BY DEF Deactivate, Sound, Typed, WellFormed, CallOK
<1>1. c \in faulted
  BY <1>0 DEF Sound, CallsSafe, CallSafe
<1>2. PICK r \in RowRecords : row' = [row EXCEPT ![c] = r]
  <2>1. CASE \E r \in Rejected(p) : row' = [row EXCEPT ![c] = r]
    <3>1. Rejected(p) \subseteq RowRecords
      <4>1. /\ {[row[c] EXCEPT !.active = FALSE]} \subseteq RowRecords
            /\ SweepRejects(row[c], GroupOf[c]) \subseteq RowRecords
            /\ {row[c]} \subseteq RowRecords
        BY <1>0, SweepRejectsRows DEF RowRecords
      <4> QED BY <4>1 DEF Rejected
    <3> QED BY <2>1, <3>1
  <2>2. CASE row' = [row EXCEPT ![c].active = FALSE]
    <3>1. [row[c] EXCEPT !.active = FALSE] \in RowRecords
      BY <1>0 DEF RowRecords
    <3> QED BY <2>2, <3>1
  <2> QED BY <2>1, <2>2 DEF Deactivate
<1>3. /\ row' \in [Connections -> RowRecords]
      /\ \A d \in Connections : d # c => row'[d] = row[d]
  BY <1>2 DEF Sound, Typed
<1>4. OthersPhase(p)
  BY <1>0, PhaseStep DEF LaneInv
<1>5. call'[p] = NoCall /\ \A q \in Callers : q # p => call'[q] = call[q]
  BY <1>0, NoCallFacts, CallTyped DEF Sound, Typed, Return
<1>6. MutexHeld'
  BY <1>0, <1>5, NoCallFacts, OwnersStep DEF Sound, OwnerPcs
<1>7. EndpointStep(p)
  BY <1>0, Numbers DEF Sound, EndpointStep, RowSafe
<1>8. TokensStep(p)
  BY <1>0, <1>1, <1>3, Numbers DEF Sound, TokensStep, RowSafe, Unwritten, OwnerPcs
<1>9. CallOK(NoCall, phase'[p])
  BY NoCallFacts
<1> QED BY <1>0, <1>3, <1>4, <1>6, <1>7, <1>8, <1>9, NoCallFacts, CallStep
       DEF Sound, Typed, Return

LEMMA ReturnedRecord ==
  ASSUME NEW q \in CallRecords
  PROVE  \/ Returned(q) = NoCall
         \/ /\ Returned(q) \in CallRecords /\ Returned(q).pc = "returned"
            /\ Returned(q).conn = q.conn /\ Returned(q).token = q.token
            /\ Returned(q).result = q.result
<1> DEFINE r == [q EXCEPT !.pc = "returned"]
<1>1. /\ r \in CallRecords /\ r.pc = "returned" /\ r.conn = q.conn /\ r.token = q.token
      /\ r.result = q.result
  BY DEF CallRecords
<1>2. Returned(q) = NoCall \/ Returned(q) = r
  BY DEF Returned
<1> QED BY <1>1, <1>2

\* The executor's own request endangers the connection before it is sent.
LEMMA DirectPostKeeps ==
  ASSUME LaneInv, Sound, NEW p \in Callers, DirectPost(p)
  PROVE  Sound'
<1> DEFINE c == call[p].conn
           new == [call[p] EXCEPT !.pc = "posting"]
<1>0. /\ call[p] \in CallRecords /\ call[p].pc = "loaded" /\ c \in Connections
      /\ call[p].token \in Tokens
  BY DEF DirectPost, Sound, Typed, WellFormed, CallOK
<1>1. /\ new.pc = "posting" /\ new.conn = c /\ new.token = call[p].token
      /\ new \in CallRecords
  BY <1>0 DEF CallRecords
<1>2. /\ call' = [call EXCEPT ![p] = new] /\ faulted' = faulted \union {c}
      /\ UNCHANGED <<laneVars, row, endpoint, rotation, mutex>>
  BY DEF DirectPost
<1> HIDE DEF new
<1>3. OthersPhase(p)
  BY <1>2, PhaseStep DEF LaneInv
<1>4. call'[p] = new /\ \A q \in Callers : q # p => call'[q] = call[q]
  BY <1>1, <1>2, CallTyped DEF Sound, Typed
<1>5. MutexHeld'
  BY <1>1, <1>2, <1>4, OwnersStep DEF Sound, OwnerPcs
<1>6. EndpointStep(p)
  BY <1>2, Numbers DEF Sound, EndpointStep, RowSafe
<1>7. TokensStep(p)
  BY <1>0, <1>2, Numbers DEF Sound, TokensStep, RowSafe, Unwritten, OwnerPcs
<1>8. CallOK(new, phase'[p])
  BY <1>0, <1>1 DEF CallOK
<1>9. c \in faulted' /\ faulted' \in SUBSET Connections /\ faulted \subseteq faulted'
  BY <1>0, <1>2 DEF Sound, Typed
<1> QED BY <1>1, <1>2, <1>3, <1>5, <1>6, <1>7, <1>8, <1>9, CallStep DEF Sound, Typed

\* What the endpoint does with such a request happens to an endangered connection.
LEMMA DirectAnswerKeeps ==
  ASSUME LaneInv, Sound, NEW p \in Callers, Answer(p), call[p].pc = "posting"
  PROVE  Sound'
<1> DEFINE c == call[p].conn
<1>0. /\ call[p] \in CallRecords /\ c \in Connections /\ call[p].token \in Tokens
  BY DEF Sound, Typed, WellFormed, CallOK
<1>1. c \in faulted
  BY <1>0 DEF Sound, CallsSafe, CallSafe
<1>2. /\ endpoint[c] \in [live : Tokens, revoked : BOOLEAN] /\ endpoint[c].live \in Int
  BY <1>0, Numbers DEF Sound, Typed
<1>3. PICK t \in Tokens \union {Null, Invalid}, e \in [live : Tokens, revoked : BOOLEAN] :
        Deliver(p, t) /\ endpoint' = [endpoint EXCEPT ![c] = e]
  <2> DEFINE rotated == [endpoint[c] EXCEPT !.live = @ + 1]
             dead == [endpoint[c] EXCEPT !.revoked = TRUE]
  <2>1. CASE AnswerRotates(p) \/ AnswerLost(p)
    <3>1. endpoint[c].live + 1 \in Tokens
      BY <1>2, <2>1, RefreshAssumption DEF AnswerRotates, AnswerLost, Tokens
    <3>2. rotated \in [live : Tokens, revoked : BOOLEAN]
      BY <1>2, <3>1
    <3>3. endpoint' = [endpoint EXCEPT ![c] = rotated]
      BY <2>1 DEF AnswerRotates, AnswerLost
    <3>4. Deliver(p, endpoint[c].live + 1) \/ Deliver(p, Null)
      BY <2>1 DEF AnswerRotates, AnswerLost
    <3> HIDE DEF rotated
    <3> QED BY <3>1, <3>2, <3>3, <3>4
  <2>2. CASE AnswerReused(p)
    <3>1. dead \in [live : Tokens, revoked : BOOLEAN]
      BY <1>2
    <3>2. endpoint' = [endpoint EXCEPT ![c] = dead] /\ Deliver(p, Invalid)
      BY <2>2 DEF AnswerReused
    <3> HIDE DEF dead
    <3> QED BY <3>1, <3>2
  <2>3. CASE AnswerRefused(p)
    <3>1. endpoint' = [endpoint EXCEPT ![c] = endpoint[c]] /\ Deliver(p, Null)
      BY <2>3 DEF AnswerRefused, Sound, Typed
    <3> QED BY <1>2, <3>1
  <2> QED BY <2>1, <2>2, <2>3 DEF Answer
<1>4. faulted' = faulted
  BY <1>1 DEF Answer, AnswerRotates, AnswerReused, AnswerRefused, AnswerLost
<1>5. DeliverDirectly(p, t) /\ UNCHANGED <<row, mutex>>
  BY <1>3 DEF Deliver, DeliverInLane
<1> DEFINE x == [call[p] EXCEPT !.result = t]
           new == Returned(x)
<1>6. x \in CallRecords /\ x.conn = c /\ x.token = call[p].token
  BY <1>0, <1>3 DEF CallRecords
<1>7. call' = [call EXCEPT ![p] = new] /\ UNCHANGED <<laneVars, rotation>>
  BY <1>5 DEF DeliverDirectly
<1> HIDE DEF x
<1>8. /\ new \in CallRecords
      /\ \/ new = NoCall
         \/ new.pc = "returned" /\ new.conn = c /\ new.token = call[p].token
  BY <1>6, ReturnedRecord, NoCallFacts
<1> HIDE DEF new
<1>9. OthersPhase(p)
  BY <1>7, PhaseStep DEF LaneInv
<1>10. call'[p] = new /\ \A q \in Callers : q # p => call'[q] = call[q]
  BY <1>7, <1>8, CallTyped DEF Sound, Typed
<1>11. new.pc \in {"idle", "returned"} /\ new.conn \notin Connections \ faulted
  BY <1>1, <1>8, NoCallFacts
<1>12. MutexHeld'
  BY <1>5, <1>10, <1>11, OwnersStep DEF Sound, OwnerPcs
<1>13. /\ endpoint' \in [Connections -> [live : Tokens, revoked : BOOLEAN]]
       /\ \A d \in Connections \ faulted : endpoint'[d] = endpoint[d]
  BY <1>0, <1>1, <1>3 DEF Sound, Typed
<1>14. EndpointStep(p)
  BY <1>4, <1>13, Numbers DEF Sound, EndpointStep, RowSafe
<1>15. TokensStep(p)
  BY <1>4, <1>5, <1>7, <1>13, Numbers DEF Sound, TokensStep, RowSafe, Unwritten, OwnerPcs
<1>16. CallOK(new, phase'[p])
  BY <1>0, <1>8, NoCallFacts DEF CallOK
<1> QED BY <1>4, <1>5, <1>7, <1>8, <1>9, <1>11, <1>12, <1>13, <1>14, <1>15, <1>16, CallStep
       DEF Sound, Typed

LEMMA AnswerKeeps ==
  ASSUME LaneInv, Sound, NEW p \in Callers, Answer(p)
  PROVE  Sound'
BY AnswerInLaneKeeps, DirectAnswerKeeps DEF Answer, Posting

\* The mutex opens: its owner and all who joined it leave with one answer, and the row
\* is current by then or its connection endangered.
LEMMA SettleKeeps ==
  ASSUME LaneInv, Sound, NEW p \in Callers, Settle(p)
  PROVE  Sound'
<1> DEFINE c == call[p].conn
           t == call[p].result
           Joined(q) == call[q].pc = "joined" /\ call[q].conn = c
           Left(q) == /\ call'[q].pc = "returned" /\ call[q].conn = c /\ call'[q].conn = c
                      /\ call'[q].token = call[q].token /\ call'[q].result = t
                      /\ call[q].token \in Tokens
<1>0. /\ call[p] \in CallRecords /\ call[p].pc = "settled" /\ c \in Connections
      /\ call[p].token \in Tokens /\ t \in Tokens \union {Null, Invalid}
  BY DEF Settle, Sound, Typed, WellFormed, CallOK, CallRecords
<1>1. /\ mutex' = [mutex EXCEPT ![c] = NoCaller]
      /\ faulted' = faulted \union (IF t \in Tokens /\ row[c].token < t THEN {c} ELSE {})
      /\ UNCHANGED <<laneVars, row, endpoint, rotation>>
      /\ call' = [q \in Callers |->
           IF q = p THEN Returned(call[p])
           ELSE IF Joined(q) THEN Returned([call[q] EXCEPT !.result = t]) ELSE call[q]]
  BY DEF Settle
<1>2. ASSUME NEW q \in Callers
      PROVE  /\ call'[q] \in CallRecords
             /\ \/ call'[q] = call[q] /\ q # p /\ ~Joined(q)
                \/ call'[q] = NoCall
                \/ Left(q)
  <2>1. CASE q = p
    <3>1. call'[q] = Returned(call[p])
      BY <1>1, <2>1
    <3> QED BY <1>0, <2>1, <3>1, ReturnedRecord, NoCallFacts
  <2>2. CASE q # p /\ Joined(q)
    <3> DEFINE x == [call[q] EXCEPT !.result = t]
    <3>1. call[q] \in CallRecords /\ call[q].token \in Tokens
      BY <2>2 DEF Sound, Typed, WellFormed, CallOK
    <3>2. /\ x \in CallRecords /\ x.conn = c /\ x.token = call[q].token /\ x.result = t
      BY <1>0, <2>2, <3>1 DEF CallRecords
    <3>3. call'[q] = Returned(x)
      BY <1>1, <2>2
    <3> HIDE DEF x
    <3> QED BY <2>2, <3>1, <3>2, <3>3, ReturnedRecord, NoCallFacts
  <2>3. CASE q # p /\ ~Joined(q)
    BY <1>1, <2>3 DEF Sound, Typed
  <2> QED BY <2>1, <2>2, <2>3
<1> HIDE DEF Joined
<1>3. /\ mutex' \in [Connections -> Callers \union {NoCaller}] /\ mutex'[c] = NoCaller
      /\ \A d \in Connections : d # c => mutex'[d] = mutex[d]
  BY <1>0, <1>1 DEF Sound, Typed
<1>4. Typed'
  <2>1. call' \in [Callers -> CallRecords]
    BY <1>1, <1>2
  <2> QED BY <1>0, <1>1, <1>3, <2>1 DEF Sound, Typed
<1>5. WellFormed'
  <2>1. SUFFICES ASSUME NEW q \in Callers PROVE CallOK(call'[q], phase'[q])
    BY DEF WellFormed
  <2>2. phase'[q] = phase[q]
    BY <1>1 DEF laneVars
  <2>3. CASE Left(q)
    BY <1>0, <2>3 DEF CallOK
  <2> QED BY <1>2, <2>2, <2>3, NoCallFacts DEF Sound, WellFormed
<1>6. MutexHeld'
  <2>1. SUFFICES ASSUME NEW q \in Callers, call'[q].pc \in OwnerPcs \union {"joined"}
                 PROVE  /\ call'[q].pc \in OwnerPcs => mutex'[call'[q].conn] = q
                        /\ call'[q].pc = "joined" => mutex'[call'[q].conn] # NoCaller
    BY DEF MutexHeld
  <2>2. call'[q] = call[q] /\ q # p /\ ~Joined(q)
    BY <1>2, <2>1, NoCallFacts DEF OwnerPcs
  <2>3. call[q].conn \in Connections
    BY <2>1, <2>2 DEF Sound, WellFormed, CallOK, OwnerPcs
  <2>4. call[q].conn # c
    BY <1>0, <2>1, <2>2, OwnerAlone DEF Sound, OwnerPcs, Joined
  <2> QED BY <1>3, <2>2, <2>3, <2>4 DEF Sound, MutexHeld
<1>7. CallsSafe'
  <2>1. SUFFICES ASSUME NEW q \in Callers, call'[q].conn \in Connections \ faulted'
                 PROVE  CallSafe(call'[q], phase'[q], endpoint'[call'[q].conn].live)
    BY DEF CallsSafe
  <2>2. phase'[q] = phase[q] /\ endpoint' = endpoint /\ call'[q].conn \notin faulted
    BY <1>1, <2>1 DEF laneVars
  <2>3. CASE Left(q)
    BY <1>0, <2>1, <2>2, <2>3 DEF Sound, CallsSafe, CallSafe
  <2> QED BY <1>2, <2>1, <2>2, <2>3, NoCallFacts DEF Sound, CallsSafe
<1>8. RowSafe'
  BY <1>1 DEF Sound, RowSafe
<1>9. RowCurrent'
  <2>1. SUFFICES ASSUME NEW d \in Connections \ faulted', row[d].token # endpoint[d].live
                 PROVE  \E q \in Callers : Unwritten(q, d)'
    BY <1>1 DEF RowCurrent
  <2>2. d \notin faulted
    BY <1>1
  <2>3. PICK q \in Callers : Unwritten(q, d)
    BY <2>1, <2>2 DEF Sound, RowCurrent
  <2>4. CASE d = c
    <3>1. q = p /\ t = endpoint[c].live
      BY <1>0, <2>3, <2>4, OwnerAlone DEF Sound, Unwritten, OwnerPcs
    <3>2. t \in Tokens /\ t \in Int /\ row[c].token \in Int /\ row[c].token <= t
      BY <1>0, <2>2, <2>4, <3>1, Numbers DEF Sound, RowSafe
    <3>3. ~(row[c].token < t)
      BY <1>1, <2>4, <3>2
    <3> QED BY <2>1, <2>4, <3>1, <3>2, <3>3
  <2>5. CASE d # c
    <3>1. call'[q] = call[q]
      BY <1>1, <2>3, <2>5 DEF Unwritten, Joined
    <3> QED BY <1>1, <2>3, <3>1 DEF Unwritten
  <2> QED BY <2>4, <2>5
<1> QED BY <1>4, <1>5, <1>6, <1>7, <1>8, <1>9 DEF Sound

\* Time passes: an access token or a recorded rotation expires.
LEMMA TimeKeeps ==
  ASSUME LaneInv, Sound, NEW c \in Connections,
         AccessExpires(c) \/ \E t \in Tokens : RotationExpires(c, t)
  PROVE  Sound'
<1>0. UNCHANGED <<laneVars, endpoint, mutex, call, faulted>>
  BY DEF AccessExpires, RotationExpires
<1>1. /\ row' \in [Connections -> RowRecords]
      /\ \A d \in Connections : row'[d].token = row[d].token /\ row'[d].active = row[d].active
  <2>1. CASE AccessExpires(c)
    <3> DEFINE r == [row[c] EXCEPT !.fresh = FALSE]
    <3>1. r \in RowRecords /\ r.token = row[c].token /\ r.active = row[c].active
      BY DEF Sound, Typed, RowRecords
    <3>2. row' = [row EXCEPT ![c] = r]
      BY <2>1 DEF AccessExpires
    <3> HIDE DEF r
    <3> QED BY <3>1, <3>2 DEF Sound, Typed
  <2>2. CASE UNCHANGED row
    BY <2>2 DEF Sound, Typed
  <2> QED BY <2>1, <2>2 DEF RotationExpires
<1>2. /\ rotation' \in [Connections -> [Tokens -> Tokens \union {Null}]]
      /\ \A d \in Connections : \A u \in Tokens : rotation'[d][u] \in {rotation[d][u], Null}
  <2>1. ASSUME NEW t \in Tokens, RotationExpires(c, t)
        PROVE  /\ rotation' \in [Connections -> [Tokens -> Tokens \union {Null}]]
               /\ \A d \in Connections : \A u \in Tokens :
                    rotation'[d][u] \in {rotation[d][u], Null}
    <3> DEFINE map == [rotation[c] EXCEPT ![t] = Null]
    <3>1. map \in [Tokens -> Tokens \union {Null}]
          /\ \A u \in Tokens : map[u] \in {rotation[c][u], Null}
      BY DEF Sound, Typed
    <3>2. rotation' = [rotation EXCEPT ![c] = map]
      BY <2>1 DEF RotationExpires
    <3> HIDE DEF map
    <3> QED BY <3>1, <3>2 DEF Sound, Typed
  <2>2. CASE UNCHANGED rotation
    BY <2>2 DEF Sound, Typed
  <2> QED BY <2>1, <2>2 DEF AccessExpires
<1>3. RowSafe'
  BY <1>0, <1>1, <1>2, Numbers DEF Sound, RowSafe
<1>4. RowCurrent'
  BY <1>0, <1>1 DEF Sound, RowCurrent, Unwritten
<1>5. WellFormed' /\ CallsSafe' /\ MutexHeld'
  BY <1>0 DEF laneVars, Sound, WellFormed, CallsSafe, MutexHeld
<1> QED BY <1>0, <1>1, <1>2, <1>3, <1>4, <1>5 DEF Sound, Typed

-----------------------------------------------------------------------------
(* Where the calls are.                                                     *)

LEMMA InitPlaced == Init => Placed
<1> SUFFICES ASSUME Init, NEW p \in Callers
             PROVE  phase[p] = "outside" /\ call[p].pc = "idle"
  BY DEF Placed
<1>1. call[p] = NoCall
  BY DEF Init
<1> QED BY <1>1, NoCallFacts DEF Init, LaneInit

\* One call changes outside the lane.
LEMMA QuietPlaced ==
  ASSUME Placed, NEW p \in Callers, UNCHANGED laneVars, phase[p] = "outside",
         \A q \in Callers : q # p => call'[q] = call[q],
         call'[p].pc = "posting" => PostsItself(call'[p])
  PROVE  Placed'
BY DEF Placed, PostsItself, laneVars

LEMMA LoadPlaced ==
  ASSUME Sound, Placed, NEW p \in Callers, NEW c \in Connections, NEW k \in Kinds[p][c],
         Load(p, c, k)
  PROVE  Placed'
<1>1. call'[p].pc = "loaded" /\ \A q \in Callers : q # p => call'[q] = call[q]
  BY DEF Load, NoCall, Sound, Typed
<1>2. phase[p] = "outside" /\ UNCHANGED laneVars
  BY DEF Load
<1> QED BY <1>1, <1>2, QuietPlaced

LEMMA MutexPlaced ==
  ASSUME Sound, Placed, NEW p \in Callers,
         \/ Join(p) \/ Own(p) \/ RowIsFresh(p) \/ Guard(p) \/ GuardUnread(p) \/ Persist(p)
  PROVE  Placed'
<1>0. call[p] \in CallRecords
  BY DEF Sound, Typed
<1>1. call[p].pc \notin {"refreshing", "posting"} /\ UNCHANGED laneVars
  BY DEF Join, Own, CallsGetAccessToken, RowIsFresh, Guard, GuardUnread, Persist
<1>2. call'[p].pc # "posting" /\ \A q \in Callers : q # p => call'[q] = call[q]
  <2>1. CASE Join(p)
    BY <1>0, <2>1 DEF Join, Sound, Typed, CallRecords
  <2>2. ASSUME NEW t, Answered(p, t)
        PROVE  call'[p].pc # "posting" /\ \A q \in Callers : q # p => call'[q] = call[q]
    <3>1. call'[p].pc = AfterAnswer(call[p].kind, t)
      BY <1>0, <2>2 DEF Answered, Sound, Typed, CallRecords
    <3>2. \A q \in Callers : q # p => call'[q] = call[q]
      BY <2>2 DEF Answered, Sound, Typed
    <3> QED BY <3>1, <3>2, AfterAnswerPc
  <2>3. CASE Own(p)
    <3>1. CASE call' = [call EXCEPT ![p].pc = "checking"]
      BY <1>0, <3>1 DEF Sound, Typed, CallRecords
    <3> QED BY <2>2, <2>3, <3>1 DEF Own
  <2>4. CASE RowIsFresh(p)
    BY <2>2, <2>4 DEF RowIsFresh
  <2>5. CASE Guard(p) \/ GuardUnread(p) \/ Persist(p)
    BY <1>0, <2>5 DEF Guard, GuardUnread, Persist, Sound, Typed, CallRecords
  <2> QED BY <2>1, <2>3, <2>4, <2>5
<1>3. phase[p] = "outside"
  BY <1>1 DEF Placed
<1> QED BY <1>1, <1>2, <1>3, QuietPlaced

LEMMA OutsidePlaced ==
  ASSUME Sound, Placed, NEW p \in Callers,
         \/ DirectPost(p) \/ (Answer(p) /\ call[p].pc = "posting")
         \/ LateWrite(p) \/ Retry(p) \/ Deactivate(p) \/ SaveEdit(p)
  PROVE  Placed'
<1>0. call[p] \in CallRecords
  BY DEF Sound, Typed
<1>1. CASE DirectPost(p)
  <2>1. call[p].pc = "loaded" /\ UNCHANGED laneVars /\ PostsItself(call[p])
    BY <1>1 DEF DirectPost
  <2>2. /\ call'[p].conn = call[p].conn /\ call'[p].kind = call[p].kind
        /\ \A q \in Callers : q # p => call'[q] = call[q]
    BY <1>0, <1>1 DEF DirectPost, Sound, Typed, CallRecords
  <2>3. phase[p] = "outside" /\ PostsItself(call'[p])
    BY <2>1, <2>2 DEF Placed, PostsItself
  <2> QED BY <2>1, <2>2, <2>3, QuietPlaced
<1>2. CASE Answer(p) /\ call[p].pc = "posting"
  <2>1. PICK t \in Tokens \union {Null, Invalid} : DeliverDirectly(p, t)
    <3>1. \E t \in Tokens \union {Null, Invalid} : Deliver(p, t)
      <4>1. CASE AnswerRotates(p)
        <5>1. endpoint[call[p].conn].live + 1 \in Tokens
          <6>1. call[p].conn \in Connections
            BY <1>2 DEF Sound, WellFormed, CallOK
          <6> QED BY <4>1, <6>1, RefreshAssumption DEF AnswerRotates, Sound, Typed, Tokens
        <5> QED BY <4>1, <5>1 DEF AnswerRotates
      <4> QED BY <1>2, <4>1 DEF Answer, AnswerReused, AnswerRefused, AnswerLost
    <3> QED BY <1>2, <3>1 DEF Deliver, DeliverInLane
  <2> DEFINE x == [call[p] EXCEPT !.result = t]
  <2>2. x \in CallRecords
    BY <1>0, <2>1 DEF CallRecords
  <2>3. call' = [call EXCEPT ![p] = Returned(x)] /\ UNCHANGED laneVars
    BY <2>1 DEF DeliverDirectly
  <2> HIDE DEF x
  <2>4. call'[p] = Returned(x) /\ \A q \in Callers : q # p => call'[q] = call[q]
    BY <2>3 DEF Sound, Typed
  <2>5. call'[p].pc # "posting" /\ phase[p] = "outside"
    BY <1>2, <2>2, <2>4, ReturnedRecord, NoCallFacts DEF Placed
  <2> QED BY <2>3, <2>4, <2>5, QuietPlaced
<1>3. CASE LateWrite(p) \/ Retry(p) \/ Deactivate(p) \/ SaveEdit(p)
  <2>1. /\ call[p].pc \in {"loaded", "returned"} /\ UNCHANGED laneVars
        /\ call' = [call EXCEPT ![p] = NoCall] \/ call' = [call EXCEPT ![p].pc = "loaded"]
    BY <1>3 DEF LateWrite, Retry, Deactivate, SaveEdit, Return
  <2>2. call'[p].pc # "posting" /\ \A q \in Callers : q # p => call'[q] = call[q]
    BY <1>0, <2>1, NoCallFacts DEF Sound, Typed, CallRecords
  <2>3. phase[p] = "outside"
    BY <2>1 DEF Placed
  <2> QED BY <2>1, <2>2, <2>3, QuietPlaced
<1> QED BY <1>1, <1>2, <1>3

\* A step of p in the lane: it leaves p where Placed wants it, and the others alone.
LEMMA LanePlaced ==
  ASSUME LaneTypeOK, Placed, NEW p \in Callers,
         \A q \in Callers : q # p => call'[q] = call[q],
         \/ \E g \in Groups \union {NoGroup} : Enter(p, g)
         \/ StartRefresh(p) \/ EndRefresh(p) \/ LeaveLane(p),
         phase'[p] # "outside"
           => call'[p].pc = "refreshing" /\ lane'[p] = GroupOf[call'[p].conn],
         call'[p].pc # "posting"
  PROVE  Placed'
<1>1. \A q \in Callers : q # p => phase'[q] = phase[q] /\ lane'[q] = lane[q]
  BY DEF LaneTypeOK, Enter, StartRefresh, EndRefresh, LeaveLane, ReleaseLane
<1> QED BY <1>1 DEF Placed, PostsItself

LEMMA RefreshPlaced ==
  ASSUME LaneInv, Sound, Placed, NEW p \in Callers,
         \/ Chain(p) \/ ChainUnread(p) \/ Post(p)
         \/ (Answer(p) /\ call[p].pc = "refreshing") \/ EndGap(p)
  PROVE  Placed'
<1>0. call[p] \in CallRecords /\ LaneTypeOK
  BY DEF Sound, Typed, LaneInv
<1>1. CASE Chain(p) \/ ChainUnread(p)
  <2>1. /\ call'[p].pc = "refreshing" /\ call'[p].conn = call[p].conn
        /\ \A q \in Callers : q # p => call'[q] = call[q]
    BY <1>0, <1>1 DEF Chain, ChainUnread, Sound, Typed, CallRecords
  <2>2. call[p].conn \in Connections
    BY <1>1 DEF Chain, ChainUnread, Sound, WellFormed, CallOK
  <2>3. GroupOf[call[p].conn] \in Groups \union {NoGroup}
    BY <2>2, RefreshAssumption
  <2>4. Enter(p, GroupOf[call[p].conn])
    BY <1>1 DEF Chain, ChainUnread
  <2>5. lane'[p] = GroupOf[call[p].conn]
    BY <1>0, <2>4 DEF Enter, LaneTypeOK
  <2> QED BY <1>0, <2>1, <2>3, <2>4, <2>5, LanePlaced
<1>2. CASE Post(p)
  <2>1. /\ UNCHANGED <<call, lane>> /\ StartRefresh(p) /\ call[p].pc = "refreshing"
        /\ phase[p] # "outside"
    BY <1>2 DEF Post, StartRefresh
  <2> QED BY <1>0, <2>1, LanePlaced DEF Placed
<1>3. CASE Answer(p) /\ call[p].pc = "refreshing"
  <2>1. PICK t : DeliverInLane(p, t)
    BY <1>3 DEF Answer, AnswerRotates, AnswerReused, AnswerRefused, AnswerLost, Deliver,
                DeliverDirectly
  <2>2. EndRefresh(p) /\ phase[p] = "running"
    BY <2>1 DEF DeliverInLane, EndRefresh
  <2>3. \A q \in Callers : q # p => call'[q] = call[q]
    BY <2>1 DEF DeliverInLane, Answered, Sound, Typed
  <2>4. CASE phase'[p] = "settling"
    <3>1. call' = [call EXCEPT ![p].result = t]
      BY <2>1, <2>4 DEF DeliverInLane
    <3>2. call'[p].pc = "refreshing" /\ call'[p].conn = call[p].conn
      BY <1>0, <1>3, <3>1 DEF Sound, Typed, CallRecords
    <3>3. lane'[p] = lane[p]
      BY <1>0, <2>2, <2>4 DEF EndRefresh, ReleaseLane, LaneTypeOK
    <3> QED BY <1>0, <2>2, <2>3, <3>2, <3>3, LanePlaced DEF Placed
  <2>5. CASE phase'[p] # "settling"
    <3>1. Answered(p, t)
      BY <2>1, <2>5 DEF DeliverInLane
    <3>2. call'[p].pc = AfterAnswer(call[p].kind, t)
      BY <1>0, <3>1 DEF Answered, Sound, Typed, CallRecords
    <3>3. phase'[p] = "outside"
      BY <1>0, <2>2, <2>5 DEF EndRefresh, ReleaseLane, LaneTypeOK
    <3> QED BY <1>0, <2>2, <2>3, <3>2, <3>3, AfterAnswerPc, LanePlaced
  <2> QED BY <2>4, <2>5
<1>4. CASE EndGap(p)
  <2>1. LeaveLane(p) /\ Answered(p, call[p].result)
    BY <1>4 DEF EndGap
  <2>2. /\ call'[p].pc = AfterAnswer(call[p].kind, call[p].result)
        /\ \A q \in Callers : q # p => call'[q] = call[q]
    BY <1>0, <2>1 DEF Answered, Sound, Typed, CallRecords
  <2>3. phase'[p] = "outside"
    BY <1>0, <2>1 DEF LeaveLane, ReleaseLane, LaneTypeOK
  <2> QED BY <1>0, <2>1, <2>2, <2>3, AfterAnswerPc, LanePlaced
<1> QED BY <1>1, <1>2, <1>3, <1>4

LEMMA SettlePlaced ==
  ASSUME Sound, Placed, NEW p \in Callers, Settle(p)
  PROVE  Placed'
<1> SUFFICES ASSUME NEW q \in Callers
             PROVE  /\ phase'[q] # "outside"
                         => call'[q].pc = "refreshing" /\ lane'[q] = GroupOf[call'[q].conn]
                    /\ call'[q].pc = "posting" => PostsItself(call'[q])
  BY DEF Placed
<1> DEFINE x == [call[q] EXCEPT !.result = call[p].result]
<1>0. call[q] \in CallRecords /\ call[p] \in CallRecords /\ call[p].pc = "settled"
  BY DEF Settle, Sound, Typed
<1>1. x \in CallRecords
  BY <1>0 DEF CallRecords
<1>2. \/ call'[q] = Returned(call[p]) /\ q = p
      \/ call'[q] = Returned(x) /\ call[q].pc = "joined"
      \/ call'[q] = call[q]
  BY DEF Settle
<1>3. phase' = phase /\ lane' = lane
  BY DEF Settle, laneVars
<1> HIDE DEF x
<1>4. CASE call'[q] = call[q]
  BY <1>3, <1>4 DEF Placed, PostsItself
<1>5. CASE \/ call'[q] = Returned(call[p]) /\ q = p
           \/ call'[q] = Returned(x) /\ call[q].pc = "joined"
  <2>1. call'[q].pc \in {"idle", "returned"}
    BY <1>0, <1>1, <1>5, ReturnedRecord, NoCallFacts
  <2>2. phase'[q] = "outside"
    BY <1>0, <1>3, <1>5 DEF Placed
  <2> QED BY <2>1, <2>2
<1> QED BY <1>2, <1>4, <1>5

LEMMA GiveUpPlaced ==
  ASSUME Sound, Placed, NEW p \in Callers, GiveUp(p)
  PROVE  Placed'
<1>0. call[p] \in CallRecords /\ UNCHANGED laneVars
  BY DEF GiveUp, Sound, Typed
<1>1. CASE call[p].pc = "joined" /\ Return(p)
  <2>1. call'[p] = NoCall /\ \A q \in Callers : q # p => call'[q] = call[q]
    BY <1>1 DEF Return, Sound, Typed
  <2>2. phase[p] = "outside"
    BY <1>1 DEF Placed
  <2> QED BY <1>0, <2>1, <2>2, NoCallFacts, QuietPlaced
<1>2. CASE call' = [call EXCEPT ![p].waiting = FALSE]
  <2>1. \A q \in Callers : /\ call'[q].pc = call[q].pc /\ call'[q].conn = call[q].conn
                           /\ call'[q].kind = call[q].kind
    BY <1>0, <1>2 DEF Sound, Typed, CallRecords
  <2> QED BY <1>0, <2>1 DEF Placed, PostsItself, laneVars
<1> QED BY <1>1, <1>2 DEF GiveUp

LEMMA PlacedStep ==
  ASSUME LaneInv, Sound, Placed, [Next]_vars
  PROVE  Placed'
<1>1. ASSUME NEW p \in Callers, Advance(p)
      PROVE  Placed'
  <2>1. CASE \/ Join(p) \/ Own(p) \/ RowIsFresh(p) \/ Guard(p) \/ GuardUnread(p) \/ Persist(p)
    BY <2>1, MutexPlaced
  <2>2. CASE \/ DirectPost(p) \/ (Answer(p) /\ call[p].pc = "posting")
             \/ LateWrite(p) \/ Retry(p) \/ Deactivate(p) \/ SaveEdit(p)
    BY <2>2, OutsidePlaced
  <2>3. CASE \/ Chain(p) \/ ChainUnread(p) \/ Post(p)
             \/ (Answer(p) /\ call[p].pc = "refreshing") \/ EndGap(p)
    BY <2>3, RefreshPlaced
  <2>4. CASE Answer(p)
    <3>1. \/ (Answer(p) /\ call[p].pc = "posting")
          \/ (Answer(p) /\ call[p].pc = "refreshing")
      BY <2>4 DEF Answer, Posting
    <3> QED BY <3>1, <2>2, <2>3
  <2>5. CASE Settle(p)
    BY <2>5, SettlePlaced
  <2> QED BY <1>1, <2>1, <2>2, <2>3, <2>4, <2>5 DEF Advance
<1>2. ASSUME NEW p \in Callers,
             (\E c \in Connections : \E k \in Kinds[p][c] : Load(p, c, k)) \/ GiveUp(p)
      PROVE  Placed'
  BY <1>2, LoadPlaced, GiveUpPlaced
<1>3. CASE UNCHANGED <<laneVars, call>>
  BY <1>3 DEF laneVars, Placed
<1>4. ASSUME NEW c \in Connections,
             AccessExpires(c) \/ \E t \in Tokens : RotationExpires(c, t)
      PROVE  Placed'
  BY <1>3, <1>4 DEF AccessExpires, RotationExpires
<1> QED BY <1>1, <1>2, <1>3, <1>4 DEF Next, vars

-----------------------------------------------------------------------------
(* The whole step.                                                          *)

\* Whatever the refresh does, the lane sees one of its own steps, or none.
LEMMA StepInLane ==
  ASSUME Sound, [Next]_vars
  PROVE  [LaneNext]_laneVars
<1>1. ASSUME NEW p \in Callers, Advance(p)
      PROVE  LaneStep(p) \/ UNCHANGED laneVars
  <2>1. CASE Chain(p) \/ ChainUnread(p)
    <3>1. call[p].conn \in Connections
      BY <2>1 DEF Chain, ChainUnread, Sound, WellFormed, CallOK
    <3>2. GroupOf[call[p].conn] \in Groups \union {NoGroup}
      BY <3>1, RefreshAssumption
    <3> QED BY <2>1, <3>2 DEF Chain, ChainUnread, LaneStep
  <2>2. CASE Post(p)
    BY <2>2 DEF Post, LaneStep
  <2>3. CASE Answer(p)
    BY <2>3 DEF Answer, AnswerRotates, AnswerReused, AnswerRefused, AnswerLost, Deliver,
                DeliverInLane, DeliverDirectly, LaneStep
  <2>4. CASE EndGap(p)
    BY <2>4 DEF EndGap, LaneStep
  <2>5. CASE \/ Join(p) \/ Own(p) \/ DirectPost(p) \/ RowIsFresh(p) \/ Guard(p) \/ GuardUnread(p)
             \/ Persist(p) \/ Settle(p) \/ LateWrite(p) \/ Retry(p) \/ Deactivate(p)
             \/ SaveEdit(p)
    BY <2>5 DEF Join, Own, DirectPost, RowIsFresh, Guard, GuardUnread, Persist, Settle, LateWrite, Retry,
                Deactivate, SaveEdit
  <2> QED BY <1>1, <2>1, <2>2, <2>3, <2>4, <2>5 DEF Advance
<1>2. ASSUME NEW p \in Callers,
             (\E c \in Connections : \E k \in Kinds[p][c] : Load(p, c, k)) \/ GiveUp(p)
      PROVE  UNCHANGED laneVars
  BY <1>2 DEF Load, GiveUp
<1>3. ASSUME NEW c \in Connections,
             AccessExpires(c) \/ \E t \in Tokens : RotationExpires(c, t)
      PROVE  UNCHANGED laneVars
  BY <1>3 DEF AccessExpires, RotationExpires
<1>4. CASE UNCHANGED vars
  BY <1>4 DEF vars
<1> QED BY <1>1, <1>2, <1>3, <1>4 DEF Next, LaneNext

LEMMA InitSound == Init => LaneInit /\ LaneInv /\ Sound
<1> SUFFICES ASSUME Init PROVE LaneInit /\ LaneInv /\ Sound
  OBVIOUS
<1>1. LaneInit /\ LaneInv
  BY LaneInitInv DEF Init
<1>2. 0 \in Tokens /\ 0 # Null /\ Null <= 0 /\ \A f \in BOOLEAN :
        [token |-> 0, fresh |-> f, active |-> TRUE] \in RowRecords
  BY RefreshAssumption DEF Tokens, Null, RowRecords
<1>3. /\ row \in [Connections -> RowRecords]
      /\ \A c \in Connections : row[c].token = 0 /\ row[c].active
  BY <1>2 DEF Init
<1>4. /\ endpoint = [c \in Connections |-> [live |-> 0, revoked |-> FALSE]]
      /\ rotation = [c \in Connections |-> [t \in Tokens |-> Null]]
      /\ call = [p \in Callers |-> NoCall] /\ faulted = {}
      /\ mutex = [c \in Connections |-> NoCaller]
  BY DEF Init
<1>5. Typed
  BY <1>2, <1>3, <1>4, NoCallFacts DEF Typed
<1>6. \A p \in Callers : call[p] = NoCall
  BY <1>4
<1>7. WellFormed /\ MutexHeld /\ CallsSafe
  BY <1>6, NoCallFacts DEF WellFormed, MutexHeld, CallsSafe, OwnerPcs
<1>8. RowSafe /\ RowCurrent
  BY <1>2, <1>3, <1>4 DEF RowSafe, RowCurrent
<1> QED BY <1>1, <1>5, <1>7, <1>8 DEF Sound

LEMMA StepSound ==
  ASSUME LaneInv, Sound, [Next]_vars
  PROVE  Sound'
<1>1. ASSUME NEW p \in Callers, Advance(p)
      PROVE  Sound'
  BY <1>1, JoinKeeps, OwnKeeps, DirectPostKeeps, RowIsFreshKeeps, ChainKeeps, ChainUnreadKeeps, PostKeeps,
     AnswerKeeps, EndGapKeeps, GuardKeeps, PersistKeeps, SettleKeeps, LateWriteKeeps,
     RetryKeeps, DeactivateKeeps, SaveEditKeeps DEF Advance
<1>2. ASSUME NEW p \in Callers,
             (\E c \in Connections : \E k \in Kinds[p][c] : Load(p, c, k)) \/ GiveUp(p)
      PROVE  Sound'
  BY <1>2, LoadKeeps, GiveUpKeeps
<1>3. ASSUME NEW c \in Connections,
             AccessExpires(c) \/ \E t \in Tokens : RotationExpires(c, t)
      PROVE  Sound'
  BY <1>3, TimeKeeps
<1>4. CASE UNCHANGED vars
  BY <1>4 DEF vars, laneVars, Sound, Typed, WellFormed, MutexHeld, CallsSafe,
              RowSafe, RowCurrent, Unwritten
<1> QED BY <1>1, <1>2, <1>3, <1>4 DEF Next

\* A request p has with the endpoint, or the gap behind it, is in the lane of its group
\* or posted by an executor itself.
LEMMA PostingPlace ==
  ASSUME IInv, NEW p \in Callers, Posting(p) \/ phase[p] = "settling", ~PostsItself(call[p])
  PROVE  /\ call[p].pc = "refreshing" /\ phase[p] \in {"running", "settling"}
         /\ lane[p] = GroupOf[call[p].conn]
BY DEF IInv, Placed, Posting

LEMMA IInvImplies ==
  IInv => TypeOK /\ SiblingsPostAlone /\ OneRefreshPerConnection /\ AccountsSurvive
<1> SUFFICES ASSUME IInv
             PROVE  TypeOK /\ SiblingsPostAlone /\ OneRefreshPerConnection /\ AccountsSurvive
  OBVIOUS
<1>1. TypeOK
  BY DEF IInv, LaneInv, Sound, Typed, TypeOK, CallRecords, RowRecords
<1>2. SiblingsPostAlone
  <2>1. OneRefreshPerGroup
    BY LaneInvImplies DEF IInv
  <2> QED BY <2>1, PostingPlace DEF OneRefreshPerGroup, SiblingsPostAlone
<1>4. OneRefreshPerConnection
  <2>1. \A p \in Callers :
          /\ call[p].pc \in OwnerPcs => mutex[call[p].conn] = p
          /\ call[p].pc = "joined" => mutex[call[p].conn] # NoCaller
    BY DEF IInv, Sound, MutexHeld
  <2>2. ASSUME NEW p \in Callers, NEW q \in Callers \ {p}, Posting(p), Posting(q),
               call[p].conn = call[q].conn, ~PostsItself(call[p]), ~PostsItself(call[q])
        PROVE  FALSE
    BY <2>1, <2>2, PostingPlace DEF OwnerPcs
  <2> QED BY <2>1, <2>2 DEF OneRefreshPerConnection
<1>3. AccountsSurvive
  BY Numbers DEF IInv, Sound, RowSafe, AccountsSurvive
<1> QED BY <1>1, <1>2, <1>3, <1>4

-----------------------------------------------------------------------------
\* The inductive invariant: the row holds the newest token of every connection that is
\* not endangered, unless the owner of its mutex has it and has yet to write it.
THEOREM IInvHolds == Spec => []IInv
<1>1. Init => IInv
  BY InitSound, InitPlaced DEF IInv
<1>2. IInv /\ [Next]_vars => IInv'
  BY StepInLane, LaneStepInv, StepSound, PlacedStep DEF IInv
<1> QED BY <1>1, <1>2, PTL DEF Spec

\* The refreshes of a gateway are, for the lane, callers of serializeRefresh like any
\* others: getAccessToken neither enters a lane twice nor leaves it out of turn.
THEOREM ImplementsLane == Spec => LaneSpec
<1>1. Init => LaneInit
  BY InitSound
<1>2. IInv /\ [Next]_vars => [LaneNext]_laneVars
  BY StepInLane DEF IInv
<1> QED BY <1>1, <1>2, IInvHolds, PTL DEF Spec, LaneSpec

\* Type correctness of rows, rotations, calls and lanes.
THEOREM TypeCorrect == Spec => []TypeOK
BY IInvHolds, IInvImplies, PTL

\* Two sibling accounts are not with the endpoint at once, nor within the settle gap of
\* one another, unless an executor posts for one of them past getAccessToken.
THEOREM GroupsExclusive == Spec => []SiblingsPostAlone
BY IInvHolds, IInvImplies, PTL

\* A connection has one refresh through getAccessToken at a time, and whoever joins finds
\* it running.
THEOREM ConnectionsExclusive == Spec => []OneRefreshPerConnection
BY IInvHolds, IInvImplies, PTL

\* No account is lost to a consumed refresh token unless an answer or a read was lost, a
\* rotated token was left unwritten, an older row was written back, or an executor posted
\* a refresh itself.
THEOREM AccountsKept == Spec => []AccountsSurvive
BY IInvHolds, IInvImplies, PTL
=============================================================================
