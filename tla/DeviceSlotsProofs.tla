------------------------- MODULE DeviceSlotsProofs -------------------------
(***************************************************************************)
(* What TLAPS proves of DeviceSlots, for any number of devices, requests   *)
(* and handles and any limits: the shape of the state, who is in the lock  *)
(* and that it is handed on, the slot limit, that no holder is ever on     *)
(* record as displaced, and the action properties.                         *)
(*                                                                         *)
(* SlotLimit and NoDisplacedHolder are not inductive: whether a write in   *)
(* the lock keeps them depends on what the locked section had established  *)
(* before it.  IInv says what that is: only the head of the queue is in    *)
(* the lock (LockInv), its decision fits its operation (PathInv), and the  *)
(* writes it has made so far have left room for the one it has still to    *)
(* make (RoomInv).  NameInv and LateInv say what is known of a release     *)
(* that names a grant, before its turn and in it.                          *)
(***************************************************************************)
EXTENDS DeviceSlots, FiniteSetTheorems, TLAPS

\* Only the first in the queue is past its turn.
LockInv == \A r \in Requests : InLock(r) => queue # <<>> /\ Head(queue) = r

\* Which decisions an operation can come to, and the writes that remain.
PathOK(q) ==
  /\ q.op \in {"claim", "renew"} => q.who \in Sessions
  /\ q.pc \in Locked =>
       \/ q.op = "claim" /\ q.path = "take"
       \/ q.op = "claim" /\ q.path = "again" /\ q.pc \in {"write", "forget"}
       \/ q.op = "renew" /\ q.path = "keep" /\ q.pc = "write"
       \/ q.op = "renew" /\ q.path = "regain" /\ q.pc # "mark"
       \/ q.op = "release" /\ q.path = "release" /\ q.pc \in {"drop", "forget"}

PathInv == \A r \in Requests : PathOK(req[r])

\* What a locked section that has decided on q knows of the two hashes.
RoomOK(q) ==
  /\ q.path \in {"take", "regain"} => Cardinality(holders \ q.drop) < q.limit
  /\ q.path = "take" =>
       /\ q.taken \subseteq q.drop
       /\ q.pc # "drop" => holders \cap q.drop = {}
  /\ q.path = "regain" =>
       /\ q.pc # "forget" => q.who \notin displaced
       /\ q.pc = "write" => holders \cap q.drop = {}
  /\ q.path = "take" /\ q.pc = "write" => q.who \notin displaced
  /\ q.path \in {"again", "keep"} => q.who \in holders

RoomInv == \A r \in Requests : InLock(r) => RoomOK(req[r])

IInv == Shape /\ LockInv /\ PathInv /\ RoomInv /\ SlotLimit /\ NoDisplacedHolder

-----------------------------------------------------------------------------
(***************************************************************************)
(* Requests.                                                               *)
(***************************************************************************)
\* A request that is not in use is well formed and outside the lock.
LEMMA IdleFits == Idle \in Request /\ PathOK(Idle) /\ Idle.pc \notin Locked
  <1>1. (CHOOSE l \in Limits : TRUE) \in Limits
    BY LimitsAssumption
  <1>2. QED
    BY <1>1 DEF Idle, Request, PathOK, Locked, Writes

\* So is one that has only just started.
LEMMA StartedFits ==
  ASSUME NEW op \in {"claim", "renew", "release"},
         NEW d \in Sessions \cup {NoSession},
         op \in {"claim", "renew"} => d \in Sessions
  PROVE  Started(op, d) \in Request /\ PathOK(Started(op, d))
  BY IdleFits DEF Started, Idle, Request, PathOK, Locked, Writes

\* Every request but r stays as it is.
OnlyMoves(r) == \A s \in Requests \ {r} : req'[s] = req[s]

\* A step that takes r out of the lock, or leaves it outside, keeps what is
\* known of the others, as long as it changes the hashes only on the way out.
LEMMA OutsideTheLock ==
  ASSUME Shape, LockInv, PathInv, RoomInv, NEW r \in Requests, OnlyMoves(r),
         PathOK(req[r])', ~InLock(r)',
         \/ /\ ~InLock(r) /\ (queue' = queue \/ queue' = Append(queue, r))
            /\ UNCHANGED <<holders, displaced>>
         \/ queue # <<>> /\ Head(queue) = r
  PROVE  LockInv' /\ PathInv' /\ RoomInv'
  <1>1. PathInv'
    BY DEF PathInv, OnlyMoves, PathOK
  <1>2. ASSUME NEW s \in Requests, InLock(s)'
        PROVE  s # r /\ InLock(s) /\ req'[s] = req[s]
    BY <1>2 DEF OnlyMoves, InLock
  <1>3. CASE queue # <<>> /\ Head(queue) = r
    BY <1>1, <1>2, <1>3 DEF LockInv, RoomInv
  <1>4. CASE /\ ~InLock(r) /\ (queue' = queue \/ queue' = Append(queue, r))
             /\ UNCHANGED <<holders, displaced>>
    <2>1. queue # <<>> => Append(queue, r) # <<>>
                          /\ Head(Append(queue, r)) = Head(queue)
      BY DEF Shape
    <2>2. LockInv'
      BY <1>2, <1>4, <2>1 DEF LockInv
    <2>3. ASSUME NEW s \in Requests, InLock(s)'
          PROVE  RoomOK(req[s])'
      <3>1. RoomOK(req[s]) /\ req'[s] = req[s]
        BY <1>2, <2>3 DEF RoomInv
      <3>2. holders' = holders /\ displaced' = displaced
        BY <1>4
      <3>3. QED
        BY <3>1, <3>2 DEF RoomOK
    <2>4. QED
      BY <1>1, <2>2, <2>3 DEF RoomInv
  <1>5. QED
    BY <1>3, <1>4

\* A step of the request whose turn it is.
LEMMA InsideTheLock ==
  ASSUME Shape, LockInv, PathInv, RoomInv, NEW r \in Requests, OnlyMoves(r),
         queue # <<>>, Head(queue) = r, queue' = queue,
         PathOK(req[r])', RoomOK(req[r])'
  PROVE  LockInv' /\ PathInv' /\ RoomInv'
  <1>1. PathInv'
    BY DEF PathInv, OnlyMoves, PathOK
  <1>2. \A s \in Requests : InLock(s)' => s = r
    BY DEF LockInv, OnlyMoves, InLock
  <1>3. QED
    BY <1>1, <1>2 DEF LockInv, RoomInv

\* Leaving the lock with an answer.
LEMMA AnswerFits ==
  ASSUME Shape, PathInv, NEW r \in Requests, queue # <<>>,
         NEW out \in {"granted", "refused"}, AnswerWith(r, out)
  PROVE  /\ queue' \in Seq(Requests) /\ req' \in [Requests -> Request]
         /\ OnlyMoves(r) /\ PathOK(req[r])' /\ ~InLock(r)'
  <1>1. req[r] \in Request
    BY DEF Shape
  <1>2. PICK q \in Request : /\ req' = [req EXCEPT ![r] = q]
                             /\ q.op = req[r].op /\ q.who = req[r].who
                             /\ q.pc = "answer"
    <2>1. [Idle EXCEPT !.op = req[r].op, !.who = req[r].who,
                       !.pc = "answer", !.out = out] \in Request
      BY <1>1, IdleFits DEF Idle, Request
    <2>2. QED
      BY <2>1 DEF AnswerWith, Idle
  <1>3. req' \in [Requests -> Request] /\ OnlyMoves(r) /\ req'[r] = q
    BY <1>2 DEF Shape, OnlyMoves
  <1>4. queue' \in Seq(Requests)
    BY DEF Shape, AnswerWith
  <1>5. QED
    BY <1>2, <1>3, <1>4 DEF PathInv, PathOK, InLock, Locked

\* A write leads to the next one of its decision, or out of the lock.
LEMMA NextWriteFits ==
  ASSUME Shape, PathInv, NEW r \in Requests, InLock(r), queue # <<>>,
         NextWrite(r)
  PROVE  /\ queue' \in Seq(Requests) /\ req' \in [Requests -> Request]
         /\ OnlyMoves(r) /\ PathOK(req[r])'
         /\ \/ ~InLock(r)' /\ Writes[req[r].path][req[r].pc] = "done"
            \/ /\ queue' = queue /\ Writes[req[r].path][req[r].pc] # "done"
               /\ req'[r] = [req[r] EXCEPT
                               !.pc = Writes[req[r].path][req[r].pc]]
  <1>1. req[r] \in Request /\ PathOK(req[r])
    BY DEF Shape, PathInv
  <1>2. CASE Writes[req[r].path][req[r].pc] # "done"
    <2> DEFINE next == Writes[req[r].path][req[r].pc]
    <2>1. PathOK([req[r] EXCEPT !.pc = next]) /\ next \in Locked
      BY <1>1, <1>2 DEF PathOK, Locked, Writes, Request, InLock
    <2>2. [req[r] EXCEPT !.pc = next] \in Request
      BY <1>1, <2>1 DEF Request
    <2>3. req' = [req EXCEPT ![r].pc = next] /\ queue' = queue
      BY <1>2 DEF NextWrite
    <2>4. /\ req' \in [Requests -> Request] /\ OnlyMoves(r)
          /\ req'[r] = [req[r] EXCEPT !.pc = next]
      BY <2>2, <2>3 DEF Shape, OnlyMoves
    <2>5. QED
      BY <1>2, <2>1, <2>3, <2>4 DEF Shape, PathOK
  <1>3. CASE Writes[req[r].path][req[r].pc] = "done" /\ req[r].op = "release"
    <2>1. queue' = Tail(queue) /\ req' = [req EXCEPT ![r] = Idle]
      BY <1>3 DEF NextWrite
    <2>2. QED
      BY <1>3, <2>1, IdleFits DEF Shape, OnlyMoves, InLock, PathOK
  <1>4. CASE Writes[req[r].path][req[r].pc] = "done" /\ req[r].op # "release"
    BY <1>4, AnswerFits DEF NextWrite
  <1>5. QED
    BY <1>2, <1>3, <1>4

\* A decision about r in the lock.
LEMMA DecideFits ==
  ASSUME Shape, NEW r \in Requests, HasTurn(r),
         NEW path \in DOMAIN Writes, NEW first \in Locked,
         NEW drop \in SUBSET Sessions, NEW taken \in SUBSET Sessions,
         Decide(r, path, first, drop, taken)
  PROVE  /\ req' \in [Requests -> Request] /\ OnlyMoves(r) /\ queue' = queue
         /\ req'[r].op = req[r].op /\ req'[r].who = req[r].who
         /\ req'[r].limit = req[r].limit
         /\ req'[r].path = path /\ req'[r].pc = first
         /\ req'[r].drop = drop /\ req'[r].taken = taken
  <1>1. req[r] \in Request
    BY DEF Shape
  <1>2. [req[r] EXCEPT !.path = path, !.pc = first, !.names = {},
                       !.drop = drop, !.taken = taken] \in Request
    BY <1>1 DEF Request
  <1>3. req' = [req EXCEPT ![r] =
                  [req[r] EXCEPT !.path = path, !.pc = first, !.names = {},
                                 !.drop = drop, !.taken = taken]]
    BY DEF Decide, Shape
  <1>4. QED
    BY <1>1, <1>2, <1>3 DEF Shape, OnlyMoves, Decide, Request

-----------------------------------------------------------------------------
(***************************************************************************)
(* Cardinalities of sets of sessions.                                      *)
(***************************************************************************)
\* Sets of sessions are finite, and a smaller one is not larger.
LEMMA SessionSets ==
  ASSUME NEW S \in SUBSET Sessions, NEW T \in SUBSET S
  PROVE  /\ IsFiniteSet(S) /\ Cardinality(S) \in Nat
         /\ IsFiniteSet(T) /\ Cardinality(T) \in Nat
         /\ Cardinality(T) <= Cardinality(S)
  <1>1. IsFiniteSet(S)
    BY SessionsAssumption, FS_Subset
  <1>2. IsFiniteSet(T) /\ Cardinality(T) <= Cardinality(S)
    BY <1>1, FS_Subset
  <1>3. QED
    BY <1>1, <1>2, FS_CardinalityType

\* One more session takes one more place at most.
LEMMA OneMoreSession ==
  ASSUME NEW S \in SUBSET Sessions, NEW d \in Sessions
  PROVE  Cardinality(S \cup {d}) <= Cardinality(S) + 1
  <1>1. IsFiniteSet(S) /\ Cardinality(S) \in Nat
    BY SessionSets
  <1>2. Cardinality(S \cup {d}) =
          IF d \in S THEN Cardinality(S) ELSE Cardinality(S) + 1
    BY <1>1, FS_AddElement
  <1>3. CASE d \in S
    BY <1>1, <1>2, <1>3
  <1>4. CASE d \notin S
    BY <1>1, <1>2, <1>4
  <1>5. QED
    BY <1>3, <1>4

-----------------------------------------------------------------------------
(***************************************************************************)
(* The invariant holds initially.                                          *)
(***************************************************************************)
LEMMA InitIInv == Init => IInv
  <1> SUFFICES ASSUME Init PROVE IInv
    OBVIOUS
  <1>1. Shape
    BY IdleFits, StaleAssumption DEF Init, Shape, Stale, None
  <1>2. LockInv /\ PathInv /\ RoomInv
    BY IdleFits DEF Init, LockInv, PathInv, RoomInv, InLock, PathOK
  <1>3. SlotLimit
    BY LimitsAssumption, FS_EmptySet DEF Init, SlotLimit
  <1>4. NoDisplacedHolder
    BY DEF Init, NoDisplacedHolder
  <1>5. QED
    BY <1>1, <1>2, <1>3, <1>4 DEF IInv

-----------------------------------------------------------------------------
(***************************************************************************)
(* Every step keeps the shape of the state.                                *)
(***************************************************************************)
LEMMA TypePreserved ==
  ASSUME Shape, LockInv, PathInv, [Next]_vars
  PROVE  Shape'
  <1> USE DEF database, store
  <1>1. ASSUME NEW r \in Requests, NEW d \in Sessions, Claim(r, d)
        PROVE  Shape'
    <2>1. PICK q \in Request : req' = [req EXCEPT ![r] = q]
      <3>1. Started("claim", d) \in Request
        BY StartedFits
      <3>2. [Started("claim", d) EXCEPT !.pc = "answer", !.out = "refused"]
              \in Request
        BY <3>1 DEF Request
      <3>3. [Started("claim", d) EXCEPT !.pc = "answer", !.out = "granted"]
              \in Request
        BY <3>1 DEF Request
      <3>4. ASSUME NEW names \in SUBSET HandlesShown(d)
            PROVE  [Started("claim", d) EXCEPT !.limit = limit,
                                               !.names = names] \in Request
        <4>1. HandlesShown(d) \subseteq Sessions \X Grants
          BY DEF HandlesShown, Shape
        <4>2. limit \in Limits
          BY DEF Shape
        <4>3. QED
          BY <3>1, <4>1, <4>2 DEF Request
      <3>5. QED
        BY <1>1, <3>2, <3>3, <3>4 DEF Claim
    <2>2. QED
      BY <1>1, <2>1 DEF Shape, Claim
  <1>2. ASSUME NEW r \in Requests, NEW d \in Sessions, Renew(r, d)
        PROVE  Shape'
    <2>1. PICK q \in Request : req' = [req EXCEPT ![r] = q]
      <3>1. Started("renew", d) \in Request
        BY StartedFits
      <3>2. /\ [Started("renew", d) EXCEPT !.pc = "answer", !.out = "refused"]
                 \in Request
            /\ [Started("renew", d) EXCEPT !.pc = "answer", !.out = "granted"]
                 \in Request
            /\ [Started("renew", d) EXCEPT !.limit = limit] \in Request
        BY <3>1 DEF Request, Shape
      <3>3. QED
        BY <1>2, <3>2 DEF Renew
    <2>2. QED
      BY <1>2, <2>1 DEF Shape, Renew
  <1>3. ASSUME NEW r \in Requests, NEW d \in Sessions, Disconnect(r, d)
        PROVE  Shape'
    <2>1. PICK names \in SUBSET (Sessions \X Grants) :
            req' = [req EXCEPT ![r] = [Started("release", d) EXCEPT
                                         !.drop = {d}, !.names = names]]
      BY <1>3 DEF Disconnect
    <2>2. Started("release", d) \in Request
      BY StartedFits
    <2>3. [Started("release", d) EXCEPT !.drop = {d}, !.names = names]
            \in Request
      BY <2>2 DEF Request
    <2>4. QED
      BY <1>3, <2>1, <2>3 DEF Shape, Disconnect
  <1>4. ASSUME NEW r \in Requests, NEW S \in SUBSET Sessions,
               Expire(r) \/ SignOut(r, S)
        PROVE  Shape'
    <2>1. ASSUME NEW D \in SUBSET Sessions
          PROVE  [Started("release", NoSession) EXCEPT !.drop = D] \in Request
      <3>1. Started("release", NoSession) \in Request
        BY StartedFits
      <3>2. QED
        BY <3>1 DEF Request
    <2>2. PICK D \in SUBSET Sessions :
            req' = [req EXCEPT ![r] = [Started("release", NoSession) EXCEPT
                                         !.drop = D]]
      BY <1>4 DEF Expire, SignOut
    <2>3. req' \in [Requests -> Request]
      BY <2>1, <2>2 DEF Shape
    <2>4. QED
      BY <1>4, <2>3 DEF Shape, Expire, SignOut
  <1>5. ASSUME NEW r \in Requests, Enqueue(r)
        PROVE  Shape'
    <2>1. [req[r] EXCEPT !.pc = "queued"] \in Request
      <3>1. req[r] \in Request
        BY DEF Shape
      <3>2. QED
        BY <3>1 DEF Request
    <2>2. req' \in [Requests -> Request] /\ queue' \in Seq(Requests)
      BY <1>5, <2>1 DEF Shape, Enqueue
    <2>3. QED
      BY <1>5, <2>2 DEF Shape, Enqueue
  <1>6. ASSUME NEW r \in Requests, Turn(r)
        PROVE  Shape'
    <2>1. HasTurn(r) /\ queue # <<>> /\ UNCHANGED <<database, store, up>>
      BY <1>6 DEF Turn, Decides, HasTurn, ClaimAgain, ClaimTake, ClaimRefused,
                  ClaimTooManyTakeovers, RenewKeep, RenewRegain,
                  RenewDisplaced, ReleaseDrop, ReleaseNothing, TurnFails
    <2>2. late' \in SUBSET Requests
      BY <1>6 DEF Turn, Decides, ClaimAgain, ClaimTake, ClaimRefused, Shape,
                  ClaimTooManyTakeovers, RenewKeep, RenewRegain,
                  RenewDisplaced, ReleaseDrop, ReleaseNothing, TurnFails
    <2>3. queue' \in Seq(Requests) /\ req' \in [Requests -> Request]
      <3>1. CASE \E path \in DOMAIN Writes, first \in Locked,
                    drop \in SUBSET Sessions, taken \in SUBSET Sessions :
                   Decide(r, path, first, drop, taken)
        BY <2>1, <3>1, DecideFits DEF Shape
      <3>2. CASE AnswerWith(r, "refused")
        BY <2>1, <3>2, AnswerFits
      <3>3. CASE ReleaseNothing(r) \/ TurnFails(r)
        <4>1. queue' = Tail(queue) /\ req' = [req EXCEPT ![r] = Idle]
          BY <3>3 DEF ReleaseNothing, TurnFails
        <4>2. QED
          BY <2>1, <4>1, IdleFits DEF Shape
      <3>4. req[r].drop \in SUBSET Sessions
        BY DEF Shape, Request
      <3>5. CASE ClaimTake(r)
        <4>1. PICK T \in TakeoverChoices(r) :
                Decide(r, "take", "drop", holders \ (LiveHolders \ T), T)
          BY <3>5 DEF ClaimTake
        <4>2. T \in SUBSET Sessions
          BY DEF TakeoverChoices, Named, LiveHolders, Shape
        <4>3. QED
          BY <3>1, <4>1, <4>2 DEF Shape, Writes, Locked
      <3>6. CASE ClaimAgain(r) \/ RenewKeep(r) \/ RenewRegain(r)
                 \/ ReleaseDrop(r)
        BY <3>1, <3>4, <3>6 DEF ClaimAgain, RenewKeep, RenewRegain,
                                ReleaseDrop, Shape, Writes, Locked
      <3>7. QED
        BY <1>6, <3>2, <3>3, <3>5, <3>6 DEF Turn, Decides, ClaimRefused,
             ClaimTooManyTakeovers, RenewDisplaced
    <2>4. QED
      BY <2>1, <2>2, <2>3 DEF Shape
  <1>7. ASSUME NEW r \in Requests, Write(r)
        PROVE  Shape'
    <2>1. InLock(r) /\ NextWrite(r)
      BY <1>7 DEF Write, DropSlots, MarkDisplaced, ForgetDisplaced,
                  WriteHolder, InLock, Locked
    <2>2. queue' \in Seq(Requests) /\ req' \in [Requests -> Request]
      BY <2>1, NextWriteFits DEF LockInv
    <2>3. req[r] \in Request /\ PathOK(req[r])
      BY DEF Shape, PathInv
    <2>4. CASE DropSlots(r)
      BY <2>2, <2>4, StaleAssumption DEF DropSlots, Shape, None, Stale
    <2>5. CASE MarkDisplaced(r)
      BY <2>2, <2>3, <2>5 DEF MarkDisplaced, Shape, Request
    <2>6. CASE ForgetDisplaced(r)
      BY <2>2, <2>6 DEF ForgetDisplaced, Shape
    <2>7. CASE WriteHolder(r)
      <3>1. req[r].who \in Sessions
        BY <2>3, <2>7 DEF WriteHolder, PathOK, Locked
      <3>2. quiet' \in [Sessions -> 0..Stale] /\ holders' \in SUBSET Sessions
        BY <2>7, <3>1, StaleAssumption DEF WriteHolder, Shape, Stale
      <3>3. /\ handle' \in [Sessions -> Grants \cup {None}]
            /\ previous' \in [Sessions -> Grants \cup {None}]
            /\ late' \in SUBSET Requests
        BY <2>7, <3>1 DEF WriteHolder, Shape
      <3>4. QED
        BY <2>2, <2>7, <3>2, <3>3 DEF WriteHolder, Shape
    <2>8. QED
      BY <1>7, <2>4, <2>5, <2>6, <2>7 DEF Write
  <1>8. ASSUME NEW r \in Requests, Answer(r) \/ AnswerLost(r)
        PROVE  Shape'
    <2>1. req' \in [Requests -> Request]
      BY <1>8, IdleFits DEF Shape, Answer, AnswerLost
    <2>2. up' \in SUBSET Sessions
      BY <1>8 DEF Shape, Answer, AnswerLost, PathInv, PathOK
    <2>3. QED
      BY <1>8, <2>1, <2>2 DEF Shape, Answer, AnswerLost
  <1>9. ASSUME NEW d \in Sessions,
               \/ DialUnclaimed(d) \/ SignIn(d) \/ Unauthorized(d)
               \/ Vanish(d)
        PROVE  Shape'
    BY <1>9 DEF Shape, DialUnclaimed, SignIn, Unauthorized, Vanish
  <1>10. ASSUME NEW d \in Sessions, Traffic(d)
         PROVE  Shape'
    BY <1>10, StaleAssumption DEF Shape, Traffic, Stale
  <1>11. CASE Tick
    BY <1>11, StaleAssumption DEF Shape, Tick, Stale
  <1>12. ASSUME NEW s \in OperatorSets, SetStatus(s)
         PROVE  Shape'
    BY <1>12, OperatorAssumption DEF Shape, SetStatus
  <1>13. ASSUME NEW l \in Limits, ChangeLimit(l)
         PROVE  Shape'
    BY <1>13 DEF Shape, ChangeLimit
  <1>14. CASE StoreLost
    BY <1>14, StaleAssumption DEF Shape, StoreLost, Stale, None
  <1>15. CASE DisplacedExpires
    BY <1>15 DEF Shape, DisplacedExpires
  <1>16. CASE Restart
    BY <1>16, IdleFits DEF Shape, Restart
  <1>17. CASE UNCHANGED vars
    BY <1>17 DEF Shape, vars
  <1>18. QED
    BY <1>1, <1>2, <1>3, <1>4, <1>5, <1>6, <1>7, <1>8, <1>9, <1>10, <1>11,
       <1>12, <1>13, <1>14, <1>15, <1>16, <1>17
    DEF Next, Disturb, Serve, Turn, Shape

-----------------------------------------------------------------------------
(***************************************************************************)
(* Every step keeps the rest of the invariant.                             *)
(***************************************************************************)
\* A step that leaves the hashes, the queue and the requests alone.
LEMMA Untouched ==
  ASSUME IInv, UNCHANGED <<holders, displaced, queue, req>>
  PROVE  LockInv' /\ PathInv' /\ RoomInv' /\ SlotLimit' /\ NoDisplacedHolder'
  BY DEF IInv, LockInv, PathInv, RoomInv, RoomOK, InLock, PathOK, SlotLimit,
         NoDisplacedHolder

\* A step that starts a request or lets go of one, or puts it in the queue.
LEMMA Outside ==
  ASSUME IInv, NEW r \in Requests, NEW q,
         PathOK(q), q.pc \notin Locked, ~InLock(r),
         req' = [req EXCEPT ![r] = q],
         queue' = queue \/ queue' = Append(queue, r),
         UNCHANGED <<holders, displaced>>
  PROVE  LockInv' /\ PathInv' /\ RoomInv' /\ SlotLimit' /\ NoDisplacedHolder'
  <1>1. OnlyMoves(r) /\ req'[r] = q
    BY DEF IInv, Shape, OnlyMoves
  <1>2. PathOK(req[r])' /\ ~InLock(r)'
    BY <1>1 DEF PathOK, InLock
  <1>3. LockInv' /\ PathInv' /\ RoomInv'
    BY <1>1, <1>2, OutsideTheLock DEF IInv
  <1>4. QED
    BY <1>3 DEF IInv, SlotLimit, NoDisplacedHolder

\* A turn that ends at once.
LEMMA TurnAnswered ==
  ASSUME IInv, NEW r \in Requests, HasTurn(r),
         OnlyMoves(r), PathOK(req[r])', ~InLock(r)',
         UNCHANGED <<holders, displaced>>
  PROVE  LockInv' /\ PathInv' /\ RoomInv' /\ SlotLimit' /\ NoDisplacedHolder'
  <1>1. LockInv' /\ PathInv' /\ RoomInv'
    BY OutsideTheLock DEF IInv, HasTurn
  <1>2. QED
    BY <1>1 DEF IInv, SlotLimit, NoDisplacedHolder

\* A turn whose decision leaves writes to make.
LEMMA TurnDecided ==
  ASSUME IInv, NEW r \in Requests, HasTurn(r), OnlyMoves(r), queue' = queue,
         PathOK(req[r])', RoomOK(req[r])', UNCHANGED <<holders, displaced>>
  PROVE  LockInv' /\ PathInv' /\ RoomInv' /\ SlotLimit' /\ NoDisplacedHolder'
  <1>1. LockInv' /\ PathInv' /\ RoomInv'
    BY InsideTheLock DEF IInv, HasTurn
  <1>2. QED
    BY <1>1 DEF IInv, SlotLimit, NoDisplacedHolder

\* The names of the decisions and of the writes.
LEMMA Names ==
  /\ \A path \in {"take", "again", "keep", "regain", "release"} :
       path \in DOMAIN Writes
  /\ \A pc \in {"drop", "mark", "forget", "write"} : pc \in Locked
  BY DEF Writes, Locked

LEMMA TurnSafe ==
  ASSUME IInv, NEW r \in Requests, Turn(r)
  PROVE  LockInv' /\ PathInv' /\ RoomInv' /\ SlotLimit' /\ NoDisplacedHolder'
  <1> USE DEF store
  <1>1. HasTurn(r) /\ queue # <<>> /\ UNCHANGED <<holders, displaced>>
    BY DEF Turn, Decides, HasTurn, ClaimAgain, ClaimTake, ClaimRefused,
           ClaimTooManyTakeovers, RenewKeep, RenewRegain, RenewDisplaced,
           ReleaseDrop, ReleaseNothing, TurnFails
  <1>2. /\ Shape /\ PathInv /\ req[r] \in Request /\ PathOK(req[r])
        /\ req[r].drop \in SUBSET Sessions
    BY DEF IInv, Shape, PathInv, Request
  <1>3. CASE AnswerWith(r, "refused")
    BY <1>1, <1>2, <1>3, AnswerFits, TurnAnswered
  <1>4. CASE ReleaseNothing(r) \/ TurnFails(r)
    <2>1. req' = [req EXCEPT ![r] = Idle]
      BY <1>4 DEF ReleaseNothing, TurnFails
    <2>2. OnlyMoves(r) /\ req'[r] = Idle
      BY <1>2, <2>1 DEF Shape, OnlyMoves
    <2>3. PathOK(req[r])' /\ ~InLock(r)'
      BY <2>2, IdleFits DEF PathOK, InLock
    <2>4. QED
      BY <1>1, <2>2, <2>3, TurnAnswered
  <1>5. CASE ClaimAgain(r)
    <2>1. req[r].op = "claim" /\ Decide(r, "again", "write", {}, {})
      BY <1>5 DEF ClaimAgain
    <2>2. /\ OnlyMoves(r) /\ queue' = queue
          /\ req'[r].op = "claim" /\ req'[r].who = req[r].who
          /\ req'[r].path = "again" /\ req'[r].pc = "write"
      BY <1>1, <1>2, <2>1, DecideFits, Names
    <2>3. PathOK(req[r])' /\ RoomOK(req[r])'
      BY <1>1, <1>2, <1>5, <2>2 DEF PathOK, RoomOK, ClaimAgain
    <2>4. QED
      BY <1>1, <2>2, <2>3, TurnDecided
  <1>6. CASE RenewKeep(r)
    <2>1. req[r].op = "renew" /\ Decide(r, "keep", "write", {}, {})
      BY <1>6 DEF RenewKeep
    <2>2. /\ OnlyMoves(r) /\ queue' = queue
          /\ req'[r].op = "renew" /\ req'[r].who = req[r].who
          /\ req'[r].path = "keep" /\ req'[r].pc = "write"
      BY <1>1, <1>2, <2>1, DecideFits, Names
    <2>3. PathOK(req[r])' /\ RoomOK(req[r])'
      BY <1>1, <1>2, <1>6, <2>2 DEF PathOK, RoomOK, RenewKeep
    <2>4. QED
      BY <1>1, <2>2, <2>3, TurnDecided
  <1>7. CASE RenewRegain(r)
    <2> DEFINE drop == holders \ LiveHolders
    <2>1. /\ req[r].op = "renew" /\ Decide(r, "regain", "forget", drop, {})
          /\ drop \in SUBSET Sessions
      BY <1>2, <1>7 DEF RenewRegain, Shape
    <2>2. /\ OnlyMoves(r) /\ queue' = queue
          /\ req'[r].op = "renew" /\ req'[r].who = req[r].who
          /\ req'[r].limit = req[r].limit /\ req'[r].drop = drop
          /\ req'[r].path = "regain" /\ req'[r].pc = "forget"
      BY <1>1, <1>2, <2>1, DecideFits, Names
    <2>3. holders \ drop = LiveHolders \ {}
      BY DEF LiveHolders
    <2>4. RoomOK(req[r])'
      BY <1>1, <1>7, <2>2, <2>3 DEF RoomOK, RoomAfter, RenewRegain
    <2>5. PathOK(req[r])'
      BY <1>2, <1>7, <2>2 DEF PathOK, RenewRegain
    <2>6. QED
      BY <1>1, <2>2, <2>4, <2>5, TurnDecided
  <1>8. CASE ClaimTake(r)
    <2>1. PICK T \in TakeoverChoices(r) :
            /\ req[r].op = "claim" /\ RoomAfter(r, T)
            /\ Decide(r, "take", "drop", holders \ (LiveHolders \ T), T)
      BY <1>8 DEF ClaimTake
    <2>2. T \subseteq LiveHolders /\ T \in SUBSET Sessions
      BY <1>2 DEF TakeoverChoices, Named, LiveHolders, Shape
    <2>3. PICK drop \in SUBSET Sessions :
            /\ drop = holders \ (LiveHolders \ T)
            /\ Decide(r, "take", "drop", drop, T)
      BY <1>2, <2>1 DEF Shape
    <2>4. /\ OnlyMoves(r) /\ queue' = queue
          /\ req'[r].op = "claim" /\ req'[r].who = req[r].who
          /\ req'[r].limit = req[r].limit /\ req'[r].drop = drop
          /\ req'[r].taken = T
          /\ req'[r].path = "take" /\ req'[r].pc = "drop"
      <3>1. "take" \in DOMAIN Writes /\ "drop" \in Locked
        BY Names
      <3>2. Shape /\ HasTurn(r)
        BY <1>1, <1>2
      <3>3. /\ OnlyMoves(r) /\ queue' = queue
            /\ req'[r].op = req[r].op /\ req'[r].who = req[r].who
            /\ req'[r].limit = req[r].limit /\ req'[r].drop = drop
            /\ req'[r].taken = T
            /\ req'[r].path = "take" /\ req'[r].pc = "drop"
        BY <2>2, <2>3, <3>1, <3>2, DecideFits
      <3>4. QED
        BY <2>1, <3>3
    <2>5. holders \ drop = LiveHolders \ T /\ T \subseteq drop
      BY <2>2, <2>3 DEF LiveHolders
    <2>6. RoomOK(req[r])'
      BY <1>1, <2>1, <2>4, <2>5 DEF RoomOK, RoomAfter
    <2>7. PathOK(req[r])'
      BY <1>2, <1>8, <2>4 DEF PathOK, ClaimTake, Locked
    <2>8. QED
      BY <1>1, <2>4, <2>6, <2>7, TurnDecided
  <1>9. CASE ReleaseDrop(r)
    <2>1. PICK drop \in SUBSET Sessions :
            req[r].op = "release" /\ Decide(r, "release", "drop", drop, {})
      BY <1>2, <1>9 DEF ReleaseDrop
    <2>2. /\ OnlyMoves(r) /\ queue' = queue
          /\ req'[r].op = "release" /\ req'[r].who = req[r].who
          /\ req'[r].path = "release" /\ req'[r].pc = "drop"
      <3>1. "release" \in DOMAIN Writes /\ "drop" \in Locked
        BY Names
      <3>2. Shape /\ HasTurn(r) /\ {} \in SUBSET Sessions
        BY <1>1, <1>2
      <3>3. /\ OnlyMoves(r) /\ queue' = queue
            /\ req'[r].op = req[r].op /\ req'[r].who = req[r].who
            /\ req'[r].path = "release" /\ req'[r].pc = "drop"
        BY <2>1, <3>1, <3>2, DecideFits
      <3>4. QED
        BY <2>1, <3>3
    <2>3. PathOK(req[r])' /\ RoomOK(req[r])'
      BY <2>2 DEF PathOK, RoomOK
    <2>4. QED
      BY <1>1, <2>2, <2>3, TurnDecided
  <1>10. QED
    BY <1>3, <1>4, <1>5, <1>6, <1>7, <1>8, <1>9
    DEF Turn, Decides, ClaimRefused, ClaimTooManyTakeovers, RenewDisplaced

\* Fewer holders fit where more did.
LEMMA FewerFit ==
  ASSUME IInv, holders' \in SUBSET holders
  PROVE  SlotLimit'
  <1>1. Cardinality(holders') <= Cardinality(holders)
        /\ Cardinality(holders) \in Nat /\ Cardinality(holders') \in Nat
    BY SessionSets DEF IInv, Shape
  <1>2. PICK l \in Limits : Cardinality(holders) <= l
    BY DEF IInv, SlotLimit
  <1>3. Cardinality(holders') <= l
    BY <1>1, <1>2, LimitsAssumption
  <1>4. QED
    BY <1>3 DEF SlotLimit

\* A request that is about to write its holder has room for it, or has it.
LEMMA RoomToWrite ==
  ASSUME IInv, NEW r \in Requests, req[r].pc = "write"
  PROVE  /\ req[r].who \in Sessions /\ req[r].who \notin displaced
         /\ req[r].limit \in Limits
         /\ \/ req[r].who \in holders
            \/ Cardinality(holders \cup {req[r].who}) <= req[r].limit
  <1>1. /\ req[r] \in Request /\ PathOK(req[r]) /\ RoomOK(req[r])
        /\ holders \in SUBSET Sessions
    BY DEF IInv, Shape, PathInv, RoomInv, InLock, Locked
  <1>2. req[r].limit \in Limits /\ req[r].who \in Sessions
    BY <1>1 DEF Request, PathOK, Locked
  <1>3. CASE req[r].path \in {"again", "keep"}
    BY <1>1, <1>2, <1>3 DEF RoomOK, IInv, NoDisplacedHolder
  <1>4. CASE req[r].path \in {"take", "regain"}
    <2>1. /\ req[r].who \notin displaced /\ holders \cap req[r].drop = {}
          /\ Cardinality(holders \ req[r].drop) < req[r].limit
      BY <1>1, <1>4 DEF RoomOK
    <2>2. holders \ req[r].drop = holders
      BY <2>1
    <2>3. Cardinality(holders) < req[r].limit
      BY <2>1, <2>2
    <2>4. /\ Cardinality(holders \cup {req[r].who}) <= Cardinality(holders) + 1
          /\ Cardinality(holders) \in Nat
          /\ Cardinality(holders \cup {req[r].who}) \in Nat
      BY <1>1, <1>2, OneMoreSession, SessionSets
    <2>5. req[r].limit \in Nat
      BY <1>2, LimitsAssumption
    <2>6. Cardinality(holders \cup {req[r].who}) <= req[r].limit
      BY <2>3, <2>4, <2>5
    <2>7. QED
      BY <1>2, <2>1, <2>6
  <1>5. QED
    BY <1>1, <1>3, <1>4 DEF PathOK, Locked

\* The order of the writes, decision by decision.
LEMMA WriteOrder ==
  /\ Writes["take"]["drop"] = "mark" /\ Writes["take"]["mark"] = "forget"
  /\ Writes["take"]["forget"] = "write" /\ Writes["take"]["write"] = "done"
  /\ Writes["again"]["write"] = "forget" /\ Writes["again"]["forget"] = "done"
  /\ Writes["keep"]["write"] = "done"
  /\ Writes["regain"]["forget"] = "drop" /\ Writes["regain"]["drop"] = "write"
  /\ Writes["regain"]["write"] = "done"
  /\ Writes["release"]["drop"] = "forget"
  /\ Writes["release"]["forget"] = "done"
  BY DEF Writes

LEMMA WriteSafe ==
  ASSUME IInv, NEW r \in Requests, Write(r)
  PROVE  LockInv' /\ PathInv' /\ RoomInv' /\ SlotLimit' /\ NoDisplacedHolder'
  <1>1. /\ InLock(r) /\ NextWrite(r)
        /\ req[r].pc \in {"drop", "mark", "forget", "write"}
    BY DEF Write, DropSlots, MarkDisplaced, ForgetDisplaced, WriteHolder,
           InLock, Locked
  <1>2. /\ Shape /\ LockInv /\ PathInv /\ RoomInv /\ NoDisplacedHolder
        /\ queue # <<>> /\ Head(queue) = r
        /\ req[r] \in Request /\ PathOK(req[r]) /\ RoomOK(req[r])
    BY <1>1 DEF IInv, LockInv, PathInv, RoomInv, Shape
  <1>3. /\ OnlyMoves(r) /\ PathOK(req[r])'
        /\ \/ ~InLock(r)' /\ Writes[req[r].path][req[r].pc] = "done"
           \/ /\ queue' = queue /\ Writes[req[r].path][req[r].pc] # "done"
              /\ req'[r] = [req[r] EXCEPT
                              !.pc = Writes[req[r].path][req[r].pc]]
    BY <1>1, <1>2, NextWriteFits
  <1>4. Writes[req[r].path][req[r].pc] # "done" =>
          /\ req'[r].path = req[r].path /\ req'[r].who = req[r].who
          /\ req'[r].drop = req[r].drop /\ req'[r].taken = req[r].taken
          /\ req'[r].limit = req[r].limit
          /\ req'[r].pc = Writes[req[r].path][req[r].pc]
    BY <1>2, <1>3 DEF Request
  <1>5. ASSUME Writes[req[r].path][req[r].pc] # "done" => RoomOK(req[r])'
        PROVE  LockInv' /\ PathInv' /\ RoomInv'
    BY <1>2, <1>3, <1>5, OutsideTheLock, InsideTheLock
  <1>6. CASE DropSlots(r)
    <2>1. /\ req[r].pc = "drop" /\ holders' = holders \ req[r].drop
          /\ displaced' = displaced
      BY <1>6 DEF DropSlots
    <2>2. /\ holders' \in SUBSET holders /\ holders' \cap req[r].drop = {}
          /\ holders' \ req[r].drop = holders \ req[r].drop
      BY <2>1
    <2>3. Writes[req[r].path][req[r].pc] # "done" => RoomOK(req[r])'
      BY <1>1, <1>2, <1>4, <2>1, <2>2, WriteOrder DEF RoomOK, PathOK, Locked
    <2>4. NoDisplacedHolder'
      BY <1>2, <2>1, <2>2 DEF NoDisplacedHolder
    <2>5. QED
      BY <1>5, <2>2, <2>3, <2>4, FewerFit
  <1>7. CASE MarkDisplaced(r)
    <2>1. /\ req[r].pc = "mark" /\ holders' = holders
          /\ displaced' = displaced \cup req[r].taken
      BY <1>7 DEF MarkDisplaced
    <2>2. /\ req[r].path = "take" /\ req[r].taken \subseteq req[r].drop
          /\ holders \cap req[r].drop = {}
      BY <1>1, <1>2, <2>1 DEF RoomOK, PathOK, Locked
    <2>3. Writes[req[r].path][req[r].pc] # "done" => RoomOK(req[r])'
      BY <1>2, <1>4, <2>1, <2>2, WriteOrder DEF RoomOK
    <2>4. NoDisplacedHolder'
      BY <1>2, <2>1, <2>2 DEF NoDisplacedHolder
    <2>5. QED
      BY <1>5, <2>1, <2>3, <2>4, FewerFit
  <1>8. CASE ForgetDisplaced(r)
    <2>1. /\ req[r].pc = "forget" /\ holders' = holders
          /\ displaced' \subseteq displaced
          /\ req[r].op # "release" => req[r].who \notin displaced'
      BY <1>8 DEF ForgetDisplaced
    <2>2. Writes[req[r].path][req[r].pc] # "done" => RoomOK(req[r])'
      BY <1>1, <1>2, <1>4, <2>1, WriteOrder DEF RoomOK, PathOK, Locked
    <2>3. NoDisplacedHolder'
      BY <1>2, <2>1 DEF NoDisplacedHolder
    <2>4. QED
      BY <1>5, <2>1, <2>2, <2>3, FewerFit
  <1>9. CASE WriteHolder(r)
    <2>1. /\ req[r].pc = "write" /\ holders' = holders \cup {req[r].who}
          /\ displaced' = displaced
      BY <1>9 DEF WriteHolder
    <2>2. Writes[req[r].path][req[r].pc] # "done" => RoomOK(req[r])'
      BY <1>1, <1>2, <1>4, <2>1, WriteOrder DEF RoomOK, PathOK, Locked
    <2>3. NoDisplacedHolder'
      BY <1>2, <2>1, RoomToWrite DEF NoDisplacedHolder
    <2>4. SlotLimit'
      <3>1. CASE req[r].who \in holders
        BY <2>1, <3>1, FewerFit
      <3>2. CASE Cardinality(holders \cup {req[r].who}) <= req[r].limit
        BY <2>1, <3>2, RoomToWrite DEF SlotLimit
      <3>3. QED
        BY <2>1, <3>1, <3>2, RoomToWrite
    <2>5. QED
      BY <1>5, <2>2, <2>3, <2>4
  <1>10. QED
    BY <1>6, <1>7, <1>8, <1>9 DEF Write

\* Whatever happens outside the lock happens to requests that are not in it.
LEMMA StepSafe ==
  ASSUME IInv, [Next]_vars
  PROVE  LockInv' /\ PathInv' /\ RoomInv' /\ SlotLimit' /\ NoDisplacedHolder'
  <1> USE DEF database, store
  <1>1. ASSUME NEW r \in Requests, NEW d \in Sessions,
               Claim(r, d) \/ Renew(r, d)
        PROVE  LockInv' /\ PathInv' /\ RoomInv' /\ SlotLimit'
               /\ NoDisplacedHolder'
    <2>1. PICK q : /\ q.who = d /\ q.pc \in {"read", "answer"}
                   /\ req' = [req EXCEPT ![r] = q]
      <3>1. CASE Claim(r, d)
        BY <3>1 DEF Claim, Started, Idle
      <3>2. CASE Renew(r, d)
        BY <3>2 DEF Renew, Started, Idle
      <3>3. QED
        BY <1>1, <3>1, <3>2
    <2>2. ~InLock(r) /\ UNCHANGED <<holders, displaced, queue>>
      BY <1>1 DEF Claim, Renew, IsIdle, InLock, Locked
    <2>3. PathOK(q) /\ q.pc \notin Locked
      BY <2>1 DEF PathOK, Locked
    <2>4. QED
      BY <2>1, <2>2, <2>3, Outside
  <1>2. ASSUME NEW r \in Requests,
               \/ \E d \in Sessions : Disconnect(r, d)
               \/ \E S \in SUBSET signedIn : SignOut(r, S)
               \/ Expire(r)
        PROVE  LockInv' /\ PathInv' /\ RoomInv' /\ SlotLimit'
               /\ NoDisplacedHolder'
    <2>1. PICK q : /\ q.op = "release" /\ q.pc = "read"
                   /\ req' = [req EXCEPT ![r] = q]
      BY <1>2 DEF Disconnect, SignOut, Expire, Started, Idle
    <2>2. ~InLock(r) /\ UNCHANGED <<holders, displaced, queue>>
      BY <1>2 DEF Disconnect, SignOut, Expire, IsIdle, InLock, Locked
    <2>3. PathOK(q) /\ q.pc \notin Locked
      BY <2>1 DEF PathOK, Locked
    <2>4. QED
      BY <2>1, <2>2, <2>3, Outside
  <1>3. ASSUME NEW r \in Requests, Enqueue(r)
        PROVE  LockInv' /\ PathInv' /\ RoomInv' /\ SlotLimit'
               /\ NoDisplacedHolder'
    <2>1. req[r] \in Request /\ PathOK(req[r])
      BY DEF IInv, Shape, PathInv
    <2>2. PICK q : /\ q.op = req[r].op /\ q.who = req[r].who
                   /\ q.pc = "queued" /\ req' = [req EXCEPT ![r] = q]
      BY <1>3, <2>1 DEF Enqueue, Request
    <2>3. PathOK(q) /\ q.pc \notin Locked
      BY <2>1, <2>2 DEF PathOK, Locked
    <2>4. ~InLock(r) /\ queue' = Append(queue, r)
          /\ UNCHANGED <<holders, displaced>>
      BY <1>3 DEF Enqueue, InLock, Locked
    <2>5. QED
      BY <2>2, <2>3, <2>4, Outside
  <1>4. ASSUME NEW r \in Requests, Answer(r) \/ AnswerLost(r)
        PROVE  LockInv' /\ PathInv' /\ RoomInv' /\ SlotLimit'
               /\ NoDisplacedHolder'
    <2>1. req' = [req EXCEPT ![r] = Idle] /\ ~InLock(r)
          /\ UNCHANGED <<holders, displaced, queue>>
      BY <1>4 DEF Answer, AnswerLost, InLock, Locked
    <2>2. QED
      BY <2>1, IdleFits, Outside
  <1>5. ASSUME NEW d \in Sessions,
               \/ DialUnclaimed(d) \/ SignIn(d) \/ Unauthorized(d)
               \/ Vanish(d) \/ Traffic(d)
        PROVE  UNCHANGED <<holders, displaced, queue, req>>
    BY <1>5 DEF DialUnclaimed, SignIn, Unauthorized, Vanish, Traffic
  <1>6. ASSUME \/ \E s \in OperatorSets : SetStatus(s)
               \/ \E l \in Limits : ChangeLimit(l)
               \/ Tick
               \/ UNCHANGED vars
        PROVE  UNCHANGED <<holders, displaced, queue, req>>
    BY <1>6 DEF SetStatus, ChangeLimit, Tick, vars
  <1>7. CASE StoreLost
    <2>1. /\ \A r \in Requests : ~InLock(r)
          /\ holders' = {} /\ displaced' = {} /\ queue' = queue /\ req' = req
      BY <1>7 DEF StoreLost
    <2>2. LockInv' /\ PathInv' /\ RoomInv'
      BY <2>1 DEF IInv, LockInv, PathInv, RoomInv, InLock, PathOK
    <2>3. QED
      BY <2>1, <2>2, FewerFit DEF NoDisplacedHolder
  <1>8. CASE DisplacedExpires
    <2>1. displaced' = {} /\ UNCHANGED <<holders, queue, req>>
      BY <1>8 DEF DisplacedExpires
    <2>2. LockInv' /\ PathInv' /\ SlotLimit' /\ NoDisplacedHolder'
      BY <2>1 DEF IInv, LockInv, PathInv, InLock, PathOK, SlotLimit,
                  NoDisplacedHolder
    <2>3. RoomInv'
      BY <2>1 DEF IInv, RoomInv, RoomOK, InLock
    <2>4. QED
      BY <2>2, <2>3
  <1>9. CASE Restart
    <2>1. /\ req' = [r \in Requests |-> Idle]
          /\ UNCHANGED <<holders, displaced>>
      BY <1>9 DEF Restart
    <2>2. LockInv' /\ PathInv' /\ RoomInv'
      BY <2>1, IdleFits DEF LockInv, PathInv, RoomInv, InLock, PathOK
    <2>3. QED
      BY <2>1, <2>2 DEF IInv, SlotLimit, NoDisplacedHolder
  <1>10. QED
    BY <1>1, <1>2, <1>3, <1>4, <1>5, <1>6, <1>7, <1>8, <1>9, Untouched,
       TurnSafe, WriteSafe
    DEF Next, Disturb, Serve, Turn

LEMMA NextIInv == IInv /\ [Next]_vars => IInv'
  <1> SUFFICES ASSUME IInv, [Next]_vars PROVE IInv'
    OBVIOUS
  <1>1. Shape'
    BY TypePreserved DEF IInv
  <1>2. QED
    BY <1>1, StepSafe DEF IInv

-----------------------------------------------------------------------------
(***************************************************************************)
(* What one step may do to one request, for the action properties.         *)
(***************************************************************************)
\* A step moves one request, or none, or ends them all.
LEMMA OneMoves ==
  ASSUME IInv, [Next]_vars
  PROVE  \/ UNCHANGED req
         \/ Restart
         \/ \E r \in Requests :
              /\ OnlyMoves(r)
              /\ \/ IsIdle(r) \/ Enqueue(r) \/ Turn(r) \/ Write(r)
                 \/ Answer(r) \/ AnswerLost(r)
  <1>1. req \in [Requests -> Request]
    BY DEF IInv, Shape
  <1>2. ASSUME NEW r \in Requests,
               \/ \E d \in Sessions : Claim(r, d) \/ Renew(r, d)
                                      \/ Disconnect(r, d)
               \/ \E S \in SUBSET signedIn : SignOut(r, S)
               \/ Expire(r)
        PROVE  OnlyMoves(r) /\ IsIdle(r)
    BY <1>1, <1>2 DEF Claim, Renew, Disconnect, SignOut, Expire, OnlyMoves
  <1>3. ASSUME NEW r \in Requests, Enqueue(r) \/ Answer(r) \/ AnswerLost(r)
        PROVE  OnlyMoves(r)
    BY <1>1, <1>3 DEF Enqueue, Answer, AnswerLost, OnlyMoves
  <1>4. ASSUME NEW r \in Requests, Turn(r)
        PROVE  OnlyMoves(r)
    BY <1>1, <1>4 DEF Turn, Decides, ClaimAgain, ClaimTake, ClaimRefused,
         ClaimTooManyTakeovers, RenewKeep, RenewRegain, RenewDisplaced,
         ReleaseDrop, ReleaseNothing, TurnFails, Decide, AnswerWith, OnlyMoves
  <1>5. ASSUME NEW r \in Requests, Write(r)
        PROVE  OnlyMoves(r)
    BY <1>1, <1>5 DEF Write, DropSlots, MarkDisplaced, ForgetDisplaced,
         WriteHolder, NextWrite, AnswerWith, OnlyMoves
  <1>6. ASSUME \/ \E d \in Sessions :
                    \/ DialUnclaimed(d) \/ SignIn(d) \/ Unauthorized(d)
                    \/ Vanish(d) \/ Traffic(d)
               \/ \E s \in OperatorSets : SetStatus(s)
               \/ \E l \in Limits : ChangeLimit(l)
               \/ Tick \/ StoreLost \/ DisplacedExpires \/ UNCHANGED vars
        PROVE  UNCHANGED req
    BY <1>6 DEF DialUnclaimed, SignIn, Unauthorized, Vanish, Traffic,
         SetStatus, ChangeLimit, Tick, StoreLost, DisplacedExpires, vars
  <1>7. QED
    BY <1>2, <1>3, <1>4, <1>5, <1>6 DEF Next, Disturb, Serve, Turn

\* Only its own turn takes a request out of the queue.
LEMMA QueuedMoves ==
  ASSUME IInv, [Next]_vars, NEW r \in Requests, req[r].pc = "queued",
         req'[r].pc \notin {"queued", "idle"}
  PROVE  Turn(r)
  <1>1. CASE Restart
    BY <1>1 DEF Restart, Idle
  <1>2. ASSUME NEW s \in Requests, OnlyMoves(s),
               \/ IsIdle(s) \/ Enqueue(s) \/ Turn(s) \/ Write(s)
               \/ Answer(s) \/ AnswerLost(s)
        PROVE  Turn(r)
    <2>1. s = r
      BY <1>2 DEF OnlyMoves
    <2>2. ~IsIdle(r) /\ ~Enqueue(r) /\ ~Write(r) /\ ~Answer(r)
          /\ ~AnswerLost(r)
      BY DEF IsIdle, Enqueue, Write, DropSlots, MarkDisplaced,
             ForgetDisplaced, WriteHolder, Answer, AnswerLost
    <2>3. QED
      BY <1>2, <2>1, <2>2
  <1>3. QED
    BY <1>1, <1>2, OneMoves

\* Only a write of the request in the lock gives a device a slot.
LEMMA OnlyWritesAdd ==
  ASSUME IInv, [Next]_vars, ~(holders' \subseteq holders)
  PROVE  \E r \in Requests : WriteHolder(r)
  <1> USE DEF store
  <1>1. ASSUME NEW r \in Requests, Turn(r)
        PROVE  holders' = holders
    BY <1>1 DEF Turn, Decides, ClaimAgain, ClaimTake, ClaimRefused,
         ClaimTooManyTakeovers, RenewKeep, RenewRegain, RenewDisplaced,
         ReleaseDrop, ReleaseNothing, TurnFails
  <1>2. ASSUME NEW r \in Requests,
               \/ DropSlots(r) \/ MarkDisplaced(r) \/ ForgetDisplaced(r)
        PROVE  holders' \subseteq holders
    BY <1>2 DEF DropSlots, MarkDisplaced, ForgetDisplaced
  <1>3. ASSUME NEW r \in Requests,
               \/ \E d \in Sessions : Claim(r, d) \/ Renew(r, d)
                                      \/ Disconnect(r, d)
               \/ \E S \in SUBSET signedIn : SignOut(r, S)
               \/ Expire(r) \/ Enqueue(r) \/ Answer(r) \/ AnswerLost(r)
        PROVE  holders' = holders
    BY <1>3 DEF Claim, Renew, Disconnect, SignOut, Expire, Enqueue, Answer,
         AnswerLost
  <1>4. ASSUME \/ \E d \in Sessions :
                    \/ DialUnclaimed(d) \/ SignIn(d) \/ Unauthorized(d)
                    \/ Vanish(d) \/ Traffic(d)
               \/ \E s \in OperatorSets : SetStatus(s)
               \/ \E l \in Limits : ChangeLimit(l)
               \/ Tick \/ StoreLost \/ DisplacedExpires \/ Restart
               \/ UNCHANGED vars
        PROVE  holders' \subseteq holders
    BY <1>4 DEF DialUnclaimed, SignIn, Unauthorized, Vanish, Traffic,
         SetStatus, ChangeLimit, Tick, StoreLost, DisplacedExpires, Restart,
         vars
  <1>5. QED
    BY <1>1, <1>2, <1>3, <1>4 DEF Next, Disturb, Serve, Turn, Write

\* Where each outcome of a turn leaves its request.
LEMMA TurnLeads ==
  ASSUME Shape, NEW r \in Requests
  PROVE  /\ ClaimAgain(r) \/ RenewKeep(r) => req'[r].pc = "write"
         /\ RenewRegain(r) => req'[r].pc = "forget"
         /\ ReleaseDrop(r) => req'[r].pc = "drop" /\ req'[r].taken = {}
         /\ ClaimTake(r) => req'[r].pc = "drop"
         /\ ClaimRefused(r) \/ ClaimTooManyTakeovers(r) \/ RenewDisplaced(r)
              => req'[r].pc = "answer"
         /\ ReleaseNothing(r) \/ TurnFails(r) => req'[r].pc = "idle"
  <1>1. req[r] \in Request /\ req \in [Requests -> Request]
    BY DEF Shape
  <1>2. ASSUME NEW path, NEW first, NEW drop, NEW taken,
               Decide(r, path, first, drop, taken)
        PROVE  req'[r].pc = first /\ req'[r].taken = taken
    <2>1. req'[r] = [req[r] EXCEPT !.path = path, !.pc = first, !.names = {},
                                   !.drop = drop, !.taken = taken]
      BY <1>1, <1>2 DEF Decide
    <2>2. QED
      BY <1>1, <2>1 DEF Request
  <1>3. AnswerWith(r, "refused") => req'[r].pc = "answer"
    BY <1>1 DEF AnswerWith, Idle
  <1>4. ReleaseNothing(r) \/ TurnFails(r) => req'[r].pc = "idle"
    BY <1>1 DEF ReleaseNothing, TurnFails, Idle
  <1>5. ClaimAgain(r) \/ RenewKeep(r) => req'[r].pc = "write"
    BY <1>2 DEF ClaimAgain, RenewKeep
  <1>6. RenewRegain(r) => req'[r].pc = "forget"
    BY <1>2 DEF RenewRegain
  <1>7. ReleaseDrop(r) => req'[r].pc = "drop" /\ req'[r].taken = {}
    BY <1>2 DEF ReleaseDrop
  <1>8. ClaimTake(r) => req'[r].pc = "drop"
    BY <1>2 DEF ClaimTake
  <1>9. QED
    BY <1>3, <1>4, <1>5, <1>6, <1>7, <1>8
    DEF ClaimRefused, ClaimTooManyTakeovers, RenewDisplaced

\* A takeover that makes room makes exactly one place, out of a full plan;
\* where it makes none, the plan is full without it.
LEMMA Takeovers ==
  ASSUME Shape, NEW r \in Requests, NEW T \in TakeoverChoices(r)
  PROVE  /\ T # {} /\ RoomAfter(r, T) =>
              /\ Cardinality(LiveHolders \ T) = req[r].limit - 1
              /\ Cardinality(LiveHolders) >= req[r].limit
         /\ ~RoomAfter(r, T) => Cardinality(LiveHolders) >= req[r].limit
  <1>1. LiveHolders \in SUBSET Sessions /\ T \in SUBSET LiveHolders
        /\ LiveHolders \ T \in SUBSET LiveHolders
    BY DEF Shape, LiveHolders, TakeoverChoices, Named
  <1>2. /\ IsFiniteSet(LiveHolders) /\ Cardinality(LiveHolders) \in Nat
        /\ IsFiniteSet(T) /\ Cardinality(T) \in Nat
        /\ Cardinality(LiveHolders \ T) \in Nat
        /\ Cardinality(LiveHolders \ T) <= Cardinality(LiveHolders)
    BY <1>1, SessionSets
  <1>3. LiveHolders \cap T = T
    BY <1>1
  <1>4. Cardinality(LiveHolders \ T) = Cardinality(LiveHolders) - Cardinality(T)
    BY <1>2, <1>3, FS_Difference
  <1>5. req[r].limit \in Nat
    BY LimitsAssumption DEF Shape, Request
  <1>6. ASSUME T # {}, RoomAfter(r, T)
        PROVE  Cardinality(LiveHolders \ T) = req[r].limit - 1
    <2>1. Cardinality(T) <= Needed(r)
      BY <1>2, <1>5, <1>6 DEF TakeoverChoices, Needed
    <2>2. Cardinality(LiveHolders \ T) < req[r].limit
      BY <1>6 DEF RoomAfter
    <2>3. QED
      BY <1>2, <1>4, <1>5, <2>1, <2>2 DEF Needed
  <1>7. T # {} => Cardinality(T) > 0
    BY <1>2, FS_EmptySet
  <1>8. QED
    BY <1>2, <1>4, <1>5, <1>6, <1>7 DEF RoomAfter

-----------------------------------------------------------------------------
(***************************************************************************)
(* Releases that name a grant, and those a later grant has overtaken.      *)
(***************************************************************************)
\* q is a release by handle, which its own turn has not read yet.
NameOK(q) == q.op = "release" /\ q.names # {} =>
               q.pc \in {"read", "queued"} /\ q.who \in Sessions /\ q.drop = {q.who}

NameInv == \A r \in Requests : NameOK(req[r])

\* A release that was overtaken names none of its device's grants, and once
\* it is in the lock its device has none.
LateOK(q) ==
  /\ q.op = "release"
  /\ \/ q.names # {} /\ (q.who \in holders => <<q.who, handle[q.who]>> \notin q.names)
     \/ q.pc = "drop" /\ q.drop \cap holders = {}
     \/ q.pc = "forget"

LateInv == \A r \in late : LateOK(req[r])

SlotInv == IInv /\ NameInv /\ LateInv

\* What a step makes of the one request it moves.
LEMMA NameMoves ==
  ASSUME IInv, NameInv, NEW r \in Requests, NEW q, req' = [req EXCEPT ![r] = q], NameOK(q)
  PROVE  NameInv'
  BY DEF IInv, Shape, NameInv, NameOK

\* A request that is over, or starts anew, has no part in either.
LEMMA IdleNamesNothing == NameOK(Idle)
  BY DEF NameOK, Idle

\* The requests that start, wait and are answered.
LEMMA OutsideNames ==
  ASSUME IInv, NameInv, NEW r \in Requests,
         \/ \E d \in Sessions : Claim(r, d) \/ Renew(r, d) \/ Disconnect(r, d)
         \/ \E S \in SUBSET signedIn : SignOut(r, S)
         \/ Expire(r) \/ Enqueue(r) \/ Answer(r) \/ AnswerLost(r)
  PROVE  NameInv'
  <1>1. ASSUME NEW d \in Sessions, Claim(r, d) \/ Renew(r, d) PROVE NameInv'
    <2>1. PICK q : q.op # "release" /\ req' = [req EXCEPT ![r] = q]
      <3>1. CASE Claim(r, d)
        <4>1. PICK q : q.op = "claim" /\ req' = [req EXCEPT ![r] = q]
          BY <3>1 DEF Claim, Started, Idle
        <4>2. QED
          BY <4>1
      <3>2. CASE Renew(r, d)
        <4>1. PICK q : q.op = "renew" /\ req' = [req EXCEPT ![r] = q]
          BY <3>2 DEF Renew, Started, Idle
        <4>2. QED
          BY <4>1
      <3>3. QED
        BY <1>1, <3>1, <3>2
    <2>2. QED
      BY <2>1, NameMoves DEF NameOK
  <1>2. ASSUME NEW d \in Sessions, Disconnect(r, d) PROVE NameInv'
    <2>1. PICK q : /\ q.pc = "read" /\ q.who = d /\ q.drop = {d}
                   /\ req' = [req EXCEPT ![r] = q]
      BY <1>2 DEF Disconnect, Started, Idle
    <2>2. QED
      BY <2>1, NameMoves DEF NameOK
  <1>3. ASSUME (\E S \in SUBSET signedIn : SignOut(r, S)) \/ Expire(r) PROVE NameInv'
    <2>1. PICK q : q.names = {} /\ req' = [req EXCEPT ![r] = q]
      BY <1>3 DEF SignOut, Expire, Started, Idle
    <2>2. QED
      BY <2>1, NameMoves DEF NameOK
  <1>4. CASE Enqueue(r)
    <2>1. req[r] \in Request /\ NameOK(req[r])
      BY DEF IInv, Shape, NameInv
    <2>2. PICK q : /\ q.op = req[r].op /\ q.who = req[r].who /\ q.names = req[r].names
                   /\ q.drop = req[r].drop /\ q.pc = "queued"
                   /\ req' = [req EXCEPT ![r] = q]
      BY <1>4, <2>1 DEF Enqueue, Request
    <2>3. QED
      BY <2>1, <2>2, NameMoves DEF NameOK
  <1>5. CASE Answer(r) \/ AnswerLost(r)
    BY <1>5, NameMoves, IdleNamesNothing DEF Answer, AnswerLost
  <1>6. QED
    BY <1>1, <1>2, <1>3, <1>4, <1>5

\* A turn forgets the names it has read; a write finds none.
LEMMA InsideNames ==
  ASSUME IInv, NameInv, NEW r \in Requests, Turn(r) \/ Write(r)
  PROVE  NameInv'
  <1>1. req[r] \in Request /\ NameOK(req[r])
    BY DEF IInv, Shape, NameInv
  <1>2. ASSUME NEW out, AnswerWith(r, out) PROVE NameInv'
    <2>1. PICK q : q.names = {} /\ req' = [req EXCEPT ![r] = q]
      BY <1>2 DEF AnswerWith, Idle
    <2>2. QED
      BY <2>1, NameMoves DEF NameOK
  <1>3. ASSUME NEW path, NEW first, NEW drop, NEW taken, Decide(r, path, first, drop, taken)
        PROVE  NameInv'
    <2>1. PICK q : q.names = {} /\ req' = [req EXCEPT ![r] = q]
      BY <1>1, <1>3 DEF Decide, Request
    <2>2. QED
      BY <2>1, NameMoves DEF NameOK
  <1>4. CASE Turn(r)
    <2>1. CASE ReleaseNothing(r) \/ TurnFails(r)
      BY <2>1, NameMoves, IdleNamesNothing DEF ReleaseNothing, TurnFails
    <2>2. CASE ClaimRefused(r) \/ ClaimTooManyTakeovers(r) \/ RenewDisplaced(r)
      BY <2>2, <1>2 DEF ClaimRefused, ClaimTooManyTakeovers, RenewDisplaced
    <2>3. CASE ClaimAgain(r) \/ ClaimTake(r) \/ RenewKeep(r) \/ RenewRegain(r)
               \/ ReleaseDrop(r)
      BY <2>3, <1>3 DEF ClaimAgain, ClaimTake, RenewKeep, RenewRegain, ReleaseDrop
    <2>4. QED
      BY <1>4, <2>1, <2>2, <2>3 DEF Turn, Decides
  <1>5. CASE Write(r)
    <2>1. NextWrite(r) /\ req[r].pc \in {"drop", "mark", "forget", "write"}
      BY <1>5 DEF Write, DropSlots, MarkDisplaced, ForgetDisplaced, WriteHolder
    <2>2. CASE AnswerWith(r, "granted")
      BY <2>2, <1>2
    <2>3. CASE req' = [req EXCEPT ![r] = Idle]
      BY <2>3, NameMoves, IdleNamesNothing
    <2>4. CASE req' = [req EXCEPT ![r].pc = Writes[req[r].path][req[r].pc]]
      <3>1. PICK q : q.op = req[r].op /\ q.names = req[r].names /\ req' = [req EXCEPT ![r] = q]
        BY <1>1, <2>4 DEF Request
      <3>2. ~(q.op = "release" /\ q.names # {})
        BY <1>1, <2>1, <3>1 DEF NameOK
      <3>3. QED
        BY <3>1, <3>2, NameMoves DEF NameOK
    <2>5. QED
      BY <2>1, <2>2, <2>3, <2>4 DEF NextWrite
  <1>6. QED
    BY <1>4, <1>5

\* A step that leaves the overtaken releases alone, and the slots of others
\* as they are or fewer.
LEMMA LateUntouched ==
  ASSUME IInv, NameInv, LateInv, late' \subseteq late,
         \A r \in late' : req'[r] = req[r],
         holders' \subseteq holders,
         \A d \in holders' : handle'[d] = handle[d]
  PROVE  LateInv'
  BY DEF LateInv, LateOK

\* Who an overtaken release may be.
LEMMA LateIs ==
  ASSUME IInv, NameInv, LateInv, NEW r \in late
  PROVE  /\ r \in Requests /\ req[r] \in Request /\ req[r].op = "release"
         /\ req[r].pc \in {"read", "queued", "drop", "forget"}
         /\ req[r].pc \in {"read", "queued"} =>
              /\ req[r].names # {} /\ req[r].who \in Sessions /\ req[r].drop = {req[r].who}
              /\ req[r].who \in holders =>
                   <<req[r].who, handle[req[r].who]>> \notin req[r].names
  <1>1. r \in Requests /\ req[r] \in Request
    BY DEF IInv, Shape
  <1>2. LateOK(req[r]) /\ NameOK(req[r])
    BY <1>1 DEF LateInv, NameInv
  <1>3. QED
    BY <1>1, <1>2 DEF LateOK, NameOK

\* Its turn: its device either has a later grant, and the release is over, or
\* has none.
LEMMA LateTurn ==
  ASSUME IInv, NameInv, LateInv, NEW r \in Requests, Turn(r)
  PROVE  LateInv'
  <1> USE DEF store
  <1>1. OnlyMoves(r) /\ UNCHANGED <<holders, handle>> /\ req[r].pc = "queued"
    <2>1. req \in [Requests -> Request]
      BY DEF IInv, Shape
    <2>2. QED
      BY <2>1 DEF Turn, Decides, ClaimAgain, ClaimTake, ClaimRefused, ClaimTooManyTakeovers,
         RenewKeep, RenewRegain, RenewDisplaced, ReleaseDrop, ReleaseNothing, TurnFails, Decide,
         AnswerWith, OnlyMoves, HasTurn
  <1>2. CASE r \notin late \/ ReleaseNothing(r)
    <2>1. late' \subseteq late /\ r \notin late'
      BY <1>2 DEF Turn, Decides, ClaimAgain, ClaimTake, ClaimRefused, ClaimTooManyTakeovers,
         RenewKeep, RenewRegain, RenewDisplaced, ReleaseDrop, ReleaseNothing, TurnFails
    <2>2. \A s \in late' : s \in Requests \ {r}
      BY <2>1, LateIs
    <2>3. QED
      BY <1>1, <2>1, <2>2, LateUntouched DEF OnlyMoves
  <1>3. CASE r \in late /\ ReleaseDrop(r)
    <2>1. late' = late
      BY <1>3 DEF ReleaseDrop
    <2>2. req[r].drop \cap holders = {}
      BY <1>1, <1>3, LateIs DEF ReleaseDrop, NamesOlderGrant
    <2>3. /\ req'[r].op = "release" /\ req'[r].pc = "drop"
          /\ req'[r].drop = req[r].drop
      <3>1. req \in [Requests -> Request] /\ req[r] \in Request
        BY DEF IInv, Shape
      <3>2. QED
        BY <1>3, <3>1 DEF ReleaseDrop, Decide, Request
    <2>4. ASSUME NEW s \in late' PROVE LateOK(req[s])'
      <3>1. CASE s = r
        BY <1>1, <2>2, <2>3, <3>1 DEF LateOK
      <3>2. CASE s # r
        BY <1>1, <2>1, <2>4, <3>2, LateIs DEF LateInv, LateOK, OnlyMoves
      <3>3. QED
        BY <3>1, <3>2
    <2>5. QED
      BY <2>4 DEF LateInv
  <1>4. r \in late => ReleaseDrop(r) \/ ReleaseNothing(r)
    BY LateIs DEF Turn, Decides, ClaimAgain, ClaimTake, ClaimRefused, ClaimTooManyTakeovers,
       RenewKeep, RenewRegain, RenewDisplaced, TurnFails
  <1>5. QED
    BY <1>2, <1>3, <1>4

\* The calls: only a new grant overtakes releases, and it is one that none of
\* them names.
LEMMA LateWrite ==
  ASSUME IInv, NameInv, LateInv, NEW r \in Requests, Write(r)
  PROVE  LateInv'
  <1>0. OnlyMoves(r) /\ InLock(r) /\ Shape /\ req[r] \in Request /\ PathOK(req[r])
    <2>1. req \in [Requests -> Request] /\ PathOK(req[r])
      BY DEF IInv, Shape, PathInv
    <2>2. QED
      BY <2>1 DEF IInv, Write, DropSlots, MarkDisplaced, ForgetDisplaced, WriteHolder, NextWrite,
         AnswerWith, OnlyMoves, InLock, Locked
  <1>1. \A s \in late \ {r} : s \in Requests /\ req'[s] = req[s]
    BY <1>0, LateIs DEF OnlyMoves
  <1>2. CASE DropSlots(r)
    <2>1. /\ late' = late /\ holders' = holders \ req[r].drop
          /\ \A d \in holders' : handle'[d] = handle[d]
      BY <1>0, <1>2 DEF DropSlots, Shape
    <2>2. ASSUME r \in late PROVE req'[r].op = "release" /\ req'[r].pc = "forget"
      <3>1. req[r].path = "release" /\ req[r].op = "release" /\ req[r].pc = "drop"
        BY <1>0, <1>2, <2>2, LateIs DEF PathOK, Locked, DropSlots
      <3>2. Writes["release"]["drop"] = "forget"
        BY DEF Writes
      <3>3. NextWrite(r)
        BY <1>2 DEF DropSlots
      <3>4. req' = [req EXCEPT ![r].pc = "forget"]
        BY <3>1, <3>2, <3>3 DEF NextWrite
      <3>5. req \in [Requests -> Request]
        BY <1>0 DEF Shape
      <3>6. QED
        BY <1>0, <3>1, <3>4, <3>5 DEF Request
    <2>3. ASSUME NEW s \in late' PROVE LateOK(req[s])'
      <3>1. CASE s = r
        BY <2>1, <2>2, <2>3, <3>1 DEF LateOK
      <3>2. CASE s # r
        BY <1>1, <2>1, <2>3, <3>2 DEF LateInv, LateOK
      <3>3. QED
        BY <3>1, <3>2
    <2>4. QED
      BY <2>3 DEF LateInv
  <1>3. CASE MarkDisplaced(r) \/ ForgetDisplaced(r)
    <2>1. UNCHANGED <<holders, handle>> /\ late' \subseteq late
      BY <1>3 DEF MarkDisplaced, ForgetDisplaced
    <2>2. r \notin late'
      <3>1. CASE MarkDisplaced(r)
        BY <3>1, LateIs DEF MarkDisplaced
      <3>2. CASE ForgetDisplaced(r)
        BY <3>2, LateIs DEF ForgetDisplaced
      <3>3. QED
        BY <1>3, <3>1, <3>2
    <2>3. QED
      BY <1>1, <2>1, <2>2, LateUntouched
  <1>4. CASE WriteHolder(r)
    <2> DEFINE d == req[r].who
    <2>1. r \notin late /\ req[r].pc = "write"
      BY <1>4, LateIs DEF WriteHolder
    <2>2. CASE req[r].path = "keep"
      <3>1. d \in holders
        BY <1>0, <2>2 DEF IInv, RoomInv, RoomOK
      <3>2. holders' = holders /\ UNCHANGED <<handle, late>>
        BY <1>4, <2>2, <3>1 DEF WriteHolder
      <3>3. QED
        BY <1>1, <2>1, <3>2, LateUntouched
    <2>3. CASE req[r].path # "keep"
      <3>1. PICK g \in Grants : NewHandle(d, g) /\ handle' = [handle EXCEPT ![d] = g]
        BY <1>4, <2>3 DEF WriteHolder
      <3>2. \A s \in Requests : <<d, g>> \notin req[s].names
        BY <3>1 DEF NewHandle, FreshGrants
      <3>3. /\ holders' = holders \cup {d}
            /\ late' = late \cup {s \in Requests : req[s].op = "release"
                                     /\ req[s].who = d /\ req[s].names # {}}
        BY <1>4, <2>3 DEF WriteHolder
      <3>4. ASSUME NEW s \in late' PROVE LateOK(req[s])'
        <4>1. s \in Requests /\ req[s].op = "release"
          BY <3>3, <3>4, LateIs
        <4>2. ~InLock(s) /\ s # r
          <5>1. s # r
            BY <1>0, <2>1, <3>3, <3>4, <4>1 DEF NameInv, NameOK
          <5>2. QED
            BY <1>0, <4>1, <5>1 DEF IInv, LockInv
        <4>3. req[s].names # {} /\ req'[s] = req[s]
          <5>1. CASE s \in late
            BY <1>1, <4>2, <5>1, LateIs DEF LateInv, LateOK, InLock, Locked
          <5>2. CASE s \notin late
            BY <1>0, <3>3, <3>4, <4>2, <5>2 DEF OnlyMoves
          <5>3. QED
            BY <5>1, <5>2
        <4>4. req[s].who \in Sessions /\ handle \in [Sessions -> Grants \cup {None}]
          BY <1>0, <4>1, <4>3 DEF NameInv, NameOK, Shape
        <4>5. req[s].who \in holders' =>
                <<req[s].who, handle'[req[s].who]>> \notin req[s].names
          <5>1. CASE req[s].who = d
            BY <3>1, <3>2, <4>1, <4>4, <5>1
          <5>2. CASE req[s].who # d
            <6>1. s \in late
              BY <3>3, <3>4, <5>2
            <6>2. req[s].pc \in {"read", "queued"}
              BY <4>1, <4>3 DEF NameInv, NameOK
            <6>3. req[s].who \in holders =>
                    <<req[s].who, handle[req[s].who]>> \notin req[s].names
              BY <6>1, <6>2, LateIs
            <6>4. QED
              BY <3>1, <3>3, <4>4, <5>2, <6>3
          <5>3. QED
            BY <5>1, <5>2
        <4>6. QED
          BY <4>1, <4>3, <4>5 DEF LateOK
      <3>5. QED
        BY <3>4 DEF LateInv
    <2>4. QED
      BY <2>2, <2>3
  <1>5. QED
    BY <1>2, <1>3, <1>4 DEF Write

\* Everything else moves no overtaken release and gives no slot.
LEMMA LateSafe ==
  ASSUME SlotInv, [Next]_vars
  PROVE  NameInv' /\ LateInv'
  <1> USE DEF database, store
  <1>0. IInv /\ NameInv /\ LateInv /\ req \in [Requests -> Request]
    BY DEF SlotInv, IInv, Shape
  <1>1. ASSUME NEW r \in Requests,
               \/ \E d \in Sessions : Claim(r, d) \/ Renew(r, d) \/ Disconnect(r, d)
               \/ \E S \in SUBSET signedIn : SignOut(r, S)
               \/ Expire(r) \/ Answer(r) \/ AnswerLost(r)
        PROVE  NameInv' /\ LateInv'
    <2>1. /\ OnlyMoves(r) /\ req[r].pc \in {"idle", "answer"}
          /\ UNCHANGED <<holders, handle, late>>
      BY <1>0, <1>1 DEF Claim, Renew, Disconnect, SignOut, Expire, Answer, AnswerLost,
         IsIdle, OnlyMoves
    <2>2. \A s \in late : s \in Requests \ {r}
      BY <1>0, <2>1, LateIs
    <2>3. LateInv'
      BY <1>0, <2>1, <2>2, LateUntouched DEF OnlyMoves
    <2>4. QED
      BY <1>0, <1>1, <2>3, OutsideNames
  <1>2. ASSUME NEW r \in Requests, Enqueue(r)
        PROVE  NameInv' /\ LateInv'
    <2>1. UNCHANGED <<holders, handle, late>>
      BY <1>2 DEF Enqueue
    <2>2. ASSUME NEW s \in late PROVE LateOK(req[s])'
      <3>1. s \in Requests /\ LateOK(req[s]) /\ req[s] \in Request
        BY <1>0, <2>2, LateIs DEF LateInv
      <3>2. /\ req'[s].op = req[s].op /\ req'[s].who = req[s].who
            /\ req'[s].names = req[s].names /\ req'[s].drop = req[s].drop
            /\ (req'[s].pc = req[s].pc \/ req[s].pc = "read")
        BY <1>0, <1>2, <3>1 DEF Enqueue, Request
      <3>3. QED
        BY <2>1, <3>1, <3>2 DEF LateOK
    <2>3. QED
      BY <1>0, <1>2, <2>1, <2>2, OutsideNames DEF LateInv
  <1>3. ASSUME \/ \E d \in Sessions :
                    \/ DialUnclaimed(d) \/ SignIn(d) \/ Unauthorized(d)
                    \/ Vanish(d) \/ Traffic(d)
               \/ \E s \in OperatorSets : SetStatus(s)
               \/ \E l \in Limits : ChangeLimit(l)
               \/ Tick \/ StoreLost \/ DisplacedExpires \/ UNCHANGED vars
        PROVE  NameInv' /\ LateInv'
    <2>1. /\ UNCHANGED <<req, late>> /\ holders' \subseteq holders
          /\ \A d \in holders' : handle'[d] = handle[d]
      BY <1>3 DEF DialUnclaimed, SignIn, Unauthorized, Vanish, Traffic, SetStatus,
         ChangeLimit, Tick, StoreLost, DisplacedExpires, vars
    <2>2. NameInv'
      BY <1>0, <2>1 DEF NameInv, NameOK
    <2>3. QED
      BY <1>0, <2>1, <2>2, LateUntouched
  <1>4. CASE Restart
    BY <1>4, IdleNamesNothing DEF Restart, NameInv, NameOK, LateInv
  <1>5. ASSUME NEW r \in Requests, Turn(r) \/ Write(r)
        PROVE  NameInv' /\ LateInv'
    BY <1>0, <1>5, InsideNames, LateTurn, LateWrite
  <1>6. QED
    BY <1>1, <1>2, <1>3, <1>4, <1>5 DEF Next, Disturb, Serve, Turn

-----------------------------------------------------------------------------
(***************************************************************************)
(* The lock is handed on.                                                  *)
(***************************************************************************)
\* A request is in the queue from its arrival to its last write.
Waits(r) == req[r].pc = "queued" \/ InLock(r)

\* The request at the head of the queue.
First(r) == queue # <<>> /\ Head(queue) = r

LEMMA QueueStays ==
  ASSUME LockHandedOn, queue' = queue,
         \A r \in Requests : Waits(r)' <=> Waits(r)
  PROVE  LockHandedOn'
  BY DEF LockHandedOn, Waits

\* Leaving the lock: the first takes itself off, and no other.
LEMMA QueueShrinks ==
  ASSUME Shape, LockHandedOn, NEW r \in Requests, OnlyMoves(r), First(r),
         queue' = Tail(queue), ~Waits(r)'
  PROVE  LockHandedOn'
  <1>1. /\ queue \in Seq(Requests) /\ Len(queue) \in Nat \ {0} /\ queue[1] = r
        /\ Len(queue') = Len(queue) - 1
        /\ \A i \in 1..Len(queue') : queue'[i] = queue[i + 1]
        /\ DOMAIN queue = 1..Len(queue) /\ DOMAIN queue' = 1..Len(queue')
    BY DEF Shape, First
  <1>2. ASSUME NEW i \in DOMAIN queue', NEW j \in DOMAIN queue',
               queue'[i] = queue'[j]
        PROVE  i = j
    <2>1. i + 1 \in DOMAIN queue /\ j + 1 \in DOMAIN queue
          /\ queue[i + 1] = queue[j + 1]
      BY <1>1, <1>2
    <2>2. i + 1 = j + 1
      BY <2>1 DEF LockHandedOn
    <2>3. QED
      BY <1>1, <2>2
  <1>3. ASSUME NEW s \in Requests, s # r
        PROVE  Waits(s)' <=> \E i \in DOMAIN queue' : queue'[i] = s
    <2>1. Waits(s)' <=> \E i \in DOMAIN queue : queue[i] = s
      BY <1>3 DEF LockHandedOn, Waits, OnlyMoves, InLock
    <2>2. ASSUME NEW i \in DOMAIN queue, queue[i] = s
          PROVE  i - 1 \in DOMAIN queue' /\ queue'[i - 1] = s
      BY <1>1, <1>3, <2>2
    <2>3. ASSUME NEW i \in DOMAIN queue', queue'[i] = s
          PROVE  i + 1 \in DOMAIN queue /\ queue[i + 1] = s
      BY <1>1, <2>3
    <2>4. QED
      BY <2>1, <2>2, <2>3
  <1>4. \A i \in DOMAIN queue' : queue'[i] # r
    <2>1. SUFFICES ASSUME NEW i \in DOMAIN queue', queue'[i] = r PROVE FALSE
      OBVIOUS
    <2>2. i + 1 \in DOMAIN queue /\ 1 \in DOMAIN queue /\ queue[i + 1] = queue[1]
      BY <1>1, <2>1
    <2>3. i + 1 = 1
      BY <2>2 DEF LockHandedOn
    <2>4. QED
      BY <1>1, <2>1, <2>3
  <1>5. \A s \in Requests : Waits(s)' <=> \E i \in DOMAIN queue' : queue'[i] = s
    BY <1>3, <1>4
  <1>6. QED
    BY <1>2, <1>5 DEF LockHandedOn, Waits

\* Joining the queue: nobody is in it twice.
LEMMA QueueGrows ==
  ASSUME Shape, LockHandedOn, NEW r \in Requests, OnlyMoves(r), ~Waits(r),
         queue' = Append(queue, r), Waits(r)'
  PROVE  LockHandedOn'
  <1>1. /\ queue \in Seq(Requests) /\ Len(queue) \in Nat
        /\ Len(queue') = Len(queue) + 1 /\ queue'[Len(queue) + 1] = r
        /\ \A i \in 1..Len(queue) : queue'[i] = queue[i]
        /\ DOMAIN queue = 1..Len(queue) /\ DOMAIN queue' = 1..Len(queue')
    BY DEF Shape
  <1>2. \A i \in DOMAIN queue : queue[i] # r
    BY DEF LockHandedOn, Waits
  <1>3. \A i, j \in DOMAIN queue' : queue'[i] = queue'[j] => i = j
    <2>1. SUFFICES ASSUME NEW i \in DOMAIN queue', NEW j \in DOMAIN queue',
                          queue'[i] = queue'[j]
                   PROVE  i = j
      OBVIOUS
    <2>2. CASE i = Len(queue) + 1 \/ j = Len(queue) + 1
      BY <1>1, <1>2, <2>1, <2>2
    <2>3. CASE i # Len(queue) + 1 /\ j # Len(queue) + 1
      <3>1. i \in DOMAIN queue /\ j \in DOMAIN queue /\ queue[i] = queue[j]
        BY <1>1, <2>1, <2>3
      <3>2. QED
        BY <3>1 DEF LockHandedOn
    <2>4. QED
      BY <2>2, <2>3
  <1>4. ASSUME NEW s \in Requests, s # r
        PROVE  Waits(s)' <=> \E i \in DOMAIN queue' : queue'[i] = s
    <2>1. Waits(s)' <=> \E i \in DOMAIN queue : queue[i] = s
      BY <1>4 DEF LockHandedOn, Waits, OnlyMoves, InLock
    <2>2. \A i \in DOMAIN queue' : queue'[i] = s => i \in DOMAIN queue
      BY <1>1, <1>4
    <2>3. \A i \in DOMAIN queue : i \in DOMAIN queue' /\ queue'[i] = queue[i]
      BY <1>1
    <2>4. QED
      BY <2>1, <2>2, <2>3
  <1>5. \A s \in Requests : Waits(s)' <=> \E i \in DOMAIN queue' : queue'[i] = s
    BY <1>1, <1>4
  <1>6. QED
    BY <1>3, <1>5 DEF LockHandedOn, Waits

\* A turn keeps its request in the queue or takes it off.
LEMMA TurnHandsOn ==
  ASSUME IInv, LockHandedOn, NEW r \in Requests, Turn(r)
  PROVE  LockHandedOn'
  <1>1. First(r) /\ Waits(r) /\ OnlyMoves(r) /\ Shape
    <2>1. Shape /\ req \in [Requests -> Request]
      BY DEF IInv, Shape
    <2>2. QED
      BY <2>1 DEF Turn, Decides, ClaimAgain, ClaimTake, ClaimRefused, ClaimTooManyTakeovers,
         RenewKeep, RenewRegain, RenewDisplaced, ReleaseDrop, ReleaseNothing, TurnFails,
         Decide, AnswerWith, OnlyMoves, HasTurn, First, Waits
  <1>2. CASE ClaimAgain(r) \/ RenewKeep(r) \/ RenewRegain(r) \/ ReleaseDrop(r) \/ ClaimTake(r)
    <2>1. queue' = queue
      BY <1>2 DEF ClaimAgain, ClaimTake, RenewKeep, RenewRegain, ReleaseDrop, Decide
    <2>2. Waits(r)'
      BY <1>1, <1>2, TurnLeads DEF Waits, InLock, Locked
    <2>3. QED
      BY <1>1, <2>1, <2>2, QueueStays DEF OnlyMoves, Waits, InLock
  <1>3. CASE \/ ClaimRefused(r) \/ ClaimTooManyTakeovers(r) \/ RenewDisplaced(r)
             \/ ReleaseNothing(r) \/ TurnFails(r)
    <2>1. queue' = Tail(queue)
      BY <1>3 DEF ClaimRefused, ClaimTooManyTakeovers, RenewDisplaced, ReleaseNothing,
         TurnFails, AnswerWith
    <2>2. ~Waits(r)'
      BY <1>1, <1>3, TurnLeads DEF Waits, InLock, Locked
    <2>3. QED
      BY <1>1, <2>1, <2>2, QueueShrinks
  <1>4. QED
    BY <1>2, <1>3 DEF Turn, Decides

\* A write leads to the next, or takes its request off the queue.
LEMMA WriteHandsOn ==
  ASSUME IInv, LockHandedOn, NEW r \in Requests, Write(r)
  PROVE  LockHandedOn'
  <1>1. InLock(r) /\ NextWrite(r)
    BY DEF Write, DropSlots, MarkDisplaced, ForgetDisplaced, WriteHolder, InLock, Locked
  <1>2. /\ Shape /\ PathInv /\ First(r) /\ queue # <<>> /\ Waits(r)
        /\ req[r] \in Request /\ PathOK(req[r]) /\ req \in [Requests -> Request]
    BY <1>1 DEF IInv, Shape, PathInv, LockInv, First, Waits
  <1>3. OnlyMoves(r)
    BY <1>1, <1>2, NextWriteFits
  <1>4. CASE Writes[req[r].path][req[r].pc] = "done"
    <2>1. queue' = Tail(queue) /\ req'[r].pc \in {"idle", "answer"}
      <3>1. CASE req[r].op = "release"
        BY <1>1, <1>2, <1>4, <3>1 DEF NextWrite, Idle
      <3>2. CASE AnswerWith(r, "granted")
        BY <1>2, <3>2 DEF AnswerWith, Idle
      <3>3. QED
        BY <1>1, <1>4, <3>1, <3>2 DEF NextWrite
    <2>2. ~Waits(r)'
      BY <2>1 DEF Waits, InLock, Locked
    <2>3. QED
      BY <1>2, <1>3, <2>1, <2>2, QueueShrinks
  <1>5. CASE Writes[req[r].path][req[r].pc] # "done"
    <2>1. /\ queue' = queue
          /\ req'[r] = [req[r] EXCEPT !.pc = Writes[req[r].path][req[r].pc]]
      BY <1>1, <1>2, <1>5 DEF NextWrite
    <2>2. Writes[req[r].path][req[r].pc] \in Locked
      BY <1>1, <1>2, <1>5 DEF PathOK, Locked, Writes, Request, InLock
    <2>3. Waits(r)'
      BY <1>2, <2>1, <2>2 DEF Waits, InLock, Request
    <2>4. QED
      BY <1>2, <1>3, <2>1, <2>3, QueueStays DEF OnlyMoves, Waits, InLock
  <1>6. QED
    BY <1>4, <1>5

LEMMA HandsOn ==
  ASSUME IInv, LockHandedOn, [Next]_vars
  PROVE  LockHandedOn'
  <1>1. Shape /\ req \in [Requests -> Request]
    BY DEF IInv, Shape
  <1>2. ASSUME NEW r \in Requests,
               \/ \E d \in Sessions : Claim(r, d) \/ Renew(r, d) \/ Disconnect(r, d)
               \/ \E S \in SUBSET signedIn : SignOut(r, S)
               \/ Expire(r)
        PROVE  LockHandedOn'
    <2>1. ~Waits(r) /\ queue' = queue
      BY <1>2 DEF Claim, Renew, Disconnect, SignOut, Expire, IsIdle, Waits, InLock, Locked
    <2>2. OnlyMoves(r) /\ req'[r].pc \in {"read", "answer"}
      <3>1. ASSUME NEW d \in Sessions, Claim(r, d)
            PROVE  OnlyMoves(r) /\ req'[r].pc \in {"read", "answer"}
        BY <1>1, <3>1 DEF Claim, Started, Idle, OnlyMoves
      <3>2. ASSUME NEW d \in Sessions, Renew(r, d)
            PROVE  OnlyMoves(r) /\ req'[r].pc \in {"read", "answer"}
        BY <1>1, <3>2 DEF Renew, Started, Idle, OnlyMoves
      <3>3. ASSUME NEW d \in Sessions, Disconnect(r, d)
            PROVE  OnlyMoves(r) /\ req'[r].pc \in {"read", "answer"}
        BY <1>1, <3>3 DEF Disconnect, Started, Idle, OnlyMoves
      <3>4. ASSUME NEW S \in SUBSET signedIn, SignOut(r, S)
            PROVE  OnlyMoves(r) /\ req'[r].pc \in {"read", "answer"}
        BY <1>1, <3>4 DEF SignOut, Started, Idle, OnlyMoves
      <3>5. Expire(r) => OnlyMoves(r) /\ req'[r].pc \in {"read", "answer"}
        BY <1>1 DEF Expire, Started, Idle, OnlyMoves
      <3>6. QED
        BY <1>2, <3>1, <3>2, <3>3, <3>4, <3>5
    <2>3. ~Waits(r)'
      BY <2>2 DEF Waits, InLock, Locked
    <2>4. QED
      BY <2>1, <2>2, <2>3, QueueStays DEF OnlyMoves, Waits, InLock
  <1>3. ASSUME NEW r \in Requests, Answer(r) \/ AnswerLost(r)
        PROVE  LockHandedOn'
    <2>1. ~Waits(r) /\ queue' = queue /\ req' = [req EXCEPT ![r] = Idle]
      BY <1>3 DEF Answer, AnswerLost, Waits, InLock, Locked
    <2>2. OnlyMoves(r) /\ ~Waits(r)'
      BY <1>1, <2>1 DEF OnlyMoves, Waits, InLock, Locked, Idle
    <2>3. QED
      BY <2>1, <2>2, QueueStays DEF OnlyMoves, Waits, InLock
  <1>4. ASSUME NEW r \in Requests, Enqueue(r)
        PROVE  LockHandedOn'
    <2>1. ~Waits(r) /\ queue' = Append(queue, r) /\ OnlyMoves(r)
      BY <1>1, <1>4 DEF Enqueue, Waits, InLock, Locked, OnlyMoves
    <2>2. Waits(r)'
      BY <1>1, <1>4 DEF Enqueue, Waits, Request
    <2>3. QED
      BY <1>1, <2>1, <2>2, QueueGrows
  <1>5. CASE Restart
    <2>1. queue' = <<>> /\ \A r \in Requests : ~Waits(r)'
      BY <1>5 DEF Restart, Waits, Idle, InLock, Locked
    <2>2. QED
      BY <2>1 DEF LockHandedOn, Waits
  <1>6. ASSUME \/ \E d \in Sessions :
                    \/ DialUnclaimed(d) \/ SignIn(d) \/ Unauthorized(d)
                    \/ Vanish(d) \/ Traffic(d)
               \/ \E s \in OperatorSets : SetStatus(s)
               \/ \E l \in Limits : ChangeLimit(l)
               \/ Tick \/ StoreLost \/ DisplacedExpires \/ UNCHANGED vars
        PROVE  LockHandedOn'
    <2>1. UNCHANGED <<req, queue>>
      BY <1>6 DEF DialUnclaimed, SignIn, Unauthorized, Vanish, Traffic, SetStatus,
         ChangeLimit, Tick, StoreLost, DisplacedExpires, vars
    <2>2. QED
      BY <2>1, QueueStays DEF Waits, InLock
  <1>7. QED
    BY <1>2, <1>3, <1>4, <1>5, <1>6, TurnHandsOn, WriteHandsOn
    DEF Next, Disturb, Serve, Turn

-----------------------------------------------------------------------------
(***************************************************************************)
(* The theorems.                                                           *)
(***************************************************************************)
\* The invariant holds in every state the slots can reach.
THEOREM Invariant == Spec => []IInv
  BY InitIInv, NextIInv, PTL DEF Spec

\* The slots, the queue and the requests keep their shape.
THEOREM TypeCorrect == Spec => []TypeOK
  <1>1. IInv => TypeOK
    BY DEF IInv, LockInv, TypeOK
  <1>2. QED
    BY <1>1, Invariant, PTL

\* The lock's queue is made of those that wait for it or have it, each once,
\* however requests end: none leaves behind anything to wait for.
THEOREM LockAlwaysHandedOn == Spec => []LockHandedOn
  <1>1. Init => LockHandedOn
    BY DEF Init, LockHandedOn, InLock, Locked, Idle
  <1>2. IInv /\ LockHandedOn /\ [Next]_vars => LockHandedOn'
    BY HandsOn
  <1>3. QED
    BY <1>1, <1>2, Invariant, PTL DEF Spec

\* No more devices hold a slot than the largest limit the plan may have, for
\* any number of devices and requests and after every Redis call.
THEOREM SlotLimitHolds == Spec => []SlotLimit
  <1>1. IInv => SlotLimit
    BY DEF IInv
  <1>2. QED
    BY <1>1, Invariant, PTL

\* No holder is ever on record as displaced.
THEOREM NoDisplacedHolderHolds == Spec => []NoDisplacedHolder
  <1>1. IInv => NoDisplacedHolder
    BY DEF IInv
  <1>2. QED
    BY <1>1, Invariant, PTL

\* A device that is let in finds room under the limit its request read.
THEOREM GrantsFit == Spec => GrantWithinLimit
  <1>1. ASSUME IInv, [Next]_vars, NEW r \in Requests,
               req[r].pc = "write", req'[r].pc # "write",
               req[r].who \in holders' \ holders
        PROVE  Cardinality(holders') <= req[r].limit
    <2>1. PICK s \in Requests : WriteHolder(s)
      BY <1>1, OnlyWritesAdd
    <2>2. s = r
      BY <1>1, <2>1 DEF IInv, LockInv, InLock, Locked, WriteHolder
    <2>3. holders' = holders \cup {req[r].who}
      BY <2>1, <2>2 DEF WriteHolder
    <2>4. QED
      BY <1>1, <2>3, RoomToWrite
  <1>2. IInv /\ [Next]_vars =>
          [\A r \in Requests :
             /\ req[r].pc = "write" /\ req'[r].pc # "write"
             /\ req[r].who \in holders' \ holders
             => Cardinality(holders') <= req[r].limit]_vars
    BY <1>1
  <1>3. QED
    BY <1>2, Invariant, PTL DEF Spec, GrantWithinLimit

\* A takeover displaces as many devices as it takes to make one place.
THEOREM TakeoversAreExact == Spec => OnlyAsManyAsItTakes
  <1>1. ASSUME IInv, [Next]_vars, NEW r \in Requests,
               req[r].pc = "queued", req'[r].pc = "drop", req'[r].taken # {}
        PROVE  Cardinality(holders \ req'[r].drop) = req[r].limit - 1
    <2>1. Turn(r) /\ Shape /\ req[r] \in Request
      BY <1>1, QueuedMoves DEF IInv, Shape
    <2>2. PICK T \in TakeoverChoices(r) :
            /\ RoomAfter(r, T)
            /\ req'[r].drop = holders \ (LiveHolders \ T)
            /\ req'[r].taken = T
      <3>1. CASE ClaimTake(r)
        BY <2>1, <3>1 DEF ClaimTake, Decide, Shape, Request
      <3>2. QED
        BY <1>1, <2>1, <3>1, TurnLeads DEF Turn, Decides
    <2>3. holders \ req'[r].drop = LiveHolders \ T
      BY <2>2 DEF LiveHolders
    <2>4. QED
      BY <1>1, <2>1, <2>2, <2>3, Takeovers
  <1>2. IInv /\ [Next]_vars =>
          [\A r \in Requests :
             /\ req[r].pc = "queued" /\ req'[r].pc = "drop"
             /\ req'[r].taken # {}
             => Cardinality(holders \ req'[r].drop) = req[r].limit - 1]_vars
    BY <1>1
  <1>3. QED
    BY <1>2, Invariant, PTL DEF Spec, OnlyAsManyAsItTakes

\* A device is only ever stopped when the plan is full of other devices.
THEOREM StoppedOnlyWhenFull == Spec => NeverStoppedWithRoom
  <1>1. ASSUME IInv, [Next]_vars, NEW r \in Requests,
               req[r].pc = "queued", req'[r].pc = "answer",
               req'[r].out = "refused"
        PROVE  /\ req[r].who \notin holders
               /\ Cardinality({d \in holders : d \in signedIn
                                               /\ quiet[d] <= StaleAfter})
                    >= req[r].limit
    <2>1. Turn(r) /\ Shape /\ req[r] \in Request
      BY <1>1, QueuedMoves DEF IInv, Shape
    <2>2. ~ClaimAgain(r) /\ ~ClaimTake(r) /\ ~RenewKeep(r) /\ ~RenewRegain(r)
          /\ ~ReleaseDrop(r) /\ ~ReleaseNothing(r) /\ ~TurnFails(r)
      BY <1>1, <2>1, TurnLeads
    <2>3. req[r].who \notin holders
      BY <2>1, <2>2 DEF Turn, Decides, ClaimRefused, ClaimTooManyTakeovers,
           RenewDisplaced
    <2>4. Cardinality(LiveHolders) >= req[r].limit
      <3>1. CASE ClaimRefused(r) \/ ClaimTooManyTakeovers(r)
        BY <2>1, <3>1, Takeovers DEF ClaimRefused, ClaimTooManyTakeovers
      <3>2. CASE RenewDisplaced(r)
        <4>1. ~(Cardinality(LiveHolders \ {}) < req[r].limit)
          BY <3>2 DEF RenewDisplaced, RoomAfter
        <4>2. LiveHolders \ {} = LiveHolders
          OBVIOUS
        <4>3. Cardinality(LiveHolders) \in Nat /\ req[r].limit \in Nat
          BY <2>1, SessionSets, LimitsAssumption
          DEF LiveHolders, Shape, Request
        <4>4. QED
          BY <4>1, <4>2, <4>3
      <3>3. QED
        BY <2>1, <2>2, <3>1, <3>2 DEF Turn, Decides
    <2>5. LiveHolders = {d \in holders : d \in signedIn
                                        /\ quiet[d] <= StaleAfter}
      BY DEF LiveHolders
    <2>6. QED
      BY <2>3, <2>4, <2>5
  <1>2. IInv /\ [Next]_vars =>
          [\A r \in Requests :
             /\ req[r].pc = "queued" /\ req'[r].pc = "answer"
             /\ req'[r].out = "refused"
             => /\ req[r].who \notin holders
                /\ Cardinality({d \in holders : d \in signedIn
                                               /\ quiet[d] <= StaleAfter})
                     >= req[r].limit]_vars
    BY <1>1
  <1>3. QED
    BY <1>2, Invariant, PTL DEF Spec, NeverStoppedWithRoom
\* The invariant with the two parts about releases.
THEOREM LateInvariant == Spec => []SlotInv
  <1>1. Init => SlotInv
    <2>1. Init => NameInv /\ LateInv
      BY IdleNamesNothing DEF Init, NameInv, NameOK, LateInv
    <2>2. QED
      BY <2>1, InitIInv DEF SlotInv
  <1>2. SlotInv /\ [Next]_vars => SlotInv'
    BY NextIInv, LateSafe DEF SlotInv
  <1>3. QED
    BY <1>1, <1>2, PTL DEF Spec

\* A release that was sent before its device's latest grant frees no slot,
\* however many requests are in flight and whatever overtakes it.
THEOREM LateReleasesFreeNothing == Spec => LateReleaseFreesNothing
  <1>1. ASSUME SlotInv, [Next]_vars, NEW r \in late, req[r].pc = "drop",
               req'[r].pc # "drop"
        PROVE  holders' = holders
    <2>1. IInv /\ r \in Requests /\ req[r].names = {} /\ LateOK(req[r])
      BY <1>1, LateIs DEF SlotInv, LateInv, NameInv, NameOK
    <2>2. req[r].drop \cap holders = {}
      BY <1>1, <2>1 DEF LateOK
    <2>3. CASE Restart
      BY <2>3 DEF Restart, store
    <2>4. ASSUME NEW s \in Requests, OnlyMoves(s),
                 \/ IsIdle(s) \/ Enqueue(s) \/ Turn(s) \/ Write(s)
                 \/ Answer(s) \/ AnswerLost(s)
          PROVE  holders' = holders
      <3>1. s = r
        BY <1>1, <2>1, <2>4 DEF OnlyMoves
      <3>2. ~IsIdle(r) /\ ~Enqueue(r) /\ ~Turn(r) /\ ~Answer(r) /\ ~AnswerLost(r)
        BY <1>1 DEF IsIdle, Enqueue, Answer, AnswerLost, Turn, Decides, ClaimAgain, ClaimTake,
           ClaimRefused, ClaimTooManyTakeovers, RenewKeep, RenewRegain, RenewDisplaced,
           ReleaseDrop, ReleaseNothing, TurnFails, HasTurn
      <3>3. DropSlots(r)
        BY <1>1, <2>4, <3>1, <3>2 DEF Write, MarkDisplaced, ForgetDisplaced, WriteHolder
      <3>4. QED
        BY <2>2, <3>3 DEF DropSlots
    <2>5. QED
      BY <1>1, <2>1, <2>3, <2>4, OneMoves
  <1>2. SlotInv /\ [Next]_vars =>
          [\A r \in late : req[r].pc = "drop" /\ req'[r].pc # "drop"
                           => holders' = holders]_vars
    BY <1>1
  <1>3. QED
    BY <1>2, LateInvariant, PTL DEF Spec, LateReleaseFreesNothing

=============================================================================
