--------------------------- MODULE SlotSetProofs ---------------------------
(***************************************************************************)
(* DeviceSlots implements SlotSet, for any number of devices, requests and  *)
(* handles and any limits: the four Redis calls of a takeover, with other   *)
(* requests waiting, sessions revoked and the backend restarted between     *)
(* them, come to the one displacement and the one entry that SlotSet has.   *)
(*                                                                         *)
(* IInv says that a takeover leaves room for its device.  That it displaces *)
(* only holders, and just as many as that takes, is known when it decides   *)
(* (Takeovers); TakenInv carries it on to the call that drops them.         *)
(***************************************************************************)
EXTENDS DeviceSlotsProofs

\* Only a takeover takes slots from others, and until it has dropped them they
\* are holders, as many as it takes to make one place.
TakenOK(q) ==
  /\ q.pc \in Locked /\ q.path # "take" => q.taken = {}
  /\ q.pc = "drop" /\ q.taken # {} =>
       /\ q.taken \subseteq q.drop /\ q.drop \subseteq holders
       /\ Cardinality(holders \ q.drop) = q.limit - 1

TakenInv == \A r \in Requests : TakenOK(req[r])

-----------------------------------------------------------------------------
(***************************************************************************)
(* What one step may do.                                                   *)
(***************************************************************************)
\* A write of the request in the lock moves nobody else, and nobody else is
\* in it.
LEMMA WriteAlone ==
  ASSUME IInv, NEW r \in Requests, Write(r)
  PROVE  OnlyMoves(r) /\ \A s \in Requests \ {r} : ~InLock(s)
  <1>1. req \in [Requests -> Request]
    BY DEF IInv, Shape
  <1>2. OnlyMoves(r)
    BY <1>1 DEF Write, DropSlots, MarkDisplaced, ForgetDisplaced, WriteHolder,
         NextWrite, AnswerWith, OnlyMoves
  <1>3. InLock(r)
    BY DEF Write, DropSlots, MarkDisplaced, ForgetDisplaced, WriteHolder, InLock,
           Locked
  <1>4. QED
    BY <1>2, <1>3 DEF IInv, LockInv

\* A request enters the lock, or goes on in it, only in a turn or a write of
\* its own.
LEMMA EntersByTurn ==
  ASSUME IInv, [Next]_vars, NEW r \in Requests
  PROVE  req'[r] = req[r] \/ req'[r].pc \notin Locked \/ Turn(r) \/ Write(r)
  <1>1. req \in [Requests -> Request]
    BY DEF IInv, Shape
  <1>2. ASSUME NEW s \in Requests,
               \/ \E d \in Sessions : Claim(s, d) \/ Renew(s, d)
                                      \/ Disconnect(s, d)
               \/ \E S \in SUBSET signedIn : SignOut(s, S)
               \/ Expire(s)
        PROVE  req'[r] = req[r] \/ req'[r].pc \notin Locked
    <2>1. ASSUME NEW d \in Sessions, Claim(s, d)
          PROVE  OnlyMoves(s) /\ req'[s].pc \in {"read", "answer"}
      BY <1>1, <2>1 DEF Claim, Started, Idle, OnlyMoves
    <2>2. ASSUME NEW d \in Sessions, Renew(s, d)
          PROVE  OnlyMoves(s) /\ req'[s].pc \in {"read", "answer"}
      BY <1>1, <2>2 DEF Renew, Started, Idle, OnlyMoves
    <2>3. ASSUME NEW d \in Sessions, Disconnect(s, d)
          PROVE  OnlyMoves(s) /\ req'[s].pc \in {"read", "answer"}
      BY <1>1, <2>3 DEF Disconnect, Started, Idle, OnlyMoves
    <2>4. ASSUME NEW S \in SUBSET signedIn, SignOut(s, S)
          PROVE  OnlyMoves(s) /\ req'[s].pc \in {"read", "answer"}
      BY <1>1, <2>4 DEF SignOut, Started, Idle, OnlyMoves
    <2>5. ASSUME Expire(s)
          PROVE  OnlyMoves(s) /\ req'[s].pc \in {"read", "answer"}
      BY <1>1, <2>5 DEF Expire, Started, Idle, OnlyMoves
    <2>6. QED
      BY <1>2, <2>1, <2>2, <2>3, <2>4, <2>5 DEF OnlyMoves, Locked
  <1>3. ASSUME NEW s \in Requests, Enqueue(s) \/ Answer(s) \/ AnswerLost(s)
        PROVE  req'[r] = req[r] \/ req'[r].pc \notin Locked
    <2>1. CASE Enqueue(s)
      BY <1>1, <2>1 DEF Enqueue, Locked, Request
    <2>2. CASE Answer(s) \/ AnswerLost(s)
      BY <1>1, <2>2, IdleFits DEF Answer, AnswerLost
    <2>3. QED
      BY <1>3, <2>1, <2>2
  <1>4. ASSUME NEW s \in Requests, Turn(s) \/ Write(s)
        PROVE  req'[r] = req[r] \/ Turn(r) \/ Write(r)
    <2>1. CASE Turn(s) /\ s # r
      BY <1>1, <2>1 DEF Turn, Decides, ClaimAgain, ClaimTake, ClaimRefused,
           ClaimTooManyTakeovers, RenewKeep, RenewRegain, RenewDisplaced,
           ReleaseDrop, ReleaseNothing, TurnFails, Decide, AnswerWith
    <2>2. CASE Write(s) /\ s # r
      BY <2>2, WriteAlone DEF OnlyMoves
    <2>3. QED
      BY <1>4, <2>1, <2>2
  <1>5. CASE Restart
    BY <1>1, <1>5, IdleFits DEF Restart
  <1>6. ASSUME \/ \E d \in Sessions :
                    \/ DialUnclaimed(d) \/ SignIn(d) \/ Unauthorized(d)
                    \/ Vanish(d) \/ Traffic(d)
               \/ \E s \in OperatorSets : SetStatus(s)
               \/ \E l \in Limits : ChangeLimit(l)
               \/ Tick \/ StoreLost \/ DisplacedExpires \/ UNCHANGED vars
        PROVE  req'[r] = req[r]
    BY <1>6 DEF DialUnclaimed, SignIn, Unauthorized, Vanish, Traffic,
         SetStatus, ChangeLimit, Tick, StoreLost, DisplacedExpires, vars
  <1>7. QED
    BY <1>2, <1>3, <1>4, <1>5, <1>6 DEF Next, Disturb, Serve, Turn

\* Without a write, and with Redis there, no slot changes hands and nobody is
\* put on record.
LEMMA OnlyWritesChange ==
  ASSUME IInv, [Next]_vars, \A r \in Requests : ~Write(r), ~StoreLost
  PROVE  holders' = holders /\ displaced' \subseteq displaced
  <1> USE DEF store
  <1>1. ASSUME NEW r \in Requests, Turn(r)
        PROVE  UNCHANGED <<holders, displaced>>
    BY <1>1 DEF Turn, Decides, ClaimAgain, ClaimTake, ClaimRefused,
         ClaimTooManyTakeovers, RenewKeep, RenewRegain, RenewDisplaced,
         ReleaseDrop, ReleaseNothing, TurnFails
  <1>2. ASSUME NEW r \in Requests,
               \/ \E d \in Sessions : Claim(r, d) \/ Renew(r, d)
                                      \/ Disconnect(r, d)
               \/ \E S \in SUBSET signedIn : SignOut(r, S)
               \/ Expire(r) \/ Enqueue(r) \/ Answer(r) \/ AnswerLost(r)
        PROVE  UNCHANGED <<holders, displaced>>
    BY <1>2 DEF Claim, Renew, Disconnect, SignOut, Expire, Enqueue, Answer,
         AnswerLost
  <1>3. ASSUME \/ \E d \in Sessions :
                    \/ DialUnclaimed(d) \/ SignIn(d) \/ Unauthorized(d)
                    \/ Vanish(d) \/ Traffic(d)
               \/ \E s \in OperatorSets : SetStatus(s)
               \/ \E l \in Limits : ChangeLimit(l)
               \/ Tick \/ Restart \/ DisplacedExpires \/ UNCHANGED vars
        PROVE  holders' = holders /\ displaced' \subseteq displaced
    BY <1>3 DEF DialUnclaimed, SignIn, Unauthorized, Vanish, Traffic,
         SetStatus, ChangeLimit, Tick, DisplacedExpires, Restart, vars
  <1>4. QED
    BY <1>1, <1>2, <1>3 DEF Next, Disturb, Serve, Turn

-----------------------------------------------------------------------------
(***************************************************************************)
(* TakenInv is inductive, given IInv.                                      *)
(***************************************************************************)
\* A decision leaves its request with what it decided.
LEMMA Decided ==
  ASSUME Shape, NEW r \in Requests, NEW path, NEW first, NEW drop, NEW taken,
         Decide(r, path, first, drop, taken)
  PROVE  /\ req'[r].path = path /\ req'[r].pc = first /\ req'[r].drop = drop
         /\ req'[r].taken = taken /\ req'[r].limit = req[r].limit
  BY DEF Decide, Shape, Request

\* A takeover that is decided on takes as many holders as it needs.
LEMMA TurnTakes ==
  ASSUME IInv, NEW r \in Requests, Turn(r)
  PROVE  TakenOK(req[r])'
  <1>1. Shape /\ holders' = holders
    BY DEF IInv, Turn, Decides, ClaimAgain, ClaimTake, ClaimRefused,
         ClaimTooManyTakeovers, RenewKeep, RenewRegain, RenewDisplaced,
         ReleaseDrop, ReleaseNothing, TurnFails, store
  <1>2. CASE ClaimTake(r)
    <2>1. PICK T \in TakeoverChoices(r) :
            /\ RoomAfter(r, T)
            /\ Decide(r, "take", "drop", holders \ (LiveHolders \ T), T)
      BY <1>2 DEF ClaimTake
    <2>2. /\ req'[r].path = "take" /\ req'[r].taken = T
          /\ req'[r].drop = holders \ (LiveHolders \ T)
          /\ req'[r].limit = req[r].limit
      BY <1>1, <2>1, Decided
    <2>3. T \subseteq LiveHolders /\ LiveHolders \subseteq holders
      BY DEF TakeoverChoices, Named, LiveHolders
    <2>4. holders \ req'[r].drop = LiveHolders \ T
      BY <2>2, <2>3
    <2>5. T # {} => Cardinality(LiveHolders \ T) = req[r].limit - 1
      BY <1>1, <2>1, Takeovers
    <2>6. QED
      BY <1>1, <2>2, <2>3, <2>4, <2>5 DEF TakenOK
  <1>3. CASE ClaimAgain(r) \/ RenewKeep(r) \/ RenewRegain(r) \/ ReleaseDrop(r)
    <2>1. req'[r].taken = {}
      BY <1>1, <1>3, Decided DEF ClaimAgain, RenewKeep, RenewRegain, ReleaseDrop
    <2>2. QED
      BY <2>1 DEF TakenOK
  <1>4. CASE \/ ClaimRefused(r) \/ ClaimTooManyTakeovers(r) \/ RenewDisplaced(r)
             \/ ReleaseNothing(r) \/ TurnFails(r)
    <2>1. req'[r].pc \in {"answer", "idle"}
      BY <1>1, <1>4, TurnLeads
    <2>2. QED
      BY <2>1 DEF TakenOK, Locked
  <1>5. QED
    BY <1>2, <1>3, <1>4 DEF Turn, Decides

\* A write goes on to the next one of its decision, or leaves the lock.
LEMMA WriteGoesOn ==
  ASSUME IInv, NEW r \in Requests, Write(r)
  PROVE  \/ req'[r].pc \notin Locked
         \/ /\ req'[r].path = req[r].path /\ req'[r].taken = req[r].taken
            /\ req'[r].pc = Writes[req[r].path][req[r].pc]
  <1>1. req \in [Requests -> Request] /\ req[r] \in Request
    BY DEF IInv, Shape
  <1>2. NextWrite(r)
    BY DEF Write, DropSlots, MarkDisplaced, ForgetDisplaced, WriteHolder
  <1>3. CASE Writes[req[r].path][req[r].pc] # "done"
    <2>1. req' = [req EXCEPT ![r].pc = Writes[req[r].path][req[r].pc]]
      BY <1>2, <1>3 DEF NextWrite
    <2>2. QED
      BY <1>1, <2>1 DEF Request
  <1>4. CASE Writes[req[r].path][req[r].pc] = "done"
    <2>1. CASE AnswerWith(r, "granted")
      BY <1>1, <2>1 DEF AnswerWith, Idle, Locked
    <2>2. CASE req' = [req EXCEPT ![r] = Idle]
      BY <1>1, <2>2, IdleFits
    <2>3. QED
      BY <1>2, <1>4, <2>1, <2>2 DEF NextWrite
  <1>5. QED
    BY <1>3, <1>4

LEMMA TakenKept ==
  ASSUME IInv, TakenInv, [Next]_vars
  PROVE  TakenInv'
  <1> SUFFICES ASSUME NEW r \in Requests PROVE TakenOK(req[r])'
    BY DEF TakenInv
  <1>0. TakenOK(req[r])
    BY DEF TakenInv
  <1>1. CASE Turn(r)
    BY <1>1, TurnTakes
  <1>2. CASE Write(r)
    <2>1. CASE req'[r].pc \notin Locked
      BY <2>1 DEF TakenOK, Locked
    <2>2. CASE /\ req'[r].path = req[r].path /\ req'[r].taken = req[r].taken
               /\ req'[r].pc = Writes[req[r].path][req[r].pc]
      <3>1. InLock(r) /\ PathOK(req[r])
        BY <1>2 DEF IInv, PathInv, Write, DropSlots, MarkDisplaced,
             ForgetDisplaced, WriteHolder, InLock, Locked
      <3>2. req[r].path = "take" => req'[r].pc # "drop"
        BY <2>2, <3>1, WriteOrder DEF PathOK, InLock, Locked
      <3>3. QED
        BY <1>0, <2>2, <3>1, <3>2 DEF TakenOK, InLock
    <2>3. QED
      BY <1>2, <2>1, <2>2, WriteGoesOn
  <1>3. CASE req'[r].pc \notin Locked
    BY <1>3 DEF TakenOK, Locked
  <1>4. CASE req'[r] = req[r] /\ ~Turn(r) /\ ~Write(r)
    <2>1. ASSUME req[r].pc = "drop" PROVE holders' = holders
      <3>1. InLock(r)
        BY <2>1 DEF InLock, Locked
      <3>2. \A s \in Requests : ~Write(s)
        BY <1>4, <3>1, WriteAlone
      <3>3. ~StoreLost
        BY <3>1 DEF StoreLost
      <3>4. QED
        BY <3>2, <3>3, OnlyWritesChange
    <2>2. QED
      BY <1>0, <1>4, <2>1 DEF TakenOK
  <1>5. QED
    BY <1>1, <1>2, <1>3, <1>4, EntersByTurn

LEMMA TakenAtFirst == Init => TakenInv
  BY IdleFits DEF Init, TakenInv, TakenOK, Idle

-----------------------------------------------------------------------------
(***************************************************************************)
(* Every step is a step of SlotSet, or none.                               *)
(***************************************************************************)
\* Those being marked are the ones the request in the lock has just dropped.
LEMMA MarkedByOne ==
  ASSUME IInv, NEW r \in Requests, Write(r)
  PROVE  /\ BeingMarked = (IF req[r].pc = "mark" THEN req[r].taken ELSE {})
         /\ BeingMarked' = (IF req'[r].pc = "mark" THEN req'[r].taken ELSE {})
  <1>1. \A s \in Requests \ {r} : req[s].pc # "mark" /\ req'[s].pc # "mark"
    BY WriteAlone DEF OnlyMoves, InLock, Locked
  <1>2. QED
    BY <1>1 DEF BeingMarked

\* The devices that are displaced, or about to be, are the customer's.
LEMMA ShutIn == Shape => displaced \cup BeingMarked \in SUBSET Sessions
  BY DEF Shape, Request, BeingMarked

\* SlotSet counts as DeviceSlots does.
LEMMA SameCount == \A S : Promised!Cardinality(S) = Cardinality(S)
  BY DEF Promised!Cardinality, Cardinality

LEMMA DropIs ==
  ASSUME IInv, TakenInv, NEW r \in Requests, DropSlots(r)
  PROVE  Promised!Next
  <1>1. /\ Write(r) /\ req[r] \in Request /\ PathOK(req[r]) /\ TakenOK(req[r])
        /\ req[r].pc = "drop" /\ holders \in SUBSET Sessions /\ InLock(r)
    BY DEF IInv, Shape, PathInv, TakenInv, DropSlots, Write, InLock, Locked
  <1>2. /\ holders' = holders \ req[r].drop /\ displaced' = displaced
        /\ req[r].drop \in SUBSET Sessions /\ req[r].limit \in Limits
    BY <1>1 DEF DropSlots, Request
  <1>3. BeingMarked = {}
    BY <1>1, MarkedByOne
  <1>4. CASE req[r].taken = {}
    <2>1. BeingMarked' = {}
      <3>1. req'[r].pc # "mark" \/ req'[r].taken = {}
        BY <1>1, <1>4, WriteGoesOn DEF Locked
      <3>2. QED
        BY <1>1, <3>1, MarkedByOne
    <2>2. Promised!Leave(req[r].drop)
      BY <1>2, <1>3, <2>1 DEF Promised!Leave
    <2>3. QED
      BY <1>2, <2>2 DEF Promised!Next
  <1>5. CASE req[r].taken # {}
    <2>1. req[r].path = "take"
      BY <1>1, <1>5 DEF TakenOK, InLock
    <2>2. req'[r].pc = "mark" /\ req'[r].taken = req[r].taken
      <3>1. req' = [req EXCEPT ![r].pc = "mark"]
        BY <1>1, <2>1, WriteOrder DEF DropSlots, NextWrite
      <3>2. QED
        BY <1>1, <3>1 DEF IInv, Shape, Request
    <2>3. BeingMarked' = req[r].taken
      BY <1>1, <2>2, MarkedByOne
    <2>4. /\ req[r].taken \subseteq req[r].drop /\ req[r].drop \subseteq holders
          /\ Cardinality(holders \ req[r].drop) = req[r].limit - 1
      BY <1>1, <1>5 DEF TakenOK
    <2>5. Promised!Displace(req[r].drop, req[r].taken)
      BY <1>2, <1>3, <1>5, <2>3, <2>4, SameCount DEF Promised!Displace
    <2>6. QED
      BY <1>2, <2>4, <2>5 DEF Promised!Next
  <1>6. QED
    BY <1>4, <1>5

LEMMA MarkIs ==
  ASSUME IInv, NEW r \in Requests, MarkDisplaced(r)
  PROVE  UNCHANGED <<holders, displaced \cup BeingMarked>>
  <1>1. Write(r) /\ req[r].pc = "mark" /\ PathOK(req[r])
    BY DEF IInv, PathInv, MarkDisplaced, Write
  <1>2. req[r].path = "take"
    BY <1>1 DEF PathOK, Locked
  <1>3. req'[r].pc # "mark"
    BY <1>1, <1>2, WriteOrder, WriteGoesOn DEF Locked
  <1>4. BeingMarked = req[r].taken /\ BeingMarked' = {}
    BY <1>1, <1>3, MarkedByOne
  <1>5. holders' = holders /\ displaced' = displaced \cup req[r].taken
    BY DEF MarkDisplaced
  <1>6. QED
    BY <1>4, <1>5

LEMMA ForgetIs ==
  ASSUME IInv, NEW r \in Requests, ForgetDisplaced(r)
  PROVE  Promised!Next
  <1>1. /\ Write(r) /\ req[r].pc = "forget" /\ PathOK(req[r])
        /\ req[r] \in Request
    BY DEF IInv, Shape, PathInv, ForgetDisplaced, Write
  <1> DEFINE S == IF req[r].op = "release" THEN req[r].drop ELSE {req[r].who}
  <1>2. S \in SUBSET Sessions
    BY <1>1 DEF PathOK, Locked, Request
  <1>3. req'[r].pc # "mark"
    BY <1>1, WriteOrder, WriteGoesOn DEF PathOK, Locked
  <1>4. BeingMarked = {} /\ BeingMarked' = {}
    BY <1>1, <1>3, MarkedByOne
  <1>5. holders' = holders /\ displaced' = displaced \ S
    BY DEF ForgetDisplaced
  <1>6. Promised!Forgive(S)
    BY <1>4, <1>5 DEF Promised!Forgive
  <1>7. QED
    BY <1>2, <1>6 DEF Promised!Next

LEMMA WriteIs ==
  ASSUME IInv, NEW r \in Requests, WriteHolder(r)
  PROVE  [Promised!Next]_<<holders, displaced \cup BeingMarked>>
  <1> DEFINE d == req[r].who
  <1>1. /\ Write(r) /\ req[r].pc = "write" /\ PathOK(req[r]) /\ RoomOK(req[r])
        /\ holders' = holders \cup {d} /\ displaced' = displaced
    BY DEF IInv, PathInv, RoomInv, InLock, Locked, WriteHolder, Write
  <1>2. d \in Sessions /\ d \notin displaced /\ req[r].limit \in Limits
    BY <1>1, RoomToWrite
  <1>3. req'[r].pc # "mark"
    BY <1>1, WriteOrder, WriteGoesOn DEF PathOK, Locked
  <1>4. BeingMarked = {} /\ BeingMarked' = {}
    BY <1>1, <1>3, MarkedByOne
  <1>5. CASE d \in holders
    BY <1>1, <1>4, <1>5
  <1>6. CASE d \notin holders
    <2>1. Cardinality(holders) < req[r].limit
      <3>1. /\ holders \cap req[r].drop = {}
            /\ Cardinality(holders \ req[r].drop) < req[r].limit
        BY <1>1, <1>6 DEF RoomOK, PathOK, Locked
      <3>2. holders \ req[r].drop = holders
        BY <3>1
      <3>3. QED
        BY <3>1, <3>2
    <2>2. Promised!Enter(d)
      BY <1>1, <1>2, <1>4, <1>6, <2>1, SameCount DEF Promised!Enter
    <2>3. QED
      BY <1>2, <2>2 DEF Promised!Next
  <1>7. QED
    BY <1>5, <1>6

\* Nothing but a turn of the lock leads to a mark, and that by way of a drop.
LEMMA NobodyNewMarked ==
  ASSUME IInv, [Next]_vars, \A r \in Requests : ~Write(r)
  PROVE  BeingMarked' \subseteq BeingMarked
  <1>1. ASSUME NEW r \in Requests, req'[r].pc = "mark" PROVE req'[r] = req[r]
    <2>1. ~Turn(r)
      BY <1>1, TurnLeads DEF IInv, Turn, Decides
    <2>2. QED
      BY <1>1, <2>1, EntersByTurn DEF Locked
  <1>2. QED
    BY <1>1 DEF BeingMarked

LEMMA StepIs ==
  ASSUME IInv, TakenInv, [Next]_vars
  PROVE  [Promised!Next]_<<holders, displaced \cup BeingMarked>>
  <1>1. CASE \E r \in Requests : Write(r)
    BY <1>1, DropIs, MarkIs, ForgetIs, WriteIs DEF Write
  <1>2. CASE StoreLost
    <2>1. holders' = {} /\ displaced' = {} /\ req' = req
      BY <1>2 DEF StoreLost
    <2>2. BeingMarked' = {}
      BY <1>2, <2>1 DEF StoreLost, BeingMarked, InLock, Locked
    <2>3. QED
      BY <2>1, <2>2 DEF Promised!Next, Promised!Lose
  <1>3. CASE (\A r \in Requests : ~Write(r)) /\ ~StoreLost
    <2>1. /\ holders' = holders /\ displaced' \subseteq displaced
          /\ BeingMarked' \subseteq BeingMarked
      BY <1>3, OnlyWritesChange, NobodyNewMarked
    <2> DEFINE S == (displaced \cup BeingMarked) \ (displaced \cup BeingMarked)'
    <2>2. S \in SUBSET Sessions
      BY ShutIn DEF IInv
    <2>3. Promised!Forgive(S)
      BY <2>1 DEF Promised!Forgive
    <2>4. QED
      BY <2>2, <2>3 DEF Promised!Next
  <1>4. QED
    BY <1>1, <1>2, <1>3

LEMMA InitIs == Init => Promised!Init
  BY IdleFits DEF Init, Promised!Init, BeingMarked, Locked

-----------------------------------------------------------------------------
\* What a takeover displaces is settled when it is decided, and carried out to
\* the letter.
THEOREM TakenInvariant == Spec => []TakenInv
  BY TakenAtFirst, TakenKept, Invariant, PTL DEF Spec

\* The requests, their lock and their Redis calls implement a set of devices
\* in use, which one enters while there is room, and from which devices are
\* displaced only to make room for one, on every plan and however the calls
\* of one request fall among everything else.
THEOREM Refinement == Spec => ImplementsSlotSet
  <1>1. Init => Promised!Init
    BY InitIs
  <1>2. IInv /\ TakenInv /\ [Next]_vars
          => [Promised!Next]_<<holders, displaced \cup BeingMarked>>
    BY StepIs
  <1>3. QED
    BY <1>1, <1>2, Invariant, TakenInvariant, PTL
    DEF Spec, ImplementsSlotSet, Promised!Spec

=============================================================================
