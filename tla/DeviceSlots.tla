---------------------------- MODULE DeviceSlots ----------------------------
(***************************************************************************)
(* The device slots of one subscription: how the backend decides which of  *)
(* a customer's signed-in devices may use the VPN at the same time         *)
(* (apps/backend/src/modules/device-slots/device-slots.service.ts and the  *)
(* client's half of the contract in docs/device-slots.md).                 *)
(*                                                                         *)
(* A device is its session.  Every operation is a request that first reads *)
(* the database (session, status, limit), then waits its turn on the       *)
(* subscription's KeyedLock, then reads and writes the Redis hashes one    *)
(* call at a time.  Nothing else in the system is locked: sessions are     *)
(* revoked, subscriptions suspended, limits changed and traffic reported   *)
(* between any two of those steps, and the backend may restart there.      *)
(*                                                                         *)
(* Time is relative: quiet[d] is how long ago holder d was last renewed or *)
(* seen carrying traffic, in ticks, and stops counting one tick past       *)
(* StaleAfter, beyond which the code does not tell values apart.           *)
(***************************************************************************)
EXTENDS Integers, Sequences, FiniteSets

CONSTANTS Sessions,    \* the customer's devices, by session id
          NoSession,   \* the session of a request that has none
          Requests,    \* how many operations may be in flight (a bound)
          Grants,      \* handles a session may be granted (a bound)
          Limits,      \* values the plan's limit may take
          StaleAfter,  \* STALE_MS, in ticks
          OperatorSets \* statuses an operator sets by hand in this instance

Unlimited == 0

\* The limit of a plan that does not limit devices is written 0 here.
ASSUME SessionsAssumption == IsFiniteSet(Sessions) /\ NoSession \notin Sessions
ASSUME GrantsAssumption == Grants \subseteq Nat \ {0}
ASSUME LimitsAssumption == Limits \subseteq Nat /\ Limits # {}
ASSUME StaleAssumption == StaleAfter \in Nat
ASSUME OperatorAssumption == OperatorSets \subseteq {"ACTIVE", "SUSPENDED"}

VARIABLES
  signedIn,    \* sessions not revoked                         (Postgres)
  status,      \* the subscription's status                    (Postgres)
  limit,       \* its plan's maxConcurrentConnections          (Postgres)
  holders,     \* sessions in slots:<subscription>             (Redis)
  handle,      \* the handle each holder was last granted      (Redis)
  previous,    \* the handle before its last re-claim          (Redis)
  quiet,       \* ticks since it renewed or carried traffic    (Redis)
  displaced,   \* sessions in slots-displaced:<subscription>   (Redis)
  queue,       \* requests in the KeyedLock, the first holds it (memory)
  req,         \* what each request is doing                   (memory)
  up,          \* devices whose tunnel is up                   (the apps)
  late         \* history: releases sent before their device's latest grant

store == <<holders, handle, previous, quiet, displaced>>
database == <<signedIn, status, limit>>
vars == <<signedIn, status, limit, holders, handle, previous, quiet,
          displaced, queue, req, up, late>>

None == 0
Stale == StaleAfter + 1

(***************************************************************************)
(* Requests.  A request that passed its reads is "read"; inside the lock   *)
(* its pc names the write it makes next.  The writes a decision entails,   *)
(* in the order the code makes them, are a row of Writes.                  *)
(***************************************************************************)
Writes ==
  [take    |-> [drop |-> "mark", mark |-> "forget", forget |-> "write",
                write |-> "done"],
   again   |-> [write |-> "forget", forget |-> "done"],
   keep    |-> [write |-> "done"],
   regain  |-> [forget |-> "drop", drop |-> "write", write |-> "done"],
   release |-> [drop |-> "forget", forget |-> "done"]]

Locked == {"drop", "mark", "forget", "write"}

Request ==
  [op    : {"none", "claim", "renew", "release"},
   who   : Sessions \cup {NoSession},
   pc    : {"idle", "read", "queued", "answer"} \cup Locked,
   path  : DOMAIN Writes \cup {"none"},
   names : SUBSET (Sessions \X Grants),   \* handles: a takeover, a release
   limit : Limits,                        \* as read, before the lock
   drop  : SUBSET Sessions,               \* sessions to remove
   taken : SUBSET Sessions,               \* those of them taken over
   out   : {"none", "granted", "refused"}]

Idle ==
  [op |-> "none", who |-> NoSession, pc |-> "idle", path |-> "none",
   names |-> {}, limit |-> CHOOSE l \in Limits : TRUE, drop |-> {},
   taken |-> {}, out |-> "none"]

Started(op, d) == [Idle EXCEPT !.op = op, !.who = d, !.pc = "read"]

IsIdle(r) == req[r].pc = "idle"
InLock(r) == req[r].pc \in Locked
\* Mutant: a request does not wait for those that came before it.
HasTurnUnqueued(r) == req[r].pc = "queued"

HasTurn(r) == req[r].pc = "queued" /\ queue # <<>> /\ Head(queue) = r

\* Leaves the lock with an answer for the app.
AnswerWith(r, out) ==
  /\ queue' = Tail(queue)
  /\ req' = [req EXCEPT ![r] = [Idle EXCEPT !.op = req[r].op,
                                            !.who = req[r].who,
                                            !.pc = "answer", !.out = out]]

\* Goes on to the write after this one, or leaves the lock after the last.
NextWrite(r) ==
  IF Writes[req[r].path][req[r].pc] # "done"
  THEN /\ req' = [req EXCEPT ![r].pc = Writes[req[r].path][req[r].pc]]
       /\ UNCHANGED queue
  ELSE IF req[r].op = "release"
  THEN queue' = Tail(queue) /\ req' = [req EXCEPT ![r] = Idle]
  ELSE AnswerWith(r, "granted")

-----------------------------------------------------------------------------
(***************************************************************************)
(* What the locked section computes from the holders it reads.             *)
(***************************************************************************)
\* Mutant: sign-out is trusted to have freed the slot.
LiveHoldersSignedOutToo == {d \in holders : quiet[d] <= StaleAfter}

\* Signed in, and renewed or carrying traffic within STALE_MS.
LiveHolders == {d \in holders \cap signedIn : quiet[d] <= StaleAfter}

\* Live holders a claim's takeover names, by current or previous handle.
Named(r) ==
  {d \in LiveHolders : <<d, handle[d]>> \in req[r].names
                       \/ <<d, previous[d]>> \in req[r].names}

Needed(r) == Cardinality(LiveHolders) - req[r].limit + 1

\* Mutant: everybody the takeover names goes.
TakeoverChoicesAll(r) == {Named(r)}

\* The sets of named holders a claim may take over: as many as it takes to
\* make room, the least recently seen first (ties in any order).
TakeoverChoices(r) ==
  {T \in SUBSET Named(r) :
     /\ \/ Cardinality(T) = Needed(r)
        \/ T = Named(r) /\ Cardinality(T) < Needed(r)
        \/ T = {} /\ Needed(r) < 0
     /\ \A t \in T, s \in Named(r) \ T : quiet[t] >= quiet[s]}

RoomAfter(r, T) == Cardinality(LiveHolders \ T) < req[r].limit

\* A handle nobody still knows: newHandle() never repeats one.
FreshGrants(d) ==
  {g \in Grants : /\ g # handle[d] /\ g # previous[d]
                  /\ \A r \in Requests : <<d, g>> \notin req[r].names}
NewHandle(d, g) == g \in FreshGrants(d) /\ \A k \in FreshGrants(d) : g <= k

-----------------------------------------------------------------------------
Init ==
  /\ signedIn = Sessions
  /\ status = "ACTIVE"
  /\ limit \in Limits
  /\ holders = {}
  /\ handle = [d \in Sessions |-> None]
  /\ previous = [d \in Sessions |-> None]
  /\ quiet = [d \in Sessions |-> 0]
  /\ displaced = {}
  /\ queue = <<>>
  /\ req = [r \in Requests |-> Idle]
  /\ up = {}
  /\ late = {}

(***************************************************************************)
(* The reads before the lock (context): the device, then the subscription. *)
(* Takeover names handles a 409 showed; older ones match nothing.          *)
(***************************************************************************)
HandlesShown(d) ==
  {p \in (holders \ {d}) \X Grants : p[2] \in {handle[p[1]], previous[p[1]]}}

Claim(r, d) ==
  /\ IsIdle(r) /\ d \in signedIn
  /\ \/ /\ status # "ACTIVE"                    \* 409 SUBSCRIPTION_INACTIVE
        /\ req' = [req EXCEPT ![r] = [Started("claim", d) EXCEPT
                                        !.pc = "answer", !.out = "refused"]]
     \/ /\ status = "ACTIVE" /\ limit = Unlimited    \* nothing is recorded
        /\ req' = [req EXCEPT ![r] = [Started("claim", d) EXCEPT
                                        !.pc = "answer", !.out = "granted"]]
     \/ /\ status = "ACTIVE" /\ limit # Unlimited
        /\ \E names \in SUBSET HandlesShown(d) :
             req' = [req EXCEPT ![r] = [Started("claim", d) EXCEPT
                                          !.limit = limit, !.names = names]]
  /\ UNCHANGED <<database, store, queue, up, late>>

\* An app renews only while its tunnel is up.
Renew(r, d) ==
  /\ IsIdle(r) /\ d \in up \cap signedIn
  /\ \/ /\ status # "ACTIVE"                              \* "inactive"
        /\ req' = [req EXCEPT ![r] = [Started("renew", d) EXCEPT
                                        !.pc = "answer", !.out = "refused"]]
     \/ /\ status = "ACTIVE" /\ limit = Unlimited
        /\ req' = [req EXCEPT ![r] = [Started("renew", d) EXCEPT
                                        !.pc = "answer", !.out = "granted"]]
     \/ /\ status = "ACTIVE" /\ limit # Unlimited
        /\ req' = [req EXCEPT ![r] = [Started("renew", d) EXCEPT
                                        !.limit = limit]]
  /\ UNCHANGED <<database, store, queue, up, late>>

\* A request of a revoked session: 401, and its app signs out.
Unauthorized(d) ==
  /\ d \in up \ signedIn
  /\ up' = up \ {d}
  /\ UNCHANGED <<database, store, queue, req, late>>

\* Disconnect: the tunnel goes, and the slot is given back by the handle of
\* a grant (or by none, from an app that does not send it).
Disconnect(r, d) ==
  /\ IsIdle(r) /\ d \in up
  /\ up' = up \ {d}
  /\ \E names \in SUBSET ({<<d, handle[d]>>, <<d, previous[d]>>}
                            \cap (Sessions \X Grants)) :
       /\ Cardinality(names) <= 1
       /\ req' = [req EXCEPT ![r] = [Started("release", d) EXCEPT
                                       !.drop = {d}, !.names = names]]
  /\ UNCHANGED <<database, store, queue, late>>

\* Sign-out, a password change, the device cap, an admin or the hourly sweep
\* revokes sessions first and releases their slots afterwards.
SignOut(r, S) ==
  /\ IsIdle(r) /\ S # {}
  /\ signedIn' = signedIn \ S
  /\ req' = [req EXCEPT ![r] = [Started("release", NoSession) EXCEPT
                                  !.drop = S]]
  /\ UNCHANGED <<status, limit, store, queue, up, late>>

\* Out of data, or past its date: the status first, then every slot.
Expire(r) ==
  /\ IsIdle(r) /\ status = "ACTIVE"
  /\ status' = "EXPIRED"
  /\ req' = [req EXCEPT ![r] = [Started("release", NoSession) EXCEPT
                                  !.drop = Sessions]]
  /\ UNCHANGED <<signedIn, limit, store, queue, up, late>>

\* lock.run: in arrival order.
Enqueue(r) ==
  /\ req[r].pc = "read"
  /\ queue' = Append(queue, r)
  /\ req' = [req EXCEPT ![r].pc = "queued"]
  /\ UNCHANGED <<database, store, up, late>>

-----------------------------------------------------------------------------
(***************************************************************************)
(* In the lock: what claim, renew and dropSessions decide.                 *)
(***************************************************************************)
Decide(r, path, first, drop, taken) ==
  /\ req' = [req EXCEPT ![r] = [@ EXCEPT !.path = path, !.pc = first,
                                         !.names = {}, !.drop = drop,
                                         !.taken = taken]]
  /\ UNCHANGED queue

ClaimAgain(r) ==
  /\ HasTurn(r) /\ req[r].op = "claim" /\ req[r].who \in holders
  /\ Decide(r, "again", "write", {}, {})
  /\ UNCHANGED <<database, store, up, late>>

\* Mutant: only the devices taken over lose their slots, the stale keep them.
ClaimTakeKeepsStale(r) ==
  /\ HasTurn(r) /\ req[r].op = "claim" /\ req[r].who \notin holders
  /\ \E T \in TakeoverChoices(r) :
       /\ RoomAfter(r, T)
       /\ Decide(r, "take", "drop", T, T)
  /\ UNCHANGED <<database, store, up, late>>

ClaimTake(r) ==
  /\ HasTurn(r) /\ req[r].op = "claim" /\ req[r].who \notin holders
  /\ \E T \in TakeoverChoices(r) :
       /\ RoomAfter(r, T)
       /\ Decide(r, "take", "drop", holders \ (LiveHolders \ T), T)
  /\ UNCHANGED <<database, store, up, late>>

\* 409 DEVICE_LIMIT.
ClaimRefused(r) ==
  /\ HasTurn(r) /\ req[r].op = "claim" /\ req[r].who \notin holders
  /\ \E T \in TakeoverChoices(r) : ~RoomAfter(r, T)
  /\ AnswerWith(r, "refused")
  /\ UNCHANGED <<database, store, up, late>>

\* 429 TAKEOVER_LIMIT: how many takeovers the last hour saw is not kept here,
\* so any takeover may be one too many.
ClaimTooManyTakeovers(r) ==
  /\ HasTurn(r) /\ req[r].op = "claim" /\ req[r].who \notin holders
  /\ \E T \in TakeoverChoices(r) : T # {} /\ RoomAfter(r, T)
  /\ AnswerWith(r, "refused")
  /\ UNCHANGED <<database, store, up, late>>

RenewKeep(r) ==
  /\ HasTurn(r) /\ req[r].op = "renew" /\ req[r].who \in holders
  /\ Decide(r, "keep", "write", {}, {})
  /\ UNCHANGED <<database, store, up, late>>

\* Mutant: a device on record as displaced stays displaced while the record
\* lasts.
RenewRegainUnlessOnRecord(r) ==
  /\ HasTurn(r) /\ req[r].op = "renew" /\ req[r].who \notin holders
  /\ RoomAfter(r, {}) /\ req[r].who \notin displaced
  /\ Decide(r, "regain", "forget", holders \ LiveHolders, {})
  /\ UNCHANGED <<database, store, up, late>>

RenewRegain(r) ==
  /\ HasTurn(r) /\ req[r].op = "renew" /\ req[r].who \notin holders
  /\ RoomAfter(r, {})
  /\ Decide(r, "regain", "forget", holders \ LiveHolders, {})
  /\ UNCHANGED <<database, store, up, late>>

\* Mutant: a renewal is never told anything but "held".
RenewDisplacedSaysHeld(r) ==
  /\ HasTurn(r) /\ req[r].op = "renew" /\ req[r].who \notin holders
  /\ ~RoomAfter(r, {})
  /\ AnswerWith(r, "granted")
  /\ UNCHANGED <<database, store, up, late>>

RenewDisplaced(r) ==
  /\ HasTurn(r) /\ req[r].op = "renew" /\ req[r].who \notin holders
  /\ ~RoomAfter(r, {})
  /\ AnswerWith(r, "refused")
  /\ UNCHANGED <<database, store, up, late>>

\* Mutant: a release may name the previous handle, as a takeover may.
NamesOlderGrantButPrevious(r) ==
  /\ req[r].names # {}
  /\ \E d \in req[r].drop \cap holders :
       /\ <<d, handle[d]>> \notin req[r].names
       /\ <<d, previous[d]>> \notin req[r].names

\* A release that names a handle other than the one a matching holder has
\* frees nothing.
NamesOlderGrant(r) ==
  /\ req[r].names # {}
  /\ \E d \in req[r].drop \cap holders : <<d, handle[d]>> \notin req[r].names

ReleaseDrop(r) ==
  /\ HasTurn(r) /\ req[r].op = "release" /\ ~NamesOlderGrant(r)
  /\ Decide(r, "release", "drop", req[r].drop, {})
  /\ UNCHANGED <<database, store, up, late>>

ReleaseNothing(r) ==
  /\ HasTurn(r) /\ req[r].op = "release" /\ NamesOlderGrant(r)
  /\ queue' = Tail(queue)
  /\ req' = [req EXCEPT ![r] = Idle]
  /\ late' = late \ {r}
  /\ UNCHANGED <<database, store, up>>

\* Mutant: work that throws keeps the lock.
TurnFailsLocked(r) ==
  /\ HasTurn(r) /\ req[r].op \in {"claim", "renew"}
  /\ req[r].who \notin holders
  /\ req' = [req EXCEPT ![r] = Idle]
  /\ UNCHANGED <<database, store, queue, up, late>>

\* The database does not say which holders are signed out: the work throws
\* before it has written anything, and the app has no answer.
TurnFails(r) ==
  /\ HasTurn(r) /\ req[r].op \in {"claim", "renew"}
  /\ req[r].who \notin holders
  /\ queue' = Tail(queue)
  /\ req' = [req EXCEPT ![r] = Idle]
  /\ UNCHANGED <<database, store, up, late>>

-----------------------------------------------------------------------------
(***************************************************************************)
(* In the lock: the Redis calls, one step each.                            *)
(***************************************************************************)
\* hdel slots:<subscription>
DropSlots(r) ==
  /\ req[r].pc = "drop"
  /\ holders' = holders \ req[r].drop
  /\ handle' = [d \in Sessions |->
                  IF d \in req[r].drop THEN None ELSE handle[d]]
  /\ previous' = [d \in Sessions |->
                    IF d \in req[r].drop THEN None ELSE previous[d]]
  /\ quiet' = [d \in Sessions |-> IF d \in req[r].drop THEN 0 ELSE quiet[d]]
  /\ NextWrite(r)
  /\ UNCHANGED <<database, displaced, up, late>>

\* Mutant: the stale are put on record along with the devices taken over.
MarkDisplacedStaleToo(r) ==
  /\ req[r].pc = "mark"
  /\ displaced' = displaced \cup req[r].drop
  /\ NextWrite(r)
  /\ UNCHANGED <<database, holders, handle, previous, quiet, up, late>>

\* hset slots-displaced:<subscription>
MarkDisplaced(r) ==
  /\ req[r].pc = "mark"
  /\ displaced' = displaced \cup req[r].taken
  /\ NextWrite(r)
  /\ UNCHANGED <<database, holders, handle, previous, quiet, up, late>>

\* hdel slots-displaced:<subscription>: the caller's own record, or those of
\* the sessions released.
ForgetDisplaced(r) ==
  /\ req[r].pc = "forget"
  /\ displaced' = displaced \ (IF req[r].op = "release" THEN req[r].drop
                                                      ELSE {req[r].who})
  /\ NextWrite(r)
  /\ late' = IF req[r].op = "release" THEN late \ {r} ELSE late
  /\ UNCHANGED <<database, holders, handle, previous, quiet, up>>

\* hset slots:<subscription>: a renewal keeps the handle, anything else is a
\* new grant, and a claim by the holder keeps the old handle for takeovers.
WriteHolder(r) ==
  LET d == req[r].who IN
  /\ req[r].pc = "write"
  /\ holders' = holders \cup {d}
  /\ quiet' = [quiet EXCEPT ![d] = 0]
  /\ \/ /\ req[r].path = "keep"
        /\ UNCHANGED <<handle, previous, late>>
     \/ /\ req[r].path # "keep"
        /\ \E g \in Grants : NewHandle(d, g) /\ handle' = [handle EXCEPT ![d] = g]
        /\ previous' = [previous EXCEPT ![d] =
                          IF req[r].path = "again" THEN handle[d] ELSE None]
        /\ late' = late \cup {s \in Requests : req[s].op = "release"
                                /\ req[s].who = d /\ req[s].names # {}}
  /\ NextWrite(r)
  /\ UNCHANGED <<database, displaced, up>>

-----------------------------------------------------------------------------
(***************************************************************************)
(* The apps.                                                               *)
(***************************************************************************)
\* A granted claim lets the app dial (unless its user has moved on); every
\* refusal stops it; a renewal that is answered "held" changes nothing.
Answer(r) ==
  /\ req[r].pc = "answer"
  /\ \/ /\ req[r].out = "refused"
        /\ up' = up \ {req[r].who}
     \/ /\ req[r].out = "granted" /\ req[r].op = "claim"
        /\ up' = up \cup {req[r].who}
     \/ /\ req[r].out = "granted"
        /\ UNCHANGED up
  /\ req' = [req EXCEPT ![r] = Idle]
  /\ UNCHANGED <<database, store, queue, late>>

\* No answer: a claim unanswered never stops a dial, and a renewal changes
\* nothing.
AnswerLost(r) ==
  /\ req[r].pc = "answer"
  /\ req' = [req EXCEPT ![r] = Idle]
  /\ UNCHANGED <<database, store, queue, up, late>>

\* The app could not reach the API, or ran out of patience: it dials anyway.
DialUnclaimed(d) ==
  /\ d \in signedIn \ up
  /\ up' = up \cup {d}
  /\ UNCHANGED <<database, store, queue, req, late>>

\* The device is switched off, or loses its network for good.
Vanish(d) ==
  /\ d \in up
  /\ up' = up \ {d}
  /\ UNCHANGED <<database, store, queue, req, late>>

\* A usage report shows a holder carrying traffic (its own credentials', or
\* those of a shared credential it named).
Traffic(d) ==
  /\ d \in up \cap holders /\ status = "ACTIVE" /\ quiet[d] # 0
  /\ quiet' = [quiet EXCEPT ![d] = 0]
  /\ UNCHANGED <<database, holders, handle, previous, displaced, queue, req,
                 up, late>>

-----------------------------------------------------------------------------
(***************************************************************************)
(* The rest of the backend.                                                *)
(***************************************************************************)
Tick ==
  /\ \E d \in holders : quiet[d] < Stale
  /\ quiet' = [d \in Sessions |-> IF d \in holders /\ quiet[d] < Stale
                                  THEN quiet[d] + 1 ELSE quiet[d]]
  /\ UNCHANGED <<database, holders, handle, previous, displaced, queue, req,
                 up, late>>

\* A new session: an id no record anywhere still mentions.
SignIn(d) ==
  /\ d \notin signedIn \cup holders \cup displaced \cup up
  /\ \A r \in Requests : req[r].who # d /\ d \notin req[r].drop
  /\ signedIn' = signedIn \cup {d}
  /\ UNCHANGED <<status, limit, store, queue, req, up, late>>

\* An operator's setStatus: the status and the credentials, not the slots.
SetStatus(s) ==
  /\ status # s
  /\ status' = s
  /\ UNCHANGED <<signedIn, limit, store, queue, req, up, late>>

\* The plan is edited, or the subscription moved to another plan.
ChangeLimit(l) ==
  /\ limit # l
  /\ limit' = l
  /\ UNCHANGED <<signedIn, status, store, queue, req, up, late>>

\* slots-displaced expires an hour after its last write.
DisplacedExpires ==
  /\ displaced # {}
  /\ displaced' = {}
  /\ UNCHANGED <<database, holders, handle, previous, quiet, queue, req, up,
                 late>>

\* Redis is lost, or both keys have expired, between two requests' turns.
StoreLost ==
  /\ holders # {} /\ \A r \in Requests : ~InLock(r)
  /\ holders' = {}
  /\ displaced' = {}
  /\ handle' = [d \in Sessions |-> None]
  /\ previous' = [d \in Sessions |-> None]
  /\ quiet' = [d \in Sessions |-> 0]
  /\ UNCHANGED <<database, queue, req, up, late>>

\* The backend restarts: every request ends where it is, unanswered, and the
\* locks are gone.  (With nothing but answers under way it is AnswerLost.)
Restart ==
  /\ \E r \in Requests : req[r].pc \notin {"idle", "answer"}
  /\ queue' = <<>>
  /\ req' = [r \in Requests |-> Idle]
  /\ late' = {}
  /\ UNCHANGED <<database, store, up>>

-----------------------------------------------------------------------------
\* What comes of a turn.
Decides(r) ==
  \/ ClaimAgain(r) \/ ClaimTake(r) \/ ClaimRefused(r)
  \/ ClaimTooManyTakeovers(r)
  \/ RenewKeep(r) \/ RenewRegain(r) \/ RenewDisplaced(r)
  \/ ReleaseDrop(r) \/ ReleaseNothing(r)

Turn(r) == Decides(r) \/ TurnFails(r)

Write(r) ==
  DropSlots(r) \/ MarkDisplaced(r) \/ ForgetDisplaced(r) \/ WriteHolder(r)

Serve(r) == Enqueue(r) \/ Decides(r) \/ Write(r) \/ Answer(r)

\* What somebody or something outside may do at any time: a press of
\* Connect, a sign-in or sign-out, an operator, an outage, a failed query.
Disturb ==
  \/ \E r \in Requests, d \in Sessions : Claim(r, d)
  \/ \E r \in Requests : Expire(r) \/ TurnFails(r)
  \/ \E r \in Requests, S \in SUBSET signedIn : SignOut(r, S)
  \/ \E d \in Sessions : DialUnclaimed(d) \/ SignIn(d)
  \/ \E s \in OperatorSets : SetStatus(s)
  \/ \E l \in Limits : ChangeLimit(l)
  \/ StoreLost \/ Restart

Next ==
  \/ Disturb
  \/ \E r \in Requests : Serve(r) \/ AnswerLost(r)
  \/ \E r \in Requests, d \in Sessions : Renew(r, d) \/ Disconnect(r, d)
  \/ \E d \in Sessions : Unauthorized(d) \/ Vanish(d) \/ Traffic(d)
  \/ Tick \/ DisplacedExpires

\* The backend finishes what it started, the apps' renewal timers keep
\* firing while their tunnels are up, an app that goes on asking is answered
\* some day, and time passes.  A timer is strongly fair because Requests
\* bounds what may be in flight and the code does not.
Fairness ==
  /\ \A r \in Requests : WF_vars(Serve(r))
  /\ \A d \in Sessions :
       /\ SF_vars(\E r \in Requests : Renew(r, d))
       /\ SF_vars(\E r \in Requests : req[r].who = d /\ Answer(r))
       /\ WF_vars(Unauthorized(d))
  /\ WF_vars(Tick)

Spec == Init /\ [][Next]_vars
FairSpec == Spec /\ Fairness

-----------------------------------------------------------------------------
(***************************************************************************)
(* Invariants.                                                             *)
(***************************************************************************)
\* What is kept, of whom.
Shape ==
  /\ signedIn \in SUBSET Sessions
  /\ status \in {"ACTIVE", "EXPIRED", "SUSPENDED"}
  /\ limit \in Limits
  /\ holders \in SUBSET Sessions
  /\ handle \in [Sessions -> Grants \cup {None}]
  /\ previous \in [Sessions -> Grants \cup {None}]
  /\ quiet \in [Sessions -> 0..Stale]
  /\ displaced \in SUBSET Sessions
  /\ queue \in Seq(Requests)
  /\ req \in [Requests -> Request]
  /\ up \in SUBSET Sessions
  /\ late \in SUBSET Requests

\* The shape of the state, and who is in the lock: only the request that came
\* first of those still waiting.
TypeOK ==
  /\ Shape
  /\ \A r \in Requests : InLock(r) => queue # <<>> /\ Head(queue) = r

\* The lock's queue is made of the requests that wait or have the lock, each
\* of them once: a request that is refused, has nothing to do, fails, or dies
\* with a restart leaves nothing for those after it to wait for.
LockHandedOn ==
  /\ \A r \in Requests : (req[r].pc = "queued" \/ InLock(r))
                         <=> (\E i \in DOMAIN queue : queue[i] = r)
  /\ \A i, j \in DOMAIN queue : queue[i] = queue[j] => i = j

\* However claims, renewals, releases, sign-outs and restarts interleave, and
\* after every single Redis call, no more devices hold a slot than the
\* largest limit the plan has had.
SlotLimit == \E l \in Limits : Cardinality(holders) <= l

\* No device both holds a slot and is on record as displaced, at any point
\* between two Redis calls and after a restart at any of them: the backstop
\* cuts off displaced devices and must never cut off a holder.
NoDisplacedHolder == holders \cap displaced = {}

(***************************************************************************)
(* Action properties.                                                      *)
(***************************************************************************)
\* A device let in never brings the holders past the limit its request read,
\* whatever happened between that read and this write.
GrantWithinLimit ==
  [][\A r \in Requests :
       /\ req[r].pc = "write" /\ req'[r].pc # "write"
       /\ req[r].who \in holders' \ holders
       => Cardinality(holders') <= req[r].limit]_vars

\* A claim that displaces anybody leaves the plan exactly full: a device that
\* sent every handle a refusal showed it does not displace more than it must.
OnlyAsManyAsItTakes ==
  [][\A r \in Requests :
       /\ req[r].pc = "queued" /\ req'[r].pc = "drop"
       /\ req'[r].taken # {}
       => Cardinality(holders \ req'[r].drop) = req[r].limit - 1]_vars

\* Inside the lock no device is refused, or told it was displaced, while it
\* holds the slot itself, or while fewer than the limit of other devices that
\* are signed in and not stale hold one.
NeverStoppedWithRoom ==
  [][\A r \in Requests :
       /\ req[r].pc = "queued" /\ req'[r].pc = "answer"
       /\ req'[r].out = "refused"
       => /\ req[r].who \notin holders
          /\ Cardinality({d \in holders : d \in signedIn
                                         /\ quiet[d] <= StaleAfter})
               >= req[r].limit]_vars

\* A release that was sent before its device's latest grant, and names the
\* grant it was sent for, never frees that device's slot.
LateReleaseFreesNothing ==
  [][\A r \in late : req[r].pc = "drop" /\ req'[r].pc # "drop"
                     => holders' = holders]_vars

\* usage.service.ts:131 of an expiry or a suspension for data: "a renewal
\* starts with every slot free".
RenewalStartsFree ==
  [][/\ status = "EXPIRED" /\ status' = "ACTIVE"
     /\ \A r \in Requests : req[r].op = "release" => req[r].drop # Sessions
     => holders = {}]_vars

(***************************************************************************)
(* Refinement.                                                             *)
(***************************************************************************)
\* Devices displaced by a takeover that has dropped them and has yet to put
\* them on record.
BeingMarked ==
  UNION {req[r].taken : r \in {q \in Requests : req[q].pc = "mark"}}

Promised == INSTANCE SlotSet WITH Devices <- Sessions, using <- holders,
                                  shut <- displaced \cup BeingMarked

\* Claims, renewals and releases, with their four Redis calls, the lock and
\* restarts between any two of them, do nothing but what SlotSet allows: a
\* takeover makes room for exactly one device, only devices that are
\* displaced for it are ever put on record, and a device that is let in is
\* no longer on it.
ImplementsSlotSet == Promised!Spec

(***************************************************************************)
(* Liveness.                                                               *)
(***************************************************************************)
\* A holder whose tunnel is up renews or carries traffic before it is stale.
OnTime == \A d \in up \cap holders : quiet[d] <= StaleAfter

\* Once nobody presses Connect and nothing is disturbed any more, and holders
\* renew on time, no more devices than the plan allows keep their tunnels up:
\* every device without a slot gets one or is told to stop.
UseConverges ==
  <>[][~Disturb]_vars /\ <>[]OnTime =>
    <>[](limit # Unlimited => Cardinality(up) <= limit)

\* A device left alone with its tunnel up ends up holding a slot, however it
\* lost it: a displacement is not for ever.
SlotRegained ==
  \A d \in Sessions :
    (/\ <>[][~Disturb]_vars
     /\ <>[](up = {d} /\ d \in signedIn /\ status = "ACTIVE"
             /\ limit # Unlimited))
    => <>[](d \in holders)
=============================================================================
