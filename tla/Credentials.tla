---------------------------- MODULE Credentials ----------------------------
(***************************************************************************)
(* Which credentials a node serves, against the rows that say which it     *)
(* should (apps/backend/src/modules/protocol-users, usage, customers,      *)
(* subscriptions and agent-gateway): every operation that switches a       *)
(* credential on or off, the re-assert of every minute, after a reconnect  *)
(* and after a lifted hold, and its guard against switch-offs              *)
(* (guardedReassert).                                                      *)
(*                                                                         *)
(* One subscription of one customer, and one node.  A credential is shared *)
(* by the customer's devices or belongs to one device, whose session may be *)
(* signed out.  Stored commands reach the node in the order they were      *)
(* written, whatever connection they take (AgentOutbox); a re-assert of    *)
(* every minute is not stored, and is lost with its connection.            *)
(*                                                                         *)
(* Races names what the schedules of this instance may contain:            *)
(*   "create"   a shared credential is being created, or put on hold while *)
(*              it is created, and another operation runs                  *)
(*   "enable"   a credential is being enabled and another operation runs   *)
(*   "lift"     a command switching a credential off is noted while the    *)
(*              re-assert of a lifted hold has read it and not yet sent it *)
(*   "abort"    a row is removed while an expiry works through its list     *)
(*   "restart"  the backend stops in the middle of an operation            *)
(***************************************************************************)
EXTENDS Integers, Sequences, FiniteSets

CONSTANTS Users,     \* credentials: one per route, shared or a device's own
          Ops,       \* operations that may run at once (a bound)
          Sweeps,    \* re-asserts that may run at once (a bound)
          MaxQueued, \* nothing begins while so many commands wait, and the
                     \* stream stays up while so many stored ones do (a bound)
          Races      \* see above

ASSUME UsersAssumption == IsFiniteSet(Users)
ASSUME QueuedAssumption == MaxQueued \in Nat
ASSUME RacesAssumption ==
  Races \subseteq {"create", "enable", "lift", "abort", "restart"}

VARIABLES
  devices,   \* credentials that have a session, one each          (Postgres)
  row,       \* row[u]: "none", "ACTIVE", "DISABLED", or "gone"    (Postgres)
  paid,      \* the subscription is ACTIVE                         (Postgres)
  enabled,   \* the customer is ACTIVE                             (Postgres)
  signedOut, \* device credentials whose session is revoked        (Postgres)
  held,      \* credentials with a lease of the backstop           (Postgres)
  op,        \* what each operation is doing                        (memory)
  sweep,     \* what each re-assert is doing                        (memory)
  fresh,     \* credentials last switched off, within the margin    (memory)
  wire,      \* commands on their way, the stored ones in the outbox
  connected, \* the node's stream is open
  node       \* credentials the node serves

rows == <<devices, row, paid, enabled, signedOut, held>>
vars == <<devices, row, paid, enabled, signedOut, held, op, sweep, fresh, wire,
          connected, node>>

(***************************************************************************)
(* An operation works through the rows it read (todo), one at a time (cur). *)
(* Its kind is what it does to each of them:                               *)
(*   "disable"  DISABLE_USER, then the row DISABLED: suspension, expiry,   *)
(*              an operator switching a subscription or a credential off   *)
(*   "enable"   ENABLE_USER, then the row ACTIVE: renewal, reactivation    *)
(*   "create"   the row, then CREATE_USER: a shared credential             *)
(*   "fetch"    the same for a device's own, undone if the subscription    *)
(*              is over by then                                            *)
(*   "remove"   DELETE_USER, then no row: signing out, or leaving the plan *)
(*   "hold"     a lease, then DISABLE_USER                                 *)
(*   "off"      DISABLE_USER alone: the customer is disabled               *)
(* It may hold the customer's lock, and go on to another kind (then).      *)
(***************************************************************************)
Idle == [kind |-> "none", pc |-> "idle", todo |-> {}, cur |-> {},
         lock |-> FALSE, then |-> "none"]

Begun(kind, U, lock, then) ==
  [kind |-> kind, pc |-> "rows", todo |-> U, cur |-> {}, lock |-> lock,
   then |-> then]

Resting ==
  [kind |-> "none", pc |-> "idle", todo |-> {}, cur |-> {}, off |-> {},
   since |-> {}]

TheOne(U) == CHOOSE u \in U : TRUE

\* One that was lost with its connection is left in its place, as "lost".
Command == [user : Users, what : {"on", "off", "lost"}, stored : BOOLEAN]

Init ==
  /\ devices \in SUBSET Users
  /\ row = [u \in Users |-> "none"]
  /\ paid = TRUE
  /\ enabled = TRUE
  /\ signedOut = {}
  /\ held = {}
  /\ op = [p \in Ops |-> Idle]
  /\ sweep = [q \in Sweeps |-> Resting]
  /\ fresh = {}
  /\ wire = <<>>
  /\ connected = TRUE
  /\ node = {}

\* liveOnceActiveWhere: what a row must be, besides ACTIVE.
LiveOnceActive(u) == paid /\ enabled /\ u \notin signedOut /\ u \notin held

\* liveCredentialWhere.
Live == {u \in Users : row[u] = "ACTIVE" /\ LiveOnceActive(u)}

-----------------------------------------------------------------------------
(***************************************************************************)
(* Commands.  noteUserCommand: the last command noted for a credential is   *)
(* what a re-assert looks at, by its time (off: since the batch was read or *)
(* within the margin before) and by its number (since: after the send       *)
(* began).  An operation is taken to end within that margin.               *)
(***************************************************************************)
NotedOff(s, u) ==
  [s EXCEPT !.off = IF s.pc = "idle" THEN @ ELSE @ \cup {u},
            !.since = IF u \in s.cur THEN @ \cup {u} ELSE @]

NoteOff(u) ==
  /\ fresh' = fresh \cup {u}
  /\ sweep' = [q \in Sweeps |-> NotedOff(sweep[q], u)]

NotedOn(s, u) == [s EXCEPT !.off = @ \ {u}, !.since = @ \ {u}]

NoteOn(u) ==
  /\ fresh' = fresh \ {u}
  /\ sweep' = [q \in Sweeps |-> NotedOn(sweep[q], u)]

\* A stored command, written to the node or waiting for it to be back.
Send(u, what) ==
  wire' = Append(wire, [user |-> u, what |-> what, stored |-> TRUE])

\* A noted off may not fall into a lift's window, unless that is the race.
OffMayBeNoted(u) ==
  "lift" \notin Races =>
    \A q \in Sweeps : ~(sweep[q].kind = "lift" /\ sweep[q].pc # "idle")

\* Mutant: an off is never too long ago to count.
AgeNever(u) == FALSE /\ UNCHANGED vars

\* The margin passes for an off whose operation is over.
Age(u) ==
  /\ u \in fresh
  /\ \A p \in Ops : u \notin op[p].cur
  /\ \A q \in Sweeps : u \notin sweep[q].cur
  /\ fresh' = fresh \ {u}
  /\ UNCHANGED <<rows, op, sweep, wire, connected, node>>

-----------------------------------------------------------------------------
(***************************************************************************)
(* Operations begin.                                                       *)
(***************************************************************************)
IsIdle(p) == op[p].pc = "idle"

\* Which races an operation of this kind would add to those running.
MayBegin(p, kind) ==
  /\ IsIdle(p) /\ Len(wire) < MaxQueued
  /\ \A o \in Ops : ~IsIdle(o) =>
       LET both == {kind, op[o].kind} IN
       /\ "enable" \in both => "enable" \in Races
       /\ "create" \in both \/ both = {"fetch", "hold"} => "create" \in Races
       /\ both = {"remove", "disable"} => "abort" \in Races

Begin(p, kind, U, lock, then) ==
  /\ MayBegin(p, kind)
  /\ op' = [op EXCEPT ![p] = Begun(kind, U, lock, then)]

\* Suspension, expiry, an operator's setStatus: the status, then the rows.
EndSubscription(p) ==
  /\ paid /\ paid' = FALSE
  /\ Begin(p, "disable", Users, FALSE, "none")
  /\ UNCHANGED <<devices, row, enabled, signedOut, held, sweep, fresh, wire,
                 connected, node>>

\* Renewal and reactivation: the status, the rows that are off, then what the
\* plan's routes lack.
Renew(p) ==
  /\ paid' = TRUE
  /\ Begin(p, "enable", Users, FALSE, "create")
  /\ UNCHANGED <<devices, row, enabled, signedOut, held, sweep, fresh, wire,
                 connected, node>>

\* Nobody is making a credential, unless that is the race.
NoneInTheMaking ==
  "create" \notin Races => \A p \in Ops : op[p].kind # "fetch"

\* An operator's switch for one credential.
SetEnabled(p, u, kind) ==
  /\ row[u] \in {"ACTIVE", "DISABLED"} /\ kind \in {"enable", "disable"}
  /\ NoneInTheMaking
  /\ MayBegin(p, kind)
  /\ op' = [op EXCEPT ![p] = [Begun(kind, {u}, FALSE, "none") EXCEPT
                                !.pc = "next"]]
  /\ UNCHANGED <<rows, sweep, fresh, wire, connected, node>>

\* A shared credential for a route that was added, or one for a route that
\* is no longer on the plan.
Provision(p, u) ==
  /\ u \notin devices /\ row[u] = "none"
  /\ Begin(p, "create", {u}, FALSE, "none")
  /\ UNCHANGED <<rows, sweep, fresh, wire, connected, node>>

Remove(p, u) ==
  /\ row[u] \in {"ACTIVE", "DISABLED"} /\ NoneInTheMaking
  /\ Begin(p, "remove", {u}, FALSE, "none")
  /\ UNCHANGED <<rows, sweep, fresh, wire, connected, node>>

\* A device asks for its credentials.
Fetch(p, u) ==
  /\ u \in devices /\ row[u] = "none"
  /\ Begin(p, "fetch", {u}, TRUE, "none")
  /\ UNCHANGED <<rows, sweep, fresh, wire, connected, node>>

\* Sign-out: the session first, then its credentials under the lock.
SignOut(p, u) ==
  /\ u \in devices \ signedOut
  /\ signedOut' = signedOut \cup {u}
  /\ Begin(p, "remove", {u}, TRUE, "none")
  /\ UNCHANGED <<devices, row, paid, enabled, held, sweep, fresh, wire, connected, node>>

\* The hourly sweep: sessions that were signed out and still have rows.
SweepSessions(p, u) ==
  /\ u \in signedOut /\ row[u] \in {"ACTIVE", "DISABLED"}
  /\ \A o \in Ops : u \notin op[o].todo \cup op[o].cur
  /\ Begin(p, "remove", {u}, TRUE, "none")
  /\ UNCHANGED <<rows, sweep, fresh, wire, connected, node>>

\* Mutant: the credentials without a session are signed out with the rest.
DisableCustomerSignsOutAll(p) ==
  /\ enabled /\ enabled' = FALSE
  /\ signedOut' = Users
  /\ Begin(p, "remove", devices, TRUE, "off")
  /\ UNCHANGED <<devices, row, paid, held, sweep, fresh, wire, connected, node>>

\* The account is disabled and every device signed out in one transaction;
\* then the devices' credentials go, then the shared ones are switched off.
DisableCustomer(p) ==
  /\ enabled /\ enabled' = FALSE
  /\ signedOut' = devices
  /\ Begin(p, "remove", devices, TRUE, "off")
  /\ UNCHANGED <<devices, row, paid, held, sweep, fresh, wire, connected, node>>

\* Shared credentials for the routes added meanwhile.  To the others nothing
\* is sent: the next re-assert finds their rows live again.
EnableCustomer(p) ==
  /\ ~enabled /\ enabled' = TRUE
  /\ IF \E u \in Users \ devices : row[u] = "none"
     THEN Begin(p, "create", Users \ devices, FALSE, "none")
     ELSE UNCHANGED op
  /\ UNCHANGED <<devices, row, paid, signedOut, held, sweep, fresh, wire,
                 connected, node>>

\* The backstop holds a device: its own credentials, or the shared ones.
Hold(p, U) ==
  /\ U # {}
  /\ Begin(p, "hold", U, FALSE, "none")
  /\ UNCHANGED <<rows, sweep, fresh, wire, connected, node>>

\* A hold that is not renewed ends by itself.
Lapse(u) ==
  /\ u \in held /\ held' = held \ {u}
  /\ UNCHANGED <<devices, row, paid, enabled, signedOut, op, sweep, fresh, wire,
                 connected, node>>

-----------------------------------------------------------------------------
(***************************************************************************)
(* Operations go on.                                                       *)
(***************************************************************************)
Locked(p) == op[p].lock /\ op[p].pc \notin {"idle", "rows"}

Exists(u) == row[u] \in {"ACTIVE", "DISABLED"}

\* Mutant: only rows that are on are removed.
MatchingActiveToRemove(kind, U) ==
  {u \in U : CASE kind \in {"disable", "off", "hold", "remove"} -> row[u] = "ACTIVE"
               [] kind = "enable" -> row[u] = "DISABLED"
               [] kind = "create" -> row[u] = "none" /\ paid /\ enabled
               [] kind = "fetch"  -> /\ row[u] = "none" /\ paid /\ enabled
                                     /\ u \notin signedOut}

\* The rows an operation of this kind asks for.
Matching(kind, U) ==
  {u \in U : CASE kind \in {"disable", "off", "hold"} -> row[u] = "ACTIVE"
               [] kind = "enable" -> row[u] = "DISABLED"
               [] kind = "remove" -> Exists(u)
               [] kind = "create" -> row[u] = "none" /\ paid /\ enabled
               [] kind = "fetch"  -> /\ row[u] = "none" /\ paid /\ enabled
                                     /\ u \notin signedOut}

ReadRows(p) ==
  /\ op[p].pc = "rows"
  /\ (op[p].lock => \A o \in Ops : ~Locked(o))
  /\ op' = [op EXCEPT ![p].todo = Matching(op[p].kind, @),
                      ![p].pc = IF op[p].kind = "hold" THEN "lease" ELSE "next"]
  /\ UNCHANGED <<rows, sweep, fresh, wire, connected, node>>

\* The lease comes before the commands.
Lease(p) ==
  /\ op[p].pc = "lease"
  /\ held' = held \cup {u \in op[p].todo : Exists(u)}
  /\ op' = [op EXCEPT ![p].pc = "next"]
  /\ UNCHANGED <<devices, row, paid, enabled, signedOut, sweep, fresh, wire,
                 connected, node>>

At(p, u, pc) ==
  op' = [op EXCEPT ![p].pc = pc, ![p].todo = @ \ {u}, ![p].cur = {u}]

\* The next credential to switch off.  A row that is gone by then cannot be
\* removed or disabled by itself.
SwitchOff(p, u) ==
  /\ op[p].pc = "next" /\ u \in op[p].todo
  /\ op[p].kind \in {"disable", "off", "hold", "remove"}
  /\ OffMayBeNoted(u)
  /\ NoteOff(u)
  /\ At(p, u, "send")
  /\ UNCHANGED <<rows, wire, connected, node>>

\* The next to switch on.  Unless it would be live, only its row changes.
SwitchOn(p, u) ==
  /\ op[p].pc = "next" /\ u \in op[p].todo /\ op[p].kind = "enable"
  /\ At(p, u, IF LiveOnceActive(u) THEN "note" ELSE "write")
  /\ UNCHANGED <<rows, sweep, fresh, wire, connected, node>>

\* A credential is made: the row is ACTIVE from the start.
Insert(p, u) ==
  /\ op[p].pc = "next" /\ u \in op[p].todo
  /\ op[p].kind \in {"create", "fetch"}
  /\ row' = [row EXCEPT ![u] = "ACTIVE"]
  /\ At(p, u, "note")
  /\ UNCHANGED <<devices, paid, enabled, signedOut, held, sweep, fresh, wire, connected,
                 node>>

NoteSwitchOn(p) ==
  /\ op[p].pc = "note"
  /\ \E u \in op[p].cur : NoteOn(u)
  /\ op' = [op EXCEPT ![p].pc = "send"]
  /\ UNCHANGED <<rows, wire, connected, node>>

SendCommand(p) ==
  /\ op[p].pc = "send"
  /\ \E u \in op[p].cur :
       Send(u, IF op[p].kind \in {"enable", "create", "fetch"}
               THEN "on" ELSE "off")
  /\ op' = [op EXCEPT ![p].pc = "write"]
  /\ UNCHANGED <<rows, sweep, fresh, connected, node>>

Onward(p) == op' = [op EXCEPT ![p].pc = "next", ![p].cur = {}]

\* And after the command, the row; with a row goes its lease.
WriteRow(p, u, status) ==
  /\ row' = [row EXCEPT ![u] = status]
  /\ held' = IF status = "gone" THEN held \ {u} ELSE held
  /\ Onward(p)
  /\ UNCHANGED <<devices, paid, enabled, signedOut, sweep, fresh, wire, connected, node>>

Finished(p, u) ==
  /\ op[p].pc = "write" /\ u \in op[p].cur
  /\ \/ op[p].kind = "disable" /\ Exists(u) /\ WriteRow(p, u, "DISABLED")
     \/ op[p].kind = "enable" /\ Exists(u) /\ WriteRow(p, u, "ACTIVE")
     \/ op[p].kind = "remove" /\ WriteRow(p, u, "gone")
     \/ /\ op[p].kind \in {"off", "hold", "create"}
        /\ Onward(p)
        /\ UNCHANGED <<rows, sweep, fresh, wire, connected, node>>

\* update() of a row that is gone throws, and with it the whole loop.
Abort(p, u) ==
  /\ op[p].pc = "write" /\ u \in op[p].cur
  /\ op[p].kind \in {"disable", "enable"} /\ ~Exists(u)
  /\ op' = [op EXCEPT ![p] = Idle]
  /\ UNCHANGED <<rows, sweep, fresh, wire, connected, node>>

\* A fetch reads the status again: over by now, the new row is disabled.
Recheck(p, u) ==
  /\ op[p].pc = "write" /\ u \in op[p].cur /\ op[p].kind = "fetch"
  /\ IF paid
     THEN Onward(p) /\ UNCHANGED <<sweep, fresh>>
     ELSE /\ OffMayBeNoted(u)
          /\ NoteOff(u)
          /\ op' = [op EXCEPT ![p].pc = "send", ![p].kind = "disable"]
  /\ UNCHANGED <<rows, wire, connected, node>>

\* Removing one credential of a session failed, before its command went out
\* or after; it is logged, and the rest go on.
RemoveFails(p) ==
  /\ op[p].kind = "remove" /\ op[p].lock
  /\ \/ /\ op[p].pc = "next"
        /\ \E u \in op[p].todo : op' = [op EXCEPT ![p].todo = @ \ {u}]
     \/ op[p].pc = "write" /\ Onward(p)
  /\ UNCHANGED <<rows, sweep, fresh, wire, connected, node>>

\* Through with the rows: the next kind, or the end.
EndOp(p) ==
  /\ op[p].pc = "next" /\ op[p].todo = {}
  /\ op' = [op EXCEPT ![p] =
               CASE op[p].then = "create" -> Begun("create", Users \ devices, FALSE, "none")
                 [] op[p].then = "off" -> Begun("off", Users, TRUE, "none")
                 [] OTHER -> Idle]
  /\ UNCHANGED <<rows, sweep, fresh, wire, connected, node>>

-----------------------------------------------------------------------------
(***************************************************************************)
(* Re-asserts.  A "periodic" one writes straight onto the stream; one after *)
(* a "reconnect" stores a command per credential; a "lift" is of one held   *)
(* device that was let in again.                                           *)
(***************************************************************************)
StartSweep(q, kind, U) ==
  /\ sweep[q].pc = "idle"
  /\ sweep' = [sweep EXCEPT ![q] = [kind |-> kind, pc |-> "read", todo |-> U,
                                    cur |-> {}, off |-> fresh, since |-> {}]]

Periodic(q) ==
  /\ connected /\ Len(wire) < MaxQueued
  /\ \A s \in Sweeps : sweep[s].kind # "periodic"
  /\ StartSweep(q, "periodic", Users)
  /\ UNCHANGED <<rows, op, fresh, wire, connected, node>>

\* The node is back: what was stored is on its way again, and every live
\* credential is asserted after it.
Reconnect(q) ==
  /\ ~connected /\ connected' = TRUE
  /\ StartSweep(q, "reconnect", Users)
  /\ UNCHANGED <<rows, op, fresh, wire, node>>

\* The backstop lets a device in that it holds: the lease, then a re-assert.
LiftHold(q, U) ==
  /\ U # {} /\ U \subseteq held /\ Len(wire) < MaxQueued
  /\ held' = held \ U
  /\ StartSweep(q, "lift", U)
  /\ ("lift" \notin Races =>
        \A p \in Ops : op[p].kind \notin {"disable", "remove", "hold", "off"})
  /\ UNCHANGED <<devices, row, paid, enabled, signedOut, op, fresh, wire, connected,
                 node>>

\* Mutant: a re-assert asks for ACTIVE rows and nothing else.
ReadLiveActiveOnly(q) ==
  /\ sweep[q].pc = "read"
  /\ sweep' = [sweep EXCEPT ![q].pc = "next",
                            ![q].todo = {u \in @ : row[u] = "ACTIVE"}]
  /\ UNCHANGED <<rows, op, fresh, wire, connected, node>>

ReadLive(q) ==
  /\ sweep[q].pc = "read"
  /\ sweep' = [sweep EXCEPT ![q].pc = "next", ![q].todo = @ \cap Live]
  /\ UNCHANGED <<rows, op, fresh, wire, connected, node>>

\* Mutant: nothing is looked up before a re-assert is sent.
SwitchedOffSinceNever(q, u) == FALSE

\* guardedReassert, before it sends.
SwitchedOffSince(q, u) == u \in sweep[q].off

\* stillQueued: the last cycle's copy has not been carried out.
StillQueued(u) ==
  \E i \in DOMAIN wire : wire[i].user = u /\ wire[i].what = "on" /\ ~wire[i].stored

Skip(q, u) ==
  /\ sweep[q].pc = "next" /\ u \in sweep[q].todo
  /\ \/ SwitchedOffSince(q, u) /\ sweep[q].kind # "lift"
     \/ sweep[q].kind = "periodic" /\ StillQueued(u)
  /\ sweep' = [sweep EXCEPT ![q].todo = @ \ {u}]
  /\ UNCHANGED <<rows, op, fresh, wire, connected, node>>

WriteReassert(u) ==
  IF connected
  THEN wire' = Append(wire, [user |-> u, what |-> "on", stored |-> FALSE])
  ELSE UNCHANGED wire

\* Checked and written in one turn of the event loop.
AssertNow(q, u) ==
  /\ sweep[q].kind = "periodic" /\ sweep[q].pc = "next" /\ u \in sweep[q].todo
  /\ ~SwitchedOffSince(q, u) /\ ~StillQueued(u)
  /\ WriteReassert(u)
  /\ sweep' = [sweep EXCEPT ![q].todo = @ \ {u}]
  /\ UNCHANGED <<rows, op, fresh, connected, node>>

\* A lifted credential is noted as on first: its hold was no switch-off.
AssertLifted(q, u) ==
  /\ sweep[q].kind = "lift" /\ sweep[q].pc = "next" /\ u \in sweep[q].todo
  /\ WriteReassert(u)
  /\ fresh' = fresh \ {u}
  /\ sweep' = [s \in Sweeps |->
                 IF s = q THEN [sweep[q] EXCEPT !.todo = @ \ {u}]
                          ELSE NotedOn(sweep[s], u)]
  /\ UNCHANGED <<rows, op, connected, node>>

\* After a reconnect: noted and stored like any command.
AssertStored(q, u) ==
  /\ sweep[q].kind = "reconnect" /\ sweep[q].pc = "next" /\ u \in sweep[q].todo
  /\ ~SwitchedOffSince(q, u)
  /\ fresh' = fresh \ {u}
  /\ sweep' = [s \in Sweeps |->
                 IF s = q THEN [NotedOn(sweep[q], u) EXCEPT
                                  !.pc = "send", !.todo = @ \ {u},
                                  !.cur = {u}, !.since = {}]
                          ELSE NotedOn(sweep[s], u)]
  /\ UNCHANGED <<rows, op, wire, connected, node>>

SendAssert(q) ==
  /\ sweep[q].pc = "send"
  /\ \E u \in sweep[q].cur : Send(u, "on")
  /\ sweep' = [sweep EXCEPT ![q].pc = "after"]
  /\ UNCHANGED <<rows, op, fresh, connected, node>>

\* Mutant: the second look is left out.
LookAgainNever(q) ==
  /\ sweep[q].pc = "after"
  /\ sweep' = [sweep EXCEPT ![q].pc = "next", ![q].cur = {}, ![q].since = {}]
  /\ UNCHANGED <<rows, op, fresh, wire, connected, node>>

\* guardedReassert, after it sent: an off noted meanwhile is sent again.
LookAgain(q) ==
  /\ sweep[q].pc = "after"
  /\ IF sweep[q].cur \cap sweep[q].since # {}
     THEN /\ \A u \in sweep[q].cur : OffMayBeNoted(u)
          /\ fresh' = fresh \cup sweep[q].cur
          /\ sweep' = [s \in Sweeps |->
                         IF s = q THEN [sweep[q] EXCEPT !.pc = "repeat"]
                                  ELSE NotedOff(sweep[s], TheOne(sweep[q].cur))]
     ELSE /\ sweep' = [sweep EXCEPT ![q].pc = "next", ![q].cur = {},
                                    ![q].since = {}]
          /\ UNCHANGED fresh
  /\ UNCHANGED <<rows, op, wire, connected, node>>

Repeat(q) ==
  /\ sweep[q].pc = "repeat"
  /\ \E u \in sweep[q].cur : Send(u, "off")
  /\ sweep' = [sweep EXCEPT ![q].pc = "next", ![q].cur = {}, ![q].since = {}]
  /\ UNCHANGED <<rows, op, fresh, connected, node>>

EndSweep(q) ==
  /\ sweep[q].pc = "next" /\ sweep[q].todo = {}
  /\ sweep' = [sweep EXCEPT ![q] = Resting]
  /\ UNCHANGED <<rows, op, fresh, wire, connected, node>>

-----------------------------------------------------------------------------
(***************************************************************************)
(* The node and its stream.                                                *)
(***************************************************************************)
Execute ==
  /\ wire # <<>> /\ (connected \/ Head(wire).what = "lost")
  /\ node' = CASE Head(wire).what = "on" -> node \cup {Head(wire).user}
               [] Head(wire).what = "off" -> node \ {Head(wire).user}
               [] OTHER -> node
  /\ wire' = Tail(wire)
  /\ UNCHANGED <<rows, op, sweep, fresh, connected>>

\* The commands that were not stored go with the stream.
LoseUnstored ==
  /\ Cardinality({i \in DOMAIN wire : wire[i].stored}) < MaxQueued
  /\ wire' = [i \in DOMAIN wire |->
                IF wire[i].stored THEN wire[i] ELSE [wire[i] EXCEPT !.what = "lost"]]

\* The stream is lost.
Disconnect ==
  /\ connected /\ connected' = FALSE
  /\ LoseUnstored
  /\ UNCHANGED <<rows, op, sweep, fresh, node>>

\* An engine restarts and remembers nobody.
EngineRestarts ==
  /\ node # {} /\ node' = {}
  /\ UNCHANGED <<rows, op, sweep, fresh, wire, connected>>

SigningOut(p) == op[p].lock /\ op[p].kind = "remove" /\ op[p].then = "none"

\* The backend restarts: operations and re-asserts end where they are.
Restart ==
  /\ ("restart" \notin Races =>
        /\ \A p \in Ops : IsIdle(p) \/ SigningOut(p)
        /\ \A q \in Sweeps : sweep[q].cur = {})
  /\ LoseUnstored
  /\ \/ \E p \in Ops : ~IsIdle(p)
     \/ \E q \in Sweeps : sweep[q].pc # "idle"
  /\ op' = [p \in Ops |-> Idle]
  /\ sweep' = [q \in Sweeps |-> Resting]
  /\ fresh' = {}
  /\ connected' = FALSE
  /\ UNCHANGED <<rows, node>>

-----------------------------------------------------------------------------
Begins(p) ==
  \/ EndSubscription(p) \/ Renew(p) \/ DisableCustomer(p) \/ EnableCustomer(p)
  \/ \E u \in Users : \/ \E kind \in {"enable", "disable"} : SetEnabled(p, u, kind)
                       \/ Provision(p, u) \/ Remove(p, u) \/ Fetch(p, u)
                       \/ SignOut(p, u)
  \/ \E U \in SUBSET Users : Hold(p, U)

Step(p) ==
  \/ ReadRows(p) \/ Lease(p) \/ NoteSwitchOn(p) \/ SendCommand(p) \/ EndOp(p)
  \/ \E u \in Users : \/ SwitchOff(p, u) \/ SwitchOn(p, u) \/ Insert(p, u)
                       \/ Finished(p, u) \/ Abort(p, u) \/ Recheck(p, u)

SweepStep(q) ==
  \/ ReadLive(q) \/ SendAssert(q) \/ LookAgain(q) \/ Repeat(q) \/ EndSweep(q)
  \/ \E u \in Users : \/ Skip(q, u) \/ AssertNow(q, u) \/ AssertLifted(q, u)
                       \/ AssertStored(q, u)

Next ==
  \/ \E p \in Ops : Begins(p) \/ Step(p) \/ RemoveFails(p)
                    \/ \E u \in Users : SweepSessions(p, u)
  \/ \E u \in Users : Lapse(u) \/ Age(u)
  \/ \E q \in Sweeps : \/ Periodic(q) \/ Reconnect(q) \/ SweepStep(q)
                        \/ \E U \in SUBSET Users : LiftHold(q, U)
  \/ Execute \/ Disconnect \/ EngineRestarts \/ Restart

\* The backend finishes what it begins, its timers fire, the agent dials
\* again and carries out what it receives, and the margin passes.  Strong
\* where a bound of this module (one more operation, one more command on its
\* way) may stand in the way of what the code would do.
Fairness ==
  /\ \A p \in Ops : SF_vars(Step(p))
  /\ \A u \in Users : /\ SF_vars(\E p \in Ops : SweepSessions(p, u))
                      /\ WF_vars(Age(u))
  /\ \A q \in Sweeps : SF_vars(SweepStep(q))
  /\ SF_vars(\E q \in Sweeps : Periodic(q))
  /\ SF_vars(\E q \in Sweeps : Reconnect(q))
  /\ WF_vars(Execute)

Spec == Init /\ [][Next]_vars
FairSpec == Spec /\ Fairness

-----------------------------------------------------------------------------
(***************************************************************************)
(* Properties.                                                             *)
(***************************************************************************)
\* Rows, operations, re-asserts and commands have the shapes the code gives
\* them, and a lease is only ever on a credential.
TypeOK ==
  /\ row \in [Users -> {"none", "ACTIVE", "DISABLED", "gone"}]
  /\ paid \in BOOLEAN /\ enabled \in BOOLEAN /\ connected \in BOOLEAN
  /\ devices \subseteq Users /\ signedOut \subseteq devices
  /\ held \subseteq {u \in Users : Exists(u)} /\ fresh \subseteq Users /\ node \subseteq Users
  /\ op \in [Ops -> [kind : {"none", "disable", "enable", "create", "fetch",
                            "remove", "hold", "off"},
                    pc : {"idle", "rows", "lease", "next", "note", "send",
                          "write"},
                    todo : SUBSET Users, cur : SUBSET Users, lock : BOOLEAN,
                    then : {"none", "create", "off"}]]
  /\ sweep \in [Sweeps -> [kind : {"none", "periodic", "reconnect", "lift"},
                           pc : {"idle", "read", "next", "send", "after",
                                 "repeat"},
                           todo : SUBSET Users, cur : SUBSET Users,
                           off : SUBSET Users, since : SUBSET Users]]
  /\ wire \in Seq(Command)

AtRest ==
  /\ connected /\ wire = <<>>
  /\ \A p \in Ops : IsIdle(p)
  /\ \A q \in Sweeps : sweep[q].pc = "idle"

SweepDue(u) == u \in signedOut /\ Exists(u)

\* When everything that was begun is over, the node serves no credential whose
\* row is not live: "the credential stayed live there with no row behind it"
\* is what guardedReassert is for.
NothingLeftOn == AtRest => \A u \in node : u \in Live \/ SweepDue(u)

Says(i, u, what) == wire[i].user = u /\ wire[i].what = what

\* The node will have a credential once it has carried out what is on its way
\* now: it serves it or will be told to, and no switch-off comes after that.
WillServe(u) ==
  /\ u \in node \/ \E i \in DOMAIN wire : Says(i, u, "on")
  /\ \A i \in DOMAIN wire :
       Says(i, u, "off") => \E j \in DOMAIN wire : j > i /\ Says(j, u, "on")

\* A credential whose row is gone is off its node, or will be once it has
\* carried out what is on its way, but for a re-assert that was being sent
\* when it was removed and is about to take that back.
GoneIsOff ==
  \A u \in Users : row[u] = "gone" /\ WillServe(u) =>
    \E q \in Sweeps : /\ u \in sweep[q].cur
                      /\ \/ sweep[q].pc = "repeat"
                         \/ sweep[q].pc = "after" /\ u \in sweep[q].since

\* A credential that stays live is served in the end, whatever switched it off
\* or forgot it before: an engine that restarted empty, a hold, a disabled
\* account, a lost stream.
LiveIsServed ==
  <>[][~EngineRestarts]_vars =>
    \A u \in Users : <>[](u \in Live /\ connected) => <>[](u \in node)

\* The backend stays up, and removing a credential no longer fails.
Settled == <>[][~Restart /\ \A p \in Ops : ~RemoveFails(p)]_vars

\* A credential that stays dead is off in the end, although re-asserts go on.
DeadIsOff ==
  Settled =>
    \A u \in Users : <>[](u \notin Live /\ connected) => <>[](u \notin node)

\* A signed-out device's credentials go, however often removing them failed or
\* a restart cut it short before.
SignedOutGoes ==
  Settled => \A u \in Users : [](u \in signedOut => <>~Exists(u))

=============================================================================
