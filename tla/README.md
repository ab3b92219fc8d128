# Neoxify: a TLA+ verification project

This directory holds TLA+ models of the control plane and its clients, the TLC
configurations that check them on small instances, and proofs that TLAPS
checks for every instance. It is written for somebody who has the repository
open next to it. Paths below are relative to `apps/backend/src/modules/`
unless they start with a top-level directory.

Check a module with `tlc -workers 2 -config SlotsTwo.cfg MCDeviceSlots.tla`;
check the proofs with `tlapm DeviceSlotsProofs.tla`, and likewise
`SlotSetProofs`, `AgentOutboxProofs`, `CredentialsProofs`, `BillingProofs`,
`SlotSessionProofs`, `BackstopProofs` and `CustomerSessionsProofs`. Which part of the code each
definition stands for is in `PROJECT.json` under `map`.

## 1. Inventory of the system

A customer buys a subscription (plan, data cap, expiry date, device limit) from
the backend, signs in on several devices, and dials nodes with credentials that
the backend provisions on them through an agent on every node.

| Component | State it keeps | Operations | Talks to |
|---|---|---|---|
| Device slots (`device-slots/device-slots.service.ts`) | Redis hashes `slots:<sub>`, `slots-displaced:<sub>`, `slots-takeovers:<sub>`; a KeyedLock per subscription in memory | claim (with takeover), renew, release by handle, release of a session, of the others, of a subscription, of a customer | apps (HTTP), Postgres (sessions, subscription, plan), the backstop (announce) |
| Device state store (`device-slots/device-state.store.ts`) | Redis, and a copy in process memory used call by call when Redis fails | hset, hdel, hgetall, del with TTLs | slots, presence |
| Presence and backstop (`device-slots/device-presence.ts`, `usage/concurrency.service.ts`) | Redis `presence:<sub>`; strikes and overstaying devices in memory; `heldUntil` in Postgres | evaluate a usage report, hold, extend, lift on a grant, lift when quiet | slots (holders, displaced), gateway (DISABLE_USER / re-assert) |
| Device-slot session of the apps (`apps/desktop-windows/src/lib/device-slots.ts`, `device-slot-session.ts`, shared with mobile) | standing, epoch, handle, the pending release | claim within a budget, renewal timer, release and its watch, verdicts, late answers | slots API, the tunnel |
| Agent gateway (`agent-gateway/agent-gateway.service.ts`) | outbox rows (QUEUED, SENT, ACKED, FAILED) in Postgres; the registry of open streams and the last user command per credential in memory | enqueue, write, ack, Hello (replay, re-assert), periodic re-assert, sweep of stale nodes, stream close | node agents (one gRPC stream each), protocol users, usage |
| Protocol users (`protocol-users/protocol-users.service.ts`, `live-credentials.ts`) | credential rows (status, provisionedAt, heldUntil, session) | provision, per-device credentials and their cap, enable/disable, remove, switch route | gateway, sessions, subscriptions |
| Usage (`usage/usage.service.ts`) | used bytes, warnings sent | record a report, suspend for quota, expire, sweeps | gateway, slots, subscriptions |
| Subscriptions and billing (`subscriptions/`, `billing/`) | subscription (status, plan, expiry, used), payment transactions, invoices | create, change plan, set status, confirm payment, renew, refund | providers' webhooks, protocol users |
| Vouchers and referrals (`vouchers/`, `referrals/`) | redemption counts, credits | redeem, sweep, grant free time | subscriptions |
| Customer sessions (`customer-auth/`, `customers/`, `apps/desktop-windows/src/lib/api.ts`) | sessions, the account's token version, codes; in the app the stored pair and the renewal in flight | sign in, refresh, revoke, change and reset the password, disable, end others, device cap | protocol users, slots, apps |
| Node agent (`agent/internal/dispatch`, `controlplane`) | engines' users, rate limits and shaped addresses in memory | apply a command and ack it, reconnect with backoff, report usage | gateway, engines |
| Node engines (`agent/internal/protocols`, `relay`, `shaper`) | external programs' state | add and remove users, routes, caps | agent |
| Access control (`auth/`, `login-guard/`, `relay-auth/`) | failed attempts, proof-of-work challenges, MFA steps, relay accounts | log in, challenge, relay tokens | Redis, Postgres |
| Catalogue and reporting (`plans/`, `routes/`, `nodes/`, `invoices/`, `resellers/`) | Postgres rows | CRUD | everything |
| Reachability, block watch, recommendations | statistics per node and network | ingest attempts, raise and clear alerts | panel |
| Scheduled jobs (`jobs/`) | BullMQ schedules | the sweeps above | the components above |
| Desktop tunnel service (`apps/desktop-windows/service`) | engine processes, routes, firewall rules | connect, disconnect, recover, split tunnel, gaming mode | UI over a named pipe |
| Mobile and macOS apps, panel, portal, website, Discord bot, installer | presentation and platform glue | - | backend API |

What makes the hard parts hard:

- **One backend process, many awaits.** The lock, the registry of streams and
  the last-command notes are in memory and correct because there is one
  process; every `await` is still a place where another request runs, and a
  restart forgets all of them while Redis, Postgres and the nodes remember.
- **Postgres and Redis are never changed together.** A status is written, then
  slots are released, then credentials are disabled; a crash or a failure
  between two of them leaves a half-done change.
- **The apps never wait for ever.** A claim that does not answer in its budget
  is treated as permission; releases are sent and forgotten and may be carried
  out after what followed them.
- **The node is the enforcement.** What it serves is what was last executed
  there, in the order the stream delivered it, and it forgets its users when an
  engine restarts.

What makes each part correct, in a sentence: the holders of slots never exceed
the plan, nobody is stopped while there is room, and what is given is given
back (slots); a device that holds a slot is never cut off, and a device that is
cut off comes back when it may (backstop); the node serves exactly the
credentials whose rows are live, eventually, and a revoked credential never
comes back by itself (gateway); every payment extends the subscription once
(billing); a device stays signed in until its session is ended, and no longer
(sessions); a voucher is never redeemed more often than it allows (vouchers).

## 2. The modules

Each component has a module of its own, written to be proved about as well as
checked: parameters are CONSTANTS with named assumptions, one action per
operation or per step between two awaits, no RECURSIVE operator.

| Module | Component | Section |
|---|---|---|
| `DeviceSlots`, `SlotSet`, `MCDeviceSlots`, `DeviceSlotsProofs`, `SlotSetProofs` | device slots, and what they promise | 3 |
| `AgentOutbox`, `MCAgentOutbox`, `AgentOutboxProofs` | how a stored command reaches a node | 4 |
| `Credentials`, `MCCredentials`, `CredentialsProofs` | the rows of protocol users against what a node serves | 5 |
| `Billing`, `MCBilling`, `BillingProofs` | payments and the end of a subscription | 6 |
| `SlotSession`, `MCSlotSession`, `SlotSessionProofs` | the slot as the app of one device sees it | 7 |
| `Backstop`, `MCBackstop`, `BackstopProofs` | what the nodes report, strikes, holds and leases | 8 |
| `CustomerSessions`, `MCCustomerSessions`, `CustomerSessionsProofs` | tokens and sessions, at the backend and in the apps | 9 |

How they meet. They are not composed into one specification: its states would be
out of reach, and every interface is narrow. Each module takes of its neighbours
what they promise and no more:

- `Credentials` sends stored commands over the delivery of `AgentOutbox`: what
  is stored arrives in the order it was stored (`NothingStranded`,
  `LastCommandDecides`; the finding in section 4 is where that does not hold);
- `SlotSession` sees of the server the handle its device has, or none, and that
  a release frees only what it names, which is what `DeviceSlots` has
  (`LateReleaseFreesNothing` is the server's half of `NeverFreesItsOwn`);
- `Backstop` has a claim add a holder while there is room, and take over as many
  as it needs, as `SlotSet` has it, and `DeviceSlots` implements `SlotSet`; its
  holds, lifts and re-asserts are those of `Credentials` at a coarser grain;
- `Billing` writes the status whose effect on credentials is
  `EndSubscription` and `Renew` of `Credentials`, and on slots the expiry and
  the operator's `setStatus` of `DeviceSlots`;
- `CustomerSessions` revokes the sessions whose sign-out is in `DeviceSlots` and
  `Credentials`: there a session is revoked or not, and what a token needs to be
  good is no question.

Constants called `Races`. Several promises of this code hold as long as two
particular things do not overlap, and nothing in the code keeps them apart.
`Races` names such overlaps; a run has those its properties survive, and each
section says what each of the others breaks. It is a statement about the code,
found by adding them one at a time, and not a repair of it.

## 3. Device slots

### What is modelled

`DeviceSlots` models one subscription. A device is its session id, because
that is the key of the Redis hashes. Every operation is a *request* that goes
through the stages the code has:

1. it reads the database (`context`, device-slots.service.ts:585), and answers
   at once if the subscription is not active or the plan has no limit
   (`Claim`, `Renew`); releases read nothing (`Disconnect`, `SignOut`,
   `Expire`);
2. it joins the subscription's KeyedLock (`Enqueue`; the `queue` variable is
   the chain of promises in keyed-lock.ts);
3. at the head of the queue it reads the hash and decides (`ClaimAgain`,
   `ClaimTake`, `ClaimRefused`, `ClaimTooManyTakeovers`, `RenewKeep`,
   `RenewRegain`, `RenewDisplaced`, `ReleaseDrop`, `ReleaseNothing`: one action
   per outcome of the locked section), or the query for the signed-out holders
   throws (`TurnFails`);
4. it makes the Redis calls of that decision one step each, in the code's order
   (`Writes` is the table of orders; `DropSlots`, `MarkDisplaced`,
   `ForgetDisplaced`, `WriteHolder`);
5. it leaves the lock, and its answer reaches the app or does not (`Answer`,
   `AnswerLost`).

Between any two of those steps the rest of the system moves: another device's
request, a sign-out that revokes the session before it releases the slot, an
expiry that writes the status before it releases all slots, an operator's
`setStatus` (which releases none), a change of plan, a traffic report, the clock
(`Tick`), the loss of Redis or the expiry of its keys (`StoreLost`,
`DisplacedExpires`), and a restart of the backend (`Restart`), which ends every
request where it is and empties the queue while the hashes stay as they are.

| State | In the code |
|---|---|
| `signedIn`, `status`, `limit` | `customerSession.revokedAt`, `subscription.status`, `plan.maxConcurrentConnections` (0: unlimited) |
| `holders`, `handle`, `previous`, `quiet` | the fields of `slots:<sub>`: its keys, `handle`, `previousHandle`, and the age of the later of `lastRenew` and the last traffic |
| `displaced` | the keys of `slots-displaced:<sub>` |
| `queue`, `req` | the KeyedLock's chain and the local variables of the handlers |
| `up` | the devices whose app has its tunnel up |
| `late` | history: releases sent before their device's latest grant |

Time is relative: `quiet[d]` counts ticks since holder `d` was last seen and
stops one past `StaleAfter`, since the code compares it with nothing else.
Handles are numbers from a small set; a new one differs from every handle that
anybody still knows, which is all `newHandle()` (9 random bytes) is used for.

Left out: labels, platforms and the text of refusals; `since` and `tookOverAt`
(used for display and for the backstop's grace); the mode `DEVICE_SLOTS=off`
and apps too old to have a session, for which nothing is recorded; how many
takeovers the last hour saw (a takeover may always be one too many); the store's
fallback to memory (section 10), and with it the loss of Redis between two calls
of one locked section (`StoreLost` waits for the section to end). The session and the subscription are
read in one step, although the code reads one after the other, and so are the
reads inside the lock; nothing the code decides depends on a change between them
that a change before or after would not show.

### What is checked

| Run | Instance | Shows |
|---|---|---|
| `slots_two` | 2 devices, 2 requests in flight, limit 1 | `TypeOK`: the shape, and that only the first of those waiting is in the lock; `LockHandedOn`; `SlotLimit`; `NeverStoppedWithRoom`; `LateReleaseFreesNothing` |
| `slots_plan` | 3 devices, 1 request, limit moves between unlimited, 1 and 2 | `OnlyAsManyAsItTakes`: a takeover that names both holders takes no more than it needs; `ImplementsSlotSet` |
| `slots_live` | 2 devices, 1 request, limit 1, fairness | `UseConverges`, `SlotRegained` |

`LockHandedOn` is what keyed-lock.ts:19 promises ("one failed piece of work
cannot wedge the key for everyone after it"), as a safety property: the queue
consists of the requests that wait for the lock or have it, each once. A request
that is refused, finds nothing to do, throws, or ends with the process is off
the queue when it ends, so whoever is first is a request that can move, and with
the fairness of `Serve` the queue does. It is checked where there are two
requests to queue, and proved for any number.

`SlotSet` is what the slots promise: a set of devices in use and a set of those
put on record as displaced. A device enters only while there is room under some
limit the plan has, and not while it is on record; a displacement makes room for
exactly one. `ImplementsSlotSet` maps `using` to the holders and `shut` to the
displaced and those a takeover has dropped and is about to mark. Between the
claim that decides and the holder it writes, four Redis calls and a restart may
lie; each of them is a step or a stutter of `SlotSet`. Without the devices in
between (`BeingMarked`) the drop would be a plain departure and the mark a
punishment out of nothing. `NoDisplacedHolder` (nobody is in both hashes) and
`GrantWithinLimit` (who is let in finds room under the limit its own request
read) are proved and have no run of their own: the first follows from the
refinement, and the second is the guard of `Enter` with the limit named.

Bounds. Two requests in flight are enough for every overlap of two operations,
including a request that is waiting while the other writes; three devices and a
limit of two are the smallest instance in which a takeover can name more than it
needs. `Grants` holds as many handles as can be known at once (current and
previous handle of each device plus those in a request), so a grant is never
blocked for want of one. `StaleAfter` is 0 or 1: what matters is whether a
holder is within it, and with 1 a holder can also be older than another without
being stale. The liveness runs use no symmetry.

Fairness (`Fairness`). The backend's own steps (`Serve`) are weakly fair per
request: a promise that can run does. Renewal timers are strongly fair per
device: the app's interval keeps firing while its tunnel is up, and `Requests`,
which the code does not have, may not stand in its way. An app that goes on
asking is answered eventually (strong fairness of `Answer` per device), and
time passes. Nothing is assumed of customers, operators, Redis or restarts;
the liveness properties speak of what happens once those leave the system alone
(`<>[][~Disturb]_vars`), and `UseConverges` also assumes what the constants of
the code intend: that a device in use is seen at least every `STALE_AFTER_SEC`.

### Observations

Two sentences of the repository do not hold of the code to the letter. No run
expects them to fail; each can be seen by changing a configuration.

- **A renewal does not start with every slot free** (usage.service.ts:131).
  `suspendForQuota` and `expireSubscription` write the status and then release
  the slots; `claim` reads the status before it takes the lock. A claim that read
  ACTIVE in between writes its holder after the release, and the holder is still
  there when the customer renews. A restart between the two writes leaves all of
  them. The effect is bounded: such a holder counts only until it has been
  silent for 90 s. (Add `PROPERTY RenewalStartsFree` to `SlotsTwo.cfg`.)
- **A lower limit does not reach devices that already hold slots**
  (docs/device-slots.md:12). `renew` answers *held* to whoever is in the hash;
  after a downgrade from two devices to one, both keep their slots as long as
  they renew. (Set `Limits = {1, 2}` in `SlotsLive.cfg`.)

### What is proved

`DeviceSlotsProofs` proves, for every finite set of devices, any number of
requests in flight, any handles and any set of limits:
`TypeCorrect`, `LockAlwaysHandedOn`, `SlotLimitHolds`, `NoDisplacedHolderHolds`
(state invariants) and
`GrantsFit`, `TakeoversAreExact`, `StoppedOnlyWhenFull`,
`LateReleasesFreeNothing` (action properties).
The assumptions are the named ones of `DeviceSlots`, which TLC evaluates in
every run.

The argument. Neither `SlotLimit` nor `NoDisplacedHolder` is inductive: whether
`WriteHolder` keeps them depends on what the earlier steps of the same locked
section established. The inductive invariant `IInv` adds

- `LockInv`: whoever is past its turn is the head of the queue, so at most one
  request is between its decision and its last write;
- `PathInv`: its decision is one its operation can take, with the writes that
  decision makes;
- `RoomInv`: what the decision still knows: for a claim or a regained slot, the
  holders that are not about to be dropped are fewer than the limit the request
  read, and after the drop none of those to be dropped is a holder (so marking
  them displaced is safe); before the holder is written its own displacement
  record is gone; a repeated claim or a renewal is by a holder.

A step of a request outside the lock keeps all three because it touches neither
hash (`Outside`); a step inside is covered decision by decision (`TurnSafe`) and
call by call (`WriteSafe`); the loss of Redis is only possible, in the model,
when nobody is inside. The three action properties follow from `IInv` by finding
the only action that can make the step in question (`OneMoves`, `QueuedMoves`,
`OnlyWritesAdd`) and, for takeovers, from the arithmetic of
`TakeoverChoices` (`Takeovers`).

`LockAlwaysHandedOn` is inductive beside `IInv`: a step leaves the queue and who
waits as they are (`QueueStays`), adds a request that was not in it
(`QueueGrows`) or takes off the first, which is in it once (`QueueShrinks`);
that a turn or a write is one of the last two is `TurnHandsOn` and
`WriteHandsOn`.

`LateReleasesFreeNothing` needs two more parts, which with `IInv` make
`SlotInv`. `NameInv`: a release by handle names something only until its turn
has read the names, and frees only its own device. `LateInv`: a release that was
overtaken by a grant names none of the handles its device has, because a new
handle differs from every handle still named (`LateWrite`); so when its turn
comes either its device holds a slot under another handle and the release ends
there, or its device holds none and dropping it changes nothing (`LateTurn`),
and while it is in the lock nobody else can give its device a slot.

`SlotSetProofs` proves `Refinement`: `DeviceSlots` implements `SlotSet`, for the
same instances. `StepIs` finds for each action the step of `SlotSet` it
is (`DropIs`, `MarkIs`, `ForgetIs`, `WriteIs` for the writes in the lock): a drop that makes room is `Displace` (or `Leave`,
for a release), the mark that follows a stutter, `forget` is `Forgive`, the
write of a new holder `Enter`, `StoreLost` is `Lose`, and what expires or a
restart leaves behind forgives somebody or nobody. It takes `IInv` and one part
more, `TakenInv`: the devices a takeover is to drop are holders and leave one
less than the limit, from its decision to the drop, and no other request has any
to drop. (`SameCount` is needed because the `Cardinality` of `SlotSet` is an
instance's own.)

Only model-checked: the liveness properties, which are out of the prover's
reach.

## 4. The outbox of a node

### What is modelled

`AgentOutbox` models one node and the commands for one credential on it, in the
order their rows were created. The backend's half is `enqueueCommand`,
`handleAgentSync`, `replayQueuedCommands`, `handleCommandAck`,
`handleStreamClosed` (agent-gateway.service.ts) and the registry
(agent-connection-registry.ts); the agent's half is `Run`, `runStream` and
`receiveLoop` (agent/internal/controlplane/client.go).

| State | In the code |
|---|---|
| `row`, `kind`, `stripped` | `agent_commands`: `status`, the type (CREATE/ENABLE: on; DELETE/DISABLE: off), rows whose credentials were removed |
| `enq` | where each `enqueueCommand` is: its row is stored, it awaits the write of SENT, it is over |
| `registered` | the call the registry has for this node |
| `sync`, `todo`, `marking` | where each call's Hello is; the rows its replay has read and not yet written; whether it awaits the write of SENT |
| `noticed` | `closed` in `handleAgentSync` |
| `dialled`, `open`, `wire` | the agent's streams, one after another; the last one; what was written to it |
| `busy`, `acks` | the command `receiveLoop` is executing; acks on their way or being recorded |
| `node`, `executed` | what the node does; history of what it attempted |
| `late`, `orderly` | histories, read by no guard: commands acked while a handler that had read their rows was still to write to them; whether one of the last three races has happened since a command was issued with the outbox at rest |

One action per turn of the event loop between two awaits: `Enqueue` stores the
row; `WriteStored` writes to the stream in the turn after, `MarkSent` in the one
after that; `HelloDone` is the end of the status write, with the check of
`closed`; `ReplayRead`, `ReplayWrite`, `ReplayMark`, `ReplayDone` are the loop of
the replay; `CloseSeen` is the end of a stream as the backend sees it, which may
be long after the agent gave it up; `HandleAck` records an outcome. On the other
side `Dial`, `Take`, `Finish` and `Drop`; `LoseAck` and `Drop` lose what was
under way, `AgentStops` is a restart of the agent, in the middle of a command or
not, and `Restart` one of the backend. A write to a call that is
no longer open succeeds and delivers nothing.

A command the agent is executing when its call ends is finished; its ack is lost.

Left out: Hellos that are refused and database writes that fail (either destroys
the call, which is `Drop`); heartbeats, the stale-node sweep (which ends a call)
and statistics; the other kinds of command, and what the ack of a stored command
does besides (`markProvisioned`, the health of routes); the re-asserts that
follow the replay (after a reconnect they are rows too, each an enqueued command
like any other; the periodic ones are not stored, section 5); an
engine that restarts and forgets its users.

`Races` is a constant that names what the schedules of an instance may contain,
because the code's promises hold under some of them and not under others:

| Race | What it is | Why it can happen |
|---|---|---|
| `slow_hello` | a Hello is still being checked when the agent has given its call up and dials again | `setStatus` awaits the alert webhook; the close may be seen two minutes later |
| `overlap` | a replay, an ack or a command of the call given up is still being handled then | the agent redials after a second; the replay awaits a write per row |
| `mid_replay` | a command is being issued while a replay is running | the call is registered before the outbox is read |
| `write_order` | the database answers, or is written, in another order than it was asked | a pool of connections |

### What is checked

| Run | Instance | Shows |
|---|---|---|
| `outbox` | 2 commands, 2 calls, `mid_replay`, fairness | `TypeOK` (with: a closed call is not registered); `LiveCallRegistered`; `NothingStranded`; `EveryCommandAttempted`; `LastOrderlyDecides`; `StrippedNeverReplayed` |
| `outbox_mid_replay` | violation, `mid_replay` alone | `LastCommandDecides` |

A command that is given up may be followed by nothing; the last one issued decides
what the node does with it, if it was carried out at all (`LastCommandDecides`).
Each of the four races alone breaks that; `outbox_mid_replay` reports
`mid_replay`, which needs nothing but a command that is issued in the seconds
after a reconnect. What does hold is `LastOrderlyDecides`: the harm of an overlap ends when the
outbox comes to rest. Once a command is issued after that, `LastCommandDecides`
holds again until the next overlap. `outbox` has commands issued during replays, lost acks, drops at any
point and restarts of either side: an older command that is carried out a second
time is followed by the newer one, because the replay that sends it again sends
both.

`StrippedNeverReplayed` says that a row whose credentials are gone is pending
again only if its ack was recorded while an `enqueueCommand` or a replay that
had read the row was still to write it: that overlap, whatever the race that
makes room for it, and nothing else. `LiveCallRegistered` and `NothingStranded`
survive every race but `slow_hello`.

Bounds. `MaxCommands` and `MaxCalls` bound the commands issued and the streams
dialled; the last call stays up (`Drop`, `AgentStops` and `Restart` need another
one to dial), which is what lets the properties speak of a system that has come
to rest. Two commands are a pair to reorder, or one that overlapped and one that
is issued after the rest; two calls are an old and a new one. (Without the
temporal property, three commands with `mid_replay` or `write_order`, or with
`overlap`, pass too.) Deadlock is not checked:
with every command issued and the last call idle there is nothing left to do.

Fairness (`Fairness`): the backend's promises run, a call that ended is noticed
(keepalive, or the heartbeat's deadline), the agent redials for ever
(`nextBackoff` never gives up), and what is on an open stream arrives and is
acked. Nothing is assumed of `Enqueue`, `Drop`, `AgentStops`, `Restart` or
`LoseAck`.

### Finding and observations

- **A newer command can overtake an older one** (`outbox_mid_replay`). The call
  is in the registry before the replay has read the outbox, so a command issued
  meanwhile goes out between two replayed ones. "In the order it was created"
  and "re-sending a command that already landed is safe" hold of each command
  by itself and not of the pair: the removal of a user is executed before the
  replayed creation, and the user stays.
- **A command that was acked can be replayed without its credentials**
  (the `late` ones of `StrippedNeverReplayed`). The write of SENT has no condition
  on the row's status, so it can undo an ack recorded while the replay was
  running; the payload of that row is stripped already.
- **A slow Hello can leave a connected node unregistered** (`LiveCallRegistered`
  with `slow_hello`). The check of `closed` sees only its own stream, not
  that the node has a newer one. The registry ends up with the dead call, and
  after its close with none, while the live stream stays open: commands wait for
  the next reconnect.

### What is proved

`AgentOutboxProofs` proves, for any number of commands and calls and any
outcomes, `TypeCorrect`, `LiveCallStays`, `NoneStranded`, `StrippedStays` and
`LastDecides`; the second, third and fifth for any races other than `slow_hello`
(under which the second is false, see above).

The argument. `NothingStranded` is about the steps of the live call's replay, and
depends on what every other handler may still do to the stream and to the rows.
The inductive invariant `IInv` adds

- `HelloInv`: an earlier call whose Hello is still being checked was seen to
  end, so the end of that Hello registers nothing (this is what `slow_hello`
  takes away);
- `ReplayInv`: only a running replay has rows to write, and the one it is
  marking was written to the live call, when that replay is the live call's;
- `RowInv`: commands under way have rows, and an acked or failed one was
  attempted, so that the unconditional write of SENT revives no command that
  the node never saw.

Each action has a lemma that takes the parts of `IInv` one by one. The oldest
row of a replay exists because the commands are numbers (`FirstIsLeast`, from the
well-foundedness of `<`).

`TypeCorrect` and `StrippedStays` hold for every one of the races, `slow_hello`
included. `Recorded` is the invariant of the second: a row that was stripped
when no handler was still to write it is recorded, and neither an
`enqueueCommand` nor a replay has it left to write. `HandleAck` keeps it because
an ack that finds such a handler puts its command among the `late` ones, and
`ReplayRead` because it selects by status.

`LastDecides` proves `LastOrderlyDecides` for any races but `slow_hello`. Two
things are shown. While `orderly` holds, `OInv` does: acks, the command being
carried out, the stream, what the replay has yet to write and what
`enqueueCommand` has yet to write are one queue. And whatever overlapped, an
outbox that has come to rest satisfies every part of `OInv` but `Latest`
(`QuietIsOrdered`, from `Aux`), so that the next command issued begins a queue in
order. The parts of `OInv` need each other:

- `OneReplay`: only the last call replays, nothing is in flight before it does
  and nothing is issued meanwhile, which is what the absence of overlaps means
  for the state;
- `InOrder`: the queue is ordered, oldest first;
- `NothingLost`: while the call is open and its replay has begun, no unacked row
  is missing from the queue. It is false of a call that was lost, so it does not
  give
- `Prefix` by itself: rows are recorded in the order they were created, and an
  ack that was received, of a lost call too, has those of all older commands
  before it or recorded. `LoseAck` keeps it because a call loses its last acks;
- `Unsettled`: what is recorded is neither in flight nor about to be written or
  marked SENT, which is `StrippedNeverReplayed` made inductive;
- `Latest`: if the last command issued is recorded as done, or its ack is on its
  way, the node did it last (a command just issued is neither). The step that could break it is `Finish` of an
  older command, which `InOrder` and `Prefix` exclude.

Only model-checked: `EveryCommandAttempted` (liveness).

## 5. Credentials and their node

### What is modelled

`Credentials` models one subscription of one customer, its credentials and one
node. A credential is shared by the customer's devices or belongs to one
device, whose session can be signed out. Everything that switches a credential
on or off is an *operation* that works through the rows it read, one at a time,
and for each of them takes the code's steps in the code's order: for what
switches off, the note, the command, then the row; for what switches on, the
command, then the row; for what is made, the row, then the command.

| State | In the code |
|---|---|
| `row`, `devices`, `signedOut`, `held` | `protocolUser` rows and their status; those with a session; the session's `revokedAt`; `heldUntil` in the future |
| `paid`, `enabled` | the status of the subscription and of the customer |
| `op` | the local variables of suspension, expiry, renewal, `setStatus`, `setEnabled`, provisioning, removal, sign-out, the hourly sweep of sessions, `hold` |
| `sweep` | those of `reassertLiveCredentials`, `guardedReassert` and the lift of a hold |
| `fresh` | `lastUserCommand`: switched off within `OFF_RACE_MARGIN_MS` |
| `wire`, `connected`, `node` | commands on their way (stored or not), the stream, the users the node serves |

The guard of the re-assert is modelled as it is: a look at the last noted
command before the send, by time, and one after it, by number, with the
switch-off repeated if one was noted meanwhile (`Skip`, `AssertStored`,
`LookAgain`, `Repeat`). The periodic re-assert checks and writes in one turn
(`AssertNow`) and skips what is still queued. A row may be gone when the loop
comes to it, and `update` then throws and ends the whole loop (`Abort`); one
removal of a sign-out may fail and the rest go on (`RemoveFails`); an engine
forgets its users, the stream goes with what was not stored, and the backend
restarts.

Left out: the payload, addresses and the choice of routes; the confirmation that
an ack of a re-assert records (`provisionedAt`); the cap on devices.

### What is checked

| Run | Instance | Shows |
|---|---|---|
| `credentials_two` | 1 credential, 2 operations, 1 re-assert, `abort` | `TypeOK`; `NothingLeftOn`: at rest the node serves only live rows; `GoneIsOff`: a removed one is off, or its switch-off is on its way |
| `credentials_live` | 1 credential, 1 operation, 1 re-assert, fairness | `LiveIsServed`, `DeadIsOff`, `SignedOutGoes` |

What the races break. `NothingLeftOn` is violated with any one of them (`abort`
takes a second credential, and the run with one has it on):
`create` (a shared credential is made and not looked at again after its
CREATE_USER, while the subscription ends), `enable` (a credential is switched on
for what was read before), `lift` (the re-assert of a lifted hold has no second
look), `abort` (a removed row ends an expiry half-way) and `restart` (an
operation ends where it is, and nothing goes through the rest of its list). Each
is a hazard in `PROJECT.json` with its line.

Bounds. One credential is enough for the guard, which looks at one at a time;
two operations are the two ends of every race. Nothing begins while `MaxQueued`
commands wait, and an agent keeps its stream while so many stored ones do; no
order of two commands is hidden, because no operation needs more than two to
finish. A re-assert that goes down with its stream stays in its place on the
wire as "lost", and has no effect when its turn comes. Deadlock is not checked: everything may be over.

Fairness. Operations and re-asserts go on (promises), the two timers fire, the
agent redials and carries out what it is sent, and the margin passes. Strong
fairness is used where a bound of the model may stand in the way. Nothing is
assumed of customers, operators, restarts or engines; the properties speak of
what follows once restarts or engine restarts stop.

### What is proved

`CredentialsProofs` proves for any finite sets of credentials, operations and
re-asserts and any `MaxQueued`:

- `TypeCorrect`, whatever races are allowed;
- `GoneIsOffUnlessRaced`: `Spec => [](InOrder /\ [][Calm]_vars => []GoneIsOff)`;
- `NothingIsLeftOn`: the same of `NothingLeftOn`.

Neither assumes anything of `Races`: the schedule may contain all of them, and
the theorems are about stretches of a behaviour. `InOrder` says that nothing is
under way and that what the node serves is live, or is for the hourly sweep to
remove; it is so at the start, and may be so again at any time, whatever came
before. `Calm` is a step that overlaps nothing it could be disturbed by: it is
about the operations and re-asserts that run at that moment, and names the five
overlaps exactly (the constant `Aborts` says whether a removed row may end an
expiry half-way, which `GoneIsOff` survives and `NothingLeftOn` does not). So a
credential is left on only after a step of one of these kinds since things were
last in order; a switched-off credential that went wrong before does not spoil
what comes after it has been put right; and everything else (any number of
operations side by side, lost streams, restarted engines, failed removals, a
restart in the middle of a sign-out, holds that lapse) leaves nothing on. What an
overlap does leave on is in the hazards.

Both are about the end of an operation, but whether they hold is decided by
everything that ran beside it, so the inductive invariant has five parts, the last
for `NothingIsLeftOn` alone:

- `TInv`, the types, and what a record at rest looks like;
- `OInv`, the operations among themselves: each is formed as its kind and step
  demand, the rows it read still fit, and two that work on one credential are a
  pair the customer's lock and the kinds allow;
- `SInv`, the sweep and the operations: no lift beside a switch-off of the same
  credential, and a switch-off on the wire is a stored one;
- `GInv`, per credential: an operation past its note is known to be newer than
  what a re-assert read (`OffKnown`), one past its command has it on the wire
  behind whatever could undo it (`OffSent`), and a credential without a row
  stays that way until it is made again (`GoneStaysOff`);
- `DInv`, per credential: if the node serves it, or will, or a re-assert is to say
  that it is on, then it is live, or somebody is on the way to switch it off
  (`Covered`: an operation has it among its rows, or is making it under a
  subscription that is over, or enabling it; the hourly sweep), or its switch-off
  is noted and about to be sent, or a re-assert is about to take itself back. At
  rest only the first is left, and the hourly sweep's.

After a step that is one of these overlaps, `NothingLeftOn` may fail, as above,
until things are in order again.

## 6. Billing

### What is modelled

`Billing` models the payments for one subscription: `confirmPayment`,
`renewSubscription`, reconciliation, App Store redemption and
`createOrReusePending` (billing/), the cancellation of attempts nobody came back
to, gifts of time, operators' `setStatus` (subscriptions/), and the sweeps and
usage reports that end it (usage/). A *task* is a handler that is running; each
of its database calls is one action, and between any two everything else moves.

| State | In the code |
|---|---|
| `status`, `expireAt`, `over` | the subscription's status and date; used bytes against the cap |
| `tx` | the status of each payment's row; "none" before it is inserted |
| `task` | the local variables of the handlers: what was read and is to be written |
| `paid`, `declined` | what the provider knows |
| `given`, `renewed` | history: the customer owns its time; terms added per payment |
| `disturbed` | history: the renewals beside which another renewal was under way since they read, or whose status or date has moved |

### What is checked

Run `billing`: a payment by card and an App Store purchase, two handlers,
`MaxTime` 2, the race `renewals`, fairness. `TypeOK`; `OneTermPerPayment`;
`TermsAddUp`: a renewal adds one term to the time that is the customer's, and
the date of an unpaid attempt is nobody's; `EndedOnlyWhenDue`; `PaidIsRenewed`.

`TermsAddUp` speaks of the renewals that are not `disturbed`: no other renewal
was under way since they read, and the status and the date are what they read.
The run lets handlers read and write the same date in any order, and gifts,
reports, operators and late deliveries go on beside every renewal; whatever two
renewals did to each other, the next one that is alone is right again.

What the code does not promise, and no property says:

- `renewals`: two payments confirmed together both extend the date they read
  before either wrote; one term is lost (`TermsAddUp` without its exception for
  `disturbed`);
- `ending`: a sweep chose the subscription by its date, its handler looks at the
  status only; one renewed since the batch was read is expired all the same
  (`EndedOnlyWhenDue`);
- `stop`: CONFIRMED is one write and the renewal a later one, and every retry
  finds CONFIRMED and returns (`ConfirmedForSomething`, which is proved without
  this race and has no run of its own: `PaidIsRenewed` says more). The next
  payment then takes the earlier one for a term the customer owned, and adds to
  a date that is nobody's (`TermsAddUp`);
- `unpaid`: an operator who suspends, expires or cancels an attempt nobody paid
  for makes its date count as owned (`TermsAddUp`).

Bounds. Two payments of the two kinds that differ, two handlers (the two ends of
every race), a clock that goes past one term, so that a renewal can be early, at
the moment, and late. `MaxExpiry` bounds gifts only.

Fairness. Handlers go on; providers and the reconciliation repeat the success
of a card payment until it is answered. `PaidIsRenewed` is about those: an App
Store purchase is redeemed when its customer comes back to the app, which
nothing promises.

### What is proved

`BillingProofs` proves for any number of payments, purchases and handlers, any
term and bounds:

- `TypeCorrect` and `OneTermHolds`, under all races;
- `ConfirmedForSomethingHolds`, without `stop`;
- `TermsAddUpHolds`, with overlapping renewals and with `ending`, but without
  `stop` and without `unpaid`.

None of these assumptions can be spared: TLC finds each property violated when
any one of the races left out for it is let in.

The argument. `OneTermPerPayment` says nothing of a handler that has confirmed
and not yet renewed, so it is not inductive. `Terms` adds that whoever carries a
payment (is past its confirmation) carries one that is CONFIRMED and has no term
yet, and that no two handlers carry the same. `StepsSorted` reduces all
twenty-odd actions to three sorts: a step confirms one payment that was
confirmable and makes one handler carry it, or adds the term of the payment its
handler carries and lets go of it, or leaves confirmations and terms alone.
Each sort keeps `Terms`; only the lemma looks at single actions.

`TermsAddUp` needs the whole history. Its invariant, `AddUp`, has two parts:

- `GivenOnce`: an ACTIVE, SUSPENDED or EXPIRED subscription owns its time, a
  PENDING one does not, whatever has had a payment's term owns it, and so does
  one that somebody is about to end;
- `IsRight`, of every renewal that has read and is not disturbed: it is the only
  one with a payment to renew for, what it read to count is there still, and the
  date it is about to write is one term past what is owned.

A step of another handler that moves the status or the date disturbs the
renewal, and one that does not cannot change whose the time is, since only
another renewal could and none is under way (`OwnedStands`); the clock alone
takes nothing from a date about to be written (`StillRight`). The point is
`CountPaid`, by which the code decides whether a cancelled subscription's date
was ever paid for: it looks for another CONFIRMED payment. By
`ConfirmedForSomething` and `Terms` every other CONFIRMED payment has its term,
so the question is the right one; that is where `stop` would break it.
`MovesAre` sorts the handlers' actions by what they do to what a handler has
read, as `StepsSorted` does for the payments.

Only model-checked: `PaidIsRenewed` (liveness), and `EndedOnlyWhenDue`, which
holds only where the sweep's choice does not go stale: there nothing moves
between the choice and the end, and a proof would add little to the run.

## 7. The slot as the app sees it

### What is modelled

`SlotSession` models device-slot-session.ts with the calls the screens make of
it (apps/desktop-windows/src/screens/Dashboard.tsx, lib/device-slots.ts,
lib/auto-reconnect.ts), for one device, and the server as far as this device can
tell. A request is a record in `calls`, in the order of sending: it is served,
answered in time, answered after the app gave up, or lost.

| State | In the code |
|---|---|
| `target`, `standing`, `owes`, `retryClaim`, `lastGrant`, `confirmed` | `subscriptionId`, `standing`, `pendingTakeover`, `retryClaim`, `lastGrant`, the age of `lastConfirmedAt` |
| `cur` of a request | whether its epoch is the session's |
| `again`, `watch` | the repetitions of a release; what `giveBack` has yet to hear of |
| `pass`, `auto`, `tunnel`, `owed`, `attempt`, `slotLost` | the screen: connect and reconnect, its teardown, the teardown owed for the device limit |
| `slot` | server: the handle this device holds its slot under |

### What is checked

Run `session`: three handles, two requests under way, no race. `TypeOK`;
`OffIsGivenBack`: once a Disconnect and all it sent is answered, the server does
not count this device; `NeverFreesItsOwn`: no release frees the slot of a later
grant; `RefusedTunnelIsOwed`: a tunnel the limit ended is never left up with
nobody to take it down; `ChosenNotInTheWay`: a chosen takeover is forgotten only
by an answer to a claim that carried it.

`OffIsGivenBack` excepts what the app cannot know: while `doubt` is true, an
answer was missing or an error since all was last quiet, or a connect began with
an answer still out. The server then forgets the device by its silence
(`DeviceSlots`).

What the races break: `overtake` and `hasty` break `OffIsGivenBack` (the server
takes a claim after the one that replaced it; a connect is stopped in the half
second it gives a release, and the release names the handle before);
`late` breaks `NeverFreesItsOwn`: a slot set aside is released, the standing
check half a second later renews under the same handle, and the release arrives
after it.

Bounds. Two requests under way are a straggler and its successor; three handles
are the current, the previous and the next. Liveness is not checked: a straggler
can always be followed by another, and nothing promises the app an answer.
Deadlock is not checked: after the last answer the customer may rest.

### What is proved

`SlotSessionProofs` proves all five properties, for any handles and any number
of requests under way: `TypeCorrect`, `RefusedIsOwed` and `TakeoverIsTold` under
every race, `OwnSlotStays` where `late` is not among the races, `OffIsBack`
where neither `overtake` nor `hasty` is. Each theorem leaves out only the races
that TLC finds to break its property.

The argument. What an action does to the list of requests is said once: every
request of the new state is an old one that has aged, or one of those just sent
(`Heir`, `Heirs`, and `Carries`, which also keeps their order). Everything else
is about the new state's requests one at a time. Three inductive invariants rest
on one another.

- `IInv`, with `TypeOK`: how the screen and the session belong together
  (`ScreenOK`: a pass has a target and nothing is being torn down, a takeover is
  owed only while no slot is held), that an answer the app waits for belongs to
  this session and carries the takeover that is owed (`AwaitOK`), that one
  request at most stands for a pass of the connect (`OneOut`), and that what is
  to be released has a name (`LastOK`). `RefusedTunnelIsOwed` is one of its
  conjuncts; it is not inductive without the rest, because whether a teardown
  that is over may be forgotten depends on what the pass was doing.
- `GInv`, for `NeverFreesItsOwn`: while anything can still name a handle to be
  released, the slot is given back and nothing is asked (`Watching => GivenBack`),
  and neither an answer that grants a handle (`GrantsFree`) nor the session that
  holds one (`HeldFree`) shares it with a release on its way.
- `OInv`, for `OffIsGivenBack`: requests are served in their order, and while
  there is no doubt every answer on its way still matters, and a slot the server
  counts is traced (`Traced`): the latest answer says its handle, or the session
  knows it, or a release of it or a request that will say something else is on
  its way. With nothing on its way and no target none of these is left.

## 8. The backstop

### What is modelled

`Backstop` models concurrency.service.ts and device-presence.ts for one
subscription. Every device has a node, which reports every `Period` ticks at a
phase of its own, or loses a report. A report is stored (`Report`), the whole
subscription is read (`Read`), judged with strikes, kept leases and lifts
(`Judge`), and on the third strike each victim gets its lease (`HoldWrite`) and
then its DISABLE_USER (`HoldSend`). Slots are as far as the backstop sees them:
`Claim`, `Release`, `Renew`, `GoesQuiet`, `GraceEnds`; a grant lifts the hold
that is under a lease (`LiftOnGrant`), and the re-assert of every minute puts
back who is under none (`Reassert`).

| State | In the code |
|---|---|
| `seen`, `order` | `presence:<sub>`: last seen, and the order of `since` |
| `held`, `on` | `heldUntil`; what the node serves |
| `holders`, `live`, `displaced`, `lifting` | the slots, grace included, and grants whose lift is pending |
| `strikes`, `struck` | the in-memory strikes and the time of the last |
| `due`, `judging`, `moved`, `clock`, `phase` | reports, evaluations, and the bytes not reported yet |

Time is in ticks, and relative wherever the code compares ages. `backstop` has
15 s ticks (reports every 30 s, presence 45 s, gap 20 s rounded up, lease 90 s);
`backstop_switch` has 10 s ticks, which the gap is a multiple of.

Two judgements of one tick interleave step by step. What devices and customers do
falls between the judgements of one tick and the next tick; a grant in the
middle of a judgement is the race `racing`. Strikes stay in memory when all goes
quiet: only an evaluation within the limit clears them, and without reports
there is none. A claim may count holders that were seen up to 90 s ago, longer
than presence counts them.

Left out: the folding of shared traffic into a device (`resolveDevices`), the
credit of shared credentials, more than one credential per device, shadow mode
(the default: it judges the same and sends nothing).

### What is checked

| Run | Instance | Shows |
|---|---|---|
| `backstop` | a PC and a phone, both with the app, limit 1, one lost report, shared or one in use at a time, no race | `TypeOK`; `NeverCutsBelowLimit`; `NoTurns`; `OverLimitEnds`; `HeldComesBack` |
| `backstop_switch` | violation; a PC and a phone without slots, never in use at once | `CleanSwitchHoldsNobody` |

With `racing` the three safety properties still hold, and `OverLimitEnds` does
not: an evaluation extends by id the lease of a device that a grant has lifted
in between; it is on, counts as held, and is not judged again while another is
active. A DISABLE_USER that cannot be enqueued after its lease was written
leaves a device in the same place. With `lapsed` everything holds, and a device
that holds a slot may wait up to a minute for its node: after a lease ran out and
before the re-assert has put the device back, `liftOnGrant` selects no row
(`heldUntil > now`).

Bounds. Two devices over a limit of one are the smallest overlap; reports at one
phase or two cover a cycle of two ticks; one lost report is enough to leave a gap
in the strikes or in presence.

Fairness. Time passes (strong, since a tick waits for the judgements), nodes
report and evaluations run, a grace ends, a grant's lift and the re-assert are
carried out. No device has to do anything.

### What is proved

`BackstopProofs` proves `TypeCorrect` for any devices, limit, times and races,
and `HoldsLeaveEnough`, that is `NeverCutsBelowLimit`, where `racing` is not
among the races. Both are about a model in which devices come and go between
judgements only: `Release`, `Renew`, `GoesQuiet` and the end of a grace wait until
those of the tick are over (`Settled`). A holder that gives its slot back between
a judgement's reading (concurrency.service.ts:263) and its hold (395) is outside
the theorem.

The argument. `IInv` is `TypeOK` with what a judgement carries, and with one fact
about time: the third strike takes the strikes with it (`Spent`), and the gap
that must pass before the next one keeps a second judgement from holding anybody
in the same tick. `HInv` is what a judgement still knows of the devices when it
acts: until the tick is settled nobody is let in or leaves, so the devices it
counted are those that are there, and what it has chosen to hold leaves the limit
in use, before each of its writes as well as after. That it chose no more than
that is a count over the devices it read (`VictimsLeaveEnough`).

Only model-checked: the two liveness properties, and `NoTurns`. The latter is no
theorem of the module's assumptions, which ask only that a lease outlasts
presence: with three devices, a limit of two, presence of 2 ticks and a lease of
3 TLC finds two devices that take turns, for the lease ends before the reports
of the other are in. A lease of 4 has none, nor has the run's 6 over 3, which is
the code's 90 s over 45 s.

### Finding

- **A clean switch can look like two devices for long enough**
  (`backstop_switch`). The comment says 45 s keep a clean switch from collecting
  three strikes; the test has both nodes report at the same moment. With the
  phone's node reporting 10 s after the PC's, a PC put down just after a report
  still has bytes in its next one and counts for up to 75 s; counting from
  that report, the phone's at 10 s, the PC's own at 30 s and the phone's at 70 s,
  when the PC was last seen 40 s before, are three strikes at least 20 s apart. The
  device whose run of activity is the newer is held: as a rule the phone, which is
  the one in use. It takes a client without a slot, and enforce mode.

## 9. Sessions and their tokens

### What is modelled

`CustomerSessions` models the sign-ins of one customer: the rows of
`customerSession` and the account's `tokenVersion` (customer-auth.service.ts,
customers.service.ts), and the apps that hold a pair of tokens each
(apps/desktop-windows/src/lib/api.ts, auth.ts, session-end.ts). A pair names its
session, the version it was issued under, and which pair of that session it is.

Several requests of an app are under way at once. One that finds its access
token expired (`Unauthorized`) reads what is stored (`RenewSession`) and is sent
again with it, joins the renewal under way, or begins one; the renewal's answer
settles all who wait (`Renewed`, `Refused`, `Unavailable`). At the backend a
refresh reads the account (`Refresh`) and then the session, and mints the pair
(`Issue`); a change of password is four steps (`Keep`, `Commit`, `EndOthers`,
`OpenForChange`); a reset, an operator's new password and a disabled account are
one transaction (`Reset`, `Disable`) and a second revocation after it
(`EndSessions`), which may fail; a sign-in looks at the password and opens its
session later (`ValidateCredentials`, `OpenSession`). Any answer may be lost, and
an app may be closed at any moment.

| State | In the code |
|---|---|
| `version`, `active` | `customer.tokenVersion`, `customer.status` |
| `row` | `customerSession`: none yet, live, or with `revokedAt` |
| `newest` | history: the last pair issued to each session |
| `ending` | a transaction has committed and its `endSessions` is still to run |
| `screen`, `stored` | the screen of each app; its session.json |
| `request`, `renewing` | the local variables of `authenticatedAttempt`; `refreshInFlight` |
| `signIn` | the local variables of `login`, on both sides |
| `excused` | history: sessions that cannot be renewed although nobody ended them |

Left out: when a token expires (an access token may be found expired at any
time, and a refresh token does not run out); codes, second factors and sign-ins
through other providers; the cap on devices; the wording of failures. A wrong
current password is an answer like any other that changes nothing (`Lose`). An
app that is closed, or gets no answer, in the middle of a sign-in leaves out the
session the backend may still open for it: nobody has its tokens. A refresh that
the app gives up on (`Unavailable`) ends there, although the backend may still
carry it out: all it would do is note that the session was used and sign a pair
that reaches nobody, and neither a pair nor a session that somebody has is the
worse for it. Tokens from before sessions existed are not modelled.

### What is checked

Run `sessions`: an app with two requests at once and a second device that signs
in beside it; two sessions, two changes of the account, two pairs per session,
the race `late`. `TypeOK`: with it, every pair an app stores or is sent belongs
to a session; `OneRenewal`: one renewal at a time, and who waits, waits for one;
`RefusedForCause`: an app drops its session as refused only when it was ended;
`LiveIsCurrent`: what is not ended can be renewed.

`excused` is what the last two do not hold for. A session whose own change was
not told to its app (the answer was lost after the version moved) is refused at
the next renewal, which the code accepts; a sign-in looked at before a password
change or a disablement, and opened after it, leaves a session that is live and
can never be renewed, because it carries the version it read.

Bounds. The second device has no requests: what its change of the password would
do to the first, a reset does. Two requests are the one that begins a renewal
and the one that joins it or comes late; two sessions are a session and its
successor, or the two devices'; with two pairs per session a request can be
refused with the old pair and find the new one stored. `MaxVersion` allows a
change within a change. Deadlock is not checked: when nobody asks for anything
the sessions rest. Liveness is not checked: a request can always be lost.

What the race `change` breaks (`Races` with it): a refresh that was read before
the app's own change of the password, or a second change, may store its pair
over the new one (auth.ts:712-719), and the session is live and not current
(`LiveIsCurrent`), then refused without cause (`RefusedForCause`).

### What is proved

`CustomerSessionsProofs` proves, for any number of apps, requests, sessions and
changes: `TypeCorrect` and `OneRenewalHolds` for any races, `CausesHold`,
`OnlyForCause` (`RefusedForCause`) and `LiveStaysCurrent` (`LiveIsCurrent`)
without the race `change`, which breaks both.

`TypeOK` is inductive because the two conjuncts at its end carry through: a
refresh is sent with what is stored, and what is stored was a pair. `OneRenewal`
is inductive together with it: a step moves one request (`SetKeeps`, and under it
`OutsideKeeps`, `OnwardKeeps`, `OnwardWithKeeps`), or settles a renewal for all
who have to do with it (`SettleKeeps`), or touches none. `RenewSession` is the one
step that begins a renewal, and it looks again after what it awaited
(`BegunMeanwhile`).

Neither of the other two is inductive: a pair is stored long after it was minted,
and it may wait in a refresh, in a sign-in or in the answer to a change
meanwhile. `Causes` follows it there.

- `Owns`: a session is one app's, and is in one place of the two it can be in, a
  sign-in or among the tokens of the app.
- `Shaped` and `OnlyChange`: the backend has something for a request only while
  it is at it, and an app that changes the password has nothing else out (the
  race left out). With `Owns` they give `ChangeIsAlone`: nobody else holds a pair
  of a session whose password is being changed.
- `AllCurrent`: every pair of a usable session, one that is live, not excused and
  not being changed, is of the account's version, whether it is the last one
  issued, stored, in a sign-in, or what a refresh has; `ChangeCurrent`: so is the
  one a change brings, before it is stored.
- `DisabledEnds`: a disabled account has no live session but excused ones;
  `RefusalsStand`: what was refused is revoked or excused.

A step that moves neither the version nor a session's pair needs one fact of each
request (`Calm`) and `CalmStep`. The others are proved one by one. `Commit` moves
the version and leaves no usable session at all (`CommitCauses`): the kept one is
being changed until `Changed` stores its pair, when `ChangeCurrent` says that the
pair is the account's (`ChangedCauses`). A refusal is for cause because of the
two looks of a refresh: at the first the pair's version is the account's if the
session is usable (`RefreshCalm`), at the second the row says that it is revoked
(`DenyCalm`).

### Observations

Each was seen in a run with a property that says the opposite; none is a promise
of the code that a property here states.

- **A late refusal ends the next session in the app** (api.ts:2553). A request of
  a session that is over is refused (or finds nothing stored) and clears the
  tokens, whosever they are by then; a customer who has signed in again meanwhile
  is back at the sign-in screen, and the new session stays live at the backend.
- **A late renewal is stored after the sign-out** (api.ts:2405): a refresh that
  finishes after `endCustomerSession` leaves its pair on a device that is signed
  out, whose next start opens with it, or over the pair of the next sign-in.
- **A sign-out can revoke the next session** (api.ts:2450, auth.ts:658). Its 401
  arrives after the eight seconds; by then the stored pair is that of the next
  sign-in, and the request is sent again with it.
- **The second revocation can end a new sign-in** (customers.service.ts:188). A
  sign-in made with the new password between the transaction and `endSessions`
  is revoked with the old ones.

## 10. What is not modelled

- **The store's fallback to memory** (device-state.store.ts). Each Redis call
  falls back by itself and nothing is merged back, so no property of the slots
  holds across an outage; the code's comment says as much, and the model would
  only repeat it. `DeviceSlots` has the loss of Redis itself.
- **Provisioning and its cap** (protocol-users.service.ts): which routes a
  device gets, addresses, the number of devices with credentials of their own.
  `Credentials` begins where a credential is to be made.
- **Vouchers, referrals, refunds, plans' prices, invoices**: what they do to the
  subscription's time is `Gift` in `Billing`; redemption counters are not
  modelled. A voucher is counted as used before its subscription exists
  (vouchers.service.ts:222), and a failure of a later step spends the code.
- **Codes, second factors, other providers and the cap on devices** of
  `customer-auth/`: counters and comparisons within one request. What a revoked
  session does to slots and credentials is in `DeviceSlots` and `Credentials`.
- **The agent's dispatcher, shaper and relay, and the engines** (Xray,
  strongSwan, OpenVPN, WireGuard, `tc`): external programs whose state is not
  in this repository; what a command does to one credential is in `AgentOutbox`.
- **Access control, catalogue, reporting, statistics, jobs, user interfaces, the
  desktop's tunnel service, the installer**: CRUD, presentation, or calls into an
  operating system, with no protocol of their own between actors. They are most
  of the repository's lines.

`PROJECT.json` lists every component with its status and every hazard with the
properties about it, or a note on why there is none.
