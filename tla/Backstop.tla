------------------------------ MODULE Backstop ------------------------------
(***************************************************************************)
(* The backstop of the device limit                                         *)
(* (apps/backend/src/modules/usage/concurrency.service.ts): what the nodes  *)
(* report of one subscription's devices, the strikes that readings over the *)
(* limit add up to, the device that is then held off its node for a lease,  *)
(* and how a slot, or room, brings it back.                                 *)
(*                                                                         *)
(* Every device has a credential and a node of its own.  A device outside   *)
(* Apps claims nothing; Shared is the pseudo-device.  Time passes in        *)
(* ticks; what one report or one claim sets off is over before the next.    *)
(* A node reports every Period ticks, at a phase of its own.                *)
(*                                                                         *)
(* Races names what the schedules of this instance may contain:             *)
(*   "lapsed"    a device is granted a slot after its lease ran out and     *)
(*               before the re-assert of every minute has put it back       *)
(*   "racing"    a device is granted a slot while a report is judged        *)
(* Whatever else a device or its customer does falls between the judgements *)
(* of one tick and the next tick (a bound).                                 *)
(***************************************************************************)
EXTENDS Integers, Sequences, FiniteSets

CONSTANTS Devices, Apps, Shared,
          Limit,    \* the plan's maxConcurrentConnections
          Period,   \* ticks between two reports of a node
          Phases,   \* when the nodes' cycles begin, each possibility
          Fresh,    \* PRESENCE_FRESH_MS
          Gap,      \* MIN_STRIKE_GAP_MS
          Lease,    \* HOLD_LEASE_MS
          MaxLost,  \* reports that are lost (a bound)
          Starts,   \* who has the customer's devices in hand at first
          Races     \* see above

ASSUME DevicesAssumption == IsFiniteSet(Devices) /\ Apps \subseteq Devices /\ Shared \subseteq Devices \ Apps /\ Cardinality(Shared) <= 1
ASSUME TimesAssumption ==
  /\ {Limit, Period, Fresh, Gap, Lease} \subseteq Nat \ {0}
  /\ MaxLost \in Nat /\ Fresh < Lease
  /\ Phases \subseteq [Devices -> 0..Period - 1]
ASSUME RacesAssumption == Races \subseteq {"lapsed", "racing"}

VARIABLES
  user,      \* the device in the customer's hands; Anyone: any of them, at any time
  on,        \* its node serves its credential
  moved,     \* it may have sent something since its node's last report
  seen,      \* ticks since presence last recorded it
  order,     \* the devices by the start of their run of activity, oldest first
  held,      \* ticks its lease has left
  holders,   \* devices holding a slot
  live,      \* those of them that renewed lately
  displaced, \* "no", "grace", "past": its slot was taken over
  lifting,   \* granted a slot, holds not lifted yet
  strikes,
  struck,    \* ticks since the last strike
  clock, phase,
  due,       \* nodes about to report
  judging,   \* what becomes of each node's report
  lost,      \* reports lost so far
  raced      \* history: granted a slot in one of the moments Races names

presence == <<seen, order>>
slots == <<holders, live, displaced>>
tally == <<strikes, struck>>
reports == <<clock, phase, due, lost>>
vars == <<user, on, moved, presence, held, slots, lifting, tally, reports, judging, raced>>

StrikesBeforeAction == 3

Idle == [stage |-> "idle"]

\* The devices are shared: more than the plan allows may send at one moment.
Anyone == "anyone"

ASSUME StartsAssumption == Starts \subseteq Devices \cup {Anyone}

InHand(d) == user \in {d, Anyone}

\* Every report of this tick has arrived and has been judged.
Settled == due = {} /\ \A n \in Devices : judging[n] = Idle

Init ==
  /\ user \in Starts
  /\ on = [d \in Devices |-> TRUE]
  /\ moved = [d \in Devices |-> InHand(d)]
  /\ seen = [d \in Devices |-> Fresh + 1]
  /\ order \in {o \in [1..Cardinality(Devices) -> Devices] : Devices = {o[i] : i \in DOMAIN o}}
  /\ held = [d \in Devices |-> 0]
  /\ holders = {} /\ live = {} /\ displaced = [d \in Devices |-> "no"]
  /\ lifting = {} /\ strikes = 0 /\ struck = Gap
  /\ clock = 0 /\ due = {} /\ lost = 0
  /\ phase \in Phases
  /\ judging = [n \in Devices |-> Idle] /\ raced = {}

-----------------------------------------------------------------------------
(***************************************************************************)
(* The devices, and time.                                                  *)
(***************************************************************************)
\* The customer lays one device down and takes up another, not used lately, and
\* not while an earlier switch still shows.
Switch(d) ==
  /\ Settled /\ user \notin {d, Anyone} /\ seen[d] > Fresh /\ ~moved[d] /\ strikes = 0
  /\ user' = d /\ moved' = [moved EXCEPT ![d] = on[d]]
  /\ UNCHANGED <<on, presence, held, slots, lifting, tally, reports, judging, raced>>

Older(n) == IF n > Fresh THEN n ELSE n + 1

\* Mutant: a lease does not run out.
EndlessLease(n) == IF n > 1 THEN n - 1 ELSE n

Left(n) == IF n > 0 THEN n - 1 ELSE 0

Tick ==
  /\ Settled /\ lifting = {}
  /\ clock' = (clock + 1) % Period
  /\ due' = {d \in Devices : phase[d] = clock'}
  /\ seen' = [d \in Devices |-> Older(seen[d])]
  /\ held' = [d \in Devices |-> Left(held[d])]
  /\ struck' = IF struck < Gap THEN struck + 1 ELSE struck
  /\ raced' = {d \in raced : ~on[d]}
  /\ UNCHANGED <<user, moved, on, order, slots, lifting, strikes, phase, lost, judging>>

-----------------------------------------------------------------------------
(***************************************************************************)
(* Slots, as far as the backstop can tell.                                 *)
(***************************************************************************)
\* A claim counts a holder that renews or was seen lately; its "lately" is longer
\* than Fresh, so it may count others too.
InUse == {h \in holders : h \in live \/ seen[h] <= Fresh}

Grant(d, used, over) ==
  /\ holders' = (used \ over) \cup {d}
  /\ live' = (live \ over) \cup {d}
  /\ lifting' = lifting \cup {d}
  /\ LET offHold == held[d] = 0 /\ ~on[d] IN
     /\ offHold => "lapsed" \in Races
     /\ ~Settled => "racing" \in Races
     /\ raced' = IF offHold \/ ~Settled THEN raced \cup {d} ELSE raced
  /\ UNCHANGED <<user, moved, on, presence, held, tally, reports, judging>>

\* A claim, or a renewal that gives a slot back; with a takeover, as many go as
\* it takes, and one that had itself just taken over has no grace.
Claim(d, used, over) ==
  /\ d \in Apps /\ InUse \subseteq used /\ over \subseteq used \ {d}
  /\ IF d \in holders THEN used = holders /\ over = {}
     ELSE Cardinality(over) = (IF Cardinality(used) < Limit THEN 0
                               ELSE Cardinality(used) - Limit + 1)
  /\ Grant(d, used, over)
  /\ \E left \in [over -> {"grace", "past"}] :
       displaced' = [e \in Devices |-> IF e = d THEN "no"
                                       ELSE IF e \in over THEN left[e] ELSE displaced[e]]

Release(d) ==
  /\ Settled /\ (d \in holders \/ displaced[d] # "no")
  /\ holders' = holders \ {d} /\ live' = live \ {d}
  /\ displaced' = [displaced EXCEPT ![d] = "no"]
  /\ UNCHANGED <<user, on, moved, presence, held, lifting, tally, reports, judging, raced>>

Renew(d) ==
  /\ Settled /\ d \in holders \ live /\ live' = live \cup {d}
  /\ UNCHANGED <<user, moved, on, presence, held, holders, displaced, lifting, tally, reports,
                 judging, raced>>

GoesQuiet(d) ==
  /\ Settled /\ d \in live /\ live' = live \ {d}
  /\ UNCHANGED <<user, moved, on, presence, held, holders, displaced, lifting, tally, reports,
                 judging, raced>>

GraceEnds(d) ==
  /\ Settled /\ displaced[d] = "grace" /\ displaced' = [displaced EXCEPT ![d] = "past"]
  /\ UNCHANGED <<user, moved, on, presence, held, holders, live, lifting, tally, reports, judging,
                 raced>>

\* liftOnGrant: what is under a lease then is put back at once.
LiftOnGrant(d) ==
  /\ d \in lifting /\ lifting' = lifting \ {d}
  /\ held' = [held EXCEPT ![d] = 0]
  /\ on' = [on EXCEPT ![d] = on[d] \/ held[d] > 0]
  /\ moved' = [moved EXCEPT ![d] = moved[d] \/ (held[d] > 0 /\ InHand(d))]
  /\ UNCHANGED <<user, presence, slots, tally, reports, judging, raced>>

\* The re-assert of every minute.
Reassert(d) ==
  /\ held[d] = 0 /\ ~on[d] /\ on' = [on EXCEPT ![d] = TRUE]
  /\ moved' = [moved EXCEPT ![d] = moved[d] \/ InHand(d)]
  /\ UNCHANGED <<user, presence, held, slots, lifting, tally, reports, judging, raced>>

-----------------------------------------------------------------------------
(***************************************************************************)
(* A node's report, and the reading of it.                                 *)
(***************************************************************************)
\* Devices seen lately; the ones a hold keeps off are not counted.
Held == {d \in Devices \ holders : held[d] > 0}
Free == {d \in Devices : seen[d] <= Fresh} \ Held

\* Holders with no traffic showing: they count against a device whose slot was
\* taken over, and against nothing else.
Quiet == live \ Free
Overstaying == {d \in Free \ holders : displaced[d] = "past"}

\* Mutant: kept only while the others are over the limit themselves.
KeepWhenOver ==
  {d \in Held : Cardinality(Free) + (IF displaced[d] = "no" THEN 0 ELSE Cardinality(Quiet))
                  > Limit}

\* The holds to keep: the devices not held leave no room.
Keep ==
  {d \in Held : Cardinality(Free) + (IF displaced[d] = "no" THEN 0 ELSE Cardinality(Quiet))
                  >= Limit}

OverByTraffic == Cardinality(Free) > Limit

\* Mutant: one more than it takes.
OneTooMany ==
  IF OverByTraffic THEN Cardinality(Free) - Limit + 1
  ELSE LET room == Cardinality(Free) + Cardinality(Quiet) - Limit IN
       IF Cardinality(Overstaying) < room THEN Cardinality(Overstaying) ELSE room

Excess ==
  IF OverByTraffic THEN Cardinality(Free) - Limit
  ELSE LET room == Cardinality(Free) + Cardinality(Quiet) - Limit IN
       IF Cardinality(Overstaying) < room THEN Cardinality(Overstaying) ELSE room

Candidates == IF OverByTraffic THEN Free \ holders ELSE Overstaying

Outcome ==
  IF ~OverByTraffic /\ Excess <= 0 THEN "within"
  ELSE IF Candidates = {} THEN "nobody"
  ELSE IF \E d \in Candidates : displaced[d] = "grace" THEN "waits"
  ELSE "hold"

Tier(d) == IF displaced[d] # "no" THEN 0 ELSE IF d \in Shared THEN 1 ELSE 2

Place(d) == CHOOSE i \in DOMAIN order : order[i] = d

\* Held before another: taken over, then the shared device, then the newest.
Sooner(d, e) ==
  \/ Tier(d) < Tier(e)
  \/ Tier(d) = Tier(e) /\ Tier(d) # 0 /\ Place(d) > Place(e)

\* Which devices to hold: the first Excess of them (all, if there are fewer).
Victims ==
  {v \in SUBSET Candidates :
     /\ Cardinality(v) = Excess \/ (v = Candidates /\ Cardinality(v) < Excess)
     /\ \A d \in v, e \in Candidates \ v : ~Sooner(e, d)}

\* Begins a run of activity: the newest.
Newest(d) == [i \in DOMAIN order |-> IF i = Len(order) THEN d
                                     ELSE IF i < Place(d) THEN order[i] ELSE order[i + 1]]

\* A report without bytes of this device sets nothing off.
Report(d, bytes) ==
  /\ d \in due /\ judging[d] = Idle /\ due' = due \ {d} /\ (bytes => moved[d])
  /\ IF bytes
     THEN /\ seen' = [seen EXCEPT ![d] = 0]
          /\ order' = order \/ (seen[d] > Fresh /\ order' = Newest(d))
          /\ judging' = [judging EXCEPT ![d] = [stage |-> "read"]]
          /\ lifting # {} => "racing" \in Races
          /\ raced' = raced \cup lifting
     ELSE UNCHANGED <<presence, judging, raced>>
  /\ moved' = [moved EXCEPT ![d] = on[d] /\ InHand(d)]
  /\ UNCHANGED <<user, on, held, slots, lifting, tally, clock, phase, lost>>

\* The report does not arrive: its stream was down.
Miss(d) ==
  /\ d \in due /\ moved[d] /\ lost < MaxLost
  /\ lost' = lost + 1 /\ due' = due \ {d}
  /\ moved' = [moved EXCEPT ![d] = on[d] /\ InHand(d)]
  /\ UNCHANGED <<user, on, presence, held, slots, lifting, tally, clock, phase, judging, raced>>

\* evaluate: presence, holds and slots are read together.
Read(n) ==
  /\ judging[n].stage = "read"
  /\ \E v \in IF Outcome = "hold" THEN Victims ELSE {{}} :
       judging' = [judging EXCEPT ![n] =
         [stage |-> "judge", lift |-> {d \in holders : held[d] > 0}, extend |-> Keep,
          outcome |-> Outcome, victims |-> v]]
  /\ UNCHANGED <<user, moved, on, presence, held, slots, lifting, tally, reports, raced>>

Holding(left, out) == [stage |-> "hold", left |-> left, out |-> out]

\* Mutant: a reading within the gap begins the gap again.
GapBeginsAgain(outcome) ==
  IF outcome = "within" THEN [strikes |-> 0, struck |-> Gap, acts |-> FALSE]
  ELSE IF strikes > 0 /\ struck < Gap THEN [strikes |-> strikes, struck |-> 0, acts |-> FALSE]
  ELSE IF strikes + 1 < StrikesBeforeAction
       THEN [strikes |-> strikes + 1, struck |-> 0, acts |-> FALSE]
  ELSE IF outcome = "waits" THEN [strikes |-> StrikesBeforeAction - 1, struck |-> 0, acts |-> FALSE]
  ELSE [strikes |-> 0, struck |-> Gap, acts |-> outcome = "hold"]

\* Mutant: acts on the fourth.
TooPatient(outcome) ==
  IF outcome = "within" THEN [strikes |-> 0, struck |-> Gap, acts |-> FALSE]
  ELSE IF strikes > 0 /\ struck < Gap
       THEN [strikes |-> strikes, struck |-> struck, acts |-> FALSE]
  ELSE IF strikes < StrikesBeforeAction
       THEN [strikes |-> strikes + 1, struck |-> 0, acts |-> FALSE]
  ELSE [strikes |-> 0, struck |-> Gap, acts |-> outcome = "hold"]

\* One strike a cycle, however many nodes report; the third acts.  A wait keeps
\* the strikes: more than two are not told apart.
Strike(outcome) ==
  IF outcome = "within" THEN [strikes |-> 0, struck |-> Gap, acts |-> FALSE]
  ELSE IF strikes > 0 /\ struck < Gap
       THEN [strikes |-> strikes, struck |-> struck, acts |-> FALSE]
  ELSE IF strikes + 1 < StrikesBeforeAction
       THEN [strikes |-> strikes + 1, struck |-> 0, acts |-> FALSE]
  ELSE IF outcome = "waits" THEN [strikes |-> StrikesBeforeAction - 1, struck |-> 0, acts |-> FALSE]
  ELSE [strikes |-> 0, struck |-> Gap, acts |-> outcome = "hold"]

Judge(n) ==
  /\ judging[n].stage = "judge"
  /\ LET j == judging[n]
         s == Strike(j.outcome) IN
     /\ held' = [d \in Devices |-> IF d \in j.lift THEN 0 ELSE IF d \in j.extend THEN Lease
                                   ELSE held[d]]
     /\ on' = [d \in Devices |-> on[d] \/ d \in j.lift]
     /\ moved' = [d \in Devices |-> moved[d] \/ (d \in j.lift /\ InHand(d))]
     /\ strikes' = s.strikes /\ struck' = s.struck
     /\ judging' = [judging EXCEPT ![n] = IF s.acts THEN Holding(j.victims, {}) ELSE Idle]
  /\ UNCHANGED <<user, presence, slots, lifting, reports, raced>>

\* hold: the lease first, so that no re-assert puts back what is then cut.
HoldWrite(n, d) ==
  /\ judging[n].stage = "hold" /\ judging[n].out = {} /\ d \in judging[n].left
  /\ held' = [held EXCEPT ![d] = Lease]
  /\ judging' = [judging EXCEPT ![n] = Holding(@.left \ {d}, {d})]
  /\ UNCHANGED <<user, moved, on, presence, slots, lifting, tally, reports, raced>>

\* Its DISABLE_USER.
HoldSend(n) ==
  /\ judging[n].stage = "hold" /\ judging[n].out # {}
  /\ on' = [d \in Devices |-> on[d] /\ d \notin judging[n].out]
  /\ judging' = [judging EXCEPT ![n] = IF @.left = {} THEN Idle ELSE Holding(@.left, {})]
  /\ UNCHANGED <<user, moved, presence, held, slots, lifting, tally, reports, raced>>

-----------------------------------------------------------------------------
Judged(n) == Read(n) \/ Judge(n) \/ HoldSend(n) \/ \E d \in Devices : HoldWrite(n, d)

Next ==
  \/ Tick
  \/ \E d \in Devices :
       \/ Switch(d) \/ Release(d)
       \/ \E used \in SUBSET holders : \E over \in SUBSET used : Claim(d, used, over)
       \/ Renew(d) \/ GoesQuiet(d) \/ GraceEnds(d) \/ LiftOnGrant(d) \/ Reassert(d)
       \/ \E bytes \in BOOLEAN : Report(d, bytes)
       \/ Miss(d) \/ Judged(d)

Spec == Init /\ [][Next]_vars

\* Time passes, nodes report, and the backend finishes what it began; no device
\* ever has to do anything.
Fairness ==
  /\ SF_vars(Tick)
  /\ WF_vars(\E d \in Devices : Judged(d) \/ \E bytes \in BOOLEAN : Report(d, bytes))
  /\ SF_vars(\E d \in Devices : GraceEnds(d))
  /\ \A d \in Devices : WF_vars(LiftOnGrant(d)) /\ WF_vars(Reassert(d))

FairSpec == Spec /\ Fairness

-----------------------------------------------------------------------------
(***************************************************************************)
(* What holds.                                                             *)
(***************************************************************************)
\* Every variable has its type; two nodes are never both cutting, and whoever
\* was granted a slot holds one or was in a moment Races names.
TypeOK ==
  /\ user \in Devices \cup {Anyone} /\ on \in [Devices -> BOOLEAN]
  /\ moved \in [Devices -> BOOLEAN] /\ seen \in [Devices -> 0..Fresh + 1]
  /\ held \in [Devices -> 0..Lease]
  /\ holders \subseteq Apps /\ live \subseteq holders /\ Cardinality(InUse) <= Limit
  /\ displaced \in [Devices -> {"no", "grace", "past"}] /\ lifting \subseteq Apps
  /\ strikes \in 0..StrikesBeforeAction - 1 /\ struck \in 0..Gap
  /\ clock \in 0..Period - 1 /\ phase \in [Devices -> 0..Period - 1]
  /\ due \subseteq Devices /\ lost \in 0..MaxLost /\ raced \subseteq Devices
  /\ \A n \in Devices : judging[n].stage \in {"idle", "read", "judge", "hold"}
  /\ \A m, n \in Devices : judging[m].stage = "hold" /\ judging[n].stage = "hold" => m = n

\* A hold never leaves fewer than the plan's number in use: when a lease is
\* written, and the device has not just been granted a slot, the devices not held that send or renew still fill the plan.
NeverCutsBelowLimit ==
  [][\A n, d \in Devices : HoldWrite(n, d) /\ d \notin raced =>
       Cardinality({e \in Devices \ {d} : (held[e] = 0 \/ e \in holders) /\
                                          (seen[e] <= Fresh \/ e \in live)}) >= Limit]_vars

\* The held device and the one that stays do not take turns: a lease runs out
\* only when the devices not held have left room.
NoTurns ==
  [][Tick => \A d \in Devices \ holders : held[d] > 0 /\ held'[d] = 0 =>
       Cardinality({e \in Devices \ {d} : held[e] = 0 /\ seen[e] <= Fresh}) < Limit]_vars

\* However many reports are lost and whoever comes and goes: while the slots stay
\* with the same devices, more than the limit are not seen sending for ever.
OverLimitEnds ==
  \A H \in {A \in SUBSET Apps : Cardinality(A) <= Limit} :
    ~<>[](holders = H /\ Cardinality({d \in Devices : seen[d] <= Fresh}) > Limit)

\* Once no other device sends, a held one is back on its node, without a claim
\* or anything else from its side.
HeldComesBack ==
  \A d \in Devices : (<>[](\A e \in Devices \ {d} : seen[e] > Fresh)) => []<>on[d]

\* concurrency.service.ts:22-29: no device is held where only one device is ever
\* in use at a time.
CleanSwitchHoldsNobody == \A d \in Devices : held[d] = 0

=============================================================================
