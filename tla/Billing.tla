------------------------------ MODULE Billing ------------------------------
(***************************************************************************)
(* The payments for one subscription and the time they buy                  *)
(* (apps/backend/src/modules/billing, subscriptions, usage): confirming a   *)
(* payment, renewing, App Store purchases, unpaid attempts that are reused  *)
(* or cancelled, gifts of time, and the sweeps that end a subscription.     *)
(* What a renewal does to credentials is in Credentials (Renew).            *)
(*                                                                         *)
(* Races names what the schedules of this instance may contain:             *)
(*   "renewals"  two handlers at once read the status or the expiry date and *)
(*               write what follows from it                                 *)
(*   "ending"    the status, the date or the usage moves under a sweep or a  *)
(*               usage report that found the subscription due               *)
(*   "stop"      the backend stops, or a query of it fails, between a        *)
(*               payment's confirmation and its renewal                     *)
(*   "unpaid"    an operator suspends, expires or cancels an attempt nobody *)
(*               paid for                                                  *)
(***************************************************************************)
EXTENDS Integers, FiniteSets

CONSTANTS Payments,  \* payments by card or coin, and App Store purchases
          Apple,     \* the purchases among them
          Tasks,     \* handlers that may run at once (a bound)
          Term,      \* how long one payment lasts
          MaxTime,   \* the clock stops here (a bound)
          MaxExpiry, \* no gift takes the expiry past this (a bound)
          None,      \* no payment
          Races      \* see above

ASSUME PaymentsAssumption == Apple \subseteq Payments /\ None \notin Payments
ASSUME TermAssumption == Term \in Nat \ {0} /\ MaxTime \in Nat /\ MaxExpiry \in Nat
ASSUME RacesAssumption == Races \subseteq {"renewals", "ending", "stop", "unpaid"}

VARIABLES
  now,      \* the clock
  status,   \* subscription.status                                 (Postgres)
  expireAt, \* subscription.expireAt                               (Postgres)
  over,     \* dataUsedBytes >= dataCapBytes                       (Postgres)
  tx,       \* the status of each payment's row                    (Postgres)
  task,     \* what each handler is doing                           (memory)
  paid,     \* payments the provider has the money of             (provider)
  declined, \* payments the provider called failed              (provider)
  given,    \* history: somebody gave the subscription its time
  renewed,  \* history: the terms added for each payment
  disturbed \* history: renewals to which what they read is no longer true

subscription == <<status, expireAt, over, given>>
system == <<now, status, expireAt, over, tx, task, paid, declined, given, renewed>>
vars == <<system, disturbed>>

Later(a, b) == IF a > b THEN a ELSE b

Idle == [pc |-> "idle", pay |-> None, until |-> 0, ends |-> "none"]

Init ==
  /\ now = 0
  /\ status \in {"PENDING", "ACTIVE"}
  /\ expireAt = Term
  /\ over = FALSE
  /\ tx = [p \in Payments |-> "none"]
  /\ task = [t \in Tasks |-> Idle]
  /\ paid = {}
  /\ declined = {}
  /\ given = (status = "ACTIVE")
  /\ renewed = [p \in Payments |-> 0]
  /\ disturbed = {}

-----------------------------------------------------------------------------
(***************************************************************************)
(* What is running, and which races it would add to.                       *)
(***************************************************************************)
IsIdle(t) == task[t].pc = "idle"

Goes(t, pc) == task' = [task EXCEPT ![t].pc = pc]

Ends(t) == task' = [task EXCEPT ![t] = Idle]

\* Nobody else has read an expiry that is still to be written.
DateIsFree ==
  "renewals" \notin Races =>
    \A t \in Tasks : task[t].pc \notin {"count", "extend", "gift", "refresh"}

\* Nobody is about to end the subscription for what it was.
NobodyEndsIt ==
  "ending" \notin Races => \A t \in Tasks : task[t].pc \notin {"chosen", "end"}

\* A payment that is confirmed is being renewed for.
Renewing(t) == task[t].pc \in {"read", "count", "extend"}

\* No other payment is being renewed for.
OneAtATime(p) ==
  "renewals" \notin Races => \A t \in Tasks : Renewing(t) => task[t].pay = p

-----------------------------------------------------------------------------
(***************************************************************************)
(* Payments.                                                               *)
(***************************************************************************)
\* A row, and then the provider is asked for a page or an address.
Pay(p) ==
  /\ p \notin Apple /\ tx[p] = "none"
  /\ tx' = [tx EXCEPT ![p] = "PENDING"]
  /\ UNCHANGED <<now, subscription, task, paid, declined, renewed>>

\* The customer pays, at once or after a first card was declined or the
\* provider had given the payment up.
MoneyArrives(p) ==
  /\ p \notin paid /\ (p \in Apple \/ tx[p] # "none")
  /\ paid' = paid \cup {p}
  /\ UNCHANGED <<now, subscription, tx, task, declined, renewed>>

ProviderGivesUp(p) ==
  /\ p \notin paid \cup declined \cup Apple /\ tx[p] # "none"
  /\ declined' = declined \cup {p}
  /\ UNCHANGED <<now, subscription, tx, task, paid, renewed>>

\* A webhook or a reconciliation says it failed, however late: one write.
MarkFailed(p) ==
  /\ p \in declined /\ tx[p] = "PENDING"
  /\ tx' = [tx EXCEPT ![p] = "FAILED"]
  /\ UNCHANGED <<now, subscription, task, paid, declined, renewed>>

\* Mutant: a payment that was written off stays so.
ConfirmablePendingOnly == {"PENDING"}

Confirmable == {"PENDING", "FAILED"}

\* Mutant: any outcome the provider reports is taken for a payment.
ConfirmAnyOutcome(t, p) ==
  /\ IsIdle(t) /\ p \in paid \cup declined /\ tx[p] \in Confirmable
  /\ task' = [task EXCEPT ![t].pc = "claim", ![t].pay = p]
  /\ UNCHANGED <<now, subscription, tx, paid, declined, renewed>>

\* A webhook, its redelivery or a reconciliation says it was paid.
Confirm(t, p) ==
  /\ IsIdle(t) /\ p \in paid /\ tx[p] \in Confirmable
  /\ task' = [task EXCEPT ![t].pc = "claim", ![t].pay = p]
  /\ UNCHANGED <<now, subscription, tx, paid, declined, renewed>>

\* Mutant: the row is written whatever it says by now.
ClaimBlind(t) ==
  /\ task[t].pc = "claim" /\ OneAtATime(task[t].pay)
  /\ tx' = [tx EXCEPT ![task[t].pay] = "CONFIRMED"] /\ Goes(t, "read")
  /\ UNCHANGED <<now, subscription, paid, declined, renewed>>

\* The conditional write: one delivery of a payment goes on.
Claim(t) ==
  /\ task[t].pc = "claim" /\ OneAtATime(task[t].pay)
  /\ IF tx[task[t].pay] \in Confirmable
     THEN tx' = [tx EXCEPT ![task[t].pay] = "CONFIRMED"] /\ Goes(t, "read")
     ELSE UNCHANGED tx /\ Ends(t)
  /\ UNCHANGED <<now, subscription, paid, declined, renewed>>

\* Mutant: what an unpaid attempt has ahead of it counts as time owned.
ExtendedFromProvisional(first, expiry) == Later(expiry, now) + Term

\* A renewal goes on from what is left, a first activation from now.
Extended(first, expiry) ==
  (IF first THEN now ELSE Later(expiry, now)) + Term

\* renewSubscription reads the row.  A cancelled one may never have been paid.
ReadRenewal(t) ==
  /\ task[t].pc = "read" /\ DateIsFree
  /\ task' =
       IF status = "CANCELLED"
       THEN [task EXCEPT ![t].pc = "count", ![t].until = expireAt]
       ELSE [task EXCEPT ![t].pc = "extend",
                         ![t].until = Extended(status = "PENDING", expireAt)]
  /\ UNCHANGED <<now, subscription, tx, paid, declined, renewed>>

CountPaid(t) ==
  /\ task[t].pc = "count"
  /\ LET first == \A p \in Payments \ {task[t].pay} : tx[p] # "CONFIRMED"
     IN task' = [task EXCEPT ![t].pc = "extend",
                             ![t].until = Extended(first, @)]
  /\ UNCHANGED <<now, subscription, tx, paid, declined, renewed>>

\* A fresh period: ACTIVE whatever it was, nothing used.
WriteRenewal(t) ==
  /\ task[t].pc = "extend" /\ NobodyEndsIt
  /\ status' = "ACTIVE" /\ expireAt' = task[t].until /\ over' = FALSE
  /\ given' = TRUE
  /\ renewed' = [renewed EXCEPT ![task[t].pay] = @ + 1]
  /\ Ends(t)
  /\ UNCHANGED <<now, tx, paid, declined>>

-----------------------------------------------------------------------------
(***************************************************************************)
(* Attempts and App Store purchases.                                       *)
(***************************************************************************)
\* createOrReusePending finds the attempt, for a customer who pressed Card or
\* Crypto again (None) or for a purchase no row was found of.  Another
\* subscription is made if there is none (and lives a life of its own).
Reuse(t, p) ==
  /\ IsIdle(t) /\ status = "PENDING" /\ DateIsFree
  /\ p # None => p \in paid /\ tx[p] = "none"
  /\ task' = [task EXCEPT ![t].pc = "refresh", ![t].pay = p,
                          ![t].until = now + Term]
  /\ UNCHANGED <<now, subscription, tx, paid, declined, renewed>>

Refresh(t) ==
  /\ task[t].pc = "refresh" /\ NobodyEndsIt
  /\ expireAt' = task[t].until
  /\ IF task[t].pay = None THEN Ends(t) ELSE Goes(t, "insert")
  /\ UNCHANGED <<now, status, over, given, tx, paid, declined, renewed>>

\* Apple's number for the purchase is unique: the first row of it is
\* confirmed, any other redemption answers with that one.
InsertPurchase(t) ==
  /\ task[t].pc = "insert"
  /\ IF tx[task[t].pay] = "none"
     THEN tx' = [tx EXCEPT ![task[t].pay] = "PENDING"] /\ Goes(t, "claim")
     ELSE UNCHANGED tx /\ Ends(t)
  /\ UNCHANGED <<now, subscription, paid, declined, renewed>>

\* An attempt nobody came back to.
CancelStale ==
  /\ status = "PENDING" /\ status' = "CANCELLED" /\ expireAt' = now
  /\ "renewals" \notin Races => \A t \in Tasks : task[t].pc # "refresh"
  /\ UNCHANGED <<now, over, given, tx, task, paid, declined, renewed>>

-----------------------------------------------------------------------------
(***************************************************************************)
(* Operators and gifts.                                                    *)
(***************************************************************************)
\* Days from an operator, or a reward for referrals: read, then written.
Gift(t) ==
  /\ IsIdle(t) /\ DateIsFree /\ Later(expireAt, now) < MaxExpiry
  /\ task' = [task EXCEPT ![t].pc = "gift", ![t].until = Later(expireAt, now) + 1]
  /\ UNCHANGED <<now, subscription, tx, paid, declined, renewed>>

WriteGift(t) ==
  /\ task[t].pc = "gift" /\ NobodyEndsIt
  /\ expireAt' = task[t].until /\ Ends(t)
  /\ UNCHANGED <<now, status, over, given, tx, paid, declined, renewed>>

SetStatus(s) ==
  /\ s \in {"ACTIVE", "SUSPENDED", "EXPIRED", "CANCELLED"} /\ s # status
  /\ ~given /\ s # "ACTIVE" => "unpaid" \in Races
  /\ "renewals" \notin Races => \A t \in Tasks : ~Renewing(t)
  /\ NobodyEndsIt
  /\ status' = s /\ given' = (given \/ s = "ACTIVE")
  /\ UNCHANGED <<now, expireAt, over, tx, task, paid, declined, renewed>>

\* A cap or a plan is changed, or the counter reset.
SetUsage(b) ==
  /\ over # b /\ over' = b /\ NobodyEndsIt
  /\ UNCHANGED <<now, status, expireAt, given, tx, task, paid, declined, renewed>>

-----------------------------------------------------------------------------
(***************************************************************************)
(* The end of a subscription.                                              *)
(***************************************************************************)
\* A usage report takes it over its cap.
Report(t) ==
  /\ IsIdle(t) /\ over' = TRUE
  /\ IF status = "ACTIVE"
     THEN task' = [task EXCEPT ![t].pc = "chosen", ![t].ends = "SUSPENDED"]
     ELSE UNCHANGED task
  /\ UNCHANGED <<now, status, expireAt, given, tx, paid, declined, renewed>>

SweepQuota(t) ==
  /\ IsIdle(t) /\ status = "ACTIVE" /\ over
  /\ task' = [task EXCEPT ![t].pc = "chosen", ![t].ends = "SUSPENDED"]
  /\ UNCHANGED <<now, subscription, tx, paid, declined, renewed>>

\* Mutant: the sweep takes the end of the day for the moment of expiry.
LapsedTooSoon == expireAt <= now + 1

Lapsed == expireAt < now

SweepExpiry(t) ==
  /\ IsIdle(t) /\ status = "ACTIVE" /\ Lapsed
  /\ task' = [task EXCEPT ![t].pc = "chosen", ![t].ends = "EXPIRED"]
  /\ UNCHANGED <<now, subscription, tx, paid, declined, renewed>>

\* The handler looks at the status once more, and only at that.
LookAtStatus(t) ==
  /\ task[t].pc = "chosen"
  /\ IF status = "ACTIVE" THEN Goes(t, "end") ELSE Ends(t)
  /\ UNCHANGED <<now, subscription, tx, paid, declined, renewed>>

WriteEnd(t) ==
  /\ task[t].pc = "end"
  /\ status' = task[t].ends /\ Ends(t)
  /\ UNCHANGED <<now, expireAt, over, given, tx, paid, declined, renewed>>

-----------------------------------------------------------------------------
Tick ==
  /\ now < MaxTime /\ now' = now + 1
  /\ UNCHANGED <<subscription, tx, task, paid, declined, renewed>>

\* The backend stops, or a query of this handler fails.
Stop(t) ==
  /\ ~IsIdle(t) /\ Ends(t)
  /\ "stop" \notin Races =>
        ~Renewing(t) /\ ~(task[t].pc = "claim" /\ task[t].pay \in Apple)
  /\ UNCHANGED <<now, subscription, tx, paid, declined, renewed>>

-----------------------------------------------------------------------------
Begins(t) ==
  \/ \E p \in Payments : Confirm(t, p)
  \/ \E p \in Apple \cup {None} : Reuse(t, p)
  \/ Gift(t) \/ Report(t) \/ SweepQuota(t) \/ SweepExpiry(t)

Step(t) ==
  \/ Claim(t) \/ ReadRenewal(t) \/ CountPaid(t) \/ WriteRenewal(t)
  \/ Refresh(t) \/ InsertPurchase(t) \/ WriteGift(t)
  \/ LookAtStatus(t) \/ WriteEnd(t)

Moves ==
  \/ \E p \in Payments : Pay(p) \/ MoneyArrives(p) \/ ProviderGivesUp(p)
                         \/ MarkFailed(p)
  \/ \E t \in Tasks : Begins(t) \/ Step(t) \/ Stop(t)
  \/ \E s \in {"ACTIVE", "SUSPENDED", "EXPIRED", "CANCELLED"} : SetStatus(s)
  \/ \E b \in BOOLEAN : SetUsage(b)
  \/ CancelStale \/ Tick

\* A renewal has read what it goes by, and is yet to write.
HasRead(t) == task[t].pc \in {"count", "extend"}

\* What it read has moved since, or another renewal was under way beside it.
Next ==
  /\ Moves
  /\ disturbed' = {t \in Tasks :
                     /\ HasRead(t)'
                     /\ \/ t \in disturbed
                        \/ HasRead(t) /\ <<status, expireAt>>' # <<status, expireAt>>
                        \/ \E u \in Tasks \ {t} : Renewing(u)'}

Spec == Init /\ [][Next]_vars

\* The backend goes on with what it began, and providers repeat themselves
\* until they are answered (an App Store purchase waits for its customer).
\* Strong where a bound of this module (Tasks) or another operation may stand
\* in the way.
Fairness ==
  /\ \A t \in Tasks : SF_system(Step(t))
  /\ \A p \in Payments \ Apple : SF_system(\E t \in Tasks : Confirm(t, p))

FairSpec == Spec /\ Fairness

-----------------------------------------------------------------------------
(***************************************************************************)
(* Properties.                                                             *)
(***************************************************************************)
\* Rows and handlers have the shapes the code gives them.
TypeOK ==
  /\ now \in Nat /\ expireAt \in Nat
  /\ status \in {"PENDING", "ACTIVE", "SUSPENDED", "EXPIRED", "CANCELLED"}
  /\ over \in BOOLEAN /\ given \in BOOLEAN
  /\ tx \in [Payments -> {"none", "PENDING", "FAILED", "CONFIRMED"}]
  /\ task \in [Tasks -> [pc : {"idle", "claim", "read", "count", "extend",
                               "refresh", "insert", "gift", "chosen", "end"},
                         pay : Payments \cup {None}, until : Nat,
                         ends : {"none", "SUSPENDED", "EXPIRED"}]]
  /\ \A t \in Tasks :
       /\ task[t].pay \in paid \cup {None}
       /\ task[t].pc \in {"claim", "read", "count", "extend", "insert"}
            => task[t].pay # None
       /\ task[t].pc \in {"chosen", "end"} => task[t].ends # "none"
  /\ paid \subseteq Payments /\ declined \subseteq Payments
  /\ renewed \in [Payments -> Nat]
  /\ disturbed \subseteq Tasks

\* A payment adds its term once, however many deliveries of its success race
\* each other, and only if the provider has the money.
OneTermPerPayment ==
  \A p \in Payments :
    /\ renewed[p] <= 1
    /\ renewed[p] = 1 => tx[p] = "CONFIRMED" /\ p \in paid

\* A payment is CONFIRMED for something: its term was added, or the handler
\* that confirmed it is about to.
ConfirmedForSomething ==
  \A p \in Payments :
    tx[p] = "CONFIRMED" =>
      renewed[p] = 1 \/ \E t \in Tasks : Renewing(t) /\ task[t].pay = p

\* What the subscription has left is the customer's.  Time that was given for
\* nothing is forfeited with a cancellation.
Owned == given /\ (status = "CANCELLED" => \E p \in Payments : renewed[p] > 0)

\* A renewal that no other overlapped, and under which the status and the date
\* stood still, adds one term to the time the customer owns, not less and not
\* two, whatever happened before it and beside it; an attempt nobody paid for
\* owns none, whatever date it carries.
TermsAddUp ==
  [][\A t \in Tasks \ disturbed : task[t].pc = "extend" /\ renewed' # renewed =>
       IF Owned /\ expireAt > now
       THEN expireAt' = expireAt + Term
       ELSE expireAt' <= now + Term]_vars

\* The sweeps and usage reports end a subscription only for what is true of it
\* when they do: its date has passed, or its data is used up.
EndedOnlyWhenDue ==
  [][\A t \in Tasks : task[t].pc = "end" /\ status' # status /\ task'[t].pc = "idle" =>
       IF task[t].ends = "EXPIRED" THEN expireAt < now ELSE over]_vars

\* Handlers are no longer cut short.
Settled == <>[][\A t \in Tasks : ~Stop(t)]_vars

\* Money that arrived buys its term, although the payment was written off
\* before or handlers of it were stopped.
PaidIsRenewed ==
  Settled => \A p \in Payments \ Apple : p \in paid ~> renewed[p] = 1

=============================================================================
