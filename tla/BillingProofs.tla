--------------------------- MODULE BillingProofs ---------------------------
(***************************************************************************)
(* Proofs about Billing, for any number of payments, purchases and handlers *)
(* that run at once. A theorem that needs a race left out says which.       *)
(***************************************************************************)
EXTENDS Billing, TLAPS

Stages == {"idle", "claim", "read", "count", "extend", "refresh", "insert",
           "gift", "chosen", "end"}

TaskShape ==
  [pc : Stages, pay : Payments \cup {None}, until : Nat,
   ends : {"none", "SUSPENDED", "EXPIRED"}]

\* At these stages a handler acts for a payment.
Paying(r) == r.pc \in {"claim", "read", "count", "extend", "insert"}

TaskOK(r) ==
  /\ r.pay \in paid \cup {None}
  /\ Paying(r) => r.pay # None
  /\ r.pc \in {"chosen", "end"} => r.ends # "none"

TasksOK == task \in [Tasks -> TaskShape] /\ \A t \in Tasks : TaskOK(task[t])

RowsOK ==
  /\ now \in Nat /\ expireAt \in Nat
  /\ status \in {"PENDING", "ACTIVE", "SUSPENDED", "EXPIRED", "CANCELLED"}
  /\ over \in BOOLEAN /\ given \in BOOLEAN
  /\ tx \in [Payments -> {"none", "PENDING", "FAILED", "CONFIRMED"}]
  /\ paid \subseteq Payments /\ declined \subseteq Payments
  /\ renewed \in [Payments -> Nat]

LEMMA TypeParts == TypeOK <=> RowsOK /\ TasksOK /\ disturbed \subseteq Tasks
BY DEF TypeOK, RowsOK, TasksOK, TaskOK, TaskShape, Stages, Paying

-----------------------------------------------------------------------------
(***************************************************************************)
(* Dates.                                                                  *)
(***************************************************************************)
LEMMA LaterNat == ASSUME NEW a \in Nat, NEW b \in Nat PROVE Later(a, b) \in Nat
BY DEF Later

LEMMA ExtendedNat ==
  ASSUME NEW first \in BOOLEAN, NEW e \in Nat, now \in Nat
  PROVE  Extended(first, e) \in Nat
<1>1. Later(e, now) \in Nat /\ Term \in Nat
  BY LaterNat, TermAssumption
<1> QED  BY <1>1 DEF Extended

-----------------------------------------------------------------------------
(***************************************************************************)
(* Types.                                                                  *)
(***************************************************************************)
LEMMA TypeInit == ASSUME Init PROVE TypeOK
<1>1. RowsOK
  BY TermAssumption DEF Init, RowsOK
<1>2. TasksOK
  BY DEF Init, Idle, TasksOK, TaskOK, TaskShape, Stages, Paying
<1>3. disturbed \subseteq Tasks
  BY DEF Init
<1> QED  BY <1>1, <1>2, <1>3, TypeParts

LEMMA RowsStay ==
  ASSUME RowsOK, TasksOK, [Next]_vars PROVE RowsOK'
<1>u. CASE UNCHANGED vars
  BY <1>u DEF RowsOK, vars, system, subscription
<1>p. ASSUME NEW p \in Payments,
             Pay(p) \/ MoneyArrives(p) \/ ProviderGivesUp(p) \/ MarkFailed(p)
      PROVE  RowsOK'
  BY <1>p DEF RowsOK, Pay, MoneyArrives, ProviderGivesUp, MarkFailed, subscription
<1>s. ASSUME NEW s \in {"ACTIVE", "SUSPENDED", "EXPIRED", "CANCELLED"}, SetStatus(s)
      PROVE  RowsOK'
  BY <1>s DEF RowsOK, SetStatus
<1>b. ASSUME NEW b \in BOOLEAN, SetUsage(b) PROVE RowsOK'
  BY <1>b DEF RowsOK, SetUsage
<1>c. CASE CancelStale
  BY <1>c DEF RowsOK, CancelStale
<1>k. CASE Tick
  BY <1>k DEF RowsOK, Tick, subscription
<1>t. ASSUME NEW t \in Tasks, Begins(t) \/ Step(t) \/ Stop(t) PROVE RowsOK'
  <2>1. task[t].until \in Nat /\ task[t].ends \in {"none", "SUSPENDED", "EXPIRED"}
        /\ (Paying(task[t]) => task[t].pay \in Payments)
        /\ (task[t].pc = "end" => task[t].ends # "none")
    BY DEF TasksOK, TaskOK, TaskShape, RowsOK
  <2>2. ASSUME NEW p \in Payments, Confirm(t, p) PROVE RowsOK'
    BY <2>2 DEF RowsOK, Confirm, subscription
  <2>3. ASSUME NEW p \in Apple \cup {None}, Reuse(t, p) PROVE RowsOK'
    BY <2>3 DEF RowsOK, Reuse, subscription
  <2>4. CASE Gift(t)  BY <2>4 DEF RowsOK, Gift, subscription
  <2>5. CASE Report(t)  BY <2>5 DEF RowsOK, Report, subscription
  <2>6. CASE SweepQuota(t) \/ SweepExpiry(t)
    BY <2>6 DEF RowsOK, SweepQuota, SweepExpiry, subscription
  <2>7. CASE Claim(t)
    BY <2>1, <2>7 DEF RowsOK, Claim, Paying, subscription
  <2>8. CASE ReadRenewal(t) \/ CountPaid(t)
    BY <2>8 DEF RowsOK, ReadRenewal, CountPaid, subscription
  <2>9. CASE WriteRenewal(t)
    <3>1. task[t].pay \in Payments
      BY <2>1, <2>9 DEF WriteRenewal, Paying
    <3>2. renewed' \in [Payments -> Nat]
      BY <2>9, <3>1 DEF RowsOK, WriteRenewal
    <3> QED  BY <2>1, <2>9, <3>2 DEF RowsOK, WriteRenewal
  <2>10. CASE Refresh(t)  BY <2>1, <2>10 DEF RowsOK, Refresh
  <2>11. CASE InsertPurchase(t)
    <3>1. task[t].pay \in Payments
      BY <2>1, <2>11 DEF InsertPurchase, Paying
    <3> QED  BY <2>11, <3>1 DEF RowsOK, InsertPurchase, subscription
  <2>12. CASE WriteGift(t)  BY <2>1, <2>12 DEF RowsOK, WriteGift
  <2>13. CASE LookAtStatus(t)  BY <2>13 DEF RowsOK, LookAtStatus, subscription
  <2>14. CASE WriteEnd(t)  BY <2>1, <2>14 DEF RowsOK, WriteEnd
  <2>15. CASE Stop(t)  BY <2>15 DEF RowsOK, Stop, subscription
  <2> QED  BY <1>t, <2>2, <2>3, <2>4, <2>5, <2>6, <2>7, <2>8, <2>9, <2>10,
              <2>11, <2>12, <2>13, <2>14, <2>15 DEF Begins, Step
<1> QED  BY <1>u, <1>p, <1>s, <1>b, <1>c, <1>k, <1>t DEF Next, Moves

LEMMA TasksStay ==
  ASSUME RowsOK, TasksOK, [Next]_vars PROVE TasksOK'
<1> USE DEF TasksOK, TaskOK, Paying, TaskShape, Stages
<1>u. CASE UNCHANGED vars
  BY <1>u DEF vars, system
<1>p. ASSUME NEW p \in Payments,
             Pay(p) \/ MoneyArrives(p) \/ ProviderGivesUp(p) \/ MarkFailed(p)
      PROVE  TasksOK'
  BY <1>p DEF Pay, MoneyArrives, ProviderGivesUp, MarkFailed
<1>s. ASSUME NEW s \in {"ACTIVE", "SUSPENDED", "EXPIRED", "CANCELLED"}, SetStatus(s)
      PROVE  TasksOK'
  BY <1>s DEF SetStatus
<1>b. ASSUME NEW b \in BOOLEAN, SetUsage(b) PROVE TasksOK'
  BY <1>b DEF SetUsage
<1>c. CASE CancelStale
  BY <1>c DEF CancelStale
<1>k. CASE Tick
  BY <1>k DEF Tick
<1>t. ASSUME NEW t \in Tasks, Begins(t) \/ Step(t) \/ Stop(t) PROVE TasksOK'
  <2>0. task[t] \in TaskShape /\ TaskOK(task[t])
    OBVIOUS
  <2>m. ASSUME NEW r \in TaskShape, task' = [task EXCEPT ![t] = r], paid' = paid,
               TaskOK(r)
        PROVE  TasksOK'
    BY <2>m
  <2>e. ASSUME Ends(t), paid' = paid PROVE TasksOK'
    BY <2>e DEF Ends, Idle
  <2>g. ASSUME NEW pc \in Stages, Goes(t, pc), paid' = paid,
               pc \in {"chosen", "end"} => task[t].ends # "none",
               pc \in {"claim", "read", "count", "extend", "insert"} => task[t].pay # None
        PROVE  TasksOK'
    BY <2>g DEF Goes
  <2>2. ASSUME NEW p \in Payments, Confirm(t, p) PROVE TasksOK'
    <3>1. p # None  BY PaymentsAssumption
    <3> DEFINE r == [task[t] EXCEPT !.pc = "claim", !.pay = p]
    <3>2. r \in TaskShape /\ TaskOK(r) /\ paid' = paid
      BY <2>2, <2>0, <3>1 DEF Confirm, RowsOK
    <3>3. task' = [task EXCEPT ![t] = r]
      BY <2>2 DEF Confirm
    <3> HIDE DEF r
    <3> QED  BY <2>m, <3>2, <3>3
  <2>3. ASSUME NEW p \in Apple \cup {None}, Reuse(t, p) PROVE TasksOK'
    <3>1. now + Term \in Nat /\ p \in Payments \cup {None}
      BY TermAssumption, PaymentsAssumption DEF RowsOK
    <3> DEFINE r == [task[t] EXCEPT !.pc = "refresh", !.pay = p, !.until = now + Term]
    <3>2. r \in TaskShape /\ TaskOK(r) /\ paid' = paid
      BY <2>3, <2>0, <3>1 DEF Reuse, RowsOK
    <3>3. task' = [task EXCEPT ![t] = r]
      BY <2>3 DEF Reuse
    <3> HIDE DEF r
    <3> QED  BY <2>m, <3>2, <3>3
  <2>4. CASE Gift(t)
    <3>1. Later(expireAt, now) + 1 \in Nat
      BY LaterNat DEF RowsOK
    <3> QED  BY <2>4, <3>1 DEF Gift
  <2>5. CASE Report(t)
    <3>1. CASE status = "ACTIVE"
      BY <2>5, <3>1 DEF Report
    <3>2. CASE status # "ACTIVE"
      BY <2>5, <3>2 DEF Report
    <3> QED  BY <3>1, <3>2
  <2>6. CASE SweepQuota(t) \/ SweepExpiry(t)
    BY <2>6 DEF SweepQuota, SweepExpiry
  <2>7. CASE Claim(t)
    BY <2>7, <2>e, <2>g DEF Claim
  <2>8. CASE ReadRenewal(t)
    <3>1. Extended(status = "PENDING", expireAt) \in Nat /\ expireAt \in Nat
      BY ExtendedNat DEF RowsOK
    <3>2. CASE status = "CANCELLED"
      <4> DEFINE r == [task[t] EXCEPT !.pc = "count", !.until = expireAt]
      <4>2. r \in TaskShape /\ TaskOK(r) /\ paid' = paid
        BY <2>8, <2>0, <3>1, <3>2 DEF ReadRenewal, RowsOK
      <4>3. task' = [task EXCEPT ![t] = r]
        BY <2>8, <3>2 DEF ReadRenewal
      <4> HIDE DEF r
      <4> QED  BY <2>m, <4>2, <4>3
    <3>3. CASE status # "CANCELLED"
      <4> DEFINE n == Extended(status = "PENDING", expireAt)
      <4> DEFINE r == [task[t] EXCEPT !.pc = "extend", !.until = n]
      <4>2. r \in TaskShape /\ TaskOK(r) /\ paid' = paid
        BY <2>8, <2>0, <3>1, <3>3 DEF ReadRenewal, RowsOK
      <4>3. task' = [task EXCEPT ![t] = r]
        BY <2>8, <3>3 DEF ReadRenewal
      <4> HIDE DEF r
      <4> QED  BY <2>m, <4>2, <4>3
    <3> QED  BY <3>2, <3>3
  <2>9. CASE CountPaid(t)
    <3> DEFINE first == \A p \in Payments \ {task[t].pay} : tx[p] # "CONFIRMED"
    <3>1. task' = [task EXCEPT ![t].pc = "extend",
                               ![t].until = Extended(first, task[t].until)]
          /\ paid' = paid
      BY <2>9 DEF CountPaid
    <3>2. first \in BOOLEAN  OBVIOUS
    <3> HIDE DEF first
    <3>3. Extended(first, task[t].until) \in Nat
      BY <3>2, ExtendedNat DEF RowsOK
    <3> DEFINE r == [task[t] EXCEPT !.pc = "extend",
                                    !.until = Extended(first, task[t].until)]
    <3>4. r \in TaskShape /\ TaskOK(r) /\ paid' = paid
      BY <2>9, <2>0, <3>1, <3>3 DEF CountPaid
    <3>5. task' = [task EXCEPT ![t] = r]  BY <3>1
    <3> HIDE DEF r
    <3> QED  BY <2>m, <3>4, <3>5
  <2>10. CASE WriteRenewal(t) \/ WriteGift(t) \/ WriteEnd(t) \/ Stop(t)
    BY <2>10, <2>e DEF WriteRenewal, WriteGift, WriteEnd, Stop
  <2>11. CASE Refresh(t)
    BY <2>11, <2>e, <2>g DEF Refresh
  <2>12. CASE InsertPurchase(t)
    BY <2>12, <2>e, <2>g DEF InsertPurchase
  <2>13. CASE LookAtStatus(t)
    BY <2>13, <2>e, <2>g DEF LookAtStatus
  <2> QED  BY <1>t, <2>2, <2>3, <2>4, <2>5, <2>6, <2>7, <2>8, <2>9, <2>10,
              <2>11, <2>12, <2>13 DEF Begins, Step
<1> QED  BY <1>u, <1>p, <1>s, <1>b, <1>c, <1>k, <1>t DEF Next, Moves

\* Rows and handlers keep the shapes the code gives them, whatever the races.
THEOREM TypeCorrect == Spec => []TypeOK
<1>1. Init => TypeOK
  BY TypeInit
<1>2. TypeOK /\ [Next]_vars => TypeOK'
  <2> SUFFICES ASSUME TypeOK, [Next]_vars PROVE TypeOK'
    OBVIOUS
  <2>1. RowsOK /\ TasksOK /\ disturbed \subseteq Tasks
    BY TypeParts
  <2>2. RowsOK' /\ TasksOK'
    BY <2>1, RowsStay, TasksStay
  <2>3. disturbed' \subseteq Tasks
    BY <2>1 DEF Next, vars
  <2> QED
    BY <2>2, <2>3 DEF TypeOK, RowsOK, TasksOK, TaskOK, TaskShape, Stages, Paying
<1> QED  BY <1>1, <1>2, PTL DEF Spec

-----------------------------------------------------------------------------
(***************************************************************************)
(* One term for each payment.                                              *)
(***************************************************************************)
\* Handler t is adding the term of payment p.
Carries(t, p) == Renewing(t) /\ task[t].pay = p

\* A confirmed payment is with one handler at most, and with none once its term
\* was added: why two deliveries of it cannot both renew.
Terms ==
  \A p \in Payments :
    /\ tx[p] = "CONFIRMED" => p \in paid
    /\ renewed[p] <= 1
    /\ renewed[p] = 1 => tx[p] = "CONFIRMED"
    /\ \A t \in Tasks : Carries(t, p) => tx[p] = "CONFIRMED" /\ renewed[p] = 0
    /\ \A t, u \in Tasks : Carries(t, p) /\ Carries(u, p) => t = u

\* A step that confirms nothing and adds no term.
Quiet ==
  /\ renewed' = renewed /\ paid \subseteq paid'
  /\ \A p \in Payments : tx'[p] = "CONFIRMED" <=> tx[p] = "CONFIRMED"
  /\ \A t \in Tasks, p \in Payments :
       /\ Carries(t, p)' => Carries(t, p)
       /\ "stop" \notin Races => (Carries(t, p) => Carries(t, p)')

\* Handler t confirms payment p, and carries it.
Confirms(t, p) ==
  /\ p \in paid /\ tx[p] # "CONFIRMED" /\ tx' = [tx EXCEPT ![p] = "CONFIRMED"]
  /\ renewed' = renewed /\ paid' = paid
  /\ \A q \in Payments : ~Carries(t, q) /\ (Carries(t, q)' <=> q = p)
  /\ \A u \in Tasks \ {t}, q \in Payments : Carries(u, q)' <=> Carries(u, q)

\* Handler t adds the term of payment p.
Adds(t, p) ==
  /\ Carries(t, p) /\ renewed' = [renewed EXCEPT ![p] = @ + 1]
  /\ tx' = tx /\ paid' = paid
  /\ \A q \in Payments : ~Carries(t, q)'
  /\ \A u \in Tasks \ {t}, q \in Payments : Carries(u, q)' <=> Carries(u, q)

LEMMA StepsSorted ==
  ASSUME TypeOK, [Next]_vars
  PROVE  Quiet \/ \E t \in Tasks, p \in Payments : Confirms(t, p) \/ Adds(t, p)
<1>0. RowsOK /\ TasksOK
  BY TypeParts
<1>u. CASE UNCHANGED vars
  BY <1>u DEF vars, system, Quiet, Carries, Renewing
<1>p. ASSUME NEW p \in Payments,
             Pay(p) \/ MoneyArrives(p) \/ ProviderGivesUp(p) \/ MarkFailed(p)
      PROVE  Quiet
  <2>1. paid \subseteq paid' /\ renewed' = renewed /\ task' = task
    BY <1>p DEF Pay, MoneyArrives, ProviderGivesUp, MarkFailed
  <2>2. \A q \in Payments : tx'[q] = "CONFIRMED" <=> tx[q] = "CONFIRMED"
    BY <1>0, <1>p DEF RowsOK, Pay, MoneyArrives, ProviderGivesUp, MarkFailed
  <2> QED  BY <2>1, <2>2 DEF Quiet, Carries, Renewing
<1>s. ASSUME NEW s \in {"ACTIVE", "SUSPENDED", "EXPIRED", "CANCELLED"}, SetStatus(s)
      PROVE  Quiet
  BY <1>s DEF SetStatus, Quiet, Carries, Renewing
<1>b. ASSUME NEW b \in BOOLEAN, SetUsage(b) PROVE Quiet
  BY <1>b DEF SetUsage, Quiet, Carries, Renewing
<1>c. CASE CancelStale
  BY <1>c DEF CancelStale, Quiet, Carries, Renewing
<1>k. CASE Tick
  BY <1>k DEF Tick, Quiet, Carries, Renewing
<1>t. ASSUME NEW t \in Tasks, Begins(t) \/ Step(t) \/ Stop(t)
      PROVE  Quiet \/ \E p \in Payments : Confirms(t, p) \/ Adds(t, p)
  <2>0. task \in [Tasks -> TaskShape] /\ task[t] \in TaskShape
        /\ task[t].pay \in paid \cup {None} /\ (Paying(task[t]) => task[t].pay # None)
    BY <1>0 DEF TasksOK, TaskOK
  <2>p. Paying(task[t]) => task[t].pay \in Payments /\ task[t].pay \in paid
    BY <1>0, <2>0 DEF RowsOK
  \* A handler that stays away from payments, or keeps the one it carries.
  <2>q. ASSUME NEW r, task' = [task EXCEPT ![t] = r], tx' = tx, paid' = paid,
               renewed' = renewed,
               \/ /\ ~(r.pc \in {"read", "count", "extend"})
                  /\ "stop" \notin Races => ~Renewing(t)
               \/ /\ r.pc \in {"read", "count", "extend"}
                  /\ Renewing(t) /\ r.pay = task[t].pay
        PROVE  Quiet
    <3>1. task'[t] = r /\ \A u \in Tasks : u # t => task'[u] = task[u]
      BY <2>0, <2>q
    <3> QED  BY <2>q, <3>1 DEF Quiet, Carries, Renewing
  <2>1. ASSUME NEW p \in Payments, Confirm(t, p) PROVE Quiet
    <3> DEFINE r == [task[t] EXCEPT !.pc = "claim", !.pay = p]
    <3>1. task' = [task EXCEPT ![t] = r] /\ tx' = tx /\ paid' = paid /\ renewed' = renewed
      BY <2>1 DEF Confirm
    <3>2. r.pc = "claim" /\ ~Renewing(t)
      BY <2>0, <2>1 DEF Confirm, IsIdle, Renewing, TaskShape
    <3> HIDE DEF r
    <3> QED  BY <2>q, <3>1, <3>2
  <2>2. ASSUME NEW p \in Apple \cup {None}, Reuse(t, p) PROVE Quiet
    <3> DEFINE r == [task[t] EXCEPT !.pc = "refresh", !.pay = p, !.until = now + Term]
    <3>1. task' = [task EXCEPT ![t] = r] /\ tx' = tx /\ paid' = paid /\ renewed' = renewed
      BY <2>2 DEF Reuse, subscription
    <3>2. r.pc = "refresh" /\ ~Renewing(t)
      BY <2>0, <2>2 DEF Reuse, IsIdle, Renewing, TaskShape
    <3> HIDE DEF r
    <3> QED  BY <2>q, <3>1, <3>2
  <2>3. CASE Gift(t)
    <3> DEFINE r == [task[t] EXCEPT !.pc = "gift", !.until = Later(expireAt, now) + 1]
    <3>1. task' = [task EXCEPT ![t] = r] /\ tx' = tx /\ paid' = paid /\ renewed' = renewed
      BY <2>3 DEF Gift, subscription
    <3>2. r.pc = "gift" /\ ~Renewing(t)
      BY <2>0, <2>3 DEF Gift, IsIdle, Renewing, TaskShape
    <3> HIDE DEF r
    <3> QED  BY <2>q, <3>1, <3>2
  <2>4. CASE Report(t) \/ SweepQuota(t) \/ SweepExpiry(t)
    <3>1. tx' = tx /\ paid' = paid /\ renewed' = renewed /\ ~Renewing(t)
      BY <2>4 DEF Report, SweepQuota, SweepExpiry, IsIdle, Renewing
    <3>2. ASSUME NEW e \in {"SUSPENDED", "EXPIRED"},
                 task' = [task EXCEPT ![t].pc = "chosen", ![t].ends = e]
          PROVE  Quiet
      <4> DEFINE r == [task[t] EXCEPT !.pc = "chosen", !.ends = e]
      <4>1. task' = [task EXCEPT ![t] = r] /\ r.pc = "chosen"
        BY <2>0, <3>2 DEF TaskShape
      <4> HIDE DEF r
      <4> QED  BY <2>q, <3>1, <4>1
    <3>3. CASE task' = task
      BY <3>1, <3>3 DEF Quiet, Carries, Renewing
    <3> QED  BY <2>4, <3>2, <3>3 DEF Report, SweepQuota, SweepExpiry
  <2>5. ASSUME NEW pc \in Stages, Goes(t, pc), tx' = tx, paid' = paid,
               renewed' = renewed, ~Renewing(t), pc \notin {"read", "count", "extend"}
        PROVE  Quiet
    <3> DEFINE r == [task[t] EXCEPT !.pc = pc]
    <3>1. task' = [task EXCEPT ![t] = r] /\ r.pc = pc
      BY <2>0, <2>5 DEF Goes, TaskShape
    <3> HIDE DEF r
    <3> QED  BY <2>q, <2>5, <3>1
  <2>6. ASSUME Ends(t), tx' = tx, paid' = paid, renewed' = renewed,
               "stop" \notin Races => ~Renewing(t)
        PROVE  Quiet
    <3>1. task' = [task EXCEPT ![t] = Idle] /\ Idle.pc = "idle"
      BY <2>6 DEF Ends, Idle
    <3> QED  BY <2>q, <2>6, <3>1
  <2>7. CASE Claim(t)
    <3> DEFINE p == task[t].pay
    <3>1. p \in Payments /\ p \in paid /\ ~Renewing(t) /\ paid' = paid /\ renewed' = renewed
      BY <2>7, <2>p DEF Claim, Paying, Renewing
    <3>2. CASE tx[p] \in Confirmable
      <4> DEFINE r == [task[t] EXCEPT !.pc = "read"]
      <4>1. task' = [task EXCEPT ![t] = r] /\ r.pc = "read" /\ r.pay = p
        BY <2>0, <2>7, <3>2 DEF Claim, Goes, TaskShape
      <4>2. tx[p] # "CONFIRMED" /\ tx' = [tx EXCEPT ![p] = "CONFIRMED"]
        BY <2>7, <3>2 DEF Claim, Confirmable
      <4> HIDE DEF r
      <4>3. task'[t] = r /\ \A u \in Tasks : u # t => task'[u] = task[u]
        BY <2>0, <4>1
      <4>4. Confirms(t, p)
        BY <3>1, <4>1, <4>2, <4>3 DEF Confirms, Carries, Renewing
      <4> QED  BY <3>1, <4>4
    <3>3. CASE tx[p] \notin Confirmable
      BY <2>6, <2>7, <3>1, <3>3 DEF Claim
    <3> QED  BY <3>2, <3>3
  <2>8. CASE ReadRenewal(t) \/ CountPaid(t)
    <3>1. tx' = tx /\ paid' = paid /\ renewed' = renewed /\ Renewing(t)
      BY <2>8 DEF ReadRenewal, CountPaid, Renewing
    <3>2. \E pc \in {"count", "extend"} : \E n :
            task' = [task EXCEPT ![t].pc = pc, ![t].until = n]
      BY <2>8 DEF ReadRenewal, CountPaid
    <3>3. PICK pc \in {"count", "extend"} : \E n :
            task' = [task EXCEPT ![t].pc = pc, ![t].until = n]
      BY <3>2
    <3>4. PICK n : task' = [task EXCEPT ![t].pc = pc, ![t].until = n]
      BY <3>3
    <3> DEFINE r == [task[t] EXCEPT !.pc = pc, !.until = n]
    <3>5. task' = [task EXCEPT ![t] = r] /\ r.pc = pc /\ r.pay = task[t].pay
      BY <2>0, <3>4 DEF TaskShape
    <3> HIDE DEF r
    <3> QED  BY <2>q, <3>1, <3>5
  <2>9. CASE WriteRenewal(t)
    <3> DEFINE p == task[t].pay
    <3>1. p \in Payments /\ Carries(t, p)
      BY <2>9, <2>p DEF WriteRenewal, Paying, Carries, Renewing
    <3>2. task' = [task EXCEPT ![t] = Idle] /\ Idle.pc = "idle"
      BY <2>9 DEF WriteRenewal, Ends, Idle
    <3>3. task'[t] = Idle /\ \A u \in Tasks : u # t => task'[u] = task[u]
      BY <2>0, <3>2
    <3>4. tx' = tx /\ paid' = paid /\ renewed' = [renewed EXCEPT ![p] = @ + 1]
      BY <2>9 DEF WriteRenewal
    <3>5. Adds(t, p)
      BY <3>1, <3>2, <3>3, <3>4 DEF Adds, Carries, Renewing
    <3> QED  BY <3>1, <3>5
  <2>10. CASE WriteGift(t) \/ WriteEnd(t) \/ Stop(t)
    BY <2>6, <2>10 DEF WriteGift, WriteEnd, Stop, Renewing
  <2>11. CASE Refresh(t) \/ LookAtStatus(t)
    BY <2>5, <2>6, <2>11 DEF Refresh, LookAtStatus, Renewing, Stages
  <2>12. CASE InsertPurchase(t)
    <3> DEFINE p == task[t].pay
    <3>1. p \in Payments /\ ~Renewing(t) /\ paid' = paid /\ renewed' = renewed
      BY <2>12, <2>p DEF InsertPurchase, Paying, Renewing
    <3>2. CASE tx[p] = "none"
      <4> DEFINE r == [task[t] EXCEPT !.pc = "claim"]
      <4>1. task' = [task EXCEPT ![t] = r] /\ r.pc = "claim"
        BY <2>0, <2>12, <3>2 DEF InsertPurchase, Goes, TaskShape
      <4>2. tx' = [tx EXCEPT ![p] = "PENDING"]
        BY <2>12, <3>2 DEF InsertPurchase
      <4> HIDE DEF r
      <4>3. task'[t] = r /\ \A u \in Tasks : u # t => task'[u] = task[u]
        BY <2>0, <4>1
      <4>4. \A q \in Payments : tx'[q] = "CONFIRMED" <=> tx[q] = "CONFIRMED"
        BY <1>0, <3>1, <3>2, <4>2 DEF RowsOK
      <4> QED  BY <3>1, <4>1, <4>3, <4>4 DEF Quiet, Carries, Renewing
    <3>3. CASE tx[p] # "none"
      BY <2>6, <2>12, <3>1, <3>3 DEF InsertPurchase
    <3> QED  BY <3>2, <3>3
  <2> QED  BY <1>t, <2>1, <2>2, <2>3, <2>4, <2>7, <2>8, <2>9, <2>10, <2>11, <2>12
           DEF Begins, Step
<1> QED  BY <1>u, <1>p, <1>s, <1>b, <1>c, <1>k, <1>t DEF Next, Moves

LEMMA TermsKept ==
  ASSUME TypeOK, Terms, [Next]_vars PROVE Terms'
<1>0. RowsOK
  BY TypeParts
<1>1. CASE Quiet
  BY <1>1 DEF Terms, Quiet
<1>2. ASSUME NEW t \in Tasks, NEW p \in Payments, Confirms(t, p) PROVE Terms'
  <2>1. \A q \in Payments : tx'[q] = IF q = p THEN "CONFIRMED" ELSE tx[q]
    BY <1>0, <1>2 DEF RowsOK, Confirms
  <2>2. renewed[p] = 0 /\ \A u \in Tasks : ~Carries(u, p)
    BY <1>0, <1>2 DEF RowsOK, Terms, Confirms
  <2> QED  BY <1>2, <2>1, <2>2 DEF Terms, Confirms
<1>3. ASSUME NEW t \in Tasks, NEW p \in Payments, Adds(t, p) PROVE Terms'
  <2>1. \A q \in Payments : renewed'[q] = IF q = p THEN renewed[p] + 1 ELSE renewed[q]
    BY <1>0, <1>3 DEF RowsOK, Adds
  <2>2. tx[p] = "CONFIRMED" /\ renewed[p] = 0 /\ \A u \in Tasks \ {t} : ~Carries(u, p)
    BY <1>3 DEF Terms, Adds
  <2> QED  BY <1>3, <2>1, <2>2 DEF Terms, Adds
<1> QED  BY <1>1, <1>2, <1>3, StepsSorted

\* A payment adds its term once, for any number of deliveries of its success
\* that race each other, stop half-way and come again.
THEOREM OneTermHolds == Spec => []OneTermPerPayment
<1>1. Init => Terms
  BY DEF Init, Terms, Carries, Renewing, Idle
<1>2. TypeOK /\ Terms /\ [Next]_vars => Terms'
  BY TermsKept
<1>3. Terms => OneTermPerPayment
  BY DEF Terms, OneTermPerPayment
<1> QED  BY <1>1, <1>2, <1>3, TypeCorrect, PTL DEF Spec

-----------------------------------------------------------------------------
(***************************************************************************)
(* No payment is confirmed for nothing, unless the backend stops.          *)
(***************************************************************************)
LEMMA ForSomethingKept ==
  ASSUME "stop" \notin Races, TypeOK, Terms, ConfirmedForSomething, [Next]_vars
  PROVE  ConfirmedForSomething'
<1>0. RowsOK
  BY TypeParts
<1> DEFINE Carried(p) == \E t \in Tasks : Carries(t, p)
<1>a. \A p \in Payments : tx[p] = "CONFIRMED" => renewed[p] = 1 \/ Carried(p)
  BY DEF ConfirmedForSomething, Carries
<1> SUFFICES ASSUME NEW p \in Payments, tx'[p] = "CONFIRMED"
             PROVE  renewed'[p] = 1 \/ Carried(p)'
  BY DEF ConfirmedForSomething, Carries, Renewing
<1>1. CASE Quiet
  BY <1>1, <1>a DEF Quiet
<1>2. ASSUME NEW t \in Tasks, NEW q \in Payments, Confirms(t, q)
      PROVE  renewed'[p] = 1 \/ Carried(p)'
  <2>1. CASE p = q
    BY <1>2, <2>1 DEF Confirms
  <2>2. CASE p # q
    <3>1. tx[p] = "CONFIRMED" /\ renewed'[p] = renewed[p]
      BY <1>0, <1>2, <2>2 DEF RowsOK, Confirms
    <3>2. \A u \in Tasks : Carries(u, p) => u # t
      BY <1>2 DEF Confirms
    <3> QED  BY <1>a, <1>2, <3>1, <3>2 DEF Confirms
  <2> QED  BY <2>1, <2>2
<1>3. ASSUME NEW t \in Tasks, NEW q \in Payments, Adds(t, q)
      PROVE  renewed'[p] = 1 \/ Carried(p)'
  <2>1. CASE p = q
    <3>1. renewed[q] = 0
      BY <1>3 DEF Terms, Adds
    <3> QED  BY <1>0, <1>3, <2>1, <3>1 DEF RowsOK, Adds
  <2>2. CASE p # q
    <3>1. tx[p] = "CONFIRMED" /\ renewed'[p] = renewed[p] /\ ~Carries(t, p)
      BY <1>0, <1>3, <2>2 DEF RowsOK, Adds, Carries
    <3> QED  BY <1>a, <1>3, <3>1 DEF Adds
  <2> QED  BY <2>1, <2>2
<1> QED  BY <1>1, <1>2, <1>3, StepsSorted

\* As long as the backend does not stop between the two writes and they do not
\* fail, a confirmed payment has its term, or a handler that brings it.
THEOREM ConfirmedForSomethingHolds ==
  ASSUME "stop" \notin Races PROVE Spec => []ConfirmedForSomething
<1>1. Init => Terms /\ ConfirmedForSomething
  BY DEF Init, Terms, ConfirmedForSomething, Carries, Renewing, Idle
<1>2. TypeOK /\ Terms /\ [Next]_vars => Terms'
  BY TermsKept
<1>3. TypeOK /\ Terms /\ ConfirmedForSomething /\ [Next]_vars => ConfirmedForSomething'
  BY ForSomethingKept
<1> QED  BY <1>1, <1>2, <1>3, TypeCorrect, PTL DEF Spec

-----------------------------------------------------------------------------
(***************************************************************************)
(* A renewal adds one term, whatever runs beside it, if what it read is     *)
(* still so when it writes.                                                 *)
(***************************************************************************)
\* A handler becomes something else, and no other.
LEMMA TaskIs ==
  ASSUME TypeOK, NEW t \in Tasks, NEW r, task' = [task EXCEPT ![t] = r]
  PROVE  task'[t] = r /\ \A u \in Tasks \ {t} : task'[u] = task[u]
BY DEF TypeOK

Ending == {"chosen", "end"}

\* Time is given with the first status that has it, and with every renewal;
\* who is about to end the subscription found one that had it.
GivenOnce ==
  /\ status \in {"ACTIVE", "SUSPENDED", "EXPIRED"} => given
  /\ status = "PENDING" => ~given
  /\ \A p \in Payments : renewed[p] > 0 => given
  /\ \A t \in Tasks : task[t].pc \in Ending => given

\* One term on from what is owned.
OneTermOn(until) ==
  IF Owned /\ expireAt > now THEN until = expireAt + Term ELSE until <= now + Term

\* Handler t counts what is there, or is about to write one term on, and is
\* the only one with a payment to renew for.
IsRight(t) ==
  /\ \A u \in Tasks \ {t} : ~Renewing(u)
  /\ task[t].pc = "count" => status = "CANCELLED" /\ task[t].until = expireAt
  /\ task[t].pc = "extend" => OneTermOn(task[t].until)

AddUp == GivenOnce /\ \A t \in Tasks \ disturbed : HasRead(t) => IsRight(t)

\* What a step of a handler may make of it.
HandlerMoves(t) ==
  /\ \A u \in Tasks \ {t} : task'[u] = task[u]
  /\ HasRead(t)' => ReadRenewal(t) \/ CountPaid(t)
  /\ task'[t].pc \in Ending => task[t].pc \in Ending \/ status = "ACTIVE"

LEMMA MovesAre ==
  ASSUME TypeOK, NEW t \in Tasks, Begins(t) \/ Step(t) \/ Stop(t)
  PROVE  HandlerMoves(t)
<1> DEFINE Harmless == {"claim", "refresh", "gift", "read", "insert", "idle"}
<1>r. ASSUME NEW r, task' = [task EXCEPT ![t] = r], r.pc \in Harmless
      PROVE  HandlerMoves(t)
  BY <1>r, TaskIs DEF HandlerMoves, HasRead, Ending
<1>e. ASSUME Ends(t) PROVE HandlerMoves(t)
  BY <1>e, <1>r DEF Ends, Idle
<1>g. ASSUME NEW pc \in Harmless, Goes(t, pc) PROVE HandlerMoves(t)
  <2> DEFINE r == [task[t] EXCEPT !.pc = pc]
  <2>1. task' = [task EXCEPT ![t] = r] /\ r.pc = pc
    BY <1>g DEF Goes, TypeOK
  <2> HIDE DEF r, Harmless
  <2> QED  BY <1>g, <1>r, <2>1
<1>1. ASSUME NEW p, Confirm(t, p) PROVE HandlerMoves(t)
  <2> DEFINE r == [task[t] EXCEPT !.pc = "claim", !.pay = p]
  <2>1. task' = [task EXCEPT ![t] = r] /\ r.pc \in Harmless
    BY <1>1 DEF Confirm, TypeOK
  <2> HIDE DEF r, Harmless
  <2> QED  BY <1>r, <2>1
<1>2. ASSUME NEW p, Reuse(t, p) PROVE HandlerMoves(t)
  <2> DEFINE r == [task[t] EXCEPT !.pc = "refresh", !.pay = p, !.until = now + Term]
  <2>1. task' = [task EXCEPT ![t] = r] /\ r.pc \in Harmless
    BY <1>2 DEF Reuse, TypeOK
  <2> HIDE DEF r, Harmless
  <2> QED  BY <1>r, <2>1
<1>3. CASE Gift(t)
  <2> DEFINE r == [task[t] EXCEPT !.pc = "gift", !.until = Later(expireAt, now) + 1]
  <2>1. task' = [task EXCEPT ![t] = r] /\ r.pc \in Harmless
    BY <1>3 DEF Gift, TypeOK
  <2> HIDE DEF r, Harmless
  <2> QED  BY <1>r, <2>1
<1>4. CASE Report(t) \/ SweepQuota(t) \/ SweepExpiry(t)
  <2>1. ASSUME NEW e, task' = [task EXCEPT ![t].pc = "chosen", ![t].ends = e],
               status = "ACTIVE"
        PROVE  HandlerMoves(t)
    <3> DEFINE r == [task[t] EXCEPT !.pc = "chosen", !.ends = e]
    <3>1. task' = [task EXCEPT ![t] = r] /\ r.pc = "chosen"
      BY <2>1 DEF TypeOK
    <3> HIDE DEF r
    <3> QED  BY <2>1, <3>1, TaskIs DEF HandlerMoves, HasRead, Ending
  <2>2. ASSUME task' = task, IsIdle(t) PROVE HandlerMoves(t)
    BY <2>2 DEF HandlerMoves, IsIdle, HasRead, Ending
  <2> QED  BY <1>4, <2>1, <2>2 DEF Report, SweepQuota, SweepExpiry
<1>5. CASE LookAtStatus(t)
  <2>1. ASSUME Goes(t, "end") PROVE HandlerMoves(t)
    <3> DEFINE r == [task[t] EXCEPT !.pc = "end"]
    <3>1. task' = [task EXCEPT ![t] = r] /\ r.pc = "end"
      BY <2>1 DEF Goes, TypeOK
    <3>2. task[t].pc \in Ending
      BY <1>5 DEF LookAtStatus, Ending
    <3> HIDE DEF r
    <3> QED  BY <3>1, <3>2, TaskIs DEF HandlerMoves, HasRead, Ending
  <2> QED  BY <1>5, <1>e, <2>1 DEF LookAtStatus
<1>6. CASE ReadRenewal(t) \/ CountPaid(t)
  <2>1. \E pc \in {"count", "extend"} : \E n : task' = [task EXCEPT ![t].pc = pc, ![t].until = n]
    BY <1>6 DEF ReadRenewal, CountPaid
  <2>p. PICK pc \in {"count", "extend"} : \E n : task' = [task EXCEPT ![t].pc = pc, ![t].until = n]
    BY <2>1
  <2>2. PICK n : task' = [task EXCEPT ![t].pc = pc, ![t].until = n]
    BY <2>p
  <2> DEFINE r == [task[t] EXCEPT !.pc = pc, !.until = n]
  <2>3. task' = [task EXCEPT ![t] = r] /\ r.pc = pc
    BY <2>2 DEF TypeOK
  <2> HIDE DEF r
  <2> QED  BY <1>6, <2>3, TaskIs DEF HandlerMoves, Ending
<1>7. CASE \/ Claim(t) \/ WriteRenewal(t) \/ Refresh(t) \/ WriteGift(t)
           \/ InsertPurchase(t) \/ WriteEnd(t) \/ Stop(t)
  BY <1>7, <1>e, <1>g DEF Claim, WriteRenewal, Refresh, WriteGift, InsertPurchase,
    WriteEnd, Stop
<1> QED  BY <1>1, <1>2, <1>3, <1>4, <1>5, <1>6, <1>7 DEF Begins, Step

LEMMA GivenKept ==
  ASSUME "unpaid" \notin Races, TypeOK, GivenOnce, [Next]_vars
  PROVE  GivenOnce'
<1>f. ASSUME UNCHANGED <<status, given, renewed, task>> PROVE GivenOnce'
  BY <1>f DEF GivenOnce
<1>u. CASE UNCHANGED vars
  BY <1>u, <1>f DEF vars, system
<1>p. ASSUME NEW p \in Payments,
             Pay(p) \/ MoneyArrives(p) \/ ProviderGivesUp(p) \/ MarkFailed(p)
      PROVE  GivenOnce'
  BY <1>p, <1>f DEF Pay, MoneyArrives, ProviderGivesUp, MarkFailed, subscription
<1>b. ASSUME NEW b \in BOOLEAN, SetUsage(b) PROVE GivenOnce'
  BY <1>b, <1>f DEF SetUsage
<1>k. CASE Tick
  BY <1>k, <1>f DEF Tick, subscription
<1>c. CASE CancelStale
  BY <1>c DEF CancelStale, GivenOnce
<1>s. ASSUME NEW s \in {"ACTIVE", "SUSPENDED", "EXPIRED", "CANCELLED"}, SetStatus(s)
      PROVE  GivenOnce'
  <2>1. UNCHANGED <<renewed, task>> /\ status' = s
    BY <1>s DEF SetStatus
  <2>2. given'
    BY <1>s DEF SetStatus
  <2> QED  BY <2>1, <2>2 DEF GivenOnce
<1>t. ASSUME NEW t \in Tasks, Begins(t) \/ Step(t) \/ Stop(t) PROVE GivenOnce'
  <2>1. HandlerMoves(t)
    BY <1>t, MovesAre
  <2>2. \A u \in Tasks : task'[u].pc \in Ending => given
    BY <2>1 DEF HandlerMoves, GivenOnce
  <2>3. CASE WriteRenewal(t)
    BY <2>3 DEF WriteRenewal, GivenOnce
  <2>4. CASE WriteEnd(t)
    <3>1. given /\ UNCHANGED <<given, renewed>>
      BY <2>4 DEF WriteEnd, GivenOnce, Ending
    <3>2. status' \in {"SUSPENDED", "EXPIRED"}
      BY <2>4 DEF WriteEnd, TypeOK
    <3> QED  BY <2>2, <3>1, <3>2 DEF GivenOnce
  <2>5. CASE UNCHANGED <<status, given, renewed>>
    BY <2>2, <2>5 DEF GivenOnce
  <2>6. WriteRenewal(t) \/ WriteEnd(t) \/ UNCHANGED <<status, given, renewed>>
    BY <1>t DEF Begins, Step, Confirm, Reuse, Gift, Report, SweepQuota, SweepExpiry,
                Claim, ReadRenewal, CountPaid, Refresh, WriteGift, InsertPurchase,
                LookAtStatus, Stop, subscription
  <2> QED  BY <2>3, <2>4, <2>5, <2>6
<1> QED  BY <1>u, <1>p, <1>s, <1>b, <1>c, <1>k, <1>t DEF Next, Moves

\* A renewal reads a status that says whether the time is owned ...
LEMMA ReadKeeps ==
  ASSUME TypeOK, GivenOnce, NEW t \in Tasks, ReadRenewal(t),
         \A u \in Tasks \ {t} : ~Renewing(u)'
  PROVE  IsRight(t)'
<1>1. UNCHANGED <<now, status, expireAt, given, renewed>>
  BY DEF ReadRenewal, subscription
<1>2. now \in Nat /\ expireAt \in Nat
  BY DEF TypeOK
<1>3. CASE status = "CANCELLED"
  <2>1. task'[t].pc = "count" /\ task'[t].until = expireAt
    BY <1>3 DEF ReadRenewal, TypeOK
  <2> QED  BY <1>1, <1>3, <2>1 DEF IsRight
<1>4. CASE status # "CANCELLED"
  <2>1. task'[t].pc = "extend" /\ task'[t].until = Extended(status = "PENDING", expireAt)
    BY <1>4 DEF ReadRenewal, TypeOK
  <2>2. OneTermOn(task'[t].until)
    <3>1. CASE status = "PENDING"
      <4>1. ~Owned
        BY <3>1 DEF GivenOnce, Owned
      <4>2. task'[t].until = now + Term /\ now + Term \in Nat
        BY <1>2, <2>1, <3>1, TermAssumption DEF Extended
      <4> QED  BY <4>1, <4>2 DEF OneTermOn
    <3>2. CASE status # "PENDING"
      <4>1. Owned
        BY <1>4, <3>2 DEF GivenOnce, Owned, TypeOK
      <4>2. /\ expireAt > now => task'[t].until = expireAt + Term
            /\ ~(expireAt > now) => task'[t].until = now + Term /\ now + Term \in Nat
        BY <1>2, <2>1, <3>2, TermAssumption DEF Extended, Later
      <4> QED  BY <4>1, <4>2 DEF OneTermOn
    <3> QED  BY <3>1, <3>2
  <2> QED  BY <1>1, <2>1, <2>2 DEF IsRight, OneTermOn, Owned
<1> QED  BY <1>3, <1>4

\* ... or, of a cancelled one, whether anything was paid for it.
LEMMA CountKeeps ==
  ASSUME TypeOK, Terms, ConfirmedForSomething, GivenOnce,
         NEW t \in Tasks, CountPaid(t), IsRight(t), \A u \in Tasks \ {t} : ~Renewing(u)'
  PROVE  IsRight(t)'
<1> DEFINE first == \A p \in Payments \ {task[t].pay} : tx[p] # "CONFIRMED"
<1>1. UNCHANGED <<now, status, expireAt, given, renewed>> /\ task[t].pc = "count"
  BY DEF CountPaid, subscription
<1>2. now \in Nat /\ expireAt \in Nat
  BY DEF TypeOK
<1>3. status = "CANCELLED" /\ task[t].until = expireAt
  BY <1>1 DEF IsRight
<1>4. task'[t].pc = "extend" /\ task'[t].until = Extended(first, expireAt)
  BY <1>3 DEF CountPaid, TypeOK
<1>5. first <=> ~Owned
  <2>1. \A u \in Tasks : Renewing(u) => u = t
    BY DEF IsRight
  <2>2. \A p \in Payments \ {task[t].pay} : tx[p] = "CONFIRMED" <=> renewed[p] = 1
    BY <2>1 DEF ConfirmedForSomething, Terms
  <2>3. renewed[task[t].pay] = 0 /\ task[t].pay \in Payments
    BY <1>1 DEF Terms, Carries, Renewing, TypeOK
  <2>4. \A p \in Payments : renewed[p] > 0 <=> renewed[p] = 1
    BY DEF Terms, TypeOK
  <2>5. Owned <=> \E p \in Payments : renewed[p] > 0
    BY <1>3 DEF Owned, GivenOnce
  <2> QED  BY <2>2, <2>3, <2>4, <2>5
<1>6. OneTermOn(task'[t].until)
  <2> HIDE DEF first
  <2>1. CASE first
    <3>1. task'[t].until = now + Term /\ now + Term \in Nat
      BY <1>2, <1>4, <2>1, TermAssumption DEF Extended
    <3> QED  BY <1>5, <2>1, <3>1 DEF OneTermOn
  <2>2. CASE ~first
    <3>1. /\ expireAt > now => task'[t].until = expireAt + Term
          /\ ~(expireAt > now) => task'[t].until = now + Term /\ now + Term \in Nat
      BY <1>2, <1>4, <2>2, TermAssumption DEF Extended, Later
    <3> QED  BY <1>5, <2>2, <3>1 DEF OneTermOn
  <2> QED  BY <2>1, <2>2
<1> QED  BY <1>1, <1>4, <1>6 DEF IsRight, OneTermOn, Owned

\* Of a renewal that is about to write, only another renewal could change whose
\* the time is, once status and date stand still.
LEMMA OwnedStands ==
  ASSUME TypeOK, [Next]_vars, UNCHANGED <<status, expireAt>>,
         NEW t \in Tasks, HasRead(t), IsRight(t), task'[t] = task[t]
  PROVE  now' \in {now, now + 1} /\ (Owned' <=> Owned)
<1>1. \A u \in Tasks : ~WriteRenewal(u)
  <2> SUFFICES ASSUME NEW u \in Tasks, WriteRenewal(u) PROVE FALSE
    OBVIOUS
  <2>1. u = t
    BY DEF WriteRenewal, Renewing, IsRight
  <2>2. task'[t].pc = "idle"
    BY <2>1 DEF WriteRenewal, Ends, Idle, TypeOK
  <2> QED  BY <2>2 DEF HasRead
<1>2. renewed' = renewed /\ now' \in {now, now + 1}
  BY <1>1 DEF Next, Moves, vars, system, Pay, MoneyArrives, ProviderGivesUp, MarkFailed,
    SetStatus, SetUsage, CancelStale, Tick, Begins, Step, Confirm, Reuse, Gift, Report,
    SweepQuota, SweepExpiry, Claim, ReadRenewal, CountPaid, Refresh, WriteGift, WriteEnd,
    InsertPurchase, LookAtStatus, Stop
<1>3. given' = given
  BY <1>1 DEF Next, Moves, vars, system, subscription, Pay, MoneyArrives, ProviderGivesUp,
    MarkFailed, SetStatus, SetUsage, CancelStale, Tick, Begins, Step, Confirm, Reuse, Gift,
    Report, SweepQuota, SweepExpiry, Claim, ReadRenewal, CountPaid, Refresh, WriteGift,
    WriteEnd, InsertPurchase, LookAtStatus, Stop
<1> QED  BY <1>2, <1>3 DEF Owned

\* The clock alone takes nothing from a date that is about to be written.
LEMMA StillRight ==
  ASSUME TypeOK, TypeOK', NEW t \in Tasks, IsRight(t), task'[t] = task[t],
         UNCHANGED <<status, expireAt>>, now' \in {now, now + 1}, Owned' <=> Owned,
         \A u \in Tasks \ {t} : ~Renewing(u)'
  PROVE  IsRight(t)'
<1> SUFFICES ASSUME task[t].pc = "extend" PROVE OneTermOn(task[t].until)'
  BY DEF IsRight
<1>1. task[t].until \in Nat /\ Term \in Nat /\ now \in Nat /\ expireAt \in Nat
  BY TermAssumption DEF TypeOK
<1>2. OneTermOn(task[t].until)
  BY DEF IsRight
<1>3. CASE Owned /\ expireAt > now
  BY <1>1, <1>2, <1>3 DEF OneTermOn
<1>4. CASE ~(Owned /\ expireAt > now)
  BY <1>1, <1>2, <1>4 DEF OneTermOn
<1> QED  BY <1>3, <1>4

LEMMA AddUpKept ==
  ASSUME "unpaid" \notin Races, TypeOK, TypeOK', Terms, ConfirmedForSomething, AddUp,
         [Next]_vars
  PROVE  AddUp'
<1>0. GivenOnce /\ GivenOnce'
  BY GivenKept DEF AddUp
<1>u. CASE UNCHANGED vars
  <2>1. \A t \in Tasks : (HasRead(t)' <=> HasRead(t)) /\ (IsRight(t)' <=> IsRight(t))
    BY <1>u DEF vars, system, HasRead, IsRight, OneTermOn, Owned, Renewing
  <2> QED  BY <1>0, <1>u, <2>1 DEF AddUp, vars
<1>n. CASE Next
  <2> SUFFICES ASSUME NEW t \in Tasks, t \notin disturbed', HasRead(t)' PROVE IsRight(t)'
    BY <1>0 DEF AddUp
  <2>1. \A u \in Tasks \ {t} : ~Renewing(u)'
    BY <1>n DEF Next
  <2>2. HasRead(t) => t \notin disturbed /\ UNCHANGED <<status, expireAt>> /\ IsRight(t)
    BY <1>n DEF Next, AddUp
  <2>3. task'[t] = task[t] \/ ReadRenewal(t) \/ CountPaid(t)
    <3>1. ASSUME NEW u \in Tasks, Begins(u) \/ Step(u) \/ Stop(u)
          PROVE  task'[t] = task[t] \/ ReadRenewal(t) \/ CountPaid(t)
      BY <3>1, MovesAre DEF HandlerMoves
    <3>2. (\E u \in Tasks : Begins(u) \/ Step(u) \/ Stop(u)) \/ UNCHANGED task
      BY <1>n DEF Next, Moves, Pay, MoneyArrives, ProviderGivesUp, MarkFailed, SetStatus,
        SetUsage, CancelStale, Tick
    <3> QED  BY <3>1, <3>2
  <2>4. CASE ReadRenewal(t)
    BY <1>0, <2>1, <2>4, ReadKeeps
  <2>5. CASE CountPaid(t)
    <3>1. HasRead(t)
      BY <2>5 DEF CountPaid, HasRead
    <3> QED  BY <1>0, <2>1, <2>2, <2>5, <3>1, CountKeeps
  <2>6. CASE task'[t] = task[t]
    <3>1. HasRead(t)
      BY <2>6 DEF HasRead
    <3>2. now' \in {now, now + 1} /\ (Owned' <=> Owned)
      BY <2>2, <2>6, <3>1, OwnedStands
    <3> QED  BY <2>1, <2>2, <2>6, <3>1, <3>2, StillRight
  <2> QED  BY <2>3, <2>4, <2>5, <2>6
<1> QED  BY <1>u, <1>n

LEMMA AddUpInvariant ==
  ASSUME "stop" \notin Races, "unpaid" \notin Races PROVE Spec => []AddUp
<1>1. Init => AddUp
  <2> SUFFICES ASSUME Init PROVE AddUp
    OBVIOUS
  <2>1. \A t \in Tasks : task[t].pc = "idle"
    BY DEF Init, Idle
  <2>2. \A p \in Payments : ~(renewed[p] > 0)
    BY DEF Init
  <2>3. (status = "ACTIVE" => given) /\ (status = "PENDING" => ~given) /\ status \in {"PENDING", "ACTIVE"}
    BY DEF Init
  <2>4. GivenOnce
    BY <2>1, <2>2, <2>3 DEF GivenOnce, Ending
  <2> QED  BY <2>1, <2>4 DEF AddUp, HasRead
<1>2. Init => Terms
  BY DEF Init, Terms, Carries, Renewing, Idle
<1>3. TypeOK /\ Terms /\ [Next]_vars => Terms'
  BY TermsKept
<1>4. TypeOK /\ TypeOK' /\ Terms /\ ConfirmedForSomething /\ AddUp /\ [Next]_vars => AddUp'
  BY AddUpKept
<1>5. Spec => []ConfirmedForSomething
  BY ConfirmedForSomethingHolds
<1> QED  BY <1>1, <1>2, <1>3, <1>4, <1>5, TypeCorrect, PTL DEF Spec

\* A renewal that no other overlapped, and under which the status and the date
\* stood still, adds one term to the time the customer owns, not less and not
\* two, whatever other handlers are at work beside it and whatever overlapped
\* before; an attempt nobody paid for owns none (billing.service.ts,
\* renewSubscription).
THEOREM TermsAddUpHolds ==
  ASSUME "stop" \notin Races, "unpaid" \notin Races PROVE Spec => TermsAddUp
<1> DEFINE One ==
      \A t \in Tasks \ disturbed : task[t].pc = "extend" /\ renewed' # renewed =>
        IF Owned /\ expireAt > now THEN expireAt' = expireAt + Term ELSE expireAt' <= now + Term
<1>1. TypeOK /\ AddUp /\ [Next]_vars => [One]_vars
  <2> SUFFICES ASSUME TypeOK, AddUp, [Next]_vars,
                      NEW t \in Tasks \ disturbed, task[t].pc = "extend", renewed' # renewed
               PROVE  IF Owned /\ expireAt > now THEN expireAt' = expireAt + Term
                                                 ELSE expireAt' <= now + Term
    OBVIOUS
  <2>1. PICK u \in Tasks : WriteRenewal(u)
    BY DEF Next, Moves, vars, system, Pay, MoneyArrives, ProviderGivesUp, MarkFailed, SetStatus,
      SetUsage, CancelStale, Tick, Begins, Step, Confirm, Reuse, Gift, Report, SweepQuota,
      SweepExpiry, Claim, ReadRenewal, CountPaid, Refresh, WriteGift, WriteEnd, InsertPurchase,
      LookAtStatus, Stop
  <2>2. IsRight(t)
    BY DEF AddUp, HasRead
  <2>3. u = t
    BY <2>1, <2>2 DEF IsRight, WriteRenewal, Renewing
  <2> QED  BY <2>1, <2>2, <2>3 DEF IsRight, OneTermOn, WriteRenewal
<1> HIDE DEF One
<1>2. Spec => [][One]_vars
  BY <1>1, TypeCorrect, AddUpInvariant, PTL DEF Spec
<1> QED  BY <1>2 DEF TermsAddUp, One

=============================================================================
