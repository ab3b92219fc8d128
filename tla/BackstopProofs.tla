--------------------------- MODULE BackstopProofs ---------------------------
(***************************************************************************)
(* Proofs about Backstop, for any number of devices, any limit and any      *)
(* times: what the reports, the strikes and the holds of one tick add up to. *)
(***************************************************************************)
EXTENDS Backstop, FiniteSetTheorems, TLAPS

\* The stages a report goes through, with what each of them carries.
Judgement ==
  {Idle} \cup [stage : {"read"}]
  \cup [stage : {"judge"}, lift : SUBSET Devices, extend : SUBSET Devices,
        outcome : {"within", "nobody", "waits", "hold"}, victims : SUBSET Devices]
  \cup [stage : {"hold"}, left : SUBSET Devices, out : SUBSET Devices]

\* A strike of this tick, or none yet: no judgement acts any more before the
\* next tick, for MIN_STRIKE_GAP_MS stands between.
Spent == strikes = 0 \/ (strikes = 1 /\ struck = 0)

DevicesOK ==
  /\ user \in Devices \cup {Anyone} /\ on \in [Devices -> BOOLEAN]
  /\ moved \in [Devices -> BOOLEAN] /\ seen \in [Devices -> 0..Fresh + 1]
  /\ held \in [Devices -> 0..Lease]

SlotsOK ==
  /\ holders \subseteq Apps /\ live \subseteq holders
  /\ IsFiniteSet(holders) /\ Cardinality(holders) <= Limit
  /\ displaced \in [Devices -> {"no", "grace", "past"}] /\ lifting \subseteq Apps

ReportsOK ==
  /\ clock \in 0..Period - 1 /\ phase \in [Devices -> 0..Period - 1]
  /\ due \subseteq Devices /\ lost \in 0..MaxLost /\ raced \subseteq Devices

JudgingOK ==
  /\ strikes \in 0..StrikesBeforeAction - 1 /\ struck \in 0..Gap
  /\ judging \in [Devices -> Judgement]
  /\ \A n \in Devices : judging[n].stage = "hold" => Spent
  /\ \A m, n \in Devices : judging[m].stage = "hold" /\ judging[n].stage = "hold" => m = n

IInv == DevicesOK /\ SlotsOK /\ ReportsOK /\ JudgingOK

-----------------------------------------------------------------------------
(***************************************************************************)
(* Types.                                                                  *)
(***************************************************************************)
LEMMA IdleJudged == Idle \in Judgement
BY DEF Judgement

LEMMA Stages ==
  ASSUME NEW j \in Judgement
  PROVE  /\ j.stage \in {"idle", "read", "judge", "hold"}
         /\ j.stage = "idle" => j = Idle
         /\ j.stage = "judge" =>
              /\ j.lift \in SUBSET Devices /\ j.extend \in SUBSET Devices
              /\ j.outcome \in {"within", "nobody", "waits", "hold"}
              /\ j.victims \in SUBSET Devices
         /\ j.stage = "hold" => j.left \in SUBSET Devices /\ j.out \in SUBSET Devices
BY DEF Judgement, Idle

LEMMA HoldingJudged ==
  ASSUME NEW left \in SUBSET Devices, NEW out \in SUBSET Devices
  PROVE  Holding(left, out) \in Judgement /\ Holding(left, out).stage = "hold"
         /\ Holding(left, out).left = left /\ Holding(left, out).out = out
BY DEF Judgement, Holding

LEMMA FiniteApps == IsFiniteSet(Devices) /\ IsFiniteSet(Apps) /\ Apps \subseteq Devices
BY DevicesAssumption, FS_Subset

\* Whoever is in use holds a slot, and slots are never given beyond the limit.
LEMMA InUseWithin == ASSUME SlotsOK PROVE Cardinality(InUse) <= Limit
<1>1. InUse \subseteq holders
  BY DEF InUse
<1>2. IsFiniteSet(InUse) /\ Cardinality(InUse) <= Cardinality(holders)
  BY <1>1, FS_Subset DEF SlotsOK
<1> QED
  BY <1>2, TimesAssumption, FS_CardinalityType DEF SlotsOK

LEMMA TypeFromIInv == ASSUME IInv PROVE TypeOK
<1>1. \A n \in Devices : judging[n].stage \in {"idle", "read", "judge", "hold"}
  BY Stages DEF IInv, JudgingOK
<1> QED
  BY <1>1, InUseWithin DEF IInv, DevicesOK, SlotsOK, ReportsOK, JudgingOK, TypeOK

LEMMA InitIInv == ASSUME Init PROVE IInv
<1>1. DevicesOK
  BY StartsAssumption, TimesAssumption DEF Init, DevicesOK, InHand
<1>2. SlotsOK
  BY FS_EmptySet, TimesAssumption DEF Init, SlotsOK
<1>3. ReportsOK
  BY TimesAssumption DEF Init, ReportsOK
<1>4. JudgingOK
  BY TimesAssumption DEF Init, JudgingOK, Judgement, Idle, Spent, StrikesBeforeAction
<1> QED  BY <1>1, <1>2, <1>3, <1>4 DEF IInv

\* A claim makes room for the one it grants, and for no more.
LEMMA ClaimSlots ==
  ASSUME SlotsOK, NEW d \in Devices, NEW used \in SUBSET holders, NEW over \in SUBSET used,
         Claim(d, used, over)
  PROVE  SlotsOK'
<1>1. d \in Apps /\ over \subseteq used /\ over \subseteq used \ {d}
      /\ holders' = (used \ over) \cup {d} /\ live' = (live \ over) \cup {d}
      /\ lifting' = lifting \cup {d}
  BY DEF Claim, Grant
<1>2. displaced' \in [Devices -> {"no", "grace", "past"}]
  BY DEF Claim, SlotsOK
<1>3. IsFiniteSet(used) /\ IsFiniteSet(over) /\ Cardinality(used) <= Cardinality(holders)
      /\ Cardinality(used) \in Nat /\ Cardinality(over) \in Nat /\ Cardinality(holders) \in Nat
  BY FS_Subset, FS_CardinalityType DEF SlotsOK
<1>4. IsFiniteSet(used \ over) /\ Cardinality(used \ over) = Cardinality(used) - Cardinality(over)
  <2>1. used \cap over = over
    OBVIOUS
  <2> QED  BY <2>1, <1>3, FS_Difference
<1>5. IsFiniteSet(holders') /\ Cardinality(holders') <= Limit
  <2>1. CASE d \in holders
    <3>1. used = holders /\ over = {}
      BY <2>1 DEF Claim
    <3>2. holders' = holders
      BY <1>1, <3>1, <2>1
    <3> QED  BY <3>2 DEF SlotsOK
  <2>2. CASE d \notin holders
    <3>1. Cardinality(over) = IF Cardinality(used) < Limit THEN 0
                              ELSE Cardinality(used) - Limit + 1
      BY <2>2 DEF Claim
    <3>2. Cardinality(used \ over) < Limit
      BY <3>1, <1>3, <1>4, TimesAssumption
    <3>3. Cardinality(used \ over) \in Nat
      BY <1>4, FS_CardinalityType
    <3>4. d \notin used \ over
      BY <2>2
    <3>5. IsFiniteSet((used \ over) \cup {d})
          /\ Cardinality((used \ over) \cup {d}) = Cardinality(used \ over) + 1
      BY <1>4, <3>4, FS_AddElement
    <3>6. Limit \in Nat
      BY TimesAssumption
    <3> QED  BY <3>2, <3>3, <3>5, <3>6, <1>1
  <2> QED  BY <2>1, <2>2
<1>6. live' \subseteq holders'
  <2>1. CASE d \in holders
    BY <2>1, <1>1 DEF Claim, SlotsOK
  <2>2. CASE d \notin holders
    <3>1. InUse \subseteq used /\ live \subseteq InUse
      BY <2>2 DEF Claim, SlotsOK, InUse
    <3> QED  BY <1>1, <3>1
  <2> QED  BY <2>1, <2>2
<1> QED
  BY <1>1, <1>2, <1>5, <1>6 DEF SlotsOK

LEMMA SlotsStay == ASSUME SlotsOK, [Next]_vars PROVE SlotsOK'
<1>1. CASE UNCHANGED <<slots, lifting>>
  BY <1>1 DEF SlotsOK, slots
<1>2. CASE Tick
  BY <1>2, <1>1 DEF Tick
<1>3. ASSUME NEW d \in Devices, Release(d) \/ Renew(d) \/ GoesQuiet(d) \/ GraceEnds(d) \/ LiftOnGrant(d)
      PROVE  SlotsOK'
  <2>1. CASE Release(d)
    <3>1. IsFiniteSet(holders \ {d}) /\ Cardinality(holders \ {d}) <= Cardinality(holders)
      BY FS_Subset DEF SlotsOK
    <3>2. Cardinality(holders) \in Nat /\ Cardinality(holders \ {d}) \in Nat
      BY <3>1, FS_CardinalityType DEF SlotsOK
    <3> QED  BY <2>1, <3>1, <3>2, TimesAssumption DEF SlotsOK, Release
  <2>2. CASE Renew(d)
    BY <2>2 DEF Renew, SlotsOK
  <2>3. CASE GoesQuiet(d)
    BY <2>3 DEF GoesQuiet, SlotsOK
  <2>4. CASE GraceEnds(d)
    BY <2>4 DEF GraceEnds, SlotsOK
  <2>5. CASE LiftOnGrant(d)
    BY <2>5 DEF LiftOnGrant, SlotsOK, slots
  <2> QED  BY <1>3, <2>1, <2>2, <2>3, <2>4, <2>5
<1>4. ASSUME NEW d \in Devices, NEW used \in SUBSET holders, NEW over \in SUBSET used,
             Claim(d, used, over)
      PROVE  SlotsOK'
  BY <1>4, ClaimSlots
<1>5. ASSUME NEW d \in Devices, Switch(d) \/ Reassert(d) \/ Miss(d) PROVE SlotsOK'
  BY <1>5, <1>1 DEF Switch, Reassert, Miss
<1>6. ASSUME NEW d \in Devices, NEW bytes \in BOOLEAN, Report(d, bytes) PROVE SlotsOK'
  BY <1>6, <1>1 DEF Report
<1>7. ASSUME NEW n \in Devices, Judged(n) PROVE SlotsOK'
  BY <1>7, <1>1 DEF Judged, Read, Judge, HoldSend, HoldWrite
<1>8. CASE UNCHANGED vars
  BY <1>8, <1>1 DEF vars
<1> QED
  BY <1>2, <1>3, <1>4, <1>5, <1>6, <1>7, <1>8 DEF Next

LEMMA DevicesStay == ASSUME IInv, [Next]_vars PROVE DevicesOK'
<1> USE DEF IInv
<1>u. CASE UNCHANGED <<user, on, moved, seen, held>>
  BY <1>u DEF DevicesOK
<1>1. CASE Tick
  <2>1. \A d \in Devices : Older(seen[d]) \in 0..Fresh + 1 /\ Left(held[d]) \in 0..Lease
    BY TimesAssumption DEF DevicesOK, Older, Left
  <2>2. seen' = [d \in Devices |-> Older(seen[d])] /\ held' = [d \in Devices |-> Left(held[d])]
        /\ UNCHANGED <<user, moved, on>>
    BY <1>1 DEF Tick
  <2> QED  BY <2>1, <2>2 DEF DevicesOK
<1>2. ASSUME NEW d \in Devices, Switch(d) PROVE DevicesOK'
  <2>1. on[d] \in BOOLEAN
    BY DEF DevicesOK
  <2>2. user' = d /\ moved' = [moved EXCEPT ![d] = on[d]] /\ UNCHANGED <<on, seen, held>>
    BY <1>2 DEF Switch, presence
  <2> QED  BY <2>1, <2>2 DEF DevicesOK
<1>3. ASSUME NEW d \in Devices, LiftOnGrant(d) \/ Reassert(d) PROVE DevicesOK'
  <2>1. CASE LiftOnGrant(d)
    <3>1. (on[d] \/ held[d] > 0) \in BOOLEAN /\ 0 \in 0..Lease
          /\ (moved[d] \/ (held[d] > 0 /\ InHand(d))) \in BOOLEAN
      BY TimesAssumption
    <3>2. /\ held' = [held EXCEPT ![d] = 0] /\ on' = [on EXCEPT ![d] = on[d] \/ held[d] > 0]
          /\ moved' = [moved EXCEPT ![d] = moved[d] \/ (held[d] > 0 /\ InHand(d))]
          /\ UNCHANGED <<user, seen>>
      BY <2>1 DEF LiftOnGrant, presence
    <3> QED  BY <3>1, <3>2 DEF DevicesOK
  <2>2. CASE Reassert(d)
    <3>1. (moved[d] \/ InHand(d)) \in BOOLEAN
      OBVIOUS
    <3>2. /\ on' = [on EXCEPT ![d] = TRUE] /\ moved' = [moved EXCEPT ![d] = moved[d] \/ InHand(d)]
          /\ UNCHANGED <<user, seen, held>>
      BY <2>2 DEF Reassert, presence
    <3> QED  BY <3>1, <3>2 DEF DevicesOK
  <2> QED  BY <1>3, <2>1, <2>2
<1>4. ASSUME NEW d \in Devices, Miss(d) PROVE DevicesOK'
  BY <1>4 DEF Miss, DevicesOK, InHand, presence
<1>5. ASSUME NEW d \in Devices, NEW bytes \in BOOLEAN, Report(d, bytes) PROVE DevicesOK'
  BY <1>5, TimesAssumption DEF Report, DevicesOK, InHand, presence
<1>6. ASSUME NEW n \in Devices, Judged(n) PROVE DevicesOK'
  <2>1. CASE Read(n)  BY <2>1, <1>u DEF Read, presence
  <2>2. CASE Judge(n)
    BY <2>2, TimesAssumption DEF Judge, DevicesOK, InHand, presence
  <2>3. ASSUME NEW d \in Devices, HoldWrite(n, d) PROVE DevicesOK'
    BY <2>3, TimesAssumption DEF HoldWrite, DevicesOK, presence
  <2>4. CASE HoldSend(n)
    BY <2>4 DEF HoldSend, DevicesOK, presence
  <2> QED  BY <1>6, <2>1, <2>2, <2>3, <2>4 DEF Judged
<1>7. ASSUME NEW d \in Devices, Release(d) \/ Renew(d) \/ GoesQuiet(d) \/ GraceEnds(d)
      PROVE  DevicesOK'
  BY <1>7, <1>u DEF Release, Renew, GoesQuiet, GraceEnds, presence
<1>8. ASSUME NEW d \in Devices, NEW used \in SUBSET holders, NEW over \in SUBSET used,
             Claim(d, used, over)
      PROVE  DevicesOK'
  BY <1>8, <1>u DEF Claim, Grant, presence
<1>9. CASE UNCHANGED vars
  BY <1>9, <1>u DEF vars, presence
<1> QED
  BY <1>1, <1>2, <1>3, <1>4, <1>5, <1>6, <1>7, <1>8, <1>9 DEF Next

LEMMA ReportsStay == ASSUME IInv, [Next]_vars PROVE ReportsOK'
<1> USE DEF IInv
<1>u. CASE UNCHANGED <<reports, raced>>
  BY <1>u DEF ReportsOK, reports
<1>1. CASE Tick
  <2>1. (clock + 1) % Period \in 0..Period - 1
    BY TimesAssumption DEF ReportsOK
  <2> QED  BY <1>1, <2>1 DEF Tick, ReportsOK
<1>2. ASSUME NEW d \in Devices, NEW used \in SUBSET holders, NEW over \in SUBSET used,
             Claim(d, used, over)
      PROVE  ReportsOK'
  BY <1>2 DEF Claim, Grant, ReportsOK, reports
<1>3. ASSUME NEW d \in Devices, NEW bytes \in BOOLEAN, Report(d, bytes) PROVE ReportsOK'
  <2>1. lifting \subseteq Devices
    BY FiniteApps DEF SlotsOK
  <2> QED  BY <1>3, <2>1 DEF Report, ReportsOK
<1>4. ASSUME NEW d \in Devices, Miss(d) PROVE ReportsOK'
  BY <1>4, TimesAssumption DEF Miss, ReportsOK
<1>5. ASSUME NEW d \in Devices,
             \/ Switch(d) \/ Release(d) \/ Renew(d) \/ GoesQuiet(d) \/ GraceEnds(d)
             \/ LiftOnGrant(d) \/ Reassert(d) \/ Judged(d)
      PROVE  ReportsOK'
  BY <1>5, <1>u DEF Switch, Release, Renew, GoesQuiet, GraceEnds, LiftOnGrant, Reassert,
     Judged, Read, Judge, HoldSend, HoldWrite
<1>6. CASE UNCHANGED vars
  BY <1>6, <1>u DEF vars
<1> QED
  BY <1>1, <1>2, <1>3, <1>4, <1>5, <1>6 DEF Next

-----------------------------------------------------------------------------
(***************************************************************************)
(* Strikes: one a cycle, and only the third acts.                          *)
(***************************************************************************)
LEMMA StrikeTypes ==
  ASSUME JudgingOK, NEW o \in {"within", "nobody", "waits", "hold"}
  PROVE  /\ Strike(o).strikes \in 0..StrikesBeforeAction - 1 /\ Strike(o).struck \in 0..Gap
         /\ Strike(o).acts => ~Spent /\ o = "hold" /\ Strike(o).strikes = 0
         /\ Spent => Strike(o).strikes = 0 \/ (Strike(o).strikes = 1 /\ Strike(o).struck = 0)
<1>1. Gap \in Nat /\ Gap > 0 /\ strikes \in 0..2 /\ struck \in 0..Gap
  BY TimesAssumption DEF JudgingOK, StrikesBeforeAction
<1>2. CASE o = "within"
  BY <1>1, <1>2 DEF Strike, StrikesBeforeAction, Spent
<1>3. CASE o # "within" /\ strikes > 0 /\ struck < Gap
  BY <1>1, <1>3 DEF Strike, StrikesBeforeAction, Spent
<1>4. CASE o # "within" /\ ~(strikes > 0 /\ struck < Gap) /\ strikes < 2
  BY <1>1, <1>4 DEF Strike, StrikesBeforeAction, Spent
<1>5. CASE o # "within" /\ ~(strikes > 0 /\ struck < Gap) /\ strikes = 2
  <2>1. ~Spent
    BY <1>5 DEF Spent
  <2>2. CASE o = "waits"
    <3>1. Strike(o) = [strikes |-> 2, struck |-> 0, acts |-> FALSE]
      BY <1>5, <2>2 DEF Strike, StrikesBeforeAction
    <3> QED  BY <1>1, <2>1, <3>1 DEF StrikesBeforeAction
  <2>3. CASE o # "waits"
    <3> DEFINE b == (o = "hold")
    <3>1. Strike(o) = [strikes |-> 0, struck |-> Gap, acts |-> b]
      BY <1>5, <2>3 DEF Strike, StrikesBeforeAction
    <3>2. b => o = "hold"
      OBVIOUS
    <3> HIDE DEF b
    <3>3. Strike(o).acts = b /\ Strike(o).strikes = 0 /\ Strike(o).struck = Gap
      BY <3>1
    <3>4. Strike(o).acts => o = "hold"
      BY <3>2, <3>3, Zenon
    <3> QED  BY <1>1, <2>1, <3>3, <3>4 DEF StrikesBeforeAction
  <2> QED  BY <2>2, <2>3
<1>6. strikes < 2 \/ strikes = 2
  BY <1>1
<1> QED  BY <1>2, <1>3, <1>4, <1>5, <1>6

LEMMA OutcomeType == Outcome \in {"within", "nobody", "waits", "hold"}
BY DEF Outcome

LEMMA VictimsType ==
  ASSUME NEW v, v \in IF Outcome = "hold" THEN Victims ELSE {{}}
  PROVE  v \in SUBSET Devices
<1>1. Candidates \subseteq Devices
  BY DEF Candidates, Free, Overstaying
<1>2. CASE Outcome = "hold"
  BY <1>1, <1>2 DEF Victims
<1>3. CASE Outcome # "hold"
  BY <1>3
<1> QED  BY <1>2, <1>3

\* What a reading makes of a report.
LEMMA ReadJudged ==
  ASSUME NEW n \in Devices, Read(n), SlotsOK
  PROVE  \E v \in IF Outcome = "hold" THEN Victims ELSE {{}} :
           \E j \in Judgement :
             /\ judging' = [judging EXCEPT ![n] = j] /\ j.stage = "judge"
             /\ j.lift = {d \in holders : held[d] > 0} /\ j.extend = Keep
             /\ j.outcome = Outcome /\ j.victims = v
<1>1. PICK v \in IF Outcome = "hold" THEN Victims ELSE {{}} :
        judging' = [judging EXCEPT ![n] =
          [stage |-> "judge", lift |-> {d \in holders : held[d] > 0}, extend |-> Keep,
           outcome |-> Outcome, victims |-> v]]
  BY DEF Read
<1> DEFINE j == [stage |-> "judge", lift |-> {d \in holders : held[d] > 0}, extend |-> Keep,
                 outcome |-> Outcome, victims |-> v]
<1>2. v \in SUBSET Devices
  BY VictimsType
<1>3. {d \in holders : held[d] > 0} \in SUBSET Devices /\ Keep \in SUBSET Devices
  BY FiniteApps DEF SlotsOK, Keep, Held
<1>4. j \in Judgement
  BY <1>2, <1>3, OutcomeType DEF Judgement
<1>5. judging' = [judging EXCEPT ![n] = j]
  BY <1>1
<1> QED  BY <1>4, <1>5

\* A judgement that ends, or goes on to hold.
LEMMA JudgeJudged ==
  ASSUME NEW n \in Devices, Judge(n), JudgingOK
  PROVE  /\ judging[n].stage = "judge" /\ Strike(judging[n].outcome).acts => judging[n].outcome = "hold"
         /\ \E j \in Judgement :
              /\ judging' = [judging EXCEPT ![n] = j]
              /\ \/ j = Idle
                 \/ ~Spent /\ Spent' /\ judging[n].outcome = "hold"
                    /\ j = Holding(judging[n].victims, {})
<1> DEFINE j == IF Strike(judging[n].outcome).acts THEN Holding(judging[n].victims, {}) ELSE Idle
<1>1. judging[n] \in Judgement /\ judging[n].stage = "judge"
  BY DEF Judge, JudgingOK
<1>2. judging[n].outcome \in {"within", "nobody", "waits", "hold"} /\ judging[n].victims \in SUBSET Devices
  BY <1>1, Stages
<1>3. j \in Judgement
  BY <1>2, HoldingJudged, IdleJudged
<1>4. judging' = [judging EXCEPT ![n] = j] /\ strikes' = Strike(judging[n].outcome).strikes
  BY DEF Judge
<1>5. Strike(judging[n].outcome).acts =>
        ~Spent /\ judging[n].outcome = "hold" /\ Strike(judging[n].outcome).strikes = 0
  BY <1>2, StrikeTypes
<1> QED  BY <1>1, <1>3, <1>4, <1>5 DEF Spent

LEMMA JudgingStay == ASSUME IInv, [Next]_vars PROVE JudgingOK'
<1> USE DEF IInv
<1>u. CASE UNCHANGED <<tally, judging>>
  BY <1>u DEF JudgingOK, tally, Spent
<1>0. \A n \in Devices : judging[n] \in Judgement
  BY DEF JudgingOK
<1>1. CASE Tick
  <2>1. \A n \in Devices : judging[n].stage # "hold" /\ judging[n] = Idle
    BY <1>1 DEF Tick, Settled, Idle
  <2> QED  BY <1>1, <2>1, TimesAssumption DEF Tick, JudgingOK
<1>2. ASSUME NEW d \in Devices, NEW bytes \in BOOLEAN, Report(d, bytes) PROVE JudgingOK'
  <2>1. [stage |-> "read"] \in Judgement
    BY DEF Judgement
  <2>2. UNCHANGED tally
        /\ (judging' = judging \/ judging' = [judging EXCEPT ![d] = [stage |-> "read"]])
    BY <1>2 DEF Report
  <2> QED  BY <2>1, <2>2 DEF JudgingOK, tally, Spent
<1>3. ASSUME NEW n \in Devices, Read(n) PROVE JudgingOK'
  <2>1. PICK j \in Judgement : judging' = [judging EXCEPT ![n] = j] /\ j.stage = "judge"
    BY <1>3, ReadJudged
  <2>2. UNCHANGED tally
    BY <1>3 DEF Read
  <2> QED  BY <2>1, <2>2 DEF JudgingOK, tally, Spent
<1>4. ASSUME NEW n \in Devices, Judge(n) PROVE JudgingOK'
  <2>1. PICK j \in Judgement :
          /\ judging' = [judging EXCEPT ![n] = j]
          /\ \/ j = Idle
             \/ ~Spent /\ Spent' /\ j = Holding(judging[n].victims, {})
    BY <1>4, JudgeJudged
  <2>2. judging[n].stage = "judge" /\ judging[n].outcome \in {"within", "nobody", "waits", "hold"}
    BY <1>4, <1>0, Stages DEF Judge
  <2>3. strikes' \in 0..StrikesBeforeAction - 1 /\ struck' \in 0..Gap /\ (Spent => Spent')
    BY <1>4, <2>2, StrikeTypes DEF Judge, Spent
  <2>4. CASE j = Idle
    BY <2>1, <2>3, <2>4 DEF JudgingOK, Idle
  <2>5. CASE ~Spent /\ Spent' /\ j = Holding(judging[n].victims, {})
    <3>1. \A m \in Devices : judging[m].stage # "hold"
      BY <2>5 DEF JudgingOK
    <3> QED  BY <2>1, <2>3, <2>5, <3>1 DEF JudgingOK
  <2> QED  BY <2>1, <2>4, <2>5
<1>5. ASSUME NEW n \in Devices, NEW d \in Devices, HoldWrite(n, d) PROVE JudgingOK'
  <2>1. judging[n].stage = "hold" /\ judging[n].left \in SUBSET Devices
    BY <1>5, <1>0, Stages DEF HoldWrite
  <2>2. Holding(judging[n].left \ {d}, {d}) \in Judgement
    BY <2>1, HoldingJudged
  <2>3. judging' = [judging EXCEPT ![n] = Holding(judging[n].left \ {d}, {d})] /\ UNCHANGED tally
    BY <1>5 DEF HoldWrite
  <2> QED  BY <2>1, <2>2, <2>3 DEF JudgingOK, tally, Spent
<1>6. ASSUME NEW n \in Devices, HoldSend(n) PROVE JudgingOK'
  <2> DEFINE j == IF judging[n].left = {} THEN Idle ELSE Holding(judging[n].left, {})
  <2>1. judging[n].stage = "hold" /\ judging[n].left \in SUBSET Devices
    BY <1>6, <1>0, Stages DEF HoldSend
  <2>2. j \in Judgement
    BY <2>1, HoldingJudged, IdleJudged
  <2>3. judging' = [judging EXCEPT ![n] = j] /\ UNCHANGED tally
    BY <1>6 DEF HoldSend
  <2> HIDE DEF j
  <2> QED  BY <2>1, <2>2, <2>3 DEF JudgingOK, tally, Spent
<1>7. ASSUME NEW d \in Devices,
             \/ Switch(d) \/ Release(d) \/ Renew(d) \/ GoesQuiet(d) \/ GraceEnds(d)
             \/ LiftOnGrant(d) \/ Reassert(d) \/ Miss(d)
      PROVE  JudgingOK'
  BY <1>7, <1>u DEF Switch, Release, Renew, GoesQuiet, GraceEnds, LiftOnGrant, Reassert, Miss
<1>8. ASSUME NEW d \in Devices, NEW used \in SUBSET holders, NEW over \in SUBSET used,
             Claim(d, used, over)
      PROVE  JudgingOK'
  BY <1>8, <1>u DEF Claim, Grant
<1>9. CASE UNCHANGED vars
  BY <1>9, <1>u DEF vars
<1> QED
  BY <1>1, <1>2, <1>3, <1>4, <1>5, <1>6, <1>7, <1>8, <1>9 DEF Next, Judged

LEMMA Inductive == ASSUME IInv, [Next]_vars PROVE IInv'
BY DevicesStay, SlotsStay, ReportsStay, JudgingStay DEF IInv

\* Every variable keeps its type, the devices in use stay within the limit, and
\* two reports never hold devices at once, whatever the devices do, and with
\* slots granted in the middle of a judgement too.
THEOREM TypeCorrect == Spec => []TypeOK
<1>1. Spec => []IInv
  <2>1. Init => IInv  BY InitIInv
  <2>2. IInv /\ [Next]_vars => IInv'  BY Inductive
  <2> QED  BY <2>1, <2>2, PTL DEF Spec
<1>2. IInv => TypeOK  BY TypeFromIInv
<1> QED  BY <1>1, <1>2, PTL

-----------------------------------------------------------------------------
(***************************************************************************)
(* Holds leave the plan's number in use.                                   *)
(***************************************************************************)
\* The devices outside v that are not held and that send or renew.
InUseBut(v) ==
  {e \in Devices \ v : (held[e] = 0 \/ e \in holders) /\ (seen[e] <= Fresh \/ e \in live)}

Fills(S) == Cardinality(S) >= Limit

\* Until it acts, a judgement rests on what it read: a hold of its own leaves the
\* plan filled, what it extends is still held and claims nothing.
JudgementHolds(n) ==
  /\ judging[n].stage = "judge" =>
       /\ judging[n].lift \subseteq holders
       /\ \A e \in judging[n].extend : e \notin holders /\ held[e] > 0
       /\ judging[n].outcome = "hold" /\ ~Spent => Fills(InUseBut(judging[n].victims))
  /\ judging[n].stage = "hold" => Fills(InUseBut(judging[n].left \cup judging[n].out))

HInv ==
  /\ ~Settled => lifting = {}
  /\ \A n \in Devices : JudgementHolds(n)

LEMMA FillsMore ==
  ASSUME NEW S, NEW T, S \subseteq T, T \subseteq Devices, Fills(S) PROVE Fills(T)
<1>1. IsFiniteSet(T) /\ IsFiniteSet(S)
  BY FiniteApps, FS_Subset
<1>2. Cardinality(S) <= Cardinality(T) /\ Cardinality(S) \in Nat /\ Cardinality(T) \in Nat
  BY <1>1, FS_Subset, FS_CardinalityType
<1> QED  BY <1>2, TimesAssumption DEF Fills

LEMMA InUseButDevices == ASSUME NEW v PROVE InUseBut(v) \subseteq Devices
BY DEF InUseBut

LEMMA InUseButFewer ==
  ASSUME NEW v, NEW w \in SUBSET v, Fills(InUseBut(v)) PROVE Fills(InUseBut(w))
<1>1. InUseBut(v) \subseteq InUseBut(w)
  BY DEF InUseBut
<1> QED  BY <1>1, InUseButDevices, FillsMore

\* What leaves the devices and their slots alone leaves the count alone; so does
\* whatever only adds to it.
LEMMA CountStays ==
  ASSUME UNCHANGED <<holders, live>>, NEW v,
         \A e \in Devices : (held[e] = 0 \/ e \in holders) => (held'[e] = 0 \/ e \in holders),
         \A e \in Devices : seen[e] <= Fresh => seen'[e] <= Fresh,
         Fills(InUseBut(v))
  PROVE  Fills(InUseBut(v)')
<1>1. InUseBut(v) \subseteq InUseBut(v)' /\ InUseBut(v)' \subseteq Devices
  BY DEF InUseBut
<1> QED  BY <1>1, FillsMore

\* Whoever is held in answer to a reading is one too many.
LEMMA VictimsLeaveEnough ==
  ASSUME IInv, Outcome = "hold", NEW v \in Victims
  PROVE  Fills(InUseBut(v))
<1> USE DEF IInv
<1>1. v \subseteq Candidates /\ (Cardinality(v) = Excess \/ (v = Candidates /\ Cardinality(v) < Excess))
  BY DEF Victims
<1>2. Limit \in Nat /\ IsFiniteSet(Devices)
  BY TimesAssumption, FiniteApps
<1>3. Free \subseteq Devices /\ IsFiniteSet(Free) /\ Cardinality(Free) \in Nat
  <2>1. Free \subseteq Devices
    BY DEF Free
  <2> QED  BY <2>1, <1>2, FS_Subset, FS_CardinalityType
<1>4. Candidates \subseteq Free
  BY DEF Candidates, Overstaying
<1>5. v \subseteq Free /\ IsFiniteSet(v) /\ Cardinality(v) \in Nat
  <2>1. v \subseteq Free
    BY <1>1, <1>4
  <2> QED  BY <2>1, <1>3, FS_Subset, FS_CardinalityType
<1>6. \A e \in Free : (held[e] = 0 \/ e \in holders) /\ seen[e] <= Fresh
  BY DEF Free, Held, DevicesOK
<1>7. CASE OverByTraffic
  <2>1. Excess = Cardinality(Free) - Limit
    BY <1>7 DEF Excess
  <2>2. Cardinality(v) <= Cardinality(Free) - Limit
    BY <1>1, <1>2, <1>3, <1>5, <2>1
  <2>3. Cardinality(Free \ v) = Cardinality(Free) - Cardinality(v)
    <3>1. Free \cap v = v
      BY <1>5
    <3> QED  BY <3>1, <1>3, FS_Difference
  <2>4. Fills(Free \ v)
    BY <2>2, <2>3, <1>2, <1>3, <1>5 DEF Fills
  <2>5. Free \ v \subseteq InUseBut(v)
    BY <1>3, <1>6 DEF InUseBut
  <2> QED  BY <2>4, <2>5, InUseButDevices, FillsMore
<1>8. CASE ~OverByTraffic
  <2>1. Quiet \subseteq Devices /\ IsFiniteSet(Quiet) /\ Cardinality(Quiet) \in Nat
    <3>1. Quiet \subseteq Devices
      BY FiniteApps DEF Quiet, SlotsOK
    <3> QED  BY <3>1, <1>2, FS_Subset, FS_CardinalityType
  <2>2. IsFiniteSet(Overstaying) /\ Cardinality(Overstaying) \in Nat
    <3>1. Overstaying \subseteq Free
      BY DEF Overstaying
    <3> QED  BY <3>1, <1>3, FS_Subset, FS_CardinalityType
  <2>3. Excess <= Cardinality(Free) + Cardinality(Quiet) - Limit /\ Excess \in Int
    BY <1>8, <1>2, <1>3, <2>1, <2>2 DEF Excess
  <2>4. Cardinality(v) <= Cardinality(Free) + Cardinality(Quiet) - Limit
    BY <1>1, <1>2, <1>3, <1>5, <2>1, <2>3
  <2> DEFINE T == Free \cup Quiet
  <2>5. IsFiniteSet(T) /\ Cardinality(T) = Cardinality(Free) + Cardinality(Quiet)
    <3>1. Free \cap Quiet = {}
      BY DEF Quiet
    <3>2. Cardinality(T) = Cardinality(Free) + Cardinality(Quiet) - Cardinality(Free \cap Quiet)
          /\ IsFiniteSet(T)
      BY <1>3, <2>1, FS_Union
    <3>3. Cardinality(Free \cap Quiet) = 0
      BY <3>1, FS_EmptySet
    <3> HIDE DEF T
    <3> QED  BY <3>2, <3>3, <1>3, <2>1
  <2>6. Cardinality(T \ v) = Cardinality(T) - Cardinality(v)
    <3>1. T \cap v = v
      BY <1>5
    <3> HIDE DEF T
    <3>2. Cardinality(T \ v) = Cardinality(T) - Cardinality(T \cap v)
      BY <2>5, FS_Difference
    <3> QED  BY <3>1, <3>2
  <2>7. Fills(T \ v)
    BY <2>4, <2>5, <2>6, <1>2, <1>3, <1>5, <2>1 DEF Fills
  <2>8. T \ v \subseteq InUseBut(v)
    BY <1>3, <1>6, <2>1 DEF InUseBut, Quiet, SlotsOK
  <2> QED  BY <2>7, <2>8, InUseButDevices, FillsMore
<1> QED  BY <1>7, <1>8

LEMMA InitHInv == ASSUME Init PROVE HInv
BY DEF Init, HInv, Idle, JudgementHolds

\* Between two ticks only reports are taken and judged, and what was granted
\* before is on its node already.
LEMMA QuietMeansIdle ==
  ASSUME Settled PROVE \A n \in Devices : JudgementHolds(n)
BY DEF Settled, JudgementHolds, Idle

LEMMA SettledSteps ==
  ASSUME IInv, HInv, "racing" \notin Races, NEW d \in Devices,
         \/ Switch(d) \/ Release(d) \/ Renew(d) \/ GoesQuiet(d) \/ GraceEnds(d)
         \/ \E used \in SUBSET holders : \E over \in SUBSET used : Claim(d, used, over)
  PROVE  HInv'
<1>1. Settled
  BY DEF Switch, Release, Renew, GoesQuiet, GraceEnds, Claim, Grant
<1>2. UNCHANGED <<due, judging>>
  BY DEF Switch, Release, Renew, GoesQuiet, GraceEnds, Claim, Grant, reports
<1>3. Settled'
  BY <1>1, <1>2 DEF Settled
<1>4. \A n \in Devices : JudgementHolds(n)'
  BY <1>3 DEF Settled, JudgementHolds, Idle
<1> QED  BY <1>3, <1>4 DEF HInv

\* A step that leaves the devices, the slots and the judgements alone.
LEMMA NothingReadChanges ==
  ASSUME HInv, UNCHANGED <<seen, held, holders, live, tally, judging>>,
         due' \subseteq due, lifting' \subseteq lifting
  PROVE  HInv'
<1>1. ~Settled' => ~Settled
  BY DEF Settled
<1>2. \A n \in Devices : JudgementHolds(n)'
  <2>1. \A n \in Devices : JudgementHolds(n)' <=> JudgementHolds(n)
    BY DEF JudgementHolds, Fills, InUseBut, Spent, tally
  <2> QED  BY <2>1 DEF HInv
<1> QED  BY <1>1, <1>2 DEF HInv

LEMMA TickHInv == ASSUME IInv, HInv, Tick PROVE HInv'
<1>1. Settled /\ lifting = {} /\ UNCHANGED <<lifting, judging>>
  BY DEF Tick
<1>2. \A n \in Devices : JudgementHolds(n)'
  BY <1>1 DEF Settled, JudgementHolds, Idle
<1> QED  BY <1>1, <1>2 DEF HInv

LEMMA LiftHInv == ASSUME IInv, HInv, NEW d \in Devices, LiftOnGrant(d) PROVE HInv'
<1>1. Settled /\ UNCHANGED <<due, judging>>
  BY DEF LiftOnGrant, HInv, reports
<1>2. Settled' /\ \A n \in Devices : JudgementHolds(n)'
  BY <1>1 DEF Settled, JudgementHolds, Idle
<1> QED  BY <1>2 DEF HInv

LEMMA ReportHInv ==
  ASSUME IInv, HInv, NEW d \in Devices, NEW bytes \in BOOLEAN, Report(d, bytes)
  PROVE  HInv'
<1>1. CASE ~bytes
  <2>1. UNCHANGED <<seen, held, holders, live, tally, judging, lifting>> /\ due' \subseteq due
    BY <1>1 DEF Report, presence, slots
  <2> QED  BY <2>1, NothingReadChanges
<1>2. CASE bytes
  <2>1. /\ d \in due /\ seen' = [seen EXCEPT ![d] = 0]
        /\ judging' = [judging EXCEPT ![d] = [stage |-> "read"]]
        /\ UNCHANGED <<held, holders, live, tally, lifting>>
    BY <1>2 DEF Report, slots
  <2>2. lifting' = {}
    BY <2>1 DEF HInv, Settled
  <2>3. ASSUME NEW v, Fills(InUseBut(v)) PROVE Fills(InUseBut(v)')
    <3>1. \A e \in Devices : seen[e] <= Fresh => seen'[e] <= Fresh
      BY <2>1, TimesAssumption DEF IInv, DevicesOK
    <3> QED  BY <2>1, <2>3, <3>1, CountStays
  <2>4. ASSUME NEW n \in Devices PROVE JudgementHolds(n)'
    <3>1. CASE n = d
      <4>1. judging'[n].stage = "read"
        BY <2>1, <3>1 DEF IInv, JudgingOK
      <4> QED  BY <4>1 DEF JudgementHolds
    <3>2. CASE n # d
      <4>1. judging'[n] = judging[n] /\ JudgementHolds(n)
        BY <2>1, <3>2 DEF IInv, JudgingOK, HInv
      <4>2. Spent' <=> Spent
        BY <2>1 DEF Spent, tally
      <4> QED  BY <4>1, <4>2, <2>1, <2>3 DEF JudgementHolds, InUseBut, Fills
    <3> QED  BY <3>1, <3>2
  <2> QED  BY <2>2, <2>4 DEF HInv
<1> QED  BY <1>1, <1>2

LEMMA ReadHInv ==
  ASSUME IInv, HInv, NEW n \in Devices, Read(n) PROVE HInv'
<1>1. PICK v \in IF Outcome = "hold" THEN Victims ELSE {{}} :
        \E j \in Judgement :
          /\ judging' = [judging EXCEPT ![n] = j] /\ j.stage = "judge"
          /\ j.lift = {d \in holders : held[d] > 0} /\ j.extend = Keep
          /\ j.outcome = Outcome /\ j.victims = v
  BY ReadJudged DEF IInv
<1>2. PICK j \in Judgement :
        /\ judging' = [judging EXCEPT ![n] = j] /\ j.stage = "judge"
        /\ j.lift = {d \in holders : held[d] > 0} /\ j.extend = Keep
        /\ j.outcome = Outcome /\ j.victims = v
  BY <1>1
<1>3. UNCHANGED <<seen, held, holders, live, strikes, struck, lifting, due>>
      /\ judging[n].stage = "read"
  BY DEF Read, presence, slots, tally, reports
<1>4. lifting' = {}
  BY <1>3 DEF HInv, Settled, Idle
<1>5. \A S : InUseBut(S)' = InUseBut(S)
  BY <1>3 DEF InUseBut
<1>6. ASSUME NEW m \in Devices PROVE JudgementHolds(m)'
  <2>1. CASE m = n
    <3>1. judging'[m] = j
      BY <1>2, <2>1 DEF IInv, JudgingOK
    <3>2. \A e \in Keep : e \notin holders /\ held[e] > 0
      BY DEF Keep, Held
    <3>3. j.outcome = "hold" => Fills(InUseBut(v))
      BY <1>1, <1>2, VictimsLeaveEnough
    <3> QED  BY <1>2, <1>3, <1>5, <3>1, <3>2, <3>3 DEF JudgementHolds, Fills
  <2>2. CASE m # n
    <3>1. judging'[m] = judging[m] /\ JudgementHolds(m)
      BY <1>2, <2>2 DEF IInv, JudgingOK, HInv
    <3> QED  BY <1>3, <1>5, <3>1 DEF JudgementHolds, Fills, Spent
  <2> QED  BY <2>1, <2>2
<1> QED  BY <1>4, <1>6 DEF HInv

LEMMA JudgeHInv ==
  ASSUME IInv, HInv, NEW n \in Devices, Judge(n) PROVE HInv'
<1>1. PICK j \in Judgement :
        /\ judging' = [judging EXCEPT ![n] = j]
        /\ \/ j = Idle
           \/ /\ ~Spent /\ Spent' /\ judging[n].outcome = "hold"
              /\ j = Holding(judging[n].victims, {})
  BY JudgeJudged DEF IInv
<1>2. judging[n].stage = "judge" /\ UNCHANGED <<seen, holders, live, lifting, due>>
      /\ held' = [d \in Devices |-> IF d \in judging[n].lift THEN 0
                                    ELSE IF d \in judging[n].extend THEN Lease ELSE held[d]]
  BY DEF Judge, presence, slots, reports
<1>3. JudgementHolds(n) /\ judging[n] \in Judgement
  BY DEF HInv, IInv, JudgingOK
<1>4. lifting' = {}
  BY <1>2 DEF HInv, Settled, Idle
<1>5. ASSUME NEW v, Fills(InUseBut(v)) PROVE Fills(InUseBut(v)')
  <2>1. \A e \in Devices : (held[e] = 0 \/ e \in holders) => (held'[e] = 0 \/ e \in holders)
    BY <1>2, <1>3 DEF JudgementHolds
  <2>2. \A e \in Devices : seen[e] <= Fresh => seen'[e] <= Fresh
    BY <1>2
  <2> QED  BY <1>2, <1>5, <2>1, <2>2, CountStays
<1>6. Spent => Spent'
  <2>1. judging[n].outcome \in {"within", "nobody", "waits", "hold"}
    BY <1>2, <1>3, Stages
  <2>2. strikes' = Strike(judging[n].outcome).strikes /\ struck' = Strike(judging[n].outcome).struck
    BY DEF Judge
  <2> QED  BY <2>1, <2>2, StrikeTypes DEF IInv, Spent
<1>7. \A e \in Devices \ holders : held[e] > 0 => held'[e] > 0
  BY <1>2, <1>3, TimesAssumption DEF JudgementHolds
<1>8. ASSUME NEW m \in Devices PROVE JudgementHolds(m)'
  <2>1. CASE m = n
    <3>1. judging'[m] = j
      BY <1>1, <2>1 DEF IInv, JudgingOK
    <3>2. CASE j = Idle
      BY <3>1, <3>2 DEF JudgementHolds, Idle
    <3>3. CASE ~Spent /\ judging[n].outcome = "hold" /\ j = Holding(judging[n].victims, {})
      <4>1. PICK v : v = judging[n].victims
        OBVIOUS
      <4>2. Fills(InUseBut(v)')
        BY <3>3, <4>1, <1>2, <1>3, <1>5 DEF JudgementHolds
      <4>3. judging'[m] = Holding(v, {}) /\ v \cup {} = v
        BY <3>1, <3>3, <4>1
      <4> QED  BY <4>2, <4>3 DEF JudgementHolds, Holding, InUseBut, Fills
    <3> QED  BY <1>1, <3>2, <3>3
  <2>2. CASE m # n
    <3>1. judging'[m] = judging[m] /\ JudgementHolds(m) /\ judging[m] \in Judgement
      BY <1>1, <2>2 DEF IInv, JudgingOK, HInv
    <3>2. judging[m].stage = "judge" => judging[m].extend \subseteq Devices
      BY <3>1, Stages
    <3>3. judging[m].stage = "judge" => \A e \in judging[m].extend : held'[e] > 0
      BY <3>1, <3>2, <1>7 DEF JudgementHolds
    <3> QED  BY <1>2, <1>5, <1>6, <3>1, <3>3 DEF JudgementHolds, Fills, InUseBut
  <2> QED  BY <2>1, <2>2
<1> QED  BY <1>4, <1>8 DEF HInv

LEMMA HoldWriteHInv ==
  ASSUME IInv, HInv, NEW n \in Devices, NEW d \in Devices, HoldWrite(n, d) PROVE HInv'
<1>1. /\ judging[n].stage = "hold" /\ judging[n].out = {} /\ d \in judging[n].left
      /\ held' = [held EXCEPT ![d] = Lease]
      /\ judging' = [judging EXCEPT ![n] = Holding(judging[n].left \ {d}, {d})]
      /\ UNCHANGED <<seen, holders, live, lifting, due, strikes, struck>>
  BY DEF HoldWrite, presence, slots, tally, reports
<1>2. lifting' = {}
  BY <1>1 DEF HInv, Settled, Idle
<1>3. Spent /\ Spent'
  BY <1>1 DEF IInv, JudgingOK, Spent
<1>4. ASSUME NEW m \in Devices PROVE JudgementHolds(m)'
  <2>1. CASE m = n
    <3>1. PICK v : v = judging[n].left
      OBVIOUS
    <3>2. Fills(InUseBut(v)) /\ d \in v
      <4>1. v \cup judging[n].out = v
        BY <1>1
      <4> QED  BY <1>1, <3>1, <4>1 DEF HInv, JudgementHolds
    <3>3. InUseBut(v)' = InUseBut(v)
      BY <1>1, <3>2 DEF InUseBut, IInv, DevicesOK
    <3>4. judging'[m] = Holding(v \ {d}, {d}) /\ (v \ {d}) \cup {d} = v
      BY <1>1, <2>1, <3>1, <3>2 DEF IInv, JudgingOK
    <3> QED  BY <3>2, <3>3, <3>4 DEF JudgementHolds, Holding, Fills
  <2>2. CASE m # n
    <3>1. judging'[m] = judging[m] /\ JudgementHolds(m) /\ judging[m] \in Judgement
      BY <1>1, <2>2 DEF IInv, JudgingOK, HInv
    <3>2. judging[m].stage # "hold"
      BY <1>1, <2>2 DEF IInv, JudgingOK
    <3>3. judging[m].stage = "judge" => judging[m].extend \subseteq Devices
      BY <3>1, Stages
    <3>4. judging[m].stage = "judge" => \A e \in judging[m].extend : held'[e] > 0
      BY <1>1, <3>1, <3>3, TimesAssumption DEF JudgementHolds, IInv, DevicesOK
    <3> QED  BY <1>1, <1>3, <3>1, <3>2, <3>4 DEF JudgementHolds
  <2> QED  BY <2>1, <2>2
<1> QED  BY <1>2, <1>4 DEF HInv

LEMMA HoldSendHInv ==
  ASSUME IInv, HInv, NEW n \in Devices, HoldSend(n) PROVE HInv'
<1> DEFINE j == IF judging[n].left = {} THEN Idle ELSE Holding(judging[n].left, {})
<1>1. /\ judging[n].stage = "hold" /\ judging' = [judging EXCEPT ![n] = j]
      /\ UNCHANGED <<seen, held, holders, live, lifting, due, strikes, struck>>
  BY DEF HoldSend, presence, slots, tally, reports
<1>2. lifting' = {}
  BY <1>1 DEF HInv, Settled, Idle
<1>3. \A S : InUseBut(S)' = InUseBut(S)
  BY <1>1 DEF InUseBut
<1>4. ASSUME NEW m \in Devices PROVE JudgementHolds(m)'
  <2>1. CASE m = n
    <3>1. PICK v : v = judging[n].left
      OBVIOUS
    <3>2. Fills(InUseBut(v))
      <4>1. Fills(InUseBut(v \cup judging[n].out))
        BY <1>1, <3>1 DEF HInv, JudgementHolds
      <4> QED  BY <4>1, InUseButFewer
    <3>3. judging'[m] = j
      BY <1>1, <2>1 DEF IInv, JudgingOK
    <3>4. CASE v = {}
      BY <3>1, <3>3, <3>4 DEF JudgementHolds, Idle
    <3>5. CASE v # {}
      <4>1. judging'[m] = Holding(v, {}) /\ v \cup {} = v
        BY <3>1, <3>3, <3>5
      <4> QED  BY <1>3, <3>2, <4>1 DEF JudgementHolds, Holding, Fills
    <3> QED  BY <3>4, <3>5
  <2>2. CASE m # n
    <3>1. judging'[m] = judging[m] /\ JudgementHolds(m)
      BY <1>1, <2>2 DEF IInv, JudgingOK, HInv
    <3> QED  BY <1>1, <1>3, <3>1 DEF JudgementHolds, Fills, Spent
  <2> QED  BY <2>1, <2>2
<1> QED  BY <1>2, <1>4 DEF HInv

LEMMA HInductive ==
  ASSUME "racing" \notin Races, IInv, HInv, [Next]_vars PROVE HInv'
<1>1. CASE Tick  BY <1>1, TickHInv
<1>2. ASSUME NEW d \in Devices,
             \/ Switch(d) \/ Release(d) \/ Renew(d) \/ GoesQuiet(d) \/ GraceEnds(d)
             \/ \E used \in SUBSET holders : \E over \in SUBSET used : Claim(d, used, over)
      PROVE  HInv'
  BY <1>2, SettledSteps
<1>3. ASSUME NEW d \in Devices, LiftOnGrant(d) PROVE HInv'
  BY <1>3, LiftHInv
<1>4. ASSUME NEW d \in Devices, Reassert(d) \/ Miss(d) PROVE HInv'
  <2>1. UNCHANGED <<seen, held, holders, live, tally, judging>> /\ due' \subseteq due
        /\ lifting' \subseteq lifting
    BY <1>4 DEF Reassert, Miss, presence, slots, reports
  <2> QED  BY <2>1, NothingReadChanges
<1>5. ASSUME NEW d \in Devices, NEW bytes \in BOOLEAN, Report(d, bytes) PROVE HInv'
  BY <1>5, ReportHInv
<1>6. ASSUME NEW n \in Devices, Judged(n) PROVE HInv'
  BY <1>6, ReadHInv, JudgeHInv, HoldWriteHInv, HoldSendHInv DEF Judged
<1>7. CASE UNCHANGED vars
  BY <1>7, NothingReadChanges DEF vars, presence, slots, tally, reports
<1> QED
  BY <1>1, <1>2, <1>3, <1>4, <1>5, <1>6, <1>7 DEF Next

\* A lease that is written leaves the plan's number of devices in use, whatever
\* was reported, lost, claimed or released before; unless a slot may be granted
\* while a report is judged.
THEOREM HoldsLeaveEnough ==
  ASSUME "racing" \notin Races PROVE Spec => NeverCutsBelowLimit
<1> DEFINE Cut == \A n, d \in Devices : HoldWrite(n, d) /\ d \notin raced =>
                    Cardinality({e \in Devices \ {d} : (held[e] = 0 \/ e \in holders) /\
                                          (seen[e] <= Fresh \/ e \in live)}) >= Limit
<1>1. Init => IInv /\ HInv
  BY InitIInv, InitHInv
<1>2. IInv /\ HInv /\ [Next]_vars => (IInv /\ HInv)'
  BY Inductive, HInductive
<1>3. IInv /\ HInv => Cut
  <2>1. SUFFICES ASSUME IInv, HInv, NEW n \in Devices, NEW d \in Devices, HoldWrite(n, d)
                 PROVE  Fills(InUseBut({d}))
    BY DEF Fills, InUseBut
  <2>2. judging[n].stage = "hold" /\ d \in judging[n].left
    BY <2>1 DEF HoldWrite
  <2>3. Fills(InUseBut(judging[n].left \cup judging[n].out))
    BY <2>1, <2>2 DEF HInv, JudgementHolds
  <2> QED  BY <2>2, <2>3, InUseButFewer
<1>4. IInv /\ HInv /\ [Next]_vars => [Cut]_vars
  BY <1>3
<1> QED  BY <1>1, <1>2, <1>4, PTL DEF Spec, NeverCutsBelowLimit

=============================================================================
