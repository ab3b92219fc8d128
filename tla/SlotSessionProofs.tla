------------------------- MODULE SlotSessionProofs -------------------------
(***************************************************************************)
(* Proofs about SlotSession, for any number of handles and of requests      *)
(* under way.                                                              *)
(***************************************************************************)
EXTENDS SlotSession, SequenceTheorems, TLAPS

AskRoles == {"dial", "check", "late", "poll"}

AskAnswers == {"granted", "unenforced", "uncounted", "refused", "displaced", "retry", "final"}

CallShape ==
  [op : Asks \cup {"release"}, role : Roles, names : SUBSET Handles,
   chosen : BOOLEAN, cur : BOOLEAN, watched : BOOLEAN, waits : BOOLEAN,
   answer : {"none", "released"} \cup AskAnswers, grant : Handles \cup {None}]

\* What the requests of this app can be: a claim or a renewal names nothing, is
\* watched only once its epoch is over, and is answered to an app that waits.
GoodCall(c) ==
  /\ c.op \in Asks => /\ c.role \in AskRoles /\ c.names = {}
                      /\ c.answer \in AskAnswers \cup {"none"}
  /\ c.op = "release" => c.role \notin AskRoles /\ c.answer \in {"none", "released"}
  /\ c.answer = "granted" => c.grant \in Handles
  /\ c.cur /\ c.answer # "none" => c.waits
  /\ c.watched => c.op \in Asks /\ ~c.cur /\ c.waits

GoodCalls == {c \in CallShape : GoodCall(c)}

-----------------------------------------------------------------------------
(***************************************************************************)
(* Sequences.                                                              *)
(***************************************************************************)
LEMMA CallAt ==
  ASSUME NEW S, NEW s \in Seq(S)
  PROVE  Len(s) \in Nat /\ DOMAIN s = 1..Len(s) /\ \A i \in DOMAIN s : s[i] \in S
BY LenProperties, ElementOfSeq

\* A sequence without its i-th element.
LEMMA WithoutSeq ==
  ASSUME NEW S, calls \in Seq(S), NEW i \in DOMAIN calls
  PROVE  /\ Without(i) \in Seq(S) /\ Len(Without(i)) = Len(calls) - 1
         /\ DOMAIN Without(i) = 1..Len(calls) - 1
         /\ \A j \in DOMAIN Without(i) :
              Without(i)[j] = IF j < i THEN calls[j] ELSE calls[j + 1]
<1>0. i \in 1..Len(calls) /\ Len(calls) \in Nat /\ \A k \in 1..Len(calls) : calls[k] \in S
  BY CallAt
<1> DEFINE before == SubSeq(calls, 1, i - 1)
           after == SubSeq(calls, i + 1, Len(calls))
<1>1. /\ before \in Seq(S) /\ Len(before) = i - 1
      /\ \A j \in 1..i - 1 : before[j] = calls[j]
  <2>1. \A j \in 1..i - 1 : calls[j] \in S
    BY <1>0
  <2>2. /\ before \in Seq(S)
        /\ Len(before) = IF 1 <= i - 1 THEN i - 1 - 1 + 1 ELSE 0
        /\ \A j \in 1..i - 1 - 1 + 1 : before[j] = calls[1 + j - 1]
    BY <2>1, <1>0, SubSeqProperties
  <2> QED  BY <2>2, <1>0
<1>2. /\ after \in Seq(S) /\ Len(after) = Len(calls) - i
      /\ \A j \in 1..Len(calls) - i : after[j] = calls[i + j]
  <2>1. \A j \in i + 1..Len(calls) : calls[j] \in S
    BY <1>0
  <2>2. /\ after \in Seq(S)
        /\ Len(after) = IF i + 1 <= Len(calls) THEN Len(calls) - (i + 1) + 1 ELSE 0
        /\ \A j \in 1..Len(calls) - (i + 1) + 1 : after[j] = calls[i + 1 + j - 1]
    BY <2>1, <1>0, SubSeqProperties
  <2> QED  BY <2>2, <1>0
<1>3. Without(i) = before \o after
  BY DEF Without
<1> HIDE DEF before, after
<1>4. /\ before \o after \in Seq(S)
      /\ Len(before \o after) = Len(before) + Len(after)
      /\ \A j \in 1..Len(before) + Len(after) :
           (before \o after)[j] = IF j <= Len(before) THEN before[j] ELSE after[j - Len(before)]
  BY <1>1, <1>2, ConcatProperties
<1>5. Len(before) + Len(after) = Len(calls) - 1 /\ Len(before) = i - 1
  BY <1>0, <1>1, <1>2
<1>6. DOMAIN (before \o after) = 1..Len(calls) - 1
  BY <1>4, <1>5, CallAt
<1>7. ASSUME NEW j \in 1..Len(calls) - 1
      PROVE  (before \o after)[j] = IF j < i THEN calls[j] ELSE calls[j + 1]
  <2>1. CASE j < i
    <3>1. (before \o after)[j] = before[j] /\ before[j] = calls[j]
      BY <2>1, <1>0, <1>1, <1>4, <1>5
    <3> QED  BY <2>1, <3>1
  <2>2. CASE ~(j < i)
    <3>1. j - (i - 1) \in 1..Len(calls) - i /\ i + (j - (i - 1)) = j + 1 /\ ~(j <= i - 1)
      BY <2>2, <1>0
    <3>2. (before \o after)[j] = after[j - (i - 1)]
      BY <3>1, <1>4, <1>5
    <3> QED  BY <2>2, <3>1, <3>2, <1>2
  <2> QED  BY <2>1, <2>2
<1> QED  BY <1>3, <1>4, <1>5, <1>6, <1>7

\* The same, by where an element of it was before.
LEMMA WithoutFrom ==
  ASSUME NEW S, calls \in Seq(S), NEW i \in DOMAIN calls, NEW j \in DOMAIN Without(i)
  PROVE  \E k \in DOMAIN calls : k # i /\ Without(i)[j] = calls[k] /\ k = IF j < i THEN j ELSE j + 1
<1>1. i \in 1..Len(calls) /\ Len(calls) \in Nat /\ DOMAIN calls = 1..Len(calls)
  BY CallAt
<1>2. j \in 1..Len(calls) - 1 /\ Without(i)[j] = IF j < i THEN calls[j] ELSE calls[j + 1]
  BY WithoutSeq
<1>3. CASE j < i
  BY <1>1, <1>2, <1>3
<1>4. CASE ~(j < i)
  BY <1>1, <1>2, <1>4
<1> QED  BY <1>3, <1>4

LEMMA WithoutTo ==
  ASSUME NEW S, calls \in Seq(S), NEW i \in DOMAIN calls, NEW k \in DOMAIN calls, k # i
  PROVE  \E j \in DOMAIN Without(i) : Without(i)[j] = calls[k] /\ j = IF k < i THEN k ELSE k - 1
<1>1. i \in 1..Len(calls) /\ k \in 1..Len(calls) /\ Len(calls) \in Nat
  BY CallAt
<1>2. DOMAIN Without(i) = 1..Len(calls) - 1
      /\ \A j \in 1..Len(calls) - 1 : Without(i)[j] = IF j < i THEN calls[j] ELSE calls[j + 1]
  BY WithoutSeq
<1>3. CASE k < i
  BY <1>1, <1>2, <1>3
<1>4. CASE ~(k < i)
  <2>1. k - 1 \in 1..Len(calls) - 1 /\ ~(k - 1 < i) /\ (k - 1) + 1 = k
    BY <1>1, <1>4
  <2>2. Without(i)[k - 1] = calls[k]
    BY <1>2, <2>1
  <2> QED  BY <1>2, <1>4, <2>1, <2>2
<1> QED  BY <1>3, <1>4

LEMMA ExceptCall ==
  ASSUME NEW S, calls \in Seq(S), NEW i \in DOMAIN calls, NEW e \in S
  PROVE  /\ [calls EXCEPT ![i] = e] \in Seq(S) /\ Len([calls EXCEPT ![i] = e]) = Len(calls)
         /\ DOMAIN [calls EXCEPT ![i] = e] = DOMAIN calls
         /\ \A j \in DOMAIN calls : [calls EXCEPT ![i] = e][j] = IF j = i THEN e ELSE calls[j]
BY ExceptSeq, CallAt

LEMMA AppendCall ==
  ASSUME NEW S, NEW s \in Seq(S), NEW e \in S
  PROVE  /\ Append(s, e) \in Seq(S) /\ Len(Append(s, e)) = Len(s) + 1
         /\ DOMAIN Append(s, e) = 1..Len(s) + 1
         /\ \A j \in DOMAIN s : Append(s, e)[j] = s[j]
         /\ Append(s, e)[Len(s) + 1] = e
BY AppendProperties, CallAt

\* What is sent at the start of an epoch comes after what is still under way.
LEMMA AfterCalls ==
  ASSUME NEW S, NEW n \in Nat, NEW s \in [1..n -> S], NEW sent, NEW c \in S,
         sent = <<>> \/ sent = <<c>>
  PROVE  /\ s \o sent \in Seq(S) /\ Len(s) = n /\ Len(s \o sent) = n + Len(sent)
         /\ DOMAIN (s \o sent) = 1..n + Len(sent)
         /\ \A j \in 1..n : (s \o sent)[j] = s[j]
         /\ \A j \in DOMAIN (s \o sent) : j \notin 1..n => sent # <<>> /\ j = n + 1 /\ (s \o sent)[j] = c
         /\ sent # <<>> => Len(sent) = 1
         /\ sent = <<>> => Len(sent) = 0
<1>1. s \in Seq(S) /\ Len(s) = n
  <2>1. [1..n -> S] \in {[1..m -> S] : m \in Nat}
    OBVIOUS
  <2>2. s \in UNION {[1..m -> S] : m \in Nat}
    BY <2>1
  <2>3. s \in Seq(S)
    BY <2>2, SeqDef
  <2>4. Len(s) \in Nat /\ 1..Len(s) = 1..n
    BY <2>3, CallAt
  <2>5. n <= Len(s)
    <3>1. n # 0 => n \in 1..Len(s)
      BY <2>4
    <3> QED  BY <2>4, <3>1
  <2>6. Len(s) <= n
    <3>1. Len(s) # 0 => Len(s) \in 1..n
      BY <2>4
    <3> QED  BY <2>4, <3>1
  <2> QED  BY <2>3, <2>4, <2>5, <2>6
<1>2. sent \in Seq(S) /\ (sent # <<>> => Len(sent) = 1 /\ sent[1] = c) /\ (sent = <<>> => Len(sent) = 0)
  <2>1. CASE sent = <<>>
    BY <2>1, EmptySeq
  <2>2. CASE sent = <<c>>
    BY <2>2
  <2> QED  BY <2>1, <2>2
<1>3. /\ s \o sent \in Seq(S) /\ Len(s \o sent) = n + Len(sent)
      /\ \A j \in 1..n + Len(sent) : (s \o sent)[j] = IF j <= n THEN s[j] ELSE sent[j - n]
  BY <1>1, <1>2, ConcatProperties
<1>4. DOMAIN (s \o sent) = 1..n + Len(sent) /\ Len(sent) \in Nat
  BY <1>2, <1>3, CallAt
<1>5. \A j \in 1..n : (s \o sent)[j] = s[j]
  BY <1>3, <1>4
<1>6. ASSUME NEW j \in DOMAIN (s \o sent), j \notin 1..n
      PROVE  sent # <<>> /\ j = n + 1 /\ (s \o sent)[j] = c
  BY <1>2, <1>3, <1>4, <1>6
<1> QED  BY <1>1, <1>2, <1>3, <1>4, <1>5, <1>6

-----------------------------------------------------------------------------
(***************************************************************************)
(* One request.                                                            *)
(***************************************************************************)
\* A request whose epoch is over.
Over(c) == [c EXCEPT !.cur = FALSE, !.watched = FALSE, !.chosen = FALSE]

\* The same in front of giveBack.
Left(c) == [c EXCEPT !.cur = FALSE, !.watched = c.op \in Asks /\ c.waits, !.chosen = FALSE]

\* The app waits for its answer in its own epoch.
Awaited(c) == c.op \in Asks /\ c.cur /\ c.waits

LEMMA OverCall ==
  ASSUME NEW c \in GoodCalls
  PROVE  /\ Over(c) \in GoodCalls /\ ~Over(c).cur /\ ~Over(c).watched
         /\ Over(c).op = c.op /\ Over(c).role = c.role /\ Over(c).names = c.names
         /\ Over(c).waits = c.waits /\ Over(c).answer = c.answer /\ Over(c).grant = c.grant
BY DEF GoodCalls, GoodCall, CallShape, Over

LEMMA LeftCall ==
  ASSUME NEW c \in GoodCalls
  PROVE  /\ Left(c) \in GoodCalls /\ ~Left(c).cur
         /\ Left(c).watched <=> c.op \in Asks /\ c.waits
         /\ Left(c).op = c.op /\ Left(c).role = c.role /\ Left(c).names = c.names
         /\ Left(c).waits = c.waits /\ Left(c).answer = c.answer /\ Left(c).grant = c.grant
BY DEF GoodCalls, GoodCall, CallShape, Left

LEMMA ForgottenCall ==
  ASSUME NEW c \in GoodCalls
  PROVE  LET f == [Over(c) EXCEPT !.waits = FALSE] IN
         /\ f \in GoodCalls /\ ~f.cur /\ ~f.watched
         /\ f.op = c.op /\ f.role = c.role /\ f.names = c.names
         /\ ~f.waits /\ f.answer = c.answer /\ f.grant = c.grant
BY DEF GoodCalls, GoodCall, CallShape, Over

LEMMA AskCall ==
  ASSUME NEW op \in Asks, NEW role \in AskRoles, NEW chosen \in BOOLEAN
  PROVE  LET c == Call(op, role, {}, chosen) IN
         /\ c \in GoodCalls /\ c.op = op /\ c.role = role /\ c.names = {} /\ c.chosen = chosen
         /\ c.cur /\ ~c.watched /\ c.waits /\ c.answer = "none" /\ c.grant = None
BY DEF GoodCalls, GoodCall, CallShape, Call, AskRoles, Roles, Asks, AskAnswers

LEMMA ReleaseCall ==
  ASSUME NEW role \in Roles \ AskRoles, NEW names \in SUBSET Handles
  PROVE  LET c == Release(role, names) IN
         /\ c \in GoodCalls /\ c.op = "release" /\ c.role = role /\ c.names = names
         /\ c.cur /\ ~c.watched /\ c.waits /\ c.answer = "none" /\ c.grant = None
BY DEF GoodCalls, GoodCall, CallShape, Release, Call, AskRoles, Asks, AskAnswers

LEMMA ReleasedCall ==
  ASSUME NEW c \in GoodCalls, c.op = "release", c.waits
  PROVE  LET d == [c EXCEPT !.answer = "released", !.grant = None] IN
         /\ d \in GoodCalls /\ d.op = c.op /\ d.role = c.role /\ d.names = c.names
         /\ d.chosen = c.chosen /\ d.cur = c.cur /\ d.watched = c.watched /\ d.waits = c.waits
         /\ d.answer = "released"
BY DEF GoodCalls, GoodCall, CallShape, AskAnswers, Asks

LEMMA GivenUpCall ==
  ASSUME NEW c \in GoodCalls, c.answer = "none"
  PROVE  LET d == [c EXCEPT !.waits = FALSE, !.watched = FALSE] IN
         /\ d \in GoodCalls /\ d.op = c.op /\ d.role = c.role /\ d.names = c.names
         /\ d.chosen = c.chosen /\ d.cur = c.cur /\ ~d.watched /\ ~d.waits
         /\ d.answer = c.answer /\ d.grant = c.grant
BY DEF GoodCalls, GoodCall, CallShape, AskAnswers, Asks

LEMMA GivenUpRelease ==
  ASSUME NEW c \in GoodCalls, c.op = "release", c.answer = "none"
  PROVE  LET d == [c EXCEPT !.waits = FALSE] IN
         /\ d \in GoodCalls /\ d.op = c.op /\ d.role = c.role /\ d.names = c.names
         /\ d.chosen = c.chosen /\ d.cur = c.cur /\ ~d.watched /\ ~d.waits
         /\ d.answer = c.answer /\ d.grant = c.grant
BY DEF GoodCalls, GoodCall, CallShape, AskAnswers, Asks

LEMMA CallFields ==
  ASSUME NEW c \in GoodCalls
  PROVE  /\ c.op \in Asks \cup {"release"} /\ c.names \in SUBSET Handles
         /\ c.cur \in BOOLEAN /\ c.watched \in BOOLEAN /\ c.waits \in BOOLEAN /\ c.chosen \in BOOLEAN
         /\ c.grant \in Handles \cup {None} /\ GoodCall(c) /\ c \in CallShape
BY DEF GoodCalls, CallShape

-----------------------------------------------------------------------------
(***************************************************************************)
(* What a step makes of the requests under way.                            *)
(***************************************************************************)
CallsOK == calls \in Seq(GoodCalls) /\ Len(calls) <= MaxCalls

LEMMA CallsFacts ==
  ASSUME CallsOK
  PROVE  /\ calls \in Seq(GoodCalls) /\ Len(calls) \in Nat /\ DOMAIN calls = 1..Len(calls)
         /\ \A i \in DOMAIN calls : calls[i] \in GoodCalls
         /\ Len(calls) <= MaxCalls /\ MaxCalls \in Nat
BY CallAt, CallsAssumption DEF CallsOK

LEMMA OrphanedCalls ==
  ASSUME CallsOK
  PROVE  /\ Orphaned \in [1..Len(calls) -> GoodCalls]
         /\ \A i \in DOMAIN calls : Orphaned[i] = Over(calls[i])
BY CallsFacts, OverCall DEF Orphaned, Over

LEMMA WatchedCalls ==
  ASSUME CallsOK
  PROVE  /\ Watched \in [1..Len(calls) -> GoodCalls]
         /\ \A i \in DOMAIN calls : Watched[i] = Left(calls[i])
BY CallsFacts, LeftCall DEF Watched, Left, IsAsk

\* A new epoch, and what it sends.
LEMMA EpochCalls ==
  ASSUME CallsOK, NEW c \in GoodCalls, NEW sent, sent = <<>> \/ (sent = <<c>> /\ Room),
         calls' = Orphaned \o sent
  PROVE  /\ CallsOK'
         /\ \A j \in DOMAIN calls' :
              \/ j \in DOMAIN calls /\ calls'[j] = Over(calls[j])
              \/ sent = <<c>> /\ j = Len(calls) + 1 /\ calls'[j] = c
         /\ sent = <<c>> => Len(calls) + 1 \in DOMAIN calls' /\ calls'[Len(calls) + 1] = c
<1>1. Len(calls) \in Nat /\ DOMAIN calls = 1..Len(calls) /\ Len(calls) <= MaxCalls
  BY CallsFacts
<1>2. Orphaned \in [1..Len(calls) -> GoodCalls] /\ \A i \in 1..Len(calls) : Orphaned[i] = Over(calls[i])
  BY OrphanedCalls, <1>1
<1>3. /\ calls' \in Seq(GoodCalls) /\ Len(calls') = Len(calls) + Len(sent)
      /\ DOMAIN calls' = 1..Len(calls) + Len(sent)
      /\ \A j \in 1..Len(calls) : calls'[j] = Orphaned[j]
      /\ \A j \in DOMAIN calls' : j \notin 1..Len(calls) => sent # <<>> /\ j = Len(calls) + 1 /\ calls'[j] = c
      /\ (sent # <<>> => Len(sent) = 1) /\ (sent = <<>> => Len(sent) = 0)
  <2>1. sent = <<>> \/ sent = <<c>>
    OBVIOUS
  <2> DEFINE n == Len(calls)
             s == Orphaned
  <2>2. n \in Nat /\ s \in [1..n -> GoodCalls] /\ calls' = s \o sent
    BY <1>1, <1>2
  <2> HIDE DEF n, s
  <2>3. /\ s \o sent \in Seq(GoodCalls) /\ Len(s \o sent) = n + Len(sent)
        /\ DOMAIN (s \o sent) = 1..n + Len(sent)
        /\ \A j \in 1..n : (s \o sent)[j] = s[j]
        /\ \A j \in DOMAIN (s \o sent) : j \notin 1..n => sent # <<>> /\ j = n + 1 /\ (s \o sent)[j] = c
        /\ (sent # <<>> => Len(sent) = 1) /\ (sent = <<>> => Len(sent) = 0)
    BY <2>1, <2>2, AfterCalls
  <2> QED  BY <2>2, <2>3 DEF n, s
<1>4. Len(calls') <= MaxCalls
  <2>1. CASE sent = <<>>
    BY <2>1, <1>1, <1>3
  <2>2. CASE sent # <<>>
    BY <2>2, <1>1, <1>3, CallsAssumption DEF Room
  <2> QED  BY <2>1, <2>2
<1>5. sent = <<c>> => sent # <<>>
  OBVIOUS
<1>6. sent = <<c>> => Len(calls) + 1 \in DOMAIN calls' /\ Len(calls) + 1 \notin 1..Len(calls)
      /\ calls'[Len(calls) + 1] = c
  BY <1>1, <1>3, <1>5
<1>7. ASSUME NEW j \in DOMAIN calls'
      PROVE  \/ j \in DOMAIN calls /\ calls'[j] = Over(calls[j])
             \/ sent = <<c>> /\ j = Len(calls) + 1 /\ calls'[j] = c
  <2>1. CASE j \in 1..Len(calls)
    BY <2>1, <1>1, <1>2, <1>3
  <2>2. CASE j \notin 1..Len(calls)
    BY <2>2, <1>3
  <2> QED  BY <2>1, <2>2
<1> QED  BY <1>3, <1>4, <1>5, <1>6, <1>7 DEF CallsOK

\* The slot is given back, and the release that says so.
LEMMA LeftCalls ==
  ASSUME CallsOK, NEW c \in GoodCalls, NEW sent, sent = <<>> \/ (sent = <<c>> /\ Room),
         calls' = Watched \o sent
  PROVE  /\ CallsOK'
         /\ \A j \in DOMAIN calls' :
              \/ j \in DOMAIN calls /\ calls'[j] = Left(calls[j])
              \/ sent = <<c>> /\ j = Len(calls) + 1 /\ calls'[j] = c
         /\ sent = <<c>> => Len(calls) + 1 \in DOMAIN calls' /\ calls'[Len(calls) + 1] = c
         /\ \A j \in DOMAIN calls : j \in DOMAIN calls' /\ calls'[j] = Left(calls[j])
<1>1. Len(calls) \in Nat /\ DOMAIN calls = 1..Len(calls) /\ Len(calls) <= MaxCalls
  BY CallsFacts
<1>2. Watched \in [1..Len(calls) -> GoodCalls] /\ \A i \in 1..Len(calls) : Watched[i] = Left(calls[i])
  BY WatchedCalls, <1>1
<1>3. /\ calls' \in Seq(GoodCalls) /\ Len(calls') = Len(calls) + Len(sent)
      /\ DOMAIN calls' = 1..Len(calls) + Len(sent)
      /\ \A j \in 1..Len(calls) : calls'[j] = Watched[j]
      /\ \A j \in DOMAIN calls' : j \notin 1..Len(calls) => sent # <<>> /\ j = Len(calls) + 1 /\ calls'[j] = c
      /\ (sent # <<>> => Len(sent) = 1) /\ (sent = <<>> => Len(sent) = 0)
  <2>1. sent = <<>> \/ sent = <<c>>
    OBVIOUS
  <2> DEFINE n == Len(calls)
             s == Watched
  <2>2. n \in Nat /\ s \in [1..n -> GoodCalls] /\ calls' = s \o sent
    BY <1>1, <1>2
  <2> HIDE DEF n, s
  <2>3. /\ s \o sent \in Seq(GoodCalls) /\ Len(s \o sent) = n + Len(sent)
        /\ DOMAIN (s \o sent) = 1..n + Len(sent)
        /\ \A j \in 1..n : (s \o sent)[j] = s[j]
        /\ \A j \in DOMAIN (s \o sent) : j \notin 1..n => sent # <<>> /\ j = n + 1 /\ (s \o sent)[j] = c
        /\ (sent # <<>> => Len(sent) = 1) /\ (sent = <<>> => Len(sent) = 0)
    BY <2>1, <2>2, AfterCalls
  <2> QED  BY <2>2, <2>3 DEF n, s
<1>4. Len(calls') <= MaxCalls
  <2>1. CASE sent = <<>>
    BY <2>1, <1>1, <1>3
  <2>2. CASE sent # <<>>
    BY <2>2, <1>1, <1>3, CallsAssumption DEF Room
  <2> QED  BY <2>1, <2>2
<1>5. sent = <<c>> => sent # <<>>
  OBVIOUS
<1>6. sent = <<c>> => Len(calls) + 1 \in DOMAIN calls' /\ Len(calls) + 1 \notin 1..Len(calls)
      /\ calls'[Len(calls) + 1] = c
  BY <1>1, <1>3, <1>5
<1>7. ASSUME NEW j \in DOMAIN calls'
      PROVE  \/ j \in DOMAIN calls /\ calls'[j] = Left(calls[j])
             \/ sent = <<c>> /\ j = Len(calls) + 1 /\ calls'[j] = c
  <2>1. CASE j \in 1..Len(calls)
    BY <2>1, <1>1, <1>2, <1>3
  <2>2. CASE j \notin 1..Len(calls)
    BY <2>2, <1>3
  <2> QED  BY <2>1, <2>2
<1>8. \A j \in DOMAIN calls : j \in DOMAIN calls' /\ calls'[j] = Left(calls[j])
  BY <1>1, <1>2, <1>3, <1>5
<1> QED  BY <1>3, <1>4, <1>5, <1>6, <1>7, <1>8 DEF CallsOK

\* One more request.
LEMMA MoreCalls ==
  ASSUME CallsOK, Room, NEW c \in GoodCalls, calls' = Append(calls, c)
  PROVE  /\ CallsOK'
         /\ \A j \in DOMAIN calls' :
              \/ j \in DOMAIN calls /\ calls'[j] = calls[j]
              \/ j = Len(calls) + 1 /\ calls'[j] = c
         /\ Len(calls) + 1 \in DOMAIN calls' /\ calls'[Len(calls) + 1] = c
         /\ \A j \in DOMAIN calls : j \in DOMAIN calls' /\ calls'[j] = calls[j]
<1>1. calls \in Seq(GoodCalls) /\ Len(calls) \in Nat /\ DOMAIN calls = 1..Len(calls)
      /\ Len(calls) <= MaxCalls /\ MaxCalls \in Nat
  BY CallsFacts
<1>2. /\ calls' \in Seq(GoodCalls) /\ Len(calls') = Len(calls) + 1
      /\ DOMAIN calls' = 1..Len(calls) + 1
      /\ \A j \in DOMAIN calls : calls'[j] = calls[j]
      /\ calls'[Len(calls) + 1] = c
  BY <1>1, AppendCall
<1>3. Len(calls') <= MaxCalls
  BY <1>1, <1>2 DEF Room
<1> QED  BY <1>1, <1>2, <1>3 DEF CallsOK

\* One request less.
LEMMA FewerCalls ==
  ASSUME CallsOK, NEW i \in DOMAIN calls
  PROVE  /\ Without(i) \in Seq(GoodCalls) /\ Len(Without(i)) < MaxCalls
         /\ \A j \in DOMAIN Without(i) :
              \E k \in DOMAIN calls : k # i /\ Without(i)[j] = calls[k] /\ k = IF j < i THEN j ELSE j + 1
<1>1. Without(i) \in Seq(GoodCalls) /\ Len(Without(i)) = Len(calls) - 1
  BY CallsFacts, WithoutSeq
<1>2. Len(Without(i)) < MaxCalls
  BY <1>1, CallsFacts
<1>3. ASSUME NEW j \in DOMAIN Without(i)
      PROVE  \E k \in DOMAIN calls : k # i /\ Without(i)[j] = calls[k] /\ k = IF j < i THEN j ELSE j + 1
  BY CallsFacts, WithoutFrom
<1> QED  BY <1>1, <1>2, <1>3

\* One request that changed.
LEMMA ChangedCall ==
  ASSUME CallsOK, NEW i \in DOMAIN calls, NEW d \in GoodCalls
  PROVE  LET s == [calls EXCEPT ![i] = d] IN
         /\ s \in Seq(GoodCalls) /\ Len(s) = Len(calls) /\ DOMAIN s = DOMAIN calls
         /\ \A j \in DOMAIN calls : s[j] = IF j = i THEN d ELSE calls[j]
BY CallsFacts, ExceptCall

-----------------------------------------------------------------------------
(***************************************************************************)
(* Types.                                                                  *)
(***************************************************************************)
Standings == {"none", "held", "unenforced", "uncounted", "unclaimed", "displaced"}

VarsOK ==
  /\ target \in BOOLEAN /\ owes \in BOOLEAN /\ retryClaim \in BOOLEAN
  /\ standing \in Standings
  /\ lastGrant \in Handles \cup {None} /\ slot \in Handles \cup {None}
  /\ confirmed \in {"never", "fresh", "aging", "lapsed"}
  /\ again \in {"no", "teardown", "timer1", "timer2"}
  /\ watch \subseteq Handles \cup {Known}
  /\ pass \in {"rest", "clearing", "claiming", "prechecking", "checking", "dialling"}
  /\ auto \in BOOLEAN /\ tunnel \in {"down", "up", "leaving", "stopping"}
  /\ owed \in {"none", "tearingDown", "stuck"} /\ attempt \in BOOLEAN
  /\ slotLost \in BOOLEAN /\ doubt \in BOOLEAN

TInv == VarsOK /\ CallsOK

LEMMA NamesLast == ASSUME VarsOK, lastGrant # None PROVE {lastGrant} \in SUBSET Handles
BY DEF VarsOK

LEMMA GiveBackCalls ==
  ASSUME TInv, NEW torn \in BOOLEAN, GiveBack(torn)
  PROVE  \E c \in GoodCalls : \E sent \in {<<>>, <<c>>} :
           /\ calls' = Watched \o sent /\ (sent = <<c>> => Room /\ lastGrant # None)
           /\ c.op = "release" /\ c.names = {lastGrant} \cap Handles /\ c.answer = "none" /\ c.waits
           /\ standing \in {"held", "unclaimed"} /\ lastGrant # None => sent = <<c>>
<1> DEFINE sends == HoldsSomething /\ lastGrant # None
           role == IF torn THEN "torn" ELSE "first"
           c == Release(role, {lastGrant} \cap Handles)
           sent == IF sends THEN <<c>> ELSE <<>>
<1>1. role \in Roles \ AskRoles /\ {lastGrant} \cap Handles \in SUBSET Handles
  BY DEF Roles, AskRoles
<1>2. c \in GoodCalls /\ c.op = "release" /\ c.names = {lastGrant} \cap Handles /\ c.answer = "none" /\ c.waits
  BY <1>1, ReleaseCall
<1>3. lastGrant # None => {lastGrant} \cap Handles = {lastGrant}
  BY DEF TInv, VarsOK
<1>4. calls' = Watched \o sent /\ (sends => Room)
  BY <1>3 DEF GiveBack
<1>5. standing \in {"held", "unclaimed"} /\ lastGrant # None => sent = <<c>>
  BY DEF HoldsSomething
<1>6. sent \in {<<>>, <<c>>} /\ (sent = <<c>> => Room /\ lastGrant # None)
  BY <1>4
<1> HIDE DEF c, sent
<1> QED  BY <1>2, <1>4, <1>5, <1>6

LEMMA SetAsideCalls ==
  ASSUME TInv, SetAside
  PROVE  \E c \in GoodCalls : \E sent \in {<<>>, <<c>>} :
           /\ calls' = Watched \o sent /\ (sent = <<c>> => Room /\ lastGrant # None)
           /\ c.op = "release" /\ c.names = {lastGrant} \cap Handles /\ c.answer = "none" /\ c.waits
           /\ lastGrant # None => sent = <<c>>
<1> DEFINE c == Release("first", {lastGrant} \cap Handles)
           sent == IF lastGrant # None THEN <<c>> ELSE <<>>
<1>1. c \in GoodCalls /\ c.op = "release" /\ c.names = {lastGrant} \cap Handles /\ c.answer = "none" /\ c.waits
  BY ReleaseCall DEF Roles, AskRoles
<1>3. lastGrant # None => {lastGrant} \cap Handles = {lastGrant}
  BY DEF TInv, VarsOK
<1>4. calls' = Watched \o sent /\ (lastGrant # None => Room)
  BY <1>3 DEF SetAside
<1>5. lastGrant # None => sent = <<c>>
  OBVIOUS
<1>6. sent \in {<<>>, <<c>>} /\ (sent = <<c>> => Room /\ lastGrant # None)
  BY <1>4
<1> HIDE DEF c, sent
<1> QED  BY <1>1, <1>4, <1>5, <1>6

\* The claim of a connect, or the moment a release is given before it.
LEMMA ClaimingCalls ==
  ASSUME TInv, NEW takeover \in BOOLEAN, StartsClaiming(takeover)
  PROVE  \E c \in GoodCalls : \E sent \in {<<>>, <<c>>} :
           /\ calls' = Orphaned \o sent /\ (sent = <<c>> => Room)
           /\ c.op \in Asks /\ c.cur /\ c.waits /\ c.answer = "none" /\ c.chosen = takeover /\ c.role = "dial"
           /\ c.names = {} /\ ~c.watched
           /\ \/ sent = <<>> /\ pass' = "clearing"
              \/ sent = <<c>> /\ pass' = "claiming"
<1> DEFINE c == Call("claim", "dial", {}, takeover)
<1>1. c \in GoodCalls /\ c.op \in Asks /\ c.cur /\ c.waits /\ c.answer = "none"
      /\ c.chosen = takeover /\ c.role = "dial" /\ c.names = {} /\ ~c.watched
  BY AskCall DEF Asks, AskRoles
<1>2. \/ calls' = Orphaned \o <<>> /\ pass' = "clearing"
      \/ Room /\ calls' = Orphaned \o <<c>> /\ pass' = "claiming"
  BY DEF StartsClaiming, NewEpoch
<1> HIDE DEF c
<1>3. <<c>> # <<>>
  OBVIOUS
<1> QED  BY <1>1, <1>2, <1>3

LEMMA CheckingCalls ==
  ASSUME TInv, CheckStanding
  PROVE  \E c \in GoodCalls :
           /\ calls' = Orphaned \o <<c>> /\ Room
           /\ c.op \in Asks /\ c.cur /\ c.waits /\ c.answer = "none" /\ c.chosen = owes /\ c.role = "check"
           /\ c.names = {} /\ ~c.watched
<1> DEFINE c == Call(IF owes THEN "claim" ELSE "renew", "check", {}, owes)
<1>1. c \in GoodCalls /\ c.op \in Asks /\ c.cur /\ c.waits /\ c.answer = "none"
      /\ c.chosen = owes /\ c.role = "check" /\ c.names = {} /\ ~c.watched
  BY AskCall DEF Asks, AskRoles, TInv, VarsOK
<1>2. calls' = Orphaned \o <<c>> /\ Room
  BY DEF CheckStanding, NewEpoch
<1> HIDE DEF c
<1> QED  BY <1>1, <1>2

\* What is left of the requests when one of them is answered, or given up.
LEMMA RestAfterSettle ==
  ASSUME TInv, NEW i, Settle(i)
  PROVE  /\ i \in DOMAIN calls /\ calls[i] \in GoodCalls /\ calls[i].op \in Asks
         /\ calls[i].answer \in AskAnswers /\ calls[i].grant \in Handles \cup {None}
         /\ calls[i].answer = "granted" => calls[i].grant \in Handles
         /\ calls[i].cur => Awaited(calls[i])
         /\ Without(i) \in Seq(GoodCalls) /\ Len(Without(i)) < MaxCalls
         /\ Answer(i, calls[i].answer, calls[i].grant, Without(i))
<1>1. i \in DOMAIN calls /\ calls[i].op \in Asks /\ calls[i].answer # "none"
      /\ Answer(i, calls[i].answer, calls[i].grant, Without(i))
  BY DEF Settle, IsAsk
<1>2. calls[i] \in GoodCalls
  BY <1>1, CallsFacts DEF TInv
<1>3. GoodCall(calls[i]) /\ calls[i].grant \in Handles \cup {None}
  BY <1>2, CallFields
<1>4. Without(i) \in Seq(GoodCalls) /\ Len(Without(i)) < MaxCalls
  BY <1>1, FewerCalls DEF TInv
<1> QED  BY <1>1, <1>2, <1>3, <1>4 DEF GoodCall, Awaited

LEMMA RestAfterTimeOut ==
  ASSUME TInv, NEW i, TimeOut(i)
  PROVE  /\ i \in DOMAIN calls /\ calls[i] \in GoodCalls /\ calls[i].op \in Asks /\ calls[i].waits
         /\ calls[i].cur => Awaited(calls[i])
         /\ \E rest \in Seq(GoodCalls) :
              /\ Len(rest) <= MaxCalls /\ Answer(i, "retry", None, rest)
              /\ \/ rest = Without(i)
                 \/ /\ calls[i].answer = "none" /\ DOMAIN rest = DOMAIN calls
                    /\ \A j \in DOMAIN calls : j # i => rest[j] = calls[j]
                    /\ ~rest[i].waits /\ ~rest[i].watched /\ rest[i].names = calls[i].names
                    /\ rest[i].op = calls[i].op /\ rest[i].cur = calls[i].cur
                    /\ rest[i].role = calls[i].role /\ rest[i].answer = "none" /\ rest[i].grant = calls[i].grant
<1> DEFINE d == [calls[i] EXCEPT !.waits = FALSE, !.watched = FALSE]
           s == [calls EXCEPT ![i] = d]
<1>1. i \in DOMAIN calls /\ calls[i].op \in Asks /\ calls[i].waits
      /\ Answer(i, "retry", None, IF calls[i].answer # "none" THEN Without(i) ELSE s)
  BY DEF TimeOut, IsAsk
<1>2. calls[i] \in GoodCalls
  BY <1>1, CallsFacts DEF TInv
<1>3. Without(i) \in Seq(GoodCalls) /\ Len(Without(i)) <= MaxCalls
  <2>1. Without(i) \in Seq(GoodCalls) /\ Len(Without(i)) < MaxCalls
    BY <1>1, FewerCalls DEF TInv
  <2> QED  BY <2>1, CallAt, CallsAssumption
<1>4. CASE calls[i].answer # "none"
  BY <1>1, <1>2, <1>3, <1>4 DEF Awaited
<1>5. CASE calls[i].answer = "none"
  <2>1. d \in GoodCalls /\ ~d.waits /\ ~d.watched /\ d.names = calls[i].names
        /\ d.op = calls[i].op /\ d.cur = calls[i].cur
        /\ d.role = calls[i].role /\ d.answer = "none"
    BY <1>2, <1>5, GivenUpCall
  <2>5. d.grant = calls[i].grant
    <3>1. PICK c \in GoodCalls : c = calls[i]
      BY <1>2
    <3> QED  BY <3>1 DEF GoodCalls, CallShape
  <2>2. Answer(i, "retry", None, s)
    BY <1>1, <1>5
  <2> HIDE DEF d
  <2>3. /\ s \in Seq(GoodCalls) /\ Len(s) = Len(calls) /\ DOMAIN s = DOMAIN calls
        /\ \A j \in DOMAIN calls : s[j] = IF j = i THEN d ELSE calls[j]
    BY <1>1, <2>1, ChangedCall DEF TInv
  <2>4. Len(s) <= MaxCalls
    BY <2>3 DEF TInv, CallsOK
  <2> HIDE DEF s
  <2> QED  BY <1>1, <1>2, <1>5, <2>1, <2>2, <2>3, <2>4, <2>5 DEF Awaited
<1> QED  BY <1>4, <1>5

\* The answers giveBack waits for.
LEMMA CollectedCalls ==
  ASSUME TInv, NEW i \in DOMAIN calls, NEW a \in AskAnswers, NEW g \in Handles \cup {None},
         a = "granted" => g \in Handles,
         NEW rest \in Seq(GoodCalls), Len(rest) <= MaxCalls, Collected(i, a, g, rest)
  PROVE  /\ CallsOK' /\ watch' \subseteq Handles \cup {Known}
         /\ \/ calls' = rest
            \/ /\ calls[i].watched
               /\ \E c \in GoodCalls :
                    /\ calls' = Append(rest, c) /\ c.op = "release" /\ c.cur /\ c.waits
                    /\ ~c.watched /\ c.answer = "none" /\ c.role = "watch"
         /\ a = "granted" /\ calls[i].watched =>
              \/ \E j \in DOMAIN calls' : calls'[j].watched
              \/ \E j \in DOMAIN calls' : calls'[j].op = "release" /\ g \in calls'[j].names
                                          /\ calls'[j].answer = "none"
<1> DEFINE named == watch \cup HeldBy(a, g)
           names == {IF h = Known THEN lastGrant ELSE h : h \in named} \ {None}
           c == Release("watch", names)
<1>1. named \subseteq Handles \cup {Known}
  BY DEF TInv, VarsOK, HeldBy
<1>2. names \in SUBSET Handles
  BY <1>1 DEF TInv, VarsOK, None, Known
<1>3. c \in GoodCalls /\ c.op = "release" /\ c.names = names /\ c.cur /\ c.waits /\ ~c.watched /\ c.answer = "none"
      /\ c.role = "watch"
  BY <1>2, ReleaseCall DEF Roles, AskRoles
<1>4. a = "granted" => g \in names
  BY HandlesAssumption DEF HeldBy, None, Known
<1> HIDE DEF c
<1>5. CASE calls' = rest /\ watch' \in {watch, named}
           /\ (calls[i].watched => \E j \in DOMAIN rest : rest[j].watched)
  BY <1>1, <1>5 DEF CallsOK, TInv, VarsOK
<1>6. CASE calls[i].watched /\ watch' = {} /\ Len(rest) < MaxCalls /\ names = {} /\ calls' = rest
  BY <1>4, <1>6 DEF CallsOK
<1>7. CASE calls[i].watched /\ watch' = {} /\ Len(rest) < MaxCalls /\ calls' = Append(rest, c)
  <2>1. /\ Append(rest, c) \in Seq(GoodCalls) /\ Len(Append(rest, c)) = Len(rest) + 1
        /\ DOMAIN Append(rest, c) = 1..Len(rest) + 1
        /\ Append(rest, c)[Len(rest) + 1] = c
    BY <1>3, AppendCall
  <2>2. Len(rest) \in Nat
    BY CallAt
  <2>3. CallsOK'
    BY <1>7, <2>1, <2>2, CallsAssumption DEF CallsOK
  <2>4. Len(rest) + 1 \in DOMAIN calls' /\ calls'[Len(rest) + 1] = c
    BY <1>7, <2>1, <2>2
  <2> QED  BY <1>3, <1>4, <1>7, <2>3, <2>4
<1>8. \/ ~calls[i].watched /\ calls' = rest /\ watch' = watch
      \/ (\E j \in DOMAIN rest : rest[j].watched) /\ calls' = rest /\ watch' = named
      \/ /\ calls[i].watched /\ watch' = {} /\ Len(rest) < MaxCalls
         /\ calls' = IF names = {} THEN rest ELSE Append(rest, c)
  BY DEF Collected, c
<1> HIDE DEF names, named
<1> QED  BY <1>5, <1>6, <1>7, <1>8

\* The server's answer reaches an app that waits.
LEMMA AnsweredCalls ==
  ASSUME TInv, NEW i \in DOMAIN calls, calls[i].op \in Asks, NEW a \in AskAnswers,
         NEW h \in Handles \cup {None}, a = "granted" => h \in Handles, Answered(i, a, h)
  PROVE  /\ CallsOK'
         /\ \/ ~calls[i].waits /\ calls' = Without(i)
            \/ /\ calls[i].waits /\ DOMAIN calls' = DOMAIN calls
               /\ \A j \in DOMAIN calls : j # i => calls'[j] = calls[j]
               /\ calls'[i].op = calls[i].op /\ calls'[i].role = calls[i].role
               /\ calls'[i].names = calls[i].names /\ calls'[i].chosen = calls[i].chosen
               /\ calls'[i].cur = calls[i].cur /\ calls'[i].watched = calls[i].watched
               /\ calls'[i].waits /\ calls'[i].answer = a /\ calls'[i].grant = h
<1>1. CASE ~calls[i].waits
  <2>1. calls' = Without(i)
    BY <1>1 DEF Answered
  <2>2. Without(i) \in Seq(GoodCalls) /\ Len(Without(i)) < MaxCalls
    BY FewerCalls DEF TInv
  <2>3. CallsOK'
    BY <2>1, <2>2, CallAt, CallsAssumption DEF CallsOK
  <2> QED  BY <1>1, <2>1, <2>3
<1>2. CASE calls[i].waits
  <2> DEFINE d == [calls[i] EXCEPT !.answer = a, !.grant = h]
  <2>1. calls[i] \in GoodCalls
    BY CallsFacts DEF TInv
  <2>2. /\ d \in GoodCalls /\ d.op = calls[i].op /\ d.role = calls[i].role
        /\ d.names = calls[i].names /\ d.chosen = calls[i].chosen /\ d.cur = calls[i].cur
        /\ d.watched = calls[i].watched /\ d.waits = calls[i].waits
        /\ d.answer = a /\ d.grant = h
    <3>1. PICK v \in GoodCalls : v = calls[i]
      BY <2>1
    <3>2. v.op \in Asks /\ v.waits
      BY <1>2, <3>1
    <3> DEFINE e == [v EXCEPT !.answer = a, !.grant = h]
    <3>3. /\ e \in GoodCalls /\ e.op = v.op /\ e.role = v.role /\ e.names = v.names
          /\ e.chosen = v.chosen /\ e.cur = v.cur /\ e.watched = v.watched
          /\ e.waits = v.waits /\ e.answer = a /\ e.grant = h
      BY <3>2 DEF GoodCalls, GoodCall, CallShape, AskAnswers, Asks
    <3>4. e = d
      BY <3>1
    <3> HIDE DEF e, d
    <3> QED  BY <3>1, <3>3, <3>4
  <2>3. calls' = [calls EXCEPT ![i] = d]
    <3>1. calls' = [calls EXCEPT ![i].answer = a, ![i].grant = h]
      BY <1>2 DEF Answered
    <3>2. calls \in [1..Len(calls) -> GoodCalls] /\ i \in 1..Len(calls) /\ calls[i] \in CallShape
      BY <2>1, LenProperties, CallsFacts DEF TInv, GoodCalls
    <3> QED  BY <3>1, <3>2 DEF CallShape
  <2> HIDE DEF d
  <2>4. /\ calls' \in Seq(GoodCalls) /\ Len(calls') = Len(calls) /\ DOMAIN calls' = DOMAIN calls
        /\ \A j \in DOMAIN calls : calls'[j] = IF j = i THEN d ELSE calls[j]
    BY <2>2, <2>3, ChangedCall DEF TInv
  <2>5. CallsOK'
    BY <2>4 DEF TInv, CallsOK
  <2> QED  BY <1>2, <2>2, <2>4, <2>5
<1> QED  BY <1>1, <1>2

LEMMA ReleasedCalls ==
  ASSUME TInv, NEW i \in DOMAIN calls, calls[i].op = "release", Answered(i, "released", None)
  PROVE  /\ CallsOK'
         /\ \/ ~calls[i].waits /\ calls' = Without(i)
            \/ /\ calls[i].waits /\ DOMAIN calls' = DOMAIN calls
               /\ \A j \in DOMAIN calls : j # i => calls'[j] = calls[j]
               /\ calls'[i].op = "release" /\ calls'[i].names = calls[i].names
               /\ calls'[i].cur = calls[i].cur /\ calls'[i].watched = calls[i].watched
               /\ calls'[i].waits /\ calls'[i].answer = "released"
               /\ calls'[i].role = calls[i].role
<1>1. CASE ~calls[i].waits
  <2>1. calls' = Without(i)
    BY <1>1 DEF Answered
  <2>2. Without(i) \in Seq(GoodCalls) /\ Len(Without(i)) < MaxCalls
    BY FewerCalls DEF TInv
  <2>3. CallsOK'
    BY <2>1, <2>2, CallAt, CallsAssumption DEF CallsOK
  <2> QED  BY <1>1, <2>1, <2>3
<1>2. CASE calls[i].waits
  <2> DEFINE d == [calls[i] EXCEPT !.answer = "released", !.grant = None]
  <2>1. calls[i] \in GoodCalls
    BY CallsFacts DEF TInv
  <2>2. /\ d \in GoodCalls /\ d.op = calls[i].op /\ d.names = calls[i].names /\ d.cur = calls[i].cur
        /\ d.watched = calls[i].watched /\ d.waits = calls[i].waits /\ d.answer = "released"
        /\ d.role = calls[i].role
    BY <1>2, <2>1, ReleasedCall
  <2>3. calls' = [calls EXCEPT ![i] = d]
    <3>1. calls' = [calls EXCEPT ![i].answer = "released", ![i].grant = None]
      BY <1>2 DEF Answered
    <3>2. calls \in [1..Len(calls) -> GoodCalls] /\ i \in 1..Len(calls) /\ calls[i] \in CallShape
      BY <2>1, LenProperties, CallsFacts DEF TInv, GoodCalls
    <3> QED  BY <3>1, <3>2 DEF CallShape
  <2> HIDE DEF d
  <2>4. /\ calls' \in Seq(GoodCalls) /\ Len(calls') = Len(calls) /\ DOMAIN calls' = DOMAIN calls
        /\ \A j \in DOMAIN calls : calls'[j] = IF j = i THEN d ELSE calls[j]
    BY <2>2, <2>3, ChangedCall DEF TInv
  <2>5. CallsOK'
    BY <2>4 DEF TInv, CallsOK
  <2> QED  BY <1>2, <2>2, <2>4, <2>5
<1> QED  BY <1>1, <1>2

\* Serves, with what the server makes of the slot.
LEMMA ServeSteps ==
  ASSUME TInv, NEW i, Serves(i)
  PROVE  /\ i \in DOMAIN calls /\ calls[i].answer = "none" /\ InTurn(i)
         /\ UNCHANGED <<memory, giving, screen, doubt>>
         /\ \/ /\ calls[i].op = "release"
               /\ slot' = (IF slot \in calls[i].names THEN None ELSE slot)
               /\ Answered(i, "released", None)
            \/ /\ calls[i].op \in Asks
               /\ \E a \in AskAnswers, h \in Handles \cup {None} :
                    /\ Answered(i, a, h) /\ (a = "granted" => h \in Handles)
                    /\ \/ a = "granted" /\ slot' = h /\ NewHandle(h)
                       \/ /\ a = "granted" /\ slot' = slot /\ h = slot /\ slot # None
                          /\ calls[i].op = "renew"
                          /\ ("late" \notin Races => \A j \in DOMAIN calls : slot \notin calls[j].names)
                       \/ a # "granted" /\ slot' = None
                       \/ a \in {"retry", "final"} /\ slot' = slot
<1>0. Asks = {"claim", "renew"} /\ None \in Handles \cup {None}
      /\ {"granted", "refused", "displaced", "unenforced", "uncounted", "retry", "final"} = AskAnswers
  BY DEF Asks, AskAnswers
<1>1. CASE ServeRelease(i)
  BY <1>1 DEF ServeRelease, Served
<1>2. CASE ServeClaim(i)
  BY <1>0, <1>2 DEF ServeClaim, Served
<1>3. CASE ServeRenew(i)
  <2>0. i \in DOMAIN calls /\ calls[i].op = "renew" /\ calls[i].op \in Asks
        /\ calls[i].answer = "none" /\ InTurn(i) /\ UNCHANGED <<memory, giving, screen, doubt>>
        /\ ("late" \notin Races => \A j \in DOMAIN calls : slot \notin calls[j].names)
    BY <1>0, <1>3 DEF ServeRenew, Served
  <2>1. CASE slot # None /\ slot' = slot /\ Answered(i, "granted", slot)
    <3>1. slot \in Handles /\ "granted" \in AskAnswers
      BY <2>1, <1>0 DEF TInv, VarsOK
    <3> QED  BY <2>0, <2>1, <3>1
  <2>2. CASE \E h \in Handles : NewHandle(h) /\ slot' = h /\ Answered(i, "granted", h)
    BY <2>0, <2>2, <1>0
  <2>3. CASE \E a \in {"displaced", "refused"} : slot' = None /\ Answered(i, a, None)
    BY <2>0, <2>3, <1>0
  <2> QED  BY <1>3, <2>1, <2>2, <2>3 DEF ServeRenew
<1>4. CASE ServeOtherwise(i)
  BY <1>0, <1>4 DEF ServeOtherwise, Served
<1> QED  BY <1>1, <1>2, <1>3, <1>4 DEF Serves

-----------------------------------------------------------------------------
(***************************************************************************)
(* Where the requests under way after a step come from.                    *)
(***************************************************************************)
\* d is what became of c: nobody starts to wait for it, or to count it.
Heir(d, c) ==
  /\ d.op = c.op /\ d.role = c.role /\ d.names = c.names
  /\ (d.cur => c.cur) /\ (d.watched => c.watched) /\ (d.waits => c.waits)
  /\ d.answer = "granted" => c.answer = "granted" /\ d.grant = c.grant

Heirs(new) ==
  \A j \in DOMAIN calls' : (\E k \in DOMAIN calls : Heir(calls'[j], calls[k])) \/ calls'[j] \in new

LEMMA HeirsUnchanged == ASSUME UNCHANGED calls, NEW new PROVE Heirs(new)
BY DEF Heirs, Heir

LEMMA HeirsEpoch ==
  ASSUME CallsOK, NEW c \in GoodCalls, NEW sent, sent = <<>> \/ (sent = <<c>> /\ Room),
         calls' = Orphaned \o sent
  PROVE  Heirs({c})
<1>1. ASSUME NEW j \in DOMAIN calls'
      PROVE  (\E k \in DOMAIN calls : Heir(calls'[j], calls[k])) \/ calls'[j] \in {c}
  <2>1. CASE j \in DOMAIN calls /\ calls'[j] = Over(calls[j])
    BY <2>1, OverCall, CallsFacts DEF Heir
  <2>2. CASE calls'[j] = c
    BY <2>2
  <2> QED  BY <2>1, <2>2, EpochCalls
<1> QED  BY <1>1 DEF Heirs

LEMMA HeirsMore ==
  ASSUME CallsOK, Room, NEW c \in GoodCalls, calls' = Append(calls, c)
  PROVE  Heirs({c})
BY MoreCalls DEF Heirs, Heir

LEMMA HeirsLess ==
  ASSUME CallsOK, NEW i \in DOMAIN calls, calls' = Without(i), NEW new
  PROVE  Heirs(new)
BY FewerCalls DEF Heirs, Heir

LEMMA HeirsServed ==
  ASSUME TInv, NEW i, Serves(i)
  PROVE  \/ calls' = Without(i) /\ Heirs({})
         \/ calls' # Without(i) /\ i \in DOMAIN calls' /\ Heirs({calls'[i]})
<1>0. i \in DOMAIN calls
  BY ServeSteps
<1>1. CASE calls' = Without(i)
  BY <1>0, <1>1, HeirsLess DEF TInv
<1>2. CASE calls' # Without(i)
  <2>1. DOMAIN calls' = DOMAIN calls /\ \A j \in DOMAIN calls : j # i => calls'[j] = calls[j]
    <3>1. CASE calls[i].op = "release" /\ Answered(i, "released", None)
      BY <1>0, <1>2, <3>1, ReleasedCalls
    <3>2. CASE calls[i].op \in Asks /\ \E a \in AskAnswers, h \in Handles \cup {None} :
                                         Answered(i, a, h) /\ (a = "granted" => h \in Handles)
      BY <1>0, <1>2, <3>2, AnsweredCalls
    <3> QED  BY <3>1, <3>2, ServeSteps
  <2>2. Heirs({calls'[i]})
    BY <1>0, <2>1 DEF Heirs, Heir
  <2> QED  BY <1>0, <1>2, <2>1, <2>2
<1> QED  BY <1>1, <1>2

LEMMA HeirsReleases ==
  ASSUME TInv, NEW i, SettleRelease(i) \/ TimeOutRelease(i) \/ Lose(i), NEW new
  PROVE  Heirs(new)
<1>0. i \in DOMAIN calls
  BY DEF SettleRelease, TimeOutRelease, Lose
<1>1. CASE calls' = Without(i)
  BY <1>0, <1>1, HeirsLess DEF TInv
<1>2. CASE /\ calls[i].op = "release" /\ calls[i].answer = "none"
           /\ calls' = [calls EXCEPT ![i].waits = FALSE]
  <2> DEFINE d == [calls[i] EXCEPT !.waits = FALSE]
  <2>1. calls[i] \in GoodCalls /\ calls' = [calls EXCEPT ![i] = d]
    BY <1>0, <1>2, CallsFacts DEF TInv
  <2>2. /\ d \in GoodCalls /\ d.op = calls[i].op /\ d.role = calls[i].role /\ d.names = calls[i].names
        /\ d.cur = calls[i].cur /\ ~d.watched /\ ~d.waits /\ d.answer = calls[i].answer
        /\ d.grant = calls[i].grant
    BY <2>1, <1>2, GivenUpRelease
  <2> HIDE DEF d
  <2>3. /\ DOMAIN calls' = DOMAIN calls
        /\ \A j \in DOMAIN calls : calls'[j] = IF j = i THEN d ELSE calls[j]
    BY <1>0, <2>1, <2>2, ChangedCall DEF TInv
  <2>4. Heir(d, calls[i])
    BY <2>2 DEF Heir
  <2> QED  BY <1>0, <2>3, <2>4 DEF Heirs, Heir
<1> QED  BY <1>1, <1>2 DEF SettleRelease, TimeOutRelease, Lose

-----------------------------------------------------------------------------
(***************************************************************************)
(* What a step makes of the requests the app waits for.                    *)
(***************************************************************************)
Awaiting == {i \in DOMAIN calls : Awaited(calls[i])}

\* Every request is one of before, unchanged as far as the app is concerned.
SameRequest(c, d) ==
  /\ c.op = d.op /\ c.role = d.role /\ c.names = d.names /\ c.chosen = d.chosen
  /\ c.cur = d.cur /\ c.watched = d.watched /\ c.waits = d.waits

LEMMA SameAwaited == ASSUME NEW c, NEW d, SameRequest(c, d) PROVE Awaited(c) <=> Awaited(d)
BY DEF SameRequest, Awaited

\* After giveBack and setAside the app waits for nothing.
LEMMA LeftAwaiting ==
  ASSUME CallsOK, NEW c \in GoodCalls, NEW sent, sent = <<>> \/ (sent = <<c>> /\ Room),
         calls' = Watched \o sent, c.op = "release"
  PROVE  Awaiting' = {}
<1>1. ASSUME NEW j \in DOMAIN calls'  PROVE ~Awaited(calls'[j])
  <2>1. CASE j \in DOMAIN calls /\ calls'[j] = Left(calls[j])
    BY <2>1, LeftCall, CallsFacts DEF Awaited
  <2>2. CASE calls'[j] = c
    BY <2>2 DEF Awaited, Asks
  <2> QED  BY <2>1, <2>2, LeftCalls
<1> QED  BY <1>1 DEF Awaiting

\* In a new epoch it waits for what that sends.
LEMMA EpochAwaiting ==
  ASSUME CallsOK, NEW c \in GoodCalls, NEW sent, sent = <<>> \/ (sent = <<c>> /\ Room),
         calls' = Orphaned \o sent
  PROVE  \A j \in Awaiting' : sent = <<c>> /\ j = Len(calls) + 1 /\ calls'[j] = c
<1>1. ASSUME NEW j \in Awaiting'  PROVE sent = <<c>> /\ j = Len(calls) + 1 /\ calls'[j] = c
  <2>0. j \in DOMAIN calls' /\ Awaited(calls'[j])
    BY <1>1 DEF Awaiting
  <2>1. CASE j \in DOMAIN calls /\ calls'[j] = Over(calls[j])
    BY <2>0, <2>1, OverCall, CallsFacts DEF Awaited
  <2>2. CASE sent = <<c>> /\ j = Len(calls) + 1 /\ calls'[j] = c
    BY <2>2
  <2> QED  BY <2>0, <2>1, <2>2, EpochCalls
<1> QED  BY <1>1

LEMMA MoreAwaiting ==
  ASSUME CallsOK, Room, NEW c \in GoodCalls, calls' = Append(calls, c)
  PROVE  \A j \in Awaiting' : \/ j \in Awaiting /\ calls'[j] = calls[j]
                              \/ j = Len(calls) + 1 /\ calls'[j] = c /\ Awaited(c)
<1>1. ASSUME NEW j \in Awaiting'
      PROVE  \/ j \in Awaiting /\ calls'[j] = calls[j]
             \/ j = Len(calls) + 1 /\ calls'[j] = c /\ Awaited(c)
  <2>0. j \in DOMAIN calls' /\ Awaited(calls'[j])
    BY <1>1 DEF Awaiting
  <2>1. CASE j \in DOMAIN calls /\ calls'[j] = calls[j]
    BY <2>0, <2>1 DEF Awaiting
  <2>2. CASE j = Len(calls) + 1 /\ calls'[j] = c
    BY <2>0, <2>2
  <2> QED  BY <2>0, <2>1, <2>2, MoreCalls
<1> QED  BY <1>1

\* What the app waits for was among what it waited for, but for some of it; one
\* request may have left the sequence.
Fewer(i, gone) ==
  \E skip \in BOOLEAN : \A j \in Awaiting' : \E k \in Awaiting \ gone :
     SameRequest(calls'[j], calls[k]) /\ k = IF skip /\ ~(j < i) THEN j + 1 ELSE j

LEMMA FewerUnchanged == ASSUME UNCHANGED calls, NEW i PROVE Fewer(i, {})
<1>1. \A j \in Awaiting' : j \in Awaiting \ {} /\ SameRequest(calls'[j], calls[j])
  BY DEF Awaiting, SameRequest, Awaited
<1> QED  BY <1>1 DEF Fewer

LEMMA FewerWithout ==
  ASSUME CallsOK, NEW i \in DOMAIN calls, calls' = Without(i)
  PROVE  Fewer(i, {i})
<1>1. ASSUME NEW j \in Awaiting'
      PROVE  \E k \in Awaiting \ {i} :
               SameRequest(calls'[j], calls[k]) /\ k = IF TRUE /\ ~(j < i) THEN j + 1 ELSE j
  <2>1. j \in DOMAIN Without(i) /\ Awaited(Without(i)[j])
    BY <1>1 DEF Awaiting
  <2>2. PICK k \in DOMAIN calls : k # i /\ Without(i)[j] = calls[k] /\ k = IF j < i THEN j ELSE j + 1
    BY <2>1, FewerCalls
  <2> QED  BY <2>1, <2>2 DEF Awaiting, SameRequest
<1> QED  BY <1>1 DEF Fewer

LEMMA FewerSome ==
  ASSUME NEW i, NEW gone, Fewer(i, gone), NEW less, less \subseteq gone
  PROVE  Fewer(i, less)
BY DEF Fewer

LEMMA FewerOne ==
  ASSUME CallsOK, NEW i \in DOMAIN calls, calls' = Without(i)
  PROVE  CallsOK' /\ Fewer(i, {i}) /\ Fewer(i, {})
<1>1. calls' \in Seq(GoodCalls) /\ Len(calls') < MaxCalls
  BY FewerCalls
<1>2. CallsOK'
  BY <1>1, CallAt, CallsAssumption DEF CallsOK
<1>3. Fewer(i, {i})
  BY FewerWithout
<1>4. Fewer(i, {})
  BY <1>3, FewerSome
<1> QED  BY <1>2, <1>3, <1>4

\* One request has changed in what the app does not see, or not at all for it.
LEMMA FewerChanged ==
  ASSUME NEW i \in DOMAIN calls, DOMAIN calls' = DOMAIN calls,
         \A j \in DOMAIN calls : j # i => calls'[j] = calls[j],
         SameRequest(calls'[i], calls[i]) \/ ~Awaited(calls'[i])
  PROVE  Fewer(i, {})
<1>1. ASSUME NEW j \in Awaiting'  PROVE j \in Awaiting \ {} /\ SameRequest(calls'[j], calls[j])
  <2>1. CASE j = i
    BY <2>1, <1>1 DEF Awaiting, SameRequest, Awaited
  <2>2. CASE j # i
    BY <2>2, <1>1 DEF Awaiting, SameRequest
  <2> QED  BY <2>1, <2>2
<1> QED  BY <1>1 DEF Fewer

LEMMA FewerServed ==
  ASSUME TInv, NEW i, Serves(i)
  PROVE  CallsOK' /\ Fewer(i, {})
<1>0. i \in DOMAIN calls /\ (calls[i].waits \in BOOLEAN)
  BY ServeSteps, CallsFacts, CallFields DEF TInv
<1>1. CASE calls[i].op = "release" /\ Answered(i, "released", None)
  <2>1. CASE calls' = Without(i)
    BY <1>0, <2>1, FewerOne DEF TInv
  <2>2. CASE calls' # Without(i)
    <3>1. /\ CallsOK' /\ DOMAIN calls' = DOMAIN calls /\ calls'[i].op = "release"
          /\ \A j \in DOMAIN calls : j # i => calls'[j] = calls[j]
      BY <1>0, <1>1, <2>2, ReleasedCalls
    <3>2. ~Awaited(calls'[i])
      BY <3>1 DEF Awaited, Asks
    <3>3. Fewer(i, {})
      BY <1>0, <3>1, <3>2, FewerChanged
    <3> QED  BY <3>1, <3>3
  <2> QED  BY <2>1, <2>2
<1>2. CASE calls[i].op \in Asks /\ \E a \in AskAnswers, h \in Handles \cup {None} :
                                     Answered(i, a, h) /\ (a = "granted" => h \in Handles)
  <2>0. PICK a \in AskAnswers, h \in Handles \cup {None} : Answered(i, a, h) /\ (a = "granted" => h \in Handles)
    BY <1>2
  <2>1. CASE calls' = Without(i)
    BY <1>0, <2>1, FewerOne DEF TInv
  <2>2. CASE calls' # Without(i)
    <3>1. /\ CallsOK' /\ DOMAIN calls' = DOMAIN calls
          /\ \A j \in DOMAIN calls : j # i => calls'[j] = calls[j]
          /\ SameRequest(calls'[i], calls[i])
      BY <1>0, <1>2, <2>0, <2>2, AnsweredCalls DEF SameRequest
    <3>3. Fewer(i, {})
      BY <1>0, <3>1, FewerChanged
    <3> QED  BY <3>1, <3>3
  <2> QED  BY <2>1, <2>2
<1> QED  BY <1>1, <1>2, ServeSteps

LEMMA FewerReleases ==
  ASSUME TInv, NEW i, SettleRelease(i) \/ TimeOutRelease(i) \/ Lose(i)
  PROVE  CallsOK' /\ Fewer(i, {})
<1>0. i \in DOMAIN calls
  BY DEF SettleRelease, TimeOutRelease, Lose
<1>1. CASE calls' = Without(i)
  BY <1>0, <1>1, FewerOne DEF TInv
<1>2. CASE /\ calls[i].op = "release" /\ calls[i].answer = "none"
           /\ calls' = [calls EXCEPT ![i].waits = FALSE]
  <2> DEFINE d == [calls[i] EXCEPT !.waits = FALSE]
  <2>1. calls[i] \in GoodCalls /\ calls' = [calls EXCEPT ![i] = d]
    BY <1>0, <1>2, CallsFacts DEF TInv
  <2>2. d \in GoodCalls /\ ~d.waits
    BY <2>1, <1>2, GivenUpRelease
  <2> HIDE DEF d
  <2>3. /\ calls' \in Seq(GoodCalls) /\ Len(calls') = Len(calls) /\ DOMAIN calls' = DOMAIN calls
        /\ \A j \in DOMAIN calls : calls'[j] = IF j = i THEN d ELSE calls[j]
    BY <1>0, <2>1, <2>2, ChangedCall DEF TInv
  <2>4. CallsOK'
    BY <2>3 DEF TInv, CallsOK
  <2>5. ~Awaited(calls'[i])
    BY <1>0, <2>2, <2>3 DEF Awaited
  <2>6. Fewer(i, {})
    BY <1>0, <2>3, <2>5, FewerChanged
  <2> QED  BY <2>4, <2>6
<1> QED  BY <1>1, <1>2 DEF SettleRelease, TimeOutRelease, Lose

\* An answer, or that there is none, and what comes of it.
LEMMA AnswerSteps ==
  ASSUME TInv, NEW i, Settle(i) \/ TimeOut(i)
  PROVE  /\ i \in DOMAIN calls /\ calls[i].op \in Asks /\ calls[i].role \in AskRoles
         /\ CallsOK' /\ watch' \subseteq Handles \cup {Known} /\ Fewer(i, {i})
         /\ doubt' \in BOOLEAN /\ UNCHANGED <<again, slot>>
         /\ \E new : /\ Heirs(new)
                     /\ \A c \in new : /\ c.op = "release" /\ c.role = "watch" /\ ~c.watched
                                       /\ calls[i].watched
         /\ \/ ~calls[i].cur /\ UNCHANGED <<memory, screen>>
            \/ /\ calls[i].cur /\ Awaited(calls[i])
               /\ \E a \in AskAnswers, g \in Handles \cup {None} :
                    /\ a = "granted" => /\ g \in Handles /\ calls[i].answer = "granted"
                                        /\ g = calls[i].grant
                    /\ Applied(calls[i].op, a, g) /\ Acted(calls[i].role, a)
<1>1. ASSUME NEW a \in AskAnswers, NEW g \in Handles \cup {None}, a = "granted" => g \in Handles,
             NEW rest \in Seq(GoodCalls), Len(rest) <= MaxCalls, Answer(i, a, g, rest),
             i \in DOMAIN calls,
             rest = Without(i) \/ (/\ DOMAIN rest = DOMAIN calls /\ ~rest[i].waits
                                   /\ \A j \in DOMAIN calls : j # i => rest[j] = calls[j]
                                   /\ Heir(rest[i], calls[i]))
      PROVE  /\ CallsOK' /\ watch' \subseteq Handles \cup {Known} /\ Fewer(i, {i})
             /\ \E new : /\ Heirs(new)
                         /\ \A c \in new : /\ c.op = "release" /\ c.role = "watch" /\ ~c.watched
                                           /\ calls[i].watched
  <2>1. Collected(i, a, g, rest)
    BY <1>1 DEF Answer
  <2>2. /\ CallsOK' /\ watch' \subseteq Handles \cup {Known}
        /\ \/ calls' = rest
           \/ \E c \in GoodCalls : /\ calls' = Append(rest, c) /\ c.op = "release"
                                   /\ c.role = "watch" /\ ~c.watched /\ calls[i].watched
    BY <1>1, <2>1, CollectedCalls
  <2>3. ASSUME NEW j \in Awaiting'  PROVE j \in DOMAIN rest /\ calls'[j] = rest[j] /\ Awaited(rest[j])
    <3>1. j \in DOMAIN calls' /\ Awaited(calls'[j])
      BY <2>3 DEF Awaiting
    <3>2. CASE calls' = rest
      BY <3>1, <3>2
    <3>3. ASSUME NEW c \in GoodCalls, calls' = Append(rest, c), c.op = "release"
          PROVE  j \in DOMAIN rest /\ calls'[j] = rest[j]
      <4>1. /\ DOMAIN calls' = 1..Len(rest) + 1 /\ calls'[Len(rest) + 1] = c
            /\ \A l \in DOMAIN rest : calls'[l] = rest[l]
        BY <3>3, AppendCall
      <4>2. Len(rest) \in Nat /\ DOMAIN rest = 1..Len(rest)
        BY CallAt
      <4>3. j # Len(rest) + 1
        BY <3>1, <3>3, <4>1 DEF Awaited, Asks
      <4> QED  BY <3>1, <4>1, <4>2, <4>3
    <3> QED  BY <3>1, <3>2, <3>3, <2>2
  <2>4. ASSUME rest = Without(i)  PROVE Fewer(i, {i})
    <3>1. ASSUME NEW j \in Awaiting'
          PROVE  \E k \in Awaiting \ {i} :
                   SameRequest(calls'[j], calls[k]) /\ k = IF TRUE /\ ~(j < i) THEN j + 1 ELSE j
      <4>1. j \in DOMAIN Without(i) /\ calls'[j] = Without(i)[j] /\ Awaited(Without(i)[j])
        BY <3>1, <2>3, <2>4
      <4>2. PICK k \in DOMAIN calls : k # i /\ Without(i)[j] = calls[k] /\ k = IF j < i THEN j ELSE j + 1
        BY <4>1, <1>1, FewerCalls DEF TInv
      <4> QED  BY <4>1, <4>2 DEF Awaiting, SameRequest
    <3> QED  BY <3>1 DEF Fewer
  <2>5. ASSUME DOMAIN rest = DOMAIN calls, ~rest[i].waits,
               \A j \in DOMAIN calls : j # i => rest[j] = calls[j]
        PROVE  Fewer(i, {i})
    <3>1. ASSUME NEW j \in Awaiting'
          PROVE  j \in Awaiting \ {i} /\ SameRequest(calls'[j], calls[j])
      BY <3>1, <2>3, <2>5 DEF Awaiting, SameRequest, Awaited
    <3> QED  BY <3>1 DEF Fewer
  <2>6. \A j \in DOMAIN rest : \E k \in DOMAIN calls : Heir(rest[j], calls[k])
    <3>1. CASE rest = Without(i)
      <4>1. \A j \in DOMAIN rest : \E k \in DOMAIN calls : rest[j] = calls[k]
        BY <1>1, <3>1, FewerCalls DEF TInv
      <4>2. \A c : Heir(c, c)
        BY DEF Heir
      <4> QED  BY <4>1, <4>2
    <3>2. CASE /\ DOMAIN rest = DOMAIN calls /\ \A j \in DOMAIN calls : j # i => rest[j] = calls[j]
               /\ Heir(rest[i], calls[i])
      BY <1>1, <3>2 DEF Heir
    <3> QED  BY <1>1, <3>1, <3>2
  <2>7. \E new : Heirs(new) /\ \A c \in new : /\ c.op = "release" /\ c.role = "watch" /\ ~c.watched
                                               /\ calls[i].watched
    <3>1. CASE calls' = rest
      <4>1. Heirs({})
        BY <2>6, <3>1 DEF Heirs
      <4> QED  BY <4>1
    <3>2. ASSUME NEW c \in GoodCalls, calls' = Append(rest, c), c.op = "release",
                 c.role = "watch", ~c.watched, calls[i].watched
          PROVE  \E new : Heirs(new) /\ \A b \in new : /\ b.op = "release" /\ b.role = "watch" /\ ~b.watched
                                                       /\ calls[i].watched
      <4>1. /\ DOMAIN calls' = 1..Len(rest) + 1 /\ calls'[Len(rest) + 1] = c
            /\ \A l \in DOMAIN rest : calls'[l] = rest[l]
        BY <3>2, AppendCall
      <4>2. Len(rest) \in Nat /\ DOMAIN rest = 1..Len(rest)
        BY CallAt
      <4>3. Heirs({c})
        BY <2>6, <4>1, <4>2 DEF Heirs
      <4>4. \A b \in {c} : /\ b.op = "release" /\ b.role = "watch" /\ ~b.watched /\ calls[i].watched
        BY <3>2
      <4> QED  BY <4>3, <4>4
    <3> QED  BY <3>1, <3>2, <2>2
  <2>8. Fewer(i, {i})
    BY <1>1, <2>4, <2>5
  <2> QED  BY <2>2, <2>7, <2>8
<1>2. doubt \in BOOLEAN /\ "retry" \in AskAnswers
  BY DEF TInv, VarsOK, AskAnswers
<1>3. CASE Settle(i)
  <2>1. /\ i \in DOMAIN calls /\ calls[i] \in GoodCalls /\ calls[i].op \in Asks
        /\ calls[i].answer \in AskAnswers /\ calls[i].grant \in Handles \cup {None}
        /\ calls[i].answer = "granted" => calls[i].grant \in Handles
        /\ calls[i].cur => Awaited(calls[i])
        /\ Without(i) \in Seq(GoodCalls) /\ Len(Without(i)) < MaxCalls
        /\ Answer(i, calls[i].answer, calls[i].grant, Without(i))
    BY <1>3, RestAfterSettle
  <2>2. Len(Without(i)) <= MaxCalls
    BY <2>1, CallAt, CallsAssumption
  <2>3. /\ CallsOK' /\ watch' \subseteq Handles \cup {Known} /\ Fewer(i, {i})
        /\ \E new : Heirs(new) /\ \A c \in new : /\ c.op = "release" /\ c.role = "watch" /\ ~c.watched
                                                 /\ calls[i].watched
    <3>1. PICK a \in AskAnswers, g \in Handles \cup {None} : a = calls[i].answer /\ g = calls[i].grant
      BY <2>1
    <3>2. Answer(i, a, g, Without(i)) /\ (a = "granted" => g \in Handles)
      BY <2>1, <3>1
    <3> QED  BY <1>1, <2>1, <2>2, <3>2
  <2>4. doubt' \in BOOLEAN
    BY <1>2, <1>3 DEF Settle
  <2>5. calls[i].role \in AskRoles
    BY <2>1, CallFields DEF GoodCall
  <2> QED  BY <2>1, <2>3, <2>4, <2>5 DEF Answer
<1>4. CASE TimeOut(i)
  <2>1. /\ i \in DOMAIN calls /\ calls[i] \in GoodCalls /\ calls[i].op \in Asks
        /\ calls[i].cur => Awaited(calls[i])
    BY <1>4, RestAfterTimeOut
  <2>2. PICK rest \in Seq(GoodCalls) :
              /\ Len(rest) <= MaxCalls /\ Answer(i, "retry", None, rest)
              /\ \/ rest = Without(i)
                 \/ /\ DOMAIN rest = DOMAIN calls
                    /\ \A j \in DOMAIN calls : j # i => rest[j] = calls[j]
                    /\ ~rest[i].waits /\ Heir(rest[i], calls[i])
    BY <1>4, RestAfterTimeOut DEF Heir
  <2>3. /\ CallsOK' /\ watch' \subseteq Handles \cup {Known} /\ Fewer(i, {i})
        /\ \E new : Heirs(new) /\ \A c \in new : /\ c.op = "release" /\ c.role = "watch" /\ ~c.watched
                                                 /\ calls[i].watched
    BY <1>1, <1>2, <2>1, <2>2
  <2>4. doubt' \in BOOLEAN
    BY <1>4 DEF TimeOut
  <2>5. calls[i].role \in AskRoles
    BY <2>1, CallFields DEF GoodCall
  <2>6. UNCHANGED <<again, slot>>
    BY <2>2 DEF Answer
  <2>7. CASE calls[i].cur
    BY <1>2, <2>1, <2>2, <2>3, <2>4, <2>5, <2>6, <2>7 DEF Answer
  <2>8. CASE ~calls[i].cur
    BY <1>2, <2>1, <2>2, <2>3, <2>4, <2>5, <2>6, <2>8 DEF Answer
  <2> QED  BY <2>7, <2>8
<1> QED  BY <1>3, <1>4

-----------------------------------------------------------------------------
(***************************************************************************)
(* The inductive invariant: the screen, the session and the requests the    *)
(* app waits for agree with one another.                                   *)
(***************************************************************************)
PassRoles == {"dial", "check"}

ScreenOK ==
  /\ standing # "none" => target
  /\ pass # "rest" => target /\ ~slotLost /\ ~Leaving /\ (~auto => tunnel = "down")
  /\ owes => standing \in {"none", "unclaimed"}
  /\ slotLost /\ tunnel \in {"up", "leaving"} => owed # "none"

\* A request the app waits for is of this session; the claim or check of a pass
\* is out exactly while the pass stands still for it; and while a takeover is
\* owed, what is out says so.
AwaitOK ==
  \A j \in Awaiting :
    /\ target /\ pass # "clearing" /\ (owes => calls[j].chosen)
    /\ calls[j].role \in PassRoles <=> pass \in {"claiming", "checking"}

OneOut ==
  \A j, k \in Awaiting : calls[j].role \in PassRoles /\ calls[k].role \in PassRoles => j = k

\* What is to be released again has a handle to name.
LastOK ==
  /\ again # "no" => lastGrant # None
  /\ \A i \in DOMAIN calls :
       calls[i].op = "release" /\ calls[i].cur /\ calls[i].role # "watch" => lastGrant # None

IInv == TInv /\ ScreenOK /\ AwaitOK /\ OneOut /\ LastOK

LEMMA HeirsLastOK ==
  ASSUME LastOK, NEW new, Heirs(new), again' # "no" => lastGrant' # None,
         lastGrant # None => lastGrant' # None,
         \A c \in new : c.op = "release" /\ c.cur /\ c.role # "watch" => lastGrant' # None
  PROVE  LastOK'
<1>1. ASSUME NEW j \in DOMAIN calls',
             calls'[j].op = "release", calls'[j].cur, calls'[j].role # "watch"
      PROVE  lastGrant' # None
  <2>1. CASE calls'[j] \in new
    BY <1>1, <2>1
  <2>2. ASSUME NEW k \in DOMAIN calls, Heir(calls'[j], calls[k])
        PROVE  lastGrant' # None
    BY <1>1, <2>2 DEF LastOK, Heir
  <2> QED  BY <2>1, <2>2 DEF Heirs
<1> QED  BY <1>1 DEF LastOK

LEMMA FewerOneOut ==
  ASSUME OneOut, NEW i, NEW gone, Fewer(i, gone), CallsOK' , i \in Nat
  PROVE  OneOut'
<1>1. PICK skip \in BOOLEAN : \A j \in Awaiting' : \E k \in Awaiting \ gone :
          SameRequest(calls'[j], calls[k]) /\ k = IF skip /\ ~(j < i) THEN j + 1 ELSE j
  BY DEF Fewer
<1>2. ASSUME NEW j \in Awaiting', NEW k \in Awaiting',
             calls'[j].role \in PassRoles, calls'[k].role \in PassRoles
      PROVE  j = k
  <2>1. PICK l \in Awaiting : SameRequest(calls'[j], calls[l]) /\ l = IF skip /\ ~(j < i) THEN j + 1 ELSE j
    BY <1>1
  <2>2. PICK m \in Awaiting : SameRequest(calls'[k], calls[m]) /\ m = IF skip /\ ~(k < i) THEN k + 1 ELSE k
    BY <1>1
  <2>3. l = m
    BY <1>2, <2>1, <2>2 DEF OneOut, SameRequest
  <2>4. j \in Nat /\ k \in Nat
    <3>1. j \in DOMAIN calls' /\ k \in DOMAIN calls'
      BY DEF Awaiting
    <3>2. DOMAIN calls' = 1..Len(calls') /\ Len(calls') \in Nat
      BY CallAt DEF CallsOK
    <3> QED  BY <3>1, <3>2
  <2> QED  BY <2>1, <2>2, <2>3, <2>4
<1> QED  BY <1>2 DEF OneOut

LEMMA FewerAwaitOK ==
  ASSUME AwaitOK, NEW i, NEW gone, Fewer(i, gone),
         UNCHANGED <<target, pass>>, owes' => owes
  PROVE  AwaitOK'
<1>1. ASSUME NEW j \in Awaiting'
      PROVE  /\ target' /\ pass' # "clearing" /\ (owes' => calls'[j].chosen)
             /\ calls'[j].role \in PassRoles <=> pass' \in {"claiming", "checking"}
  <2>1. PICK k \in Awaiting : SameRequest(calls'[j], calls[k])
    BY DEF Fewer
  <2> QED  BY <2>1 DEF AwaitOK, SameRequest
<1> QED  BY <1>1 DEF AwaitOK

\* The app waits for no more than before, and nothing else it goes by changes.
LEMMA FewerOK ==
  ASSUME IInv, NEW i \in Nat, NEW gone, Fewer(i, gone), CallsOK',
         UNCHANGED <<target, pass, owes>>
  PROVE  AwaitOK' /\ OneOut'
BY FewerAwaitOK, FewerOneOut DEF IInv

\* It waits for nothing.
LEMMA NoneOK == ASSUME Awaiting' = {} PROVE AwaitOK' /\ OneOut'
BY DEF AwaitOK, OneOut

\* It waits for what a new epoch sends.
LEMMA EpochOK ==
  ASSUME CallsOK, NEW c \in GoodCalls, NEW sent, sent = <<>> \/ (sent = <<c>> /\ Room),
         calls' = Orphaned \o sent,
         sent = <<c>> => /\ target' /\ pass' # "clearing" /\ (owes' => c.chosen)
                         /\ c.role \in PassRoles <=> pass' \in {"claiming", "checking"}
  PROVE  CallsOK' /\ AwaitOK' /\ OneOut'
<1>1. \A j \in Awaiting' : sent = <<c>> /\ j = Len(calls) + 1 /\ calls'[j] = c
  BY EpochAwaiting
<1>2. CallsOK'
  BY EpochCalls
<1> QED  BY <1>1, <1>2 DEF AwaitOK, OneOut

\* One more request, which is not the one of a pass.
LEMMA MoreOK ==
  ASSUME IInv, Room, NEW c \in GoodCalls, calls' = Append(calls, c),
         UNCHANGED <<target, owes>>,
         \A j \in Awaiting : pass' # "clearing" /\ calls[j].role \notin PassRoles
                             /\ pass' \notin {"claiming", "checking"},
         Awaited(c) => /\ target /\ (owes => c.chosen) /\ pass' # "clearing"
                       /\ c.role \notin PassRoles /\ pass' \notin {"claiming", "checking"}
  PROVE  CallsOK' /\ AwaitOK' /\ OneOut'
<1>1. CallsOK'
  BY MoreCalls DEF IInv, TInv
<1>2. \A j \in Awaiting' : \/ j \in Awaiting /\ calls'[j] = calls[j]
                           \/ j = Len(calls) + 1 /\ calls'[j] = c /\ Awaited(c)
  BY MoreAwaiting DEF IInv, TInv
<1>3. \A j \in Awaiting' : calls'[j].role \notin PassRoles
  BY <1>2
<1>4. AwaitOK'
  BY <1>2 DEF IInv, AwaitOK
<1>5. OneOut'
  BY <1>3 DEF OneOut
<1> QED  BY <1>1, <1>4, <1>5

LEMMA InitI == Init => IInv
<1>1. SUFFICES ASSUME Init PROVE IInv
  OBVIOUS
<1>2. calls = <<>> /\ <<>> \in Seq(GoodCalls) /\ Len(<<>>) = 0 /\ DOMAIN <<>> = {}
  BY <1>1 DEF Init
<1>3. CallsOK /\ Awaiting = {}
  BY <1>2, CallsAssumption DEF CallsOK, Awaiting
<1>4. VarsOK /\ ScreenOK
  BY <1>1 DEF Init, VarsOK, ScreenOK, Standings, Leaving
<1>5. LastOK
  BY <1>1, <1>2 DEF Init, LastOK
<1> QED  BY <1>3, <1>4, <1>5 DEF IInv, TInv, AwaitOK, OneOut

\* After giveBack and setAside nothing that was under way counts any more.
LEMMA LeftLastOK ==
  ASSUME CallsOK, NEW c \in GoodCalls, NEW sent, sent = <<>> \/ (sent = <<c>> /\ Room),
         calls' = Watched \o sent, sent = <<c>> => lastGrant' # None,
         again' # "no" => lastGrant' # None
  PROVE  LastOK'
<1>1. ASSUME NEW j \in DOMAIN calls', calls'[j].cur  PROVE lastGrant' # None
  <2>1. CASE j \in DOMAIN calls /\ calls'[j] = Left(calls[j])
    BY <1>1, <2>1, LeftCall, CallsFacts
  <2>2. CASE sent = <<c>>
    BY <2>2
  <2> QED  BY <2>1, <2>2, LeftCalls
<1> QED  BY <1>1 DEF LastOK

LEMMA GivenBackCalls ==
  ASSUME TInv, NEW torn \in BOOLEAN, GiveBack(torn)
  PROVE  CallsOK' /\ Awaiting' = {} /\ watch' = {} /\ again' \in {"no", "teardown"} /\ LastOK'
<1>1. PICK c \in GoodCalls : \E sent \in {<<>>, <<c>>} :
           /\ calls' = Watched \o sent /\ (sent = <<c>> => Room /\ lastGrant # None) /\ c.op = "release"
  BY GiveBackCalls
<1>2. PICK sent \in {<<>>, <<c>>} :
           /\ calls' = Watched \o sent /\ (sent = <<c>> => Room /\ lastGrant # None) /\ c.op = "release"
  BY <1>1
<1>3. sent = <<>> \/ (sent = <<c>> /\ Room)
  BY <1>2
<1>4. CallsOK'
  BY <1>2, <1>3, LeftCalls DEF TInv
<1>5. Awaiting' = {}
  BY <1>2, <1>3, LeftAwaiting DEF TInv
<1>6. lastGrant' = lastGrant /\ (again' # "no" => lastGrant # None)
  BY DEF GiveBack
<1>7. LastOK'
  BY <1>2, <1>3, <1>6, LeftLastOK DEF TInv
<1> QED  BY <1>4, <1>5, <1>7 DEF GiveBack

LEMMA KeptCalls ==
  ASSUME IInv, UNCHANGED <<calls, target, pass, owes>>
  PROVE  CallsOK' /\ AwaitOK' /\ OneOut' /\ (UNCHANGED <<again, lastGrant>> => LastOK')
<1>1. CallsOK'
  BY DEF IInv, TInv, CallsOK
<1>2. Fewer(0, {})
  BY FewerUnchanged
<1>3. UNCHANGED <<again, lastGrant>> => LastOK'
  BY DEF IInv, LastOK
<1> QED  BY <1>1, <1>2, <1>3, FewerOK

LEMMA GiveBackStepI ==
  ASSUME IInv, Fail \/ Disconnect \/ StopReconnecting \/ (\E b \in BOOLEAN : Drop(b))
  PROVE  IInv'
<1>0. VarsOK /\ ScreenOK /\ CallsOK
  BY DEF IInv, TInv
<1>1. VarsOK'
  <2>1. ASSUME NEW torn \in BOOLEAN, GiveBack(torn)
        PROVE  /\ target' \in BOOLEAN /\ owes' \in BOOLEAN /\ retryClaim' \in BOOLEAN
               /\ standing' \in Standings /\ lastGrant' \in Handles \cup {None}
               /\ confirmed' \in {"never", "fresh", "aging", "lapsed"}
               /\ again' \in {"no", "teardown", "timer1", "timer2"}
               /\ watch' \subseteq Handles \cup {Known}
    BY <1>0, <2>1 DEF GiveBack, VarsOK, Standings
  <2>2. ASSUME NEW torn \in BOOLEAN, GiveBackIfAny(torn)
        PROVE  /\ target' \in BOOLEAN /\ owes' \in BOOLEAN /\ retryClaim' \in BOOLEAN
               /\ standing' \in Standings /\ lastGrant' \in Handles \cup {None}
               /\ confirmed' \in {"never", "fresh", "aging", "lapsed"}
               /\ again' \in {"no", "teardown", "timer1", "timer2"}
               /\ watch' \subseteq Handles \cup {Known}
    BY <1>0, <2>1, <2>2 DEF GiveBackIfAny, VarsOK, memory, giving
  <2>3. CASE Fail
    BY <1>0, <2>2, <2>3 DEF Fail, Rests, VarsOK
  <2>4. CASE Disconnect
    BY <1>0, <2>2, <2>4 DEF Disconnect, Rests, VarsOK
  <2>5. CASE StopReconnecting
    BY <1>0, <2>1, <2>5 DEF StopReconnecting, VarsOK, screen
  <2>6. CASE \E b \in BOOLEAN : Drop(b)
    BY <1>0, <2>2, <2>6 DEF Drop, VarsOK, memory, giving
  <2> QED  BY <2>3, <2>4, <2>5, <2>6
<1>2. ASSUME NEW torn \in BOOLEAN, GiveBack(torn)
      PROVE  /\ CallsOK' /\ AwaitOK' /\ OneOut' /\ LastOK'
             /\ standing' = "none" /\ target' = FALSE /\ owes' = FALSE
  <2>1. CallsOK' /\ Awaiting' = {} /\ LastOK'
    BY <1>2, GivenBackCalls DEF IInv
  <2> QED  BY <1>2, <2>1, NoneOK DEF GiveBack
<1>3. CASE \E torn \in BOOLEAN : GiveBack(torn)
  <2>1. CallsOK' /\ AwaitOK' /\ OneOut' /\ LastOK' /\ standing' = "none" /\ target' = FALSE /\ owes' = FALSE
    BY <1>2, <1>3
  <2>2. ScreenOK'
    <3>1. CASE Fail
      BY <1>0, <2>1, <3>1 DEF Fail, Rests, ScreenOK
    <3>2. CASE Disconnect
      BY <1>0, <2>1, <3>2 DEF Disconnect, Rests, ScreenOK
    <3>3. CASE StopReconnecting
      BY <1>0, <2>1, <3>3 DEF StopReconnecting, ScreenOK, screen
    <3>4. CASE \E b \in BOOLEAN : Drop(b)
      BY <1>0, <2>1, <3>4 DEF Drop, ScreenOK
    <3> QED  BY <3>1, <3>2, <3>3, <3>4
  <2> QED  BY <1>1, <2>1, <2>2 DEF IInv, TInv
<1>4. CASE ~target /\ UNCHANGED <<memory, giving, calls>>
  <2>1. pass = "rest"
    BY <1>0, <1>4 DEF ScreenOK
  <2>2. pass' = "rest" /\ ScreenOK'
    <3>1. CASE Fail
      BY <2>1, <3>1 DEF Fail
    <3>2. CASE Disconnect
      BY <1>0, <1>4, <2>1, <3>2 DEF Disconnect, Rests, ScreenOK, memory
    <3>3. CASE StopReconnecting
      BY <1>4, <3>3 DEF StopReconnecting
    <3>4. CASE \E b \in BOOLEAN : Drop(b)
      BY <1>0, <1>4, <2>1, <3>4 DEF Drop, ScreenOK, memory
    <3> QED  BY <3>1, <3>2, <3>3, <3>4
  <2>3. CallsOK' /\ AwaitOK' /\ OneOut' /\ LastOK'
    BY <1>4, <2>1, <2>2, KeptCalls DEF memory, giving
  <2> QED  BY <1>1, <2>2, <2>3 DEF IInv, TInv
<1>5. CASE (\E b \in BOOLEAN : Drop(b)) /\ UNCHANGED <<memory, giving, calls>>
  <2>1. ScreenOK' /\ UNCHANGED pass
    BY <1>0, <1>5 DEF Drop, ScreenOK, memory, Leaving
  <2>2. CallsOK' /\ AwaitOK' /\ OneOut' /\ LastOK'
    BY <1>5, <2>1, KeptCalls DEF memory, giving
  <2> QED  BY <1>1, <2>1, <2>2 DEF IInv, TInv
<1> QED  BY <1>3, <1>4, <1>5 DEF Fail, Disconnect, StopReconnecting, Drop, GiveBackIfAny

LEMMA SetAsideI == ASSUME IInv, SetAside PROVE IInv'
<1>0. VarsOK /\ ScreenOK /\ CallsOK /\ TInv
  BY DEF IInv, TInv
<1>1. PICK c \in GoodCalls : \E sent \in {<<>>, <<c>>} :
           /\ calls' = Watched \o sent /\ (sent = <<c>> => Room /\ lastGrant # None) /\ c.op = "release"
  BY <1>0, SetAsideCalls
<1>2. PICK sent \in {<<>>, <<c>>} :
           /\ calls' = Watched \o sent /\ (sent = <<c>> => Room /\ lastGrant # None) /\ c.op = "release"
  BY <1>1
<1>3. sent = <<>> \/ (sent = <<c>> /\ Room)
  BY <1>2
<1>4. CallsOK' /\ Awaiting' = {}
  BY <1>0, <1>2, <1>3, LeftCalls, LeftAwaiting
<1>7. lastGrant' = lastGrant /\ again' = "no"
  BY DEF SetAside
<1>8. LastOK'
  BY <1>0, <1>2, <1>3, <1>7, LeftLastOK
<1>5. AwaitOK' /\ OneOut'
  BY <1>4, NoneOK
<1>6. VarsOK' /\ ScreenOK'
  BY <1>0 DEF SetAside, VarsOK, ScreenOK, screen, Standings, Leaving
<1> QED  BY <1>4, <1>5, <1>6, <1>8 DEF IInv, TInv

\* A release that is sent again.
LEMMA SendsReleaseI ==
  ASSUME IInv, (\E b \in BOOLEAN : TornDown(b)) \/ RetryRelease
  PROVE  IInv'
<1>0. VarsOK /\ ScreenOK /\ CallsOK /\ TInv /\ AwaitOK /\ LastOK
  BY DEF IInv, TInv
<1>1. VarsOK' /\ ScreenOK' /\ UNCHANGED <<target, pass, owes, lastGrant>>
      /\ (again' # "no" => lastGrant # None)
  <2>1. CASE \E b \in BOOLEAN : TornDown(b)
    BY <1>0, <2>1 DEF TornDown, VarsOK, ScreenOK, memory, Leaving, LastOK
  <2>2. CASE RetryRelease
    BY <1>0, <2>2 DEF RetryRelease, VarsOK, ScreenOK, memory, screen, Leaving
  <2> QED  BY <2>1, <2>2
<1>2. CASE UNCHANGED calls
  <2>1. CallsOK' /\ AwaitOK' /\ OneOut'
    BY <1>1, <1>2, KeptCalls DEF IInv, TInv
  <2>2. LastOK'
    BY <1>0, <1>1, <1>2 DEF LastOK
  <2> QED  BY <1>1, <2>1, <2>2 DEF IInv, TInv
<1>3. ASSUME NEW role \in {"second", "timer1", "timer2"}, Room, lastGrant # None,
             calls' = Append(calls, Release(role, {lastGrant}))
      PROVE  CallsOK' /\ AwaitOK' /\ OneOut' /\ LastOK'
  <2> DEFINE c == Release(role, {lastGrant})
  <2>1. {lastGrant} \in SUBSET Handles /\ role \in Roles \ AskRoles
    BY <1>0, <1>3, NamesLast DEF Roles, AskRoles
  <2>2. c \in GoodCalls /\ c.op = "release"
    BY <2>1, ReleaseCall
  <2>3. calls' = Append(calls, c)
    BY <1>3
  <2> HIDE DEF c
  <2>4. ~Awaited(c)
    BY <2>2 DEF Awaited, Asks
  <2>5. CallsOK'
    BY <1>0, <1>3, <2>2, <2>3, MoreCalls
  <2>6. Awaiting' \subseteq Awaiting /\ \A j \in Awaiting' : calls'[j] = calls[j]
    BY <1>0, <1>3, <2>2, <2>3, <2>4, MoreAwaiting
  <2>7. AwaitOK' /\ OneOut'
    BY <1>1, <2>6 DEF AwaitOK, OneOut, IInv
  <2>8. Heirs({c})
    BY <1>0, <1>3, <2>2, <2>3, HeirsMore
  <2>9. LastOK'
    BY <1>0, <1>1, <1>3, <2>8, HeirsLastOK
  <2> QED  BY <2>5, <2>7, <2>9
<1>4. \/ UNCHANGED calls
      \/ /\ Room /\ lastGrant # None
         /\ \E role \in {"second", "timer1", "timer2"} :
              calls' = Append(calls, Release(role, {lastGrant}))
  BY <1>0 DEF TornDown, RetryRelease, LastOK
<1> QED  BY <1>1, <1>2, <1>3, <1>4 DEF IInv, TInv

\* A connect or a reconnect begins.
LEMMA ConnectI ==
  ASSUME IInv, (\E b \in BOOLEAN : Connect(b)) \/ Reconnect
  PROVE  IInv'
<1>0. VarsOK /\ ScreenOK /\ CallsOK /\ TInv /\ AwaitOK /\ LastOK
  BY DEF IInv, TInv
<1>1. CASE target /\ Fresh /\ pass' = "dialling" /\ UNCHANGED <<memory, giving, calls, doubt>>
  <2>1. VarsOK' /\ ScreenOK'
    <3>1. CASE \E b \in BOOLEAN : Connect(b)
      <4>1. /\ tunnel' = "down" /\ slotLost' = FALSE /\ auto' = FALSE /\ attempt' = FALSE
            /\ UNCHANGED <<owed, slot>>
        BY <3>1 DEF Connect
      <4>2. VarsOK'
        BY <1>0, <1>1, <4>1 DEF VarsOK, memory, giving
      <4>3. ScreenOK'
        BY <1>0, <1>1, <4>1 DEF ScreenOK, Leaving, memory
      <4> QED  BY <4>2, <4>3
    <3>2. CASE Reconnect
      <4>1. auto' = TRUE /\ ~Leaving /\ ~slotLost /\ UNCHANGED <<owed, attempt, slotLost, slot>>
        BY <3>2 DEF Reconnect
      <4>2. tunnel' \in {"down", tunnel}
        BY <3>2 DEF Reconnect
      <4>3. VarsOK'
        BY <1>0, <1>1, <4>1, <4>2 DEF VarsOK, memory, giving
      <4>4. ScreenOK'
        BY <1>0, <1>1, <4>1, <4>2 DEF ScreenOK, Leaving, memory
      <4> QED  BY <4>3, <4>4
    <3> QED  BY <3>1, <3>2
  <2>2. pass \notin {"claiming", "checking"}
    BY DEF Connect, Reconnect
  <2>3. CallsOK' /\ LastOK'
    BY <1>0, <1>1 DEF CallsOK, LastOK, memory, giving
  <2>4. Awaiting' = Awaiting
    BY <1>1 DEF Awaiting
  <2>5. AwaitOK' /\ OneOut'
    BY <1>0, <1>1, <2>2, <2>4 DEF AwaitOK, OneOut, IInv, memory
  <2> QED  BY <2>1, <2>3, <2>5 DEF IInv, TInv
<1>2. ASSUME NEW takeover \in BOOLEAN, StartsClaiming(takeover)
      PROVE  IInv'
  <2>1. PICK c \in GoodCalls : \E sent \in {<<>>, <<c>>} :
           /\ calls' = Orphaned \o sent /\ (sent = <<c>> => Room)
           /\ c.op \in Asks /\ c.chosen = takeover /\ c.role = "dial"
           /\ \/ sent = <<>> /\ pass' = "clearing"
              \/ sent = <<c>> /\ pass' = "claiming"
    BY <1>0, <1>2, ClaimingCalls
  <2>2. PICK sent \in {<<>>, <<c>>} :
           /\ calls' = Orphaned \o sent /\ (sent = <<c>> => Room)
           /\ c.op \in Asks /\ c.chosen = takeover /\ c.role = "dial"
           /\ \/ sent = <<>> /\ pass' = "clearing"
              \/ sent = <<c>> /\ pass' = "claiming"
    BY <2>1
  <2>3. sent = <<>> \/ (sent = <<c>> /\ Room)
    BY <2>2
  <2>4. /\ target' = TRUE /\ standing' = "none" /\ owes' = takeover /\ retryClaim' = TRUE
        /\ confirmed' = "never" /\ lastGrant' = lastGrant /\ again' = "no" /\ watch' = {}
        /\ doubt' \in BOOLEAN
    <3>1. doubt' = ((doubt \/ \E i \in DOMAIN calls : IsAsk(i) /\ calls[i].waits) /\ ~Quiet)
      BY <1>2 DEF StartsClaiming, NewEpoch
    <3> QED  BY <1>2, <3>1 DEF StartsClaiming, NewEpoch
  <2>5. VarsOK'
    BY <1>0, <2>2, <2>4 DEF Connect, Reconnect, VarsOK, Standings
  <2>6. ScreenOK'
    <3>1. CASE \E b \in BOOLEAN : Connect(b)
      <4>1. tunnel' = "down" /\ slotLost' = FALSE
        BY <3>1 DEF Connect
      <4> QED  BY <2>4, <4>1 DEF ScreenOK, Leaving
    <3>2. CASE Reconnect
      <4>1. auto' = TRUE /\ ~Leaving /\ slotLost' = slotLost /\ ~slotLost /\ tunnel' = tunnel
        <5>1. Fresh => pass' = "dialling" /\ UNCHANGED <<memory, giving, calls, doubt>>
          BY <3>2 DEF Reconnect
        <5>2. CASE Fresh
          BY <1>0, <2>2, <2>4, <5>1, <5>2 DEF Fresh, memory
        <5>3. CASE ~Fresh
          BY <3>2, <5>3 DEF Reconnect
        <5> QED  BY <5>2, <5>3
      <4> QED  BY <2>4, <4>1 DEF ScreenOK, Leaving
    <3> QED  BY <3>1, <3>2
  <2>7. sent = <<c>> => /\ target' /\ pass' # "clearing" /\ (owes' => c.chosen)
                        /\ c.role \in PassRoles <=> pass' \in {"claiming", "checking"}
    <3>1. <<c>> # <<>>
      OBVIOUS
    <3> QED  BY <3>1, <2>2, <2>4 DEF PassRoles
  <2>8. CallsOK' /\ AwaitOK' /\ OneOut'
    BY <1>0, <2>2, <2>3, <2>7, EpochOK
  <2>9. Heirs({c})
    BY <1>0, <2>2, <2>3, HeirsEpoch
  <2>10. c.op # "release"
    BY <2>2 DEF Asks
  <2>11. LastOK'
    BY <1>0, <2>4, <2>9, <2>10, HeirsLastOK
  <2> QED  BY <2>5, <2>6, <2>8, <2>11 DEF IInv, TInv
<1> QED  BY <1>1, <1>2 DEF Connect, Reconnect

LEMMA CheckStandingI == ASSUME IInv, CheckStanding PROVE IInv'
<1>0. VarsOK /\ ScreenOK /\ CallsOK /\ TInv /\ AwaitOK /\ LastOK
  BY DEF IInv, TInv
<1>1. PICK c \in GoodCalls :
           /\ calls' = Orphaned \o <<c>> /\ Room
           /\ c.op \in Asks /\ c.chosen = owes /\ c.role = "check"
  BY <1>0, CheckingCalls
<1>2. /\ pass = "prechecking" /\ pass' = "checking" /\ again' = "no" /\ watch' = {}
      /\ UNCHANGED <<memory, auto, tunnel, owed, attempt, slotLost, slot>> /\ doubt' \in BOOLEAN
  <2>1. doubt' = ((doubt \/ \E i \in DOMAIN calls : IsAsk(i) /\ calls[i].waits) /\ ~Quiet)
    BY DEF CheckStanding, NewEpoch
  <2> QED  BY <2>1 DEF CheckStanding, NewEpoch
<1>3. VarsOK' /\ ScreenOK'
  <2>1. VarsOK'
    BY <1>0, <1>2 DEF VarsOK, memory
  <2>2. target /\ ~slotLost /\ ~Leaving /\ (~auto => tunnel = "down")
    BY <1>0, <1>2 DEF ScreenOK
  <2>3. ScreenOK'
    BY <1>0, <1>2, <2>2 DEF ScreenOK, memory, Leaving
  <2> QED  BY <2>1, <2>3
<1>4. target' /\ pass' # "clearing" /\ (owes' => c.chosen)
      /\ (c.role \in PassRoles <=> pass' \in {"claiming", "checking"})
  BY <1>0, <1>1, <1>2 DEF ScreenOK, memory, PassRoles
<1>5. CallsOK' /\ AwaitOK' /\ OneOut'
  BY <1>0, <1>1, <1>4, EpochOK
<1>6. Heirs({c})
  BY <1>0, <1>1, HeirsEpoch
<1>7. c.op # "release" /\ lastGrant' = lastGrant
  BY <1>1, <1>2 DEF Asks, memory
<1>8. LastOK'
  BY <1>0, <1>2, <1>6, <1>7, HeirsLastOK
<1> QED  BY <1>3, <1>5, <1>8 DEF IInv, TInv

\* A claim or renewal that is not for a pass.
LEMMA AppendsAskI ==
  ASSUME IInv, ClaimBeforeDial \/ Poll \/ (\E b \in BOOLEAN : Land(b))
  PROVE  IInv'
<1>0. VarsOK /\ ScreenOK /\ CallsOK /\ TInv /\ AwaitOK /\ LastOK
  BY DEF IInv, TInv
<1>1. VarsOK' /\ ScreenOK' /\ UNCHANGED <<target, owes, lastGrant, again>>
  <2>1. CASE ClaimBeforeDial
    <3>1. VarsOK'
      BY <1>0, <2>1 DEF ClaimBeforeDial, VarsOK, memory, giving
    <3>2. target /\ ~slotLost /\ ~Leaving /\ (~auto => tunnel = "down")
      BY <1>0, <2>1 DEF ClaimBeforeDial, ScreenOK
    <3>3. ScreenOK'
      BY <1>0, <2>1, <3>2 DEF ClaimBeforeDial, ScreenOK, Leaving, memory
    <3> QED  BY <2>1, <3>1, <3>3 DEF ClaimBeforeDial, memory, giving
  <2>2. CASE Poll
    <3>1. VarsOK'
      BY <1>0, <2>2 DEF Poll, VarsOK, memory, giving, screen
    <3>2. ScreenOK'
      BY <1>0, <2>2 DEF Poll, ScreenOK, Leaving, memory, screen
    <3> QED  BY <2>2, <3>1, <3>2 DEF Poll, memory, giving
  <2>3. CASE \E b \in BOOLEAN : Land(b)
    <3>1. VarsOK'
      BY <1>0, <2>3 DEF Land, Rests, VarsOK, memory, giving
    <3>2. target /\ ~slotLost
      BY <1>0, <2>3 DEF Land, ScreenOK
    <3>3. ScreenOK'
      BY <1>0, <2>3, <3>2 DEF Land, Rests, ScreenOK, Leaving, memory
    <3> QED  BY <2>3, <3>1, <3>3 DEF Land, memory, giving
  <2> QED  BY <2>1, <2>2, <2>3
<1>2. ASSUME NEW op \in Asks, NEW role \in AskRoles, NEW chosen \in BOOLEAN, Room,
             calls' = Append(calls, Call(op, role, {}, chosen)),
             target, owes => chosen, pass' # "clearing",
             \/ Awaiting = {} /\ role \in PassRoles /\ pass' = "claiming"
             \/ /\ role \notin PassRoles /\ pass' \notin {"claiming", "checking"}
                /\ \A j \in Awaiting : calls[j].role \notin PassRoles
      PROVE  CallsOK' /\ AwaitOK' /\ OneOut' /\ LastOK'
  <2> DEFINE c == Call(op, role, {}, chosen)
  <2>1. c \in GoodCalls /\ c.op # "release" /\ c.chosen = chosen /\ c.role = role
    BY <1>2, AskCall DEF Asks
  <2>2. calls' = Append(calls, c)
    BY <1>2
  <2> HIDE DEF c
  <2>3. CallsOK'
    BY <1>0, <1>2, <2>1, <2>2, MoreCalls
  <2>4. \A j \in Awaiting' : \/ j \in Awaiting /\ calls'[j] = calls[j]
                             \/ j = Len(calls) + 1 /\ calls'[j] = c
    BY <1>0, <1>2, <2>1, <2>2, MoreAwaiting
  <2>5. Heirs({c})
    BY <1>0, <1>2, <2>1, <2>2, HeirsMore
  <2>6. LastOK'
    BY <1>0, <1>1, <2>1, <2>5, HeirsLastOK DEF LastOK
  <2>7. CASE Awaiting = {} /\ role \in PassRoles /\ pass' = "claiming"
    <3>1. AwaitOK' /\ OneOut'
      BY <1>1, <1>2, <2>1, <2>4, <2>7 DEF AwaitOK, OneOut
    <3> QED  BY <2>3, <2>6, <3>1
  <2>8. CASE /\ role \notin PassRoles /\ pass' \notin {"claiming", "checking"}
             /\ \A j \in Awaiting : calls[j].role \notin PassRoles
    <3>1. AwaitOK' /\ OneOut'
      BY <1>0, <1>1, <1>2, <2>1, <2>4, <2>8 DEF AwaitOK, OneOut
    <3> QED  BY <2>3, <2>6, <3>1
  <2> QED  BY <1>2, <2>7, <2>8
<1>3. CASE ClaimBeforeDial
  <2>1. Awaiting = {} /\ target /\ pass' = "claiming" /\ owes \in BOOLEAN
        /\ Room /\ calls' = Append(calls, Call("claim", "dial", {}, owes))
    BY <1>0, <1>3 DEF ClaimBeforeDial, AwaitOK, ScreenOK, VarsOK
  <2>2. CallsOK' /\ AwaitOK' /\ OneOut' /\ LastOK'
    BY <1>2, <2>1 DEF Asks, AskRoles, PassRoles
  <2> QED  BY <1>1, <2>2 DEF IInv, TInv
<1>4. CASE Poll
  <2>1. /\ target /\ Room /\ calls' = Append(calls, Call(PollOp, "poll", {}, PollOp = "claim" /\ owes))
        /\ pass = "rest" /\ pass' = "rest" /\ standing \in {"held", "unclaimed", "uncounted"}
    BY <1>4 DEF Poll, screen
  <2>2. PollOp \in Asks /\ (owes => PollOp = "claim")
    <3>1. owes => standing = "unclaimed"
      BY <1>0, <2>1 DEF ScreenOK
    <3> QED  BY <2>1, <3>1 DEF PollOp, Asks
  <2>3. PICK op \in Asks, chosen \in BOOLEAN :
           calls' = Append(calls, Call(op, "poll", {}, chosen)) /\ (owes => chosen)
    <3>1. (PollOp = "claim" /\ owes) \in BOOLEAN
      OBVIOUS
    <3> QED  BY <2>1, <2>2, <3>1
  <2>4. \A j \in Awaiting : calls[j].role \notin PassRoles
    BY <1>0, <2>1 DEF AwaitOK
  <2>5. CallsOK' /\ AwaitOK' /\ OneOut' /\ LastOK'
    BY <1>2, <2>1, <2>3, <2>4 DEF AskRoles, PassRoles
  <2> QED  BY <1>1, <2>5 DEF IInv, TInv
<1>5. CASE \E b \in BOOLEAN : Land(b)
  <2>1. pass = "dialling" /\ pass' = "rest" /\ target /\ owes \in BOOLEAN
    BY <1>0, <1>5 DEF Land, Rests, ScreenOK, VarsOK
  <2>2. \A j \in Awaiting : calls[j].role \notin PassRoles
    BY <1>0, <2>1 DEF AwaitOK
  <2>3. CASE UNCHANGED calls
    <3>1. CallsOK' /\ LastOK' /\ Awaiting' = Awaiting
      BY <1>0, <1>1, <2>3 DEF CallsOK, LastOK, Awaiting
    <3>2. AwaitOK' /\ OneOut'
      BY <1>0, <1>1, <2>1, <2>2, <2>3, <3>1 DEF AwaitOK, OneOut
    <3> QED  BY <1>1, <3>1, <3>2 DEF IInv, TInv
  <2>4. CASE Room /\ calls' = Append(calls, Call("claim", "late", {}, owes))
    <3>1. CallsOK' /\ AwaitOK' /\ OneOut' /\ LastOK'
      BY <1>2, <2>1, <2>2, <2>4 DEF Asks, AskRoles, PassRoles
    <3> QED  BY <1>1, <3>1 DEF IInv, TInv
  <2> QED  BY <1>5, <2>3, <2>4 DEF Land
<1> QED  BY <1>3, <1>4, <1>5

\* Steps that leave the requests under way alone.
LEMMA ScreenStepsI ==
  ASSUME IInv, \/ Recheck \/ Age \/ RetryTeardown \/ ConfirmDown \/ Rival
               \/ \E b \in BOOLEAN : AttemptEnds(b)
  PROVE  IInv'
<1>0. VarsOK /\ ScreenOK /\ CallsOK /\ TInv /\ AwaitOK /\ LastOK
  BY DEF IInv, TInv
<1>1. CASE Recheck
  <2>1. /\ auto' = TRUE /\ tunnel' = "down" /\ pass = "rest" /\ pass' = "prechecking"
        /\ ~slotLost /\ target
        /\ UNCHANGED <<memory, giving, calls, owed, attempt, slotLost, slot, doubt>>
    BY <1>1 DEF Recheck, NeedsStandingCheck
  <2>2. VarsOK'
    BY <1>0, <2>1 DEF VarsOK, memory, giving
  <2>3. ScreenOK'
    BY <1>0, <2>1 DEF ScreenOK, Leaving, memory
  <2>4. CallsOK' /\ LastOK' /\ Awaiting' = Awaiting
    BY <1>0, <2>1 DEF CallsOK, LastOK, Awaiting, memory, giving
  <2>5. AwaitOK' /\ OneOut'
    BY <1>0, <2>1, <2>4 DEF AwaitOK, OneOut, IInv, memory
  <2> QED  BY <2>2, <2>3, <2>4, <2>5 DEF IInv, TInv
<1>2. ASSUME VarsOK', ScreenOK', UNCHANGED <<target, pass, owes, again, lastGrant, calls>>
      PROVE  IInv'
  BY <1>2, KeptCalls DEF IInv, TInv
<1>3. CASE Age
  <2>1. VarsOK'
    BY <1>0, <1>3 DEF Age, VarsOK, giving, screen
  <2>2. ScreenOK'
    BY <1>0, <1>3 DEF Age, ScreenOK, Leaving, screen
  <2>3. UNCHANGED <<target, pass, owes, again, lastGrant, calls>>
    BY <1>3 DEF Age, giving, screen
  <2> QED  BY <1>2, <2>1, <2>2, <2>3
<1>4. CASE RetryTeardown
  <2>1. VarsOK'
    BY <1>0, <1>4 DEF RetryTeardown, VarsOK, giving, memory
  <2>2. ScreenOK'
    BY <1>0, <1>4 DEF RetryTeardown, ScreenOK, Leaving, memory
  <2>3. UNCHANGED <<target, pass, owes, again, lastGrant, calls>>
    BY <1>4 DEF RetryTeardown, giving, memory
  <2> QED  BY <1>2, <2>1, <2>2, <2>3
<1>5. CASE ConfirmDown
  <2>1. VarsOK'
    BY <1>0, <1>5 DEF ConfirmDown, VarsOK, giving, memory
  <2>2. ScreenOK'
    BY <1>0, <1>5 DEF ConfirmDown, ScreenOK, Leaving, memory
  <2>3. UNCHANGED <<target, pass, owes, again, lastGrant, calls>>
    BY <1>5 DEF ConfirmDown, giving, memory
  <2> QED  BY <1>2, <2>1, <2>2, <2>3
<1>6. CASE Rival
  <2>1. VarsOK'
    BY <1>0, <1>6 DEF Rival, VarsOK, giving, memory, screen
  <2>2. ScreenOK'
    BY <1>0, <1>6 DEF Rival, ScreenOK, Leaving, memory, screen
  <2>3. UNCHANGED <<target, pass, owes, again, lastGrant, calls>>
    BY <1>6 DEF Rival, giving, memory, screen
  <2> QED  BY <1>2, <2>1, <2>2, <2>3
<1>7. CASE \E b \in BOOLEAN : AttemptEnds(b)
  <2>1. /\ attempt' = FALSE /\ ~Leaving
        /\ \/ tunnel' = "down" /\ owed' = "none"
           \/ tunnel' = tunnel /\ owed' = "stuck"
        /\ UNCHANGED <<memory, giving, calls, pass, auto, slotLost, slot, doubt>>
    BY <1>7 DEF AttemptEnds
  <2>2. VarsOK'
    <3>1. attempt' \in BOOLEAN /\ tunnel' \in {"down", tunnel} /\ owed' \in {"none", "stuck"}
      BY <2>1
    <3>2. UNCHANGED <<memory, giving, pass, auto, slotLost, slot, doubt>>
      BY <2>1
    <3> QED  BY <1>0, <3>1, <3>2 DEF VarsOK, giving, memory
  <2>3. ScreenOK'
    BY <1>0, <2>1 DEF ScreenOK, Leaving, memory
  <2>4. UNCHANGED <<target, pass, owes, again, lastGrant, calls>>
    BY <2>1 DEF giving, memory
  <2> QED  BY <1>2, <2>2, <2>3, <2>4
<1> QED  BY <1>1, <1>3, <1>4, <1>5, <1>6, <1>7

\* The app is opened again: whatever was under way, nobody waits for it.
LEMMA ReopenedCalls ==
  ASSUME CallsOK, calls' = [i \in DOMAIN calls |-> [Orphaned[i] EXCEPT !.waits = FALSE]]
  PROVE  /\ CallsOK' /\ DOMAIN calls' = DOMAIN calls
         /\ \A i \in DOMAIN calls : ~calls'[i].cur /\ ~calls'[i].watched /\ ~calls'[i].waits
<1>1. Len(calls) \in Nat /\ DOMAIN calls = 1..Len(calls) /\ Len(calls) <= MaxCalls
      /\ \A i \in DOMAIN calls : calls[i] \in GoodCalls
  BY CallsFacts
<1>2. \A i \in DOMAIN calls : calls'[i] = [Over(calls[i]) EXCEPT !.waits = FALSE]
  BY OrphanedCalls
<1>3. \A i \in DOMAIN calls : calls'[i] \in GoodCalls /\ ~calls'[i].cur /\ ~calls'[i].watched /\ ~calls'[i].waits
  BY <1>1, <1>2, ForgottenCall
<1>4. calls' \in [1..Len(calls) -> GoodCalls]
  BY <1>1, <1>3
<1>5. calls' \in Seq(GoodCalls) /\ Len(calls') = Len(calls)
  <2> DEFINE n == Len(calls)
             s == calls'
  <2>1. n \in Nat /\ s \in [1..n -> GoodCalls]
    BY <1>1, <1>4
  <2>2. PICK c \in GoodCalls : TRUE
    BY AskCall DEF Asks, AskRoles
  <2> HIDE DEF n, s
  <2>3. \A sent : sent = <<>> => s \o sent \in Seq(GoodCalls) /\ Len(s) = n
    BY <2>1, <2>2, AfterCalls
  <2>4. [1..n -> GoodCalls] \in {[1..m -> GoodCalls] : m \in Nat}
    BY <2>1
  <2>5. s \in Seq(GoodCalls)
    BY <2>1, <2>4, SeqDef
  <2> QED  BY <2>3, <2>5 DEF n, s
<1> QED  BY <1>1, <1>3, <1>4, <1>5 DEF CallsOK

LEMMA AdoptI == ASSUME IInv, NEW b \in BOOLEAN, Adopt(b) PROVE IInv'
<1>0. VarsOK /\ ScreenOK /\ CallsOK /\ TInv /\ AwaitOK /\ LastOK
  BY DEF IInv, TInv
<1>1. /\ tunnel = "up" /\ pass = "rest" /\ owed = "none" /\ target' = TRUE
      /\ standing' = "unclaimed" /\ owes' = FALSE /\ retryClaim' = TRUE /\ confirmed' = "never"
      /\ UNCHANGED <<pass, auto, tunnel, owed, slot>> /\ again' = "no" /\ watch' = {}
  BY DEF Adopt, NewEpoch
<1>2. CASE b
  <2>1. /\ lastGrant' = None /\ slotLost' = FALSE /\ attempt' = FALSE /\ doubt' = TRUE
        /\ calls' = [i \in DOMAIN calls |-> [Orphaned[i] EXCEPT !.waits = FALSE]]
    BY <1>2 DEF Adopt
  <2>2. VarsOK'
    BY <1>0, <1>1, <2>1 DEF VarsOK, Standings
  <2>3. ScreenOK'
    BY <1>0, <1>1, <2>1 DEF ScreenOK
  <2>4. /\ CallsOK' /\ DOMAIN calls' = DOMAIN calls
        /\ \A i \in DOMAIN calls : ~calls'[i].cur /\ ~calls'[i].watched /\ ~calls'[i].waits
    BY <1>0, <2>1, ReopenedCalls
  <2>5. Awaiting' = {}
    BY <2>4 DEF Awaiting, Awaited
  <2>6. LastOK'
    BY <1>1, <2>4 DEF LastOK
  <2>7. AwaitOK' /\ OneOut'
    BY <2>5, NoneOK
  <2> QED  BY <2>2, <2>3, <2>4, <2>6, <2>7 DEF IInv, TInv
<1>3. CASE ~b
  <2>1. calls' = Orphaned \o <<>> /\ UNCHANGED <<lastGrant, slotLost, attempt>> /\ doubt' \in BOOLEAN
    <3>1. doubt' = ((doubt \/ \E i \in DOMAIN calls : IsAsk(i) /\ calls[i].waits) /\ ~Quiet)
      BY <1>3 DEF Adopt, NewEpoch
    <3> QED  BY <1>3, <3>1 DEF Adopt, NewEpoch
  <2>2. VarsOK'
    BY <1>0, <1>1, <2>1 DEF VarsOK, Standings
  <2>3. ScreenOK'
    BY <1>0, <1>1, <2>1 DEF ScreenOK
  <2>4. PICK c \in GoodCalls : c.op # "release"
    BY AskCall DEF Asks, AskRoles
  <2>5. \E sent : sent = <<>>
    OBVIOUS
  <2>6. PICK sent : sent = <<>>
    BY <2>5
  <2>7. calls' = Orphaned \o sent /\ sent # <<c>>
    BY <2>1, <2>6
  <2>8. CallsOK' /\ AwaitOK' /\ OneOut'
    BY <1>0, <2>6, <2>7, EpochOK
  <2>9. Heirs({c})
    BY <1>0, <2>6, <2>7, HeirsEpoch
  <2>10. LastOK'
    BY <1>0, <1>1, <2>1, <2>4, <2>9, HeirsLastOK
  <2> QED  BY <2>2, <2>3, <2>8, <2>10 DEF IInv, TInv
<1> QED  BY <1>2, <1>3

LEMMA SignOutI == ASSUME IInv, SignOut PROVE IInv'
<1>0. VarsOK /\ ScreenOK
  BY DEF IInv, TInv
<1>1. VarsOK' /\ ScreenOK'
  BY <1>0 DEF SignOut, Rests, VarsOK, ScreenOK, Standings
<1>2. calls' = <<>> /\ <<>> \in Seq(GoodCalls) /\ Len(<<>>) = 0 /\ DOMAIN <<>> = {}
  BY DEF SignOut
<1>3. CallsOK' /\ Awaiting' = {}
  BY <1>2, CallsAssumption DEF CallsOK, Awaiting
<1>4. LastOK'
  BY <1>2 DEF LastOK, SignOut
<1> QED  BY <1>1, <1>3, <1>4 DEF IInv, TInv, AwaitOK, OneOut

LEMMA NatIndex == ASSUME CallsOK, NEW i \in DOMAIN calls PROVE i \in Nat
BY CallsFacts

LEMMA ServesI == ASSUME IInv, NEW i, Serves(i) PROVE IInv'
<1>0. VarsOK /\ ScreenOK /\ CallsOK /\ TInv /\ AwaitOK /\ LastOK
  BY DEF IInv, TInv
<1>1. i \in DOMAIN calls /\ UNCHANGED <<memory, giving, screen, doubt>>
  BY <1>0, ServeSteps
<1>2. slot' \in Handles \cup {None}
  BY <1>0, ServeSteps DEF VarsOK
<1>3. VarsOK' /\ ScreenOK'
  BY <1>0, <1>1, <1>2 DEF VarsOK, ScreenOK, Leaving, memory, giving, screen
<1>4. CallsOK' /\ Fewer(i, {})
  BY <1>0, FewerServed
<1>5. UNCHANGED <<target, pass, owes, lastGrant, again>> /\ i \in Nat
  BY <1>0, <1>1, NatIndex DEF memory, giving, screen
<1>6. AwaitOK' /\ OneOut'
  BY <1>4, <1>5, FewerOK
<1>7. LastOK'
  <2>1. CASE Heirs({})
    BY <1>0, <1>5, <2>1, HeirsLastOK DEF LastOK
  <2>2. CASE i \in DOMAIN calls' /\ Heirs({calls'[i]}) /\ calls' # Without(i)
    <3>1. CASE calls[i].op = "release" /\ Answered(i, "released", None)
      <4>1. calls'[i].cur = calls[i].cur /\ calls'[i].role = calls[i].role
        BY <1>0, <1>1, <2>2, <3>1, ReleasedCalls
      <4>2. \A c \in {calls'[i]} : c.op = "release" /\ c.cur /\ c.role # "watch" => lastGrant' # None
        BY <1>0, <1>1, <1>5, <3>1, <4>1 DEF LastOK
      <4> QED  BY <1>0, <1>5, <2>2, <4>2, HeirsLastOK DEF LastOK
    <3>2. CASE calls[i].op \in Asks /\ \E a \in AskAnswers, h \in Handles \cup {None} :
                                         Answered(i, a, h) /\ (a = "granted" => h \in Handles)
      <4>1. calls'[i].op = calls[i].op
        BY <1>0, <1>1, <2>2, <3>2, AnsweredCalls
      <4>2. \A c \in {calls'[i]} : c.op = "release" /\ c.cur /\ c.role # "watch" => lastGrant' # None
        BY <3>2, <4>1 DEF Asks
      <4>3. again' # "no" => lastGrant' # None
        BY <1>0, <1>5 DEF LastOK
      <4>4. lastGrant # None => lastGrant' # None
        BY <1>5
      <4> QED  BY <1>0, <4>3, <4>4, <2>2, <4>2, HeirsLastOK
    <3> QED  BY <1>0, <3>1, <3>2, ServeSteps
  <2> QED  BY <1>0, <2>1, <2>2, HeirsServed
<1> QED  BY <1>3, <1>4, <1>6, <1>7 DEF IInv, TInv

LEMMA ReleasesI == ASSUME IInv, NEW i, SettleRelease(i) \/ TimeOutRelease(i) \/ Lose(i) PROVE IInv'
<1>0. VarsOK /\ ScreenOK /\ CallsOK /\ TInv /\ AwaitOK /\ LastOK
  BY DEF IInv, TInv
<1>1. /\ i \in DOMAIN calls /\ UNCHANGED <<memory, watch, screen, slot>> /\ doubt' \in {TRUE, doubt}
      /\ again' \in {"no", "timer1", "timer2", again}
      /\ again' # "no" => \/ again # "no"
                          \/ calls[i].op = "release" /\ calls[i].cur /\ calls[i].role # "watch"
  <2>1. CASE SettleRelease(i)
    BY <2>1 DEF SettleRelease
  <2>2. CASE TimeOutRelease(i)
    BY <2>2 DEF TimeOutRelease
  <2>3. CASE Lose(i)
    BY <2>3 DEF Lose, giving
  <2> QED  BY <2>1, <2>2, <2>3
<1>2. VarsOK'
  <2>1. doubt' \in BOOLEAN /\ again' \in {"no", "teardown", "timer1", "timer2"}
    BY <1>0, <1>1 DEF VarsOK
  <2>2. UNCHANGED <<memory, watch, screen, slot>>
    BY <1>1
  <2> QED  BY <1>0, <2>1, <2>2 DEF VarsOK, memory, screen
<1>3. ScreenOK'
  BY <1>0, <1>1 DEF ScreenOK, Leaving, memory, screen
<1>4. CallsOK' /\ Fewer(i, {}) /\ Heirs({})
  BY <1>0, FewerReleases, HeirsReleases
<1>5. UNCHANGED <<target, pass, owes, lastGrant>> /\ i \in Nat
  BY <1>0, <1>1, NatIndex DEF memory, screen
<1>6. AwaitOK' /\ OneOut'
  BY <1>4, <1>5, FewerOK
<1>7. LastOK'
  BY <1>0, <1>1, <1>4, <1>5, HeirsLastOK DEF LastOK
<1> QED  BY <1>2, <1>3, <1>4, <1>6, <1>7 DEF IInv, TInv

\* The answer of the pass is the only one it waits for.
LEMMA PassAnswered ==
  ASSUME IInv, NEW i \in Awaiting, calls[i].role \in PassRoles, Fewer(i, {i})
  PROVE  Awaiting' = {}
<1>1. SUFFICES ASSUME NEW j \in Awaiting' PROVE FALSE
  OBVIOUS
<1>2. PICK k \in Awaiting \ {i} : TRUE
  BY <1>1 DEF Fewer
<1>3. pass \in {"claiming", "checking"} /\ calls[k].role \in PassRoles
  BY <1>2 DEF IInv, AwaitOK
<1> QED  BY <1>2, <1>3 DEF IInv, OneOut

LEMMA AnswersI == ASSUME IInv, NEW i, Settle(i) \/ TimeOut(i) PROVE IInv'
<1>0. VarsOK /\ ScreenOK /\ CallsOK /\ TInv /\ AwaitOK /\ LastOK
  BY DEF IInv, TInv
<1>1. /\ i \in DOMAIN calls /\ calls[i].op \in Asks /\ calls[i].role \in AskRoles
      /\ CallsOK' /\ watch' \subseteq Handles \cup {Known} /\ Fewer(i, {i})
      /\ doubt' \in BOOLEAN /\ UNCHANGED <<again, slot>>
  BY <1>0, AnswerSteps
<1>2. PICK new : Heirs(new) /\ \A c \in new : c.op = "release" /\ c.role = "watch"
  BY <1>0, AnswerSteps
<1>3. i \in Nat
  BY <1>0, <1>1, NatIndex
<1>4. CASE ~calls[i].cur /\ UNCHANGED <<memory, screen>>
  <2>1. VarsOK' /\ ScreenOK'
    BY <1>0, <1>1, <1>4 DEF VarsOK, ScreenOK, Leaving, memory, screen
  <2>2. UNCHANGED <<target, pass, owes, lastGrant>>
    BY <1>4 DEF memory, screen
  <2>3. AwaitOK' /\ OneOut'
    BY <1>1, <1>3, <2>2, FewerOK
  <2>4. again' # "no" => lastGrant' # None
    BY <1>0, <1>1, <2>2 DEF LastOK
  <2>5. LastOK'
    BY <1>0, <1>2, <2>2, <2>4, HeirsLastOK
  <2> QED  BY <1>1, <2>1, <2>3, <2>5 DEF IInv, TInv
<1>5. ASSUME NEW a \in AskAnswers, NEW g \in Handles \cup {None}, a = "granted" => g \in Handles,
             Awaited(calls[i]), Applied(calls[i].op, a, g), Acted(calls[i].role, a)
      PROVE  IInv'
  <2>0. i \in Awaiting /\ target
    BY <1>0, <1>1, <1>5 DEF Awaiting, AwaitOK
  <2>1. /\ standing' \in Standings /\ owes' \in BOOLEAN /\ retryClaim' \in BOOLEAN
        /\ lastGrant' \in Handles \cup {None}
        /\ confirmed' \in {"never", "fresh", "aging", "lapsed"} /\ target' = target
        /\ (lastGrant # None => lastGrant' # None)
    <3>1. standing' \in Standings
      BY <1>0, <1>5 DEF Applied, VarsOK, Standings, AskAnswers
    <3>2. owes' \in BOOLEAN
      BY <1>5 DEF Applied
    <3>3. retryClaim' \in BOOLEAN
      BY <1>0, <1>5 DEF Applied, VarsOK, AskAnswers
    <3>4. lastGrant' \in Handles \cup {None} /\ (lastGrant # None => lastGrant' # None)
      BY <1>0, <1>5, HandlesAssumption DEF Applied, VarsOK, None
    <3>5. confirmed' \in {"never", "fresh", "aging", "lapsed"} /\ target' = target
      BY <1>0, <1>5 DEF Applied, VarsOK
    <3> QED  BY <3>1, <3>2, <3>3, <3>4, <3>5
  <2>2. /\ owes' => owes /\ a \notin Verdicts
        /\ owes' => standing' \in {"none", "unclaimed"}
    BY <1>0, <1>1, <1>5 DEF Applied, Verdicts, ScreenOK, Asks
  <2>3. again' # "no" => lastGrant' # None
    BY <1>0, <1>1, <2>1 DEF LastOK
  <2>4. LastOK'
    BY <1>0, <1>2, <2>1, <2>3, HeirsLastOK
  <2>5. CASE calls[i].role \in PassRoles
    <3>1. Awaiting' = {} /\ pass # "rest"
      BY <1>0, <1>1, <2>0, <2>5, PassAnswered DEF AwaitOK
    <3>2. ~slotLost /\ ~Leaving /\ (~auto => tunnel = "down")
      BY <1>0, <3>1 DEF ScreenOK
    <3>3. /\ pass' \in {"rest", "dialling"} /\ auto' \in BOOLEAN /\ tunnel' \in {"down", tunnel}
          /\ owed' \in {"none", "tearingDown", "stuck"} /\ attempt' \in BOOLEAN /\ slotLost' \in BOOLEAN
      BY <1>0, <1>5, <2>5 DEF Acted, EndForSlot, Rests, PassRoles, VarsOK
    <3>4. VarsOK'
      BY <1>0, <1>1, <2>1, <3>3 DEF VarsOK
    <3>5. ScreenOK'
      <4>1. CASE a \notin Verdicts
        BY <1>5, <2>0, <2>1, <2>2, <2>5, <3>2, <4>1 DEF Acted, PassRoles, ScreenOK, Leaving
      <4>2. CASE a \in Verdicts /\ ~auto
        BY <1>5, <2>0, <2>1, <2>2, <2>5, <3>2, <4>2 DEF Acted, Rests, PassRoles, ScreenOK, Leaving
      <4>3. CASE a \in Verdicts /\ auto
        BY <1>5, <2>0, <2>1, <2>2, <2>5, <3>2, <4>3 DEF Acted, EndForSlot, Rests, PassRoles, ScreenOK, Leaving
      <4> QED  BY <1>0, <4>1, <4>2, <4>3 DEF VarsOK
    <3>6. AwaitOK' /\ OneOut'
      BY <3>1, NoneOK
    <3> QED  BY <1>1, <2>4, <3>4, <3>5, <3>6 DEF IInv, TInv
  <2>6. CASE calls[i].role \notin PassRoles
    <3>1. calls[i].role \in {"late", "poll"} /\ pass \notin {"claiming", "checking"}
      BY <1>0, <1>1, <2>0, <2>6 DEF AwaitOK, AskRoles, PassRoles
    <3>2. CASE a \in Verdicts
      <4>1. EndForSlot
        BY <1>5, <3>1, <3>2 DEF Acted
      <4>2. VarsOK'
        BY <1>0, <1>1, <2>1, <4>1 DEF EndForSlot, Rests, VarsOK
      <4>3. ScreenOK'
        BY <2>0, <2>1, <2>2, <4>1 DEF EndForSlot, Rests, ScreenOK
      <4>4. OneOut'
        BY <1>1, <1>3, FewerOneOut DEF IInv
      <4>5. \A j \in Awaiting' : calls'[j].role \notin PassRoles
        BY <1>0, <1>1, <3>1 DEF Fewer, SameRequest, AwaitOK
      <4>6. AwaitOK'
        BY <2>0, <2>1, <2>2, <3>2, <4>1, <4>5 DEF EndForSlot, Rests, AwaitOK
      <4> QED  BY <1>1, <2>4, <4>2, <4>3, <4>4, <4>6 DEF IInv, TInv
    <3>3. CASE a \notin Verdicts
      <4>1. UNCHANGED screen
        BY <1>5, <3>1, <3>3 DEF Acted
      <4>2. VarsOK'
        BY <1>0, <1>1, <2>1, <4>1 DEF VarsOK, screen
      <4>3. ScreenOK'
        BY <1>0, <2>0, <2>1, <2>2, <4>1 DEF ScreenOK, Leaving, screen
      <4>4. OneOut'
        BY <1>1, <1>3, FewerOneOut DEF IInv
      <4>5. UNCHANGED <<target, pass>> /\ (owes' => owes)
        BY <2>1, <2>2, <4>1 DEF screen
      <4>6. AwaitOK'
        BY <1>0, <1>1, <4>5, FewerAwaitOK
      <4> QED  BY <1>1, <2>4, <4>2, <4>3, <4>4, <4>6 DEF IInv, TInv
    <3> QED  BY <3>2, <3>3
  <2> QED  BY <2>5, <2>6
<1> QED  BY <1>0, <1>4, <1>5, AnswerSteps

LEMMA NextI == IInv /\ [Next]_vars => IInv'
<1>1. CASE UNCHANGED vars
  <2>1. ASSUME IInv, UNCHANGED vars PROVE IInv'
    BY <2>1 DEF IInv, TInv, VarsOK, CallsOK, ScreenOK, AwaitOK, OneOut, LastOK, Awaiting, Leaving,
              vars, memory, giving, screen
  <2> QED  BY <1>1, <2>1
<1>2. ASSUME IInv, Passes PROVE IInv'
  BY <1>2, AppendsAskI, CheckStandingI, GiveBackStepI DEF Passes
<1>3. ASSUME IInv, Presses PROVE IInv'
  BY <1>3, ConnectI, GiveBackStepI, SendsReleaseI, AdoptI, ScreenStepsI, SetAsideI, SignOutI DEF Presses
<1>4. ASSUME IInv, Poll \/ Age \/ RetryRelease \/ RetryTeardown \/ ConfirmDown \/ Rival PROVE IInv'
  BY <1>4, AppendsAskI, ScreenStepsI, SendsReleaseI
<1>5. ASSUME IInv, NEW i, Serves(i) \/ Answers(i) \/ Lose(i) PROVE IInv'
  BY <1>5, ServesI, AnswersI, ReleasesI DEF Answers
<1> QED  BY <1>1, <1>2, <1>3, <1>4, <1>5 DEF Next

LEMMA Inductive == Spec => []IInv
BY InitI, NextI, PTL DEF Spec

LEMMA TypesFollow == IInv => TypeOK
<1>1. SUFFICES ASSUME IInv PROVE TypeOK
  OBVIOUS
<1>2. VarsOK /\ CallsOK /\ ScreenOK
  BY <1>1 DEF IInv, TInv
<1>3. \A i \in DOMAIN calls : calls[i] \in CallShape
  BY <1>2, CallsFacts, CallFields
<1>4. CallShape =
        [op : Asks \cup {"release"}, role : Roles, names : SUBSET Handles,
         chosen : BOOLEAN, cur : BOOLEAN, watched : BOOLEAN, waits : BOOLEAN,
         answer : {"none", "granted", "unenforced", "uncounted", "refused",
                   "displaced", "retry", "final", "released"},
         grant : Handles \cup {None}]
  <2>1. {"none", "released"} \cup AskAnswers =
          {"none", "granted", "unenforced", "uncounted", "refused",
           "displaced", "retry", "final", "released"}
    BY DEF AskAnswers
  <2> QED  BY <2>1 DEF CallShape
<1>5. Len(calls) <= MaxCalls
  BY <1>2 DEF CallsOK
<1>6. standing # "none" => target
  BY <1>2 DEF ScreenOK
<1> QED  BY <1>2, <1>3, <1>4, <1>5, <1>6 DEF TypeOK, VarsOK, Standings

\* The session and its requests keep the shapes the code gives them, and no
\* standing outlives the session it belongs to.
THEOREM TypeCorrect == Spec => []TypeOK
BY Inductive, TypesFollow, PTL

\* endForSlot: for any number of requests under way and whatever order they are
\* served and answered in, a tunnel the device limit ended is owed to the
\* teardown for as long as it is up.
THEOREM RefusedIsOwed == Spec => []RefusedTunnelIsOwed
<1>1. IInv => RefusedTunnelIsOwed
  BY DEF IInv, ScreenOK, RefusedTunnelIsOwed
<1> QED  BY Inductive, <1>1, PTL

\* "Use on this device instead" is forgotten only by an answer to a request that
\* said so, in whatever order the answers come.
THEOREM TakeoverIsTold == Spec => ChosenNotInTheWay
<1>1. ASSUME IInv, NEW i \in DOMAIN calls, Settle(i), owes, ~owes'
      PROVE  calls[i].chosen
  <2>1. calls[i].cur /\ Awaited(calls[i])
    <3>1. \/ ~calls[i].cur /\ UNCHANGED <<memory, screen>>
          \/ calls[i].cur /\ Awaited(calls[i])
      BY <1>1, AnswerSteps DEF IInv
    <3> QED  BY <1>1, <3>1 DEF memory
  <2> QED  BY <1>1, <2>1 DEF IInv, AwaitOK, Awaiting
<1>2. IInv /\ [Next]_vars =>
        [\A i \in DOMAIN calls : Settle(i) /\ owes /\ ~owes' => calls[i].chosen]_vars
  BY <1>1
<1> QED  BY Inductive, <1>2, PTL DEF Spec, ChosenNotInTheWay

-----------------------------------------------------------------------------
(***************************************************************************)
(* A late release takes nothing that was granted since, where a renewal is  *)
(* not served while a release naming its handle is on the way.              *)
(***************************************************************************)
\* The slot was given back or set aside, and nothing has been asked since.
GivenBack ==
  /\ pass \in {"rest", "prechecking"} /\ (target => tunnel = "down")
  /\ standing \in {"none", "unclaimed"} /\ Awaiting = {}

\* Something may still name a handle to be released.
Watching ==
  \/ again # "no"
  \/ \E i \in DOMAIN calls : calls[i].watched \/ (calls[i].op = "release" /\ calls[i].cur)

\* A handle that is granted, and the answer awaited, is in no release.
GrantsFree ==
  \A i \in Awaiting, j \in DOMAIN calls :
    calls[i].answer = "granted" => calls[i].grant \notin calls[j].names

\* Nor is the one this device holds.
HeldFree == standing = "held" => \A j \in DOMAIN calls : lastGrant \notin calls[j].names

GInv == (Watching => GivenBack) /\ GrantsFree /\ HeldFree

LEMMA GivenBackG == ASSUME GivenBack' PROVE GInv'
BY DEF GivenBack, GInv, GrantsFree, HeldFree

LEMMA HeirAwaited ==
  ASSUME NEW d, NEW c, Heir(d, c), Awaited(d)
  PROVE  Awaited(c)
BY DEF Heir, Awaited

LEMMA HeirsFree ==
  ASSUME GrantsFree, HeldFree, NEW new, Heirs(new),
         \A c \in new : c.names = {} /\ c.answer = "none",
         standing' = "held" => standing = "held" /\ lastGrant' = lastGrant
  PROVE  GrantsFree' /\ HeldFree'
<1>1. ASSUME NEW i \in Awaiting', NEW j \in DOMAIN calls', calls'[i].answer = "granted",
             calls'[i].grant \in calls'[j].names
      PROVE  FALSE
  <2>1. i \in DOMAIN calls' /\ Awaited(calls'[i])
    BY <1>1 DEF Awaiting
  <2>2. calls'[i] \notin new /\ calls'[j] \notin new
    BY <1>1
  <2>3. PICK k \in DOMAIN calls : Heir(calls'[i], calls[k])
    BY <2>1, <2>2 DEF Heirs
  <2>4. PICK l \in DOMAIN calls : Heir(calls'[j], calls[l])
    BY <1>1, <2>2 DEF Heirs
  <2>5. k \in Awaiting
    BY <2>1, <2>3, HeirAwaited DEF Awaiting
  <2> QED  BY <1>1, <2>3, <2>4, <2>5 DEF GrantsFree, Heir
<1>2. ASSUME standing' = "held", NEW j \in DOMAIN calls', lastGrant' \in calls'[j].names
      PROVE  FALSE
  <2>1. calls'[j] \notin new
    BY <1>2
  <2>2. PICK l \in DOMAIN calls : Heir(calls'[j], calls[l])
    BY <1>2, <2>1 DEF Heirs
  <2> QED  BY <1>2, <2>2 DEF HeldFree, Heir
<1> QED  BY <1>1, <1>2 DEF GrantsFree, HeldFree

LEMMA HeirsUnwatched ==
  ASSUME ~Watching, NEW new, Heirs(new), again' = "no",
         \A c \in new : ~c.watched /\ c.op # "release"
  PROVE  ~Watching'
<1>1. ASSUME NEW j \in DOMAIN calls', calls'[j].watched \/ (calls'[j].op = "release" /\ calls'[j].cur)
      PROVE  FALSE
  <2>1. calls'[j] \notin new
    BY <1>1
  <2>2. PICK l \in DOMAIN calls : Heir(calls'[j], calls[l])
    BY <1>1, <2>1 DEF Heirs
  <2> QED  BY <1>1, <2>2 DEF Watching, Heir
<1> QED  BY <1>1 DEF Watching

\* In a new epoch nothing of before is watched.
LEMMA EpochUnwatched ==
  ASSUME CallsOK, NEW c \in GoodCalls, NEW sent, sent = <<>> \/ (sent = <<c>> /\ Room),
         calls' = Orphaned \o sent, c.op \in Asks, ~c.watched, again' = "no"
  PROVE  ~Watching'
<1>1. ASSUME NEW j \in DOMAIN calls', calls'[j].watched \/ (calls'[j].op = "release" /\ calls'[j].cur)
      PROVE  FALSE
  <2>1. CASE j \in DOMAIN calls /\ calls'[j] = Over(calls[j])
    BY <1>1, <2>1, OverCall, CallsFacts
  <2>2. CASE calls'[j] = c
    BY <1>1, <2>2 DEF Asks
  <2> QED  BY <2>1, <2>2, EpochCalls
<1> QED  BY <1>1 DEF Watching

\* What the app waits for does not come back.
LEMMA NoneFewer == ASSUME Awaiting = {}, NEW i, NEW gone, Fewer(i, gone) PROVE Awaiting' = {}
BY DEF Fewer

LEMMA InitG == Init => GInv
BY DEF Init, GInv, GrantsFree, HeldFree, Watching, Awaiting

\* Nothing is sent, and the device holds nothing it did not hold.
LEMMA KeptG ==
  ASSUME GInv, UNCHANGED calls, again' \in {"no", again},
         standing' = "held" => standing = "held" /\ lastGrant' = lastGrant,
         GivenBack => GivenBack'
  PROVE  GInv'
<1>1. GrantsFree' /\ HeldFree'
  <2>1. Heirs({})
    BY HeirsUnchanged
  <2> QED  BY <2>1, HeirsFree DEF GInv
<1>2. Watching' => Watching
  BY DEF Watching
<1> QED  BY <1>1, <1>2 DEF GInv

LEMMA GiveBackStepG ==
  ASSUME IInv, GInv, Fail \/ Disconnect \/ StopReconnecting \/ (\E b \in BOOLEAN : Drop(b))
  PROVE  GInv'
<1>0. TInv /\ ScreenOK
  BY DEF IInv
<1>1. pass' = "rest"
  BY DEF Fail, Disconnect, StopReconnecting, Drop, Rests, screen
<1>2. CASE \E torn \in BOOLEAN : GiveBack(torn)
  <2>1. Awaiting' = {} /\ standing' = "none" /\ target' = FALSE
    BY <1>0, <1>2, GivenBackCalls DEF GiveBack
  <2> QED  BY <1>1, <2>1, GivenBackG DEF GivenBack
<1>3. CASE ~target /\ UNCHANGED <<memory, giving, calls>>
  <2>1. UNCHANGED <<calls, again, standing, lastGrant, target>> /\ Awaiting' = Awaiting
    BY <1>3 DEF memory, giving, Awaiting
  <2>2. GivenBack => GivenBack'
    BY <1>1, <1>3, <2>1 DEF GivenBack
  <2> QED  BY <2>1, <2>2, KeptG
<1>4. CASE (\E b \in BOOLEAN : Drop(b)) /\ UNCHANGED <<memory, giving, calls>>
  <2>1. UNCHANGED <<calls, again, standing, lastGrant, target>> /\ Awaiting' = Awaiting /\ tunnel' = "down"
    BY <1>4 DEF memory, giving, Awaiting, Drop
  <2>2. GivenBack => GivenBack'
    BY <1>1, <2>1 DEF GivenBack
  <2> QED  BY <2>1, <2>2, KeptG
<1> QED  BY <1>2, <1>3, <1>4 DEF Fail, Disconnect, StopReconnecting, Drop, GiveBackIfAny

LEMMA SetAsideG == ASSUME IInv, GInv, SetAside PROVE GInv'
<1>0. TInv
  BY DEF IInv
<1>1. PICK c \in GoodCalls : \E sent \in {<<>>, <<c>>} :
           calls' = Watched \o sent /\ (sent = <<c>> => Room) /\ c.op = "release"
  BY <1>0, SetAsideCalls
<1>2. PICK sent \in {<<>>, <<c>>} :
           calls' = Watched \o sent /\ (sent = <<c>> => Room) /\ c.op = "release"
  BY <1>1
<1>3. sent = <<>> \/ (sent = <<c>> /\ Room)
  BY <1>2
<1>4. Awaiting' = {}
  BY <1>0, <1>2, <1>3, LeftAwaiting DEF TInv
<1>5. pass' = "rest" /\ tunnel' = "down" /\ standing' = "unclaimed"
  BY DEF SetAside, screen
<1> QED  BY <1>4, <1>5, GivenBackG DEF GivenBack

LEMMA SendsReleaseG ==
  ASSUME IInv, GInv, (\E b \in BOOLEAN : TornDown(b)) \/ RetryRelease
  PROVE  GInv'
<1>0. TInv /\ LastOK /\ VarsOK /\ CallsOK
  BY DEF IInv, TInv
<1>1. /\ UNCHANGED <<pass, target, standing, lastGrant>> /\ again' \in {"no", again}
      /\ (target => tunnel = "down") => (target => tunnel' = "down")
  <2>1. CASE \E b \in BOOLEAN : TornDown(b)
    BY <2>1 DEF TornDown, memory, Leaving
  <2>2. CASE RetryRelease
    BY <2>2 DEF RetryRelease, memory, screen
  <2> QED  BY <2>1, <2>2
<1>2. CASE UNCHANGED calls
  <2>1. Awaiting' = Awaiting
    BY <1>2 DEF Awaiting
  <2>2. GivenBack => GivenBack'
    BY <1>1, <2>1 DEF GivenBack
  <2> QED  BY <1>1, <1>2, <2>2, KeptG
<1>3. ASSUME NEW role \in {"second", "timer1", "timer2"}, Room, again # "no",
             calls' = Append(calls, Release(role, {lastGrant}))
      PROVE  GInv'
  <2> DEFINE c == Release(role, {lastGrant})
  <2>1. {lastGrant} \in SUBSET Handles /\ role \in Roles \ AskRoles
    BY <1>0, <1>3, NamesLast DEF Roles, AskRoles, LastOK
  <2>2. c \in GoodCalls /\ c.op = "release"
    BY <2>1, ReleaseCall
  <2>3. calls' = Append(calls, c)
    BY <1>3
  <2> HIDE DEF c
  <2>4. ~Awaited(c)
    BY <2>2 DEF Awaited, Asks
  <2>5. Awaiting' \subseteq Awaiting
    BY <1>0, <1>3, <2>2, <2>3, <2>4, MoreAwaiting
  <2>6. GivenBack
    BY <1>3 DEF GInv, Watching
  <2>7. GivenBack'
    BY <1>1, <2>5, <2>6 DEF GivenBack
  <2> QED  BY <2>7, GivenBackG
<1>4. \/ UNCHANGED calls
      \/ /\ Room /\ again # "no"
         /\ \E role \in {"second", "timer1", "timer2"} :
              calls' = Append(calls, Release(role, {lastGrant}))
  BY DEF TornDown, RetryRelease
<1> QED  BY <1>2, <1>3, <1>4

LEMMA ConnectG ==
  ASSUME IInv, GInv, (\E b \in BOOLEAN : Connect(b)) \/ Reconnect
  PROVE  GInv'
<1>0. TInv /\ CallsOK
  BY DEF IInv, TInv
<1>1. CASE Fresh /\ UNCHANGED <<memory, giving, calls, doubt>>
  <2>1. ~GivenBack
    BY <1>1 DEF Fresh, GivenBack
  <2>2. UNCHANGED <<standing, lastGrant, again>>
    BY <1>1 DEF memory, giving
  <2> QED  BY <1>1, <2>1, <2>2, KeptG
<1>2. ASSUME NEW takeover \in BOOLEAN, StartsClaiming(takeover)
      PROVE  GInv'
  <2>1. PICK c \in GoodCalls : \E sent \in {<<>>, <<c>>} :
           /\ calls' = Orphaned \o sent /\ (sent = <<c>> => Room)
           /\ c.op \in Asks /\ c.names = {} /\ ~c.watched /\ c.answer = "none"
    BY <1>0, <1>2, ClaimingCalls
  <2>2. PICK sent \in {<<>>, <<c>>} :
           /\ calls' = Orphaned \o sent /\ (sent = <<c>> => Room)
           /\ c.op \in Asks /\ c.names = {} /\ ~c.watched /\ c.answer = "none"
    BY <2>1
  <2>3. sent = <<>> \/ (sent = <<c>> /\ Room)
    BY <2>2
  <2>4. again' = "no" /\ standing' = "none"
    BY <1>2 DEF StartsClaiming, NewEpoch
  <2>5. ~Watching'
    BY <1>0, <2>2, <2>3, <2>4, EpochUnwatched
  <2>6. Heirs({c})
    BY <1>0, <2>2, <2>3, HeirsEpoch
  <2>7. GrantsFree' /\ HeldFree'
    BY <2>2, <2>4, <2>6, HeirsFree DEF GInv
  <2> QED  BY <2>5, <2>7 DEF GInv
<1> QED  BY <1>1, <1>2 DEF Connect, Reconnect

LEMMA CheckStandingG == ASSUME IInv, GInv, CheckStanding PROVE GInv'
<1>0. TInv /\ CallsOK
  BY DEF IInv, TInv
<1>1. PICK c \in GoodCalls :
           /\ calls' = Orphaned \o <<c>> /\ Room
           /\ c.op \in Asks /\ c.names = {} /\ ~c.watched /\ c.answer = "none"
  BY <1>0, CheckingCalls
<1>2. again' = "no" /\ UNCHANGED <<standing, lastGrant>>
  BY DEF CheckStanding, NewEpoch, memory
<1>3. ~Watching'
  BY <1>0, <1>1, <1>2, EpochUnwatched
<1>4. Heirs({c})
  BY <1>0, <1>1, HeirsEpoch
<1>5. GrantsFree' /\ HeldFree'
  BY <1>1, <1>2, <1>4, HeirsFree DEF GInv
<1> QED  BY <1>3, <1>5 DEF GInv

LEMMA AppendsAskG ==
  ASSUME IInv, GInv, ClaimBeforeDial \/ Poll \/ (\E b \in BOOLEAN : Land(b))
  PROVE  GInv'
<1>0. TInv /\ CallsOK /\ VarsOK /\ ScreenOK
  BY DEF IInv, TInv
<1>1. ~GivenBack /\ UNCHANGED <<standing, lastGrant, again>>
  <2>1. CASE ClaimBeforeDial
    BY <2>1 DEF ClaimBeforeDial, GivenBack, memory, giving
  <2>2. CASE Poll
    BY <2>2 DEF Poll, GivenBack, memory, giving
  <2>3. CASE \E b \in BOOLEAN : Land(b)
    BY <2>3 DEF Land, GivenBack, memory, giving
  <2> QED  BY <2>1, <2>2, <2>3
<1>2. ~Watching /\ again = "no"
  BY <1>1 DEF GInv, Watching
<1>3. CASE UNCHANGED calls
  BY <1>1, <1>3, KeptG
<1>4. ASSUME NEW op \in Asks, NEW role \in AskRoles, NEW chosen \in BOOLEAN, Room,
             calls' = Append(calls, Call(op, role, {}, chosen))
      PROVE  GInv'
  <2> DEFINE c == Call(op, role, {}, chosen)
  <2>1. c \in GoodCalls /\ c.op # "release" /\ c.names = {} /\ ~c.watched /\ c.answer = "none"
    BY AskCall DEF Asks
  <2>2. calls' = Append(calls, c)
    BY <1>4
  <2> HIDE DEF c
  <2>3. Heirs({c})
    BY <1>0, <1>4, <2>1, <2>2, HeirsMore
  <2>4. ~Watching'
    BY <1>1, <1>2, <2>1, <2>3, HeirsUnwatched
  <2>5. GrantsFree' /\ HeldFree'
    BY <1>1, <2>1, <2>3, HeirsFree DEF GInv
  <2> QED  BY <2>4, <2>5 DEF GInv
<1>5. CASE ClaimBeforeDial
  <2>1. owes \in BOOLEAN /\ Room /\ calls' = Append(calls, Call("claim", "dial", {}, owes))
    BY <1>0, <1>5 DEF ClaimBeforeDial, VarsOK
  <2> QED  BY <1>4, <2>1 DEF Asks, AskRoles
<1>6. CASE Poll
  <2>1. /\ Room /\ calls' = Append(calls, Call(PollOp, "poll", {}, PollOp = "claim" /\ owes))
        /\ standing \in {"held", "unclaimed", "uncounted"}
    BY <1>6 DEF Poll
  <2>2. PollOp \in Asks /\ (PollOp = "claim" /\ owes) \in BOOLEAN
    BY <2>1 DEF PollOp, Asks
  <2>3. PICK op \in Asks, chosen \in BOOLEAN : calls' = Append(calls, Call(op, "poll", {}, chosen))
    BY <2>1, <2>2
  <2> QED  BY <1>4, <2>1, <2>3 DEF AskRoles
<1>7. CASE \E b \in BOOLEAN : Land(b)
  <2>1. \/ UNCHANGED calls
        \/ owes \in BOOLEAN /\ Room /\ calls' = Append(calls, Call("claim", "late", {}, owes))
    BY <1>0, <1>7 DEF Land, VarsOK
  <2> QED  BY <1>3, <1>4, <2>1 DEF Asks, AskRoles
<1> QED  BY <1>5, <1>6, <1>7

LEMMA ScreenStepsG ==
  ASSUME GInv, \/ Recheck \/ Age \/ RetryTeardown \/ ConfirmDown \/ Rival
               \/ \E b \in BOOLEAN : AttemptEnds(b)
  PROVE  GInv'
<1>1. UNCHANGED <<calls, again, standing, lastGrant, target>>
  <2>1. CASE Recheck
    BY <2>1 DEF Recheck, memory, giving
  <2>2. CASE Age
    BY <2>2 DEF Age, giving
  <2>3. CASE RetryTeardown \/ ConfirmDown
    BY <2>3 DEF RetryTeardown, ConfirmDown, memory, giving
  <2>4. CASE Rival
    BY <2>4 DEF Rival, memory, giving
  <2>5. CASE \E b \in BOOLEAN : AttemptEnds(b)
    BY <2>5 DEF AttemptEnds, memory, giving
  <2> QED  BY <2>1, <2>2, <2>3, <2>4, <2>5
<1>2. pass' \in {pass, "prechecking"} /\ tunnel' \in {tunnel, "down"}
  <2>1. CASE Recheck
    BY <2>1 DEF Recheck
  <2>2. CASE Age
    BY <2>2 DEF Age, screen
  <2>3. CASE RetryTeardown \/ ConfirmDown
    BY <2>3 DEF RetryTeardown, ConfirmDown
  <2>4. CASE Rival
    BY <2>4 DEF Rival, screen
  <2>5. CASE \E b \in BOOLEAN : AttemptEnds(b)
    BY <2>5 DEF AttemptEnds
  <2> QED  BY <2>1, <2>2, <2>3, <2>4, <2>5
<1>3. Awaiting' = Awaiting
  BY <1>1 DEF Awaiting
<1>4. GivenBack => GivenBack'
  BY <1>1, <1>2, <1>3 DEF GivenBack
<1> QED  BY <1>1, <1>4, KeptG

LEMMA AdoptG == ASSUME IInv, GInv, NEW b \in BOOLEAN, Adopt(b) PROVE GInv'
<1>0. TInv /\ CallsOK
  BY DEF IInv, TInv
<1>1. standing' = "unclaimed" /\ again' = "no"
  BY DEF Adopt, NewEpoch
<1>2. CASE b
  <2>1. calls' = [i \in DOMAIN calls |-> [Orphaned[i] EXCEPT !.waits = FALSE]]
    BY <1>2 DEF Adopt
  <2>2. /\ DOMAIN calls' = DOMAIN calls
        /\ \A i \in DOMAIN calls : ~calls'[i].cur /\ ~calls'[i].watched /\ ~calls'[i].waits
    BY <1>0, <2>1, ReopenedCalls
  <2>3. Awaiting' = {} /\ ~Watching'
    BY <1>1, <2>2 DEF Awaiting, Awaited, Watching
  <2> QED  BY <1>1, <2>3 DEF GInv, GrantsFree, HeldFree
<1>3. CASE ~b
  <2>1. calls' = Orphaned \o <<>>
    BY <1>3 DEF Adopt, NewEpoch
  <2>2. PICK c \in GoodCalls : c.op \in Asks /\ ~c.watched /\ c.names = {} /\ c.answer = "none"
    BY AskCall DEF Asks, AskRoles
  <2>3. \E sent : sent = <<>>
    OBVIOUS
  <2>4. PICK sent : sent = <<>>
    BY <2>3
  <2>5. calls' = Orphaned \o sent
    BY <2>1, <2>4
  <2>6. ~Watching'
    BY <1>0, <1>1, <2>2, <2>4, <2>5, EpochUnwatched
  <2>7. Heirs({c})
    BY <1>0, <2>2, <2>4, <2>5, HeirsEpoch
  <2>8. GrantsFree' /\ HeldFree'
    BY <1>1, <2>2, <2>7, HeirsFree DEF GInv
  <2> QED  BY <2>6, <2>8 DEF GInv
<1> QED  BY <1>2, <1>3

LEMMA SignOutG == ASSUME SignOut PROVE GInv'
<1>1. calls' = <<>> /\ again' = "no" /\ standing' = "none" /\ DOMAIN <<>> = {}
  BY DEF SignOut
<1> QED  BY <1>1 DEF GInv, GrantsFree, HeldFree, Watching, Awaiting

LEMMA ReleasesG ==
  ASSUME IInv, GInv, NEW i, SettleRelease(i) \/ TimeOutRelease(i) \/ Lose(i)
  PROVE  GInv'
<1>0. TInv
  BY DEF IInv
<1>1. /\ i \in DOMAIN calls /\ UNCHANGED <<memory, screen>>
      /\ \/ again' \in {"no", again}
         \/ calls[i].op = "release" /\ calls[i].cur
  <2>1. CASE SettleRelease(i)
    BY <2>1 DEF SettleRelease
  <2>2. CASE TimeOutRelease(i)
    BY <2>2 DEF TimeOutRelease
  <2>3. CASE Lose(i)
    BY <2>3 DEF Lose, giving
  <2> QED  BY <2>1, <2>2, <2>3
<1>2. Fewer(i, {}) /\ Heirs({})
  BY <1>0, FewerReleases, HeirsReleases
<1>3. CASE Watching
  <2>1. GivenBack
    BY <1>3 DEF GInv
  <2>2. Awaiting' = {}
    BY <1>2, <2>1, NoneFewer DEF GivenBack
  <2>3. GivenBack'
    BY <1>1, <2>1, <2>2 DEF GivenBack, memory, screen
  <2> QED  BY <2>3, GivenBackG
<1>4. CASE ~Watching
  <2>1. again' = "no"
    BY <1>1, <1>4 DEF Watching
  <2>2. ~Watching'
    BY <1>2, <1>4, <2>1, HeirsUnwatched
  <2>3. GrantsFree' /\ HeldFree'
    BY <1>1, <1>2, HeirsFree DEF GInv, memory
  <2> QED  BY <2>2, <2>3 DEF GInv
<1> QED  BY <1>3, <1>4

LEMMA AnswersG ==
  ASSUME IInv, GInv, NEW i, Settle(i) \/ TimeOut(i)
  PROVE  GInv'
<1>0. TInv
  BY DEF IInv
<1>1. i \in DOMAIN calls /\ UNCHANGED again /\ Fewer(i, {i})
  BY <1>0, AnswerSteps
<1>2. PICK new : Heirs(new) /\ \A c \in new : calls[i].watched
  BY <1>0, AnswerSteps
<1>3. CASE ~calls[i].cur /\ UNCHANGED <<memory, screen>>
  <2>1. CASE Watching
    <3>1. GivenBack
      BY <2>1 DEF GInv
    <3>2. Awaiting' = {}
      BY <1>1, <3>1, NoneFewer DEF GivenBack
    <3>3. GivenBack'
      BY <1>3, <3>1, <3>2 DEF GivenBack, memory, screen
    <3> QED  BY <3>3, GivenBackG
  <2>2. CASE ~Watching
    <3>1. new = {}
      BY <1>1, <1>2, <2>2 DEF Watching
    <3>2. again' = "no"
      BY <1>1, <2>2 DEF Watching
    <3>3. ~Watching'
      BY <1>2, <2>2, <3>1, <3>2, HeirsUnwatched
    <3>4. GrantsFree' /\ HeldFree'
      BY <1>2, <1>3, <3>1, HeirsFree DEF GInv, memory
    <3> QED  BY <3>3, <3>4 DEF GInv
  <2> QED  BY <2>1, <2>2
<1>4. ASSUME Awaited(calls[i]), NEW a \in AskAnswers, NEW g \in Handles \cup {None},
             a = "granted" => calls[i].answer = "granted" /\ g = calls[i].grant,
             Applied(calls[i].op, a, g)
      PROVE  GInv'
  <2>1. i \in Awaiting /\ ~Watching
    BY <1>1, <1>4 DEF Awaiting, GInv, GivenBack
  <2>2. new = {}
    BY <1>1, <1>2, <2>1 DEF Watching
  <2>3. again' = "no"
    BY <1>1, <2>1 DEF Watching
  <2>4. ~Watching'
    BY <1>2, <2>1, <2>2, <2>3, HeirsUnwatched
  <2>5. CASE a # "granted"
    <3>1. standing' = "held" => standing = "held" /\ lastGrant' = lastGrant
      BY <1>4, <2>5 DEF Applied, AskAnswers
    <3>2. GrantsFree' /\ HeldFree'
      BY <1>2, <2>2, <3>1, HeirsFree DEF GInv
    <3> QED  BY <2>4, <3>2 DEF GInv
  <2>6. CASE a = "granted"
    <3>1. lastGrant' = calls[i].grant /\ calls[i].answer = "granted"
      BY <1>4, <2>6 DEF Applied
    <3>2. ASSUME NEW j \in DOMAIN calls'  PROVE lastGrant' \notin calls'[j].names
      <4>1. PICK l \in DOMAIN calls : Heir(calls'[j], calls[l])
        BY <1>2, <2>2 DEF Heirs
      <4> QED  BY <2>1, <3>1, <4>1 DEF GInv, GrantsFree, Heir
    <3>3. ASSUME NEW k \in Awaiting', NEW j \in DOMAIN calls', calls'[k].answer = "granted",
                 calls'[k].grant \in calls'[j].names
          PROVE  FALSE
      <4>1. PICK l \in DOMAIN calls : Heir(calls'[j], calls[l])
        BY <1>2, <2>2 DEF Heirs
      <4>2. PICK m \in DOMAIN calls : Heir(calls'[k], calls[m])
        BY <1>2, <2>2 DEF Heirs, Awaiting
      <4>3. m \in Awaiting
        BY <4>2, HeirAwaited DEF Awaiting
      <4> QED  BY <3>3, <4>1, <4>2, <4>3 DEF GInv, GrantsFree, Heir
    <3> QED  BY <2>4, <3>2, <3>3 DEF GInv, GrantsFree, HeldFree
  <2> QED  BY <2>5, <2>6
<1> QED  BY <1>0, <1>3, <1>4, AnswerSteps

LEMMA ServesG ==
  ASSUME IInv, GInv, "late" \notin Races, NEW i, Serves(i)
  PROVE  GInv'
<1>0. TInv
  BY DEF IInv
<1>1. i \in DOMAIN calls /\ UNCHANGED <<memory, giving, screen>>
  BY <1>0, ServeSteps
<1>2. Fewer(i, {})
  BY <1>0, FewerServed
<1>3. CASE Watching
  <2>1. GivenBack
    BY <1>3 DEF GInv
  <2>2. Awaiting' = {}
    BY <1>2, <2>1, NoneFewer DEF GivenBack
  <2>3. GivenBack'
    BY <1>1, <2>1, <2>2 DEF GivenBack, memory, screen
  <2> QED  BY <2>3, GivenBackG
<1>4. CASE ~Watching
  <2>1. again' = "no" /\ UNCHANGED <<standing, lastGrant>>
    BY <1>1, <1>4 DEF Watching, giving, memory
  <2>2. CASE Heirs({})
    <3>1. ~Watching'
      BY <1>4, <2>1, <2>2, HeirsUnwatched
    <3>2. GrantsFree' /\ HeldFree'
      BY <2>1, <2>2, HeirsFree DEF GInv
    <3> QED  BY <3>1, <3>2 DEF GInv
  <2>3. CASE calls' # Without(i) /\ Heirs({calls'[i]})
    <3>1. /\ calls'[i].op = calls[i].op /\ calls'[i].cur = calls[i].cur
          /\ calls'[i].watched = calls[i].watched /\ calls'[i].names = calls[i].names
          /\ calls'[i].answer = "granted" => \A j \in DOMAIN calls : calls'[i].grant \notin calls[j].names
      <4>1. CASE calls[i].op = "release" /\ Answered(i, "released", None)
        BY <1>0, <1>1, <2>3, <4>1, ReleasedCalls
      <4>2. ASSUME calls[i].op \in Asks, NEW a \in AskAnswers, NEW h \in Handles \cup {None},
                   Answered(i, a, h), a = "granted" => h \in Handles,
                   \/ NewHandle(h)
                   \/ h = slot /\ \A j \in DOMAIN calls : slot \notin calls[j].names
                   \/ a # "granted"
            PROVE  /\ calls'[i].op = calls[i].op /\ calls'[i].cur = calls[i].cur
                   /\ calls'[i].watched = calls[i].watched /\ calls'[i].names = calls[i].names
                   /\ calls'[i].answer = "granted" => \A j \in DOMAIN calls : calls'[i].grant \notin calls[j].names
        <5>1. /\ calls'[i].op = calls[i].op /\ calls'[i].cur = calls[i].cur
              /\ calls'[i].watched = calls[i].watched /\ calls'[i].names = calls[i].names
              /\ calls'[i].answer = a /\ calls'[i].grant = h
          BY <1>0, <1>1, <2>3, <4>2, AnsweredCalls
        <5>2. NewHandle(h) => \A j \in DOMAIN calls : h \notin calls[j].names
          BY DEF NewHandle
        <5> QED  BY <4>2, <5>1, <5>2
      <4> QED  BY <1>0, <4>1, <4>2, ServeSteps
    <3>2. ASSUME NEW j \in DOMAIN calls'
          PROVE  \E l \in DOMAIN calls : /\ calls'[j].op = calls[l].op /\ calls'[j].names = calls[l].names
                                         /\ (calls'[j].cur => calls[l].cur)
                                         /\ (calls'[j].watched => calls[l].watched)
      <4>1. CASE calls'[j] = calls'[i]
        BY <1>1, <3>1, <4>1
      <4>2. CASE \E k \in DOMAIN calls : Heir(calls'[j], calls[k])
        BY <4>2 DEF Heir
      <4> QED  BY <2>3, <4>1, <4>2 DEF Heirs
    <3>3. ~Watching'
      <4>1. ASSUME NEW j \in DOMAIN calls', calls'[j].watched \/ (calls'[j].op = "release" /\ calls'[j].cur)
            PROVE  FALSE
        BY <1>4, <3>2, <4>1 DEF Watching
      <4> QED  BY <2>1, <4>1 DEF Watching
    <3>4. HeldFree'
      BY <2>1, <3>2 DEF GInv, HeldFree
    <3>5. ASSUME NEW k \in Awaiting', NEW j \in DOMAIN calls', calls'[k].answer = "granted",
                 calls'[k].grant \in calls'[j].names
          PROVE  FALSE
      <4>1. PICK l \in DOMAIN calls : calls'[j].names = calls[l].names
        BY <3>2
      <4>2. CASE calls'[k] = calls'[i]
        BY <3>1, <3>5, <4>1, <4>2
      <4>3. ASSUME NEW m \in DOMAIN calls, Heir(calls'[k], calls[m])
            PROVE  FALSE
        <5>1. m \in Awaiting
          BY <3>5, <4>3, HeirAwaited DEF Awaiting
        <5> QED  BY <3>5, <4>1, <4>3, <5>1 DEF GInv, GrantsFree, Heir
      <4>4. k \in DOMAIN calls'
        BY DEF Awaiting
      <4> QED  BY <2>3, <4>2, <4>3, <4>4 DEF Heirs
    <3>6. GrantsFree'
      BY <3>5 DEF GrantsFree
    <3> QED  BY <3>3, <3>4, <3>6 DEF GInv
  <2> QED  BY <1>0, <2>2, <2>3, HeirsServed
<1> QED  BY <1>3, <1>4

LEMMA NextG == ASSUME "late" \notin Races PROVE IInv /\ GInv /\ [Next]_vars => GInv'
<1>1. ASSUME IInv, GInv, UNCHANGED vars PROVE GInv'
  BY <1>1 DEF GInv, Watching, GivenBack, GrantsFree, HeldFree, Awaiting, vars, memory, giving, screen
<1>2. ASSUME IInv, GInv, Passes PROVE GInv'
  BY <1>2, AppendsAskG, CheckStandingG, GiveBackStepG DEF Passes
<1>3. ASSUME IInv, GInv, Presses PROVE GInv'
  BY <1>3, ConnectG, GiveBackStepG, SendsReleaseG, AdoptG, ScreenStepsG, SetAsideG, SignOutG DEF Presses
<1>4. ASSUME IInv, GInv, Poll \/ Age \/ RetryRelease \/ RetryTeardown \/ ConfirmDown \/ Rival PROVE GInv'
  BY <1>4, AppendsAskG, ScreenStepsG, SendsReleaseG
<1>5. ASSUME IInv, GInv, NEW i, Serves(i) \/ Answers(i) \/ Lose(i) PROVE GInv'
  BY <1>5, ServesG, AnswersG, ReleasesG DEF Answers
<1> QED  BY <1>1, <1>2, <1>3, <1>4, <1>5 DEF Next

\* A release, however late, repeated or overtaken, never takes the slot this
\* device holds, provided no renewal is served while a release that names the
\* handle it keeps is still on its way: renewNow and the server keep the handle
\* there, which is the one race releaseNow has no guard for.
THEOREM OwnSlotStays ==
  ASSUME "late" \notin Races
  PROVE  Spec => NeverFreesItsOwn
<1>1. ASSUME IInv, GInv, NEW i \in DOMAIN calls, ServeRelease(i), slot' # slot
      PROVE  ~(standing = "held" /\ lastGrant = slot)
  <2>1. slot \in calls[i].names
    BY <1>1 DEF ServeRelease
  <2> QED  BY <1>1, <2>1 DEF GInv, HeldFree
<1>2. IInv /\ GInv /\ [Next]_vars =>
        [\A i \in DOMAIN calls :
           ServeRelease(i) /\ slot' # slot => ~(standing = "held" /\ lastGrant = slot)]_vars
  BY <1>1
<1>3. Spec => []GInv
  <2>1. IInv /\ GInv /\ [Next]_vars => GInv'
    BY NextG
  <2> QED  BY InitG, Inductive, <2>1, PTL DEF Spec
<1> QED  BY Inductive, <1>2, <1>3, PTL DEF Spec, NeverFreesItsOwn

-----------------------------------------------------------------------------
(***************************************************************************)
(* The slot is given back, where requests are served in the order they were *)
(* sent and no connect is stopped in the half second before its claim.       *)
(***************************************************************************)
\* What the server and its answers know a request by.
Like(d, c) == d.op = c.op /\ d.names = c.names /\ d.answer = c.answer /\ d.grant = c.grant

\* Where request j was when the i-th one had not left.
Was(skip, i, j) == IF skip /\ ~(j < i) THEN j + 1 ELSE j

\* s has the requests of before in their order, without those gone, and what is
\* sent comes last.
Carries(s, i, gone, sent) ==
  \E skip \in BOOLEAN :
    /\ \A j \in DOMAIN s :
         \/ Was(skip, i, j) \in DOMAIN calls \ gone /\ Like(s[j], calls[Was(skip, i, j)])
         \/ s[j] \in sent /\ \A l \in DOMAIN s : l <= j
    /\ \A k \in DOMAIN calls \ gone :
         \E j \in DOMAIN s : Was(skip, i, j) = k /\ Like(s[j], calls[k])

LEMMA CarriesInPlace ==
  ASSUME NEW s, NEW i, NEW sent, \A k \in DOMAIN calls : k \in DOMAIN s /\ Like(s[k], calls[k]),
         \A j \in DOMAIN s : j \in DOMAIN calls \/ (s[j] \in sent /\ \A l \in DOMAIN s : l <= j)
  PROVE  Carries(s, i, {}, sent)
<1>1. \A j : Was(FALSE, i, j) = j
  BY DEF Was
<1> QED  BY <1>1 DEF Carries

LEMMA CarriesUnchanged == ASSUME UNCHANGED calls, NEW i PROVE Carries(calls', i, {}, {})
<1>1. \A k \in DOMAIN calls : k \in DOMAIN calls' /\ Like(calls'[k], calls[k])
  BY DEF Like
<1> QED  BY <1>1, CarriesInPlace

LEMMA CarriesWithout ==
  ASSUME CallsOK, NEW i \in DOMAIN calls
  PROVE  Carries(Without(i), i, {i}, {})
<1>0. Len(calls) \in Nat /\ DOMAIN calls = 1..Len(calls) /\ calls \in Seq(GoodCalls)
  BY CallsFacts
<1>1. DOMAIN Without(i) = 1..Len(calls) - 1
  BY <1>0, WithoutSeq
<1>2. ASSUME NEW j \in DOMAIN Without(i)
      PROVE  Was(TRUE, i, j) \in DOMAIN calls \ {i} /\ Like(Without(i)[j], calls[Was(TRUE, i, j)])
  <2>1. PICK k \in DOMAIN calls : k # i /\ Without(i)[j] = calls[k] /\ k = IF j < i THEN j ELSE j + 1
    BY <1>0, WithoutFrom
  <2>2. k = Was(TRUE, i, j)
    BY <2>1 DEF Was
  <2> QED  BY <2>1, <2>2 DEF Like
<1>3. ASSUME NEW k \in DOMAIN calls \ {i}
      PROVE  \E j \in DOMAIN Without(i) : Was(TRUE, i, j) = k /\ Like(Without(i)[j], calls[k])
  <2>1. PICK j \in DOMAIN Without(i) : Without(i)[j] = calls[k] /\ j = IF k < i THEN k ELSE k - 1
    BY <1>0, WithoutTo
  <2>2. Was(TRUE, i, j) = k
    BY <1>0, <2>1 DEF Was
  <2> QED  BY <2>1, <2>2 DEF Like
<1> QED  BY <1>2, <1>3 DEF Carries

\* One more after that.
LEMMA CarriesMore ==
  ASSUME NEW s \in Seq(GoodCalls), NEW i, NEW gone, Carries(s, i, gone, {}), NEW c \in GoodCalls
  PROVE  Carries(Append(s, c), i, gone, {c})
<1>0. Len(s) \in Nat /\ DOMAIN s = 1..Len(s)
  BY CallAt
<1>1. /\ DOMAIN Append(s, c) = 1..Len(s) + 1
      /\ \A j \in DOMAIN s : Append(s, c)[j] = s[j]
      /\ Append(s, c)[Len(s) + 1] = c
  BY AppendCall
<1>2. PICK skip \in BOOLEAN :
        /\ \A j \in DOMAIN s : Was(skip, i, j) \in DOMAIN calls \ gone /\ Like(s[j], calls[Was(skip, i, j)])
        /\ \A k \in DOMAIN calls \ gone : \E j \in DOMAIN s : Was(skip, i, j) = k /\ Like(s[j], calls[k])
  BY DEF Carries
<1>3. ASSUME NEW j \in DOMAIN Append(s, c)
      PROVE  \/ Was(skip, i, j) \in DOMAIN calls \ gone /\ Like(Append(s, c)[j], calls[Was(skip, i, j)])
             \/ Append(s, c)[j] \in {c} /\ \A l \in DOMAIN Append(s, c) : l <= j
  <2>1. CASE j \in DOMAIN s
    BY <1>1, <1>2, <2>1
  <2>2. CASE j \notin DOMAIN s
    BY <1>0, <1>1, <2>2
  <2> QED  BY <2>1, <2>2
<1>4. ASSUME NEW k \in DOMAIN calls \ gone
      PROVE  \E j \in DOMAIN Append(s, c) : Was(skip, i, j) = k /\ Like(Append(s, c)[j], calls[k])
  BY <1>0, <1>1, <1>2
<1> QED  BY <1>3, <1>4 DEF Carries

LEMMA CarriesLeft ==
  ASSUME CallsOK, NEW c \in GoodCalls, NEW sent, sent = <<>> \/ (sent = <<c>> /\ Room),
         calls' = Watched \o sent
  PROVE  Carries(calls', 0, {}, {c})
<1>0. Len(calls) \in Nat /\ DOMAIN calls = 1..Len(calls)
  BY CallsFacts
<1>1. ASSUME NEW k \in DOMAIN calls  PROVE k \in DOMAIN calls' /\ Like(calls'[k], calls[k])
  <2>1. k \in DOMAIN calls' /\ calls'[k] = Left(calls[k])
    BY LeftCalls
  <2> QED  BY <2>1, LeftCall, CallsFacts DEF Like
<1>2. ASSUME NEW j \in DOMAIN calls', j \notin DOMAIN calls
      PROVE  calls'[j] \in {c} /\ \A l \in DOMAIN calls' : l <= j
  <2>1. j = Len(calls) + 1 /\ calls'[j] = c
    BY <1>2, LeftCalls
  <2>2. \A l \in DOMAIN calls' : l \in DOMAIN calls \/ l = Len(calls) + 1
    BY LeftCalls
  <2> QED  BY <1>0, <2>1, <2>2
<1> QED  BY <1>1, <1>2, CarriesInPlace

LEMMA OverCalls ==
  ASSUME CallsOK, NEW c \in GoodCalls, NEW sent, sent = <<>> \/ (sent = <<c>> /\ Room),
         calls' = Orphaned \o sent
  PROVE  \A k \in DOMAIN calls : k \in DOMAIN calls' /\ calls'[k] = Over(calls[k])
<1> DEFINE n == Len(calls)
           s == Orphaned
<1>1. n \in Nat /\ DOMAIN calls = 1..n /\ s \in [1..n -> GoodCalls]
      /\ \A i \in DOMAIN calls : s[i] = Over(calls[i])
  BY CallsFacts, OrphanedCalls
<1>2. calls' = s \o sent /\ (sent = <<>> \/ sent = <<c>>)
  OBVIOUS
<1> HIDE DEF n, s
<1>3. DOMAIN (s \o sent) = 1..n + Len(sent) /\ \A j \in 1..n : (s \o sent)[j] = s[j]
      /\ (sent # <<>> => Len(sent) = 1) /\ (sent = <<>> => Len(sent) = 0)
  BY <1>1, <1>2, AfterCalls
<1> QED  BY <1>1, <1>2, <1>3

LEMMA CarriesEpoch ==
  ASSUME CallsOK, NEW c \in GoodCalls, NEW sent, sent = <<>> \/ (sent = <<c>> /\ Room),
         calls' = Orphaned \o sent
  PROVE  Carries(calls', 0, {}, {c})
<1>0. Len(calls) \in Nat /\ DOMAIN calls = 1..Len(calls)
  BY CallsFacts
<1>1. ASSUME NEW k \in DOMAIN calls  PROVE k \in DOMAIN calls' /\ Like(calls'[k], calls[k])
  <2>1. k \in DOMAIN calls' /\ calls'[k] = Over(calls[k])
    BY OverCalls
  <2> QED  BY <2>1, OverCall, CallsFacts DEF Like
<1>2. ASSUME NEW j \in DOMAIN calls', j \notin DOMAIN calls
      PROVE  calls'[j] \in {c} /\ \A l \in DOMAIN calls' : l <= j
  <2>1. j = Len(calls) + 1 /\ calls'[j] = c
    BY <1>2, EpochCalls
  <2>2. \A l \in DOMAIN calls' : l \in DOMAIN calls \/ l = Len(calls) + 1
    BY EpochCalls
  <2> QED  BY <1>0, <2>1, <2>2
<1> QED  BY <1>1, <1>2, CarriesInPlace

AnsweredAsk(c) == c.op \in Asks /\ c.answer # "none"

\* Requests are served in the order they were sent.
InOrder ==
  \A i, j \in DOMAIN calls :
    i < j /\ calls[i].op \in Asks /\ AnsweredAsk(calls[j]) => calls[i].answer # "none"

\* Every answer still matters to the app.
AllMatter ==
  \A i \in DOMAIN calls : calls[i].waits /\ (calls[i].op \in Asks => calls[i].cur \/ calls[i].watched)

\* An error is among the answers on their way.
ErrorOut == \E i \in DOMAIN calls : AnsweredAsk(calls[i]) /\ calls[i].answer \in {"retry", "final"}

\* The latest of them grants the slot under the handle it is under.
LastSays(h) ==
  \E i \in DOMAIN calls :
    /\ AnsweredAsk(calls[i]) /\ calls[i].answer = "granted" /\ calls[i].grant = h
    /\ \A j \in DOMAIN calls : AnsweredAsk(calls[j]) => j <= i

\* There are none, and the session knows the handle.
InHand(h) ==
  /\ lastGrant = h /\ standing \in {"held", "unclaimed"}
  /\ \A i \in DOMAIN calls : ~AnsweredAsk(calls[i])

\* The server has still to see a request of which something comes.
ReleaseOut(h) ==
  \E i \in DOMAIN calls : calls[i].op = "release" /\ calls[i].answer = "none" /\ h \in calls[i].names

AskOut == \E i \in DOMAIN calls : calls[i].op \in Asks /\ calls[i].answer = "none"

\* Where a slot that is counted will come to the knowledge of this device, or
\* be released.
Traced(h) == ErrorOut \/ LastSays(h) \/ InHand(h) \/ ReleaseOut(h) \/ AskOut \/ pass = "clearing"

OInv == InOrder /\ (~doubt => AllMatter /\ (slot # None => Traced(slot)))

LEMMA WasOrder ==
  ASSUME NEW skip \in BOOLEAN, NEW i \in Nat, NEW j \in Nat, NEW l \in Nat,
         Was(skip, i, j) <= Was(skip, i, l)
  PROVE  j <= l
BY DEF Was

LEMMA CarriesInOrder ==
  ASSUME CallsOK', InOrder, NEW i \in Nat, NEW gone, NEW sent, Carries(calls', i, gone, sent),
         \A c \in sent : c.answer = "none", CallsOK
  PROVE  InOrder'
<1>1. PICK skip \in BOOLEAN :
        \A j \in DOMAIN calls' :
          \/ Was(skip, i, j) \in DOMAIN calls \ gone /\ Like(calls'[j], calls[Was(skip, i, j)])
          \/ calls'[j] \in sent /\ \A l \in DOMAIN calls' : l <= j
  BY DEF Carries
<1>2. DOMAIN calls' \subseteq Nat /\ DOMAIN calls \subseteq Nat
  <2>1. DOMAIN calls' = 1..Len(calls') /\ Len(calls') \in Nat
    BY CallAt DEF CallsOK
  <2> QED  BY <2>1, CallsFacts
<1>3. ASSUME NEW j \in DOMAIN calls', NEW l \in DOMAIN calls', j < l,
             calls'[j].op \in Asks, AnsweredAsk(calls'[l]), calls'[j].answer = "none"
      PROVE  FALSE
  <2>1. Was(skip, i, l) \in DOMAIN calls /\ Like(calls'[l], calls[Was(skip, i, l)])
    BY <1>1, <1>3 DEF AnsweredAsk
  <2>2. ~(l <= j)
    BY <1>2, <1>3
  <2>3. Was(skip, i, j) \in DOMAIN calls /\ Like(calls'[j], calls[Was(skip, i, j)])
    BY <1>1, <1>3, <2>2
  <2>4. Was(skip, i, j) < Was(skip, i, l)
    <3>1. ~(Was(skip, i, l) <= Was(skip, i, j))
      BY <1>2, <2>2, WasOrder
    <3> QED  BY <1>2, <2>1, <2>3, <3>1
  <2> QED  BY <1>3, <2>1, <2>3, <2>4 DEF InOrder, Like, AnsweredAsk
<1> QED  BY <1>3 DEF InOrder

\* What is traced by a request that stays under way is traced after the step.
LEMMA CarriesTraced ==
  ASSUME CallsOK, CallsOK', NEW i \in Nat, NEW gone, NEW sent, Carries(calls', i, gone, sent),
         \A c \in sent : c.answer = "none", NEW h
  PROVE  /\ \A k \in DOMAIN calls \ gone : \E j \in DOMAIN calls' : Like(calls'[j], calls[k])
         /\ \A k \in DOMAIN calls \ gone :
              /\ AnsweredAsk(calls[k]) /\ calls[k].answer = "granted" /\ calls[k].grant = h
              /\ \A j \in DOMAIN calls : AnsweredAsk(calls[j]) => j <= k
              => LastSays(h)'
         /\ (\A k \in DOMAIN calls \ gone : ~AnsweredAsk(calls[k])) =>
              \A j \in DOMAIN calls' : ~AnsweredAsk(calls'[j])
<1>1. PICK skip \in BOOLEAN :
        /\ \A j \in DOMAIN calls' :
             \/ Was(skip, i, j) \in DOMAIN calls \ gone /\ Like(calls'[j], calls[Was(skip, i, j)])
             \/ calls'[j] \in sent /\ \A l \in DOMAIN calls' : l <= j
        /\ \A k \in DOMAIN calls \ gone :
             \E j \in DOMAIN calls' : Was(skip, i, j) = k /\ Like(calls'[j], calls[k])
  BY DEF Carries
<1>2. DOMAIN calls' \subseteq Nat /\ DOMAIN calls \subseteq Nat
  <2>1. DOMAIN calls' = 1..Len(calls') /\ Len(calls') \in Nat
    BY CallAt DEF CallsOK
  <2> QED  BY <2>1, CallsFacts
<1>3. ASSUME NEW k \in DOMAIN calls \ gone, AnsweredAsk(calls[k]),
             calls[k].answer = "granted", calls[k].grant = h,
             \A j \in DOMAIN calls : AnsweredAsk(calls[j]) => j <= k
      PROVE  LastSays(h)'
  <2>1. PICK j \in DOMAIN calls' : Was(skip, i, j) = k /\ Like(calls'[j], calls[k])
    BY <1>1
  <2>2. ASSUME NEW l \in DOMAIN calls', AnsweredAsk(calls'[l])
        PROVE  l <= j
    <3>1. Was(skip, i, l) \in DOMAIN calls /\ Like(calls'[l], calls[Was(skip, i, l)])
      BY <1>1, <2>2 DEF AnsweredAsk
    <3>2. Was(skip, i, l) <= Was(skip, i, j)
      BY <1>3, <2>1, <2>2, <3>1 DEF Like, AnsweredAsk
    <3> QED  BY <1>2, <3>2, WasOrder
  <2>3. AnsweredAsk(calls'[j]) /\ calls'[j].answer = "granted" /\ calls'[j].grant = h
    BY <1>3, <2>1 DEF Like, AnsweredAsk
  <2> QED  BY <2>2, <2>3 DEF LastSays
<1>4. ASSUME \A k \in DOMAIN calls \ gone : ~AnsweredAsk(calls[k]),
             NEW j \in DOMAIN calls', AnsweredAsk(calls'[j])
      PROVE  FALSE
  BY <1>1, <1>4 DEF Like, AnsweredAsk
<1> QED  BY <1>1, <1>3, <1>4

LEMMA KeepsTraced ==
  ASSUME CallsOK, CallsOK', NEW i \in Nat, NEW gone, NEW sent, Carries(calls', i, gone, sent),
         \A c \in sent : c.answer = "none", NEW h,
         \A k \in DOMAIN calls \cap gone :
           calls[k].op = "release" /\ (calls[k].answer # "none" \/ h \notin calls[k].names),
         Traced(h), InHand(h) => Traced(h)' \/ (lastGrant' = h /\ standing' \in {"held", "unclaimed"}),
         pass = "clearing" => Traced(h)'
  PROVE  Traced(h)'
<1>1. \A k \in DOMAIN calls \ gone : \E j \in DOMAIN calls' : Like(calls'[j], calls[k])
  BY CarriesTraced
<1>2. \A k \in DOMAIN calls : AnsweredAsk(calls[k]) => k \notin gone
  BY DEF AnsweredAsk, Asks
<1>3. CASE ErrorOut
  <2>1. PICK k \in DOMAIN calls : AnsweredAsk(calls[k]) /\ calls[k].answer \in {"retry", "final"}
    BY <1>3 DEF ErrorOut
  <2>2. ErrorOut'
    BY <1>1, <1>2, <2>1 DEF ErrorOut, AnsweredAsk, Like
  <2> QED  BY <2>2 DEF Traced
<1>4. CASE LastSays(h)
  <2>1. PICK k \in DOMAIN calls :
          /\ AnsweredAsk(calls[k]) /\ calls[k].answer = "granted" /\ calls[k].grant = h
          /\ \A j \in DOMAIN calls : AnsweredAsk(calls[j]) => j <= k
    BY <1>4 DEF LastSays
  <2>2. LastSays(h)'
    BY <1>2, <2>1, CarriesTraced
  <2> QED  BY <2>2 DEF Traced
<1>5. CASE InHand(h) /\ lastGrant' = h /\ standing' \in {"held", "unclaimed"}
  <2>1. \A k \in DOMAIN calls \ gone : ~AnsweredAsk(calls[k])
    BY <1>5 DEF InHand
  <2>2. \A j \in DOMAIN calls' : ~AnsweredAsk(calls'[j])
    BY <2>1, CarriesTraced
  <2>3. InHand(h)'
    BY <1>5, <2>2 DEF InHand
  <2> QED  BY <2>3 DEF Traced
<1>6. CASE ReleaseOut(h)
  <2>1. PICK k \in DOMAIN calls : calls[k].op = "release" /\ calls[k].answer = "none" /\ h \in calls[k].names
    BY <1>6 DEF ReleaseOut
  <2>2. PICK j \in DOMAIN calls' : Like(calls'[j], calls[k])
    BY <1>1, <2>1
  <2>3. ReleaseOut(h)'
    BY <2>1, <2>2 DEF ReleaseOut, Like
  <2> QED  BY <2>3 DEF Traced
<1>7. CASE AskOut
  <2>1. PICK k \in DOMAIN calls : calls[k].op \in Asks /\ calls[k].answer = "none"
    BY <1>7 DEF AskOut
  <2>2. PICK j \in DOMAIN calls' : Like(calls'[j], calls[k])
    BY <1>1, <2>1 DEF Asks
  <2>3. AskOut'
    BY <2>1, <2>2 DEF AskOut, Like
  <2> QED  BY <2>3 DEF Traced
<1> QED  BY <1>3, <1>4, <1>5, <1>6, <1>7 DEF Traced

LEMMA InitO == Init => OInv
BY DEF Init, OInv, InOrder, AllMatter, None

\* Nothing is sent, and the session and the pass are where they were.
LEMMA KeptO ==
  ASSUME IInv, OInv, UNCHANGED <<calls, slot, doubt, standing, lastGrant>>,
         pass = "clearing" => pass' = "clearing"
  PROVE  OInv'
<1>1. InOrder' /\ (AllMatter => AllMatter')
  BY DEF OInv, InOrder, AllMatter
<1>2. ASSUME Traced(slot) PROVE Traced(slot)'
  <2>1. ErrorOut' = ErrorOut /\ AskOut' = AskOut
    BY DEF ErrorOut, AskOut
  <2>2. (LastSays(slot) => LastSays(slot)') /\ (InHand(slot) => InHand(slot)')
        /\ (ReleaseOut(slot) => ReleaseOut(slot)')
    BY DEF LastSays, InHand, ReleaseOut
  <2> QED  BY <1>2, <2>1, <2>2 DEF Traced
<1> QED  BY <1>1, <1>2 DEF OInv

\* The slot is given back or set aside.
LEMMA LeftO ==
  ASSUME IInv, OInv, CallsOK', NEW c \in GoodCalls, NEW sent, sent = <<>> \/ (sent = <<c>> /\ Room),
         calls' = Watched \o sent, c.op = "release", c.names = {lastGrant} \cap Handles,
         c.answer = "none", c.waits,
         standing \in {"held", "unclaimed"} /\ lastGrant # None => sent = <<c>>,
         pass # "clearing", UNCHANGED <<slot, doubt>>
  PROVE  OInv'
<1>0. CallsOK /\ VarsOK
  BY DEF IInv, TInv
<1>1. Carries(calls', 0, {}, {c}) /\ \A b \in {c} : b.answer = "none"
  BY <1>0, CarriesLeft
<1>2. InOrder'
  BY <1>0, <1>1, CarriesInOrder DEF OInv
<1>3. ASSUME AllMatter PROVE AllMatter'
  <2>1. ASSUME NEW j \in DOMAIN calls'
        PROVE  calls'[j].waits /\ (calls'[j].op \in Asks => calls'[j].cur \/ calls'[j].watched)
    <3>1. CASE j \in DOMAIN calls /\ calls'[j] = Left(calls[j])
      <4>1. calls[j] \in GoodCalls /\ calls[j].waits
        BY <1>0, <1>3, <3>1, CallsFacts DEF AllMatter
      <4>2. PICK b \in GoodCalls : b = calls[j]
        BY <4>1
      <4>3. Left(b).waits = b.waits /\ Left(b).op = b.op /\ (Left(b).watched <=> b.op \in Asks /\ b.waits)
        BY LeftCall
      <4> QED  BY <3>1, <4>1, <4>2, <4>3
    <3>2. CASE calls'[j] = c
      BY <3>2 DEF Asks
    <3> QED  BY <1>0, <3>1, <3>2, LeftCalls
  <2> QED  BY <2>1 DEF AllMatter
<1>4. ASSUME slot # None, Traced(slot) PROVE Traced(slot)'
  <2>1. PICK h : h = slot
    OBVIOUS
  <2>2. InHand(h) => Traced(h)'
    <3>1. SUFFICES ASSUME InHand(h) PROVE ReleaseOut(h)'
      BY DEF Traced
    <3>2. sent = <<c>> /\ h \in c.names
      BY <1>0, <1>4, <2>1, <3>1 DEF InHand, VarsOK
    <3>3. Len(calls) + 1 \in DOMAIN calls' /\ calls'[Len(calls) + 1] = c
      BY <1>0, <3>2, LeftCalls
    <3> QED  BY <3>2, <3>3 DEF ReleaseOut
  <2>3. Traced(h)'
    BY <1>0, <1>1, <1>4, <2>1, <2>2, KeepsTraced
  <2> QED  BY <2>1, <2>3 DEF Traced, ErrorOut, LastSays, InHand, ReleaseOut, AskOut
<1> QED  BY <1>2, <1>3, <1>4 DEF OInv

LEMMA TracedSlot == ASSUME NEW h, slot' = h, Traced(h)' PROVE Traced(slot)'
BY DEF Traced, ErrorOut, LastSays, InHand, ReleaseOut, AskOut

\* A new epoch: nothing of before is left to be told, or an answer is missing.
LEMMA EpochO ==
  ASSUME IInv, OInv, CallsOK', NEW c \in GoodCalls, NEW sent, sent = <<>> \/ (sent = <<c>> /\ Room),
         calls' = Orphaned \o sent, c.op \in Asks, c.cur, c.waits, c.answer = "none", UNCHANGED slot,
         doubt' = ((doubt \/ \E i \in DOMAIN calls : IsAsk(i) /\ calls[i].waits) /\ ~Quiet),
         \/ sent = <<c>>
         \/ pass' = "clearing"
         \/ standing \notin {"held", "unclaimed"} /\ pass # "clearing"
  PROVE  OInv'
<1>0. CallsOK
  BY DEF IInv, TInv
<1>1. Carries(calls', 0, {}, {c}) /\ \A b \in {c} : b.answer = "none"
  BY <1>0, CarriesEpoch
<1>2. InOrder'
  BY <1>0, <1>1, CarriesInOrder DEF OInv
<1>3. ASSUME ~doubt' PROVE AllMatter'
  <2>1. ASSUME NEW j \in DOMAIN calls'
        PROVE  calls'[j].waits /\ (calls'[j].op \in Asks => calls'[j].cur \/ calls'[j].watched)
    <3>1. CASE j \in DOMAIN calls /\ calls'[j] = Over(calls[j])
      <4>1. ~Quiet
        BY <3>1 DEF Quiet
      <4>2. calls[j] \in GoodCalls /\ calls[j].waits /\ calls[j].op \notin Asks
        BY <1>0, <1>3, <3>1, <4>1, CallsFacts DEF OInv, AllMatter, IsAsk
      <4>3. PICK b \in GoodCalls : b = calls[j]
        BY <4>2
      <4>4. Over(b).waits = b.waits /\ Over(b).op = b.op
        BY OverCall
      <4> QED  BY <3>1, <4>2, <4>3, <4>4
    <3>2. CASE calls'[j] = c
      BY <3>2
    <3> QED  BY <1>0, <3>1, <3>2, EpochCalls
  <2> QED  BY <2>1 DEF AllMatter
<1>4. ASSUME ~doubt', slot' # None PROVE Traced(slot)'
  <2>1. ~Quiet /\ ~doubt /\ slot # None
    BY <1>4 DEF Quiet
  <2>2. CASE sent = <<c>>
    <3>1. Len(calls) + 1 \in DOMAIN calls' /\ calls'[Len(calls) + 1] = c
      BY <1>0, <2>2, EpochCalls
    <3> QED  BY <3>1 DEF Traced, AskOut
  <2>3. CASE pass' = "clearing"
    BY <2>3 DEF Traced
  <2>4. CASE standing \notin {"held", "unclaimed"} /\ pass # "clearing"
    <3>1. PICK h : h = slot
      OBVIOUS
    <3>2. Traced(h) /\ ~InHand(h)
      BY <2>1, <2>4, <3>1 DEF OInv, InHand
    <3>3. Traced(h)'
      BY <1>0, <1>1, <2>4, <3>2, KeepsTraced
    <3> QED  BY <3>1, <3>3, TracedSlot
  <2> QED  BY <2>2, <2>3, <2>4
<1> QED  BY <1>2, <1>3, <1>4 DEF OInv

\* One more request: of an ask something comes, a release changes nothing yet.
LEMMA MoreO ==
  ASSUME IInv, OInv, CallsOK', NEW c \in GoodCalls, Room, calls' = Append(calls, c),
         c.answer = "none", c.waits, c.cur, UNCHANGED <<slot, doubt>>,
         c.op \in Asks \/ UNCHANGED <<standing, lastGrant, pass>>
  PROVE  OInv'
<1>0. CallsOK /\ calls \in Seq(GoodCalls)
  BY CallsFacts DEF IInv, TInv
<1>1. Carries(calls', 0, {}, {c}) /\ \A b \in {c} : b.answer = "none"
  <2>1. \A k \in DOMAIN calls : k \in DOMAIN calls /\ Like(calls[k], calls[k])
    BY DEF Like
  <2>2. Carries(calls, 0, {}, {})
    BY <2>1, CarriesInPlace
  <2>3. Carries(Append(calls, c), 0, {}, {c})
    BY <1>0, <2>2, CarriesMore
  <2> QED  BY <2>3
<1>2. InOrder'
  BY <1>0, <1>1, CarriesInOrder DEF OInv
<1>3. ASSUME AllMatter PROVE AllMatter'
  BY <1>0, <1>3, MoreCalls DEF AllMatter
<1>4. ASSUME slot # None, Traced(slot) PROVE Traced(slot)'
  <2>1. CASE c.op \in Asks
    <3>1. Len(calls) + 1 \in DOMAIN calls' /\ calls'[Len(calls) + 1] = c
      BY <1>0, MoreCalls
    <3> QED  BY <2>1, <3>1 DEF Traced, AskOut
  <2>2. CASE UNCHANGED <<standing, lastGrant, pass>>
    <3>1. PICK h : h = slot
      OBVIOUS
    <3>2. Traced(h) /\ (InHand(h) => lastGrant' = h /\ standing' \in {"held", "unclaimed"})
          /\ (pass = "clearing" => Traced(h)')
      BY <1>4, <2>2, <3>1 DEF InHand, Traced
    <3>3. Traced(h)'
      BY <1>0, <1>1, <3>2, KeepsTraced
    <3> QED  BY <3>1, <3>3, TracedSlot
  <2> QED  BY <2>1, <2>2
<1> QED  BY <1>2, <1>3, <1>4 DEF OInv

LEMMA GiveBackStepO ==
  ASSUME IInv, OInv, CallsOK', "hasty" \notin Races,
         Fail \/ Disconnect \/ StopReconnecting \/ (\E b \in BOOLEAN : Drop(b))
  PROVE  OInv'
<1>0. TInv /\ ScreenOK
  BY DEF IInv
<1>1. pass # "clearing" /\ UNCHANGED <<slot, doubt>>
  BY DEF Fail, Disconnect, StopReconnecting, Drop
<1>2. ASSUME NEW torn \in BOOLEAN, GiveBack(torn) PROVE OInv'
  <2>1. PICK c \in GoodCalls : \E sent \in {<<>>, <<c>>} :
           /\ calls' = Watched \o sent /\ (sent = <<c>> => Room /\ lastGrant # None)
           /\ c.op = "release" /\ c.names = {lastGrant} \cap Handles /\ c.answer = "none" /\ c.waits
           /\ standing \in {"held", "unclaimed"} /\ lastGrant # None => sent = <<c>>
    BY <1>0, <1>2, GiveBackCalls
  <2>2. PICK sent \in {<<>>, <<c>>} :
           /\ calls' = Watched \o sent /\ (sent = <<c>> => Room /\ lastGrant # None)
           /\ c.op = "release" /\ c.names = {lastGrant} \cap Handles /\ c.answer = "none" /\ c.waits
           /\ standing \in {"held", "unclaimed"} /\ lastGrant # None => sent = <<c>>
    BY <2>1
  <2>3. sent = <<>> \/ (sent = <<c>> /\ Room)
    BY <2>2
  <2> QED  BY <1>1, <2>2, <2>3, LeftO
<1>3. CASE UNCHANGED <<memory, giving, calls>>
  BY <1>1, <1>3, KeptO DEF memory
<1> QED  BY <1>2, <1>3 DEF Fail, Disconnect, StopReconnecting, Drop, GiveBackIfAny

LEMMA SetAsideO == ASSUME IInv, OInv, CallsOK', SetAside PROVE OInv'
<1>0. TInv
  BY DEF IInv
<1>1. PICK c \in GoodCalls : \E sent \in {<<>>, <<c>>} :
           /\ calls' = Watched \o sent /\ (sent = <<c>> => Room /\ lastGrant # None)
           /\ c.op = "release" /\ c.names = {lastGrant} \cap Handles /\ c.answer = "none" /\ c.waits
           /\ lastGrant # None => sent = <<c>>
  BY <1>0, SetAsideCalls
<1>2. PICK sent \in {<<>>, <<c>>} :
           /\ calls' = Watched \o sent /\ (sent = <<c>> => Room /\ lastGrant # None)
           /\ c.op = "release" /\ c.names = {lastGrant} \cap Handles /\ c.answer = "none" /\ c.waits
           /\ lastGrant # None => sent = <<c>>
  BY <1>1
<1>3. sent = <<>> \/ (sent = <<c>> /\ Room)
  BY <1>2
<1>4. pass # "clearing" /\ UNCHANGED <<slot, doubt>>
  BY DEF SetAside
<1> QED  BY <1>2, <1>3, <1>4, LeftO

LEMMA SendsReleaseO ==
  ASSUME IInv, OInv, CallsOK', (\E b \in BOOLEAN : TornDown(b)) \/ RetryRelease
  PROVE  OInv'
<1>0. LastOK /\ VarsOK
  BY DEF IInv, TInv
<1>1. UNCHANGED <<pass, standing, lastGrant, slot, doubt>>
  BY DEF TornDown, RetryRelease, memory, screen
<1>2. CASE UNCHANGED calls
  BY <1>1, <1>2, KeptO
<1>3. ASSUME NEW role \in {"second", "timer1", "timer2"}, Room, again # "no",
             calls' = Append(calls, Release(role, {lastGrant}))
      PROVE  OInv'
  <2> DEFINE c == Release(role, {lastGrant})
  <2>1. {lastGrant} \in SUBSET Handles /\ role \in Roles \ AskRoles
    BY <1>0, <1>3, NamesLast DEF Roles, AskRoles, LastOK
  <2>2. c \in GoodCalls /\ c.cur /\ c.waits /\ c.answer = "none"
    BY <2>1, ReleaseCall
  <2>3. calls' = Append(calls, c)
    BY <1>3
  <2> HIDE DEF c
  <2> QED  BY <1>1, <1>3, <2>2, <2>3, MoreO
<1>4. \/ UNCHANGED calls
      \/ /\ Room /\ again # "no"
         /\ \E role \in {"second", "timer1", "timer2"} :
              calls' = Append(calls, Release(role, {lastGrant}))
  BY DEF TornDown, RetryRelease
<1> QED  BY <1>2, <1>3, <1>4

LEMMA ConnectO ==
  ASSUME IInv, OInv, CallsOK', (\E b \in BOOLEAN : Connect(b)) \/ Reconnect
  PROVE  OInv'
<1>0. TInv
  BY DEF IInv
<1>1. UNCHANGED slot /\ pass # "clearing"
  BY DEF Connect, Reconnect
<1>2. CASE UNCHANGED <<memory, giving, calls, doubt>>
  BY <1>1, <1>2, KeptO DEF memory
<1>3. ASSUME NEW takeover \in BOOLEAN, StartsClaiming(takeover)
      PROVE  OInv'
  <2>1. PICK c \in GoodCalls : \E sent \in {<<>>, <<c>>} :
           /\ calls' = Orphaned \o sent /\ (sent = <<c>> => Room)
           /\ c.op \in Asks /\ c.cur /\ c.waits /\ c.answer = "none"
           /\ (sent = <<>> /\ pass' = "clearing") \/ sent = <<c>>
    BY <1>0, <1>3, ClaimingCalls
  <2>2. PICK sent \in {<<>>, <<c>>} :
           /\ calls' = Orphaned \o sent /\ (sent = <<c>> => Room)
           /\ c.op \in Asks /\ c.cur /\ c.waits /\ c.answer = "none"
           /\ (sent = <<>> /\ pass' = "clearing") \/ sent = <<c>>
    BY <2>1
  <2>3. sent = <<>> \/ (sent = <<c>> /\ Room)
    BY <2>2
  <2>4. doubt' = ((doubt \/ \E i \in DOMAIN calls : IsAsk(i) /\ calls[i].waits) /\ ~Quiet)
    BY <1>3 DEF StartsClaiming, NewEpoch
  <2> QED  BY <1>1, <2>2, <2>3, <2>4, EpochO
<1> QED  BY <1>2, <1>3 DEF Connect, Reconnect

LEMMA CheckStandingO == ASSUME IInv, OInv, CallsOK', CheckStanding PROVE OInv'
<1>0. TInv
  BY DEF IInv
<1>1. PICK c \in GoodCalls :
           /\ calls' = Orphaned \o <<c>> /\ Room
           /\ c.op \in Asks /\ c.cur /\ c.waits /\ c.answer = "none"
  BY <1>0, CheckingCalls
<1>2. UNCHANGED slot /\ doubt' = ((doubt \/ \E i \in DOMAIN calls : IsAsk(i) /\ calls[i].waits) /\ ~Quiet)
  BY DEF CheckStanding, NewEpoch
<1>3. \E sent : sent = <<c>>
  OBVIOUS
<1>4. PICK sent : sent = <<c>>
  BY <1>3
<1>5. calls' = Orphaned \o sent
  BY <1>1, <1>4
<1> QED  BY <1>1, <1>2, <1>4, <1>5, EpochO

LEMMA AppendsAskO ==
  ASSUME IInv, OInv, CallsOK', ClaimBeforeDial \/ Poll \/ (\E b \in BOOLEAN : Land(b))
  PROVE  OInv'
<1>0. VarsOK
  BY DEF IInv, TInv
<1>1. UNCHANGED <<standing, lastGrant, slot, doubt>>
  BY DEF ClaimBeforeDial, Poll, Land, memory
<1>2. ASSUME NEW op \in Asks, NEW role \in AskRoles, NEW chosen \in BOOLEAN, Room,
             calls' = Append(calls, Call(op, role, {}, chosen))
      PROVE  OInv'
  <2> DEFINE c == Call(op, role, {}, chosen)
  <2>1. c \in GoodCalls /\ c.op \in Asks /\ c.cur /\ c.waits /\ c.answer = "none"
    BY AskCall
  <2>2. calls' = Append(calls, c)
    BY <1>2
  <2> HIDE DEF c
  <2> QED  BY <1>1, <1>2, <2>1, <2>2, MoreO
<1>3. CASE ClaimBeforeDial
  <2>1. owes \in BOOLEAN /\ Room /\ calls' = Append(calls, Call("claim", "dial", {}, owes))
    BY <1>0, <1>3 DEF ClaimBeforeDial, VarsOK
  <2> QED  BY <1>2, <2>1 DEF Asks, AskRoles
<1>4. CASE Poll
  <2>1. /\ Room /\ calls' = Append(calls, Call(PollOp, "poll", {}, PollOp = "claim" /\ owes))
        /\ standing \in {"held", "unclaimed", "uncounted"}
    BY <1>4 DEF Poll
  <2>2. PollOp \in Asks /\ (PollOp = "claim" /\ owes) \in BOOLEAN
    BY <2>1 DEF PollOp, Asks
  <2>3. PICK op \in Asks, chosen \in BOOLEAN : calls' = Append(calls, Call(op, "poll", {}, chosen))
    BY <2>1, <2>2
  <2> QED  BY <1>2, <2>1, <2>3 DEF AskRoles
<1>5. CASE \E b \in BOOLEAN : Land(b)
  <2>1. pass # "clearing"
    BY <1>5 DEF Land
  <2>2. CASE UNCHANGED calls
    BY <1>1, <2>1, <2>2, KeptO
  <2>3. CASE owes \in BOOLEAN /\ Room /\ calls' = Append(calls, Call("claim", "late", {}, owes))
    BY <1>2, <2>3 DEF Asks, AskRoles
  <2> QED  BY <1>0, <1>5, <2>2, <2>3 DEF Land, VarsOK
<1> QED  BY <1>3, <1>4, <1>5

LEMMA ScreenStepsO ==
  ASSUME IInv, OInv, CallsOK', \/ Recheck \/ Age \/ RetryTeardown \/ ConfirmDown \/ Rival
                               \/ \E b \in BOOLEAN : AttemptEnds(b)
  PROVE  OInv'
<1>1. UNCHANGED <<calls, standing, lastGrant, doubt>> /\ (pass = "clearing" => pass' = "clearing")
  <2>1. CASE Recheck
    BY <2>1 DEF Recheck, memory
  <2>2. CASE Age
    BY <2>2 DEF Age, screen
  <2>3. CASE RetryTeardown \/ ConfirmDown
    BY <2>3 DEF RetryTeardown, ConfirmDown, memory
  <2>4. CASE Rival
    BY <2>4 DEF Rival, memory, screen
  <2>5. CASE \E b \in BOOLEAN : AttemptEnds(b)
    BY <2>5 DEF AttemptEnds, memory
  <2> QED  BY <2>1, <2>2, <2>3, <2>4, <2>5
<1>2. CASE UNCHANGED slot
  BY <1>1, <1>2, KeptO
<1>3. CASE slot' = None
  <2>1. InOrder' /\ (AllMatter => AllMatter')
    BY <1>1 DEF OInv, InOrder, AllMatter
  <2> QED  BY <1>1, <1>3, <2>1 DEF OInv
<1> QED  BY <1>2, <1>3 DEF Recheck, Age, RetryTeardown, ConfirmDown, Rival, AttemptEnds

LEMMA AdoptO == ASSUME IInv, OInv, CallsOK', NEW b \in BOOLEAN, Adopt(b) PROVE OInv'
<1>0. CallsOK /\ ScreenOK
  BY DEF IInv, TInv
<1>1. CASE b
  <2>1. doubt' = TRUE /\ calls' = [i \in DOMAIN calls |-> [Orphaned[i] EXCEPT !.waits = FALSE]]
    BY <1>1 DEF Adopt
  <2>2. ASSUME NEW j \in DOMAIN calls' PROVE j \in DOMAIN calls /\ Like(calls'[j], calls[j])
    <3>1. j \in DOMAIN calls /\ calls'[j] = [Over(calls[j]) EXCEPT !.waits = FALSE]
      BY <1>0, <2>1, OrphanedCalls
    <3>2. calls[j] \in GoodCalls
      BY <1>0, <3>1, CallsFacts
    <3> QED  BY <3>1, <3>2, ForgottenCall DEF Like
  <2>3. InOrder'
    BY <2>2 DEF OInv, InOrder, Like, AnsweredAsk
  <2> QED  BY <2>1, <2>3 DEF OInv
<1>2. CASE ~b
  <2>1. /\ calls' = Orphaned \o <<>> /\ UNCHANGED slot /\ pass = "rest"
        /\ doubt' = ((doubt \/ \E i \in DOMAIN calls : IsAsk(i) /\ calls[i].waits) /\ ~Quiet)
        /\ ~target \/ standing \in {"none", "displaced"}
    BY <1>2 DEF Adopt, NewEpoch
  <2>2. PICK c \in GoodCalls : c.op \in Asks /\ c.cur /\ c.waits /\ c.answer = "none"
    BY AskCall DEF Asks, AskRoles
  <2>3. \E sent : sent = <<>>
    OBVIOUS
  <2>4. PICK sent : sent = <<>>
    BY <2>3
  <2>5. calls' = Orphaned \o sent
    BY <2>1, <2>4
  <2>6. standing \notin {"held", "unclaimed"}
    BY <1>0, <2>1 DEF ScreenOK
  <2> QED  BY <2>1, <2>2, <2>4, <2>5, <2>6, EpochO
<1> QED  BY <1>1, <1>2

LEMMA SignOutO == ASSUME SignOut PROVE OInv'
<1>1. calls' = <<>> /\ slot' = None /\ DOMAIN <<>> = {}
  BY DEF SignOut
<1> QED  BY <1>1 DEF OInv, InOrder, AllMatter

\* A request is answered where it stands.
LEMMA AnsweredInOrder ==
  ASSUME CallsOK, InOrder, NEW i \in DOMAIN calls, calls[i].answer = "none",
         calls[i].op \in Asks => \A k \in 1..i-1 : calls[k].op \in Asks => calls[k].answer # "none",
         DOMAIN calls' = DOMAIN calls, calls'[i].op = calls[i].op, calls'[i].answer # "none",
         \A j \in DOMAIN calls : j # i => calls'[j] = calls[j]
  PROVE  InOrder' /\ (calls[i].op \in Asks => \A j \in DOMAIN calls' : AnsweredAsk(calls'[j]) => j <= i)
<1>0. Len(calls) \in Nat /\ DOMAIN calls = 1..Len(calls)
  BY CallsFacts
<1>1. ASSUME NEW j \in DOMAIN calls', AnsweredAsk(calls'[j]), calls[i].op \in Asks, ~(j <= i)
      PROVE  FALSE
  <2>1. i < j /\ calls'[j] = calls[j]
    BY <1>0, <1>1
  <2> QED  BY <1>1, <2>1 DEF InOrder
<1>2. ASSUME NEW j \in DOMAIN calls', NEW l \in DOMAIN calls', j < l, calls'[j].op \in Asks,
             AnsweredAsk(calls'[l]), calls'[j].answer = "none"
      PROVE  FALSE
  <2>1. j # i /\ calls'[j] = calls[j]
    BY <1>2
  <2>2. CASE l = i
    <3>1. calls[i].op \in Asks /\ j \in 1..i-1
      BY <1>0, <1>2, <2>2 DEF AnsweredAsk
    <3> QED  BY <1>2, <2>1, <3>1
  <2>3. CASE l # i
    BY <1>2, <2>1, <2>3 DEF InOrder
  <2> QED  BY <2>2, <2>3
<1> QED  BY <1>1, <1>2 DEF InOrder

LEMMA WithoutInOrder ==
  ASSUME CallsOK, CallsOK', InOrder, NEW i \in DOMAIN calls, calls' = Without(i)
  PROVE  InOrder'
<1>1. Carries(Without(i), i, {i}, {}) /\ i \in Nat
  BY CarriesWithout, NatIndex
<1>2. Carries(calls', i, {i}, {})
  BY <1>1
<1> QED  BY <1>1, <1>2, CarriesInOrder

LEMMA ServesO ==
  ASSUME IInv, OInv, CallsOK', "overtake" \notin Races, NEW i, Serves(i)
  PROVE  OInv'
<1>0. TInv /\ CallsOK
  BY DEF IInv, TInv
<1>1. /\ i \in DOMAIN calls /\ calls[i].answer = "none" /\ i \in Nat
      /\ UNCHANGED <<standing, lastGrant, pass, doubt>>
      /\ calls[i].op \in Asks => \A k \in 1..i-1 : calls[k].op \in Asks => calls[k].answer # "none"
  <2>1. /\ i \in DOMAIN calls /\ calls[i].answer = "none" /\ InTurn(i)
        /\ UNCHANGED <<memory, giving, screen, doubt>>
    BY <1>0, ServeSteps
  <2>2. i \in Nat
    BY <1>0, <2>1, NatIndex
  <2>3. UNCHANGED <<standing, lastGrant, pass, doubt>>
    BY <2>1 DEF memory, screen
  <2>4. calls[i].op \in Asks => \A k \in 1..i-1 : calls[k].op \in Asks => calls[k].answer # "none"
    BY <2>1 DEF InTurn, IsAsk
  <2> QED  BY <2>1, <2>2, <2>3, <2>4
<1>2. CASE ~calls[i].waits /\ calls' = Without(i)
  <2>1. InOrder'
    BY <1>0, <1>1, <1>2, WithoutInOrder DEF OInv
  <2>2. doubt
    BY <1>1, <1>2 DEF OInv, AllMatter
  <2> QED  BY <1>1, <2>1, <2>2 DEF OInv
<1>3. CASE /\ calls[i].op = "release" /\ slot' = (IF slot \in calls[i].names THEN None ELSE slot)
           /\ DOMAIN calls' = DOMAIN calls /\ \A j \in DOMAIN calls : j # i => calls'[j] = calls[j]
           /\ calls'[i].op = "release" /\ calls[i].waits /\ calls'[i].waits /\ calls'[i].answer = "released"
  <2>1. InOrder'
    BY <1>0, <1>1, <1>3, AnsweredInOrder DEF OInv
  <2>2. AllMatter => AllMatter'
    BY <1>1, <1>3 DEF AllMatter, Asks
  <2>3. ASSUME slot' # None, slot # None => Traced(slot)  PROVE Traced(slot)'
    <3>1. PICK h : h = slot
      OBVIOUS
    <3>2. slot' = h /\ h \notin calls[i].names /\ Traced(h)
      BY <1>3, <2>3, <3>1
    <3>3. \A j \in DOMAIN calls : AnsweredAsk(calls'[j]) <=> AnsweredAsk(calls[j])
      BY <1>3 DEF AnsweredAsk, Asks
    <3>4. \A j \in DOMAIN calls : calls[j].op \in Asks => calls'[j] = calls[j]
      BY <1>3 DEF Asks
    <3>5. ErrorOut => ErrorOut'
      BY <1>3, <3>3, <3>4 DEF ErrorOut, AnsweredAsk
    <3>6. LastSays(h) => LastSays(h)'
      BY <1>3, <3>3, <3>4 DEF LastSays, AnsweredAsk
    <3>7. InHand(h) => InHand(h)'
      BY <1>1, <1>3, <3>3 DEF InHand
    <3>8. ReleaseOut(h) => ReleaseOut(h)'
      <4>1. SUFFICES ASSUME ReleaseOut(h) PROVE ReleaseOut(h)'
        OBVIOUS
      <4>2. PICK k \in DOMAIN calls : calls[k].op = "release" /\ calls[k].answer = "none" /\ h \in calls[k].names
        BY <4>1 DEF ReleaseOut
      <4>3. calls'[k] = calls[k]
        BY <1>3, <3>2, <4>2
      <4> QED  BY <1>3, <4>2, <4>3 DEF ReleaseOut
    <3>9. AskOut => AskOut'
      BY <1>3, <3>4 DEF AskOut
    <3>10. Traced(h)'
      BY <1>1, <3>2, <3>5, <3>6, <3>7, <3>8, <3>9 DEF Traced
    <3> QED  BY <3>2, <3>10, TracedSlot
  <2> QED  BY <1>1, <2>1, <2>2, <2>3 DEF OInv
<1>4. ASSUME calls[i].op \in Asks, NEW a \in AskAnswers, NEW h \in Handles \cup {None},
             \/ a = "granted" /\ slot' = h
             \/ a # "granted" /\ slot' = None
             \/ a \in {"retry", "final"} /\ slot' = slot,
             DOMAIN calls' = DOMAIN calls, \A j \in DOMAIN calls : j # i => calls'[j] = calls[j],
             calls'[i].op = calls[i].op, calls'[i].cur = calls[i].cur,
             calls'[i].watched = calls[i].watched, calls'[i].waits, calls[i].waits,
             calls'[i].answer = a, calls'[i].grant = h
      PROVE  OInv'
  <2>0. a # "none"
    BY <1>4 DEF AskAnswers
  <2>1. InOrder' /\ \A j \in DOMAIN calls' : AnsweredAsk(calls'[j]) => j <= i
    BY <1>0, <1>1, <1>4, <2>0, AnsweredInOrder DEF OInv
  <2>2. AllMatter => AllMatter'
    BY <1>1, <1>4 DEF AllMatter
  <2>3. AnsweredAsk(calls'[i])
    BY <1>4, <2>0 DEF AnsweredAsk
  <2>4. ASSUME slot' # None PROVE Traced(slot)'
    <3>1. CASE a = "granted" /\ slot' = h
      <4>1. LastSays(h)'
        BY <1>1, <1>4, <2>1, <2>3, <3>1 DEF LastSays
      <4>2. Traced(h)'
        BY <4>1 DEF Traced
      <4> QED  BY <3>1, <4>2, TracedSlot
    <3>2. CASE a \in {"retry", "final"}
      <4>1. ErrorOut'
        BY <1>1, <1>4, <2>3, <3>2 DEF ErrorOut
      <4> QED  BY <4>1 DEF Traced
    <3> QED  BY <1>4, <2>4, <3>1, <3>2
  <2> QED  BY <1>1, <2>1, <2>2, <2>4 DEF OInv
<1>5. CASE calls[i].op = "release" /\ slot' = (IF slot \in calls[i].names THEN None ELSE slot)
           /\ Answered(i, "released", None)
  <2>1. \/ ~calls[i].waits /\ calls' = Without(i)
        \/ /\ calls[i].waits /\ DOMAIN calls' = DOMAIN calls
           /\ \A j \in DOMAIN calls : j # i => calls'[j] = calls[j]
           /\ calls'[i].op = "release" /\ calls'[i].waits /\ calls'[i].answer = "released"
    BY <1>0, <1>1, <1>5, ReleasedCalls
  <2> QED  BY <1>2, <1>3, <1>5, <2>1
<1>6. ASSUME calls[i].op \in Asks, NEW a \in AskAnswers, NEW h \in Handles \cup {None},
             Answered(i, a, h), a = "granted" => h \in Handles,
             \/ a = "granted" /\ slot' = h
             \/ a # "granted" /\ slot' = None
             \/ a \in {"retry", "final"} /\ slot' = slot
      PROVE  OInv'
  <2>1. \/ ~calls[i].waits /\ calls' = Without(i)
        \/ /\ calls[i].waits /\ DOMAIN calls' = DOMAIN calls
           /\ \A j \in DOMAIN calls : j # i => calls'[j] = calls[j]
           /\ calls'[i].op = calls[i].op /\ calls'[i].cur = calls[i].cur
           /\ calls'[i].watched = calls[i].watched
           /\ calls'[i].waits /\ calls'[i].answer = a /\ calls'[i].grant = h
    BY <1>0, <1>1, <1>6, AnsweredCalls
  <2> QED  BY <1>2, <1>4, <1>6, <2>1
<1> QED  BY <1>0, <1>5, <1>6, ServeSteps

LEMMA ReleasesO ==
  ASSUME IInv, OInv, CallsOK', NEW i, SettleRelease(i) \/ TimeOutRelease(i) \/ Lose(i)
  PROVE  OInv'
<1>0. CallsOK
  BY DEF IInv, TInv
<1>1. i \in DOMAIN calls /\ i \in Nat /\ UNCHANGED <<standing, lastGrant, pass, slot>>
  <2>1. i \in DOMAIN calls /\ UNCHANGED <<memory, screen, slot>>
    BY DEF SettleRelease, TimeOutRelease, Lose
  <2> QED  BY <1>0, <2>1, NatIndex DEF memory, screen
<1>2. CASE calls' = Without(i)
  <2>1. InOrder'
    BY <1>0, <1>1, <1>2, WithoutInOrder DEF OInv
  <2>2. CASE doubt'
    BY <2>1, <2>2 DEF OInv
  <2>3. CASE ~doubt' /\ ~doubt
    <3>1. calls[i].waits
      BY <1>1, <2>3 DEF OInv, AllMatter
    <3>2. calls[i].answer = "released"
      BY <2>3, <3>1 DEF SettleRelease, TimeOutRelease, Lose
    <3>3. calls[i].op = "release"
      <4>1. calls[i] \in GoodCalls
        BY <1>0, <1>1, CallsFacts
      <4>2. GoodCall(calls[i]) /\ calls[i].op \in Asks \cup {"release"}
        BY <4>1, CallFields
      <4> QED  BY <3>2, <4>2 DEF GoodCall, AskAnswers
    <3>4. AllMatter'
      <4>1. ASSUME NEW j \in DOMAIN calls' PROVE \E k \in DOMAIN calls : calls'[j] = calls[k]
        BY <1>0, <1>1, <1>2, FewerCalls
      <4> QED  BY <2>3, <4>1 DEF OInv, AllMatter
    <3>5. ASSUME slot' # None PROVE Traced(slot)'
      <4>1. PICK h : h = slot
        OBVIOUS
      <4>2. Traced(h) /\ (InHand(h) => lastGrant' = h /\ standing' \in {"held", "unclaimed"})
            /\ (pass = "clearing" => Traced(h)')
        BY <1>1, <2>3, <3>5, <4>1 DEF OInv, InHand, Traced
      <4>3. Carries(Without(i), i, {i}, {})
        BY <1>0, <1>1, CarriesWithout
      <4>4. Carries(calls', i, {i}, {})
        BY <1>2, <4>3
      <4>5. Traced(h)'
        BY <1>0, <1>1, <3>2, <3>3, <4>2, <4>4, KeepsTraced
      <4> QED  BY <1>1, <4>1, <4>5, TracedSlot
    <3> QED  BY <2>1, <3>4, <3>5 DEF OInv
  <2>4. doubt' \/ (~doubt' /\ ~doubt)
    BY DEF SettleRelease, TimeOutRelease, Lose
  <2> QED  BY <2>2, <2>3, <2>4
<1>3. CASE calls' = [calls EXCEPT ![i].waits = FALSE] /\ doubt'
  <2> DEFINE d == [calls[i] EXCEPT !.waits = FALSE]
  <2>1. d.op = calls[i].op /\ d.answer = calls[i].answer
    <3>1. PICK c \in GoodCalls : c = calls[i]
      BY <1>0, <1>1, CallsFacts
    <3> QED  BY <3>1 DEF GoodCalls, CallShape
  <2>2. DOMAIN calls' = DOMAIN calls /\ \A j \in DOMAIN calls : calls'[j] = IF j = i THEN d ELSE calls[j]
    <3>1. Len(calls) \in Nat /\ DOMAIN calls = 1..Len(calls)
      BY <1>0, CallsFacts
    <3>2. calls' = [calls EXCEPT ![i] = d]
      BY <1>3
    <3> HIDE DEF d
    <3> QED  BY <1>0, <1>1, <3>1, <3>2, CallsFacts
  <2> HIDE DEF d
  <2>3. \A j \in DOMAIN calls' : j \in DOMAIN calls /\ calls'[j].op = calls[j].op /\ calls'[j].answer = calls[j].answer
    BY <2>1, <2>2
  <2>4. InOrder'
    BY <2>3 DEF OInv, InOrder, AnsweredAsk
  <2> QED  BY <1>3, <2>4 DEF OInv
<1> QED  BY <1>2, <1>3 DEF SettleRelease, TimeOutRelease, Lose

\* What is left of the requests after an answer, and the release they end in.
LEMMA AnswersInOrder ==
  ASSUME TInv, CallsOK', InOrder, NEW i \in DOMAIN calls, NEW a \in AskAnswers,
         NEW g \in Handles \cup {None}, a = "granted" => g \in Handles,
         NEW rest \in Seq(GoodCalls), Len(rest) <= MaxCalls, Collected(i, a, g, rest),
         NEW gone, Carries(rest, i, gone, {})
  PROVE  /\ InOrder'
         /\ \E sent : /\ Carries(calls', i, gone, sent)
                      /\ \A c \in sent : c.answer = "none" /\ c.waits /\ c.op = "release" /\ ~c.watched
<1>0. CallsOK /\ i \in Nat
  BY NatIndex DEF TInv
<1>1. \/ calls' = rest
      \/ \E c \in GoodCalls : /\ calls' = Append(rest, c) /\ c.answer = "none" /\ c.waits
                              /\ c.op = "release" /\ ~c.watched
  BY CollectedCalls
<1>2. CASE calls' = rest
  <2>1. Carries(calls', i, gone, {})
    BY <1>2
  <2>2. InOrder'
    BY <1>0, <2>1, CarriesInOrder
  <2> QED  BY <2>1, <2>2
<1>3. ASSUME NEW c \in GoodCalls, calls' = Append(rest, c), c.answer = "none", c.waits,
             c.op = "release", ~c.watched
      PROVE  InOrder' /\ Carries(calls', i, gone, {c})
  <2>1. Carries(Append(rest, c), i, gone, {c})
    BY CarriesMore
  <2>2. Carries(calls', i, gone, {c}) /\ \A b \in {c} : b.answer = "none"
    BY <1>3, <2>1
  <2>3. InOrder'
    BY <1>0, <2>2, CarriesInOrder
  <2> QED  BY <2>2, <2>3
<1>4. CASE \E c \in GoodCalls : /\ calls' = Append(rest, c) /\ c.answer = "none" /\ c.waits
                                /\ c.op = "release" /\ ~c.watched
  <2>1. PICK c \in GoodCalls : /\ calls' = Append(rest, c) /\ c.answer = "none" /\ c.waits
                               /\ c.op = "release" /\ ~c.watched
    BY <1>4
  <2>2. InOrder' /\ Carries(calls', i, gone, {c})
    BY <1>3, <2>1
  <2>3. \A b \in {c} : b.answer = "none" /\ b.waits /\ b.op = "release" /\ ~b.watched
    BY <2>1
  <2> QED  BY <2>2, <2>3
<1> QED  BY <1>1, <1>2, <1>4

\* Nobody waits any longer for an answer.
LEMMA TimeOutO == ASSUME IInv, OInv, CallsOK', NEW i, TimeOut(i) PROVE OInv'
<1>0. TInv /\ CallsOK
  BY DEF IInv, TInv
<1>1. i \in DOMAIN calls /\ i \in Nat /\ doubt'
  <2>1. i \in DOMAIN calls /\ doubt'
    BY DEF TimeOut
  <2> QED  BY <1>0, <2>1, NatIndex
<1>2. PICK rest \in Seq(GoodCalls) :
        /\ Len(rest) <= MaxCalls /\ Answer(i, "retry", None, rest)
        /\ \/ rest = Without(i)
           \/ /\ calls[i].answer = "none" /\ DOMAIN rest = DOMAIN calls
              /\ \A j \in DOMAIN calls : j # i => rest[j] = calls[j]
              /\ rest[i].names = calls[i].names /\ rest[i].op = calls[i].op
              /\ rest[i].answer = "none" /\ rest[i].grant = calls[i].grant
  BY <1>0, RestAfterTimeOut
<1>3. Collected(i, "retry", None, rest) /\ "retry" \in AskAnswers
  BY <1>2 DEF Answer, AskAnswers
<1>4. \E gone : Carries(rest, i, gone, {})
  <2>1. CASE rest = Without(i)
    <3>1. Carries(Without(i), i, {i}, {})
      BY <1>0, <1>1, CarriesWithout
    <3> QED  BY <2>1, <3>1
  <2>2. CASE /\ calls[i].answer = "none" /\ DOMAIN rest = DOMAIN calls
             /\ \A j \in DOMAIN calls : j # i => rest[j] = calls[j]
             /\ rest[i].names = calls[i].names /\ rest[i].op = calls[i].op
             /\ rest[i].answer = "none" /\ rest[i].grant = calls[i].grant
    <3>1. \A k \in DOMAIN calls : k \in DOMAIN rest /\ Like(rest[k], calls[k])
      BY <1>1, <2>2 DEF Like
    <3>2. Carries(rest, i, {}, {})
      BY <2>2, <3>1, CarriesInPlace
    <3> QED  BY <3>2
  <2> QED  BY <1>2, <2>1, <2>2
<1>5. InOrder'
  BY <1>0, <1>1, <1>2, <1>3, <1>4, AnswersInOrder DEF OInv
<1> QED  BY <1>1, <1>5 DEF OInv

\* An answer in time: what it grants is in hand, or will be released with the
\* last answer giveBack waits for.
LEMMA SettleO ==
  ASSUME IInv, OInv, CallsOK', "overtake" \notin Races, NEW i, Settle(i)
  PROVE  OInv'
<1>0. TInv /\ CallsOK /\ AwaitOK
  BY DEF IInv, TInv
<1>1. /\ i \in DOMAIN calls /\ calls[i] \in GoodCalls /\ calls[i].op \in Asks
      /\ calls[i].answer \in AskAnswers /\ calls[i].grant \in Handles \cup {None}
      /\ calls[i].answer = "granted" => calls[i].grant \in Handles
      /\ calls[i].cur => Awaited(calls[i])
      /\ Without(i) \in Seq(GoodCalls) /\ Len(Without(i)) <= MaxCalls
      /\ Answer(i, calls[i].answer, calls[i].grant, Without(i))
  <2>1. i \in DOMAIN calls
    BY DEF Settle
  <2>2. Without(i) \in Seq(GoodCalls) /\ Len(Without(i)) < MaxCalls
    BY <1>0, <2>1, FewerCalls
  <2>3. Len(Without(i)) <= MaxCalls
    BY <2>2, CallAt, CallsAssumption
  <2>4. /\ calls[i] \in GoodCalls /\ calls[i].op \in Asks
        /\ calls[i].answer \in AskAnswers /\ calls[i].grant \in Handles \cup {None}
        /\ calls[i].answer = "granted" => calls[i].grant \in Handles
        /\ calls[i].cur => Awaited(calls[i])
        /\ Answer(i, calls[i].answer, calls[i].grant, Without(i))
    BY <1>0, RestAfterSettle
  <2> QED  BY <2>1, <2>2, <2>3, <2>4
<1>2. PICK a \in AskAnswers, g \in Handles \cup {None} : a = calls[i].answer /\ g = calls[i].grant
  BY <1>1
<1>3. /\ a = "granted" => g \in Handles
      /\ Answer(i, a, g, Without(i)) /\ Collected(i, a, g, Without(i))
      /\ AnsweredAsk(calls[i]) /\ i \in Nat
      /\ UNCHANGED slot /\ doubt' = (doubt \/ a \in {"retry", "final"})
      /\ \A j \in 1..i-1 : ~(calls[j].op \in Asks /\ calls[j].waits)
  <2>1. Answer(i, a, g, Without(i)) /\ (a = "granted" => g \in Handles)
    BY <1>1, <1>2
  <2>2. AnsweredAsk(calls[i]) /\ i \in Nat
    BY <1>0, <1>1, NatIndex DEF AnsweredAsk, AskAnswers
  <2>3. doubt' = (doubt \/ a \in {"retry", "final"})
        /\ \A j \in 1..i-1 : ~(calls[j].op \in Asks /\ calls[j].waits)
    BY <1>2 DEF Settle, IsAsk
  <2>4. Collected(i, a, g, Without(i)) /\ UNCHANGED slot
    BY <2>1 DEF Answer
  <2> QED  BY <2>1, <2>2, <2>3, <2>4
<1>4. Carries(Without(i), i, {i}, {})
  BY <1>0, <1>1, CarriesWithout
<1>5. /\ InOrder'
      /\ \E sent : /\ Carries(calls', i, {i}, sent)
                   /\ \A c \in sent : c.answer = "none" /\ c.waits /\ c.op = "release" /\ ~c.watched
  BY <1>0, <1>1, <1>3, <1>4, AnswersInOrder DEF OInv
<1>6. PICK sent : /\ Carries(calls', i, {i}, sent)
                  /\ \A c \in sent : c.answer = "none" /\ c.waits /\ c.op = "release" /\ ~c.watched
  BY <1>5
<1>7. \A k \in DOMAIN calls \ {i} : \E j \in DOMAIN calls' : Like(calls'[j], calls[k])
  BY <1>0, <1>3, <1>6, CarriesTraced
<1>8. SUFFICES ASSUME ~doubt' PROVE AllMatter' /\ (slot' # None => Traced(slot)')
  BY <1>5 DEF OInv
<1>9. ~doubt /\ AllMatter /\ a \notin {"retry", "final"}
  BY <1>3, <1>8 DEF OInv
<1>10. AllMatter'
  <2>1. ASSUME NEW j \in DOMAIN Without(i) PROVE \E k \in DOMAIN calls : Without(i)[j] = calls[k]
    BY <1>0, <1>1, FewerCalls
  <2>2. ASSUME NEW j \in DOMAIN calls'
        PROVE  \/ \E k \in DOMAIN calls : calls'[j] = calls[k]
               \/ calls'[j].waits /\ calls'[j].op = "release"
    <3>1. CASE calls' = Without(i)
      BY <2>1, <3>1
    <3>2. ASSUME NEW c \in GoodCalls, calls' = Append(Without(i), c), c.waits, c.op = "release"
          PROVE  \/ \E k \in DOMAIN calls : calls'[j] = calls[k]
                 \/ calls'[j].waits /\ calls'[j].op = "release"
      <4>1. PICK rest \in Seq(GoodCalls) : rest = Without(i)
        BY <1>1
      <4>2. /\ DOMAIN calls' = 1..Len(rest) + 1 /\ calls'[Len(rest) + 1] = c
            /\ \A l \in DOMAIN rest : calls'[l] = rest[l]
        BY <3>2, <4>1, AppendCall
      <4>3. Len(rest) \in Nat /\ DOMAIN rest = 1..Len(rest)
        BY CallAt
      <4>4. j \in DOMAIN rest \/ j = Len(rest) + 1
        BY <4>2, <4>3
      <4> QED  BY <2>1, <3>2, <4>1, <4>2, <4>4
    <3>3. PICK rest \in Seq(GoodCalls) : rest = Without(i)
      BY <1>1
    <3>4. TInv /\ i \in DOMAIN calls /\ (a = "granted" => g \in Handles)
          /\ Len(rest) <= MaxCalls /\ Collected(i, a, g, rest)
      BY <1>0, <1>1, <1>3, <3>3
    <3>5. calls' = rest \/ \E c \in GoodCalls : calls' = Append(rest, c) /\ c.waits /\ c.op = "release"
      BY <3>4, CollectedCalls
    <3> QED  BY <3>1, <3>2, <3>3, <3>5
  <2> QED  BY <1>9, <2>2 DEF AllMatter, Asks
<1>11. ASSUME slot # None PROVE Traced(slot)'
  <2>1. PICK h : h = slot
    OBVIOUS
  <2>2. slot' = h /\ Traced(h)
    BY <1>3, <1>9, <1>11, <2>1 DEF OInv
  <2>3. \A j \in DOMAIN calls : AnsweredAsk(calls[j]) => ~(j < i)
    <3>1. DOMAIN calls \subseteq Nat \ {0}
      BY <1>0, CallsFacts
    <3> QED  BY <1>3, <1>9, <3>1 DEF AllMatter, AnsweredAsk
  <2>4. CASE ErrorOut
    <3>1. PICK k \in DOMAIN calls : AnsweredAsk(calls[k]) /\ calls[k].answer \in {"retry", "final"}
      BY <2>4 DEF ErrorOut
    <3>2. k # i
      BY <1>2, <1>9, <3>1
    <3>3. ErrorOut'
      BY <1>7, <3>1, <3>2 DEF ErrorOut, AnsweredAsk, Like
    <3> QED  BY <3>3 DEF Traced, ErrorOut
  <2>5. CASE LastSays(h)
    <3>1. PICK k \in DOMAIN calls :
            /\ AnsweredAsk(calls[k]) /\ calls[k].answer = "granted" /\ calls[k].grant = h
            /\ \A j \in DOMAIN calls : AnsweredAsk(calls[j]) => j <= k
      BY <2>5 DEF LastSays
    <3>2. CASE k # i
      <4>1. LastSays(h)'
        BY <1>0, <1>3, <1>6, <3>1, <3>2, CarriesTraced
      <4>2. Traced(h)'
        BY <4>1 DEF Traced
      <4> QED  BY <2>2, <4>2, TracedSlot
    <3>3. CASE k = i
      <4>1. a = "granted" /\ g = h
        BY <1>2, <3>1, <3>3
      <4>2. \A j \in DOMAIN calls \ {i} : ~AnsweredAsk(calls[j])
        <5>1. DOMAIN calls \subseteq Nat
          BY <1>0, CallsFacts
        <5> QED  BY <1>3, <2>3, <3>1, <3>3, <5>1
      <4>3. \A j \in DOMAIN calls' : ~AnsweredAsk(calls'[j])
        BY <1>0, <1>3, <1>6, <4>2, CarriesTraced
      <4>4. CASE calls[i].cur
        <5>1. Applied(calls[i].op, a, g)
          BY <1>3, <4>4 DEF Answer
        <5>2. lastGrant' = h /\ standing' = "held"
          BY <4>1, <5>1 DEF Applied
        <5>3. InHand(h)'
          BY <4>3, <5>2 DEF InHand
        <5>4. Traced(h)'
          BY <5>3 DEF Traced
        <5> QED  BY <2>2, <5>4, TracedSlot
      <4>5. CASE ~calls[i].cur
        <5>1. calls[i].watched
          BY <1>1, <1>9, <4>5 DEF AllMatter
        <5>2. \/ \E j \in DOMAIN calls' : calls'[j].watched
              \/ \E j \in DOMAIN calls' : /\ calls'[j].op = "release" /\ g \in calls'[j].names
                                          /\ calls'[j].answer = "none"
          BY <1>0, <1>1, <1>3, <4>1, <5>1, CollectedCalls
        <5>3. ASSUME NEW j \in DOMAIN calls', calls'[j].watched PROVE AskOut'
          <6>1. calls'[j] \in GoodCalls
            BY CallAt DEF CallsOK
          <6>2. PICK b \in GoodCalls : b = calls'[j]
            BY <6>1
          <6>3. b.op \in Asks
            BY <5>3, <6>2, CallFields DEF GoodCall
          <6>4. calls'[j].answer = "none"
            BY <4>3, <6>2, <6>3 DEF AnsweredAsk
          <6> QED  BY <6>2, <6>3, <6>4 DEF AskOut
        <5>4. Traced(h)'
          BY <4>1, <5>2, <5>3 DEF Traced, ReleaseOut
        <5> QED  BY <2>2, <5>4, TracedSlot
      <4> QED  BY <4>4, <4>5
    <3> QED  BY <3>2, <3>3
  <2>6. CASE InHand(h)
    BY <1>1, <1>3, <2>6 DEF InHand
  <2>7. CASE ReleaseOut(h)
    <3>1. PICK k \in DOMAIN calls : calls[k].op = "release" /\ calls[k].answer = "none" /\ h \in calls[k].names
      BY <2>7 DEF ReleaseOut
    <3>2. PICK j \in DOMAIN calls' : Like(calls'[j], calls[k])
      BY <1>1, <1>7, <3>1 DEF Asks
    <3>3. ReleaseOut(h)'
      BY <3>1, <3>2 DEF ReleaseOut, Like
    <3>4. Traced(h)'
      BY <3>3 DEF Traced
    <3> QED  BY <2>2, <3>4, TracedSlot
  <2>8. CASE AskOut
    <3>1. PICK k \in DOMAIN calls : calls[k].op \in Asks /\ calls[k].answer = "none"
      BY <2>8 DEF AskOut
    <3>2. PICK j \in DOMAIN calls' : Like(calls'[j], calls[k])
      BY <1>3, <1>7, <3>1 DEF AnsweredAsk
    <3>3. AskOut'
      BY <3>1, <3>2 DEF AskOut, Like
    <3> QED  BY <3>3 DEF Traced, AskOut
  <2>9. CASE pass = "clearing"
    <3>1. ~calls[i].cur
      BY <1>0, <1>1, <2>9 DEF AwaitOK, Awaiting
    <3>2. UNCHANGED screen
      BY <1>3, <3>1 DEF Answer
    <3> QED  BY <2>9, <3>2 DEF Traced, screen
  <2> QED  BY <2>2, <2>4, <2>5, <2>6, <2>7, <2>8, <2>9 DEF Traced
<1> QED  BY <1>3, <1>10, <1>11

LEMMA NextO ==
  ASSUME "overtake" \notin Races, "hasty" \notin Races
  PROVE  IInv /\ OInv /\ IInv' /\ [Next]_vars => OInv'
<1>1. ASSUME IInv, OInv, UNCHANGED vars PROVE OInv'
  BY <1>1, KeptO DEF vars, memory, screen
<1> DEFINE Good == IInv /\ OInv /\ CallsOK'
<1>2. ASSUME Good, Passes PROVE OInv'
  BY <1>2, AppendsAskO, CheckStandingO, GiveBackStepO DEF Passes
<1>3. ASSUME Good, Presses PROVE OInv'
  BY <1>3, ConnectO, GiveBackStepO, SendsReleaseO, AdoptO, ScreenStepsO, SetAsideO, SignOutO DEF Presses
<1>4. ASSUME Good, Poll \/ Age \/ RetryRelease \/ RetryTeardown \/ ConfirmDown \/ Rival PROVE OInv'
  BY <1>4, AppendsAskO, ScreenStepsO, SendsReleaseO
<1>5. ASSUME Good, NEW i, Serves(i) \/ Answers(i) \/ Lose(i) PROVE OInv'
  BY <1>5, ServesO, SettleO, TimeOutO, ReleasesO DEF Answers
<1>6. IInv' => CallsOK'
  BY DEF IInv, TInv
<1> QED  BY <1>1, <1>2, <1>3, <1>4, <1>5, <1>6 DEF Next

\* Once a Disconnect and everything it sent has been answered the server does
\* not count this device, whatever was under way when it was pressed: giveBack
\* watches every claim and renewal still out, and the last answer it waits for
\* releases what they were granted.  Two schedules are excluded, and each is one
\* the code has no answer to: a server that takes two claims of this device in
\* another order than they were sent, and a connect that is stopped in the half
\* second it gives a release to go first.
THEOREM OffIsBack ==
  ASSUME "overtake" \notin Races, "hasty" \notin Races
  PROVE  Spec => []OffIsGivenBack
<1>1. IInv /\ OInv /\ [Next]_vars => OInv'
  BY NextI, NextO
<1>2. Spec => []OInv
  BY InitO, Inductive, <1>1, PTL DEF Spec
<1>3. IInv /\ OInv => OffIsGivenBack
  <2>1. SUFFICES ASSUME IInv, OInv, ~target, calls = <<>>, ~doubt, slot # None PROVE FALSE
    BY DEF OffIsGivenBack
  <2>2. DOMAIN calls = {}
    BY <2>1
  <2>3. InHand(slot) \/ pass = "clearing"
    BY <2>1, <2>2 DEF OInv, Traced, ErrorOut, LastSays, ReleaseOut, AskOut
  <2>4. standing = "none" /\ pass = "rest"
    BY <2>1 DEF IInv, ScreenOK
  <2> QED  BY <2>3, <2>4 DEF InHand
<1> QED  BY Inductive, <1>2, <1>3, PTL

=============================================================================
