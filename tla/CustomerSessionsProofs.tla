----------------------- MODULE CustomerSessionsProofs -----------------------
(***************************************************************************)
(* Proofs about CustomerSessions, for any apps, requests and bounds: the   *)
(* kinds of things and the one renewal for any races, what is refused and  *)
(* what stays current without the race "change".                           *)
(***************************************************************************)
EXTENDS CustomerSessions, TLAPS

\* What a request has is of the kind it is meant to be.
RequestOK(q) ==
  /\ q \in RequestStates
  /\ q.pc \in AtServer \cup {"changed"} => q.got \in Pairs

RequestsOK ==
  /\ request \in [Requests -> RequestStates]
  /\ \A r \in Requests : request[r].pc \in AtServer \cup {"changed"} => request[r].got \in Pairs

ServerOK ==
  /\ version \in 0..MaxVersion
  /\ active \in BOOLEAN
  /\ row \in [Sessions -> {"none", "live", "revoked"}]
  /\ newest \in [Sessions -> MaybePairs]
  /\ ending \in BOOLEAN

AppsOK ==
  /\ screen \in [Apps -> {"login", "main", "ending"}]
  /\ stored \in [Apps -> MaybePairs]
  /\ renewing \in [Apps -> Requests \cup {None}]

SignInsOK ==
  /\ signIn \in [Apps -> SignInStates]
  /\ \A a \in Apps : signIn[a].pc = "opened" => signIn[a].pair \in Pairs

\* The parts of TypeOK.
LEMMA Parts ==
  TypeOK <=> ServerOK /\ AppsOK /\ SignInsOK /\ RequestsOK /\ excused \subseteq Sessions
BY DEF TypeOK, ServerOK, AppsOK, SignInsOK, RequestsOK

\* NoPair is nobody's pair, and the kinds contain what they should.
LEMMA Kinds ==
  /\ NoPair \in MaybePairs /\ NoPair \in Found
  /\ Pairs \subseteq MaybePairs /\ MaybePairs \subseteq Found
  /\ None \notin Sessions
  /\ \A p \in Pairs : p.sid \in Sessions /\ p.ver \in 0..MaxVersion /\ p.n \in Nat
  /\ \A p \in Found : p.sid \in Sessions \cup {None} /\ p.ver \in 0..MaxVersion /\ p.n \in Nat
  /\ \A p \in MaybePairs : p # NoPair => p \in Pairs
BY BoundsAssumption DEF NoPair, Pair, Pairs, MaybePairs, Found, None, Sessions

\* What issueTokenPair makes of a session and a version is a pair.
LEMMA PairKind ==
  ASSUME NEW s \in Sessions, NEW v \in 0..MaxVersion, NEW n \in Nat \ {0}
  PROVE  Pair(s, v, n) \in Pairs
BY DEF Pair, Pairs

\* A request nobody makes is one.
LEMMA FreeKind == RequestOK(Free)
BY Kinds DEF RequestOK, RequestStates, Free, AtServer

\* One request changes, and is as it should be after that.
LEMMA SetKind ==
  ASSUME RequestsOK, NEW r \in Requests, NEW q, RequestOK(q), Set(r, q)
  PROVE  RequestsOK'
BY DEF RequestsOK, RequestOK, Set

\* Every request of an app changes as a function says.
LEMMA SettleKind ==
  ASSUME RequestsOK, NEW S \in SUBSET Requests, NEW f, 
         request' = [r \in Requests |-> IF r \in S THEN f[r] ELSE request[r]],
         \A r \in S : RequestOK(f[r])
  PROVE  RequestsOK'
BY DEF RequestsOK, RequestOK

\* A request that goes on to another step, with what it has or with something new.
LEMMA Onward ==
  ASSUME NEW q, RequestOK(q), NEW c \in {"free", "sent"} \cup Renewing \cup Changing
  PROVE  /\ (c \in AtServer \cup {"changed"} => q.got \in Pairs) => RequestOK([q EXCEPT !.pc = c])
         /\ \A g \in Found :
              (c \in AtServer \cup {"changed"} => g \in Pairs)
                => RequestOK([q EXCEPT !.pc = c, !.got = g])
BY DEF RequestOK, RequestStates

LEMMA AgainKind ==
  ASSUME RequestsOK, NEW r \in Requests, NEW p \in Pairs
  PROVE  RequestOK(Again(r, p))
BY Kinds DEF RequestsOK, RequestOK, RequestStates, Again, AtServer, MaybePairs

LEMMA Each ==
  ASSUME RequestsOK, NEW r \in Requests
  PROVE  RequestOK(request[r]) /\ request[r].used \in MaybePairs /\ request[r].got \in Found
BY DEF RequestsOK, RequestOK, RequestStates

LEMMA ClearedKind ==
  ASSUME RequestsOK, NEW r \in Requests
  PROVE  RequestOK(Cleared(r)) /\ \A g \in Found : RequestOK([Cleared(r) EXCEPT !.got = g])
BY DEF RequestsOK, RequestOK, RequestStates, Cleared, Renewing, AtServer

LEMMA AbandonedKind ==
  ASSUME RequestsOK, NEW r \in Requests
  PROVE  RequestOK(Abandoned(r))
BY FreeKind DEF RequestsOK, RequestOK, RequestStates, Abandoned, AtServer

LEMMA UntoldKind ==
  ASSUME RequestsOK, NEW S \in SUBSET Requests
  PROVE  UntoldOf(S) \subseteq Sessions
BY Kinds DEF RequestsOK, UntoldOf

LEMMA ToldKind ==
  ASSUME RequestsOK, NEW r \in Requests, NEW p \in Pairs
  PROVE  RequestOK(Told(r, p))
BY Each, FreeKind, Kinds, Onward DEF Told, Changing

LEMMA RevokedKind ==
  ASSUME ServerOK, NEW kept
  PROVE  Revoked(kept) \in [Sessions -> {"none", "live", "revoked"}]
BY DEF ServerOK, Revoked

-----------------------------------------------------------------------------
(* The app's steps.                                                         *)

\* A request goes out.
LEMMA SendType ==
  ASSUME TypeOK, NEW r \in Requests, NEW op \in {"read", "change", "logout"}, Send(r, op)
  PROVE  RequestsOK'
<1>1. RequestsOK /\ stored[Of(r)] \in MaybePairs
  BY Parts, OfAssumption DEF AppsOK
<1>2. RequestOK([Free EXCEPT !.op = op, !.pc = "sent", !.used = stored[Of(r)]])
  BY <1>1, FreeKind DEF RequestOK, RequestStates, AtServer
<1> QED
  BY <1>1, <1>2, SetKind DEF Send

LEMMA AskType ==
  ASSUME TypeOK, NEW r \in Requests, Ask(r) \/ ChangePassword(r)
  PROVE  TypeOK'
<1>1. RequestsOK'
  BY SendType DEF Ask, ChangePassword
<1>2. UNCHANGED <<server, screen, stored, renewing, signIn, excused>>
  BY DEF Ask, ChangePassword
<1> QED
  BY <1>1, <1>2 DEF TypeOK, RequestsOK, server

LEMMA SignOutType ==
  ASSUME TypeOK, NEW r \in Requests, SignOut(r)
  PROVE  TypeOK'
<1>1. RequestsOK'
  BY SendType DEF SignOut
<1>2. screen' \in [Apps -> {"login", "main", "ending"}]
  BY OfAssumption DEF TypeOK, SignOut
<1> QED
  BY <1>1, <1>2 DEF TypeOK, RequestsOK, server, SignOut

LEMMA EndSessionType ==
  ASSUME TypeOK, NEW a \in Apps, EndSession(a)
  PROVE  TypeOK'
BY Kinds DEF TypeOK, EndSession, server

LEMMA AnswerType ==
  ASSUME TypeOK, NEW r \in Requests, Answer(r)
  PROVE  TypeOK'
<1>1. RequestsOK'
  BY Parts, FreeKind, SetKind DEF Answer
<1> QED
  BY <1>1 DEF TypeOK, RequestsOK, server, Answer

LEMMA UnauthorizedType ==
  ASSUME TypeOK, NEW r \in Requests, Unauthorized(r)
  PROVE  TypeOK'
<1>1. RequestsOK
  BY Parts
<1>2. RequestOK([request[r] EXCEPT !.pc = "waiting"]) /\ RequestOK([request[r] EXCEPT !.pc = "reading"])
  BY <1>1, Each, Onward DEF Renewing, AtServer
<1>3. RequestsOK'
  BY <1>1, <1>2, FreeKind, SetKind DEF Unauthorized
<1> QED
  BY <1>3 DEF TypeOK, RequestsOK, server, Unauthorized

LEMMA RenewSessionType ==
  ASSUME TypeOK, NEW r \in Requests, RenewSession(r)
  PROVE  TypeOK'
<1>1. RequestsOK /\ Of(r) \in Apps
  BY Parts, OfAssumption
<1>2. RequestOK([request[r] EXCEPT !.pc = "waiting"]) /\ RequestOK([request[r] EXCEPT !.pc = "asking"])
  BY <1>1, Each, Onward DEF Renewing, AtServer
<1>3. ASSUME stored[Of(r)] # NoPair PROVE RequestOK(Again(r, stored[Of(r)]))
  BY <1>1, <1>3, AgainKind, Kinds DEF TypeOK
<1>4. RequestsOK'
  BY <1>1, <1>2, <1>3, SetKind DEF RenewSession
<1>5. renewing' \in [Apps -> Requests \cup {None}]
  BY <1>1 DEF TypeOK, RenewSession
<1> QED
  BY <1>4, <1>5 DEF TypeOK, RequestsOK, server, RenewSession

\* A renewal ends: the app's requests that waited for it become something else.
LEMMA SettledKind ==
  ASSUME TypeOK, NEW a \in Apps, NEW f,
         request' = [r \in Requests |->
                       IF r \in Mine(a) /\ (r = renewing[a] \/ request[r].pc = "waiting") THEN f[r] ELSE request[r]],
         \A r \in Requests : RequestOK(f[r])
  PROVE  RequestsOK'
<1> DEFINE S == {r \in Requests : r \in Mine(a) /\ (r = renewing[a] \/ request[r].pc = "waiting")}
<1>1. request' = [r \in Requests |-> IF r \in S THEN f[r] ELSE request[r]]
  OBVIOUS
<1> QED
  BY <1>1, Parts, SettleKind

LEMMA RefreshTokensType ==
  ASSUME TypeOK, NEW a \in Apps, RefreshTokens(a)
  PROVE  TypeOK'
<1> DEFINE r0 == renewing[a]
<1>1. RequestsOK /\ r0 \in Requests
  BY Parts DEF AppsOK, RefreshTokens
<1>2. RequestsOK' /\ renewing' \in [Apps -> Requests \cup {None}]
  <2>1. CASE Settle(a, Cleared)
    <3> DEFINE f == [r \in Requests |-> Cleared(r)]
    <3>1. \A r \in Requests : RequestOK(f[r])
      BY <1>1, ClearedKind
    <3>2. request' = [r \in Requests |->
                       IF r \in Mine(a) /\ (r = renewing[a] \/ request[r].pc = "waiting") THEN f[r] ELSE request[r]]
      BY <2>1 DEF Settle
    <3>3. RequestsOK'
      BY <3>1, <3>2, SettledKind
    <3> QED
      BY <2>1, <3>3 DEF Settle, TypeOK
  <2>2. CASE /\ stored[a] # NoPair
             /\ Set(r0, [request[r0] EXCEPT !.pc = "refresh", !.got = stored[a]])
             /\ UNCHANGED renewing
    <3>1. stored[a] \in Pairs
      BY <2>2, Kinds DEF TypeOK
    <3>2. RequestOK([request[r0] EXCEPT !.pc = "refresh", !.got = stored[a]])
      BY <1>1, <3>1, Each, Onward, Kinds DEF Renewing
    <3> QED
      BY <1>1, <2>2, <3>2, SetKind DEF TypeOK
  <2> QED
    BY <2>1, <2>2 DEF RefreshTokens
<1> QED
  BY <1>2 DEF TypeOK, RequestsOK, server, RefreshTokens

LEMMA RenewedType ==
  ASSUME TypeOK, NEW a \in Apps, Renewed(a)
  PROVE  TypeOK'
<1> DEFINE p == request[renewing[a]].got
           f == [r \in Requests |-> Again(r, p)]
<1>1. RequestsOK /\ renewing[a] \in Requests
  BY Parts DEF AppsOK, Renewed
<1>2. p \in Pairs
  BY <1>1 DEF Renewed, RequestsOK, AtServer
<1>3. \A r \in Requests : RequestOK(f[r])
  BY <1>1, <1>2, AgainKind
<1>4. request' = [r \in Requests |->
                    IF r \in Mine(a) /\ (r = renewing[a] \/ request[r].pc = "waiting") THEN f[r] ELSE request[r]]
  BY DEF Renewed, Settle
<1>5. RequestsOK'
  BY <1>3, <1>4, SettledKind
<1>6. stored' \in [Apps -> MaybePairs]
  BY <1>2, Kinds DEF TypeOK, Renewed
<1> QED
  BY <1>5, <1>6 DEF TypeOK, RequestsOK, server, Renewed, Settle

LEMMA RefusedType ==
  ASSUME TypeOK, NEW a \in Apps, Refused(a)
  PROVE  TypeOK'
<1> DEFINE p == request[renewing[a]].got
           f == [r \in Requests |-> [Cleared(r) EXCEPT !.got = p]]
<1>1. RequestsOK /\ renewing[a] \in Requests
  BY Parts DEF AppsOK, Refused
<1>2. \A r \in Requests : RequestOK(f[r])
  BY <1>1, ClearedKind, Each
<1>3. request' = [r \in Requests |->
                    IF r \in Mine(a) /\ (r = renewing[a] \/ request[r].pc = "waiting") THEN f[r] ELSE request[r]]
  BY DEF Refused, Settle
<1>4. RequestsOK'
  BY <1>2, <1>3, SettledKind
<1> QED
  BY <1>4 DEF TypeOK, RequestsOK, server, Refused, Settle

LEMMA UnavailableType ==
  ASSUME TypeOK, NEW a \in Apps, Unavailable(a)
  PROVE  TypeOK'
<1> DEFINE f == [r \in Requests |-> Failed(r)]
<1>1. \A r \in Requests : RequestOK(f[r])
  BY FreeKind DEF Failed
<1>2. request' = [r \in Requests |->
                    IF r \in Mine(a) /\ (r = renewing[a] \/ request[r].pc = "waiting") THEN f[r] ELSE request[r]]
  BY DEF Unavailable, Settle
<1>3. RequestsOK'
  BY <1>1, <1>2, SettledKind
<1> QED
  BY <1>3 DEF TypeOK, RequestsOK, server, Unavailable, Settle

LEMMA ClearType ==
  ASSUME TypeOK, NEW r \in Requests, Clear(r)
  PROVE  TypeOK'
<1>1. RequestsOK'
  BY Parts, FreeKind, SetKind DEF Clear
<1>2. stored' \in [Apps -> MaybePairs] /\ screen' \in [Apps -> {"login", "main", "ending"}]
  BY OfAssumption, Kinds DEF TypeOK, Clear
<1> QED
  BY <1>1, <1>2 DEF TypeOK, RequestsOK, server, Clear

LEMMA ChangedType ==
  ASSUME TypeOK, NEW r \in Requests, Changed(r)
  PROVE  TypeOK'
<1>1. RequestsOK'
  BY Parts, FreeKind, SetKind DEF Changed
<1>2. stored' \in [Apps -> MaybePairs]
  BY OfAssumption, Kinds DEF TypeOK, Changed
<1> QED
  BY <1>1, <1>2 DEF TypeOK, RequestsOK, server, Changed

LEMMA LoseType ==
  ASSUME TypeOK, NEW r \in Requests, Lose(r)
  PROVE  TypeOK'
<1>1. RequestsOK'
  BY Parts, AbandonedKind, SetKind DEF Lose
<1>2. excused' \subseteq Sessions
  BY Parts, UntoldKind DEF Lose
<1> QED
  BY <1>1, <1>2 DEF TypeOK, RequestsOK, server, Lose

LEMMA RestartType ==
  ASSUME TypeOK, NEW a \in Apps, Restart(a)
  PROVE  TypeOK'
<1> DEFINE f == [r \in Requests |-> Abandoned(r)]
<1>1. Mine(a) \in SUBSET Requests /\ RequestsOK
  BY Parts DEF Mine
<1>2. \A r \in Mine(a) : RequestOK(f[r])
  BY <1>1, AbandonedKind
<1>3. request' = [r \in Requests |-> IF r \in Mine(a) THEN f[r] ELSE request[r]]
  BY DEF Restart
<1>4. RequestsOK'
  BY <1>1, <1>2, <1>3, SettleKind
<1>5. excused' \subseteq Sessions
  BY <1>1, Parts, UntoldKind DEF Restart
<1>6. signIn' \in [Apps -> SignInStates] /\ \A b \in Apps : signIn'[b].pc = "opened" => signIn'[b].pair \in Pairs
  BY Kinds DEF TypeOK, Restart, NoSignIn, SignInStates
<1>7. /\ screen' \in [Apps -> {"login", "main", "ending"}]
      /\ renewing' \in [Apps -> Requests \cup {None}]
  BY DEF TypeOK, Restart
<1> QED
  BY <1>4, <1>5, <1>6, <1>7 DEF TypeOK, RequestsOK, server, Restart

-----------------------------------------------------------------------------
(* The backend's steps.                                                     *)

LEMMA RefreshType ==
  ASSUME TypeOK, NEW r \in Requests, Refresh(r)
  PROVE  TypeOK'
<1> DEFINE c == IF active /\ request[r].got.ver = version THEN "read" ELSE "denied"
<1>1. RequestsOK /\ request[r].got \in Pairs
  BY Parts DEF RequestsOK, Refresh, AtServer
<1>2. c \in {"free", "sent"} \cup Renewing \cup Changing
  BY DEF Renewing
<1>3. RequestOK([request[r] EXCEPT !.pc = c])
  BY <1>1, <1>2, Each, Onward
<1>4. RequestsOK'
  BY <1>1, <1>3, SetKind DEF Refresh
<1> QED
  BY <1>4 DEF TypeOK, RequestsOK, server, Refresh

\* The next pair of a session.
LEMMA IssuedKind ==
  ASSUME TypeOK, NEW p \in Found, p.sid \in Sessions
  PROVE  Issued(p) \in Pairs
<1>1. newest[p.sid].n \in Nat
  BY Kinds DEF TypeOK
<1> QED
  BY <1>1, Kinds, PairKind DEF Issued

LEMMA IssueType ==
  ASSUME TypeOK, NEW r \in Requests, Issue(r)
  PROVE  TypeOK'
<1> DEFINE p == request[r].got
<1>1. RequestsOK /\ p \in Pairs
  BY Parts DEF RequestsOK, Issue, AtServer
<1>2. Issued(p) \in Pairs
  BY <1>1, IssuedKind, Kinds
<1>3. RequestOK([request[r] EXCEPT !.pc = "denied"])
  BY <1>1, Each, Onward DEF Renewing
<1>4. RequestOK([request[r] EXCEPT !.pc = "renewed", !.got = Issued(p)])
  BY <1>1, <1>2, Each, Onward, Kinds DEF Renewing
<1>5. RequestsOK'
  BY <1>1, <1>3, <1>4, SetKind DEF Issue
<1>6. newest' \in [Sessions -> MaybePairs]
  BY <1>1, <1>2, Kinds DEF TypeOK, Issue
<1> QED
  BY <1>5, <1>6 DEF TypeOK, RequestsOK, Issue

LEMMA RevokeSessionType ==
  ASSUME TypeOK, NEW r \in Requests, RevokeSession(r)
  PROVE  TypeOK'
<1>1. RequestsOK'
  BY Parts, FreeKind, SetKind DEF RevokeSession
<1>2. row' \in [Sessions -> {"none", "live", "revoked"}]
  BY DEF TypeOK, RevokeSession
<1> QED
  BY <1>1, <1>2 DEF TypeOK, RequestsOK, RevokeSession

LEMMA KeepType ==
  ASSUME TypeOK, NEW r \in Requests, Keep(r)
  PROVE  TypeOK'
<1> DEFINE s == request[r].used.sid
           g == Pair(IF row[s] = "live" THEN s ELSE None, 0, 0)
<1>1. RequestsOK /\ s \in Sessions \cup {None}
  BY Parts, Each, Kinds
<1>2. g \in Found
  BY <1>1, BoundsAssumption DEF Pair, Found
<1>3. RequestOK([request[r] EXCEPT !.pc = "kept", !.got = g])
  BY <1>1, <1>2, Each, Onward DEF Changing, AtServer
<1>4. RequestsOK'
  BY <1>1, <1>3, SetKind DEF Keep
<1> QED
  BY <1>4 DEF TypeOK, RequestsOK, server, Keep

LEMMA CommitType ==
  ASSUME TypeOK, NEW r \in Requests, Commit(r)
  PROVE  TypeOK'
<1> DEFINE q == [request[r] EXCEPT !.pc = "committed", !.got.ver = version + 1]
           g == [request[r].got EXCEPT !.ver = version + 1]
<1>1. RequestsOK /\ request[r] \in RequestStates /\ RequestOK(request[r])
  BY Parts, Each DEF RequestsOK
<1>2. version' = version + 1 /\ version' \in 0..MaxVersion
  BY BoundsAssumption DEF TypeOK, Commit, Moved
<1>3. g \in Found
  BY <1>1, <1>2 DEF RequestStates, Found
<1>4. RequestOK([request[r] EXCEPT !.pc = "committed", !.got = g])
  BY <1>1, <1>3, Onward DEF Changing, AtServer
<1>5. q = [request[r] EXCEPT !.pc = "committed", !.got = g]
  BY <1>1 DEF RequestStates
<1>6. RequestsOK'
  BY <1>1, <1>4, <1>5, SetKind DEF Commit
<1>7. row' \in [Sessions -> {"none", "live", "revoked"}]
  BY Parts, RevokedKind DEF Commit
<1> QED
  BY <1>2, <1>6, <1>7 DEF TypeOK, RequestsOK, Commit

LEMMA EndOthersType ==
  ASSUME TypeOK, NEW r \in Requests, EndOthers(r)
  PROVE  TypeOK'
<1> DEFINE p == request[r].got
<1>1. RequestsOK /\ p \in Found
  BY Parts, Each
<1>2. row' \in [Sessions -> {"none", "live", "revoked"}]
  BY Parts, RevokedKind DEF EndOthers, RevokesAgain, ServerOK
<1>3. /\ RequestsOK'
      /\ newest' \in [Sessions -> MaybePairs]
      /\ excused' \subseteq Sessions
  <2>1. CASE p.sid = None
    <3>1. RequestOK([request[r] EXCEPT !.pc = "opening"])
      BY <1>1, Each, Onward DEF Changing, AtServer
    <3>2. Set(r, [request[r] EXCEPT !.pc = "opening"]) /\ UNCHANGED <<newest, excused>>
      BY <2>1 DEF EndOthers
    <3> QED
      BY <1>1, <3>1, <3>2, SetKind DEF TypeOK
  <2>2. CASE p.sid # None
    <3>1. p.sid \in Sessions
      BY <1>1, <2>2, Kinds
    <3>2. Issued(p) \in Pairs
      BY <1>1, <3>1, IssuedKind
    <3>3. /\ newest' = [newest EXCEPT ![p.sid] = Issued(p)]
          /\ Set(r, Told(r, Issued(p)))
          /\ excused' = IF request[r].heard THEN excused ELSE excused \cup {p.sid}
      BY <2>2 DEF EndOthers
    <3>4. RequestsOK'
      BY <1>1, <3>2, <3>3, ToldKind, SetKind
    <3> QED
      BY <3>1, <3>2, <3>3, <3>4, Kinds DEF TypeOK
  <2> QED
    BY <2>1, <2>2
<1> QED
  BY <1>2, <1>3 DEF TypeOK, RequestsOK, EndOthers

\* A session is opened.
LEMMA OpensKind ==
  ASSUME TypeOK, NEW s \in Sessions, NEW v \in 0..MaxVersion, Opens(s, v)
  PROVE  /\ row' \in [Sessions -> {"none", "live", "revoked"}]
         /\ newest' \in [Sessions -> MaybePairs]
         /\ excused' \subseteq Sessions
         /\ Pair(s, v, 1) \in Pairs
<1>1. Pair(s, v, 1) \in Pairs
  BY PairKind
<1> QED
  BY <1>1, Kinds DEF TypeOK, Opens

LEMMA OpenForChangeType ==
  ASSUME TypeOK, NEW r \in Requests, OpenForChange(r)
  PROVE  TypeOK'
<1> DEFINE v == request[r].got.ver
<1>1. RequestsOK /\ v \in 0..MaxVersion
  BY Parts, Each, Kinds
<1>2. PICK s \in Sessions : Opens(s, v) /\ Set(r, Told(r, Pair(s, v, 1)))
  BY DEF OpenForChange
<1>3. /\ row' \in [Sessions -> {"none", "live", "revoked"}]
      /\ newest' \in [Sessions -> MaybePairs]
      /\ excused' \subseteq Sessions
      /\ Pair(s, v, 1) \in Pairs
  BY <1>1, <1>2, OpensKind
<1>4. RequestsOK'
  BY <1>1, <1>2, <1>3, ToldKind, SetKind
<1> QED
  BY <1>3, <1>4 DEF TypeOK, RequestsOK, OpenForChange

LEMMA AccountType ==
  ASSUME TypeOK, Reset \/ Disable \/ EndSessions \/ Enable
  PROVE  TypeOK'
<1>1. version' \in 0..MaxVersion
  BY BoundsAssumption DEF TypeOK, Reset, Disable, EndSessions, Enable, Moved
<1>2. row' \in [Sessions -> {"none", "live", "revoked"}]
  BY Parts, RevokedKind DEF Reset, Disable, EndSessions, Enable, RevokesAgain, ServerOK
<1> QED
  BY <1>1, <1>2 DEF TypeOK, Reset, Disable, EndSessions, Enable

LEMMA NoSignInKind == NoSignIn \in SignInStates /\ NoSignIn.pc = "none"
BY Kinds DEF NoSignIn, SignInStates

LEMMA SignInType ==
  ASSUME TypeOK, NEW a \in Apps, ValidateCredentials(a) \/ SignInFails(a)
  PROVE  TypeOK'
<1>1. Pair(None, version, 1) \in Found
  BY DEF TypeOK, Pair, Found
<1>2. signIn' \in [Apps -> SignInStates] /\ \A b \in Apps : signIn'[b].pc = "opened" => signIn'[b].pair \in Pairs
  <2>1. CASE ValidateCredentials(a)
    BY <1>1, <2>1 DEF TypeOK, ValidateCredentials, SignInStates
  <2>2. CASE SignInFails(a)
    BY <2>2, NoSignInKind DEF TypeOK, SignInFails
  <2> QED
    BY <2>1, <2>2
<1> QED
  BY <1>2 DEF TypeOK, ValidateCredentials, SignInFails, server

LEMMA OpenSessionType ==
  ASSUME TypeOK, NEW a \in Apps, OpenSession(a)
  PROVE  TypeOK'
<1> DEFINE v == signIn[a].pair.ver
<1>1. v \in 0..MaxVersion
  BY Kinds DEF TypeOK, SignInStates
<1>2. PICK s \in Sessions :
        Opens(s, v) /\ signIn' = [signIn EXCEPT ![a] = [pc |-> "opened", pair |-> Pair(s, v, 1)]]
  BY DEF OpenSession
<1>3. /\ row' \in [Sessions -> {"none", "live", "revoked"}]
      /\ newest' \in [Sessions -> MaybePairs]
      /\ excused' \subseteq Sessions
      /\ Pair(s, v, 1) \in Pairs
  BY <1>1, <1>2, OpensKind
<1>4. signIn' \in [Apps -> SignInStates] /\ \A b \in Apps : signIn'[b].pc = "opened" => signIn'[b].pair \in Pairs
  BY <1>2, <1>3, Kinds DEF TypeOK, SignInStates
<1> QED
  BY <1>3, <1>4 DEF TypeOK, OpenSession

LEMMA SignedInType ==
  ASSUME TypeOK, NEW a \in Apps, SignedIn(a)
  PROVE  TypeOK'
<1>1. stored' \in [Apps -> MaybePairs] /\ screen' \in [Apps -> {"login", "main", "ending"}]
  BY Kinds DEF TypeOK, SignedIn
<1>2. signIn' \in [Apps -> SignInStates] /\ \A b \in Apps : signIn'[b].pc = "opened" => signIn'[b].pair \in Pairs
  BY NoSignInKind DEF TypeOK, SignedIn
<1> QED
  BY <1>1, <1>2 DEF TypeOK, SignedIn, server

-----------------------------------------------------------------------------
(* Types.                                                                   *)

LEMMA InitType == Init => TypeOK
<1>1. \A c \in AtServer \cup {"changed"} : Free.pc # c
  BY DEF Free, AtServer
<1>2. ASSUME Init PROVE ServerOK /\ AppsOK
  <2>1. version \in 0..MaxVersion
    BY <1>2, BoundsAssumption DEF Init
  <2>2. active \in BOOLEAN /\ ending \in BOOLEAN
    BY <1>2 DEF Init
  <2>3. row \in [Sessions -> {"none", "live", "revoked"}] /\ newest \in [Sessions -> MaybePairs]
    BY <1>2, Kinds DEF Init
  <2>4. AppsOK
    BY <1>2, Kinds DEF Init, AppsOK
  <2> QED
    BY <2>1, <2>2, <2>3, <2>4 DEF ServerOK
<1>3. ASSUME Init PROVE SignInsOK
  BY <1>3, NoSignInKind DEF Init, SignInsOK
<1>4. ASSUME Init PROVE RequestsOK
  BY <1>1, <1>4, FreeKind DEF Init, RequestsOK, RequestOK
<1> QED
  BY <1>2, <1>3, <1>4, Parts DEF Init

LEMMA NextType ==
  ASSUME TypeOK, [Next]_vars
  PROVE  TypeOK'
<1>1. CASE UNCHANGED vars
  BY <1>1 DEF vars, TypeOK
<1>2. ASSUME NEW r \in Requests,
             \/ Ask(r) \/ ChangePassword(r) \/ SignOut(r)
             \/ Answer(r) \/ Unauthorized(r) \/ RenewSession(r) \/ Clear(r) \/ Changed(r) \/ Lose(r)
             \/ Refresh(r) \/ Issue(r) \/ RevokeSession(r)
             \/ Keep(r) \/ Commit(r) \/ EndOthers(r) \/ OpenForChange(r)
      PROVE  TypeOK'
  BY <1>2, AskType, SignOutType, AnswerType, UnauthorizedType, RenewSessionType, ClearType, ChangedType,
     LoseType, RefreshType, IssueType, RevokeSessionType, KeepType, CommitType, EndOthersType, OpenForChangeType
<1>3. ASSUME NEW a \in Apps,
             \/ RefreshTokens(a) \/ Renewed(a) \/ Refused(a) \/ Unavailable(a)
             \/ EndSession(a) \/ Restart(a)
             \/ ValidateCredentials(a) \/ OpenSession(a) \/ SignedIn(a) \/ SignInFails(a)
      PROVE  TypeOK'
  BY <1>3, RefreshTokensType, RenewedType, RefusedType, UnavailableType, EndSessionType, RestartType,
     SignInType, OpenSessionType, SignedInType
<1> QED
  BY <1>1, <1>2, <1>3, AccountType DEF Next

\* The shape of the state, and that whatever an app stores or is sent is the
\* pair of a session, for any number of apps, requests and sessions.
THEOREM TypeCorrect == Spec => []TypeOK
BY InitType, NextType, PTL DEF Spec

-----------------------------------------------------------------------------
(* One renewal at a time.  TypeOK and OneRenewal together are inductive.     *)

\* The steps of a renewal that is under way.
Working == {"asking"} \cup AtServer

LEMMA OneRenewalAgain ==
  OneRenewal <=> \A r \in Requests : /\ request[r].pc \in Working <=> renewing[Of(r)] = r
                                     /\ request[r].pc = "waiting" => renewing[Of(r)] # None
BY DEF OneRenewal, Working

\* A request changes, and neither joins a renewal nor leaves one.
LEMMA SetKeeps ==
  ASSUME TypeOK, OneRenewal, NEW r \in Requests, NEW q, Set(r, q), UNCHANGED renewing,
         q.pc \in Working <=> request[r].pc \in Working,
         q.pc = "waiting" => renewing[Of(r)] # None
  PROVE  OneRenewal'
BY OneRenewalAgain DEF TypeOK, Set, OneRenewal, Working

\* A renewal ends for every request that has to do with it.
LEMMA SettleKeeps ==
  ASSUME TypeOK, OneRenewal, NEW a \in Apps, NEW f,
         request' = [r \in Requests |->
                       IF r \in Mine(a) /\ (r = renewing[a] \/ request[r].pc = "waiting") THEN f[r] ELSE request[r]],
         renewing' = [renewing EXCEPT ![a] = None],
         \A r \in Requests : f[r].pc \notin Working \cup {"waiting"}
  PROVE  OneRenewal'
<1> SUFFICES ASSUME NEW r \in Requests
             PROVE  /\ request'[r].pc \in Working <=> renewing'[Of(r)] = r
                    /\ request'[r].pc = "waiting" => renewing'[Of(r)] # None
  BY DEF OneRenewal, Working
<1>1. CASE Of(r) # a
  BY <1>1, OneRenewalAgain, OfAssumption DEF TypeOK, Mine
<1>2. CASE Of(r) = a
  <2>1. renewing'[Of(r)] = None /\ r # None
    BY <1>2, RequestsAssumption DEF TypeOK
  <2>2. request'[r].pc \notin Working \cup {"waiting"}
    BY <1>2, OneRenewalAgain DEF Mine
  <2> QED
    BY <2>1, <2>2
<1> QED
  BY <1>1, <1>2

\* The steps that touch neither the requests nor the renewals.
LEMMA IdleKeeps ==
  ASSUME OneRenewal, UNCHANGED <<request, renewing>>
  PROVE  OneRenewal'
BY DEF OneRenewal

\* The requests are records, which have the step they were given.
LEMMA Steps ==
  ASSUME TypeOK, NEW r \in Requests, NEW c, NEW g
  PROVE  /\ [request[r] EXCEPT !.pc = c].pc = c
         /\ [request[r] EXCEPT !.pc = c, !.got = g].pc = c
         /\ \A p : Again(r, p).pc = "sent"
         /\ Cleared(r).pc = "clear"
         /\ [Cleared(r) EXCEPT !.got = g].pc = "clear"
         /\ Free.pc = "free"
BY DEF TypeOK, RequestStates, Again, Cleared, Free

\* A request goes on to another step with what it has ...
LEMMA OnwardKeeps ==
  ASSUME TypeOK, OneRenewal, NEW r \in Requests, NEW c, UNCHANGED renewing,
         Set(r, [request[r] EXCEPT !.pc = c]),
         c \in Working <=> request[r].pc \in Working,
         c = "waiting" => renewing[Of(r)] # None
  PROVE  OneRenewal'
<1> DEFINE q == [request[r] EXCEPT !.pc = c]
<1>1. q.pc = c
  BY Steps
<1>2. Set(r, q)
  OBVIOUS
<1> HIDE DEF q
<1> QED
  BY <1>1, <1>2, SetKeeps

\* ... or with something new.
LEMMA OnwardWithKeeps ==
  ASSUME TypeOK, OneRenewal, NEW r \in Requests, NEW c, NEW g, UNCHANGED renewing,
         Set(r, [request[r] EXCEPT !.pc = c, !.got = g]),
         c \in Working <=> request[r].pc \in Working,
         c # "waiting"
  PROVE  OneRenewal'
<1> DEFINE q == [request[r] EXCEPT !.pc = c, !.got = g]
<1>1. q.pc = c
  BY Steps
<1>2. Set(r, q)
  OBVIOUS
<1> HIDE DEF q
<1> QED
  BY <1>1, <1>2, SetKeeps

\* A request that has nothing to do with a renewal leaves its app's alone.
LEMMA OutsideKeeps ==
  ASSUME TypeOK, OneRenewal, NEW r \in Requests, NEW q, Set(r, q), UNCHANGED renewing,
         request[r].pc \in {"free", "sent", "reading", "clear"} \cup Changing,
         q.pc \in {"free", "sent"} \cup Changing
  PROVE  OneRenewal'
<1>1. request[r].pc \notin Working /\ q.pc \notin Working /\ q.pc # "waiting"
  BY DEF Working, AtServer, Changing
<1> QED
  BY <1>1, SetKeeps

LEMMA RequestSteps ==
  ASSUME TypeOK, OneRenewal, NEW r \in Requests,
         \/ Ask(r) \/ ChangePassword(r) \/ SignOut(r)
         \/ Answer(r) \/ Clear(r) \/ Changed(r) \/ RevokeSession(r)
  PROVE  OneRenewal'
<1>1. UNCHANGED renewing
  BY DEF Ask, ChangePassword, SignOut, Answer, Clear, Changed, RevokeSession
<1>2. ASSUME NEW op, Send(r, op) PROVE OneRenewal'
  <2> DEFINE q == [Free EXCEPT !.op = op, !.pc = "sent", !.used = stored[Of(r)]]
  <2>1. q.pc = "sent"
    BY DEF Free
  <2>2. Set(r, q) /\ request[r].pc = "free"
    BY <1>2, Steps DEF Send
  <2> HIDE DEF q
  <2> QED
    BY <1>1, <2>1, <2>2, OutsideKeeps
<1>3. CASE Answer(r) \/ Clear(r) \/ Changed(r) \/ RevokeSession(r)
  <2>1. Set(r, Free) /\ request[r].pc \in {"sent", "clear", "changed"}
    BY <1>3 DEF Answer, Clear, Changed, RevokeSession
  <2> QED
    BY <1>1, <2>1, Steps, OutsideKeeps DEF Changing
<1> QED
  BY <1>2, <1>3 DEF Ask, ChangePassword, SignOut

LEMMA ChangeSteps ==
  ASSUME TypeOK, OneRenewal, NEW r \in Requests,
         Lose(r) \/ Keep(r) \/ Commit(r) \/ EndOthers(r) \/ OpenForChange(r)
  PROVE  OneRenewal'
<1>1. request[r].pc \in {"sent"} \cup Changing
  BY DEF Lose, Keep, Commit, EndOthers, OpenForChange, Changing
<1>2. UNCHANGED renewing
  BY DEF Lose, Keep, Commit, EndOthers, OpenForChange
<1>3. \A c \in Changing : (c \in Working <=> request[r].pc \in Working) /\ c # "waiting"
  BY <1>1 DEF Working, AtServer, Changing
<1>4. "kept" \in Changing /\ "committed" \in Changing /\ "opening" \in Changing
  BY DEF Changing
<1>5. ASSUME NEW p, Set(r, Told(r, p)) PROVE OneRenewal'
  <2>1. Told(r, p).pc \in {"free"} \cup Changing
    BY Steps DEF Told, Changing
  <2> QED
    BY <1>1, <1>2, <1>5, <2>1, OutsideKeeps
<1>6. CASE Lose(r)
  <2>1. Set(r, Abandoned(r))
    BY <1>6 DEF Lose
  <2>2. Abandoned(r).pc \in {"free"} \cup Changing
    BY Steps DEF Abandoned, TypeOK, RequestStates
  <2> QED
    BY <1>1, <1>2, <2>1, <2>2, OutsideKeeps
<1>7. CASE Keep(r)
  <2> DEFINE g == Pair(IF row[request[r].used.sid] = "live" THEN request[r].used.sid ELSE None, 0, 0)
  <2>1. Set(r, [request[r] EXCEPT !.pc = "kept", !.got = g])
    BY <1>7 DEF Keep
  <2> HIDE DEF g
  <2> QED
    BY <1>2, <1>3, <1>4, <2>1, OnwardWithKeeps
<1>8. CASE Commit(r)
  <2> DEFINE q == [request[r] EXCEPT !.pc = "committed", !.got.ver = version + 1]
  <2>1. q.pc = "committed"
    BY DEF TypeOK, RequestStates
  <2>2. Set(r, q)
    BY <1>8 DEF Commit
  <2> HIDE DEF q
  <2> QED
    BY <1>1, <1>2, <1>4, <2>1, <2>2, OutsideKeeps
<1>9. CASE EndOthers(r)
  <2>1. CASE Set(r, [request[r] EXCEPT !.pc = "opening"])
    BY <1>2, <1>3, <1>4, <2>1, OnwardKeeps
  <2>2. CASE Set(r, Told(r, Issued(request[r].got)))
    BY <1>5, <2>2
  <2> QED
    BY <1>9, <2>1, <2>2 DEF EndOthers
<1>10. CASE OpenForChange(r)
  BY <1>5, <1>10 DEF OpenForChange
<1> QED
  BY <1>6, <1>7, <1>8, <1>9, <1>10

LEMMA UnauthorizedKeeps ==
  ASSUME TypeOK, OneRenewal, NEW r \in Requests, Unauthorized(r)
  PROVE  OneRenewal'
<1>1. request[r].pc = "sent" /\ UNCHANGED renewing
  BY DEF Unauthorized
<1>2. CASE Set(r, Free)
  BY <1>1, <1>2, Steps, SetKeeps DEF Working, AtServer
<1>3. CASE renewing[Of(r)] # None /\ Set(r, [request[r] EXCEPT !.pc = "waiting"])
  BY <1>1, <1>3, OnwardKeeps DEF Working, AtServer
<1>4. CASE Set(r, [request[r] EXCEPT !.pc = "reading"])
  <2>1. ("reading" \in Working <=> request[r].pc \in Working) /\ "reading" # "waiting"
    BY <1>1 DEF Working, AtServer
  <2> QED
    BY <1>1, <1>4, <2>1, OnwardKeeps
<1> QED
  BY <1>2, <1>3, <1>4 DEF Unauthorized

LEMMA RenewSessionKeeps ==
  ASSUME TypeOK, OneRenewal, NEW r \in Requests, RenewSession(r)
  PROVE  OneRenewal'
<1>1. request[r].pc = "reading"
  BY DEF RenewSession
<1>2. CASE Set(r, Again(r, stored[Of(r)])) /\ UNCHANGED renewing
  BY <1>1, <1>2, Steps, SetKeeps DEF Working, AtServer
<1>3. CASE renewing[Of(r)] # None /\ Set(r, [request[r] EXCEPT !.pc = "waiting"]) /\ UNCHANGED renewing
  BY <1>1, <1>3, OnwardKeeps DEF Working, AtServer
<1>4. CASE /\ renewing[Of(r)] = None
           /\ Set(r, [request[r] EXCEPT !.pc = "asking"])
           /\ renewing' = [renewing EXCEPT ![Of(r)] = r]
  <2> SUFFICES ASSUME NEW s \in Requests
               PROVE  /\ request'[s].pc \in Working <=> renewing'[Of(s)] = s
                      /\ request'[s].pc = "waiting" => renewing'[Of(s)] # None
    BY DEF OneRenewal, Working
  <2>1. CASE s = r
    BY <1>4, <2>1, Steps, OfAssumption, RequestsAssumption DEF TypeOK, Set, Working
  <2>2. CASE s # r
    <3>1. request'[s] = request[s]
      BY <1>4, <2>2 DEF TypeOK, Set
    <3>2. CASE Of(s) = Of(r)
      BY <1>4, <2>2, <3>1, <3>2, OneRenewalAgain, OfAssumption, RequestsAssumption DEF TypeOK
    <3>3. CASE Of(s) # Of(r)
      BY <1>4, <3>1, <3>3, OneRenewalAgain, OfAssumption DEF TypeOK
    <3> QED
      BY <3>2, <3>3
  <2> QED
    BY <2>1, <2>2
<1> QED
  BY <1>2, <1>3, <1>4 DEF RenewSession, BegunMeanwhile

LEMMA ServedKeeps ==
  ASSUME TypeOK, OneRenewal, NEW r \in Requests, Refresh(r) \/ Issue(r)
  PROVE  OneRenewal'
<1>1. request[r].pc \in AtServer /\ UNCHANGED renewing
  BY DEF Refresh, Issue, AtServer
<1>2. CASE Refresh(r)
  <2> DEFINE c == IF active /\ request[r].got.ver = version THEN "read" ELSE "denied"
  <2>1. c \in AtServer /\ Set(r, [request[r] EXCEPT !.pc = c])
    BY <1>2 DEF Refresh, AtServer
  <2> QED
    BY <1>1, <2>1, OnwardKeeps DEF Working, AtServer
<1>3. CASE Issue(r)
  <2>1. \A c \in AtServer : (c \in Working <=> request[r].pc \in Working) /\ c # "waiting"
    BY <1>1 DEF Working, AtServer
  <2>2. "renewed" \in AtServer /\ "denied" \in AtServer
    BY DEF AtServer
  <2>3. CASE Set(r, [request[r] EXCEPT !.pc = "renewed", !.got = Issued(request[r].got)])
    BY <1>1, <2>1, <2>2, <2>3, OnwardWithKeeps
  <2>4. CASE Set(r, [request[r] EXCEPT !.pc = "denied"])
    BY <1>1, <2>1, <2>2, <2>4, OnwardKeeps
  <2> QED
    BY <1>3, <2>3, <2>4 DEF Issue
<1> QED
  BY <1>2, <1>3

LEMMA RefreshTokensKeeps ==
  ASSUME TypeOK, OneRenewal, NEW a \in Apps, RefreshTokens(a)
  PROVE  OneRenewal'
<1> DEFINE r0 == renewing[a]
<1>1. CASE Settle(a, Cleared)
  <2> DEFINE f == [r \in Requests |-> Cleared(r)]
  <2>1. \A r \in Requests : f[r].pc \notin Working \cup {"waiting"}
    BY Steps DEF Working, AtServer
  <2>2. /\ request' = [r \in Requests |->
                       IF r \in Mine(a) /\ (r = renewing[a] \/ request[r].pc = "waiting") THEN f[r] ELSE request[r]]
        /\ renewing' = [renewing EXCEPT ![a] = None]
    BY <1>1 DEF Settle
  <2> QED
    BY <2>1, <2>2, SettleKeeps
<1>2. CASE Set(r0, [request[r0] EXCEPT !.pc = "refresh", !.got = stored[a]]) /\ UNCHANGED renewing
  <2>1. r0 \in Requests /\ request[r0].pc = "asking"
    BY DEF TypeOK, RefreshTokens
  <2>2. ("refresh" \in Working <=> request[r0].pc \in Working) /\ "refresh" # "waiting"
    BY <2>1 DEF Working, AtServer
  <2>3. UNCHANGED renewing /\ Set(r0, [request[r0] EXCEPT !.pc = "refresh", !.got = stored[a]])
    BY <1>2
  <2> HIDE DEF r0
  <2> QED
    BY <2>1, <2>2, <2>3, OnwardWithKeeps
<1> QED
  BY <1>1, <1>2 DEF RefreshTokens

LEMMA SettlesKeep ==
  ASSUME TypeOK, OneRenewal, NEW a \in Apps, Renewed(a) \/ Refused(a) \/ Unavailable(a)
  PROVE  OneRenewal'
<1> DEFINE p == request[renewing[a]].got
           Is(f) == /\ request' = [r \in Requests |->
                         IF r \in Mine(a) /\ (r = renewing[a] \/ request[r].pc = "waiting") THEN f[r] ELSE request[r]]
                    /\ renewing' = [renewing EXCEPT ![a] = None]
<1>1. CASE Renewed(a)
  <2>1. Is([r \in Requests |-> Again(r, p)])
    BY <1>1 DEF Renewed, Settle
  <2>2. \A r \in Requests : [s \in Requests |-> Again(s, p)][r].pc \notin Working \cup {"waiting"}
    BY Steps DEF Working, AtServer
  <2> QED
    BY <2>1, <2>2, SettleKeeps
<1>2. CASE Refused(a)
  <2>1. Is([r \in Requests |-> [Cleared(r) EXCEPT !.got = p]])
    BY <1>2 DEF Refused, Settle
  <2>2. \A r \in Requests : [s \in Requests |-> [Cleared(s) EXCEPT !.got = p]][r].pc \notin Working \cup {"waiting"}
    BY Steps DEF Working, AtServer
  <2> QED
    BY <2>1, <2>2, SettleKeeps
<1>3. CASE Unavailable(a)
  <2>1. Is([r \in Requests |-> Failed(r)])
    BY <1>3 DEF Unavailable, Settle
  <2>2. \A r \in Requests : [s \in Requests |-> Failed(s)][r].pc \notin Working \cup {"waiting"}
    BY Steps DEF Failed, Working, AtServer
  <2> QED
    BY <2>1, <2>2, SettleKeeps
<1> QED
  BY <1>1, <1>2, <1>3

LEMMA RestartKeeps ==
  ASSUME TypeOK, OneRenewal, NEW a \in Apps, Restart(a)
  PROVE  OneRenewal'
<1> SUFFICES ASSUME NEW r \in Requests
             PROVE  /\ request'[r].pc \in Working <=> renewing'[Of(r)] = r
                    /\ request'[r].pc = "waiting" => renewing'[Of(r)] # None
  BY DEF OneRenewal, Working
<1>1. CASE Of(r) # a
  BY <1>1, OneRenewalAgain, OfAssumption DEF TypeOK, Mine, Restart
<1>2. CASE Of(r) = a
  <2>1. renewing'[Of(r)] = None /\ r # None
    BY <1>2, RequestsAssumption DEF TypeOK, Restart
  <2>2. request'[r] = Abandoned(r)
    BY <1>2 DEF Restart, Mine
  <2>3. Abandoned(r).pc \in {"free"} \cup Changing
    BY Steps DEF Abandoned, TypeOK, RequestStates
  <2> QED
    BY <2>1, <2>2, <2>3 DEF Working, AtServer, Changing
<1> QED
  BY <1>1, <1>2

LEMMA NextKeeps ==
  ASSUME TypeOK, OneRenewal, [Next]_vars
  PROVE  OneRenewal'
<1>1. CASE UNCHANGED vars
  BY <1>1, IdleKeeps DEF vars
<1>2. ASSUME NEW r \in Requests,
             \/ Ask(r) \/ ChangePassword(r) \/ SignOut(r)
             \/ Answer(r) \/ Unauthorized(r) \/ RenewSession(r) \/ Clear(r) \/ Changed(r) \/ Lose(r)
             \/ Refresh(r) \/ Issue(r) \/ RevokeSession(r)
             \/ Keep(r) \/ Commit(r) \/ EndOthers(r) \/ OpenForChange(r)
      PROVE  OneRenewal'
  BY <1>2, RequestSteps, ChangeSteps, UnauthorizedKeeps, RenewSessionKeeps, ServedKeeps
<1>3. ASSUME NEW a \in Apps,
             \/ RefreshTokens(a) \/ Renewed(a) \/ Refused(a) \/ Unavailable(a)
             \/ EndSession(a) \/ Restart(a)
             \/ ValidateCredentials(a) \/ OpenSession(a) \/ SignedIn(a) \/ SignInFails(a)
      PROVE  OneRenewal'
  <2>1. CASE EndSession(a) \/ ValidateCredentials(a) \/ OpenSession(a) \/ SignedIn(a) \/ SignInFails(a)
    BY <2>1, IdleKeeps DEF EndSession, ValidateCredentials, OpenSession, SignedIn, SignInFails
  <2> QED
    BY <1>3, <2>1, RefreshTokensKeeps, SettlesKeep, RestartKeeps
<1>4. CASE Reset \/ Disable \/ EndSessions \/ Enable
  BY <1>4, IdleKeeps DEF Reset, Disable, EndSessions, Enable
<1> QED
  BY <1>1, <1>2, <1>3, <1>4 DEF Next

\* However many requests of an app find their token expired, and whenever they
\* do: one renewal is under way at most, and nobody waits for none
\* (api.ts, renewSession).
THEOREM OneRenewalHolds == Spec => []OneRenewal
<1>1. Init => OneRenewal
  BY RequestsAssumption, OfAssumption DEF Init, OneRenewal, Free, AtServer
<1> QED
  BY <1>1, InitType, NextType, NextKeeps, PTL DEF Spec

-----------------------------------------------------------------------------
(***************************************************************************)
(* Why a session is refused only for a cause, when an app has nothing else *)
(* out while it changes the password ("change" is not among the races).    *)
(***************************************************************************)
\* An app knows a session by its tokens, stored or on a request ...
Has(a, s) ==
  \/ stored[a].sid = s
  \/ \E r \in Mine(a) : request[r].used.sid = s \/ request[r].got.sid = s

\* ... or is being signed in with it.
Signing(a, s) == signIn[a].pair.sid = s

\* A session is one app's, and once.
Owns ==
  \A a, b \in Apps, s \in Sessions :
     /\ Has(a, s) /\ Has(b, s) => a = b
     /\ Signing(a, s) /\ Signing(b, s) => a = b
     /\ ~(Signing(a, s) /\ Has(b, s))
     /\ Has(a, s) \/ Signing(a, s) => row[s] # "none"

Idle == {"free", "sent", "reading", "asking", "waiting"}

\* The backend has something for a request only while it is at it.
Shaped ==
  \A r \in Requests :
     /\ request[r].pc \in Idle => request[r].got = NoPair
     /\ request[r].pc \in Changing => request[r].op = "change"

\* An app that changes the password has nothing else out.
OnlyChange ==
  \A r, q \in Requests :
     request[r].op = "change" /\ Of(q) = Of(r) /\ q # r => request[q] = Free

\* A disabled account has no session that anybody ended.
DisabledEnds == ~active => Live \subseteq excused

\* What LiveIsCurrent and RefusedForCause are about.
Usable == Live \ (excused \cup BeingChanged)

Sound(p) == p.sid \in Usable => p.ver = version

Refreshing == {"refresh", "read", "renewed"}

\* Every pair of a usable session that may still be stored is of the
\* account's version, wherever it is.
AllCurrent ==
  /\ \A s \in Usable : newest[s].ver = version
  /\ \A a \in Apps : Sound(stored[a]) /\ Sound(signIn[a].pair)
  /\ \A r \in Requests : request[r].pc \in Refreshing => Sound(request[r].got)

InChange == {"committed", "changed"}

\* So is the one that a change of the password brings.
ChangeCurrent ==
  \A r \in Requests :
     request[r].pc \in InChange /\ request[r].got.sid \in Live \ excused =>
        /\ request[r].got.ver = version
        /\ request[r].pc = "changed" => newest[request[r].got.sid].ver = version

Over == {s \in Sessions : row[s] = "revoked"} \cup excused

\* Whoever was refused, was refused a session that is over.
RefusalsStand ==
  \A r \in Requests :
     request[r].pc \in {"denied", "clear"} /\ request[r].got # NoPair =>
        request[r].got.sid \in Over

Causes == Owns /\ Shaped /\ OnlyChange /\ DisabledEnds /\ AllCurrent /\ ChangeCurrent
          /\ RefusalsStand

-----------------------------------------------------------------------------
(* Lemmas about one part each.                                              *)

\* What is free says nothing.
LEMMA FreeIs == Free.op = "none" /\ Free.pc = "free" /\ Free.used = NoPair /\ Free.got = NoPair
                /\ NoPair.sid = None
BY DEF Free, NoPair, Pair

Known(a, s) == s = None \/ Has(a, s)

\* The apps know no session they did not know.
LEMMA KnownStays ==
  ASSUME \A a \in Apps : Known(a, stored'[a].sid),
         \A r \in Requests : Known(Of(r), request'[r].used.sid) /\ Known(Of(r), request'[r].got.sid),
         NEW a \in Apps, NEW s \in Sessions, Has(a, s)'
  PROVE  Has(a, s)
<1>1. s # None
  BY Kinds
<1>2. CASE stored'[a].sid = s
  BY <1>1, <1>2 DEF Known
<1>3. CASE \E r \in Mine(a) : request'[r].used.sid = s \/ request'[r].got.sid = s
  BY <1>1, <1>3 DEF Known, Mine
<1> QED
  BY <1>2, <1>3 DEF Has

LEMMA OwnsStays ==
  ASSUME Owns,
         \A a \in Apps, s \in Sessions : Has(a, s)' => Has(a, s),
         \A a \in Apps, s \in Sessions : Signing(a, s)' => Signing(a, s),
         \A s \in Sessions : row[s] # "none" => row'[s] # "none"
  PROVE  Owns'
BY DEF Owns

\* A request that is out goes on as what it is, or ends.
LEMMA OnlyChangeStays ==
  ASSUME OnlyChange,
         \A r \in Requests : \/ request'[r] = request[r]
                             \/ request[r] # Free /\ (request'[r] = Free \/ request'[r].op = request[r].op)
  PROVE  OnlyChange'
<1> SUFFICES ASSUME NEW r \in Requests, NEW q \in Requests,
                    request'[r].op = "change", Of(q) = Of(r), q # r
             PROVE  request'[q] = Free
  BY DEF OnlyChange
<1>1. request[r].op = "change"
  BY FreeIs
<1>2. request[q] = Free
  BY <1>1 DEF OnlyChange
<1> QED
  BY <1>2

\* Nobody else has the session of a change.
LEMMA ChangeIsAlone ==
  ASSUME TypeOK, Owns, Shaped, OnlyChange, NEW r \in Requests, NEW q \in Requests,
         request[r].pc \in Changing, request[r].got.sid \in Sessions,
         request[q].got.sid = request[r].got.sid
  PROVE  q = r
<1>1. Of(r) \in Apps /\ Of(q) \in Apps /\ r \in Mine(Of(r)) /\ q \in Mine(Of(q))
  BY OfAssumption DEF Mine
<1>2. Of(r) = Of(q)
  <2>1. Has(Of(r), request[r].got.sid) /\ Has(Of(q), request[r].got.sid)
    BY <1>1 DEF Has
  <2> QED
    BY <1>1, <2>1 DEF Owns
<1>3. request[q] # Free
  BY FreeIs, Kinds
<1> QED
  BY <1>2, <1>3 DEF Shaped, OnlyChange

\* A request of an app that has no change out, and so a pair nobody changes.
LEMMA NotChanged ==
  ASSUME TypeOK, Owns, Shaped, OnlyChange, NEW q \in Requests,
         request[q].pc \notin InChange, request[q].got.sid \in Sessions
  PROVE  request[q].got.sid \notin BeingChanged
<1> SUFFICES ASSUME NEW r \in Requests, request[r].pc \in InChange,
                    request[r].got.sid = request[q].got.sid
             PROVE  FALSE
  BY DEF BeingChanged, InChange
<1>1. request[r].pc \in Changing
  BY DEF InChange, Changing
<1>2. q = r
  BY <1>1, ChangeIsAlone
<1> QED
  BY <1>2

-----------------------------------------------------------------------------
(* Steps that move neither the version nor a session's pair.                *)

\* What such a step makes of a request.
Calm(r) ==
  /\ Known(Of(r), request'[r].used.sid) /\ Known(Of(r), request'[r].got.sid)
  /\ request'[r].pc \in Idle => request'[r].got = NoPair
  /\ request'[r].pc \in Changing => request'[r].op = "change"
  /\ request'[r].pc \in Refreshing => Sound(request'[r].got)
  /\ request'[r].pc \in {"denied", "clear"} /\ request'[r].got # NoPair => request'[r].got.sid \in Over
  /\ request'[r].pc \in InChange => request'[r].pc = request[r].pc /\ request'[r].got = request[r].got
  /\ request[r].pc \in InChange =>
        \/ request'[r].pc = request[r].pc /\ request'[r].got = request[r].got
        \/ request[r].got.sid \in excused' \cup {None}

LEMMA SameIsCalm ==
  ASSUME TypeOK, Causes, NEW r \in Requests, request'[r] = request[r]
  PROVE  Calm(r)
<1>1. request[r].used \in Found /\ request[r].got \in Found
  BY Parts, Each, Kinds
<1>2. Known(Of(r), request[r].used.sid) /\ Known(Of(r), request[r].got.sid)
  BY DEF Known, Has, Mine
<1> QED
  BY <1>2 DEF Calm, Causes, Shaped, AllCurrent, RefusalsStand

LEMMA FreeIsCalm ==
  ASSUME NEW r \in Requests, request'[r] = Free,
         request[r].pc \in InChange => request[r].got.sid \in excused'
  PROVE  Calm(r)
BY FreeIs DEF Calm, Known, Changing, Refreshing, InChange

\* Sessions may be revoked, and excused.
CalmServer ==
  /\ UNCHANGED <<version, newest>>
  /\ active' \in {active, TRUE}
  /\ \A s \in Sessions : row'[s] = row[s] \/ (row[s] = "live" /\ row'[s] = "revoked")
  /\ excused \subseteq excused'

LEMMA CalmStep ==
  ASSUME TypeOK, Causes, OnlyChange', CalmServer, \A r \in Requests : Calm(r),
         \A a \in Apps : Known(a, stored'[a].sid) /\ Sound(stored'[a]),
         \A a \in Apps : signIn'[a] = signIn[a] \/ signIn'[a].pair.sid = None
  PROVE  Causes'
<1> USE DEF CalmServer
<1>1. Live' \subseteq Live /\ Over \subseteq Over'
  BY DEF Live, Over
<1>2. Usable' \subseteq Usable
  <2>1. \A s \in BeingChanged : s = None \/ s \in BeingChanged' \cup excused'
    BY DEF BeingChanged, Calm, InChange
  <2>2. None \notin Live
    BY Kinds DEF Live
  <2> QED
    BY <1>1, <2>1, <2>2 DEF Usable
<1>3. \A s \in Usable' : s \in Usable
  BY <1>2
<1>4. Owns'
  <2>1. \A a \in Apps, s \in Sessions : Has(a, s)' => Has(a, s)
    BY KnownStays DEF Calm
  <2>2. \A a \in Apps, s \in Sessions : Signing(a, s)' => Signing(a, s)
    BY Kinds DEF Signing
  <2>3. \A s \in Sessions : row[s] # "none" => row'[s] # "none"
    OBVIOUS
  <2> QED
    BY <2>1, <2>2, <2>3, OwnsStays DEF Causes
<1>5. Shaped'
  BY DEF Shaped, Calm
<1>6. DisabledEnds'
  <2>1. ~active' => ~active
    OBVIOUS
  <2>2. ~active => Live \subseteq excused
    BY DEF Causes, DisabledEnds
  <2> QED
    BY <1>1, <2>1, <2>2 DEF DisabledEnds
<1>7. AllCurrent'
  <2>1. \A s \in Usable' : newest'[s].ver = version'
    BY <1>2 DEF Causes, AllCurrent
  <2>2. None \notin Usable
    BY Kinds DEF Usable, Live
  <2>3. \A a \in Apps : stored'[a].sid \in Usable' => stored'[a].ver = version'
    BY <1>2 DEF Sound
  <2>4. \A a \in Apps : signIn'[a].pair.sid \in Usable' => signIn'[a].pair.ver = version'
    BY <1>2, <2>2 DEF Sound, Causes, AllCurrent
  <2>5. \A r \in Requests : request'[r].pc \in Refreshing /\ request'[r].got.sid \in Usable' => request'[r].got.ver = version'
    BY <1>2 DEF Calm, Sound
  <2> QED
    BY <2>1, <2>3, <2>4, <2>5 DEF AllCurrent, Sound
<1>8. ChangeCurrent'
  <2> SUFFICES ASSUME NEW r \in Requests, request'[r].pc \in InChange,
                      request'[r].got.sid \in Live' \ excused'
               PROVE  /\ request'[r].got.ver = version
                      /\ request'[r].pc = "changed" => newest[request'[r].got.sid].ver = version
    BY DEF ChangeCurrent
  <2>1. request'[r].pc = request[r].pc /\ request'[r].got = request[r].got
    BY DEF Calm
  <2>2. request[r].got.sid \in Live \ excused
    BY <1>1, <2>1
  <2> QED
    BY <2>1, <2>2 DEF Causes, ChangeCurrent
<1>9. RefusalsStand'
  BY <1>1 DEF RefusalsStand, Calm
<1> QED
  BY <1>4, <1>5, <1>6, <1>7, <1>8, <1>9 DEF Causes

\* The same for one request.
LEMMA CalmSet ==
  ASSUME TypeOK, Causes, NEW r \in Requests, NEW q, Set(r, q), request'[r] = q => Calm(r),
         OnlyChange', CalmServer,
         \A a \in Apps : Known(a, stored'[a].sid) /\ Sound(stored'[a]),
         \A a \in Apps : signIn'[a] = signIn[a] \/ signIn'[a].pair.sid = None
  PROVE  Causes'
<1>1. request'[r] = q /\ \A o \in Requests : o # r => request'[o] = request[o]
  BY DEF Set, TypeOK
<1>2. \A o \in Requests : Calm(o)
  BY <1>1, SameIsCalm
<1> QED
  BY <1>2, CalmStep

\* What is stored is known, and sound.
LEMMA StoredFine ==
  ASSUME TypeOK, Causes, NEW a \in Apps
  PROVE  /\ Known(a, stored[a].sid) /\ Sound(stored[a])
         /\ Known(a, NoPair.sid) /\ Sound(NoPair)
BY FreeIs, Kinds DEF Known, Has, Causes, AllCurrent, Sound, Usable, Live

\* A request changes, and no other.
LEMMA SetIs ==
  ASSUME TypeOK, NEW r \in Requests, NEW q, Set(r, q)
  PROVE  request'[r] = q /\ \A o \in Requests : o # r => request'[o] = request[o]
BY DEF Set, TypeOK

\* One that has nothing from the backend.
LEMMA IdleIsCalm ==
  ASSUME NEW r \in Requests, request'[r].pc \in Idle, request'[r].got = NoPair,
         Known(Of(r), request'[r].used.sid), request[r].pc \notin InChange
  PROVE  Calm(r)
BY FreeIs DEF Calm, Known, Idle, Changing, Refreshing, InChange

\* What is known of what a request has.
LEMMA RequestKnown ==
  ASSUME NEW r \in Requests
  PROVE  Known(Of(r), request[r].used.sid) /\ Known(Of(r), request[r].got.sid)
BY DEF Known, Has, Mine

\* Steps in which the backend, what is stored and the sign-ins stay.
LEMMA CalmRequest ==
  ASSUME TypeOK, Causes, UNCHANGED <<server, stored, signIn>>, excused \subseteq excused', OnlyChange',
         \A r \in Requests : Calm(r)
  PROVE  Causes'
<1>1. CalmServer
  BY DEF CalmServer, server
<1>2. \A a \in Apps : Known(a, stored'[a].sid) /\ Sound(stored'[a])
  BY StoredFine
<1>3. \A a \in Apps : signIn'[a] = signIn[a] \/ signIn'[a].pair.sid = None
  OBVIOUS
<1> QED
  BY <1>1, <1>2, <1>3, CalmStep

\* A request goes on as what it is, or ends, and is calm.
LEMMA CalmOnward ==
  ASSUME TypeOK, Causes, UNCHANGED <<server, stored, signIn>>, excused \subseteq excused',
         NEW r \in Requests, NEW q, Set(r, q), request[r] # Free, q = Free \/ q.op = request[r].op,
         request'[r] = q => Calm(r)
  PROVE  Causes'
<1>1. request'[r] = q /\ \A o \in Requests : o # r => request'[o] = request[o]
  BY SetIs
<1>2. \A o \in Requests : Calm(o)
  BY <1>1, SameIsCalm
<1>3. OnlyChange'
  BY <1>1, OnlyChangeStays DEF Causes
<1> QED
  BY <1>2, <1>3, CalmRequest

\* A request goes out.
LEMMA SendCalm ==
  ASSUME "change" \notin Races, TypeOK, Causes, NEW r \in Requests, NEW op, Send(r, op),
         UNCHANGED <<server, stored, signIn, excused>>
  PROVE  Causes'
<1> DEFINE q == [Free EXCEPT !.op = op, !.pc = "sent", !.used = stored[Of(r)]]
<1>1. q.op = op /\ q.pc = "sent" /\ q.used = stored[Of(r)] /\ q.got = NoPair
  BY FreeIs DEF Free
<1>2. Set(r, q) /\ request[r] = Free /\ Alone(Of(r), op) /\ Of(r) \in Apps
  BY OfAssumption DEF Send
<1> HIDE DEF q
<1>3. request'[r] = q /\ \A o \in Requests : o # r => request'[o] = request[o]
  BY <1>2, SetIs
<1>4. OnlyChange'
  <2> SUFFICES ASSUME NEW o \in Requests, NEW p \in Requests,
                      request'[o].op = "change", Of(p) = Of(o), p # o
               PROVE  request'[p] = Free
    BY DEF OnlyChange
  <2>1. CASE o = r
    BY <1>1, <1>2, <1>3, <2>1 DEF Alone, Quiet, Mine
  <2>2. CASE p = r
    BY <1>2, <1>3, <2>2 DEF Alone, Mine
  <2>3. CASE o # r /\ p # r
    BY <1>3, <2>3 DEF Causes, OnlyChange
  <2> QED
    BY <2>1, <2>2, <2>3
<1>5. Calm(r)
  <2>1. Known(Of(r), stored[Of(r)].sid)
    BY <1>2, StoredFine
  <2>2. request[r].pc \notin InChange
    BY <1>2, FreeIs DEF InChange
  <2> QED
    BY <1>1, <1>3, <2>1, <2>2, IdleIsCalm DEF Idle
<1>6. \A o \in Requests : Calm(o)
  BY <1>3, <1>5, SameIsCalm
<1> QED
  BY <1>4, <1>6, CalmRequest

\* Requests that end, or wait.
LEMMA PlainCalm ==
  ASSUME TypeOK, Causes, NEW r \in Requests, Answer(r) \/ Unauthorized(r) \/ RenewSession(r)
  PROVE  Causes'
<1>1. UNCHANGED <<server, stored, signIn, excused>> /\ request[r].pc \in {"sent", "reading"}
  BY DEF Answer, Unauthorized, RenewSession
<1>2. request[r].got = NoPair /\ request[r] # Free /\ request[r].pc \notin InChange
  BY <1>1, FreeIs DEF Causes, Shaped, Idle, InChange
<1>3. CASE Set(r, Free)
  BY <1>1, <1>2, <1>3, FreeIsCalm, CalmOnward
<1>4. ASSUME NEW c \in {"waiting", "reading", "asking"}, Set(r, [request[r] EXCEPT !.pc = c]) PROVE Causes'
  <2> DEFINE q == [request[r] EXCEPT !.pc = c]
  <2>1. q.pc = c /\ q.op = request[r].op /\ q.used = request[r].used /\ q.got = NoPair
    BY <1>2 DEF TypeOK, RequestStates
  <2>2. Set(r, q)
    BY <1>4
  <2> HIDE DEF q
  <2>3. request'[r] = q => Calm(r)
    BY <1>2, <2>1, RequestKnown, IdleIsCalm DEF Idle
  <2> QED
    BY <1>1, <1>2, <2>1, <2>2, <2>3, CalmOnward
<1>5. CASE Set(r, Again(r, stored[Of(r)]))
  <2> DEFINE q == Again(r, stored[Of(r)])
  <2>1. q.pc = "sent" /\ q.op = request[r].op /\ q.used = stored[Of(r)] /\ q.got = NoPair
    BY DEF Again, TypeOK, RequestStates
  <2>2. Set(r, q)
    BY <1>5
  <2> HIDE DEF q
  <2>3. request'[r] = q => Calm(r)
    BY <1>2, <2>1, StoredFine, OfAssumption, IdleIsCalm DEF Idle
  <2> QED
    BY <1>1, <1>2, <2>1, <2>2, <2>3, CalmOnward
<1> QED
  BY <1>3, <1>4, <1>5 DEF Answer, Unauthorized, RenewSession

-----------------------------------------------------------------------------
(* The renewal.                                                             *)

\* The requests whose app's renewal ends.
Settled(a) == {r \in Requests : r \in Mine(a) /\ (r = renewing[a] \/ request[r].pc = "waiting")}

OwnRenewal == \A a \in Apps : renewing[a] \in Mine(a) \cup {None}

LEMMA OwnRenewalStays ==
  ASSUME TypeOK, OwnRenewal, [Next]_vars
  PROVE  OwnRenewal'
<1>1. CASE UNCHANGED renewing
  BY <1>1 DEF OwnRenewal
<1>2. ASSUME NEW a \in Apps, renewing' = [renewing EXCEPT ![a] = None] PROVE OwnRenewal'
  BY <1>2 DEF OwnRenewal, TypeOK
<1>3. ASSUME NEW r \in Requests, renewing' = [renewing EXCEPT ![Of(r)] = r] PROVE OwnRenewal'
  BY <1>3, OfAssumption DEF OwnRenewal, TypeOK, Mine
<1>4. ASSUME NEW r \in Requests,
             \/ Ask(r) \/ ChangePassword(r) \/ SignOut(r)
             \/ Answer(r) \/ Unauthorized(r) \/ RenewSession(r) \/ Clear(r) \/ Changed(r) \/ Lose(r)
             \/ Refresh(r) \/ Issue(r) \/ RevokeSession(r)
             \/ Keep(r) \/ Commit(r) \/ EndOthers(r) \/ OpenForChange(r)
      PROVE  UNCHANGED renewing \/ renewing' = [renewing EXCEPT ![Of(r)] = r]
  BY <1>4 DEF Ask, ChangePassword, SignOut, Answer, Unauthorized, RenewSession, Clear, Changed, Lose,
              Refresh, Issue, RevokeSession, Keep, Commit, EndOthers, OpenForChange
<1>5. ASSUME NEW a \in Apps,
             \/ RefreshTokens(a) \/ Renewed(a) \/ Refused(a) \/ Unavailable(a)
             \/ EndSession(a) \/ Restart(a)
             \/ ValidateCredentials(a) \/ OpenSession(a) \/ SignedIn(a) \/ SignInFails(a)
      PROVE  UNCHANGED renewing \/ renewing' = [renewing EXCEPT ![a] = None]
  BY <1>5 DEF RefreshTokens, Renewed, Refused, Unavailable, Settle, EndSession, Restart,
              ValidateCredentials, OpenSession, SignedIn, SignInFails
<1>6. CASE Reset \/ Disable \/ EndSessions \/ Enable
  BY <1>1, <1>6 DEF Reset, Disable, EndSessions, Enable
<1>7. CASE UNCHANGED vars
  BY <1>1, <1>7 DEF vars
<1> QED
  BY <1>1, <1>2, <1>3, <1>4, <1>5, <1>6, <1>7 DEF Next

\* What the renewal came to, for each of them.
LEMMA SettleCalm ==
  ASSUME TypeOK, Causes, NEW a \in Apps, NEW f,
         request' = [r \in Requests |->
                       IF r \in Mine(a) /\ (r = renewing[a] \/ request[r].pc = "waiting") THEN f[r] ELSE request[r]],
         \A r \in Settled(a) : request[r] # Free /\ (f[r] = Free \/ f[r].op = request[r].op),
         \A r \in Settled(a) : request'[r] = f[r] => Calm(r)
  PROVE  OnlyChange' /\ \A r \in Requests : Calm(r)
<1>1. \A r \in Requests : request'[r] = IF r \in Settled(a) THEN f[r] ELSE request[r]
  BY DEF Settled
<1>2. OnlyChange'
  BY <1>1, OnlyChangeStays DEF Causes
<1>3. \A r \in Requests : Calm(r)
  BY <1>1, SameIsCalm
<1> QED
  BY <1>2, <1>3

\* Whose renewal ends has nothing that is in a change.
LEMMA SettledIs ==
  ASSUME TypeOK, OneRenewal, OwnRenewal, NEW a \in Apps, NEW r \in Settled(a),
         renewing[a] # None
  PROVE  /\ request[r] # Free /\ request[r].pc \notin InChange /\ Of(r) = a
         /\ renewing[a] \in Requests /\ Of(renewing[a]) = a /\ renewing[a] \in Mine(a)
<1>1. renewing[a] \in Requests /\ Of(renewing[a]) = a /\ renewing[a] \in Mine(a)
  BY DEF OwnRenewal, Mine
<1>2. request[r].pc \in Working \cup {"waiting"} /\ Of(r) = a
  BY <1>1, OneRenewalAgain DEF Settled, Mine
<1>3. request[r] # Free /\ request[r].pc \notin InChange
  BY <1>2, FreeIs DEF Working, AtServer, InChange
<1> QED
  BY <1>1, <1>2, <1>3

LEMMA RefreshTokensCalm ==
  ASSUME TypeOK, Causes, OneRenewal, OwnRenewal, NEW a \in Apps, RefreshTokens(a)
  PROVE  Causes'
<1>1. UNCHANGED <<server, stored, signIn, excused>> /\ renewing[a] # None
  BY DEF RefreshTokens
<1>2. /\ renewing[a] \in Requests /\ Of(renewing[a]) = a /\ request[renewing[a]].pc = "asking"
  BY <1>1 DEF OwnRenewal, Mine, RefreshTokens
<1>3. CASE Settle(a, Cleared)
  <2> DEFINE f == [r \in Requests |-> Cleared(r)]
  <2>1. request' = [r \in Requests |->
                     IF r \in Mine(a) /\ (r = renewing[a] \/ request[r].pc = "waiting") THEN f[r] ELSE request[r]]
    BY <1>3 DEF Settle
  <2>2. \A r \in Settled(a) : /\ request[r].pc \in Idle /\ r \in Requests
                              /\ request[r] # Free /\ request[r].pc \notin InChange
    BY <1>1, <1>2, SettledIs DEF Settled, Idle
  <2>3. \A r \in Settled(a) : /\ f[r].pc = "clear" /\ f[r].op = request[r].op
                              /\ f[r].used = request[r].used /\ f[r].got = NoPair
    BY <2>2 DEF Causes, Shaped, Cleared, TypeOK, RequestStates
  <2> HIDE DEF f
  <2>4. ASSUME NEW r \in Settled(a), request'[r] = f[r] PROVE Calm(r)
    <3>1. r \in Requests /\ request[r].pc \notin InChange /\ request'[r].pc = "clear" /\ request'[r].got = NoPair
      BY <2>2, <2>3, <2>4
    <3>2. Known(Of(r), request'[r].used.sid) /\ Known(Of(r), request'[r].got.sid)
      BY <2>3, <2>4, <3>1, RequestKnown, FreeIs DEF Known
    <3> QED
      BY <3>1, <3>2 DEF Calm, Idle, Changing, Refreshing, InChange
  <2>5. OnlyChange' /\ \A r \in Requests : Calm(r)
    BY <2>1, <2>2, <2>3, <2>4, SettleCalm
  <2> QED
    BY <1>1, <2>5, CalmRequest
<1>4. CASE Set(renewing[a], [request[renewing[a]] EXCEPT !.pc = "refresh", !.got = stored[a]])
  <2>1. PICK r \in Requests : r = renewing[a] /\ Of(r) = a /\ request[r].pc = "asking"
    BY <1>2
  <2> DEFINE q == [request[r] EXCEPT !.pc = "refresh", !.got = stored[a]]
  <2>2. q.pc = "refresh" /\ q.op = request[r].op /\ q.used = request[r].used /\ q.got = stored[a]
    BY DEF TypeOK, RequestStates
  <2>3. Set(r, q)
    BY <1>4, <2>1
  <2> HIDE DEF q
  <2>4. ASSUME request'[r] = q PROVE Calm(r)
    <3>1. Known(Of(r), request'[r].used.sid) /\ Known(Of(r), request'[r].got.sid) /\ Sound(request'[r].got)
      BY <2>1, <2>2, <2>4, RequestKnown, StoredFine
    <3>2. request'[r].pc = "refresh" /\ request[r].pc = "asking"
      BY <2>1, <2>2, <2>4
    <3> QED
      BY <3>1, <3>2 DEF Calm, Idle, Changing, InChange
  <2>5. request[r] # Free
    BY <2>1, FreeIs
  <2> QED
    BY <1>1, <2>2, <2>3, <2>4, <2>5, CalmOnward
<1> QED
  BY <1>3, <1>4 DEF RefreshTokens

LEMMA RenewedCalm ==
  ASSUME TypeOK, Causes, OneRenewal, OwnRenewal, NEW a \in Apps, Renewed(a)
  PROVE  Causes'
<1>1. renewing[a] \in Requests /\ Of(renewing[a]) = a /\ request[renewing[a]].pc = "renewed" /\ renewing[a] # None
  BY DEF OwnRenewal, Mine, Renewed
<1>2. PICK p \in Found : p = request[renewing[a]].got
  BY <1>1, Parts, Each
<1>3. Known(a, p.sid) /\ Sound(p)
  BY <1>1, <1>2, RequestKnown DEF Causes, AllCurrent, Refreshing
<1> DEFINE f == [r \in Requests |-> Again(r, p)]
<1>4. request' = [r \in Requests |->
                     IF r \in Mine(a) /\ (r = renewing[a] \/ request[r].pc = "waiting") THEN f[r] ELSE request[r]]
  BY <1>2 DEF Renewed, Settle
<1>5. \A r \in Settled(a) : /\ r \in Requests /\ Of(r) = a
                            /\ request[r] # Free /\ request[r].pc \notin InChange
  BY <1>1, SettledIs DEF Settled
<1>6. \A r \in Settled(a) : /\ f[r].pc = "sent" /\ f[r].op = request[r].op
                            /\ f[r].used = p /\ f[r].got = NoPair
  BY <1>5 DEF Again, TypeOK, RequestStates
<1> HIDE DEF f
<1>7. ASSUME NEW r \in Settled(a), request'[r] = f[r] PROVE Calm(r)
  BY <1>3, <1>5, <1>6, <1>7, IdleIsCalm DEF Idle
<1>8. OnlyChange' /\ \A r \in Requests : Calm(r)
  BY <1>4, <1>5, <1>6, <1>7, SettleCalm
<1>9. CalmServer /\ UNCHANGED signIn
  BY DEF Renewed, CalmServer, server
<1>10. ASSUME NEW b \in Apps PROVE Known(b, stored'[b].sid) /\ Sound(stored'[b])
  <2>1. stored'[b] = IF b = a THEN p ELSE stored[b]
    BY <1>2 DEF Renewed, TypeOK
  <2> QED
    BY <1>3, <2>1, StoredFine
<1> QED
  BY <1>8, <1>9, <1>10, CalmStep

LEMMA RefusedCalm ==
  ASSUME TypeOK, Causes, OneRenewal, OwnRenewal, NEW a \in Apps, Refused(a)
  PROVE  Causes'
<1>1. renewing[a] \in Requests /\ Of(renewing[a]) = a /\ request[renewing[a]].pc = "denied" /\ renewing[a] # None
  BY DEF OwnRenewal, Mine, Refused
<1>2. PICK p \in Found : p = request[renewing[a]].got
  BY <1>1, Parts, Each
<1>3. Known(a, p.sid) /\ (p # NoPair => p.sid \in Over)
  BY <1>1, <1>2, RequestKnown DEF Causes, RefusalsStand
<1> DEFINE f == [r \in Requests |-> [Cleared(r) EXCEPT !.got = p]]
<1>4. request' = [r \in Requests |->
                     IF r \in Mine(a) /\ (r = renewing[a] \/ request[r].pc = "waiting") THEN f[r] ELSE request[r]]
  BY <1>2 DEF Refused, Settle
<1>5. \A r \in Settled(a) : /\ r \in Requests /\ Of(r) = a
                            /\ request[r] # Free /\ request[r].pc \notin InChange
  BY <1>1, SettledIs DEF Settled
<1>6. \A r \in Settled(a) : /\ f[r].pc = "clear" /\ f[r].op = request[r].op
                            /\ f[r].used = request[r].used /\ f[r].got = p
  BY <1>5 DEF Cleared, TypeOK, RequestStates
<1> HIDE DEF f
<1>7. ASSUME NEW r \in Settled(a), request'[r] = f[r] PROVE Calm(r)
  <2>1. r \in Requests /\ request[r].pc \notin InChange /\ request'[r].pc = "clear" /\ request'[r].got = p
    BY <1>5, <1>6, <1>7
  <2>2. Known(Of(r), request'[r].used.sid) /\ Known(Of(r), request'[r].got.sid)
    BY <1>3, <1>5, <1>6, <1>7, <2>1, RequestKnown
  <2> QED
    BY <1>3, <2>1, <2>2 DEF Calm, Idle, Changing, Refreshing, InChange
<1>8. OnlyChange' /\ \A r \in Requests : Calm(r)
  BY <1>4, <1>5, <1>6, <1>7, SettleCalm
<1>9. UNCHANGED <<server, stored, signIn, excused>>
  BY DEF Refused
<1> QED
  BY <1>8, <1>9, CalmRequest

LEMMA UnavailableCalm ==
  ASSUME TypeOK, Causes, OneRenewal, OwnRenewal, NEW a \in Apps, Unavailable(a)
  PROVE  Causes'
<1>1. renewing[a] # None
  BY DEF Unavailable
<1> DEFINE f == [r \in Requests |-> Failed(r)]
<1>2. request' = [r \in Requests |->
                     IF r \in Mine(a) /\ (r = renewing[a] \/ request[r].pc = "waiting") THEN f[r] ELSE request[r]]
  BY DEF Unavailable, Settle
<1>3. \A r \in Settled(a) : /\ r \in Requests /\ f[r] = Free
                            /\ request[r] # Free /\ request[r].pc \notin InChange
  BY <1>1, SettledIs DEF Settled, Failed
<1> HIDE DEF f
<1>4. ASSUME NEW r \in Settled(a), request'[r] = f[r] PROVE Calm(r)
  BY <1>3, <1>4, FreeIsCalm
<1>5. OnlyChange' /\ \A r \in Requests : Calm(r)
  BY <1>2, <1>3, <1>4, SettleCalm
<1>6. UNCHANGED <<server, stored, signIn, excused>>
  BY DEF Unavailable
<1> QED
  BY <1>5, <1>6, CalmRequest

-----------------------------------------------------------------------------
(* What an app drops.                                                       *)

LEMMA ClearCalm ==
  ASSUME TypeOK, Causes, NEW r \in Requests, Clear(r)
  PROVE  Causes'
<1>1. Set(r, Free) /\ request[r].pc = "clear" /\ request[r] # Free
  BY FreeIs DEF Clear
<1>2. request'[r] = Free /\ \A o \in Requests : o # r => request'[o] = request[o]
  BY <1>1, SetIs
<1>3. \A o \in Requests : Calm(o)
  BY <1>1, <1>2, SameIsCalm, FreeIsCalm DEF InChange
<1>4. OnlyChange'
  BY <1>1, <1>2, OnlyChangeStays DEF Causes
<1>5. CalmServer /\ UNCHANGED signIn
  BY DEF Clear, CalmServer, server
<1>6. ASSUME NEW a \in Apps PROVE Known(a, stored'[a].sid) /\ Sound(stored'[a])
  <2>1. stored'[a] \in {stored[a], NoPair}
    BY DEF Clear, TypeOK
  <2> QED
    BY <2>1, StoredFine
<1> QED
  BY <1>3, <1>4, <1>5, <1>6, CalmStep

\* Steps that leave the requests alone.
LEMMA SameRequests ==
  ASSUME TypeOK, Causes, UNCHANGED request
  PROVE  OnlyChange' /\ \A r \in Requests : Calm(r)
BY SameIsCalm, OnlyChangeStays DEF Causes

LEMMA EndSessionCalm ==
  ASSUME TypeOK, Causes, NEW a \in Apps, EndSession(a)
  PROVE  Causes'
<1>1. CalmServer /\ UNCHANGED <<request, signIn>>
  BY DEF EndSession, CalmServer, server
<1>2. ASSUME NEW b \in Apps PROVE Known(b, stored'[b].sid) /\ Sound(stored'[b])
  <2>1. stored'[b] \in {stored[b], NoPair}
    BY DEF EndSession, TypeOK
  <2> QED
    BY <2>1, StoredFine
<1> QED
  BY <1>1, <1>2, SameRequests, CalmStep

LEMMA SignInCalm ==
  ASSUME TypeOK, Causes, NEW a \in Apps, ValidateCredentials(a) \/ SignInFails(a)
  PROVE  Causes'
<1>1. CalmServer /\ UNCHANGED <<request, stored>>
  BY DEF ValidateCredentials, SignInFails, CalmServer, server
<1>2. \A b \in Apps : signIn'[b] = signIn[b] \/ signIn'[b].pair.sid = None
  BY FreeIs DEF TypeOK, ValidateCredentials, SignInFails, NoSignIn, Pair
<1>3. \A b \in Apps : Known(b, stored'[b].sid) /\ Sound(stored'[b])
  BY <1>1, StoredFine
<1> QED
  BY <1>1, <1>2, <1>3, SameRequests, CalmStep

\* What nobody listens to any more.
LEMMA AbandonedIsCalm ==
  ASSUME TypeOK, Causes, NEW r \in Requests, request'[r] = Abandoned(r),
         request[r].pc = "changed" => request[r].got.sid \in excused'
  PROVE  Calm(r)
<1>1. CASE request[r].pc \in Changing \ {"changed"}
  <2>1. /\ request'[r].pc = request[r].pc /\ request'[r].op = request[r].op
        /\ request'[r].used = request[r].used /\ request'[r].got = request[r].got
    BY <1>1 DEF Abandoned, TypeOK, RequestStates
  <2>2. Known(Of(r), request'[r].used.sid) /\ Known(Of(r), request'[r].got.sid)
    BY <2>1, RequestKnown
  <2> QED
    BY <1>1, <2>1, <2>2 DEF Calm, Causes, Shaped, Idle, Changing, Refreshing
<1>2. CASE request[r].pc \notin Changing \ {"changed"}
  <2>1. request'[r] = Free
    BY <1>2 DEF Abandoned
  <2>2. request[r].pc \in InChange => request[r].got.sid \in excused'
    BY <1>2 DEF InChange, Changing
  <2> QED
    BY <2>1, <2>2, FreeIsCalm
<1> QED
  BY <1>1, <1>2

LEMMA AbandonedIs ==
  ASSUME TypeOK, NEW r \in Requests
  PROVE  Abandoned(r) = Free \/ (request[r] # Free /\ Abandoned(r).op = request[r].op)
BY FreeIs DEF Abandoned, Changing, TypeOK, RequestStates

LEMMA LoseCalm ==
  ASSUME TypeOK, Causes, NEW r \in Requests, Lose(r)
  PROVE  Causes'
<1>1. Set(r, Abandoned(r)) /\ UNCHANGED <<server, stored, signIn>> /\ excused \subseteq excused'
  BY DEF Lose
<1>2. request[r].pc = "changed" => request[r].got.sid \in excused'
  BY DEF Lose, UntoldOf
<1>3. request[r] # Free
  BY FreeIs DEF Lose, Changing
<1>4. request'[r] = Abandoned(r) => Calm(r)
  BY <1>2, AbandonedIsCalm
<1> QED
  BY <1>1, <1>3, <1>4, AbandonedIs, CalmOnward

LEMMA RestartCalm ==
  ASSUME TypeOK, Causes, NEW a \in Apps, Restart(a)
  PROVE  Causes'
<1>1. \A r \in Requests : request'[r] = IF r \in Mine(a) THEN Abandoned(r) ELSE request[r]
  BY DEF Restart
<1>2. \A r \in Mine(a) : request[r].pc = "changed" => request[r].got.sid \in excused'
  BY DEF Restart, UntoldOf
<1>3. \A r \in Requests : Calm(r)
  BY <1>1, <1>2, SameIsCalm, AbandonedIsCalm
<1>4. \A r \in Requests : \/ request'[r] = request[r]
                          \/ request[r] # Free /\ (request'[r] = Free \/ request'[r].op = request[r].op)
  BY <1>1, AbandonedIs
<1>5. OnlyChange'
  BY <1>4, OnlyChangeStays DEF Causes
<1>6. CalmServer /\ UNCHANGED stored
  BY DEF Restart, CalmServer, server
<1>7. \A b \in Apps : signIn'[b] = signIn[b] \/ signIn'[b].pair.sid = None
  BY FreeIs DEF TypeOK, Restart, NoSignIn
<1>8. \A b \in Apps : Known(b, stored'[b].sid) /\ Sound(stored'[b])
  BY <1>6, StoredFine
<1> QED
  BY <1>3, <1>5, <1>6, <1>7, <1>8, CalmStep

-----------------------------------------------------------------------------
(* What the backend does, the version and the pairs apart.                  *)

\* A session that is somebody's is there.
LEMMA GotIsThere ==
  ASSUME TypeOK, Causes, NEW r \in Requests
  PROVE  /\ request[r].got.sid \in Sessions => row[request[r].got.sid] \in {"live", "revoked"}
         /\ request[r].used.sid \in Sessions => row[request[r].used.sid] \in {"live", "revoked"}
<1>1. Of(r) \in Apps /\ r \in Mine(Of(r))
  BY OfAssumption DEF Mine
<1>2. \A s \in Sessions : Has(Of(r), s) => row[s] # "none"
  BY <1>1 DEF Causes, Owns
<1>3. \A s \in Sessions : row[s] \in {"none", "live", "revoked"}
  BY DEF TypeOK
<1> QED
  BY <1>1, <1>2, <1>3 DEF Has

\* Refused, at its first look, is a session that is over.
LEMMA RefreshCalm ==
  ASSUME TypeOK, Causes, NEW r \in Requests, Refresh(r)
  PROVE  Causes'
<1> DEFINE c == IF active /\ request[r].got.ver = version THEN "read" ELSE "denied"
           q == [request[r] EXCEPT !.pc = c]
<1>1. /\ request[r].pc = "refresh" /\ UNCHANGED <<server, stored, signIn, excused>>
      /\ request[r].got.sid \in Sessions
  BY Kinds DEF Refresh, TypeOK, AtServer
<1>2. /\ q.pc \in {"read", "denied"} /\ q.op = request[r].op /\ q.used = request[r].used
      /\ q.got = request[r].got /\ (q.pc = "denied" => ~active \/ request[r].got.ver # version)
  BY DEF TypeOK, RequestStates
<1>3. Set(r, q)
  BY DEF Refresh
<1> HIDE DEF q, c
<1>4. Sound(request[r].got)
  BY <1>1 DEF Causes, AllCurrent, Refreshing
<1>5. ASSUME ~active \/ request[r].got.ver # version PROVE request[r].got.sid \in Over
  <2>1. CASE row[request[r].got.sid] = "revoked"
    BY <1>1, <2>1 DEF Over
  <2>2. CASE row[request[r].got.sid] = "live"
    <3>1. request[r].got.sid \in Live
      BY <1>1, <2>2 DEF Live
    <3>2. request[r].got.sid \notin BeingChanged
      BY <1>1, NotChanged DEF Causes, InChange
    <3>3. request[r].got.sid \in excused
      BY <1>4, <1>5, <3>1, <3>2 DEF Sound, Usable, Causes, DisabledEnds
    <3> QED
      BY <3>3 DEF Over
  <2> QED
    BY <1>1, <2>1, <2>2, GotIsThere
<1>6. ASSUME request'[r] = q PROVE Calm(r)
  <2>1. Known(Of(r), request'[r].used.sid) /\ Known(Of(r), request'[r].got.sid)
    BY <1>2, <1>6, RequestKnown
  <2> QED
    BY <1>1, <1>2, <1>4, <1>5, <1>6, <2>1 DEF Calm, Idle, Changing, InChange
<1>7. request[r] # Free
  BY <1>1, FreeIs
<1> QED
  BY <1>1, <1>2, <1>3, <1>6, <1>7, CalmOnward

\* Refused, at its second look, is one that is revoked.
LEMMA DenyCalm ==
  ASSUME TypeOK, Causes, NEW r \in Requests, Issue(r), row[request[r].got.sid] # "live"
  PROVE  Causes'
<1> DEFINE q == [request[r] EXCEPT !.pc = "denied"]
<1>1. /\ request[r].pc = "read" /\ UNCHANGED <<server, stored, signIn, excused>>
      /\ request[r].got.sid \in Sessions
  BY Kinds DEF Issue, TypeOK, AtServer, server
<1>2. /\ q.pc = "denied" /\ q.op = request[r].op /\ q.used = request[r].used /\ q.got = request[r].got
  BY DEF TypeOK, RequestStates
<1>3. Set(r, q)
  BY DEF Issue
<1> HIDE DEF q
<1>4. request[r].got.sid \in Over
  BY <1>1, GotIsThere DEF Over
<1>5. ASSUME request'[r] = q PROVE Calm(r)
  <2>1. Known(Of(r), request'[r].used.sid) /\ Known(Of(r), request'[r].got.sid)
    BY <1>2, <1>5, RequestKnown
  <2> QED
    BY <1>1, <1>2, <1>4, <1>5, <2>1 DEF Calm, Idle, Changing, Refreshing, InChange
<1>6. request[r] # Free
  BY <1>1, FreeIs
<1> QED
  BY <1>1, <1>2, <1>3, <1>5, <1>6, CalmOnward

LEMMA RevokeSessionCalm ==
  ASSUME TypeOK, Causes, NEW r \in Requests, RevokeSession(r)
  PROVE  Causes'
<1>1. Set(r, Free) /\ request[r].pc = "sent" /\ request[r] # Free /\ UNCHANGED <<stored, signIn>>
  BY FreeIs DEF RevokeSession
<1>2. request'[r] = Free /\ \A o \in Requests : o # r => request'[o] = request[o]
  BY <1>1, SetIs
<1>3. \A o \in Requests : Calm(o)
  BY <1>1, <1>2, SameIsCalm, FreeIsCalm DEF InChange
<1>4. OnlyChange'
  BY <1>1, <1>2, OnlyChangeStays DEF Causes
<1>5. CalmServer
  <2>1. \A s \in Sessions : row'[s] = IF s = request[r].used.sid THEN "revoked" ELSE row[s]
    BY DEF RevokeSession, TypeOK
  <2>2. \A s \in Sessions : row'[s] = row[s] \/ (row[s] = "live" /\ row'[s] = "revoked")
    BY <2>1, GotIsThere
  <2> QED
    BY <2>2 DEF CalmServer, RevokeSession
<1>6. \A a \in Apps : Known(a, stored'[a].sid) /\ Sound(stored'[a])
  BY <1>1, StoredFine
<1> QED
  BY <1>1, <1>3, <1>4, <1>5, <1>6, CalmStep

LEMMA KeepCalm ==
  ASSUME TypeOK, Causes, NEW r \in Requests, Keep(r)
  PROVE  Causes'
<1> DEFINE g == Pair(IF row[request[r].used.sid] = "live" THEN request[r].used.sid ELSE None, 0, 0)
           q == [request[r] EXCEPT !.pc = "kept", !.got = g]
<1>1. /\ request[r].pc = "sent" /\ request[r].op = "change" /\ request[r] # Free
      /\ UNCHANGED <<server, stored, signIn, excused>> /\ g.sid \in {request[r].used.sid, None}
  BY FreeIs DEF Keep, Pair
<1> HIDE DEF g
<1>2. q.pc = "kept" /\ q.op = request[r].op /\ q.used = request[r].used /\ q.got = g
  BY DEF TypeOK, RequestStates
<1>3. Set(r, q)
  BY DEF Keep, g
<1> HIDE DEF q
<1>4. ASSUME request'[r] = q PROVE Calm(r)
  <2>1. Known(Of(r), request'[r].used.sid) /\ Known(Of(r), request'[r].got.sid)
    BY <1>1, <1>2, <1>4, RequestKnown DEF Known
  <2> QED
    BY <1>1, <1>2, <1>4, <2>1 DEF Calm, Idle, Changing, Refreshing, InChange
<1> QED
  BY <1>1, <1>2, <1>3, <1>4, CalmOnward

\* Sessions are revoked, and nothing else happens to them.
LEMMA RevokedIs ==
  ASSUME TypeOK, NEW kept, row' \in {Revoked(kept), row}
  PROVE  \A s \in Sessions : row'[s] = row[s] \/ (row[s] = "live" /\ row'[s] = "revoked")
BY DEF Revoked

LEMMA EndSessionsCalm ==
  ASSUME TypeOK, Causes, EndSessions \/ Enable
  PROVE  Causes'
<1>1. UNCHANGED <<version, newest, stored, request, signIn, excused>> /\ active' \in {active, TRUE}
  BY DEF EndSessions, Enable
<1>2. \A s \in Sessions : row'[s] = row[s] \/ (row[s] = "live" /\ row'[s] = "revoked")
  BY RevokedIs DEF EndSessions, RevokesAgain, Enable
<1>3. CalmServer
  BY <1>1, <1>2 DEF CalmServer
<1>4. \A a \in Apps : Known(a, stored'[a].sid) /\ Sound(stored'[a])
  BY <1>1, StoredFine
<1> QED
  BY <1>1, <1>3, <1>4, SameRequests, CalmStep

-----------------------------------------------------------------------------
(* Steps that move the version, or a session's pair.                        *)

\* What every step makes of a request.
Fits(r) ==
  /\ Known(Of(r), request'[r].used.sid) /\ Known(Of(r), request'[r].got.sid)
  /\ request'[r].pc \in Idle => request'[r].got = NoPair
  /\ request'[r].pc \in Changing => request'[r].op = "change"

LEMMA SameFits ==
  ASSUME TypeOK, Causes, NEW r \in Requests, request'[r] = request[r]
  PROVE  Fits(r)
BY RequestKnown DEF Fits, Causes, Shaped

LEMMA FreeFits ==
  ASSUME NEW r \in Requests, request'[r] = Free
  PROVE  Fits(r)
BY FreeIs DEF Fits, Known, Changing

LEMMA StructureStays ==
  ASSUME TypeOK, Causes,
         \A s \in Sessions : row[s] # "none" => row'[s] # "none",
         \A a \in Apps : Known(a, stored'[a].sid),
         UNCHANGED signIn,
         \A r \in Requests : \/ request'[r] = request[r]
                             \/ request[r] # Free /\ (request'[r] = Free \/ request'[r].op = request[r].op),
         \A r \in Requests : Fits(r)
  PROVE  Owns' /\ Shaped' /\ OnlyChange'
<1>1. \A a \in Apps, s \in Sessions : Has(a, s)' => Has(a, s)
  BY KnownStays DEF Fits
<1>2. \A a \in Apps, s \in Sessions : Signing(a, s)' => Signing(a, s)
  BY DEF Signing
<1>3. Owns'
  BY <1>1, <1>2, OwnsStays DEF Causes
<1>4. Shaped'
  BY DEF Shaped, Fits
<1>5. OnlyChange'
  BY OnlyChangeStays DEF Causes
<1> QED
  BY <1>3, <1>4, <1>5

\* No session outlives a reset, or a disabled account.
LEMMA ResetCauses ==
  ASSUME TypeOK, Causes, Reset \/ Disable
  PROVE  Causes'
<1>1. UNCHANGED <<stored, request, signIn, excused>> /\ row' = Revoked(None)
  BY DEF Reset, Disable
<1>2. \A s \in Sessions : row'[s] = row[s] \/ (row[s] = "live" /\ row'[s] = "revoked")
  BY <1>1, RevokedIs
<1>3. Live' = {} /\ Over \subseteq Over'
  <2>1. \A s \in Sessions : row'[s] # "live"
    BY <1>1, Kinds DEF Revoked, TypeOK
  <2> QED
    BY <1>1, <1>2, <2>1 DEF Live, Over
<1>4. Owns' /\ Shaped' /\ OnlyChange'
  BY <1>1, <1>2, StoredFine, SameFits, StructureStays
<1>5. DisabledEnds' /\ AllCurrent' /\ ChangeCurrent'
  BY <1>3 DEF DisabledEnds, AllCurrent, ChangeCurrent, Usable, Sound
<1>6. RefusalsStand'
  BY <1>1, <1>3 DEF Causes, RefusalsStand
<1> QED
  BY <1>4, <1>5, <1>6 DEF Causes

\* The change of the password: the session it keeps is the only one left.
LEMMA CommitCauses ==
  ASSUME TypeOK, Causes, NEW r \in Requests, Commit(r)
  PROVE  Causes'
<1> DEFINE q == [request[r] EXCEPT !.pc = "committed", !.got.ver = version + 1]
<1>1. PICK k \in Sessions \cup {None} : k = request[r].got.sid
  BY Parts, Each, Kinds
<1>2. /\ request[r].pc = "kept" /\ request[r] # Free /\ request[r].pc \in Changing
      /\ UNCHANGED <<active, newest, stored, signIn, excused>>
      /\ version' = version + 1 /\ row' = Revoked(k)
  BY <1>1, FreeIs DEF Commit, Moved, Changing
<1>3. q.pc = "committed" /\ q.op = request[r].op /\ q.used = request[r].used /\ q.got.sid = k /\ q.got.ver = version + 1
  BY <1>1 DEF TypeOK, RequestStates, Found
<1>4. Set(r, q)
  BY DEF Commit
<1> HIDE DEF q
<1>5. request'[r] = q /\ \A o \in Requests : o # r => request'[o] = request[o]
  BY <1>4, SetIs
<1>6. \A s \in Sessions : row'[s] = row[s] \/ (row[s] = "live" /\ row'[s] = "revoked")
  BY <1>2, RevokedIs
<1>7. Live' \subseteq Live /\ Live' \subseteq {k} /\ Over \subseteq Over'
  <2>1. \A s \in Sessions : row'[s] = "live" => s = k /\ row[s] = "live"
    BY <1>2 DEF Revoked, TypeOK
  <2> QED
    BY <1>2, <1>6, <2>1 DEF Live, Over
<1>8. Usable' = {}
  <2>1. k \in BeingChanged'
    BY <1>3, <1>5 DEF BeingChanged
  <2> QED
    BY <1>7, <2>1 DEF Usable
<1>9. Owns' /\ Shaped' /\ OnlyChange'
  <2>1. Fits(r)
    BY <1>1, <1>2, <1>3, <1>5, RequestKnown DEF Fits, Idle, Causes, Shaped
  <2>2. \A o \in Requests : Fits(o)
    BY <1>5, <2>1, SameFits
  <2>3. \A o \in Requests : \/ request'[o] = request[o]
                            \/ request[o] # Free /\ (request'[o] = Free \/ request'[o].op = request[o].op)
    BY <1>2, <1>3, <1>5
  <2>4. \A a \in Apps : Known(a, stored'[a].sid)
    BY <1>2, StoredFine
  <2>5. \A s \in Sessions : row[s] # "none" => row'[s] # "none"
    BY <1>6
  <2> QED
    BY <1>2, <2>2, <2>3, <2>4, <2>5, StructureStays
<1>10. DisabledEnds' /\ AllCurrent'
  BY <1>2, <1>7, <1>8 DEF Causes, DisabledEnds, AllCurrent, Sound
<1>11. ChangeCurrent'
  <2> SUFFICES ASSUME NEW o \in Requests, request'[o].pc \in InChange, request'[o].got.sid \in Live' \ excused'
               PROVE  /\ request'[o].got.ver = version'
                      /\ request'[o].pc = "changed" => newest'[request'[o].got.sid].ver = version'
    BY DEF ChangeCurrent
  <2>1. CASE o = r
    BY <1>2, <1>3, <1>5, <2>1
  <2>2. CASE o # r
    <3>1. request[o].got.sid = request[r].got.sid /\ request[r].got.sid \in Sessions
      BY <1>1, <1>5, <1>7, <2>2 DEF Live
    <3>2. o = r
      BY <1>2, <3>1, ChangeIsAlone DEF Causes
    <3> QED
      BY <2>2, <3>2
  <2> QED
    BY <2>1, <2>2
<1>12. RefusalsStand'
  BY <1>3, <1>5, <1>7 DEF Causes, RefusalsStand
<1> QED
  BY <1>9, <1>10, <1>11, <1>12 DEF Causes

\* A pair is issued to a session that nobody changes, and is of the version
\* of the one it replaces.
LEMMA RenewCauses ==
  ASSUME TypeOK, Causes, NEW r \in Requests, Issue(r), row[request[r].got.sid] = "live"
  PROVE  Causes'
<1> DEFINE q == [request[r] EXCEPT !.pc = "renewed", !.got = Issued(request[r].got)]
<1>1. /\ request[r].pc = "read" /\ request[r] # Free /\ request[r].got.sid \in Sessions
      /\ UNCHANGED <<version, active, row, stored, signIn, excused>>
  BY FreeIs, Kinds DEF Issue, TypeOK, AtServer
<1>2. PICK s \in Sessions : s = request[r].got.sid
  BY <1>1
<1>3. /\ q.pc = "renewed" /\ q.op = request[r].op /\ q.used = request[r].used
      /\ q.got.sid = s /\ q.got.ver = request[r].got.ver
  BY <1>2 DEF TypeOK, RequestStates, Issued, Pair
<1>4. /\ Set(r, q)
      /\ \A t \in Sessions : newest'[t] = IF t = s THEN q.got ELSE newest[t]
  BY <1>2 DEF Issue, TypeOK, RequestStates
<1> HIDE DEF q
<1>5. request'[r] = q /\ \A o \in Requests : o # r => request'[o] = request[o]
  BY <1>4, SetIs
<1>6. Live' = Live /\ Over' = Over /\ BeingChanged' = BeingChanged /\ Usable' = Usable
  <2>1. Live' = Live /\ Over' = Over
    BY <1>1 DEF Live, Over
  <2>2. \A o \in Requests : request'[o].pc \in {"committed", "changed"} <=> request[o].pc \in {"committed", "changed"}
    BY <1>1, <1>3, <1>5
  <2>3. \A o \in Requests : request[o].pc \in {"committed", "changed"} => request'[o] = request[o]
    BY <1>1, <1>5
  <2>4. BeingChanged' = BeingChanged
    BY <2>2, <2>3 DEF BeingChanged
  <2> QED
    BY <1>1, <2>1, <2>4 DEF Usable
<1>7. s \in Usable => q.got.ver = version
  <2>1. Sound(request[r].got)
    BY <1>1 DEF Causes, AllCurrent, Refreshing
  <2> QED
    BY <1>2, <1>3, <2>1 DEF Sound
<1>8. Owns' /\ Shaped' /\ OnlyChange'
  <2>1. Fits(r)
    BY <1>2, <1>3, <1>5, RequestKnown DEF Fits, Idle, Changing
  <2>2. \A o \in Requests : Fits(o)
    BY <1>5, <2>1, SameFits
  <2>3. \A o \in Requests : \/ request'[o] = request[o]
                            \/ request[o] # Free /\ (request'[o] = Free \/ request'[o].op = request[o].op)
    BY <1>1, <1>3, <1>5
  <2>4. \A a \in Apps : Known(a, stored'[a].sid)
    BY <1>1, StoredFine
  <2> QED
    BY <1>1, <2>2, <2>3, <2>4, StructureStays
<1>9. DisabledEnds'
  BY <1>1, <1>6 DEF Causes, DisabledEnds
<1>10. AllCurrent'
  <2>1. \A t \in Usable' : newest'[t].ver = version'
    <3> SUFFICES ASSUME NEW t \in Usable PROVE newest'[t].ver = version
      BY <1>1, <1>6
    <3>1. t \in Sessions /\ newest[t].ver = version
      BY DEF Usable, Live, Causes, AllCurrent
    <3> QED
      BY <1>4, <1>7, <3>1
  <2>2. \A a \in Apps : Sound(stored[a])' /\ Sound(signIn[a].pair)'
    BY <1>1, <1>6 DEF Causes, AllCurrent, Sound
  <2>3. \A o \in Requests : request'[o].pc \in Refreshing => Sound(request[o].got)'
    <3> SUFFICES ASSUME NEW o \in Requests, request'[o].pc \in Refreshing, request'[o].got.sid \in Usable
                 PROVE  request'[o].got.ver = version
      BY <1>1, <1>6 DEF Sound
    <3>1. CASE o = r
      BY <1>3, <1>5, <1>7, <3>1
    <3>2. CASE o # r
      BY <1>5, <3>2 DEF Causes, AllCurrent, Sound
    <3> QED
      BY <3>1, <3>2
  <2> QED
    BY <2>1, <2>2, <2>3 DEF AllCurrent
<1>11. ChangeCurrent'
  <2> SUFFICES ASSUME NEW o \in Requests, request'[o].pc \in InChange, request'[o].got.sid \in Live \ excused
               PROVE  /\ request'[o].got.ver = version
                      /\ request'[o].pc = "changed" => newest'[request'[o].got.sid].ver = version
    BY <1>1, <1>6 DEF ChangeCurrent
  <2>1. o # r /\ request'[o] = request[o]
    BY <1>3, <1>5 DEF InChange
  <2>2. request[o].got.sid \in Sessions /\ request[o].pc \in Changing
    BY <2>1 DEF Live, InChange, Changing
  <2>3. request[o].got.sid # s
    BY <1>2, <2>1, <2>2, ChangeIsAlone DEF Causes
  <2> QED
    BY <1>4, <2>1, <2>2, <2>3 DEF Causes, ChangeCurrent
<1>12. RefusalsStand'
  BY <1>3, <1>5, <1>6 DEF Causes, RefusalsStand
<1> QED
  BY <1>8, <1>9, <1>10, <1>11, <1>12 DEF Causes

\* The pair a change brought is stored, by the app whose session it is.
LEMMA ChangedCauses ==
  ASSUME TypeOK, Causes, NEW r \in Requests, Changed(r)
  PROVE  Causes'
<1>1. /\ request[r].pc = "changed" /\ request[r] # Free /\ request[r].got.sid \in Sessions /\ Of(r) \in Apps
      /\ UNCHANGED <<version, active, row, newest, signIn, excused>> /\ Set(r, Free)
  BY FreeIs, Kinds, OfAssumption DEF Changed, TypeOK, server
<1>2. PICK p \in Pairs : p = request[r].got
  BY <1>1 DEF TypeOK
<1>3. request'[r] = Free /\ \A o \in Requests : o # r => request'[o] = request[o]
  BY <1>1, SetIs
<1>4. \A a \in Apps : stored'[a] = IF a = Of(r) THEN p ELSE stored[a]
  BY <1>2 DEF Changed, TypeOK
<1>5. Live' = Live /\ Over' = Over /\ Usable' \subseteq Usable \cup {p.sid}
  <2>1. Live' = Live /\ Over' = Over
    BY <1>1 DEF Live, Over
  <2>2. \A s \in BeingChanged : s = p.sid \/ s \in BeingChanged'
    BY <1>2, <1>3 DEF BeingChanged
  <2> QED
    BY <1>1, <2>1, <2>2 DEF Usable
<1>6. p.sid \in Usable' => p.ver = version /\ newest[p.sid].ver = version
  <2>1. p.sid \in Usable' => p.sid \in Live \ excused
    BY <1>1, <1>5 DEF Usable
  <2> QED
    BY <1>1, <1>2, <2>1 DEF Causes, ChangeCurrent, InChange
<1>7. \A o \in Requests : o # r => request[o].got.sid # p.sid
  BY <1>1, <1>2, ChangeIsAlone DEF Causes, Changing
<1>8. Has(Of(r), p.sid)
  BY <1>1, <1>2 DEF Has, Mine
<1>9. Owns' /\ Shaped' /\ OnlyChange'
  <2>1. \A o \in Requests : Fits(o)
    BY <1>3, SameFits, FreeFits
  <2>2. \A o \in Requests : \/ request'[o] = request[o]
                            \/ request[o] # Free /\ (request'[o] = Free \/ request'[o].op = request[o].op)
    BY <1>1, <1>3
  <2>3. \A a \in Apps : Known(a, stored'[a].sid)
    BY <1>4, <1>8, StoredFine DEF Known
  <2> QED
    BY <1>1, <2>1, <2>2, <2>3, StructureStays
<1>10. DisabledEnds'
  BY <1>1, <1>5 DEF Causes, DisabledEnds
<1>11. AllCurrent'
  <2>1. \A s \in Usable' : newest[s].ver = version
    BY <1>5, <1>6 DEF Causes, AllCurrent
  <2>2. \A a \in Apps : stored'[a].sid \in Usable' => stored'[a].ver = version
    <3> SUFFICES ASSUME NEW a \in Apps, stored'[a].sid \in Usable' PROVE stored'[a].ver = version
      OBVIOUS
    <3>1. CASE a = Of(r)
      BY <1>4, <1>6, <3>1
    <3>2. CASE a # Of(r)
      <4>1. stored'[a] = stored[a]
        BY <1>4, <3>2
      <4>2. stored[a].sid # p.sid
        BY <1>1, <1>2, <1>8, <3>2 DEF Causes, Owns, Has
      <4> QED
        BY <1>5, <4>1, <4>2 DEF Causes, AllCurrent, Sound
    <3> QED
      BY <3>1, <3>2
  <2>3. \A a \in Apps : signIn[a].pair.sid \in Usable' => signIn[a].pair.ver = version
    <3> SUFFICES ASSUME NEW a \in Apps, signIn[a].pair.sid \in Usable' PROVE signIn[a].pair.ver = version
      OBVIOUS
    <3>1. signIn[a].pair.sid # p.sid
      BY <1>1, <1>2, <1>8 DEF Causes, Owns, Signing
    <3> QED
      BY <1>5, <3>1 DEF Causes, AllCurrent, Sound
  <2>4. \A o \in Requests : request'[o].pc \in Refreshing /\ request'[o].got.sid \in Usable' => request'[o].got.ver = version
    BY <1>3, <1>5, <1>7, FreeIs DEF Causes, AllCurrent, Sound, Refreshing
  <2> QED
    BY <1>1, <2>1, <2>2, <2>3, <2>4 DEF AllCurrent, Sound
<1>12. ChangeCurrent' /\ RefusalsStand'
  BY <1>1, <1>3, <1>5, FreeIs DEF Causes, ChangeCurrent, RefusalsStand, InChange
<1> QED
  BY <1>9, <1>10, <1>11, <1>12 DEF Causes

\* What the answer to a change is: the app has the pair, or nobody.
LEMMA ToldIs ==
  ASSUME TypeOK, NEW r \in Requests, NEW p
  PROVE  \/ /\ request[r].heard /\ Told(r, p).pc = "changed" /\ Told(r, p).got = p
            /\ Told(r, p).op = request[r].op /\ Told(r, p).used = request[r].used
         \/ ~request[r].heard /\ Told(r, p) = Free
BY DEF Told, TypeOK, RequestStates

\* The kept session's new pair is of the change's version.
LEMMA EndOthersCauses ==
  ASSUME TypeOK, Causes, NEW r \in Requests, EndOthers(r)
  PROVE  Causes'
<1>1. /\ request[r].pc = "committed" /\ request[r] # Free /\ request[r].op = "change"
      /\ UNCHANGED <<version, active, stored, signIn>>
  BY FreeIs DEF EndOthers, Causes, Shaped, Changing
<1>2. PICK p \in Found : p = request[r].got
  BY Parts, Each
<1>3. \A s \in Sessions : row'[s] = row[s] \/ (row[s] = "live" /\ row'[s] = "revoked")
  BY RevokedIs DEF EndOthers, RevokesAgain
<1>4. CASE p.sid = None
  <2> DEFINE q == [request[r] EXCEPT !.pc = "opening"]
  <2>1. q.pc = "opening" /\ q.op = request[r].op /\ q.used = request[r].used /\ q.got = request[r].got
    BY DEF TypeOK, RequestStates
  <2>2. Set(r, q) /\ UNCHANGED <<newest, excused>>
    BY <1>2, <1>4 DEF EndOthers
  <2> HIDE DEF q
  <2>3. request'[r] = q /\ \A o \in Requests : o # r => request'[o] = request[o]
    BY <2>2, SetIs
  <2>4. Calm(r)
    <3>1. Known(Of(r), request'[r].used.sid) /\ Known(Of(r), request'[r].got.sid)
      BY <2>1, <2>3, RequestKnown
    <3> QED
      BY <1>1, <1>2, <1>4, <2>1, <2>3, <3>1 DEF Calm, Idle, Refreshing, InChange
  <2>5. \A o \in Requests : Calm(o)
    BY <2>3, <2>4, SameIsCalm
  <2>6. OnlyChange'
    BY <1>1, <2>1, <2>3, OnlyChangeStays DEF Causes
  <2>7. CalmServer
    BY <1>1, <1>3, <2>2 DEF CalmServer
  <2>8. \A a \in Apps : Known(a, stored'[a].sid) /\ Sound(stored'[a])
    BY <1>1, StoredFine
  <2> QED
    BY <1>1, <2>5, <2>6, <2>7, <2>8, CalmStep
<1>5. CASE p.sid # None
  <2>1. PICK s \in Sessions : s = p.sid
    BY <1>5, Kinds
  <2>2. PICK new : new = Issued(p)
    OBVIOUS
  <2>3. new.sid = s /\ new.ver = p.ver
    BY <2>1, <2>2 DEF Issued, Pair
  <2>4. /\ Set(r, Told(r, new))
        /\ \A t \in Sessions : newest'[t] = IF t = s THEN new ELSE newest[t]
        /\ excused' = IF request[r].heard THEN excused ELSE excused \cup {s}
    BY <1>2, <1>5, <2>1, <2>2 DEF EndOthers, TypeOK
  <2>5. request'[r] = Told(r, new) /\ \A o \in Requests : o # r => request'[o] = request[o]
    BY <2>4, SetIs
  <2>6. Live' \subseteq Live /\ Over \subseteq Over' /\ excused \subseteq excused' /\ None \notin Live
    BY <1>3, <2>4, Kinds DEF Live, Over
  <2>7. Usable' \subseteq Usable \ {s}
    <3>1. \A t \in BeingChanged : t \in BeingChanged' \cup excused'
      BY <1>2, <2>1, <2>3, <2>4, <2>5, ToldIs DEF BeingChanged
    <3>2. s \in BeingChanged
      BY <1>1, <1>2, <2>1 DEF BeingChanged
    <3> QED
      BY <2>6, <3>1, <3>2 DEF Usable
  <2>8. Fits(r)
    <3>1. Known(Of(r), new.sid) /\ Known(Of(r), request[r].used.sid)
      BY <1>2, <2>1, <2>3, RequestKnown
    <3> QED
      BY <1>1, <2>5, <3>1, ToldIs, FreeFits DEF Fits, Idle
  <2>9. Owns' /\ Shaped' /\ OnlyChange'
    <3>1. \A o \in Requests : Fits(o)
      BY <2>5, <2>8, SameFits
    <3>2. \A o \in Requests : \/ request'[o] = request[o]
                              \/ request[o] # Free /\ (request'[o] = Free \/ request'[o].op = request[o].op)
      BY <1>1, <2>5, ToldIs
    <3>3. \A a \in Apps : Known(a, stored'[a].sid)
      BY <1>1, StoredFine
    <3>4. \A t \in Sessions : row[t] # "none" => row'[t] # "none"
      BY <1>3
    <3> QED
      BY <1>1, <3>1, <3>2, <3>3, <3>4, StructureStays
  <2>10. DisabledEnds'
    BY <1>1, <2>6 DEF Causes, DisabledEnds
  <2>11. AllCurrent'
    <3>1. \A t \in Usable' : newest'[t].ver = version
      <4> SUFFICES ASSUME NEW t \in Usable' PROVE newest'[t].ver = version
        OBVIOUS
      <4>1. t \in Usable /\ t # s
        BY <2>7
      <4>2. t \in Sessions /\ newest[t].ver = version
        BY <4>1 DEF Usable, Live, Causes, AllCurrent
      <4> QED
        BY <2>4, <4>1, <4>2
    <3>2. \A a \in Apps : Sound(stored[a])' /\ Sound(signIn[a].pair)'
      BY <1>1, <2>7 DEF Causes, AllCurrent, Sound
    <3>3. \A o \in Requests : request'[o].pc \in Refreshing /\ request'[o].got.sid \in Usable' => request'[o].got.ver = version
      BY <2>5, <2>7, ToldIs, FreeIs DEF Causes, AllCurrent, Sound, Refreshing
    <3> QED
      BY <1>1, <3>1, <3>2, <3>3 DEF AllCurrent, Sound
  <2>12. ChangeCurrent'
    <3> SUFFICES ASSUME NEW o \in Requests, request'[o].pc \in InChange, request'[o].got.sid \in Live' \ excused'
                 PROVE  /\ request'[o].got.ver = version
                        /\ request'[o].pc = "changed" => newest'[request'[o].got.sid].ver = version
      BY <1>1 DEF ChangeCurrent
    <3>1. CASE o = r
      <4>1. request'[o].got = new
        BY <2>5, <3>1, ToldIs, FreeIs DEF InChange
      <4>2. s \in Live \ excused
        BY <2>3, <2>6, <4>1
      <4>3. p.ver = version
        BY <1>1, <1>2, <2>1, <4>2 DEF Causes, ChangeCurrent, InChange
      <4> QED
        BY <2>3, <2>4, <4>1, <4>3
    <3>2. CASE o # r
      <4>1. request'[o] = request[o] /\ request[o].got.sid \in Live \ excused
        BY <2>5, <2>6, <3>2
      <4>2. request[r].pc \in Changing /\ request[r].got.sid = s
        BY <1>1, <1>2, <2>1 DEF Changing
      <4>3. request[o].got.sid # s
        BY <3>2, <4>2, ChangeIsAlone DEF Causes
      <4>4. newest'[request[o].got.sid] = newest[request[o].got.sid]
        BY <2>4, <4>1, <4>3 DEF Live
      <4> QED
        BY <4>1, <4>4 DEF Causes, ChangeCurrent
    <3> QED
      BY <3>1, <3>2
  <2>13. RefusalsStand'
    BY <2>5, <2>6, ToldIs, FreeIs DEF Causes, RefusalsStand
  <2> QED
    BY <2>9, <2>10, <2>11, <2>12, <2>13 DEF Causes
<1> QED
  BY <1>4, <1>5

\* The sign-in's pair is stored, by the app that is signed in.
LEMMA SignedInCauses ==
  ASSUME TypeOK, Causes, NEW a \in Apps, SignedIn(a)
  PROVE  Causes'
<1>1. PICK p \in Pairs : p = signIn[a].pair
  BY DEF SignedIn, TypeOK
<1>2. UNCHANGED <<server, request, excused>>
  BY DEF SignedIn
<1>3. \A b \in Apps : stored'[b] = IF b = a THEN p ELSE stored[b]
  BY <1>1 DEF SignedIn, TypeOK
<1>4. \A b \in Apps : signIn'[b] = IF b = a THEN NoSignIn ELSE signIn[b]
  BY DEF SignedIn, TypeOK
<1>5. Live' = Live /\ Over' = Over /\ Usable' = Usable
  BY <1>2 DEF Live, Over, Usable, BeingChanged, server
<1>6. Owns'
  <2>1. \A b \in Apps, s \in Sessions : Has(b, s)' => Has(b, s) \/ (b = a /\ Signing(a, s))
    BY <1>1, <1>2, <1>3 DEF Has, Mine, Signing
  <2>2. \A b \in Apps, s \in Sessions : Signing(b, s)' => Signing(b, s) /\ b # a
    BY <1>4, FreeIs, Kinds DEF Signing, NoSignIn
  <2>3. row' = row
    BY <1>2 DEF server
  <2> QED
    BY <2>1, <2>2, <2>3 DEF Causes, Owns
<1>7. Shaped' /\ OnlyChange' /\ DisabledEnds' /\ ChangeCurrent' /\ RefusalsStand'
  BY <1>2, <1>5 DEF server, Causes, Shaped, OnlyChange, DisabledEnds, ChangeCurrent, RefusalsStand
<1>8. AllCurrent'
  <2>1. Sound(p) /\ Sound(NoPair)
    BY <1>1, StoredFine DEF Causes, AllCurrent
  <2>2. \A b \in Apps : Sound(stored'[b]) /\ Sound(signIn'[b].pair)
    BY <1>3, <1>4, <2>1 DEF Causes, AllCurrent, NoSignIn
  <2> QED
    BY <1>2, <1>5, <2>2 DEF server, Causes, AllCurrent, Sound
<1> QED
  BY <1>6, <1>7, <1>8 DEF Causes

\* A session that is opened is nobody's yet, and current or excused.
LEMMA OpensIs ==
  ASSUME TypeOK, Causes, NEW s \in Sessions, NEW v, Opens(s, v), UNCHANGED <<version, active>>
  PROVE  /\ \A t \in Sessions : row'[t] = IF t = s THEN "live" ELSE row[t]
         /\ \A t \in Sessions : newest'[t] = IF t = s THEN Pair(s, v, 1) ELSE newest[t]
         /\ \A a \in Apps : ~Has(a, s) /\ ~Signing(a, s)
         /\ \A r \in Requests : request[r].got.sid # s
         /\ Live' = Live \cup {s} /\ Over \subseteq Over'
         /\ excused' \in {excused, excused \cup {s}}
         /\ s \notin excused' => active /\ v = version
<1>1. row[s] = "none" /\ s # None
  BY Kinds DEF Opens, NewSession, Unopened
<1>2. \A t \in Sessions : row'[t] = IF t = s THEN "live" ELSE row[t]
  BY DEF Opens, TypeOK
<1>3. \A t \in Sessions : newest'[t] = IF t = s THEN Pair(s, v, 1) ELSE newest[t]
  BY DEF Opens, TypeOK
<1>4. \A a \in Apps : ~Has(a, s) /\ ~Signing(a, s)
  BY <1>1 DEF Causes, Owns
<1>5. \A r \in Requests : request[r].got.sid # s
  BY <1>4, OfAssumption DEF Has, Mine
<1>6. excused' \in {excused, excused \cup {s}} /\ (s \notin excused' => active /\ v = version)
  BY DEF Opens
<1>7. Live' = Live \cup {s} /\ Over \subseteq Over'
  BY <1>1, <1>2, <1>6 DEF Live, Over
<1> QED
  BY <1>2, <1>3, <1>4, <1>5, <1>6, <1>7

\* A request is told of the session that was opened for it.
LEMMA OpenForChangeCauses ==
  ASSUME TypeOK, Causes, NEW r \in Requests, OpenForChange(r)
  PROVE  Causes'
<1>1. /\ request[r].pc = "opening" /\ request[r] # Free /\ request[r].op = "change" /\ Of(r) \in Apps
      /\ UNCHANGED <<version, active, stored, signIn>>
  BY FreeIs, OfAssumption DEF OpenForChange, Causes, Shaped, Changing
<1>2. PICK s \in Sessions : Opens(s, request[r].got.ver) /\ Set(r, Told(r, Pair(s, request[r].got.ver, 1)))
  BY DEF OpenForChange
<1>3. PICK v : v = request[r].got.ver
  OBVIOUS
<1>4. PICK new : new = Pair(s, v, 1)
  OBVIOUS
<1>5. new.sid = s /\ new.ver = v
  BY <1>4 DEF Pair
<1>6. request'[r] = Told(r, new) /\ \A o \in Requests : o # r => request'[o] = request[o]
  BY <1>2, <1>3, <1>4, SetIs
<1>7. /\ \A t \in Sessions : row'[t] = IF t = s THEN "live" ELSE row[t]
      /\ \A t \in Sessions : newest'[t] = IF t = s THEN new ELSE newest[t]
      /\ \A a \in Apps : ~Has(a, s) /\ ~Signing(a, s)
      /\ \A o \in Requests : request[o].got.sid # s
      /\ Live' = Live \cup {s} /\ Over \subseteq Over'
      /\ excused' \in {excused, excused \cup {s}}
      /\ s \notin excused' => active /\ v = version
  BY <1>1, <1>2, <1>3, <1>4, OpensIs
<1>8. Usable' \subseteq Usable \cup {s}
  <2>1. \A t \in BeingChanged : t \in BeingChanged'
    BY <1>1, <1>6 DEF BeingChanged
  <2> QED
    BY <1>7, <2>1 DEF Usable
<1>9. Shaped' /\ OnlyChange'
  <2>1. \A o \in Requests : \/ request'[o] = request[o]
                            \/ request[o] # Free /\ (request'[o] = Free \/ request'[o].op = request[o].op)
    BY <1>1, <1>6, ToldIs
  <2>2. OnlyChange'
    BY <2>1, OnlyChangeStays DEF Causes
  <2>3. Shaped'
    BY <1>1, <1>6, ToldIs, FreeIs DEF Causes, Shaped, Idle, Changing
  <2> QED
    BY <2>2, <2>3
<1>10. Owns'
  <2>1. \A a \in Apps, t \in Sessions : Has(a, t)' => Has(a, t) \/ (a = Of(r) /\ t = s)
    <3> SUFFICES ASSUME NEW a \in Apps, NEW t \in Sessions, Has(a, t)', ~Has(a, t)
                 PROVE  a = Of(r) /\ t = s
      OBVIOUS
    <3>1. PICK o \in Mine(a) : request'[o].used.sid = t \/ request'[o].got.sid = t
      BY <1>1 DEF Has, Mine
    <3>2. o = r
      BY <1>6, <3>1 DEF Has, Mine
    <3>3. request'[r].used.sid \in {request[r].used.sid, None} /\ request'[r].got.sid \in {s, None}
      BY <1>5, <1>6, ToldIs, FreeIs
    <3> QED
      BY <3>1, <3>2, <3>3, Kinds DEF Has, Mine
  <2>2. \A a \in Apps, t \in Sessions : Signing(a, t)' => Signing(a, t)
    BY <1>1 DEF Signing
  <2>3. \A t \in Sessions : t = s \/ row[t] # "none" => row'[t] # "none"
    BY <1>7
  <2> QED
    BY <1>7, <2>1, <2>2, <2>3 DEF Causes, Owns
<1>11. DisabledEnds'
  BY <1>1, <1>7 DEF Causes, DisabledEnds
<1>12. AllCurrent'
  <2>1. \A t \in Usable' : newest'[t].ver = version
    <3> SUFFICES ASSUME NEW t \in Usable' PROVE newest'[t].ver = version
      OBVIOUS
    <3>1. CASE t = s
      BY <1>5, <1>7, <3>1 DEF Usable
    <3>2. CASE t # s
      BY <1>7, <1>8, <3>2 DEF Usable, Live, Causes, AllCurrent
    <3> QED
      BY <3>1, <3>2
  <2>2. \A a \in Apps : stored[a].sid # s /\ signIn[a].pair.sid # s
    BY <1>7 DEF Has, Signing
  <2>3. \A a \in Apps : Sound(stored[a])' /\ Sound(signIn[a].pair)'
    BY <1>1, <1>8, <2>2 DEF Causes, AllCurrent, Sound
  <2>4. \A o \in Requests : request'[o].pc \in Refreshing /\ request'[o].got.sid \in Usable' => request'[o].got.ver = version
    BY <1>6, <1>7, <1>8, ToldIs, FreeIs DEF Causes, AllCurrent, Sound, Refreshing
  <2> QED
    BY <1>1, <2>1, <2>3, <2>4 DEF AllCurrent, Sound
<1>13. ChangeCurrent'
  <2> SUFFICES ASSUME NEW o \in Requests, request'[o].pc \in InChange, request'[o].got.sid \in Live' \ excused'
               PROVE  /\ request'[o].got.ver = version
                      /\ request'[o].pc = "changed" => newest'[request'[o].got.sid].ver = version
    BY <1>1 DEF ChangeCurrent
  <2>1. CASE o = r
    <3>1. request'[o].got = new
      BY <1>6, <2>1, ToldIs, FreeIs DEF InChange
    <3> QED
      BY <1>5, <1>7, <3>1
  <2>2. CASE o # r
    <3>1. request'[o] = request[o] /\ request[o].got.sid # s /\ request[o].got.sid \in Live \ excused
      BY <1>6, <1>7, <2>2
    <3>2. newest'[request[o].got.sid] = newest[request[o].got.sid]
      BY <1>7, <3>1 DEF Live
    <3> QED
      BY <3>1, <3>2 DEF Causes, ChangeCurrent
  <2> QED
    BY <2>1, <2>2
<1>14. RefusalsStand'
  BY <1>6, <1>7, ToldIs, FreeIs DEF Causes, RefusalsStand
<1> QED
  BY <1>9, <1>10, <1>11, <1>12, <1>13, <1>14 DEF Causes

\* The app that signs in is the one that is to have the session.
LEMMA OpenSessionCauses ==
  ASSUME TypeOK, Causes, NEW a \in Apps, OpenSession(a)
  PROVE  Causes'
<1>1. UNCHANGED <<version, active, stored, request>>
  BY DEF OpenSession
<1>2. PICK s \in Sessions :
        /\ Opens(s, signIn[a].pair.ver)
        /\ signIn' = [signIn EXCEPT ![a] = [pc |-> "opened", pair |-> Pair(s, signIn[a].pair.ver, 1)]]
  BY DEF OpenSession
<1>3. PICK v : v = signIn[a].pair.ver
  OBVIOUS
<1>4. PICK new : new = Pair(s, v, 1)
  OBVIOUS
<1>5. new.sid = s /\ new.ver = v
  BY <1>4 DEF Pair
<1>6. \A b \in Apps : signIn'[b].pair = IF b = a THEN new ELSE signIn[b].pair
  BY <1>2, <1>3, <1>4 DEF TypeOK
<1>7. /\ \A t \in Sessions : row'[t] = IF t = s THEN "live" ELSE row[t]
      /\ \A t \in Sessions : newest'[t] = IF t = s THEN new ELSE newest[t]
      /\ \A b \in Apps : ~Has(b, s) /\ ~Signing(b, s)
      /\ \A o \in Requests : request[o].got.sid # s
      /\ Live' = Live \cup {s} /\ Over \subseteq Over'
      /\ excused' \in {excused, excused \cup {s}}
      /\ s \notin excused' => active /\ v = version
  BY <1>1, <1>2, <1>3, <1>4, OpensIs
<1>8. Usable' \subseteq Usable \cup {s}
  BY <1>1, <1>7 DEF Usable, BeingChanged
<1>9. Shaped' /\ OnlyChange'
  BY <1>1 DEF Causes, Shaped, OnlyChange
<1>10. Owns'
  <2>1. \A b \in Apps, t \in Sessions : Has(b, t)' => Has(b, t)
    BY <1>1 DEF Has
  <2>2. \A b \in Apps, t \in Sessions : Signing(b, t)' => Signing(b, t) \/ (b = a /\ t = s)
    BY <1>5, <1>6 DEF Signing
  <2>3. \A t \in Sessions : t = s \/ row[t] # "none" => row'[t] # "none"
    BY <1>7
  <2> QED
    BY <1>7, <2>1, <2>2, <2>3 DEF Causes, Owns
<1>11. DisabledEnds'
  BY <1>1, <1>7 DEF Causes, DisabledEnds
<1>12. AllCurrent'
  <2>1. \A t \in Usable' : newest'[t].ver = version
    <3> SUFFICES ASSUME NEW t \in Usable' PROVE newest'[t].ver = version
      OBVIOUS
    <3>1. CASE t = s
      BY <1>5, <1>7, <3>1 DEF Usable
    <3>2. CASE t # s
      BY <1>7, <1>8, <3>2 DEF Usable, Live, Causes, AllCurrent
    <3> QED
      BY <3>1, <3>2
  <2>2. \A b \in Apps : stored[b].sid # s /\ signIn[b].pair.sid # s
    BY <1>7 DEF Has, Signing
  <2>3. \A b \in Apps : Sound(stored[b])'
    BY <1>1, <1>8, <2>2 DEF Causes, AllCurrent, Sound
  <2>4. \A b \in Apps : signIn'[b].pair.sid \in Usable' => signIn'[b].pair.ver = version
    <3> SUFFICES ASSUME NEW b \in Apps, signIn'[b].pair.sid \in Usable' PROVE signIn'[b].pair.ver = version
      OBVIOUS
    <3>1. CASE b = a
      BY <1>5, <1>6, <1>7, <3>1 DEF Usable
    <3>2. CASE b # a
      BY <1>6, <1>8, <2>2, <3>2 DEF Causes, AllCurrent, Sound
    <3> QED
      BY <3>1, <3>2
  <2>5. \A o \in Requests : request'[o].pc \in Refreshing => Sound(request[o].got)'
    BY <1>1, <1>7, <1>8 DEF Causes, AllCurrent, Sound
  <2> QED
    BY <1>1, <2>1, <2>3, <2>4, <2>5 DEF AllCurrent, Sound
<1>13. ChangeCurrent'
  <2> SUFFICES ASSUME NEW o \in Requests, request[o].pc \in InChange, request[o].got.sid \in Live' \ excused'
               PROVE  /\ request[o].got.ver = version
                      /\ request[o].pc = "changed" => newest'[request[o].got.sid].ver = version
    BY <1>1 DEF ChangeCurrent
  <2>1. request[o].got.sid # s /\ request[o].got.sid \in Live \ excused
    BY <1>7
  <2>2. newest'[request[o].got.sid] = newest[request[o].got.sid]
    BY <1>7, <2>1 DEF Live
  <2> QED
    BY <2>1, <2>2 DEF Causes, ChangeCurrent
<1>14. RefusalsStand'
  BY <1>1, <1>7 DEF Causes, RefusalsStand
<1> QED
  BY <1>9, <1>10, <1>11, <1>12, <1>13, <1>14 DEF Causes

-----------------------------------------------------------------------------
LEMMA UnchangedCauses ==
  ASSUME Causes, UNCHANGED vars
  PROVE  Causes'
BY DEF vars, Causes, Owns, Has, Mine, Signing, Shaped, OnlyChange, DisabledEnds, AllCurrent, ChangeCurrent,
       RefusalsStand, Sound, Usable, Live, BeingChanged, Over

LEMMA NextCauses ==
  ASSUME "change" \notin Races, TypeOK, OneRenewal, OwnRenewal, Causes, [Next]_vars
  PROVE  Causes'
<1>1. ASSUME NEW r \in Requests,
             \/ Ask(r) \/ ChangePassword(r) \/ SignOut(r)
             \/ Answer(r) \/ Unauthorized(r) \/ RenewSession(r) \/ Clear(r) \/ Changed(r) \/ Lose(r)
             \/ Refresh(r) \/ Issue(r) \/ RevokeSession(r)
             \/ Keep(r) \/ Commit(r) \/ EndOthers(r) \/ OpenForChange(r)
      PROVE  Causes'
  <2>1. CASE Ask(r) \/ ChangePassword(r) \/ SignOut(r)
    BY <2>1, SendCalm DEF Ask, ChangePassword, SignOut
  <2>2. CASE Issue(r)
    BY <2>2, DenyCalm, RenewCauses
  <2> QED
    BY <1>1, <2>1, <2>2, PlainCalm, ClearCalm, ChangedCauses, LoseCalm, RefreshCalm, RevokeSessionCalm,
       KeepCalm, CommitCauses, EndOthersCauses, OpenForChangeCauses
<1>2. ASSUME NEW a \in Apps,
             \/ RefreshTokens(a) \/ Renewed(a) \/ Refused(a) \/ Unavailable(a)
             \/ EndSession(a) \/ Restart(a)
             \/ ValidateCredentials(a) \/ OpenSession(a) \/ SignedIn(a) \/ SignInFails(a)
      PROVE  Causes'
  BY <1>2, RefreshTokensCalm, RenewedCalm, RefusedCalm, UnavailableCalm, EndSessionCalm, RestartCalm,
     SignInCalm, OpenSessionCauses, SignedInCauses
<1>3. CASE Reset \/ Disable \/ EndSessions \/ Enable
  BY <1>3, ResetCauses, EndSessionsCalm
<1> QED
  BY <1>1, <1>2, <1>3, UnchangedCauses DEF Next

LEMMA InitCauses == Init => Causes /\ OwnRenewal
<1> SUFFICES ASSUME Init PROVE Causes /\ OwnRenewal
  OBVIOUS
<1>1. /\ \A a \in Apps : stored[a] = NoPair /\ signIn[a].pair = NoPair /\ renewing[a] = None
      /\ \A r \in Requests : request[r] = Free
  BY DEF Init, NoSignIn
<1>2. Live = {}
  BY DEF Init, Live
<1>3. Owns
  <2>1. \A a \in Apps, s \in Sessions : ~Has(a, s) /\ ~Signing(a, s)
    BY <1>1, FreeIs, Kinds DEF Has, Mine, Signing
  <2> QED
    BY <2>1 DEF Owns
<1>4. Shaped /\ OnlyChange
  BY <1>1, FreeIs DEF Shaped, OnlyChange, Changing
<1>5. DisabledEnds /\ AllCurrent /\ ChangeCurrent
  BY <1>2 DEF DisabledEnds, AllCurrent, ChangeCurrent, Usable, Sound
<1>6. RefusalsStand
  BY <1>1, FreeIs DEF RefusalsStand
<1>7. OwnRenewal
  BY <1>1 DEF OwnRenewal
<1> QED
  BY <1>3, <1>4, <1>5, <1>6, <1>7 DEF Causes

\* What the two invariants rest on: a session is one app's and once; every
\* pair of a usable one that may still be stored, wherever it is under way, is
\* of the account's version; what was refused is over.  With the race "change"
\* a renewal read before the app's own change may be stored after its pair.
THEOREM CausesHold ==
  ASSUME "change" \notin Races
  PROVE  Spec => []Causes
<1> DEFINE All == TypeOK /\ OneRenewal /\ OwnRenewal /\ Causes
<1>1. Init => All
  BY InitType, InitCauses, RequestsAssumption, OfAssumption DEF Init, OneRenewal, Free, AtServer
<1>2. ASSUME All, [Next]_vars PROVE All'
  BY <1>2, NextType, NextKeeps, OwnRenewalStays, NextCauses
<1>3. All => Causes
  OBVIOUS
<1> HIDE DEF All
<1> QED
  BY <1>1, <1>2, <1>3, PTL DEF Spec

\* An app drops a session as refused only when it was ended: signed out,
\* reset, disabled, or the password changed elsewhere (customer-auth.service.ts,
\* refresh; api.ts, renewSession and announceSessionRevoked).
THEOREM OnlyForCause ==
  ASSUME "change" \notin Races
  PROVE  Spec => []RefusedForCause
<1>1. Causes => RefusedForCause
  BY DEF Causes, RefusalsStand, RefusedForCause, Over
<1> QED
  BY <1>1, CausesHold, PTL

\* A session nobody ended can be renewed: the last pair issued to it, and what
\* any app has stored of it, is of the account's version
\* (customer-auth.service.ts, issueTokenPair and changePassword).
THEOREM LiveStaysCurrent ==
  ASSUME "change" \notin Races
  PROVE  Spec => []LiveIsCurrent
<1>1. Causes => LiveIsCurrent
  BY DEF Causes, AllCurrent, Sound, Usable, LiveIsCurrent
<1> QED
  BY <1>1, CausesHold, PTL
=============================================================================
