-------------------------- MODULE CustomerSessions --------------------------
(***************************************************************************)
(* The sign-ins of one customer: the sessions the backend keeps for it       *)
(* (customer-auth.service.ts, customers.service.ts) and the apps that hold   *)
(* their tokens (apps/desktop-windows/src/lib/api.ts, auth.ts, session.ts).  *)
(*                                                                         *)
(* A pair of tokens names a session and the version of the account it was    *)
(* issued under.  An access token is good until it expires, whatever became  *)
(* of the session; a refresh token is good while the session is not revoked  *)
(* and the account is still at that version.  A new password, a reset and a   *)
(* disabled account move the version on and revoke the sessions.             *)
(*                                                                         *)
(* An app has several requests under way at once.  One whose access token    *)
(* has expired renews the pair, once for all of them, and is sent again.     *)
(*                                                                         *)
(* Races names what else the schedules of this instance may contain:         *)
(*   "late"    a session ends in the app while its tokens are being renewed, *)
(*             or the customer signs in while requests of the last one are    *)
(*             out (the sign-out waits eight seconds for them, no longer)     *)
(*   "change"  an app has other requests out while it changes the password,  *)
(*             or while a change it no longer waits for goes on              *)
(***************************************************************************)
EXTENDS Integers, FiniteSets

\* No session, and no request.
None == 0

CONSTANTS Apps,        \* the customer's devices
          Requests,    \* what the apps have room for at once (a bound)
          Of(_),       \* whose a request is
          MaxSessions, \* sign-ins (a bound)
          MaxVersion,  \* changes of the password or the status (a bound)
          MaxIssued,   \* pairs issued to a session (a bound)
          Races        \* see above

ASSUME BoundsAssumption == MaxSessions \in Nat \ {0} /\ MaxVersion \in Nat /\ MaxIssued \in Nat \ {0}
ASSUME RequestsAssumption == None \notin Requests
ASSUME OfAssumption == \A r \in Requests : Of(r) \in Apps
ASSUME RacesAssumption == Races \subseteq {"late", "change"}

VARIABLES
  version,   \* customer.tokenVersion
  active,    \* customer.status is ACTIVE
  row,       \* the customer's sessions: a revoked one may be deleted too
  newest,    \* history: the latest pair issued to each
  ending,    \* a reset has committed, and endSessions is to revoke again
  screen,    \* what each app shows
  stored,    \* session.json
  request,   \* the requests of the apps
  renewing,  \* refreshInFlight: the request each app's renewal began with
  signIn,    \* the sign-in under way in each app
  excused    \* history: sessions the backend may refuse to renew although nobody ended
             \* them: their app was not told the pair its own change brought, or the
             \* account was disabled or changed just before they were opened

server == <<version, active, row, newest, ending>>
vars == <<version, active, row, newest, ending, screen, stored, request, renewing, signIn, excused>>

Sessions == 1..MaxSessions

Pair(s, v, n) == [sid |-> s, ver |-> v, n |-> n]
NoPair == Pair(None, 0, 0)

\* A request that is not there.  used is the pair it was sent with, got what
\* the backend has for it.
Free == [op |-> "none", pc |-> "free", used |-> NoPair, got |-> NoPair,
         again |-> FALSE, heard |-> TRUE]

NoSignIn == [pc |-> "none", pair |-> NoPair]

Mine(a) == {r \in Requests : Of(r) = a}

\* The renewal of the tokens, from the request that was refused to its end.
Renewing == {"reading", "asking", "refresh", "read", "renewed", "denied", "waiting", "clear"}
AtServer == {"refresh", "read", "renewed", "denied"}
Changing == {"kept", "committed", "opening", "changed"}

Live == {s \in Sessions : row[s] = "live"}

Revoked(kept) == [s \in Sessions |-> IF row[s] = "live" /\ s # kept THEN "revoked" ELSE row[s]]

\* The session a sign-in opens.
Unopened == {s \in Sessions : row[s] = "none"}
NewSession(s) == s \in Unopened /\ \A t \in Unopened : s <= t

-----------------------------------------------------------------------------
(* Requests of an app.                                                      *)

Set(r, new) == request' = [request EXCEPT ![r] = new]

Quiet(a) == \A r \in Mine(a) : request[r] = Free

\* No change of the password is under way together with another request.
Alone(a, op) ==
  "change" \notin Races =>
     /\ \A r \in Mine(a) : request[r].op # "change"
     /\ op = "change" => Quiet(a)

\* authenticatedAttempt
Send(r, op) ==
  LET a == Of(r) IN
  /\ screen[a] = "main"
  /\ stored[a] # NoPair
  /\ request[r] = Free
  /\ Alone(a, op)
  /\ Set(r, [Free EXCEPT !.op = op, !.pc = "sent", !.used = stored[a]])

Ask(r) == Send(r, "read") /\ UNCHANGED <<server, screen, stored, renewing, signIn, excused>>

ChangePassword(r) == Send(r, "change") /\ UNCHANGED <<server, screen, stored, renewing, signIn, excused>>

\* logout: the server first, then this device whatever it said.
SignOut(r) ==
  /\ Send(r, "logout")
  /\ screen' = [screen EXCEPT ![Of(r)] = "ending"]
  /\ UNCHANGED <<server, stored, renewing, signIn, excused>>

\* endCustomerSession
EndSession(a) ==
  /\ screen[a] = "ending"
  /\ "late" \notin Races => \A r \in Mine(a) : request[r].pc \notin Renewing
  /\ stored' = [stored EXCEPT ![a] = NoPair]
  /\ screen' = [screen EXCEPT ![a] = "login"]
  /\ UNCHANGED <<server, request, renewing, signIn, excused>>

\* The answer to a read.
Answer(r) ==
  /\ request[r].op = "read"
  /\ request[r].pc = "sent"
  /\ Set(r, Free)
  /\ UNCHANGED <<server, screen, stored, renewing, signIn, excused>>

\* A request whose access token has expired; one sent again is left at that.
Unauthorized(r) ==
  LET a == Of(r) IN
  /\ request[r].pc = "sent"
  /\ IF request[r].again THEN Set(r, Free)
     ELSE IF renewing[a] # None THEN Set(r, [request[r] EXCEPT !.pc = "waiting"])
     ELSE Set(r, [request[r] EXCEPT !.pc = "reading"])
  /\ UNCHANGED <<server, screen, stored, renewing, signIn, excused>>

Again(r, p) == [request[r] EXCEPT !.pc = "sent", !.used = p, !.got = NoPair, !.again = TRUE]

\* Mutant: what was so before the pair was read is taken to be so still.
BegunUnseen(a) == FALSE

\* Another request may have begun one while the pair was being read.
BegunMeanwhile(a) == renewing[a] # None

\* renewSession, once it has read what is stored.
RenewSession(r) ==
  LET a == Of(r) IN
  /\ request[r].pc = "reading"
  /\ \/ /\ stored[a] # NoPair /\ stored[a] # request[r].used
        /\ Set(r, Again(r, stored[a]))
        /\ UNCHANGED renewing
     \/ /\ stored[a] = NoPair \/ stored[a] = request[r].used
        /\ BegunMeanwhile(a)
        /\ Set(r, [request[r] EXCEPT !.pc = "waiting"])
        /\ UNCHANGED renewing
     \/ /\ stored[a] = NoPair \/ stored[a] = request[r].used
        /\ ~BegunMeanwhile(a)
        /\ Set(r, [request[r] EXCEPT !.pc = "asking"])
        /\ renewing' = [renewing EXCEPT ![a] = r]
  /\ UNCHANGED <<server, screen, stored, signIn, excused>>

\* What the renewal came to, for the request it began with and all that wait.
Settle(a, new(_)) ==
  /\ request' = [r \in Requests |->
                   IF r \in Mine(a) /\ (r = renewing[a] \/ request[r].pc = "waiting") THEN new(r) ELSE request[r]]
  /\ renewing' = [renewing EXCEPT ![a] = None]

Cleared(r) == [request[r] EXCEPT !.pc = "clear"]

\* Mutant: no answer is taken for a refusal.
FailedAsRefused(r) == [Cleared(r) EXCEPT !.got = request[renewing[Of(r)]].got]

Failed(r) == Free

\* refreshTokens: nothing stored, or the refresh goes out with what is.
RefreshTokens(a) ==
  /\ renewing[a] # None
  /\ LET r == renewing[a] IN
     /\ request[r].pc = "asking"
     /\ \/ /\ stored[a] = NoPair
           /\ Settle(a, Cleared)
        \/ /\ stored[a] # NoPair
           /\ Set(r, [request[r] EXCEPT !.pc = "refresh", !.got = stored[a]])
           /\ UNCHANGED renewing
  /\ UNCHANGED <<server, screen, stored, signIn, excused>>

\* The new pair is stored, and every request that waited is sent again with it.
Renewed(a) ==
  /\ renewing[a] # None
  /\ LET p == request[renewing[a]].got IN
     /\ request[renewing[a]].pc = "renewed"
     /\ stored' = [stored EXCEPT ![a] = p]
     /\ Settle(a, LAMBDA r : Again(r, p))
  /\ UNCHANGED <<server, screen, signIn, excused>>

\* The backend's 401: the session is over.  got stays the pair it refused.
Refused(a) ==
  /\ renewing[a] # None
  /\ request[renewing[a]].pc = "denied"
  /\ LET p == request[renewing[a]].got IN
     Settle(a, LAMBDA r : [Cleared(r) EXCEPT !.got = p])
  /\ UNCHANGED <<server, screen, stored, signIn, excused>>

\* No answer to the refresh, or one that is not the backend's.  What the backend
\* may still do for it is seen by nobody.
Unavailable(a) ==
  /\ renewing[a] # None
  /\ request[renewing[a]].pc \in AtServer
  /\ Settle(a, Failed)
  /\ UNCHANGED <<server, screen, stored, signIn, excused>>

\* clearTokens, and announceSessionRevoked when the backend refused.
Clear(r) ==
  LET a == Of(r) IN
  /\ request[r].pc = "clear"
  /\ stored' = [stored EXCEPT ![a] = NoPair]
  /\ screen' = IF request[r].got = NoPair THEN screen ELSE [screen EXCEPT ![a] = "ending"]
  /\ Set(r, Free)
  /\ UNCHANGED <<server, renewing, signIn, excused>>

\* The pair a change of password brought is stored.
Changed(r) ==
  /\ request[r].pc = "changed"
  /\ stored' = [stored EXCEPT ![Of(r)] = request[r].got]
  /\ Set(r, Free)
  /\ UNCHANGED <<server, screen, renewing, signIn, excused>>

\* What an app that stops listening leaves of a request: a change the
\* backend is at goes on.
Abandoned(r) ==
  IF request[r].pc \in Changing \ {"changed"} THEN [request[r] EXCEPT !.heard = FALSE] ELSE Free

UntoldOf(rs) == {request[r].got.sid : r \in {q \in rs : request[q].pc = "changed"}}

\* No answer to any other request in time.
Lose(r) ==
  /\ request[r].pc \in {"sent"} \cup Changing
  /\ request[r].heard
  /\ Set(r, Abandoned(r))
  /\ excused' = excused \cup UntoldOf({r})
  /\ UNCHANGED <<server, screen, stored, renewing, signIn>>

\* The app is closed and started again.
Restart(a) ==
  /\ request' = [r \in Requests |-> IF r \in Mine(a) THEN Abandoned(r) ELSE request[r]]
  /\ excused' = excused \cup UntoldOf(Mine(a))
  /\ renewing' = [renewing EXCEPT ![a] = None]
  /\ signIn' = [signIn EXCEPT ![a] = NoSignIn]
  /\ screen' = [screen EXCEPT ![a] = IF stored[a] = NoPair THEN "login" ELSE "main"]
  /\ UNCHANGED <<server, stored>>

-----------------------------------------------------------------------------
(* The backend.                                                             *)

Moved == version < MaxVersion /\ version' = version + 1

\* issueTokenPair
Issued(p) == Pair(p.sid, p.ver, newest[p.sid].n + 1)

\* refresh: the account's version and status are read ...
Refresh(r) ==
  /\ request[r].pc = "refresh"
  /\ Set(r, [request[r] EXCEPT !.pc = IF active /\ request[r].got.ver = version THEN "read" ELSE "denied"])
  /\ UNCHANGED <<server, screen, stored, renewing, signIn, excused>>

\* ... and then the session, unless it is revoked, is marked as used.
Issue(r) ==
  LET p == request[r].got IN
  /\ request[r].pc = "read"
  /\ IF row[p.sid] = "live"
     THEN /\ newest[p.sid].n < MaxIssued
          /\ newest' = [newest EXCEPT ![p.sid] = Issued(p)]
          /\ Set(r, [request[r] EXCEPT !.pc = "renewed", !.got = Issued(p)])
     ELSE /\ Set(r, [request[r] EXCEPT !.pc = "denied"])
          /\ UNCHANGED newest
  /\ UNCHANGED <<version, active, row, ending, screen, stored, renewing, signIn, excused>>

\* revokeSession
RevokeSession(r) ==
  /\ request[r].op = "logout"
  /\ request[r].pc = "sent"
  /\ row' = [row EXCEPT ![request[r].used.sid] = "revoked"]
  /\ Set(r, Free)
  /\ UNCHANGED <<version, active, newest, ending, screen, stored, renewing, signIn, excused>>

\* changePassword: the current password is right, and the caller keeps its
\* session, if it has one still ...
Keep(r) ==
  LET s == request[r].used.sid IN
  /\ request[r].op = "change"
  /\ request[r].pc = "sent"
  /\ Set(r, [request[r] EXCEPT !.pc = "kept",
                               !.got = Pair(IF row[s] = "live" THEN s ELSE None, 0, 0)])
  /\ UNCHANGED <<server, screen, stored, renewing, signIn, excused>>

\* ... the password, the version and the other sessions in one transaction ...
Commit(r) ==
  /\ request[r].pc = "kept"
  /\ Moved
  /\ row' = Revoked(request[r].got.sid)
  /\ Set(r, [request[r] EXCEPT !.pc = "committed", !.got.ver = version + 1])
  /\ UNCHANGED <<active, newest, ending, screen, stored, renewing, signIn, excused>>

\* endSessions, whose failure is logged and no more.
RevokesAgain(kept) == row' \in {Revoked(kept), row}

\* What the answer to a change finds: the app, or nobody.
Told(r, p) == IF request[r].heard THEN [request[r] EXCEPT !.pc = "changed", !.got = p] ELSE Free

\* ... the others once more and the kept session's new pair ...
EndOthers(r) ==
  LET p == request[r].got IN
  /\ request[r].pc = "committed"
  /\ RevokesAgain(p.sid)
  /\ IF p.sid = None
     THEN Set(r, [request[r] EXCEPT !.pc = "opening"]) /\ UNCHANGED <<newest, excused>>
     ELSE /\ newest' = [newest EXCEPT ![p.sid] = Issued(p)]
          /\ Set(r, Told(r, Issued(p)))
          /\ excused' = IF request[r].heard THEN excused ELSE excused \cup {p.sid}
  /\ UNCHANGED <<version, active, ending, screen, stored, renewing, signIn>>

\* openSession, for a customer whose row was read, or written, at version v
Opens(s, v) ==
  /\ NewSession(s)
  /\ row' = [row EXCEPT ![s] = "live"]
  /\ excused' = IF active /\ v = version THEN excused ELSE excused \cup {s}
  /\ newest' = [newest EXCEPT ![s] = Pair(s, v, 1)]

\* Mutant: the pair without a session.
OpenNothing(r) ==
  /\ request[r].pc = "opening"
  /\ Set(r, Told(r, Pair(None, request[r].got.ver, 1)))
  /\ UNCHANGED <<server, screen, stored, renewing, signIn, excused>>

\* ... or that of one opened for it.
OpenForChange(r) ==
  /\ request[r].pc = "opening"
  /\ \E s \in Sessions :
        /\ Opens(s, request[r].got.ver)
        /\ Set(r, Told(r, Pair(s, request[r].got.ver, 1)))
  /\ UNCHANGED <<version, active, ending, screen, stored, renewing, signIn>>

\* Mutant: the sessions are left to endSessions.
ResetAlone ==
  /\ Moved
  /\ ending' = TRUE
  /\ UNCHANGED <<active, row, newest, screen, stored, request, renewing, signIn, excused>>

\* applyNewPassword, for a reset by code or link, and the operator's own
\* new password: one transaction, and endSessions after it.
Reset ==
  /\ Moved
  /\ row' = Revoked(None)
  /\ ending' = TRUE
  /\ UNCHANGED <<active, newest, screen, stored, request, renewing, signIn, excused>>

\* disable, which may be repeated
Disable ==
  /\ Moved
  /\ active' = FALSE
  /\ row' = Revoked(None)
  /\ ending' = TRUE
  /\ UNCHANGED <<newest, screen, stored, request, renewing, signIn, excused>>

EndSessions ==
  /\ ending
  /\ ending' = FALSE
  /\ RevokesAgain(None)
  /\ UNCHANGED <<version, active, newest, screen, stored, request, renewing, signIn, excused>>

\* update, with the status ACTIVE.
Enable ==
  /\ ~active
  /\ active' = TRUE
  /\ UNCHANGED <<version, row, newest, ending, screen, stored, request, renewing, signIn, excused>>

\* login: the password is looked at ...
ValidateCredentials(a) ==
  /\ screen[a] = "login"
  /\ signIn[a] = NoSignIn
  /\ "late" \notin Races => Quiet(a)
  /\ active
  /\ Unopened # {}
  /\ signIn' = [signIn EXCEPT ![a] = [pc |-> "checked", pair |-> Pair(None, version, 1)]]
  /\ UNCHANGED <<server, screen, stored, request, renewing, excused>>

\* ... and a session is opened under the version read with it.
OpenSession(a) ==
  /\ signIn[a].pc = "checked"
  /\ \E s \in Sessions :
        /\ Opens(s, signIn[a].pair.ver)
        /\ signIn' = [signIn EXCEPT ![a] = [pc |-> "opened", pair |-> Pair(s, signIn[a].pair.ver, 1)]]
  /\ UNCHANGED <<version, active, ending, screen, stored, request, renewing>>

\* The app has its tokens ...
SignedIn(a) ==
  /\ signIn[a].pc = "opened"
  /\ stored' = [stored EXCEPT ![a] = signIn[a].pair]
  /\ screen' = IF screen[a] = "login" THEN [screen EXCEPT ![a] = "main"] ELSE screen
  /\ signIn' = [signIn EXCEPT ![a] = NoSignIn]
  /\ UNCHANGED <<server, request, renewing, excused>>

\* ... or no answer.
SignInFails(a) ==
  /\ signIn[a].pc # "none"
  /\ signIn' = [signIn EXCEPT ![a] = NoSignIn]
  /\ UNCHANGED <<server, screen, stored, request, renewing, excused>>

-----------------------------------------------------------------------------
Init ==
  /\ version = 0
  /\ active = TRUE
  /\ row = [s \in Sessions |-> "none"]
  /\ newest = [s \in Sessions |-> NoPair]
  /\ ending = FALSE
  /\ screen = [a \in Apps |-> "login"]
  /\ stored = [a \in Apps |-> NoPair]
  /\ request = [r \in Requests |-> Free]
  /\ renewing = [a \in Apps |-> None]
  /\ signIn = [a \in Apps |-> NoSignIn]
  /\ excused = {}

Next ==
  \/ \E r \in Requests :
        \/ Ask(r) \/ ChangePassword(r) \/ SignOut(r)
        \/ Answer(r) \/ Unauthorized(r) \/ RenewSession(r) \/ Clear(r) \/ Changed(r) \/ Lose(r)
        \/ Refresh(r) \/ Issue(r) \/ RevokeSession(r)
        \/ Keep(r) \/ Commit(r) \/ EndOthers(r) \/ OpenForChange(r)
  \/ \E a \in Apps :
        \/ RefreshTokens(a) \/ Renewed(a) \/ Refused(a) \/ Unavailable(a)
        \/ EndSession(a) \/ Restart(a)
        \/ ValidateCredentials(a) \/ OpenSession(a) \/ SignedIn(a) \/ SignInFails(a)
  \/ Reset \/ Disable \/ EndSessions \/ Enable

Spec == Init /\ [][Next]_vars
-----------------------------------------------------------------------------
(* Properties.                                                              *)

Pairs == [sid : Sessions, ver : 0..MaxVersion, n : Nat \ {0}]
MaybePairs == Pairs \cup {NoPair}

\* What the backend has for a request: at times a session without a pair.
Found == [sid : Sessions \cup {None}, ver : 0..MaxVersion, n : Nat]

RequestStates ==
  [op : {"none", "read", "change", "logout"},
   pc : {"free", "sent"} \cup Renewing \cup Changing,
   used : MaybePairs, got : Found, again : BOOLEAN, heard : BOOLEAN]

SignInStates == [pc : {"none", "checked", "opened"}, pair : Found]

\* Everything is of the kind it is meant to be; every pair an app has, or has
\* been sent, belongs to a session (customer-auth.service.ts, issueTokenPair).
TypeOK ==
  /\ version \in 0..MaxVersion
  /\ active \in BOOLEAN
  /\ row \in [Sessions -> {"none", "live", "revoked"}]
  /\ newest \in [Sessions -> MaybePairs]
  /\ ending \in BOOLEAN
  /\ screen \in [Apps -> {"login", "main", "ending"}]
  /\ stored \in [Apps -> MaybePairs]
  /\ request \in [Requests -> RequestStates]
  /\ renewing \in [Apps -> Requests \cup {None}]
  /\ signIn \in [Apps -> SignInStates]
  /\ excused \subseteq Sessions
  /\ \A r \in Requests : request[r].pc \in AtServer \cup {"changed"} => request[r].got \in Pairs
  /\ \A a \in Apps : signIn[a].pc = "opened" => signIn[a].pair \in Pairs

\* One renewal at a time: the request it began with is the one renewing, and
\* a request waits only where there is one (api.ts, renewSession).
OneRenewal ==
  \A r \in Requests :
     /\ request[r].pc \in {"asking"} \cup AtServer <=> renewing[Of(r)] = r
     /\ request[r].pc = "waiting" => renewing[Of(r)] # None

BeingChanged == {request[r].got.sid : r \in {q \in Requests : request[q].pc \in {"committed", "changed"}}}

\* An app drops a session as refused only when it was ended (signed out,
\* reset, disabled, or the password changed elsewhere).
RefusedForCause ==
  \A r \in Requests :
     request[r].pc = "clear" /\ request[r].got # NoPair
       => \/ row[request[r].got.sid] = "revoked"
          \/ request[r].got.sid \in excused \cup BeingChanged

\* A session that is not ended can be renewed: the last pair issued to it,
\* and what any app has stored of it, is of the account's version.
LiveIsCurrent ==
  \A s \in Live \ (excused \cup BeingChanged) :
     /\ newest[s].ver = version
     /\ \A a \in Apps : stored[a].sid = s => stored[a].ver = version

=============================================================================
